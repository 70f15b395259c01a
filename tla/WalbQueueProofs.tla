-------------------------- MODULE WalbQueueProofs --------------------------
(***************************************************************************)
(* Proof that the writes get their lsids in the order of their requests,   *)
(* that pending_sectors is exact and that iocore_freeze returns with       *)
(* nothing on its way, for any number of writes and whatever the limits,   *)
(* the freezes and the failures in between.                                *)
(*                                                                         *)
(* FifoOrder speaks of the writes that have an lsid.  It is kept because   *)
(* of those that do not: the submit queue and behind it the frozen queue   *)
(* are one line, which holds requests in their order, all of them later    *)
(* than any write that has an lsid and earlier than any that is to come.   *)
(* Melting the queue leaves the line as it is.                             *)
(*                                                                         *)
(* PendingExact and FrozenQuiet rest on where the writes are.  A task      *)
(* takes a write from its queue and supposes that it is in the state that  *)
(* the task before left it in, and that nobody else has it.  Places says   *)
(* so of every queue and every pack.  Hence each step moves a write from   *)
(* one state to the next (OneMoves, EndMoves, ManyMoves), the counters     *)
(* stay the sizes of the sets that they count (Counts), and a freeze that  *)
(* has seen a counter at zero knows that its set is empty and stays so     *)
(* (Freezing).  Ends follows the lsids of the packs from latest_lsid to    *)
(* written_lsid.                                                           *)
(***************************************************************************)
EXTENDS WalbQueue, SequenceTheorems, TLAPS, FiniteSetTheorems

\* The submit queue and behind it the frozen queue.
Line(q) == q.submit \o q.frozen

\* The fields of the records: EXCEPT adds none.
BiowShape(b) ==
  /\ b = [i \in Ids |-> b[i]]
  /\ \A i \in Ids : b[i] = [st |-> b[i].st, len |-> b[i].len, discard |-> b[i].discard,
                            lsid |-> b[i].lsid, error |-> b[i].error]
QueueShape(q) == q = [frozen |-> q.frozen, submit |-> q.submit, log |-> q.log,
                      data |-> q.data, wait |-> q.wait, gc |-> q.gc]
CountShape(c) == c = [started |-> c.started, gc |-> c.gc, latest |-> c.latest,
                      written |-> c.written]

Shape == BiowShape(biow) /\ QueueShape(queue) /\ CountShape(count)

Types ==
  /\ queue.submit \in Seq(Ids)
  /\ queue.frozen \in Seq(Ids)
  /\ count.latest \in Nat
  /\ \A i \in Ids : biow[i].lsid \in 0..count.latest

\* The line is in the order of the requests.
LineSorted(q) == \A k, m \in 1..Len(q) : k < m => q[k] < q[m]

\* Its writes are later than those with an lsid, and no earlier request is to come.
LineBetween(q, b) ==
  \A k \in 1..Len(q), j \in Ids :
    /\ j <= q[k] => b[j].st # "none"
    /\ b[j].lsid > 0 => j < q[k]

\* No request before a write with an lsid is to come.
LoggedFirst(b) == \A i, j \in Ids : b[i].lsid > 0 /\ j <= i => b[j].st # "none"

Sorted(b) ==
  \A i, j \in Ids : i < j /\ b[j].lsid > 0 /\ b[i].lsid > 0 => b[i].lsid < b[j].lsid

Order(q, b) == LineSorted(q) /\ LineBetween(q, b) /\ LoggedFirst(b) /\ Sorted(b)

QueueInv == Shape /\ Types /\ Order(Line(queue), biow)

-----------------------------------------------------------------------------
\* Min of two numbers, as the size of a batch is computed.
LEMMA MinOfTwo ==
  ASSUME NEW a \in Nat, NEW b \in Nat
  PROVE  Min({a, b}) \in {a, b} /\ Min({a, b}) <= a /\ Min({a, b}) <= b
<1>1. \E x \in {a, b} : \A y \in {a, b} : x <= y
  BY SMT
<1> QED
  BY <1>1 DEF Min

\* The line holds the writes of the submit queue and then those of the frozen queue.
LEMMA LineType ==
  ASSUME NEW q, q.submit \in Seq(Ids), q.frozen \in Seq(Ids)
  PROVE  /\ Line(q) \in Seq(Ids)
         /\ Len(Line(q)) = Len(q.submit) + Len(q.frozen)
         /\ \A k \in 1..Len(q.submit) : Line(q)[k] = q.submit[k]
         /\ \A k \in 1..Len(q.frozen) : Line(q)[Len(q.submit) + k] = q.frozen[k]
<1> DEFINE s == q.submit  f == q.frozen
<1>1. /\ s \o f \in Seq(Ids)
      /\ Len(s \o f) = Len(s) + Len(f)
      /\ \A i \in 1..Len(s) + Len(f) : (s \o f)[i] = IF i <= Len(s) THEN s[i] ELSE f[i - Len(s)]
  BY ConcatProperties
<1>2. Len(s) \in Nat /\ Len(f) \in Nat
  BY LenProperties
<1> HIDE DEF s, f
<1>3. \A k \in 1..Len(s) : (s \o f)[k] = s[k]
  BY <1>1, <1>2
<1>4. \A k \in 1..Len(f) : (s \o f)[Len(s) + k] = f[k]
  <2> SUFFICES ASSUME NEW k \in 1..Len(f)
               PROVE  (s \o f)[Len(s) + k] = f[k]
    OBVIOUS
  <2>1. Len(s) + k \in 1..Len(s) + Len(f) /\ ~(Len(s) + k <= Len(s)) /\ (Len(s) + k) - Len(s) = k
    BY <1>2
  <2> QED
    BY <1>1, <2>1
<1> QED
  BY <1>1, <1>3, <1>4 DEF Line, s, f

\* A step that assigns no lsid and takes no write out of "none" back keeps the order.
LEMMA OrderKept ==
  ASSUME NEW q \in Seq(Ids), NEW b, NEW c, Order(q, b),
         \A i \in Ids : c[i].lsid = b[i].lsid,
         \A i \in Ids : b[i].st # "none" => c[i].st # "none"
  PROVE  Order(q, c)
BY Zenon DEF Order, LineSorted, LineBetween, LoggedFirst, Sorted

\* A request goes to the end of the line.
LEMMA OrderPush ==
  ASSUME NEW q \in Seq(Ids), NEW r, NEW b, NEW i \in Ids, Order(q, b),
         \A j \in Ids : b[j].lsid \in Nat,
         b[i].st # "none", b[i].lsid = 0,
         \A j \in 1..i - 1 : b[j].st # "none",
         \A k \in 1..Len(q) : q[k] < i,
         \A j \in Ids : b[j].lsid > 0 => j < i,
         r = Append(q, i)
  PROVE  Order(r, b)
<1>1. /\ Len(r) = Len(q) + 1
      /\ \A k \in 1..Len(q) : r[k] = q[k]
      /\ r[Len(q) + 1] = i
      /\ Len(q) \in Nat
  BY AppendProperties, LenProperties
<1>2. \A k \in 1..Len(r) : k \in 1..Len(q) \/ k = Len(q) + 1
  BY <1>1
<1>3. Ids \subseteq Nat
  BY DEF Ids
<1>4. \A k \in 1..Len(q) : q[k] \in Ids
  BY ElementOfSeq
<1>5. LineSorted(r)
  BY <1>1, <1>2, <1>3, <1>4 DEF LineSorted, Order
<1>6. LineBetween(r, b)
  <2> SUFFICES ASSUME NEW k \in 1..Len(r), NEW j \in Ids
               PROVE  /\ j <= r[k] => b[j].st # "none"
                      /\ b[j].lsid > 0 => j < r[k]
    BY DEF LineBetween
  <2>1. CASE k \in 1..Len(q)
    BY <1>1, <2>1 DEF Order, LineBetween
  <2>2. CASE k = Len(q) + 1
    <3>1. j <= i => j = i \/ j \in 1..i - 1
      BY <1>3 DEF Ids
    <3> QED
      BY <1>1, <2>2, <3>1, Zenon
  <2> QED
    BY <1>2, <2>1, <2>2
<1> QED
  BY <1>5, <1>6 DEF Order

\* The first n writes leave the line.
LEMMA OrderDrop ==
  ASSUME NEW q \in Seq(Ids), NEW r \in Seq(Ids), NEW b, NEW n \in Nat, Order(q, b),
         Len(q) = Len(r) + n,
         \A k \in 1..Len(r) : r[k] = q[k + n]
  PROVE  Order(r, b)
<1>1. Len(r) \in Nat
  BY LenProperties
<1>2. \A k \in 1..Len(r) : k + n \in 1..Len(q)
  BY <1>1
<1>3. LineSorted(r)
  <2> SUFFICES ASSUME NEW k \in 1..Len(r), NEW m \in 1..Len(r), k < m
               PROVE  r[k] < r[m]
    BY DEF LineSorted
  <2>1. k + n < m + n
    BY <1>1
  <2> QED
    BY <1>2, <2>1, Zenon DEF Order, LineSorted
<1>4. LineBetween(r, b)
  BY <1>2, Zenon DEF Order, LineBetween
<1> QED
  BY <1>3, <1>4 DEF Order

\* b and q become c and r: the first n writes get the n lsids after latest.
Logged(q, r, b, c, n, latest) ==
  /\ q \in Seq(Ids) /\ r \in Seq(Ids) /\ n \in Nat /\ latest \in Nat
  /\ \A i \in Ids : b[i].lsid \in 0..latest
  /\ Len(q) = Len(r) + n
  /\ \A k \in 1..Len(r) : r[k] = q[k + n]
  /\ \A k \in 1..n : c[q[k]].st # "none" /\ c[q[k]].lsid = latest + k
  /\ \A i \in Ids : (\A k \in 1..n : q[k] # i) => c[i] = b[i]

\* The first n writes leave the line and get the next n lsids.
LEMMA OrderLog ==
  ASSUME NEW q, NEW r, NEW b, NEW c, NEW n, NEW latest,
         Order(q, b), Logged(q, r, b, c, n, latest)
  PROVE  Order(r, c)
<1> USE DEF Logged
<1>1. Len(r) \in Nat /\ Ids \subseteq Nat
  BY LenProperties DEF Ids
<1>2. \A k \in 1..n : k \in 1..Len(q)
  BY <1>1
<1>3. \A k \in 1..Len(r) : k + n \in 1..Len(q)
  BY <1>1
<1>4. \A k \in 1..Len(q) : q[k] \in Ids
  BY ElementOfSeq
<1>5. LineSorted(q) /\ LineBetween(q, b) /\ LoggedFirst(b) /\ Sorted(b)
  BY DEF Order
<1>6. LineSorted(r)
  BY OrderDrop DEF Order
<1>7. ASSUME NEW i \in Ids, b[i].st # "none" PROVE c[i].st # "none"
  BY <1>7, Zenon
<1>8. ASSUME NEW k \in 1..Len(r), NEW j \in Ids, j <= r[k] PROVE c[j].st # "none"
  BY <1>3, <1>5, <1>7, <1>8, Zenon DEF LineBetween
<1>9. ASSUME NEW k \in 1..Len(r), NEW j \in Ids, c[j].lsid > 0 PROVE j < r[k]
  <2>1. CASE \E m \in 1..n : q[m] = j
    <3>1. PICK m \in 1..n : q[m] = j
      BY <2>1
    <3>2. m < k + n
      BY <1>1
    <3> QED
      BY <1>2, <1>3, <1>5, <3>1, <3>2, Zenon DEF LineSorted
  <2>2. CASE \A m \in 1..n : q[m] # j
    BY <1>3, <1>5, <1>9, <2>2, Zenon DEF LineBetween
  <2> QED
    BY <2>1, <2>2
<1>10. ASSUME NEW i \in Ids, NEW j \in Ids, c[i].lsid > 0, j <= i PROVE c[j].st # "none"
  <2>1. CASE \E m \in 1..n : q[m] = i
    BY <1>2, <1>5, <1>7, <1>10, <2>1, Zenon DEF LineBetween
  <2>2. CASE \A m \in 1..n : q[m] # i
    BY <1>5, <1>7, <1>10, <2>2, Zenon DEF LoggedFirst
  <2> QED
    BY <2>1, <2>2
<1>11. ASSUME NEW i \in Ids, NEW j \in Ids, i < j, c[j].lsid > 0, c[i].lsid > 0
       PROVE  c[i].lsid < c[j].lsid
  <2>1. CASE \E m \in 1..n : q[m] = j
    <3>1. PICK m \in 1..n : q[m] = j
      BY <2>1
    <3>2. CASE \E k \in 1..n : q[k] = i
      <4>1. PICK k \in 1..n : q[k] = i
        BY <3>2
      <4>2. k < m
        <5>1. CASE k = m
          BY <1>1, <1>11, <3>1, <4>1, <5>1
        <5>2. CASE m < k
          <6>1. j < i
            BY <1>2, <1>5, <3>1, <4>1, <5>2, Zenon DEF LineSorted
          <6> QED
            BY <1>1, <1>11, <6>1
        <5> QED
          BY <5>1, <5>2
      <4> QED
        BY <3>1, <4>1, <4>2
    <3>3. CASE \A k \in 1..n : q[k] # i
      <4>1. c[i] = b[i] /\ b[i].lsid \in 0..latest
        BY <3>3
      <4> QED
        BY <3>1, <4>1
    <3> QED
      BY <3>2, <3>3
  <2>2. CASE \A m \in 1..n : q[m] # j
    <3>1. c[j] = b[j]
      BY <2>2
    <3>2. CASE \E k \in 1..n : q[k] = i
      <4>1. PICK k \in 1..n : q[k] = i
        BY <3>2
      <4>2. j < i
        BY <1>2, <1>5, <1>11, <3>1, <4>1, Zenon DEF LineBetween
      <4> QED
        BY <1>1, <1>11, <4>2
    <3>3. CASE \A k \in 1..n : q[k] # i
      <4>1. c[i] = b[i]
        BY <3>3
      <4> QED
        BY <1>5, <1>11, <3>1, <4>1, Zenon DEF Sorted
    <3> QED
      BY <3>2, <3>3
  <2> QED
    BY <2>1, <2>2
<1> QED
  BY <1>6, <1>8, <1>9, <1>10, <1>11 DEF Order, LineBetween, LoggedFirst, Sorted

-----------------------------------------------------------------------------
\* What a step leaves alone that assigns no lsid: lsids stay, no write goes back to "none",
BiowStep(b, c) ==
  /\ BiowShape(c)
  /\ \A i \in Ids : c[i].lsid = b[i].lsid
  /\ \A i \in Ids : b[i].st # "none" => c[i].st # "none"

\* the line stays
QueueStep(q, r) ==
  /\ QueueShape(r)
  /\ r.submit \in Seq(Ids)
  /\ r.frozen \in Seq(Ids)
  /\ Line(r) = Line(q)

\* and so does latest_lsid.
CountStep(c, d) == CountShape(d) /\ d.latest = c.latest

\* What the record of one write is after a step.
Bio(r) == r = [st |-> r.st, len |-> r.len, discard |-> r.discard, lsid |-> r.lsid,
               error |-> r.error]

\* Every write is moved, ended, destroyed or left alone.
LEMMA BiowEach ==
  ASSUME NEW b, NEW c,
         \A j \in Ids : Bio(c[j]) /\ c[j].lsid = b[j].lsid,
         \A j \in Ids : b[j].st # "none" => c[j].st # "none",
         c = [j \in Ids |-> c[j]]
  PROVE  BiowStep(b, c)
BY Zenon DEF BiowShape, BiowStep, Bio

\* A task moves one write along.
LEMMA BiowMoved ==
  ASSUME NEW b, NEW i, NEW s, BiowShape(b), s # "none"
  PROVE  BiowStep(b, [b EXCEPT ![i].st = s])
<1> DEFINE c == [b EXCEPT ![i].st = s]
<1>1. b = [j \in Ids |-> b[j]] /\ \A j \in Ids : Bio(b[j])
  BY DEF BiowShape, Bio
<1>2. c = [j \in Ids |-> c[j]]
  BY <1>1
<1>3. ASSUME NEW j \in Ids
      PROVE  Bio(c[j]) /\ c[j].lsid = b[j].lsid /\ (b[j].st # "none" => c[j].st # "none")
  <2>1. CASE j = i
    <3>1. c[j] = [b[j] EXCEPT !.st = s]
      BY <1>1, <2>1
    <3> QED
      BY <1>1, <3>1 DEF Bio
  <2>2. CASE j # i
    <3>1. c[j] = b[j]
      BY <1>1, <2>2
    <3> QED
      BY <1>1, <3>1
  <2> QED
    BY <2>1, <2>2
<1> QED
  BY <1>2, <1>3, BiowEach, SMTT(40), ZenonT(40)

\* The same when the write ends with or without an error.
LEMMA BiowEnded ==
  ASSUME NEW b, NEW i, NEW s, NEW e, BiowShape(b), s # "none"
  PROVE  BiowStep(b, [b EXCEPT ![i].st = s, ![i].error = e])
<1> DEFINE c == [b EXCEPT ![i].st = s, ![i].error = e]
<1>1. b = [j \in Ids |-> b[j]] /\ \A j \in Ids : Bio(b[j])
  BY DEF BiowShape, Bio
<1>2. c = [j \in Ids |-> c[j]]
  BY <1>1
<1>3. ASSUME NEW j \in Ids
      PROVE  Bio(c[j]) /\ c[j].lsid = b[j].lsid /\ (b[j].st # "none" => c[j].st # "none")
  <2>1. CASE j = i
    <3>1. c[j] = [b[j] EXCEPT !.st = s, !.error = e]
      BY <1>1, <2>1
    <3> QED
      BY <1>1, <3>1 DEF Bio
  <2>2. CASE j # i
    <3>1. c[j] = b[j]
      BY <1>1, <2>2
    <3> QED
      BY <1>1, <3>1
  <2> QED
    BY <2>1, <2>2
<1> HIDE DEF c
<1>4. BiowStep(b, c)
  BY <1>2, <1>3, BiowEach
<1> QED
  BY <1>4 DEF c

\* destroy_bio_wrapper_dec leaves the lsid.
LEMMA BiowDestroyed ==
  ASSUME NEW ids, NEW s, BiowShape(biow), s # "none"
  PROVE  BiowStep(biow, Destroyed(ids, s))
<1> DEFINE c == Destroyed(ids, s)
<1>1. \A j \in Ids : Bio(biow[j])
  BY DEF BiowShape, Bio
<1>2. c = [j \in Ids |-> c[j]]
  BY DEF Destroyed
<1>3. ASSUME NEW j \in Ids
      PROVE  Bio(c[j]) /\ c[j].lsid = biow[j].lsid /\ (biow[j].st # "none" => c[j].st # "none")
  <2>1. CASE j \in ids
    <3>1. c[j] = [NoBiow EXCEPT !.st = s, !.lsid = biow[j].lsid]
      BY <2>1 DEF Destroyed
    <3>2. /\ c[j] = [st |-> s, len |-> 0, discard |-> FALSE, lsid |-> biow[j].lsid,
                     error |-> FALSE]
      BY <3>1 DEF NoBiow
    <3> QED
      BY <3>2 DEF Bio
  <2>2. CASE j \notin ids
    <3>1. c[j] = biow[j]
      BY <2>2 DEF Destroyed
    <3> QED
      BY <1>1, <3>1
  <2> QED
    BY <2>1, <2>2
<1> HIDE DEF c
<1>4. BiowStep(biow, c)
  BY <1>2, <1>3, BiowEach
<1> QED
  BY <1>4 DEF c

\* Nothing changes.
LEMMA Stay ==
  ASSUME Shape, Types
  PROVE  BiowStep(biow, biow) /\ QueueStep(queue, queue) /\ CountStep(count, count)
BY Zenon DEF Shape, Types, BiowStep, QueueStep, CountStep

\* The queues behind the submit queue are not part of the line.
LEMMA QueueBehind ==
  ASSUME NEW x, Shape, Types
  PROVE  /\ QueueStep(queue, [queue EXCEPT !.log = x])
         /\ QueueStep(queue, [queue EXCEPT !.data = x])
         /\ QueueStep(queue, [queue EXCEPT !.wait = x])
         /\ QueueStep(queue, [queue EXCEPT !.gc = x])
BY SMTT(40) DEF Shape, Types, QueueShape, QueueStep, Line

\* The ways in which the line changes.
NewLine(q, x, y) == [q EXCEPT !.submit = x, !.frozen = y]
NewSubmit(q, x) == [q EXCEPT !.submit = x]
NewFrozen(q, y) == [q EXCEPT !.frozen = y]
NewLog(q, x, l) == [q EXCEPT !.submit = x, !.log = l]

\* What they leave.
LEMMA LineSet ==
  ASSUME NEW q, NEW x, NEW y, QueueShape(q)
  PROVE  QueueShape(NewLine(q, x, y)) /\ NewLine(q, x, y).submit = x /\ NewLine(q, x, y).frozen = y
<1>1. \E a, b, c, d, e, g : q = [frozen |-> a, submit |-> b, log |-> c, data |-> d,
                                 wait |-> e, gc |-> g]
  BY Zenon DEF QueueShape
<1>2. PICK a, b, c, d, e, g : q = [frozen |-> a, submit |-> b, log |-> c, data |-> d,
                                   wait |-> e, gc |-> g]
  BY <1>1
<1>3. ASSUME NEW r, r = NewLine(q, x, y)
      PROVE  QueueShape(r) /\ r.submit = x /\ r.frozen = y
  BY <1>2, <1>3 DEF QueueShape, NewLine
<1> QED
  BY <1>3

\* A batch leaves the submit queue, or a write enters it.
LEMMA SubmitSet ==
  ASSUME NEW q, NEW x, QueueShape(q)
  PROVE  QueueShape(NewSubmit(q, x)) /\ NewSubmit(q, x).submit = x /\ NewSubmit(q, x).frozen = q.frozen
<1>1. \E a, b, c, d, e, g : q = [frozen |-> a, submit |-> b, log |-> c, data |-> d,
                                 wait |-> e, gc |-> g]
  BY Zenon DEF QueueShape
<1>2. PICK a, b, c, d, e, g : q = [frozen |-> a, submit |-> b, log |-> c, data |-> d,
                                   wait |-> e, gc |-> g]
  BY <1>1
<1>3. ASSUME NEW r, r = NewSubmit(q, x)
      PROVE  QueueShape(r) /\ r.submit = x /\ r.frozen = q.frozen
  BY <1>2, <1>3 DEF QueueShape, NewSubmit
<1> QED
  BY <1>3

\* A write enters the frozen queue.
LEMMA FrozenSet ==
  ASSUME NEW q, NEW y, QueueShape(q)
  PROVE  QueueShape(NewFrozen(q, y)) /\ NewFrozen(q, y).submit = q.submit /\ NewFrozen(q, y).frozen = y
<1>1. \E a, b, c, d, e, g : q = [frozen |-> a, submit |-> b, log |-> c, data |-> d,
                                 wait |-> e, gc |-> g]
  BY Zenon DEF QueueShape
<1>2. PICK a, b, c, d, e, g : q = [frozen |-> a, submit |-> b, log |-> c, data |-> d,
                                   wait |-> e, gc |-> g]
  BY <1>1
<1>3. ASSUME NEW r, r = NewFrozen(q, y)
      PROVE  QueueShape(r) /\ r.submit = q.submit /\ r.frozen = y
  BY <1>2, <1>3 DEF QueueShape, NewFrozen
<1> QED
  BY <1>3

\* A batch goes to the log.
LEMMA LogSet ==
  ASSUME NEW q, NEW x, NEW l, QueueShape(q)
  PROVE  QueueShape(NewLog(q, x, l)) /\ NewLog(q, x, l).submit = x /\ NewLog(q, x, l).frozen = q.frozen
<1>1. \E a, b, c, d, e, g : q = [frozen |-> a, submit |-> b, log |-> c, data |-> d,
                                 wait |-> e, gc |-> g]
  BY Zenon DEF QueueShape
<1>2. PICK a, b, c, d, e, g : q = [frozen |-> a, submit |-> b, log |-> c, data |-> d,
                                   wait |-> e, gc |-> g]
  BY <1>1
<1>3. ASSUME NEW r, r = NewLog(q, x, l)
      PROVE  QueueShape(r) /\ r.submit = x /\ r.frozen = q.frozen
  BY <1>2, <1>3 DEF QueueShape, NewLog
<1> QED
  BY <1>3

\* make_frozen_queue_empty
LEMMA MeltShape ==
  ASSUME Shape
  PROVE  /\ FrozenEmptied.submit = queue.submit \o queue.frozen
         /\ FrozenEmptied.frozen = <<>>
         /\ QueueShape(FrozenEmptied)
<1>1. QueueShape(queue)
  BY DEF Shape
<1>2. FrozenEmptied = NewLine(queue, queue.submit \o queue.frozen, <<>>)
  BY Zenon DEF FrozenEmptied, NewLine
<1>3. ASSUME NEW x, NEW y
      PROVE  /\ QueueShape(NewLine(queue, x, y))
             /\ NewLine(queue, x, y).submit = x
             /\ NewLine(queue, x, y).frozen = y
  BY <1>1, LineSet
<1> QED
  BY <1>2, <1>3

\* make_frozen_queue_empty leaves the line as it is.
LEMMA MeltKeepsLine ==
  ASSUME Shape, Types
  PROVE  QueueStep(queue, FrozenEmptied)
<1> DEFINE s == queue.submit  f == queue.frozen
<1>1. s \o f \in Seq(Ids)
  BY ConcatProperties DEF Types
<1>2. (s \o f) \o <<>> = s \o f
  BY <1>1, ConcatEmptySeq
<1>3. <<>> \in Seq(Ids)
  BY EmptySeq
<1>4. /\ FrozenEmptied.submit = s \o f
      /\ FrozenEmptied.frozen = <<>>
      /\ QueueShape(FrozenEmptied)
  BY MeltShape
<1>5. Line(FrozenEmptied) = s \o f
  BY <1>2, <1>4, Zenon DEF Line
<1>6. Line(queue) = s \o f
  BY DEF Line, s, f
<1> QED
  BY <1>1, <1>3, <1>4, <1>5, <1>6, Zenon DEF QueueStep

\* The counters but latest_lsid.
LEMMA CountMoved ==
  ASSUME NEW x, Shape
  PROVE  /\ CountStep(count, [count EXCEPT !.started = x])
         /\ CountStep(count, [count EXCEPT !.gc = x])
         /\ CountStep(count, [count EXCEPT !.written = x])
BY DEF Shape, CountShape, CountStep

\* A step that assigns no lsid and leaves the line.
LEMMA QuietStep ==
  ASSUME QueueInv, BiowStep(biow, biow'), QueueStep(queue, queue'), CountStep(count, count')
  PROVE  QueueInv'
<1>1. Shape'
  BY Zenon DEF Shape, BiowStep, QueueStep, CountStep
<1>2. Types'
  <2>1. queue'.submit \in Seq(Ids) /\ queue'.frozen \in Seq(Ids)
    BY DEF QueueStep
  <2>2. count'.latest = count.latest /\ \A i \in Ids : biow'[i].lsid = biow[i].lsid
    BY DEF CountStep, BiowStep
  <2> QED
    BY <2>1, <2>2, Zenon DEF Types, QueueInv
<1>3. Order(Line(queue'), biow')
  <2>1. Line(queue) \in Seq(Ids)
    BY LineType DEF QueueInv, Types
  <2>2. Order(Line(queue), biow')
    BY <2>1, OrderKept DEF QueueInv, BiowStep
  <2> QED
    BY <2>2 DEF QueueStep
<1> QED
  BY <1>1, <1>2, <1>3 DEF QueueInv

-----------------------------------------------------------------------------
\* The size of a batch, and the writes in it.
LEMMA BatchType ==
  ASSUME QueueAssumption, Types
  PROVE  /\ Len(Batch) \in 0..Len(queue.submit)
         /\ \A k \in 1..Len(Batch) : Batch[k] = queue.submit[k]
         /\ Batch \in Seq(Ids)
         /\ queue.submit # <<>> => Len(Batch) # 0
<1> DEFINE s == queue.submit
           m == Min({NIoBulk, Len(s)})
<1>1. Len(s) \in Nat /\ NIoBulk \in Nat
  BY LenProperties DEF Types, QueueAssumption
<1>2. m \in Nat /\ m <= Len(s)
  BY <1>1, MinOfTwo
<1>3. \A k \in 1..Len(s) : s[k] \in Ids
  BY ElementOfSeq DEF Types
<1>4. Batch = SubSeq(s, 1, m)
  BY DEF Batch
<1> HIDE DEF m, s
<1>5. \A k \in 1..m : s[k] \in Ids
  BY <1>1, <1>2, <1>3
<1>6. 1 \in Int /\ m \in Int
  BY <1>2
<1>7. /\ SubSeq(s, 1, m) \in Seq(Ids)
      /\ Len(SubSeq(s, 1, m)) = IF 1 <= m THEN m - 1 + 1 ELSE 0
      /\ \A i \in 1..m - 1 + 1 : SubSeq(s, 1, m)[i] = s[1 + i - 1]
  BY <1>5, <1>6, SubSeqProperties
<1>8. Len(Batch) = m
  BY <1>2, <1>4, <1>7
<1>9. \A k \in 1..m : SubSeq(s, 1, m)[k] = s[k]
  BY <1>2, <1>7
<1>10. s # <<>> => m # 0
  <2>1. s # <<>> => Len(s) # 0
    BY <1>1, EmptySeq DEF s, Types
  <2>2. NIoBulk # 0
    BY DEF QueueAssumption
  <2>3. m \in {NIoBulk, Len(s)}
    BY <1>1, MinOfTwo DEF m
  <2> QED
    BY <2>1, <2>2, <2>3
<1> QED
  BY <1>1, <1>2, <1>4, <1>7, <1>8, <1>9, <1>10 DEF s

\* What is left of the submit queue, and of the line.
LEMMA BatchTaken ==
  ASSUME QueueAssumption, Types, NEW r, r.submit = Behind(queue.submit, Len(Batch)),
         r.frozen = queue.frozen
  PROVE  /\ r.submit \in Seq(Ids)
         /\ Line(r) \in Seq(Ids)
         /\ Len(Line(queue)) = Len(Line(r)) + Len(Batch)
         /\ \A k \in 1..Len(Line(r)) : Line(r)[k] = Line(queue)[k + Len(Batch)]
         /\ \A k \in 1..Len(Batch) : Line(queue)[k] = Batch[k]
<1> DEFINE s == queue.submit
           f == queue.frozen
           n == Len(Batch)
           t == r.submit
<1>1. /\ Len(s) \in Nat /\ n \in 0..Len(s) /\ Len(f) \in Nat
      /\ \A k \in 1..Len(s) : s[k] \in Ids
      /\ s \in Seq(Ids) /\ f \in Seq(Ids)
      /\ \A k \in 1..n : Batch[k] = s[k]
  BY BatchType, LenProperties, ElementOfSeq DEF Types
<1>2. t = SubSeq(s, n + 1, Len(s)) /\ r.frozen = f
  BY DEF Behind
<1>3. /\ Len(Line(queue)) = Len(s) + Len(f)
      /\ \A k \in 1..Len(s) : Line(queue)[k] = s[k]
      /\ \A k \in 1..Len(f) : Line(queue)[Len(s) + k] = f[k]
  BY <1>1, LineType
<1> HIDE DEF n, s, f
<1>4. /\ t \in Seq(Ids)
      /\ Len(t) = Len(s) - n
      /\ \A k \in 1..Len(t) : t[k] = s[k + n]
  <2>1. n + 1 \in Int /\ Len(s) \in Int /\ \A k \in n + 1..Len(s) : s[k] \in Ids
    BY <1>1
  <2>2. /\ SubSeq(s, n + 1, Len(s)) \in Seq(Ids)
        /\ Len(SubSeq(s, n + 1, Len(s))) = IF n + 1 <= Len(s) THEN Len(s) - (n + 1) + 1 ELSE 0
        /\ \A i \in 1..Len(s) - (n + 1) + 1 : SubSeq(s, n + 1, Len(s))[i] = s[n + 1 + i - 1]
    BY <2>1, SubSeqProperties
  <2> HIDE DEF t
  <2>3. Len(t) = Len(s) - n
    BY <1>1, <1>2, <2>2
  <2>4. ASSUME NEW k \in 1..Len(t) PROVE t[k] = s[k + n]
    <3>1. k \in 1..Len(s) - (n + 1) + 1 /\ n + 1 + k - 1 = k + n
      BY <1>1, <2>3
    <3> QED
      BY <1>2, <2>2, <3>1
  <2> QED
    BY <1>2, <2>2, <2>3, <2>4
<1>5. /\ Line(r) \in Seq(Ids)
      /\ Len(Line(r)) = Len(t) + Len(f)
      /\ \A k \in 1..Len(t) : Line(r)[k] = t[k]
      /\ \A k \in 1..Len(f) : Line(r)[Len(t) + k] = f[k]
  BY <1>1, <1>2, <1>4, LineType
<1> HIDE DEF t
<1>6. ASSUME NEW k \in 1..Len(Line(r)) PROVE Line(r)[k] = Line(queue)[k + n]
  <2>1. CASE k \in 1..Len(t)
    <3>1. k + n \in 1..Len(s)
      BY <1>1, <1>4, <2>1
    <3> QED
      BY <1>3, <1>4, <1>5, <2>1, <3>1
  <2>2. CASE k \notin 1..Len(t)
    <3>1. k - Len(t) \in 1..Len(f) /\ Len(t) + (k - Len(t)) = k
          /\ Len(s) + (k - Len(t)) = k + n
      BY <1>1, <1>4, <1>5, <2>2
    <3> QED
      BY <1>3, <1>5, <3>1
  <2> QED
    BY <2>1, <2>2
<1>7. \A k \in 1..n : Line(queue)[k] = Batch[k]
  BY <1>1, <1>3
<1>8. Len(Line(queue)) = Len(Line(r)) + n
  BY <1>1, <1>3, <1>4, <1>5
<1> QED
  BY <1>4, <1>5, <1>6, <1>7, <1>8 DEF t, n

\* task_submit_bio_wrapper_list takes the data queue.
LEMMA QueueData ==
  ASSUME NEW x, NEW y, NEW r, Shape, Types, r = [queue EXCEPT !.data = x, !.wait = y]
  PROVE  QueueStep(queue, r)
<1>1. \E a, b, c, d, e, g : queue = [frozen |-> a, submit |-> b, log |-> c, data |-> d,
                                     wait |-> e, gc |-> g]
  BY Zenon DEF Shape, QueueShape
<1>2. PICK a, b, c, d, e, g : queue = [frozen |-> a, submit |-> b, log |-> c, data |-> d,
                                       wait |-> e, gc |-> g]
  BY <1>1
<1>3. r.submit = b /\ r.frozen = a /\ queue.submit = b /\ queue.frozen = a /\ QueueShape(r)
  BY <1>2 DEF QueueShape
<1> QED
  BY <1>3, Zenon DEF QueueStep, Types, Line

\* melt_detail leaves the line as it is.
LEMMA MeltStep ==
  ASSUME NEW isUsr, Shape, Types
  PROVE  QueueStep(queue, Melted(isUsr).queue)
<1>1. Melted(isUsr).queue = FrozenEmptied \/ Melted(isUsr).queue = queue
  BY DEF Melted
<1> QED
  BY <1>1, MeltKeepsLine, Stay

\* Every step but those of a new write and of the submit log task leaves the line.
LEMMA QuietSteps ==
  ASSUME QueueInv,
         \/ Dispatch \/ SubmitLogEmpty \/ WaitLogTask \/ SubmitDataTask
         \/ WaitDataTask \/ GcWorker \/ Freeze \/ FreezeWait \/ Melt
         \/ \E i \in Ids, error \in BOOLEAN : DdevWrite(i, error)
         \/ UNCHANGED vars
  PROVE  QueueInv'
<1>0. Shape /\ Types /\ BiowShape(biow)
  BY DEF QueueInv, Shape
<1>1. BiowStep(biow, biow) /\ QueueStep(queue, queue) /\ CountStep(count, count)
  BY <1>0, Stay
<1> DEFINE Quiet == BiowStep(biow, biow') /\ QueueStep(queue, queue') /\ CountStep(count, count')
<1>2. CASE biow' = biow /\ queue' = queue /\ count' = count
  <2>1. Quiet
    BY <1>1, <1>2, Zenon
  <2> QED
    BY <2>1, QuietStep
<1>3. ASSUME WaitLogTake PROVE Quiet
  <2>1. BiowStep(biow, biow')
    <3>1. biow' = biow
      BY <1>3 DEF WaitLogTake
    <3> QED
      BY <1>1, <3>1, Zenon
  <2>2. QueueStep(queue, queue')
    <3>1. queue' = [queue EXCEPT !.log = Tail(queue.log)]
      BY <1>3 DEF WaitLogTake
    <3> QED
      BY <1>0, <3>1, QueueBehind
  <2>3. CountStep(count, count')
    <3>1. count' = count
      BY <1>3 DEF WaitLogTake
    <3> QED
      BY <1>1, <3>1, Zenon
  <2> QED
    BY <2>1, <2>2, <2>3
<1>4. ASSUME WaitLogFail PROVE Quiet
  <2>1. BiowStep(biow, biow')
    <3>1. biow' = Destroyed({Head(wl.todo)}, "failed")
      BY <1>4 DEF WaitLogFail, WaitLogVars
    <3> QED
      BY <1>0, <3>1, BiowDestroyed
  <2>2. QueueStep(queue, queue')
    <3>1. queue' = queue
      BY <1>4 DEF WaitLogFail, WaitLogVars
    <3> QED
      BY <1>1, <3>1, Zenon
  <2>3. CountStep(count, count')
    <3>1. count' = [count EXCEPT !.started = count.started - 1]
      BY <1>4 DEF WaitLogFail, WaitLogVars
    <3> QED
      BY <1>0, <3>1, CountMoved
  <2> QED
    BY <2>1, <2>2, <2>3
<1>5. ASSUME WaitLogInsert PROVE Quiet
  <2>1. BiowStep(biow, biow')
    <3>1. biow' = [biow EXCEPT ![Head(wl.todo)].st = "inserted"]
      BY <1>5 DEF WaitLogInsert, WaitLogVars
    <3> QED
      BY <1>0, <3>1, BiowMoved
  <2>2. QueueStep(queue, queue')
    <3>1. queue' = queue
      BY <1>5 DEF WaitLogInsert, WaitLogVars
    <3> QED
      BY <1>1, <3>1, Zenon
  <2>3. CountStep(count, count')
    <3>1. count' = count
      BY <1>5 DEF WaitLogInsert, WaitLogVars
    <3> QED
      BY <1>1, <3>1, Zenon
  <2> QED
    BY <2>1, <2>2, <2>3
<1>6. ASSUME WaitLogAnswer PROVE Quiet
  <2>1. BiowStep(biow, biow')
    <3>1. biow' = [biow EXCEPT ![Head(wl.todo)].st = "answered"]
      BY <1>6 DEF WaitLogAnswer, WaitLogVars
    <3> QED
      BY <1>0, <3>1, BiowMoved
  <2>2. QueueStep(queue, queue')
    <3>1. queue' = [queue EXCEPT !.data = Append(queue.data, Head(wl.todo))]
      BY <1>6 DEF WaitLogAnswer, WaitLogVars
    <3> QED
      BY <1>0, <3>1, QueueBehind
  <2>3. CountStep(count, count')
    <3>1. count' = count
      BY <1>6 DEF WaitLogAnswer, WaitLogVars
    <3> QED
      BY <1>1, <3>1, Zenon
  <2> QED
    BY <2>1, <2>2, <2>3
<1>7. ASSUME WaitLogEnd PROVE Quiet
  <2>1. BiowStep(biow, biow')
    <3>1. biow' = biow
      BY <1>7 DEF WaitLogEnd
    <3> QED
      BY <1>1, <3>1, Zenon
  <2>2. QueueStep(queue, queue')
    <3>1. queue' = [queue EXCEPT !.gc = Append(queue.gc, wl.pack)]
      BY <1>7 DEF WaitLogEnd
    <3> QED
      BY <1>0, <3>1, QueueBehind
  <2>3. CountStep(count, count')
    <3>1. count' = [count EXCEPT !.gc = count.gc + 1]
      BY <1>7 DEF WaitLogEnd
    <3> QED
      BY <1>0, <3>1, CountMoved
  <2> QED
    BY <2>1, <2>2, <2>3
<1>8. ASSUME SubmitDataTake PROVE Quiet
  <2>1. BiowStep(biow, biow')
    <3>1. CASE readOnly
      <4>1. biow' = biow
        BY <1>8, <3>1 DEF SubmitDataTake
      <4> QED
        BY <1>1, <4>1, Zenon
    <3>2. CASE ~readOnly
      <4>1. biow' = [i \in Ids |-> IF i \in Range(queue.data)
                                   THEN [biow[i] EXCEPT !.st = "waiting"] ELSE biow[i]]
        BY <1>8, <3>2 DEF SubmitDataTake
      <4>2. biow' = [i \in Ids |-> biow'[i]]
        BY <4>1
      <4>3. ASSUME NEW j \in Ids
            PROVE  /\ Bio(biow'[j]) /\ biow'[j].lsid = biow[j].lsid
                   /\ biow[j].st # "none" => biow'[j].st # "none"
        <5>1. Bio(biow[j])
          BY <1>0 DEF BiowShape, Bio
        <5>2. biow'[j] = [biow[j] EXCEPT !.st = "waiting"] \/ biow'[j] = biow[j]
          BY <4>1
        <5> QED
          BY <5>1, <5>2 DEF Bio
      <4> QED
        BY <4>2, <4>3, BiowEach
    <3> QED
      BY <3>1, <3>2
  <2>2. QueueStep(queue, queue')
    <3>1. queue' = [queue EXCEPT !.data = <<>>,
                                 !.wait = IF readOnly THEN @ ELSE @ \o queue.data]
      BY <1>8 DEF SubmitDataTake
    <3> DEFINE x == <<>>
               y == IF readOnly THEN queue.wait ELSE queue.wait \o queue.data
    <3>2. queue' = [queue EXCEPT !.data = x, !.wait = y]
      BY <3>1
    <3> HIDE DEF x, y
    <3> QED
      BY <1>0, <3>2, QueueData
  <2>3. CountStep(count, count')
    <3>1. count' = count
      BY <1>8 DEF SubmitDataTake
    <3> QED
      BY <1>1, <3>1, Zenon
  <2> QED
    BY <2>1, <2>2, <2>3
<1>9. ASSUME CancelDelete \/ CancelMelt \/ CancelComplete PROVE Quiet
  <2>1. BiowStep(biow, biow')
    <3>1. PICK i : \/ biow' = biow
                   \/ biow' = [biow EXCEPT ![i].st = "cancelled"]
                   \/ biow' = [biow EXCEPT ![i].st = "complete", ![i].error = TRUE]
      BY <1>9 DEF CancelDelete, CancelMelt, CancelComplete
    <3>2. /\ BiowStep(biow, [biow EXCEPT ![i].st = "cancelled"])
          /\ BiowStep(biow, [biow EXCEPT ![i].st = "complete", ![i].error = TRUE])
      BY <1>0, BiowMoved, BiowEnded
    <3> QED
      BY <1>1, <3>1, <3>2, Zenon
  <2>2. QueueStep(queue, queue')
    <3>1. queue' = queue \/ queue' = Melted(FALSE).queue
      BY <1>9 DEF CancelDelete, CancelMelt, CancelComplete
    <3> QED
      BY <1>0, <1>1, <3>1, MeltStep
  <2>3. CountStep(count, count')
    <3>1. count' = count
      BY <1>9 DEF CancelDelete, CancelMelt, CancelComplete
    <3> QED
      BY <1>1, <3>1, Zenon
  <2> QED
    BY <2>1, <2>2, <2>3
<1>10. ASSUME NEW i \in Ids, NEW error \in BOOLEAN, DdevWrite(i, error) PROVE Quiet
  <2>1. BiowStep(biow, biow')
    <3>1. biow' = [biow EXCEPT ![i].st = "written", ![i].error = error]
      BY <1>10 DEF DdevWrite
    <3>2. BiowStep(biow, [biow EXCEPT ![i].st = "written", ![i].error = error])
      BY <1>0, BiowEnded
    <3> QED
      BY <3>1, <3>2, Zenon
  <2>2. QueueStep(queue, queue')
    <3>1. queue' = queue
      BY <1>10 DEF DdevWrite
    <3> QED
      BY <1>1, <3>1, Zenon
  <2>3. CountStep(count, count')
    <3>1. count' = count
      BY <1>10 DEF DdevWrite
    <3> QED
      BY <1>1, <3>1, Zenon
  <2> QED
    BY <2>1, <2>2, <2>3
<1>11. ASSUME WaitDataDelete PROVE Quiet
  <2>1. BiowStep(biow, biow')
    <3> DEFINE move(s) == [biow EXCEPT ![Head(queue.wait)].st = s]
    <3>1. biow' = move("deleted") \/ biow' = move("complete")
      BY <1>11 DEF WaitDataDelete, Completed, WaitDataVars
    <3>2. BiowStep(biow, move("deleted"))
      BY <1>0, BiowMoved
    <3>3. BiowStep(biow, move("complete"))
      BY <1>0, BiowMoved
    <3> QED
      BY <3>1, <3>2, <3>3, Zenon
  <2>2. QueueStep(queue, queue')
    <3>1. queue' = queue \/ queue' = [queue EXCEPT !.wait = Tail(queue.wait)]
      BY <1>11 DEF WaitDataDelete, Completed, WaitDataVars
    <3> QED
      BY <1>0, <1>1, <3>1, QueueBehind
  <2>3. CountStep(count, count')
    <3>1. count' = count
      BY <1>11 DEF WaitDataDelete, Completed, WaitDataVars
    <3> QED
      BY <1>1, <3>1, Zenon
  <2> QED
    BY <2>1, <2>2, <2>3
<1>12. ASSUME WaitDataMelt PROVE Quiet
  <2>1. BiowStep(biow, biow')
    <3>1. biow' = biow
      BY <1>12 DEF WaitDataMelt, WaitDataVars
    <3> QED
      BY <1>1, <3>1, Zenon
  <2>2. QueueStep(queue, queue')
    <3>1. queue' = Melted(FALSE).queue
      BY <1>12 DEF WaitDataMelt, WaitDataVars
    <3> QED
      BY <1>0, <3>1, MeltStep
  <2>3. CountStep(count, count')
    <3>1. count' = count
      BY <1>12 DEF WaitDataMelt, WaitDataVars
    <3> QED
      BY <1>1, <3>1, Zenon
  <2> QED
    BY <2>1, <2>2, <2>3
<1>13. ASSUME WaitDataClear PROVE Quiet
  <2>1. BiowStep(biow, biow')
    <3>1. biow' = [biow EXCEPT ![Head(queue.wait)].st = "complete"]
      BY <1>13 DEF WaitDataClear, Completed, WaitDataVars
    <3> QED
      BY <1>0, <3>1, BiowMoved
  <2>2. QueueStep(queue, queue')
    <3>1. queue' = [queue EXCEPT !.wait = Tail(queue.wait)]
      BY <1>13 DEF WaitDataClear, Completed, WaitDataVars
    <3> QED
      BY <1>0, <3>1, QueueBehind
  <2>3. CountStep(count, count')
    <3>1. count' = count
      BY <1>13 DEF WaitDataClear, Completed, WaitDataVars
    <3> QED
      BY <1>1, <3>1, Zenon
  <2> QED
    BY <2>1, <2>2, <2>3
<1>14. ASSUME GcTake PROVE Quiet
  <2>1. BiowStep(biow, biow')
    <3>1. biow' = biow
      BY <1>14 DEF GcTake
    <3> QED
      BY <1>1, <3>1, Zenon
  <2>2. QueueStep(queue, queue')
    <3>1. queue' = [queue EXCEPT !.gc = <<>>]
      BY <1>14 DEF GcTake
    <3> QED
      BY <1>0, <3>1, QueueBehind
  <2>3. CountStep(count, count')
    <3>1. count' = count
      BY <1>14 DEF GcTake
    <3> QED
      BY <1>1, <3>1, Zenon
  <2> QED
    BY <2>1, <2>2, <2>3
<1>15. ASSUME GcDestroy PROVE Quiet
  <2>1. BiowStep(biow, biow')
    <3>1. PICK i \in GcLeft : biow' = Destroyed({i}, "done")
      BY <1>15 DEF GcDestroy, GcVars
    <3> QED
      BY <1>0, <3>1, BiowDestroyed
  <2>2. QueueStep(queue, queue')
    <3>1. queue' = queue
      BY <1>15 DEF GcDestroy, GcVars
    <3> QED
      BY <1>1, <3>1, Zenon
  <2>3. CountStep(count, count')
    <3>1. count' = [count EXCEPT !.started = count.started - 1]
      BY <1>15 DEF GcDestroy, GcVars
    <3> QED
      BY <1>0, <3>1, CountMoved
  <2> QED
    BY <2>1, <2>2, <2>3
<1>16. ASSUME GcWritten PROVE Quiet
  <2>1. BiowStep(biow, biow')
    <3>1. biow' = biow
      BY <1>16 DEF GcWritten, GcVars
    <3> QED
      BY <1>1, <3>1, Zenon
  <2>2. QueueStep(queue, queue')
    <3>1. queue' = queue
      BY <1>16 DEF GcWritten, GcVars
    <3> QED
      BY <1>1, <3>1, Zenon
  <2>3. CountStep(count, count')
    <3>1. count' = [count EXCEPT !.written = Last(gc.packs).end]
      BY <1>16 DEF GcWritten, GcVars
    <3> QED
      BY <1>0, <3>1, CountMoved
  <2> QED
    BY <2>1, <2>2, <2>3
<1>17. ASSUME GcSub PROVE Quiet
  <2>1. BiowStep(biow, biow')
    <3>1. biow' = biow
      BY <1>17 DEF GcSub, GcVars
    <3> QED
      BY <1>1, <3>1, Zenon
  <2>2. QueueStep(queue, queue')
    <3>1. queue' = queue
      BY <1>17 DEF GcSub, GcVars
    <3> QED
      BY <1>1, <3>1, Zenon
  <2>3. CountStep(count, count')
    <3>1. count' = [count EXCEPT !.gc = count.gc - Len(gc.packs)]
      BY <1>17 DEF GcSub, GcVars
    <3> QED
      BY <1>0, <3>1, CountMoved
  <2> QED
    BY <2>1, <2>2, <2>3
<1>18. ASSUME Melt PROVE Quiet
  <2>1. BiowStep(biow, biow')
    <3>1. biow' = biow
      BY <1>18 DEF Melt, FreezeVars
    <3> QED
      BY <1>1, <3>1, Zenon
  <2>2. QueueStep(queue, queue')
    <3>1. queue' = Melted(TRUE).queue
      BY <1>18 DEF Melt, FreezeVars
    <3> QED
      BY <1>0, <3>1, MeltStep
  <2>3. CountStep(count, count')
    <3>1. count' = count
      BY <1>18 DEF Melt, FreezeVars
    <3> QED
      BY <1>1, <3>1, Zenon
  <2> QED
    BY <2>1, <2>2, <2>3
<1>19. \/ Quiet
       \/ biow' = biow /\ queue' = queue /\ count' = count
  <2>1. CASE WaitLogTask
    <3>1. CASE WaitLogInsertNoMem \/ WaitLogUndo \/ WaitLogStop \/ WaitLogFreeze
      BY <3>1 DEF WaitLogInsertNoMem, WaitLogUndo, WaitLogStop, WaitLogFreeze
    <3> HIDE DEF Quiet
    <3> QED
      BY <2>1, <3>1, <1>3, <1>4, <1>5, <1>6, <1>7, Zenon DEF WaitLogTask
  <2>2. CASE GcWorker
    <3>1. CASE GcWakeup
      BY <3>1 DEF GcWakeup, GcVars
    <3> HIDE DEF Quiet
    <3> QED
      BY <2>2, <3>1, <1>14, <1>15, <1>16, <1>17, Zenon DEF GcWorker
  <2>3. CASE WaitDataTask
    <3> HIDE DEF Quiet
    <3> QED
      BY <2>3, <1>11, <1>12, <1>13, Zenon DEF WaitDataTask
  <2>4. CASE Dispatch
    BY <2>4 DEF Dispatch, DispatchOk, DispatchNoMem, DispatchRetry, DispatchVars
  <2>5. CASE SubmitLogEmpty \/ Freeze \/ FreezeWait \/ UNCHANGED vars
    BY <2>5 DEF SubmitLogEmpty, Freeze, FreezeWait, FreezeVars, vars
  <2> HIDE DEF Quiet
  <2> QED
    BY <2>1, <2>2, <2>3, <2>4, <2>5, <1>8, <1>9, <1>10, <1>18, Zenon DEF SubmitDataTask
<1> QED
  BY <1>2, <1>19, QuietStep

\* A new write goes to the end of the line, or is refused.
LEMMA MakeWriteStep ==
  ASSUME NEW i \in Ids, NEW len, NEW discard, QueueInv, MakeWrite(i, len, discard)
  PROVE  QueueInv'
<1>0. Shape /\ Types /\ BiowShape(biow) /\ QueueShape(queue)
  BY DEF QueueInv, Shape
<1>a. count' = count
  BY DEF MakeWrite
<1>b. CountStep(count, count')
  BY <1>0, <1>a, Stay
<1>1. CASE readOnly
  <2>1. biow' = Destroyed({i}, "failed") /\ queue' = queue
    BY <1>1 DEF MakeWrite
  <2>2. BiowStep(biow, biow')
    BY <1>0, <2>1, BiowDestroyed
  <2>3. QueueStep(queue, queue')
    BY <1>0, <2>1, Stay
  <2> QED
    BY <1>b, <2>2, <2>3, QuietStep
<1>2. CASE ~readOnly
  <2>1. biow' = [biow EXCEPT ![i].st = "queued", ![i].len = len, ![i].discard = discard]
        /\ queue' = Push(i)
    BY <1>2 DEF MakeWrite
  <2>2. biow[i].st = "none" /\ \A j \in 1..i - 1 : biow[j].st # "none"
    BY DEF MakeWrite
  <2>3. BiowStep(biow, biow') /\ biow'[i].st = "queued"
    <3>1. biow = [j \in Ids |-> biow[j]] /\ \A j \in Ids : Bio(biow[j])
      BY <1>0 DEF BiowShape, Bio
    <3>2. biow' = [j \in Ids |-> biow'[j]]
      BY <2>1, <3>1
    <3>3. biow'[i] = [biow[i] EXCEPT !.st = "queued", !.len = len, !.discard = discard]
      BY <2>1, <3>1
    <3>4. Bio(biow'[i]) /\ biow'[i].lsid = biow[i].lsid /\ biow'[i].st = "queued"
      BY <3>1, <3>3 DEF Bio
    <3>5. ASSUME NEW j \in Ids
          PROVE  /\ Bio(biow'[j]) /\ biow'[j].lsid = biow[j].lsid
                 /\ biow[j].st # "none" => biow'[j].st # "none"
      <4>1. CASE j = i
        BY <3>4, <4>1
      <4>2. CASE j # i
        <5>1. biow'[j] = biow[j]
          BY <2>1, <3>1, <4>2
        <5> QED
          BY <3>1, <5>1
      <4> QED
        BY <4>1, <4>2
    <3>6. BiowStep(biow, biow')
      BY <3>2, <3>5, BiowEach
    <3> QED
      BY <3>4, <3>6
  <2> DEFINE s == queue.submit
             f == queue.frozen
  <2>4. s \in Seq(Ids) /\ f \in Seq(Ids) /\ Line(queue) = s \o f
    BY <1>0 DEF Types, Line
  <2>5. /\ QueueShape(queue')
        /\ queue'.submit \in Seq(Ids)
        /\ queue'.frozen \in Seq(Ids)
        /\ Line(queue') = Append(Line(queue), i)
    <3>1. CASE IsFrozen
      <4>1. queue' = NewFrozen(queue, Append(f, i))
        BY <2>1, <3>1 DEF Push, NewFrozen
      <4>2. QueueShape(queue') /\ queue'.submit = s /\ queue'.frozen = Append(f, i)
        <5>1. ASSUME NEW y
              PROVE  /\ QueueShape(NewFrozen(queue, y))
                     /\ NewFrozen(queue, y).submit = queue.submit
                     /\ NewFrozen(queue, y).frozen = y
          BY <1>0, FrozenSet
        <5> QED
          BY <4>1, <5>1
      <4>3. Append(f, i) \in Seq(Ids)
        BY <2>4, AppendProperties
      <4> HIDE DEF s, f
      <4>4. s \o Append(f, i) = Append(s \o f, i)
        BY <2>4
      <4> QED
        BY <2>4, <4>2, <4>3, <4>4, Zenon DEF Line
    <3>2. CASE ~IsFrozen
      <4>1. queue' = NewSubmit(FrozenEmptied, Append(FrozenEmptied.submit, i))
        BY <2>1, <3>2 DEF Push, NewSubmit
      <4>2. /\ FrozenEmptied.submit = s \o f
            /\ FrozenEmptied.frozen = <<>>
            /\ QueueShape(FrozenEmptied)
        BY <1>0, MeltShape
      <4>3. QueueShape(queue') /\ queue'.submit = Append(s \o f, i) /\ queue'.frozen = <<>>
        <5>1. ASSUME NEW q, NEW x, QueueShape(q)
              PROVE  /\ QueueShape(NewSubmit(q, x))
                     /\ NewSubmit(q, x).submit = x
                     /\ NewSubmit(q, x).frozen = q.frozen
          BY <5>1, SubmitSet
        <5> HIDE DEF s, f
        <5> QED
          BY <4>1, <4>2, <5>1, ZenonT(40)
      <4>4. s \o f \in Seq(Ids)
        BY <2>4, ConcatProperties
      <4>5. Append(s \o f, i) \in Seq(Ids)
        BY <4>4, AppendProperties
      <4>6. Append(s \o f, i) \o <<>> = Append(s \o f, i)
        BY <4>5, ConcatEmptySeq
      <4>7. <<>> \in Seq(Ids)
        BY EmptySeq
      <4> HIDE DEF s, f
      <4> QED
        BY <2>4, <4>3, <4>5, <4>6, <4>7, Zenon DEF Line
    <3> QED
      BY <3>1, <3>2
  <2>6. Shape'
    BY <1>b, <2>3, <2>5, Zenon DEF Shape, BiowStep, CountStep
  <2>7. \A j \in Ids : biow'[j].lsid = biow[j].lsid
    BY <2>3 DEF BiowStep
  <2>8. Types'
    BY <1>0, <1>a, <2>5, <2>7, Zenon DEF Types
  <2>9. Order(Line(queue'), biow')
    <3>0. Line(queue) \in Seq(Ids) /\ Order(Line(queue), biow)
      BY <1>0, LineType DEF Types, QueueInv
    <3>1. Order(Line(queue), biow')
      BY <2>3, <3>0, OrderKept DEF BiowStep
    <3>2. \A j \in Ids : biow'[j].lsid \in Nat
      BY <1>0, <2>7 DEF Types
    <3>3. \A k \in 1..Len(Line(queue)) : Line(queue)[k] \in Ids
      BY <3>0, ElementOfSeq
    <3>4. \A k \in 1..Len(Line(queue)) : Line(queue)[k] < i
      <4> SUFFICES ASSUME NEW k \in 1..Len(Line(queue)), ~(Line(queue)[k] < i)
                   PROVE  FALSE
        OBVIOUS
      <4>1. i <= Line(queue)[k]
        BY <3>3 DEF Ids
      <4> QED
        BY <2>2, <3>0, <4>1, Zenon DEF Order, LineBetween
    <3>5. ASSUME NEW j \in Ids, biow[j].lsid > 0 PROVE j < i
      <4> SUFFICES ASSUME ~(j < i) PROVE FALSE
        OBVIOUS
      <4>1. i <= j
        BY DEF Ids
      <4> QED
        BY <2>2, <3>0, <3>5, <4>1, Zenon DEF Order, LoggedFirst
    <3>6. biow'[i].lsid = 0
      <4>1. biow[i].lsid \in Nat /\ ~(biow[i].lsid > 0)
        BY <1>0, <3>5 DEF Types, Ids
      <4> QED
        BY <2>7, <4>1
    <3>7. \A j \in 1..i - 1 : biow'[j].st # "none"
      <4>1. \A j \in 1..i - 1 : j \in Ids
        BY QueueAssumption DEF Ids, QueueAssumption
      <4> QED
        BY <2>2, <2>3, <4>1, Zenon DEF BiowStep
    <3>8. biow'[i].st # "none"
      BY <2>3
    <3>9. \A j \in Ids : biow'[j].lsid > 0 => j < i
      BY <2>7, <3>5
    <3> QED
      BY <2>5, <3>0, <3>1, <3>2, <3>4, <3>6, <3>7, <3>8, <3>9, OrderPush, Zenon
  <2> QED
    BY <2>6, <2>8, <2>9 DEF QueueInv
<1> QED
  BY <1>1, <1>2

\* A round of task_submit_logpack_list in read-only mode takes the batch from the line.
LEMMA ReadOnlyStep ==
  ASSUME QueueAssumption, QueueInv, SubmitLogReadOnly
  PROVE  QueueInv'
<1>0. Shape /\ Types /\ BiowShape(biow) /\ QueueShape(queue)
  BY DEF QueueInv, Shape
<1>1. queue' = NewSubmit(queue, Behind(queue.submit, Len(Batch)))
  BY DEF SubmitLogReadOnly, NewSubmit
<1>2. QueueShape(queue') /\ queue'.submit = Behind(queue.submit, Len(Batch))
      /\ queue'.frozen = queue.frozen
  <2>1. ASSUME NEW x
        PROVE  /\ QueueShape(NewSubmit(queue, x))
               /\ NewSubmit(queue, x).submit = x
               /\ NewSubmit(queue, x).frozen = queue.frozen
    BY <1>0, SubmitSet
  <2> QED
    BY <1>1, <2>1, Zenon
<1>3. BiowStep(biow, biow')
  <2>1. biow' = Destroyed(Range(Batch), "failed")
    BY DEF SubmitLogReadOnly
  <2> QED
    BY <1>0, <2>1, BiowDestroyed
<1>4. count' = count
  BY DEF SubmitLogReadOnly
<1>5. /\ queue'.submit \in Seq(Ids)
      /\ Line(queue') \in Seq(Ids)
      /\ Len(Line(queue)) = Len(Line(queue')) + Len(Batch)
      /\ \A k \in 1..Len(Line(queue')) : Line(queue')[k] = Line(queue)[k + Len(Batch)]
  BY <1>0, <1>2, BatchTaken
<1>6. Shape'
  BY <1>0, <1>2, <1>3, <1>4, Zenon DEF Shape, BiowStep
<1>7. \A j \in Ids : biow'[j].lsid = biow[j].lsid
  BY <1>3 DEF BiowStep
<1>8. Types'
  BY <1>0, <1>2, <1>4, <1>5, <1>7, Zenon DEF Types
<1>9. Order(Line(queue'), biow')
  <2>1. Line(queue) \in Seq(Ids) /\ Order(Line(queue), biow)
    BY <1>0, LineType DEF Types, QueueInv
  <2>2. Order(Line(queue), biow')
    BY <1>3, <2>1, OrderKept DEF BiowStep
  <2>3. Len(Batch) \in Nat
    BY <1>0, BatchType, LenProperties DEF Types
  <2> QED
    BY <1>5, <2>1, <2>2, <2>3, OrderDrop
<1> QED
  BY <1>6, <1>8, <1>9 DEF QueueInv

\* A round of task_submit_logpack_list gives the batch the next lsids.
LEMMA SubmitLogStep ==
  ASSUME QueueAssumption, QueueInv, SubmitLog
  PROVE  QueueInv'
<1> DEFINE n == Len(Batch)
           q == Line(queue)
           r == Line(queue')
<1>0. Shape /\ Types /\ BiowShape(biow) /\ QueueShape(queue) /\ CountShape(count)
  BY DEF QueueInv, Shape
<1>1. PICK l : queue' = NewLog(queue, Behind(queue.submit, Len(Batch)), l)
  BY DEF SubmitLog, NewLog
<1>2. QueueShape(queue') /\ queue'.submit = Behind(queue.submit, Len(Batch))
      /\ queue'.frozen = queue.frozen
  <2>1. ASSUME NEW x
        PROVE  /\ QueueShape(NewLog(queue, x, l))
               /\ NewLog(queue, x, l).submit = x
               /\ NewLog(queue, x, l).frozen = queue.frozen
    BY <1>0, LogSet
  <2> QED
    BY <1>1, <2>1, Zenon
<1>3. /\ queue'.submit \in Seq(Ids)
      /\ r \in Seq(Ids)
      /\ Len(q) = Len(r) + n
      /\ \A k \in 1..Len(r) : r[k] = q[k + n]
      /\ \A k \in 1..n : q[k] = Batch[k]
  BY <1>0, <1>2, BatchTaken
<1>4. /\ n \in Nat /\ count.latest \in Nat
      /\ Batch \in Seq(Ids)
      /\ \A k \in 1..n : Batch[k] \in Ids
  <2>1. Batch \in Seq(Ids)
    BY <1>0, BatchType
  <2> QED
    BY <1>0, <2>1, LenProperties, ElementOfSeq DEF Types
<1>5. q \in Seq(Ids) /\ Order(q, biow) /\ Len(r) \in Nat
  BY <1>0, <1>3, LineType, LenProperties DEF Types, QueueInv
<1>6. CountShape(count') /\ count'.latest = count.latest + n
  <2>1. count' = [count EXCEPT !.started = count.started + n, !.latest = count.latest + n]
    BY DEF SubmitLog
  <2>2. ASSUME NEW x, NEW y, count' = [count EXCEPT !.started = x, !.latest = y]
        PROVE  CountShape(count') /\ count'.latest = y
    BY <1>0, <2>2 DEF CountShape
  <2> HIDE DEF n
  <2> QED
    BY <2>1, <2>2
<1> DEFINE place(i) == CHOOSE k \in 1..n : Batch[k] = i
<1>7. biow' = [i \in Ids |->
                 IF i \in Range(Batch)
                 THEN [biow[i] EXCEPT !.st = "log", !.lsid = count.latest + place(i)]
                 ELSE biow[i]]
  BY DEF SubmitLog
<1>8. \A i : i \in Range(Batch) <=> \E k \in 1..n : Batch[k] = i
  <2>1. DOMAIN Batch = 1..n
    BY <1>4, LenProperties
  <2> QED
    BY <2>1 DEF Range
<1>9. ASSUME NEW k \in 1..n PROVE place(Batch[k]) = k
  <2> DEFINE m == place(Batch[k])
  <2>1. m \in 1..n /\ Batch[m] = Batch[k]
    <3>1. \E x \in 1..n : Batch[x] = Batch[k]
      OBVIOUS
    <3> QED
      BY <3>1
  <2> HIDE DEF m
  <2>2. m \in 1..Len(q) /\ k \in 1..Len(q) /\ m \in Nat /\ k \in Nat
    BY <1>3, <1>4, <1>5, <2>1
  <2>3. q[m] = q[k] /\ q[k] \in Nat
    BY <1>3, <1>4, <2>1 DEF Ids
  <2>4. ~(m < k) /\ ~(k < m)
    <3>1. \A x, y \in 1..Len(q) : x < y => q[x] < q[y]
      BY <1>5, Zenon DEF Order, LineSorted
    <3>2. ~(q[k] < q[k])
      BY <2>3
    <3> QED
      BY <2>2, <2>3, <3>1, <3>2, Zenon
  <2>5. m = k
    BY <2>2, <2>4
  <2> QED
    BY <2>5 DEF m
<1>10. \A i \in Ids : Bio(biow[i])
  BY <1>0 DEF BiowShape, Bio
<1> HIDE DEF n, q, r, place
<1>11. ASSUME NEW i \in Ids, i \in Range(Batch)
       PROVE  /\ Bio(biow'[i])
              /\ biow'[i].st = "log"
              /\ biow'[i].lsid = count.latest + place(i)
  <2>1. biow'[i] = [biow[i] EXCEPT !.st = "log", !.lsid = count.latest + place(i)]
    BY <1>7, <1>11
  <2>2. ASSUME NEW x, biow'[i] = [biow[i] EXCEPT !.st = "log", !.lsid = x]
        PROVE  Bio(biow'[i]) /\ biow'[i].st = "log" /\ biow'[i].lsid = x
    BY <1>10, <2>2 DEF Bio
  <2> QED
    BY <2>1, <2>2
<1>12. ASSUME NEW i \in Ids, i \notin Range(Batch) PROVE biow'[i] = biow[i]
  BY <1>7, <1>12
<1>13. BiowShape(biow')
  <2>1. biow' = [i \in Ids |-> biow'[i]]
    BY <1>7
  <2>2. \A i \in Ids : Bio(biow'[i])
    BY <1>10, <1>11, <1>12, Zenon
  <2> QED
    BY <2>1, <2>2, Zenon DEF BiowShape, Bio
<1>14. Shape'
  BY <1>2, <1>6, <1>13 DEF Shape
<1>15. ASSUME NEW k \in 1..n
       PROVE  biow'[Batch[k]].st = "log" /\ biow'[Batch[k]].lsid = count.latest + k
  <2>1. Batch[k] \in Ids /\ Batch[k] \in Range(Batch) /\ place(Batch[k]) = k
    BY <1>4, <1>8, <1>9, Zenon
  <2> QED
    BY <1>11, <2>1
<1>16. Types'
  <2>1. ASSUME NEW i \in Ids PROVE biow'[i].lsid \in 0..count'.latest
    <3>1. CASE i \in Range(Batch)
      <4>1. PICK k \in 1..n : Batch[k] = i
        BY <1>8, <3>1
      <4>2. biow'[i].lsid = count.latest + k
        BY <1>15, <4>1
      <4> QED
        BY <1>4, <1>6, <4>2
    <3>2. CASE i \notin Range(Batch)
      <4>1. biow'[i].lsid = biow[i].lsid
        BY <1>12, <3>2
      <4>2. biow[i].lsid \in 0..count.latest
        BY <1>0 DEF Types
      <4> QED
        BY <1>4, <1>6, <4>1, <4>2
    <3> QED
      BY <3>1, <3>2
  <2>2. count'.latest \in Nat
    BY <1>4, <1>6
  <2>3. queue'.frozen \in Seq(Ids)
    BY <1>0, <1>2 DEF Types
  <2> QED
    BY <1>3, <2>1, <2>2, <2>3 DEF Types
<1>17. Order(r, biow')
  <2>1. \A k \in 1..n : biow'[q[k]].st # "none" /\ biow'[q[k]].lsid = count.latest + k
    BY <1>3, <1>15
  <2>2. \A i \in Ids : (\A k \in 1..n : q[k] # i) => biow'[i] = biow[i]
    BY <1>3, <1>8, <1>12, Zenon
  <2>3. \A i \in Ids : biow[i].lsid \in 0..count.latest
    BY <1>0 DEF Types
  <2>4. Logged(q, r, biow, biow', n, count.latest)
    BY <1>3, <1>4, <1>5, <2>1, <2>2, <2>3, Zenon DEF Logged
  <2> QED
    BY <1>5, <2>4, OrderLog
<1> QED
  BY <1>14, <1>16, <1>17 DEF QueueInv, r

-----------------------------------------------------------------------------
\* At the start the line is empty.
LEMMA QueueInvInit ==
  ASSUME Init
  PROVE  QueueInv
<1>1. \A i \in Ids : biow[i] = NoBiow /\ biow[i].lsid = 0 /\ Bio(biow[i])
  BY DEF Init, NoBiow, Bio
<1>2. Shape
  <2>1. biow = [i \in Ids |-> biow[i]]
    BY DEF Init
  <2>2. QueueShape(queue) /\ CountShape(count)
    BY DEF Init, QueueShape, CountShape
  <2> QED
    BY <1>1, <2>1, <2>2, Zenon DEF Shape, BiowShape, Bio
<1>3. queue.submit = <<>> /\ queue.frozen = <<>> /\ count.latest = 0
  BY DEF Init
<1>4. <<>> \in Seq(Ids) /\ 0 \in Nat /\ 0 \in 0..0
  BY EmptySeq
<1>5. Types
  BY <1>1, <1>3, <1>4, Zenon DEF Types
<1>6. Line(queue) = <<>>
  BY <1>3, <1>4, ConcatEmptySeq DEF Line
<1>7. \A i \in Ids : ~(biow[i].lsid > 0)
  BY <1>1
<1>8. Order(<<>>, biow)
  <2>1. LineSorted(<<>>) /\ LineBetween(<<>>, biow)
    BY DEF LineSorted, LineBetween
  <2> QED
    BY <1>7, <2>1, Zenon DEF Order, LoggedFirst, Sorted
<1> QED
  BY <1>2, <1>5, <1>6, <1>8 DEF QueueInv

\* One case for each kind of step.
LEMMA QueueInvStep ==
  ASSUME QueueInv, [Next]_vars
  PROVE  QueueInv'
<1>1. CASE \E i \in Ids, len \in Lens : MakeWrite(i, len, FALSE)
  BY <1>1, MakeWriteStep
<1>2. CASE \E i \in Ids, len \in DiscardLens : MakeWrite(i, len, TRUE)
  BY <1>2, MakeWriteStep
<1>3. CASE SubmitLogReadOnly
  BY <1>3, QueueAssumption, ReadOnlyStep
<1>4. CASE SubmitLog
  BY <1>4, QueueAssumption, SubmitLogStep
<1> QED
  BY <1>1, <1>2, <1>3, <1>4, QuietSteps, Zenon DEF Next, SubmitLogTask

\* QueueInv is an invariant.
LEMMA QueueInvariant == Spec => []QueueInv
<1>1. Init => QueueInv
  BY QueueInvInit
<1>2. QueueInv /\ [Next]_vars => QueueInv'
  BY QueueInvStep
<1> QED
  BY <1>1, <1>2, PTL DEF Spec

\* However many writes are made and whatever the limits on pending data are, writes enter
\* the log in the order of their requests: the queue may be stopped by the driver and by
\* the user at once, melted by the data task, by the task that cancels and by the user,
\* and dispatches may fail in between.
THEOREM FifoOrderThm == Spec => []FifoOrder
<1>1. QueueInv => FifoOrder
  BY DEF QueueInv, Order, Sorted, FifoOrder
<1> QED
  BY <1>1, QueueInvariant, PTL

-----------------------------------------------------------------------------
(***************************************************************************)
(* Where a write is, and what that says of its state                       *)
(***************************************************************************)
InsertedStates == {"inserted", "answered", "waiting", "written"}
StartedStates == {"log"} \cup InsertedStates \cup {"deleted", "cancelled", "complete"}
LoggedStates == StartedStates \ {"log", "inserted"}
States == StartedStates \cup {"none", "queued", "failed", "done"}

Biows == [st : States, len : Nat, discard : BOOLEAN, lsid : Nat, error : BOOLEAN]
Packs == [ids : Seq(Ids), end : Nat]

TypeInv ==
  /\ biow \in [Ids -> Biows]
  /\ queue \in [frozen : Seq(Ids), submit : Seq(Ids), log : Seq(Packs), data : Seq(Ids),
                wait : Seq(Ids), gc : Seq(Packs)]
  /\ frozen \in [sys : BOOLEAN, usr : BOOLEAN, stopped : BOOLEAN]
  /\ wl \in [pc : {"idle", "next", "undo", "stop", "freeze", "answer"}, pack : Packs,
             todo : Seq(Ids), failed : BOOLEAN]
  /\ sd \in Seq(Ids)
  /\ wd \in {"idle", "melt", "clear"}
  /\ gc \in [pc : {"idle", "run", "destroy", "sub"}, wakeup : BOOLEAN, packs : Seq(Packs)]
  /\ fz \in {"melted", "queue", "started", "gc", "frozen"}
  /\ count \in [started : Int, gc : Int, latest : Nat, written : Nat]
  /\ readOnly \in BOOLEAN

At(i, s) == \E k \in 1..Len(s) : s[k] = i
AtPacks(i, ps) == \E k \in 1..Len(ps) : At(i, ps[k].ids)
Once(s) == \A k, m \in 1..Len(s) : s[k] = s[m] => k = m

\* Before its answer the wait task is past the insertion of the first write of its pack.
Past == {"stop", "freeze", "answer"}

\* In the submit queue and the frozen queue;
InLine(b, sub, fro) == \A i \in Ids : At(i, sub) \/ At(i, fro) => b[i].st = "queued"

\* in the packs of the log wait queue;
InLog(b, log, todo) ==
  /\ \A i \in Ids : AtPacks(i, log) => b[i].st = "log" /\ ~At(i, todo)
  /\ \A k \in 1..Len(log) : log[k].ids # <<>> /\ Once(log[k].ids)
  /\ \A k, m \in 1..Len(log) : \A i \in Ids : At(i, log[k].ids) /\ At(i, log[m].ids) => k = m

\* in the pack that the wait task is at;
InTodo(b, todo, pc) ==
  /\ Once(todo)
  /\ \A i \in Ids : At(i, todo) =>
       b[i].st = IF pc \in Past /\ i = Head(todo) THEN "inserted" ELSE "log"

\* in the data queue and with the data task;
InData(b, data, cancel) ==
  /\ Once(data) /\ Once(cancel)
  /\ \A i \in Ids : At(i, data) \/ At(i, cancel) => b[i].st = "answered"
  /\ \A i \in Ids : ~(At(i, data) /\ At(i, cancel))

\* in the queue of the task that waits for the data;
InWait(b, wait, pc) ==
  /\ Once(wait)
  /\ \A i \in Ids : At(i, wait) =>
       IF pc # "idle" /\ i = Head(wait) THEN b[i].st = "deleted"
                                        ELSE b[i].st \in {"waiting", "written"}

\* in the pack of the wait task, passed or not;
InPack(b, ids, todo) ==
  /\ \A i \in Ids : At(i, ids) => b[i].st \in LoggedStates \/ (At(i, todo) /\ b[i].st \in StartedStates)
  /\ \A i \in Ids : At(i, todo) => At(i, ids)

\* in the packs that the gc worker is to take or has taken.
InGc(b, queued, taken, ids) ==
  \A i \in Ids : AtPacks(i, queued) \/ AtPacks(i, taken) =>
    b[i].st \in LoggedStates \cup {"done"} /\ ~At(i, ids)

Places ==
  /\ InLine(biow, queue.submit, queue.frozen)
  /\ InLog(biow, queue.log, wl.todo)
  /\ InTodo(biow, wl.todo, wl.pc)
  /\ InData(biow, queue.data, sd)
  /\ InWait(biow, queue.wait, wd)
  /\ InPack(biow, wl.pack.ids, wl.todo)
  /\ InGc(biow, queue.gc, gc.packs, wl.pack.ids)

\* What the tasks hold, according to where they are.
Tasks ==
  /\ wl.pc = "idle" => wl.todo = <<>> /\ wl.pack = NoPack
  /\ wl.pc \in {"undo"} \cup Past => wl.todo # <<>> /\ ~wl.failed
  /\ wl.pc = "undo" => ~biow[Head(wl.todo)].discard
  /\ wl.failed => readOnly /\ wl.pack.ids = wl.todo
  /\ wl.pc # "idle" => wl.failed \/ wl.pack.ids # <<>>
  /\ wd # "idle" => queue.wait # <<>>
  /\ gc.packs # <<>> <=> gc.pc \in {"destroy", "sub"}

SectorsOf(b) ==
  UNION {{i} \X (1..(IF b[i].discard THEN 1 ELSE b[i].len)) :
           i \in {j \in Ids : b[j].st \in InsertedStates}}

Started(b) == {i \in Ids : b[i].st \in StartedStates}

\* The sectors of a failed insertion are counted until it is undone.
Undone(b, w) == IF w.pc = "undo" THEN b[Head(w.todo)].len ELSE 0

PendingCounts ==
  IsFiniteSet(SectorsOf(biow)) /\ pending = Undone(biow, wl) + Cardinality(SectorsOf(biow))
StartedCounts == count.started = Cardinality(Started(biow))
GcCounts == count.gc = Len(queue.gc) + Len(gc.packs)

Counts == PendingCounts /\ StartedCounts /\ GcCounts

\* The lsid where the last pack ends that has not been written, or else written_lsid.
Ends ==
  /\ gc.pc = "sub" => count.written = gc.packs[Len(gc.packs)].end
  /\ count.latest =
       IF queue.log # <<>> THEN queue.log[Len(queue.log)].end
       ELSE IF wl.pc # "idle" THEN wl.pack.end
       ELSE IF queue.gc # <<>> THEN queue.gc[Len(queue.gc)].end
       ELSE IF gc.packs # <<>> THEN gc.packs[Len(gc.packs)].end
       ELSE count.written

\* How far iocore_freeze is.
Freezing ==
  /\ fz # "melted" => frozen.usr
  /\ fz \in {"started", "gc", "frozen"} => queue.submit = <<>>
  /\ fz \in {"gc", "frozen"} => count.started = 0
  /\ fz = "frozen" /\ ~readOnly => wl.pc = "idle" /\ queue.log = <<>> /\ count.gc = 0

PlacesInv == QueueInv /\ TypeInv /\ Tasks /\ Places

-----------------------------------------------------------------------------
(***************************************************************************)
(* Sequences                                                               *)
(***************************************************************************)
\* The head and the tail of a queue.
LEMMA TailFacts ==
  ASSUME NEW S, NEW s \in Seq(S), s # <<>>
  PROVE  /\ Len(s) \in Nat \ {0} /\ Head(s) = s[1] /\ Head(s) \in S /\ Tail(s) \in Seq(S)
         /\ Len(Tail(s)) = Len(s) - 1
         /\ \A k \in 1..(Len(s) - 1) : Tail(s)[k] = s[k + 1] /\ k + 1 \in 1..Len(s)
OBVIOUS

\* Who is where in them.
LEMMA TailAt ==
  ASSUME NEW S, NEW s \in Seq(S), s # <<>>
  PROVE  /\ At(Head(s), s)
         /\ \A i : At(i, Tail(s)) => At(i, s)
         /\ \A i : At(i, s) => i = Head(s) \/ At(i, Tail(s))
         /\ Once(s) => Once(Tail(s)) /\ ~At(Head(s), Tail(s))
<1>1. /\ Len(s) \in Nat \ {0} /\ Head(s) = s[1] /\ Len(Tail(s)) = Len(s) - 1
      /\ \A k \in 1..(Len(s) - 1) : Tail(s)[k] = s[k + 1] /\ k + 1 \in 1..Len(s)
  BY TailFacts
<1>2. PICK t, h : t = Tail(s) /\ h = Head(s)
  OBVIOUS
<1>3. /\ Len(s) \in Nat \ {0} /\ h = s[1] /\ Len(t) = Len(s) - 1
      /\ \A k \in 1..(Len(s) - 1) : t[k] = s[k + 1] /\ k + 1 \in 1..Len(s)
  BY <1>1, <1>2
<1>4. At(h, s)
  BY <1>3 DEF At
<1>5. ASSUME NEW i, At(i, t) PROVE At(i, s)
  BY <1>3, <1>5 DEF At
<1>6. ASSUME NEW i, At(i, s), i # h PROVE At(i, t)
  <2>1. PICK k \in 1..Len(s) : s[k] = i
    BY <1>6 DEF At
  <2>2. k - 1 \in 1..(Len(s) - 1) /\ (k - 1) + 1 = k
    BY <1>3, <1>6, <2>1
  <2>3. t[k - 1] = i
    BY <1>3, <2>1, <2>2
  <2> QED
    BY <1>3, <2>2, <2>3 DEF At
<1>7. ASSUME Once(s) PROVE Once(t) /\ ~At(h, t)
  <2>1. ASSUME NEW k \in 1..Len(t), NEW m \in 1..Len(t), t[k] = t[m] PROVE k = m
    <3>1. k + 1 = m + 1
      BY <1>3, <1>7, <2>1 DEF Once
    <3> QED
      BY <1>3, <3>1
  <2>2. ASSUME NEW k \in 1..Len(t), t[k] = h PROVE FALSE
    <3>1. k + 1 \in 1..Len(s) /\ 1 \in 1..Len(s) /\ s[k + 1] = s[1] /\ k + 1 # 1
      BY <1>3, <2>2
    <3> QED
      BY <1>7, <3>1 DEF Once
  <2> QED
    BY <2>1, <2>2 DEF Once, At
<1> QED
  BY <1>2, <1>4, <1>5, <1>6, <1>7

\* A write at the end of a queue.
LEMMA AppendAt ==
  ASSUME NEW S, NEW s \in Seq(S), NEW x \in S
  PROVE  /\ Append(s, x) \in Seq(S) /\ Append(s, x) # <<>>
         /\ Len(Append(s, x)) = Len(s) + 1 /\ Append(s, x)[Len(s) + 1] = x
         /\ \A k \in 1..Len(s) : Append(s, x)[k] = s[k]
         /\ \A i : At(i, Append(s, x)) <=> At(i, s) \/ i = x
         /\ Once(s) /\ ~At(x, s) => Once(Append(s, x))
<1>1. PICK r : r = Append(s, x)
  OBVIOUS
<1>2. /\ r \in Seq(S) /\ r # <<>> /\ Len(s) \in Nat
      /\ Len(r) = Len(s) + 1 /\ r[Len(s) + 1] = x
      /\ \A k \in 1..Len(s) : r[k] = s[k]
  BY <1>1, AppendProperties, LenProperties
<1>3. \A k : k \in 1..Len(r) <=> k \in 1..Len(s) \/ k = Len(s) + 1
  BY <1>2
<1>4. \A i : At(i, r) <=> At(i, s) \/ i = x
  BY <1>2, <1>3, Zenon DEF At
<1>5. Once(s) /\ ~At(x, s) => Once(r)
  BY <1>2, <1>3, Zenon DEF Once, At
<1> QED
  BY <1>1, <1>2, <1>4, <1>5

\* One queue behind another.
LEMMA ConcatAt ==
  ASSUME NEW S, NEW s \in Seq(S), NEW t \in Seq(S)
  PROVE  /\ s \o t \in Seq(S)
         /\ \A i : At(i, s \o t) <=> At(i, s) \/ At(i, t)
         /\ Once(s) /\ Once(t) /\ (\A i \in S : ~(At(i, s) /\ At(i, t))) => Once(s \o t)
<1>1. PICK r : r = s \o t
  OBVIOUS
<1>2. /\ r \in Seq(S) /\ Len(s) \in Nat /\ Len(t) \in Nat /\ Len(r) = Len(s) + Len(t)
      /\ \A k \in 1..(Len(s) + Len(t)) : r[k] = IF k <= Len(s) THEN s[k] ELSE t[k - Len(s)]
  BY <1>1, ConcatProperties, LenProperties
<1>3. /\ \A k \in 1..Len(s) : k \in 1..Len(r) /\ r[k] = s[k]
      /\ \A k \in 1..Len(t) : Len(s) + k \in 1..Len(r) /\ r[Len(s) + k] = t[k]
  <2>1. \A k \in 1..Len(s) : k \in 1..Len(r) /\ r[k] = s[k]
    BY <1>2
  <2>2. ASSUME NEW k \in 1..Len(t) PROVE Len(s) + k \in 1..Len(r) /\ r[Len(s) + k] = t[k]
    <3>1. Len(s) + k \in 1..Len(r) /\ ~(Len(s) + k <= Len(s)) /\ (Len(s) + k) - Len(s) = k
      BY <1>2
    <3> QED
      BY <1>2, <3>1
  <2> QED
    BY <2>1, <2>2
<1>4. \A k \in 1..Len(r) : k \in 1..Len(s) \/ \E m \in 1..Len(t) : k = Len(s) + m
  <2>1. ASSUME NEW k \in 1..Len(r), k \notin 1..Len(s) PROVE \E m \in 1..Len(t) : k = Len(s) + m
    <3>1. k - Len(s) \in 1..Len(t) /\ k = Len(s) + (k - Len(s))
      BY <1>2, <2>1
    <3> QED
      BY <3>1
  <2> QED
    BY <2>1
<1>5. \A i : At(i, r) <=> At(i, s) \/ At(i, t)
  <2>1. ASSUME NEW i, At(i, s) \/ At(i, t) PROVE At(i, r)
    BY <1>3, <2>1, Zenon DEF At
  <2>2. ASSUME NEW i, At(i, r) PROVE At(i, s) \/ At(i, t)
    <3>1. PICK k \in 1..Len(r) : r[k] = i
      BY <2>2 DEF At
    <3>2. CASE k \in 1..Len(s)
      BY <1>3, <3>1, <3>2, Zenon DEF At
    <3>3. CASE \E m \in 1..Len(t) : k = Len(s) + m
      BY <1>3, <3>1, <3>3, Zenon DEF At
    <3> QED
      BY <1>4, <3>2, <3>3, Zenon
  <2> QED
    BY <2>1, <2>2, Zenon
<1>6. ASSUME Once(s), Once(t), \A i \in S : ~(At(i, s) /\ At(i, t)) PROVE Once(r)
  <2>1. SUFFICES ASSUME NEW k \in 1..Len(r), NEW m \in 1..Len(r), r[k] = r[m] PROVE k = m
    BY DEF Once
  <2>2. \A x \in 1..Len(s), y \in 1..Len(t) : s[x] # t[y]
    <3>1. \A x \in 1..Len(s) : s[x] \in S
      BY ElementOfSeq
    <3> QED
      BY <1>6, <3>1, Zenon DEF At
  <2>3. CASE k \in 1..Len(s) /\ m \in 1..Len(s)
    BY <1>3, <1>6, <2>1, <2>3, Zenon DEF Once
  <2>4. CASE k \in 1..Len(s) /\ m \notin 1..Len(s)
    <3>1. PICK y \in 1..Len(t) : m = Len(s) + y
      BY <1>4, <2>4
    <3> QED
      BY <1>3, <2>1, <2>2, <2>4, <3>1
  <2>5. CASE k \notin 1..Len(s) /\ m \in 1..Len(s)
    <3>1. PICK y \in 1..Len(t) : k = Len(s) + y
      BY <1>4, <2>5
    <3> QED
      BY <1>3, <2>1, <2>2, <2>5, <3>1
  <2>6. CASE k \notin 1..Len(s) /\ m \notin 1..Len(s)
    <3>1. PICK x \in 1..Len(t) : k = Len(s) + x
      BY <1>4, <2>6
    <3>2. PICK y \in 1..Len(t) : m = Len(s) + y
      BY <1>4, <2>6
    <3>3. t[x] = t[y]
      BY <1>3, <2>1, <3>1, <3>2
    <3>4. x = y
      BY <1>6, <3>3 DEF Once
    <3> QED
      BY <3>1, <3>2, <3>4
  <2> QED
    BY <2>3, <2>4, <2>5, <2>6
<1> QED
  BY <1>1, <1>2, <1>5, <1>6

\* The writes of a queue, and the first of two.
LEMMA RangeAt ==
  ASSUME NEW S, NEW s \in Seq(S)
  PROVE  Range(s) = {i \in S : At(i, s)}
<1>1. DOMAIN s = 1..Len(s) /\ \A k \in 1..Len(s) : s[k] \in S
  BY ElementOfSeq, LenProperties
<1> QED
  BY <1>1 DEF Range, At

\* A queue behind another leaves its head.
LEMMA HeadConcat ==
  ASSUME NEW S, NEW s \in Seq(S), NEW t \in Seq(S), s # <<>>
  PROVE  Head(s \o t) = Head(s)
<1>1. Len(s) \in Nat \ {0} /\ Head(s) = s[1]
  BY TailFacts
<1>2. /\ s \o t \in Seq(S) /\ Len(s \o t) = Len(s) + Len(t) /\ Len(t) \in Nat
      /\ \A k \in 1..(Len(s) + Len(t)) : (s \o t)[k] = IF k <= Len(s) THEN s[k] ELSE t[k - Len(s)]
  BY ConcatProperties, LenProperties
<1>3. (s \o t)[1] = s[1] /\ Len(s \o t) # 0
  BY <1>1, <1>2
<1>4. Head(s \o t) = (s \o t)[1]
  BY <1>2, <1>3, EmptySeq, TailFacts
<1> QED
  BY <1>1, <1>3, <1>4

(***************************************************************************)
(* One write moves                                                         *)
(***************************************************************************)
\* A task moves one write along.
LEMMA MoveOne ==
  ASSUME NEW b \in [Ids -> Biows], NEW i \in Ids, NEW s \in States
  PROVE  LET c == [b EXCEPT ![i].st = s]
         IN  /\ c \in [Ids -> Biows]
             /\ c[i].st = s /\ c[i].len = b[i].len /\ c[i].discard = b[i].discard
             /\ \A j \in Ids : j # i => c[j] = b[j]
BY DEF Biows

\* The data device or a cancellation ends one write with or without an error, a request
\* enters the queue.
EndStep(b, c, i, s, e) == c = [b EXCEPT ![i].st = s, ![i].error = e]
NewStep(b, c, i, s, n, d) == c = [b EXCEPT ![i].st = s, ![i].len = n, ![i].discard = d]

\* What they leave.
LEMMA MoveEnd ==
  ASSUME NEW b \in [Ids -> Biows], NEW i \in Ids, NEW s \in States, NEW e \in BOOLEAN,
         NEW c, EndStep(b, c, i, s, e)
  PROVE  /\ c \in [Ids -> Biows]
         /\ c[i].st = s /\ c[i].len = b[i].len /\ c[i].discard = b[i].discard
         /\ \A j \in Ids : j # i => c[j] = b[j]
BY DEF Biows, EndStep

\* And a request.
LEMMA MoveNew ==
  ASSUME NEW b \in [Ids -> Biows], NEW i \in Ids, NEW s \in States, NEW n \in Nat,
         NEW d \in BOOLEAN, NEW c, NewStep(b, c, i, s, n, d)
  PROVE  /\ c \in [Ids -> Biows] /\ c[i].st = s /\ c[i].len = n /\ c[i].discard = d
         /\ \A j \in Ids : j # i => c[j] = b[j]
BY DEF Biows, NewStep

\* destroy_bio_wrapper_dec of one write.
LEMMA DestroyOne ==
  ASSUME biow \in [Ids -> Biows], NEW i \in Ids, NEW s \in States
  PROVE  LET c == Destroyed({i}, s)
         IN  /\ c \in [Ids -> Biows] /\ c[i].st = s
             /\ \A j \in Ids : j # i => c[j] = biow[j]
<1> DEFINE r == [NoBiow EXCEPT !.st = s, !.lsid = biow[i].lsid]
           c == Destroyed({i}, s)
<1>1. r \in Biows /\ r.st = s
  BY DEF Biows, NoBiow
<1>2. c = [j \in Ids |-> IF j = i THEN r ELSE biow[j]]
  BY DEF Destroyed
<1> HIDE DEF r, c
<1>3. c \in [Ids -> Biows] /\ c[i].st = s /\ \A j \in Ids : j # i => c[j] = biow[j]
  BY <1>1, <1>2
<1> QED
  BY <1>3 DEF c

\* Where the other writes are, and what that says of them, stays as it was.
LEMMA Others ==
  ASSUME NEW b, NEW c, NEW i \in Ids, \A j \in Ids : j # i => c[j].st = b[j].st
  PROVE  /\ \A x, y : InLine(b, x, y) /\ b[i].st # "queued" => InLine(c, x, y)
         /\ \A x, y : InLog(b, x, y) /\ b[i].st # "log" => InLog(c, x, y)
         /\ \A x, y : InTodo(b, x, y) /\ b[i].st \notin {"log", "inserted"} => InTodo(c, x, y)
         /\ \A x, y : InData(b, x, y) /\ b[i].st # "answered" => InData(c, x, y)
         /\ \A x, y : InWait(b, x, y) /\ b[i].st \notin {"waiting", "written", "deleted"}
                       => InWait(c, x, y)
         /\ \A x, y : InPack(b, x, y)
                       /\ (b[i].st \notin StartedStates \/ c[i].st \in LoggedStates)
                       => InPack(c, x, y)
         /\ \A x, y, z : InGc(b, x, y, z)
                          /\ (b[i].st \notin LoggedStates \cup {"done"}
                              \/ c[i].st \in LoggedStates \cup {"done"})
                          => InGc(c, x, y, z)
<1>1. ASSUME NEW x, NEW y, InLine(b, x, y), b[i].st # "queued" PROVE InLine(c, x, y)
  BY <1>1, Zenon DEF InLine
<1>2. ASSUME NEW x, NEW y, InLog(b, x, y), b[i].st # "log" PROVE InLog(c, x, y)
  BY <1>2, Zenon DEF InLog
<1>3. ASSUME NEW x, NEW y, InTodo(b, x, y), b[i].st # "log", b[i].st # "inserted"
      PROVE  InTodo(c, x, y)
  <2>1. ASSUME NEW j \in Ids, At(j, x)
        PROVE  c[j].st = IF y \in Past /\ j = Head(x) THEN "inserted" ELSE "log"
    <3>1. b[j].st = IF y \in Past /\ j = Head(x) THEN "inserted" ELSE "log"
      BY <1>3, <2>1, Zenon DEF InTodo
    <3>2. j # i
      BY <1>3, <3>1
    <3> QED
      BY <3>1, <3>2
  <2> QED
    BY <1>3, <2>1, Zenon DEF InTodo
<1>4. ASSUME NEW x, NEW y, InData(b, x, y), b[i].st # "answered" PROVE InData(c, x, y)
  BY <1>4, Zenon DEF InData
<1>5. ASSUME NEW x, NEW y, InWait(b, x, y), b[i].st \notin {"waiting", "written", "deleted"}
      PROVE  InWait(c, x, y)
  <2>1. ASSUME NEW j \in Ids, At(j, x)
        PROVE  IF y # "idle" /\ j = Head(x) THEN c[j].st = "deleted"
                                            ELSE c[j].st \in {"waiting", "written"}
    <3>1. IF y # "idle" /\ j = Head(x) THEN b[j].st = "deleted"
                                       ELSE b[j].st \in {"waiting", "written"}
      BY <1>5, <2>1, Zenon DEF InWait
    <3>2. j # i
      BY <1>5, <3>1
    <3> QED
      BY <3>1, <3>2
  <2> QED
    BY <1>5, <2>1, Zenon DEF InWait
<1>6. ASSUME NEW x, NEW y, InPack(b, x, y), b[i].st \notin StartedStates \/ c[i].st \in LoggedStates
      PROVE  InPack(c, x, y)
  <2>1. \A s \in LoggedStates : s \in StartedStates
    BY DEF LoggedStates
  <2> QED
    BY <1>6, <2>1, Zenon DEF InPack
<1>7. ASSUME NEW x, NEW y, NEW z, InGc(b, x, y, z),
             b[i].st \notin LoggedStates \cup {"done"} \/ c[i].st \in LoggedStates \cup {"done"}
      PROVE  InGc(c, x, y, z)
  BY <1>7, Zenon DEF InGc
<1> QED
  BY <1>1, <1>2, <1>3, <1>4, <1>5, <1>6, <1>7

\* The counters after a step.
LEMMA CountSteps ==
  ASSUME NEW c \in [started : Int, gc : Int, latest : Nat, written : Nat], NEW n \in Nat, NEW d
  PROVE  /\ d = [c EXCEPT !.started = @ - 1] =>
              /\ d \in [started : Int, gc : Int, latest : Nat, written : Nat]
              /\ d.started = c.started - 1 /\ d.gc = c.gc /\ d.latest = c.latest
              /\ d.written = c.written
         /\ d = [c EXCEPT !.gc = @ + 1] =>
              /\ d \in [started : Int, gc : Int, latest : Nat, written : Nat]
              /\ d.started = c.started /\ d.gc = c.gc + 1 /\ d.latest = c.latest
              /\ d.written = c.written
         /\ d = [c EXCEPT !.gc = @ - n] =>
              /\ d \in [started : Int, gc : Int, latest : Nat, written : Nat]
              /\ d.started = c.started /\ d.gc = c.gc - n /\ d.latest = c.latest
              /\ d.written = c.written
         /\ d = [c EXCEPT !.written = n] =>
              /\ d \in [started : Int, gc : Int, latest : Nat, written : Nat]
              /\ d.started = c.started /\ d.gc = c.gc /\ d.latest = c.latest /\ d.written = n
         /\ d = [c EXCEPT !.started = @ + n, !.latest = @ + n] =>
              /\ d \in [started : Int, gc : Int, latest : Nat, written : Nat]
              /\ d.started = c.started + n /\ d.gc = c.gc /\ d.latest = c.latest + n
              /\ d.written = c.written
<1>1. c.started \in Int /\ c.gc \in Int /\ c.latest \in Nat /\ c.written \in Nat
  OBVIOUS
<1>2. c.started - 1 \in Int /\ c.gc + 1 \in Int /\ c.gc - n \in Int /\ c.started + n \in Int
      /\ c.latest + n \in Nat
  BY <1>1
<1>3. ASSUME d = [c EXCEPT !.started = @ - 1]
      PROVE  /\ d \in [started : Int, gc : Int, latest : Nat, written : Nat]
             /\ d.started = c.started - 1 /\ d.gc = c.gc /\ d.latest = c.latest
             /\ d.written = c.written
  BY <1>2, <1>3
<1>4. ASSUME d = [c EXCEPT !.gc = @ + 1]
      PROVE  /\ d \in [started : Int, gc : Int, latest : Nat, written : Nat]
             /\ d.started = c.started /\ d.gc = c.gc + 1 /\ d.latest = c.latest
             /\ d.written = c.written
  BY <1>2, <1>4
<1>5. ASSUME d = [c EXCEPT !.gc = @ - n]
      PROVE  /\ d \in [started : Int, gc : Int, latest : Nat, written : Nat]
             /\ d.started = c.started /\ d.gc = c.gc - n /\ d.latest = c.latest
             /\ d.written = c.written
  BY <1>2, <1>5
<1>6. ASSUME d = [c EXCEPT !.written = n]
      PROVE  /\ d \in [started : Int, gc : Int, latest : Nat, written : Nat]
             /\ d.started = c.started /\ d.gc = c.gc /\ d.latest = c.latest /\ d.written = n
  BY <1>2, <1>6
<1>7. ASSUME d = [c EXCEPT !.started = @ + n, !.latest = @ + n]
      PROVE  /\ d \in [started : Int, gc : Int, latest : Nat, written : Nat]
             /\ d.started = c.started + n /\ d.gc = c.gc /\ d.latest = c.latest + n
             /\ d.written = c.written
  BY <1>2, <1>7
<1> QED
  BY <1>3, <1>4, <1>5, <1>6, <1>7

(***************************************************************************)
(* The steps                                                               *)
(***************************************************************************)
\* The driver's freeze and melt, and the dispatches, move no write between places.
LEMMA SamePlaces ==
  ASSUME Places, UNCHANGED <<biow, sd>>, wd' # "idle" <=> wd # "idle",
         queue'.submit = queue.submit, queue'.frozen = queue.frozen, queue'.log = queue.log,
         queue'.data = queue.data, queue'.wait = queue.wait, queue'.gc = queue.gc,
         wl'.todo = wl.todo, wl'.pack.ids = wl.pack.ids, wl'.pc \in Past <=> wl.pc \in Past,
         gc'.packs = gc.packs
  PROVE  Places'
<1>1. InTodo(biow, wl.todo, wl'.pc)
  BY DEF Places, InTodo
<1>2. InWait(biow, queue.wait, wd')
  BY DEF Places, InWait
<1> QED
  BY <1>1, <1>2 DEF Places

\* A dispatch.
LEMMA DispatchMoves ==
  ASSUME PlacesInv, Dispatch \/ SubmitLogEmpty
  PROVE  TypeInv' /\ Tasks' /\ Places'
<1>1. UNCHANGED <<biow, queue, frozen, wl, sd, wd, gc, fz, count, readOnly>>
  BY DEF Dispatch, DispatchOk, DispatchNoMem, DispatchRetry, SubmitLogEmpty, DispatchVars
<1> QED
  BY <1>1 DEF PlacesInv, TypeInv, Tasks, Places, NoPack

\* The steps of the wait task that leave its pack as it is.
LEMMA WaitLogStays ==
  ASSUME PlacesInv, WaitLogInsertNoMem \/ WaitLogUndo \/ WaitLogStop \/ WaitLogFreeze
  PROVE  TypeInv' /\ Tasks' /\ Places'
<1>0. TypeInv /\ Tasks /\ Places
  BY DEF PlacesInv
<1>1. /\ UNCHANGED <<biow, queue, sd, wd, gc, fz, count, readOnly>>
      /\ wl' = [wl EXCEPT !.pc = wl'.pc]
      /\ \/ wl.pc = "next" /\ wl'.pc = "undo" /\ wl.todo # <<>> /\ ~wl.failed
            /\ ~biow[Head(wl.todo)].discard
         \/ wl.pc = "undo" /\ wl'.pc = "next"
         \/ wl.pc \in Past /\ wl'.pc \in Past
  BY <1>0 DEF WaitLogInsertNoMem, WaitLogUndo, WaitLogStop, WaitLogFreeze, WaitLogVars, TypeInv,
              Past
<1>2. frozen' \in [sys : BOOLEAN, usr : BOOLEAN, stopped : BOOLEAN]
  BY <1>0 DEF WaitLogInsertNoMem, WaitLogUndo, WaitLogStop, WaitLogFreeze, WaitLogVars, TypeInv
<1>3. /\ wl'.pc \in {"next", "undo"} \cup Past /\ wl'.todo = wl.todo /\ wl'.pack = wl.pack
      /\ wl'.failed = wl.failed
      /\ wl' \in [pc : {"idle", "next", "undo", "stop", "freeze", "answer"}, pack : Packs,
                  todo : Seq(Ids), failed : BOOLEAN]
      /\ wl.pc # "idle"
  BY <1>0, <1>1 DEF TypeInv, Past
<1>4. Places'
  BY <1>0, <1>1, <1>3, SamePlaces DEF Past
<1>5. TypeInv'
  BY <1>0, <1>1, <1>2, <1>3 DEF TypeInv
<1>6. Tasks'
  BY <1>0, <1>1, <1>3 DEF Tasks, Past
<1> QED
  BY <1>4, <1>5, <1>6

\* The gc worker is woken, or has updated written_lsid; the user freezes.
LEMMA OthersStay ==
  ASSUME PlacesInv, GcWakeup \/ GcWritten \/ Freeze \/ FreezeWait
  PROVE  TypeInv' /\ Tasks' /\ Places'
<1>0. TypeInv /\ Tasks /\ Places
  BY DEF PlacesInv
<1> DEFINE Rest == UNCHANGED <<biow, queue, wl, sd, wd>>
           Gcs == [pc : {"idle", "run", "destroy", "sub"}, wakeup : BOOLEAN, packs : Seq(Packs)]
           Frs == [sys : BOOLEAN, usr : BOOLEAN, stopped : BOOLEAN]
           Cns == [started : Int, gc : Int, latest : Nat, written : Nat]
<1>1. ASSUME Rest, gc' \in Gcs, gc'.packs = gc.packs, gc'.packs # <<>> <=> gc'.pc \in {"destroy", "sub"},
             frozen' \in Frs, count' \in Cns, readOnly' = readOnly,
             fz' \in {"melted", "queue", "started", "gc", "frozen"}
      PROVE  TypeInv' /\ Tasks' /\ Places'
  <2>1. Places'
    BY <1>0, <1>1, SamePlaces
  <2>2. TypeInv'
    BY <1>0, <1>1 DEF TypeInv
  <2>3. Tasks'
    BY <1>0, <1>1 DEF Tasks
  <2> QED
    BY <2>1, <2>2, <2>3
<1>2. CASE GcWakeup
  <2>1. gc' \in Gcs /\ gc'.packs = gc.packs /\ gc'.pc = "run" /\ gc.pc = "idle"
    BY <1>0, <1>2 DEF GcWakeup, TypeInv
  <2>2. Rest /\ UNCHANGED <<frozen, count, readOnly, fz>>
    BY <1>2 DEF GcWakeup, GcVars
  <2>3. gc'.packs # <<>> <=> gc'.pc \in {"destroy", "sub"}
    BY <1>0, <2>1 DEF Tasks
  <2> HIDE DEF Rest, Gcs
  <2>4. frozen \in Frs /\ count \in Cns /\ fz \in {"melted", "queue", "started", "gc", "frozen"}
    BY <1>0 DEF TypeInv
  <2> HIDE DEF Frs, Cns
  <2> QED
    BY <1>1, <2>1, <2>2, <2>3, <2>4
<1>3. CASE GcWritten
  <2>1. gc.packs \in Seq(Packs) /\ gc.packs # <<>>
    BY <1>0, <1>3 DEF TypeInv, Tasks, GcWritten
  <2>2. Last(gc.packs).end \in Nat
    <3>1. Last(gc.packs) \in Packs
      BY <2>1 DEF Last
    <3> QED
      BY <3>1 DEF Packs
  <2>3. gc' \in Gcs /\ gc'.packs = gc.packs /\ gc'.pc = "sub"
    BY <1>0, <1>3 DEF GcWritten, TypeInv
  <2>4. Rest /\ UNCHANGED <<frozen, readOnly, fz>> /\ count' \in Cns
    BY <1>0, <1>3, <2>2 DEF GcWritten, GcVars, TypeInv
  <2>5. gc'.packs # <<>> <=> gc'.pc \in {"destroy", "sub"}
    BY <2>1, <2>3
  <2>6. frozen \in Frs /\ fz \in {"melted", "queue", "started", "gc", "frozen"}
    BY <1>0 DEF TypeInv
  <2> HIDE DEF Rest, Gcs, Frs, Cns
  <2> QED
    BY <1>1, <2>3, <2>4, <2>5, <2>6
<1>4. CASE Freeze \/ FreezeWait
  <2>1. gc \in Gcs /\ (gc.packs # <<>> <=> gc.pc \in {"destroy", "sub"}) /\ count \in Cns
    BY <1>0 DEF TypeInv, Tasks
  <2>2. frozen' \in Frs
    BY <1>0, <1>4 DEF Freeze, FreezeWait, TypeInv
  <2>3. Rest /\ UNCHANGED <<gc, count, readOnly>>
        /\ fz' \in {"melted", "queue", "started", "gc", "frozen"}
    BY <1>4 DEF Freeze, FreezeWait, FreezeVars
  <2> HIDE DEF Rest, Gcs, Frs, Cns
  <2> QED
    BY <1>1, <2>1, <2>2, <2>3
<1> QED
  BY <1>2, <1>3, <1>4

\* A pack leaves the log wait queue.
LEMMA WaitLogTakeMoves ==
  ASSUME PlacesInv, WaitLogTake
  PROVE  TypeInv' /\ Tasks' /\ Places'
<1>0. TypeInv /\ Tasks /\ Places
  BY DEF PlacesInv
<1>1. PICK log, p : log = queue.log /\ p = Head(queue.log)
  OBVIOUS
<1>2. log \in Seq(Packs) /\ log # <<>> /\ wl.todo = <<>> /\ wl.pack.ids = <<>>
  BY <1>0, <1>1 DEF TypeInv, Tasks, WaitLogTake, NoPack
<1>3. /\ Len(log) \in Nat \ {0} /\ p = log[1] /\ p \in Packs /\ Tail(log) \in Seq(Packs)
      /\ Len(Tail(log)) = Len(log) - 1
      /\ \A k \in 1..(Len(log) - 1) : Tail(log)[k] = log[k + 1] /\ k + 1 \in 1..Len(log)
  BY <1>1, <1>2, TailFacts
<1>4. /\ queue' = [queue EXCEPT !.log = Tail(log)]
      /\ wl' = [pc |-> "next", pack |-> p, todo |-> p.ids, failed |-> readOnly]
      /\ UNCHANGED <<biow, frozen, sd, wd, gc, fz, count, readOnly>>
  BY <1>1 DEF WaitLogTake
<1>5. /\ queue'.submit = queue.submit /\ queue'.frozen = queue.frozen /\ queue'.log = Tail(log)
      /\ queue'.data = queue.data /\ queue'.wait = queue.wait /\ queue'.gc = queue.gc
      /\ queue' \in [frozen : Seq(Ids), submit : Seq(Ids), log : Seq(Packs), data : Seq(Ids),
                     wait : Seq(Ids), gc : Seq(Packs)]
  BY <1>0, <1>3, <1>4 DEF TypeInv
<1>6. p.ids \in Seq(Ids) /\ p.end \in Nat
  BY <1>3 DEF Packs
<1>7. InLog(biow, log, wl.todo)
  BY <1>0, <1>1 DEF Places
<1>8. Once(p.ids) /\ p.ids # <<>>
  BY <1>3, <1>7 DEF InLog
<1>9. \A i \in Ids : At(i, p.ids) => biow[i].st = "log"
  BY <1>3, <1>7 DEF InLog, AtPacks
<1>10. InLog(biow, Tail(log), p.ids)
  <2> DEFINE tl == Tail(log)
  <2>1. \A k \in 1..Len(tl) : k + 1 \in 1..Len(log) /\ tl[k] = log[k + 1] /\ k + 1 # 1 /\ k \in Nat
    BY <1>3
  <2>2. 1 \in 1..Len(log)
    BY <1>3
  <2> HIDE DEF tl
  <2>3. ASSUME NEW i \in Ids, AtPacks(i, tl) PROVE AtPacks(i, log) /\ ~At(i, p.ids)
    <3>1. PICK k \in 1..Len(tl) : At(i, tl[k].ids)
      BY <2>3 DEF AtPacks
    <3>2. At(i, log[k + 1].ids) /\ k + 1 \in 1..Len(log) /\ k + 1 # 1
      BY <2>1, <3>1
    <3> QED
      BY <1>3, <1>7, <2>2, <3>2 DEF AtPacks, InLog
  <2>4. ASSUME NEW k \in 1..Len(tl) PROVE tl[k].ids # <<>> /\ Once(tl[k].ids)
    BY <1>7, <2>1 DEF InLog
  <2>5. ASSUME NEW k \in 1..Len(tl), NEW m \in 1..Len(tl), NEW i \in Ids, At(i, tl[k].ids),
               At(i, tl[m].ids)
        PROVE  k = m
    <3>1. k + 1 = m + 1
      BY <1>7, <2>1, <2>5 DEF InLog
    <3> QED
      BY <2>1, <3>1
  <2>6. InLog(biow, tl, p.ids)
    BY <1>7, <2>3, <2>4, <2>5 DEF InLog
  <2> QED
    BY <2>6 DEF tl
<1>11. InTodo(biow, p.ids, "next")
  BY <1>8, <1>9 DEF InTodo, Past
<1>12. InPack(biow, p.ids, p.ids)
  BY <1>9 DEF InPack, StartedStates
<1>13. InGc(biow, queue.gc, gc.packs, p.ids)
  <2>1. "log" \notin LoggedStates \cup {"done"}
    BY DEF LoggedStates
  <2>2. InGc(biow, queue.gc, gc.packs, wl.pack.ids)
    BY <1>0 DEF Places
  <2> QED
    BY <1>9, <2>1, <2>2 DEF InGc
<1>14. Places'
  BY <1>0, <1>4, <1>5, <1>10, <1>11, <1>12, <1>13 DEF Places
<1>15. TypeInv'
  <2>1. wl' \in [pc : {"idle", "next", "undo", "stop", "freeze", "answer"}, pack : Packs,
                 todo : Seq(Ids), failed : BOOLEAN]
    BY <1>0, <1>3, <1>4, <1>6 DEF TypeInv
  <2> QED
    BY <1>0, <1>4, <1>5, <2>1 DEF TypeInv
<1>16. Tasks'
  BY <1>0, <1>4, <1>5, <1>8 DEF Tasks, Past
<1> QED
  BY <1>14, <1>15, <1>16

\* The first write of a failed pack is destroyed.
LEMMA WaitLogFailMoves ==
  ASSUME PlacesInv, WaitLogFail
  PROVE  TypeInv' /\ Tasks' /\ Places'
<1>0. TypeInv /\ Tasks /\ Places
  BY DEF PlacesInv
<1>1. PICK i, s, t : i = Head(wl.todo) /\ s = wl.todo /\ t = Tail(wl.todo)
  OBVIOUS
<1>2. /\ s \in Seq(Ids) /\ s # <<>> /\ wl.pc = "next" /\ wl.failed /\ wl.pack.ids = s /\ readOnly
      /\ wl.pack \in Packs
  BY <1>0, <1>1 DEF TypeInv, Tasks, WaitLogFail
<1>3. i \in Ids /\ t \in Seq(Ids)
  BY <1>1, <1>2, TailFacts
<1>4. /\ At(i, s) /\ \A j : At(j, t) => At(j, s)
      /\ \A j : At(j, s) => j = i \/ At(j, t)
      /\ Once(s) => Once(t) /\ ~At(i, t)
  BY <1>1, <1>2, TailAt
<1>5. PICK b, c : b = biow /\ c = biow'
  OBVIOUS
<1>6. /\ c \in [Ids -> Biows] /\ c[i].st = "failed"
      /\ \A j \in Ids : j # i => c[j] = b[j]
  <2>1. biow' = Destroyed({i}, "failed") /\ biow \in [Ids -> Biows]
    BY <1>0, <1>1 DEF WaitLogFail, TypeInv
  <2>2. "failed" \in States
    BY DEF States
  <2> QED
    BY <1>3, <1>5, <2>1, <2>2, DestroyOne
<1>7. /\ wl'.pc = "next" /\ wl'.todo = t /\ wl'.pack.ids = t /\ wl'.failed
      /\ wl' \in [pc : {"idle", "next", "undo", "stop", "freeze", "answer"}, pack : Packs,
                  todo : Seq(Ids), failed : BOOLEAN]
  BY <1>0, <1>1, <1>2, <1>3 DEF WaitLogFail, TypeInv, Packs
<1>8. /\ UNCHANGED <<queue, frozen, sd, wd, gc, fz, readOnly>>
      /\ count' \in [started : Int, gc : Int, latest : Nat, written : Nat]
  <2>1. UNCHANGED <<queue, frozen, sd, wd, gc, fz, readOnly>>
        /\ count' = [count EXCEPT !.started = @ - 1]
    BY DEF WaitLogFail, WaitLogVars
  <2>2. count \in [started : Int, gc : Int, latest : Nat, written : Nat]
    BY <1>0 DEF TypeInv
  <2>3. count' \in [started : Int, gc : Int, latest : Nat, written : Nat]
    BY <2>1, <2>2, CountSteps
  <2> QED
    BY <2>1, <2>3
<1>9. InTodo(b, s, "next") /\ InLog(b, queue.log, s) /\ InPack(b, s, s)
      /\ InGc(b, queue.gc, gc.packs, s)
  BY <1>0, <1>1, <1>2, <1>5 DEF Places
<1>10. b[i].st = "log" /\ Once(t) /\ ~At(i, t)
  BY <1>3, <1>4, <1>9 DEF InTodo, Past
<1>11. InLog(c, queue.log, t)
  BY <1>3, <1>4, <1>6, <1>9, Zenon DEF InLog
<1>12. InTodo(c, t, "next")
  <2>1. ASSUME NEW j \in Ids, At(j, t) PROVE c[j].st = "log"
    BY <1>4, <1>6, <1>9, <1>10, <2>1 DEF InTodo, Past
  <2> QED
    BY <1>10, <2>1 DEF InTodo, Past
<1>13. InPack(c, t, t)
  BY <1>12 DEF InTodo, InPack, StartedStates, Past
<1>14. InGc(c, queue.gc, gc.packs, t)
  BY <1>4, <1>6, <1>9, <1>10, <1>3, Zenon DEF InGc
<1>15. /\ InLine(c, queue.submit, queue.frozen) /\ InData(c, queue.data, sd)
       /\ InWait(c, queue.wait, wd)
  <2>1. \A j \in Ids : j # i => c[j].st = b[j].st
    BY <1>6
  <2>2. /\ InLine(b, queue.submit, queue.frozen) /\ InData(b, queue.data, sd)
        /\ InWait(b, queue.wait, wd)
    BY <1>0, <1>5 DEF Places
  <2> QED
    BY <1>3, <1>10, <2>1, <2>2, Others
<1>16. Places'
  BY <1>5, <1>7, <1>8, <1>11, <1>12, <1>13, <1>14, <1>15 DEF Places
<1>17. TypeInv'
  BY <1>0, <1>5, <1>6, <1>7, <1>8 DEF TypeInv
<1>18. Tasks'
  BY <1>0, <1>2, <1>7, <1>8 DEF Tasks, Past
<1> QED
  BY <1>16, <1>17, <1>18

\* The first write of the pack goes into pending_data.
LEMMA WaitLogInsertMoves ==
  ASSUME PlacesInv, WaitLogInsert
  PROVE  TypeInv' /\ Tasks' /\ Places'
<1>0. TypeInv /\ Tasks /\ Places
  BY DEF PlacesInv
<1>1. PICK i, s : i = Head(wl.todo) /\ s = wl.todo
  OBVIOUS
<1>2. s \in Seq(Ids) /\ s # <<>> /\ wl.pc = "next" /\ ~wl.failed
  BY <1>0, <1>1 DEF TypeInv, WaitLogInsert
<1>3. i \in Ids /\ At(i, s)
  BY <1>1, <1>2, TailFacts, TailAt
<1>4. PICK b, c : b = biow /\ c = biow'
  OBVIOUS
<1>5. c \in [Ids -> Biows] /\ c[i].st = "inserted" /\ \A j \in Ids : j # i => c[j] = b[j]
  <2>1. biow' = [biow EXCEPT ![i].st = "inserted"] /\ biow \in [Ids -> Biows]
    BY <1>0, <1>1 DEF WaitLogInsert, TypeInv
  <2>2. "inserted" \in States
    BY DEF States, StartedStates, InsertedStates
  <2> QED
    BY <1>3, <1>4, <2>1, <2>2, MoveOne
<1>6. /\ wl'.pc \in Past /\ wl'.todo = s /\ wl'.pack = wl.pack /\ ~wl'.failed
      /\ wl' \in [pc : {"idle", "next", "undo", "stop", "freeze", "answer"}, pack : Packs,
                  todo : Seq(Ids), failed : BOOLEAN]
  BY <1>0, <1>1, <1>2 DEF WaitLogInsert, TypeInv, Past
<1>7. UNCHANGED <<queue, frozen, sd, wd, gc, fz, readOnly, count>>
  BY DEF WaitLogInsert, WaitLogVars
<1>8. /\ InTodo(b, s, "next") /\ InLog(b, queue.log, s) /\ InPack(b, wl.pack.ids, s)
      /\ InGc(b, queue.gc, gc.packs, wl.pack.ids)
  BY <1>0, <1>1, <1>2, <1>4 DEF Places
<1>9. b[i].st = "log"
  BY <1>3, <1>8 DEF InTodo, Past
<1>10. InLog(c, queue.log, s)
  BY <1>3, <1>5, <1>8, Zenon DEF InLog
<1>11. InTodo(c, s, wl'.pc)
  BY <1>1, <1>3, <1>5, <1>6, <1>8 DEF InTodo, Past
<1>12. InPack(c, wl.pack.ids, s)
  <2>1. "inserted" \in StartedStates
    BY DEF StartedStates, InsertedStates
  <2> QED
    BY <1>3, <1>5, <1>8, <2>1, Zenon DEF InPack
<1>13. /\ InLine(c, queue.submit, queue.frozen) /\ InData(c, queue.data, sd)
       /\ InWait(c, queue.wait, wd) /\ InGc(c, queue.gc, gc.packs, wl.pack.ids)
  <2>1. \A j \in Ids : j # i => c[j].st = b[j].st
    BY <1>5
  <2>2. /\ InLine(b, queue.submit, queue.frozen) /\ InData(b, queue.data, sd)
        /\ InWait(b, queue.wait, wd) /\ InGc(b, queue.gc, gc.packs, wl.pack.ids)
    BY <1>0, <1>4 DEF Places
  <2>3. "log" \notin LoggedStates \cup {"done"}
    BY DEF LoggedStates
  <2> QED
    BY <1>3, <1>9, <2>1, <2>2, <2>3, Others
<1>14. Places'
  BY <1>4, <1>6, <1>7, <1>10, <1>11, <1>12, <1>13 DEF Places
<1>15. TypeInv'
  BY <1>0, <1>4, <1>5, <1>6, <1>7 DEF TypeInv
<1>16. Tasks'
  BY <1>0, <1>2, <1>1, <1>6, <1>7 DEF Tasks, Past
<1> QED
  BY <1>14, <1>15, <1>16

\* The first write of the pack is answered and goes to the data queue.
LEMMA WaitLogAnswerMoves ==
  ASSUME PlacesInv, WaitLogAnswer
  PROVE  TypeInv' /\ Tasks' /\ Places'
<1>0. TypeInv /\ Tasks /\ Places
  BY DEF PlacesInv
<1>1. PICK i, s, t : i = Head(wl.todo) /\ s = wl.todo /\ t = Tail(wl.todo)
  OBVIOUS
<1>2. s \in Seq(Ids) /\ s # <<>> /\ wl.pc = "answer" /\ ~wl.failed /\ wl.pack.ids # <<>>
  BY <1>0, <1>1 DEF TypeInv, Tasks, WaitLogAnswer, Past
<1>3. i \in Ids /\ t \in Seq(Ids)
  BY <1>1, <1>2, TailFacts
<1>4. /\ At(i, s) /\ \A j : At(j, t) => At(j, s)
      /\ \A j : At(j, s) => j = i \/ At(j, t)
      /\ Once(s) => Once(t) /\ ~At(i, t)
  BY <1>1, <1>2, TailAt
<1>5. PICK b, c, d, e : b = biow /\ c = biow' /\ d = queue.data /\ e = Append(queue.data, i)
  OBVIOUS
<1>6. c \in [Ids -> Biows] /\ c[i].st = "answered" /\ \A j \in Ids : j # i => c[j] = b[j]
  <2>1. biow' = [biow EXCEPT ![i].st = "answered"] /\ biow \in [Ids -> Biows]
    BY <1>0, <1>1 DEF WaitLogAnswer, TypeInv
  <2>2. "answered" \in States
    BY DEF States, StartedStates, InsertedStates
  <2> QED
    BY <1>3, <1>5, <2>1, <2>2, MoveOne
<1>7. /\ wl'.pc = "next" /\ wl'.todo = t /\ wl'.pack = wl.pack /\ ~wl'.failed
      /\ wl' \in [pc : {"idle", "next", "undo", "stop", "freeze", "answer"}, pack : Packs,
                  todo : Seq(Ids), failed : BOOLEAN]
  BY <1>0, <1>1, <1>2, <1>3 DEF WaitLogAnswer, TypeInv
<1>8. /\ e \in Seq(Ids) /\ \A j : At(j, e) <=> At(j, d) \/ j = i
      /\ Once(d) /\ ~At(i, d) => Once(e)
  <2>1. d \in Seq(Ids)
    BY <1>0, <1>5 DEF TypeInv
  <2> QED
    BY <1>3, <1>5, <2>1, AppendAt
<1>9. /\ queue'.submit = queue.submit /\ queue'.frozen = queue.frozen /\ queue'.log = queue.log
      /\ queue'.data = e /\ queue'.wait = queue.wait /\ queue'.gc = queue.gc
      /\ queue' \in [frozen : Seq(Ids), submit : Seq(Ids), log : Seq(Packs), data : Seq(Ids),
                     wait : Seq(Ids), gc : Seq(Packs)]
  <2>1. queue' = [queue EXCEPT !.data = e]
    BY <1>1, <1>5 DEF WaitLogAnswer
  <2> QED
    BY <1>0, <1>8, <2>1 DEF TypeInv
<1>10. UNCHANGED <<frozen, sd, wd, gc, fz, readOnly, count>>
  BY DEF WaitLogAnswer, WaitLogVars
<1>11. /\ InTodo(b, s, "answer") /\ InLog(b, queue.log, s) /\ InPack(b, wl.pack.ids, s)
       /\ InData(b, d, sd)
  BY <1>0, <1>1, <1>2, <1>5 DEF Places
<1>12. b[i].st = "inserted" /\ Once(t) /\ ~At(i, t)
  BY <1>1, <1>3, <1>4, <1>11 DEF InTodo, Past
<1>13. InLog(c, queue.log, t)
  <2>1. \A j \in Ids : AtPacks(j, queue.log) => j # i /\ b[j].st = "log" /\ ~At(j, t)
    BY <1>4, <1>11, <1>12 DEF InLog
  <2> QED
    BY <1>6, <1>11, <2>1, Zenon DEF InLog
<1>14. InTodo(c, t, "next")
  <2>1. ASSUME NEW j \in Ids, At(j, t) PROVE c[j].st = "log"
    <3>1. j # i /\ At(j, s)
      BY <1>4, <1>12, <2>1
    <3> QED
      BY <1>1, <1>6, <1>11, <3>1 DEF InTodo, Past
  <2> QED
    BY <1>12, <2>1 DEF InTodo, Past
<1>15. InPack(c, wl.pack.ids, t)
  <2>1. "answered" \in LoggedStates
    BY DEF LoggedStates, StartedStates, InsertedStates
  <2> QED
    BY <1>3, <1>4, <1>6, <1>11, <2>1, Zenon DEF InPack
<1>16. InData(c, e, sd)
  <2>1. ~At(i, d) /\ ~At(i, sd)
    BY <1>3, <1>11, <1>12 DEF InData
  <2> QED
    BY <1>3, <1>6, <1>8, <1>11, <2>1, Zenon DEF InData
<1>17. /\ InLine(c, queue.submit, queue.frozen) /\ InWait(c, queue.wait, wd)
       /\ InGc(c, queue.gc, gc.packs, wl.pack.ids)
  <2>1. \A j \in Ids : j # i => c[j].st = b[j].st
    BY <1>6
  <2>2. /\ InLine(b, queue.submit, queue.frozen) /\ InWait(b, queue.wait, wd)
        /\ InGc(b, queue.gc, gc.packs, wl.pack.ids)
    BY <1>0, <1>5 DEF Places
  <2>3. b[i].st \notin LoggedStates \cup {"done"}
    BY <1>12 DEF LoggedStates
  <2>4. InLine(c, queue.submit, queue.frozen)
    BY <1>12, <2>1, <2>2, Zenon DEF InLine
  <2>5. InWait(c, queue.wait, wd)
    <3>1. b[i].st \notin {"waiting", "written", "deleted"}
      BY <1>12
    <3> QED
      BY <1>3, <2>1, <2>2, <3>1, Others
  <2>6. InGc(c, queue.gc, gc.packs, wl.pack.ids)
    BY <1>3, <2>1, <2>2, <2>3, Others
  <2> QED
    BY <2>4, <2>5, <2>6
<1>18. Places'
  BY <1>5, <1>7, <1>9, <1>10, <1>13, <1>14, <1>15, <1>16, <1>17 DEF Places
<1>19. TypeInv'
  BY <1>0, <1>5, <1>6, <1>7, <1>9, <1>10 DEF TypeInv
<1>20. Tasks'
  BY <1>0, <1>2, <1>7, <1>9, <1>10 DEF Tasks, Past
<1> QED
  BY <1>18, <1>19, <1>20

\* The pack goes to the gc worker.
LEMMA WaitLogEndMoves ==
  ASSUME PlacesInv, WaitLogEnd
  PROVE  TypeInv' /\ Tasks' /\ Places'
<1>0. TypeInv /\ Tasks /\ Places
  BY DEF PlacesInv
<1>1. PICK p, g, h : p = wl.pack /\ g = queue.gc /\ h = Append(queue.gc, wl.pack)
  OBVIOUS
<1>2. p \in Packs /\ g \in Seq(Packs) /\ wl.todo = <<>>
  BY <1>0, <1>1 DEF TypeInv, WaitLogEnd
<1>3. /\ h \in Seq(Packs) /\ Len(h) = Len(g) + 1 /\ h[Len(g) + 1] = p
      /\ Len(g) \in Nat /\ \A k \in 1..Len(g) : h[k] = g[k]
  BY <1>1, <1>2, AppendAt, LenProperties
<1>4. \A i : AtPacks(i, h) => AtPacks(i, g) \/ At(i, p.ids)
  <2>1. SUFFICES ASSUME NEW i, NEW k \in 1..Len(h), At(i, h[k].ids)
                 PROVE  AtPacks(i, g) \/ At(i, p.ids)
    BY DEF AtPacks
  <2>2. k \in 1..Len(g) \/ k = Len(g) + 1
    BY <1>3
  <2> QED
    BY <1>3, <2>1, <2>2 DEF AtPacks
<1>5. /\ queue'.submit = queue.submit /\ queue'.frozen = queue.frozen /\ queue'.log = queue.log
      /\ queue'.data = queue.data /\ queue'.wait = queue.wait /\ queue'.gc = h
      /\ queue' \in [frozen : Seq(Ids), submit : Seq(Ids), log : Seq(Packs), data : Seq(Ids),
                     wait : Seq(Ids), gc : Seq(Packs)]
  <2>1. queue' = [queue EXCEPT !.gc = h]
    BY <1>1 DEF WaitLogEnd
  <2> QED
    BY <1>0, <1>3, <2>1 DEF TypeInv
<1>6. /\ wl'.pc = "idle" /\ wl'.todo = <<>> /\ wl'.pack = NoPack /\ ~wl'.failed
      /\ wl' \in [pc : {"idle", "next", "undo", "stop", "freeze", "answer"}, pack : Packs,
                  todo : Seq(Ids), failed : BOOLEAN]
  <2>1. wl' = [pc |-> "idle", pack |-> NoPack, todo |-> <<>>, failed |-> FALSE]
    BY DEF WaitLogEnd
  <2>2. NoPack \in Packs /\ <<>> \in Seq(Ids)
    BY DEF NoPack, Packs
  <2> QED
    BY <2>1, <2>2
<1>7. /\ gc'.packs = gc.packs /\ gc'.pc = gc.pc
      /\ gc' \in [pc : {"idle", "run", "destroy", "sub"}, wakeup : BOOLEAN, packs : Seq(Packs)]
  BY <1>0 DEF WaitLogEnd, TypeInv
<1>8. /\ UNCHANGED <<biow, frozen, sd, wd, fz, readOnly>>
      /\ count' \in [started : Int, gc : Int, latest : Nat, written : Nat]
  <2>1. UNCHANGED <<biow, frozen, sd, wd, fz, readOnly>> /\ count' = [count EXCEPT !.gc = @ + 1]
    BY DEF WaitLogEnd
  <2>2. count \in [started : Int, gc : Int, latest : Nat, written : Nat]
    BY <1>0 DEF TypeInv
  <2>3. count' \in [started : Int, gc : Int, latest : Nat, written : Nat]
    BY <2>1, <2>2, CountSteps
  <2> QED
    BY <2>1, <2>3
<1>9. /\ InTodo(biow, wl.todo, wl.pc) /\ InLog(biow, queue.log, wl.todo) /\ InPack(biow, p.ids, wl.todo)
      /\ InGc(biow, g, gc.packs, p.ids)
  BY <1>0, <1>1 DEF Places
<1>10. \A i : ~At(i, <<>>)
  BY DEF At
<1>11. InGc(biow, h, gc.packs, NoPack.ids)
  <2>1. NoPack.ids = <<>>
    BY DEF NoPack
  <2>2. \A i \in Ids : At(i, p.ids) => biow[i].st \in LoggedStates
    BY <1>2, <1>9, <1>10 DEF InPack
  <2> QED
    BY <1>4, <1>9, <1>10, <2>1, <2>2, Zenon DEF InGc
<1>12. InTodo(biow, <<>>, "idle") /\ InPack(biow, NoPack.ids, <<>>)
  BY <1>2, <1>9, <1>10 DEF InTodo, InPack, NoPack
<1>13. Places'
  BY <1>0, <1>2, <1>5, <1>6, <1>7, <1>8, <1>9, <1>11, <1>12 DEF Places
<1>14. TypeInv'
  BY <1>0, <1>5, <1>6, <1>7, <1>8 DEF TypeInv
<1>15. Tasks'
  BY <1>0, <1>5, <1>6, <1>7, <1>8 DEF Tasks, Past
<1> QED
  BY <1>13, <1>14, <1>15

\* A place stays right when the states that it asks for stay.
LEMMA StatesKept ==
  ASSUME NEW b, NEW c
  PROVE  /\ (\A j \in Ids : b[j].st = "queued" => c[j].st = "queued")
              => \A x, y : InLine(b, x, y) => InLine(c, x, y)
         /\ (\A j \in Ids : b[j].st = "log" => c[j].st = "log")
              => \A x, y : InLog(b, x, y) => InLog(c, x, y)
         /\ (\A j \in Ids : b[j].st \in {"log", "inserted"} => c[j].st = b[j].st)
              => \A x, y : InTodo(b, x, y) => InTodo(c, x, y)
         /\ (\A j \in Ids : b[j].st = "answered" => c[j].st = "answered")
              => \A x, y : InData(b, x, y) => InData(c, x, y)
         /\ (\A j \in Ids : b[j].st \in {"waiting", "written", "deleted"} => c[j].st = b[j].st)
              => \A x, y : InWait(b, x, y) => InWait(c, x, y)
         /\ (\A j \in Ids : b[j].st \in StartedStates => c[j].st = b[j].st \/ c[j].st \in LoggedStates)
              => \A x, y : InPack(b, x, y) => InPack(c, x, y)
         /\ (\A j \in Ids : b[j].st \in LoggedStates \cup {"done"} =>
                              c[j].st \in LoggedStates \cup {"done"})
              => \A x, y, z : InGc(b, x, y, z) => InGc(c, x, y, z)
<1>1. ASSUME NEW x, NEW y, InLine(b, x, y), \A j \in Ids : b[j].st = "queued" => c[j].st = "queued"
      PROVE  InLine(c, x, y)
  BY <1>1, Zenon DEF InLine
<1>2. ASSUME NEW x, NEW y, InLog(b, x, y), \A j \in Ids : b[j].st = "log" => c[j].st = "log"
      PROVE  InLog(c, x, y)
  BY <1>2, Zenon DEF InLog
<1>3. ASSUME NEW x, NEW y, InTodo(b, x, y),
             \A j \in Ids : b[j].st \in {"log", "inserted"} => c[j].st = b[j].st
      PROVE  InTodo(c, x, y)
  <2>1. ASSUME NEW j \in Ids, At(j, x)
        PROVE  c[j].st = IF y \in Past /\ j = Head(x) THEN "inserted" ELSE "log"
    BY <1>3, <2>1 DEF InTodo
  <2> QED
    BY <1>3, <2>1, Zenon DEF InTodo
<1>4. ASSUME NEW x, NEW y, InData(b, x, y),
             \A j \in Ids : b[j].st = "answered" => c[j].st = "answered"
      PROVE  InData(c, x, y)
  BY <1>4, Zenon DEF InData
<1>5. ASSUME NEW x, NEW y, InWait(b, x, y),
             \A j \in Ids : b[j].st \in {"waiting", "written", "deleted"} => c[j].st = b[j].st
      PROVE  InWait(c, x, y)
  <2>1. ASSUME NEW j \in Ids, At(j, x)
        PROVE  IF y # "idle" /\ j = Head(x) THEN c[j].st = "deleted"
                                            ELSE c[j].st \in {"waiting", "written"}
    BY <1>5, <2>1 DEF InWait
  <2> QED
    BY <1>5, <2>1, Zenon DEF InWait
<1>6. ASSUME NEW x, NEW y, InPack(b, x, y),
             \A j \in Ids : b[j].st \in StartedStates => c[j].st = b[j].st \/ c[j].st \in LoggedStates
      PROVE  InPack(c, x, y)
  <2>1. \A s \in LoggedStates : s \in StartedStates
    BY DEF LoggedStates
  <2> QED
    BY <1>6, <2>1 DEF InPack
<1>7. ASSUME NEW x, NEW y, NEW z, InGc(b, x, y, z),
             \A j \in Ids : b[j].st \in LoggedStates \cup {"done"} => c[j].st \in LoggedStates \cup {"done"}
      PROVE  InGc(c, x, y, z)
  BY <1>7, Zenon DEF InGc
<1> QED
  BY <1>1, <1>2, <1>3, <1>4, <1>5, <1>6, <1>7

\* The tasks of a step that leaves the log wait task alone.
LEMMA TasksKept ==
  ASSUME TypeInv, Tasks, Places, wl' = wl, readOnly => readOnly',
         \A j \in Ids : biow[j].st = "log" => biow'[j].discard = biow[j].discard,
         wd' # "idle" => queue'.wait # <<>>,
         gc'.packs # <<>> <=> gc'.pc \in {"destroy", "sub"}
  PROVE  Tasks'
<1>1. ASSUME wl.pc = "undo" PROVE ~biow'[Head(wl.todo)].discard
  <2>1. wl.todo \in Seq(Ids) /\ wl.todo # <<>> /\ ~biow[Head(wl.todo)].discard
    BY <1>1 DEF TypeInv, Tasks
  <2>2. Head(wl.todo) \in Ids /\ At(Head(wl.todo), wl.todo)
    BY <2>1, TailFacts, TailAt
  <2>3. biow[Head(wl.todo)].st = "log"
    BY <1>1, <2>2 DEF Places, InTodo, Past
  <2> QED
    BY <2>1, <2>2, <2>3
<1> QED
  BY <1>1 DEF Tasks

\* The queues after make_frozen_queue_empty.
LEMMA EmptiedFields ==
  ASSUME TypeInv, NEW q, q = FrozenEmptied
  PROVE  /\ q \in [frozen : Seq(Ids), submit : Seq(Ids), log : Seq(Packs), data : Seq(Ids),
                   wait : Seq(Ids), gc : Seq(Packs)]
         /\ q.submit = queue.submit \o queue.frozen /\ q.frozen = <<>>
         /\ q.log = queue.log /\ q.data = queue.data /\ q.wait = queue.wait /\ q.gc = queue.gc
         /\ \A j : At(j, q.submit) \/ At(j, q.frozen) => At(j, queue.submit) \/ At(j, queue.frozen)
<1>1. queue.submit \in Seq(Ids) /\ queue.frozen \in Seq(Ids)
  BY DEF TypeInv
<1>2. PICK s : s = queue.submit \o queue.frozen
  OBVIOUS
<1>3. s \in Seq(Ids) /\ \A j : At(j, s) <=> At(j, queue.submit) \/ At(j, queue.frozen)
  BY <1>1, <1>2, ConcatAt
<1>4. q = [queue EXCEPT !.submit = s, !.frozen = <<>>]
  BY <1>2 DEF FrozenEmptied
<1>5. /\ q \in [frozen : Seq(Ids), submit : Seq(Ids), log : Seq(Packs), data : Seq(Ids),
                wait : Seq(Ids), gc : Seq(Packs)]
      /\ q.submit = s /\ q.frozen = <<>>
      /\ q.log = queue.log /\ q.data = queue.data /\ q.wait = queue.wait /\ q.gc = queue.gc
  <2>1. queue \in [frozen : Seq(Ids), submit : Seq(Ids), log : Seq(Packs), data : Seq(Ids),
                   wait : Seq(Ids), gc : Seq(Packs)]
    BY DEF TypeInv
  <2>2. <<>> \in Seq(Ids)
    OBVIOUS
  <2> QED
    BY <1>3, <1>4, <2>1, <2>2
<1>6. \A j : ~At(j, <<>>)
  BY DEF At
<1> QED
  BY <1>2, <1>3, <1>5, <1>6

\* The queues and the flags after a melt.
LEMMA MeltedFields ==
  ASSUME TypeInv, NEW isUsr, NEW q, q = Melted(isUsr).queue, NEW f, f = Melted(isUsr).frozen
  PROVE  /\ q \in [frozen : Seq(Ids), submit : Seq(Ids), log : Seq(Packs), data : Seq(Ids),
                   wait : Seq(Ids), gc : Seq(Packs)]
         /\ q.log = queue.log /\ q.data = queue.data /\ q.wait = queue.wait /\ q.gc = queue.gc
         /\ \A j : At(j, q.submit) \/ At(j, q.frozen) => At(j, queue.submit) \/ At(j, queue.frozen)
         /\ f \in [sys : BOOLEAN, usr : BOOLEAN, stopped : BOOLEAN]
         /\ ~isUsr => f.usr = frozen.usr /\ (frozen.usr => q = queue)
<1>1. /\ f = IF isUsr THEN [frozen EXCEPT !.usr = FALSE] ELSE [frozen EXCEPT !.sys = FALSE]
      /\ q = IF ~(f.sys \/ f.usr) THEN FrozenEmptied ELSE queue
  BY DEF Melted
<1>2. f \in [sys : BOOLEAN, usr : BOOLEAN, stopped : BOOLEAN]
  <2>1. frozen \in [sys : BOOLEAN, usr : BOOLEAN, stopped : BOOLEAN]
    BY DEF TypeInv
  <2>2. f = [frozen EXCEPT !.usr = FALSE] \/ f = [frozen EXCEPT !.sys = FALSE]
    BY <1>1
  <2> QED
    BY <2>1, <2>2
<1>3. ~isUsr => f.usr = frozen.usr
  BY <1>1 DEF TypeInv
<1>4. ASSUME q = FrozenEmptied
      PROVE /\ q \in [frozen : Seq(Ids), submit : Seq(Ids), log : Seq(Packs), data : Seq(Ids),
                   wait : Seq(Ids), gc : Seq(Packs)]
         /\ q.log = queue.log /\ q.data = queue.data /\ q.wait = queue.wait /\ q.gc = queue.gc
         /\ \A j : At(j, q.submit) \/ At(j, q.frozen) => At(j, queue.submit) \/ At(j, queue.frozen)
  BY <1>4, EmptiedFields
<1>5. CASE q = FrozenEmptied
  <2>1. ~isUsr => ~frozen.usr \/ q = queue
    BY <1>1, <1>3
  <2> QED
    BY <1>2, <1>3, <1>4, <1>5, <2>1
<1>6. CASE q = queue
  BY <1>2, <1>3, <1>6 DEF TypeInv
<1> QED
  BY <1>1, <1>5, <1>6

\* The queues after push_into_lpack_submit_queue.
LEMMA PushFields ==
  ASSUME TypeInv, NEW i \in Ids, NEW q, q = Push(i)
  PROVE  /\ q \in [frozen : Seq(Ids), submit : Seq(Ids), log : Seq(Packs), data : Seq(Ids),
                   wait : Seq(Ids), gc : Seq(Packs)]
         /\ q.log = queue.log /\ q.data = queue.data /\ q.wait = queue.wait /\ q.gc = queue.gc
         /\ \A j : At(j, q.submit) \/ At(j, q.frozen) =>
                     At(j, queue.submit) \/ At(j, queue.frozen) \/ j = i
         /\ frozen.usr => q.submit = queue.submit
<1>1. CASE IsFrozen
  <2>1. queue.frozen \in Seq(Ids)
    BY DEF TypeInv
  <2>2. PICK s : s = Append(queue.frozen, i)
    OBVIOUS
  <2>3. s \in Seq(Ids) /\ \A j : At(j, s) <=> At(j, queue.frozen) \/ j = i
    BY <2>1, <2>2, AppendAt
  <2>4. q = [queue EXCEPT !.frozen = s]
    BY <1>1, <2>2 DEF Push
  <2>5. /\ q \in [frozen : Seq(Ids), submit : Seq(Ids), log : Seq(Packs), data : Seq(Ids),
                  wait : Seq(Ids), gc : Seq(Packs)]
        /\ q.submit = queue.submit /\ q.frozen = s
        /\ q.log = queue.log /\ q.data = queue.data /\ q.wait = queue.wait /\ q.gc = queue.gc
    BY <2>3, <2>4 DEF TypeInv
  <2> QED
    BY <2>3, <2>5
<1>2. CASE ~IsFrozen
  <2>1. PICK r : r = FrozenEmptied
    OBVIOUS
  <2>2. /\ r \in [frozen : Seq(Ids), submit : Seq(Ids), log : Seq(Packs), data : Seq(Ids),
                   wait : Seq(Ids), gc : Seq(Packs)]
        /\ r.log = queue.log /\ r.data = queue.data /\ r.wait = queue.wait /\ r.gc = queue.gc
        /\ \A j : At(j, r.submit) \/ At(j, r.frozen) => At(j, queue.submit) \/ At(j, queue.frozen)
    BY <2>1, EmptiedFields
  <2>3. PICK s : s = Append(r.submit, i)
    OBVIOUS
  <2>4. s \in Seq(Ids) /\ \A j : At(j, s) <=> At(j, r.submit) \/ j = i
    BY <2>2, <2>3, AppendAt
  <2>5. q = [r EXCEPT !.submit = s]
    BY <1>2, <2>1, <2>3 DEF Push
  <2>6. /\ q \in [frozen : Seq(Ids), submit : Seq(Ids), log : Seq(Packs), data : Seq(Ids),
                  wait : Seq(Ids), gc : Seq(Packs)]
        /\ q.submit = s /\ q.frozen = r.frozen
        /\ q.log = r.log /\ q.data = r.data /\ q.wait = r.wait /\ q.gc = r.gc
    BY <2>2, <2>4, <2>5
  <2>7. ~frozen.usr
    BY <1>2 DEF IsFrozen
  <2> QED
    BY <2>2, <2>4, <2>6, <2>7
<1> QED
  BY <1>1, <1>2

\* A write request.
LEMMA MakeWriteMoves ==
  ASSUME PlacesInv, NEW i \in Ids, NEW len \in Nat, NEW discard \in BOOLEAN,
         MakeWrite(i, len, discard)
  PROVE  TypeInv' /\ Tasks' /\ Places'
<1>0. TypeInv /\ Tasks /\ Places
  BY DEF PlacesInv
<1>1. biow[i].st = "none" /\ UNCHANGED <<frozen, wl, sd, wd, gc, fz, count, readOnly>>
  BY DEF MakeWrite
<1>2. ASSUME biow' \in [Ids -> Biows], \A j \in Ids : j # i => biow'[j] = biow[j],
             queue' \in [frozen : Seq(Ids), submit : Seq(Ids), log : Seq(Packs),
                         data : Seq(Ids), wait : Seq(Ids), gc : Seq(Packs)],
             queue'.log = queue.log, queue'.data = queue.data, queue'.wait = queue.wait,
             queue'.gc = queue.gc,
             \A j \in Ids : At(j, queue'.submit) \/ At(j, queue'.frozen) =>
                At(j, queue.submit) \/ At(j, queue.frozen) \/ (j = i /\ biow'[i].st = "queued")
      PROVE  TypeInv' /\ Tasks' /\ Places'
  <2>1. TypeInv'
    BY <1>0, <1>1, <1>2 DEF TypeInv
  <2>2. Tasks'
    <3>1. \A j \in Ids : biow[j].st = "log" => biow'[j].discard = biow[j].discard
      BY <1>1, <1>2
    <3>2. wd' # "idle" => queue'.wait # <<>>
      BY <1>0, <1>1, <1>2 DEF Tasks
    <3>3. gc'.packs # <<>> <=> gc'.pc \in {"destroy", "sub"}
      BY <1>0, <1>1 DEF Tasks
    <3> QED
      BY <1>0, <1>1, <3>1, <3>2, <3>3, TasksKept
  <2>3. \A j \in Ids : biow[j].st # "none" => biow'[j] = biow[j]
    BY <1>1, <1>2
  <2>4. "none" \notin StartedStates /\ "none" \notin LoggedStates \cup {"done"}
    BY DEF LoggedStates, StartedStates, InsertedStates
  <2>5. InLine(biow', queue'.submit, queue'.frozen)
    <3>1. InLine(biow, queue.submit, queue.frozen)
      BY <1>0 DEF Places
    <3>2. ASSUME NEW j \in Ids, At(j, queue.submit) \/ At(j, queue.frozen) PROVE biow'[j].st = "queued"
      BY <2>3, <3>1, <3>2 DEF InLine
    <3> QED
      BY <1>2, <3>2, Zenon DEF InLine
  <2>6. /\ InLog(biow', queue.log, wl.todo) /\ InData(biow', queue.data, sd)
    <3>1. InLog(biow, queue.log, wl.todo) /\ InData(biow, queue.data, sd)
      BY <1>0 DEF Places
    <3>2. /\ \A j \in Ids : biow[j].st = "log" => biow'[j].st = "log"
          /\ \A j \in Ids : biow[j].st = "answered" => biow'[j].st = "answered"
      BY <2>3
    <3> QED
      BY <3>1, <3>2, StatesKept
  <2>7. InTodo(biow', wl.todo, wl.pc) /\ InWait(biow', queue.wait, wd)
    <3>1. InTodo(biow, wl.todo, wl.pc) /\ InWait(biow, queue.wait, wd)
      BY <1>0 DEF Places
    <3>2. /\ \A j \in Ids : biow[j].st \in {"log", "inserted"} => biow'[j].st = biow[j].st
          /\ \A j \in Ids : biow[j].st \in {"waiting", "written", "deleted"} => biow'[j].st = biow[j].st
      BY <2>3
    <3> QED
      BY <3>1, <3>2, StatesKept
  <2>8. InPack(biow', wl.pack.ids, wl.todo) /\ InGc(biow', queue.gc, gc.packs, wl.pack.ids)
    <3>1. InPack(biow, wl.pack.ids, wl.todo) /\ InGc(biow, queue.gc, gc.packs, wl.pack.ids)
      BY <1>0 DEF Places
    <3>2. /\ \A j \in Ids : biow[j].st \in StartedStates => biow'[j].st = biow[j].st
          /\ \A j \in Ids : biow[j].st \in LoggedStates \cup {"done"} => biow'[j].st = biow[j].st
      BY <2>3, <2>4
    <3> QED
      BY <3>1, <3>2, StatesKept
  <2>9. Places'
    BY <1>1, <1>2, <2>5, <2>6, <2>7, <2>8 DEF Places
  <2> QED
    BY <2>1, <2>2, <2>9
<1>3. CASE readOnly
  <2>1. biow' = Destroyed({i}, "failed") /\ queue' = queue
    BY <1>3 DEF MakeWrite
  <2>2. "failed" \in States /\ biow \in [Ids -> Biows]
    BY <1>0 DEF States, TypeInv
  <2>3. biow' \in [Ids -> Biows] /\ \A j \in Ids : j # i => biow'[j] = biow[j]
    BY <2>1, <2>2, DestroyOne
  <2>4. queue \in [frozen : Seq(Ids), submit : Seq(Ids), log : Seq(Packs),
                   data : Seq(Ids), wait : Seq(Ids), gc : Seq(Packs)]
    BY <1>0 DEF TypeInv
  <2> QED
    BY <1>2, <2>1, <2>3, <2>4
<1>4. CASE ~readOnly
  <2>1. /\ biow' = [biow EXCEPT ![i].st = "queued", ![i].len = len, ![i].discard = discard]
        /\ queue' = Push(i)
    BY <1>4 DEF MakeWrite
  <2>2. /\ biow' \in [Ids -> Biows] /\ biow'[i].st = "queued"
        /\ \A j \in Ids : j # i => biow'[j] = biow[j]
    <3>1. biow \in [Ids -> Biows]
      BY <1>0 DEF TypeInv
    <3>2. "queued" \in States
      BY DEF States
    <3>3. PICK b, c : b = biow /\ c = biow'
      OBVIOUS
    <3>4. NewStep(b, c, i, "queued", len, discard)
      BY <2>1, <3>3 DEF NewStep
    <3>5. c \in [Ids -> Biows] /\ c[i].st = "queued" /\ \A j \in Ids : j # i => c[j] = b[j]
      BY <3>1, <3>2, <3>3, <3>4, MoveNew
    <3> QED
      BY <3>3, <3>5
  <2>3. /\ queue' \in [frozen : Seq(Ids), submit : Seq(Ids), log : Seq(Packs),
                       data : Seq(Ids), wait : Seq(Ids), gc : Seq(Packs)]
        /\ queue'.log = queue.log /\ queue'.data = queue.data /\ queue'.wait = queue.wait
        /\ queue'.gc = queue.gc
        /\ \A j : At(j, queue'.submit) \/ At(j, queue'.frozen) =>
                    At(j, queue.submit) \/ At(j, queue.frozen) \/ j = i
    BY <1>0, <2>1, PushFields
  <2> QED
    BY <1>2, <2>2, <2>3
<1> QED
  BY <1>3, <1>4

\* The data device completes a write.
LEMMA DdevWriteMoves ==
  ASSUME PlacesInv, NEW i \in Ids, NEW error \in BOOLEAN, DdevWrite(i, error)
  PROVE  TypeInv' /\ Tasks' /\ Places'
<1>0. TypeInv /\ Tasks /\ Places
  BY DEF PlacesInv
<1>1. /\ biow[i].st = "waiting" /\ UNCHANGED <<queue, frozen, wl, sd, wd, gc, fz, count, readOnly>>
      /\ biow' = [biow EXCEPT ![i].st = "written", ![i].error = error]
  BY DEF DdevWrite
<1>2. /\ biow' \in [Ids -> Biows] /\ biow'[i].st = "written"
      /\ \A j \in Ids : j # i => biow'[j] = biow[j]
  <2>1. "written" \in States /\ biow \in [Ids -> Biows]
    BY <1>0 DEF States, StartedStates, InsertedStates, TypeInv
  <2>2. PICK b, c : b = biow /\ c = biow'
    OBVIOUS
  <2>3. EndStep(b, c, i, "written", error)
    BY <1>1, <2>2 DEF EndStep
  <2>4. c \in [Ids -> Biows] /\ c[i].st = "written" /\ \A j \in Ids : j # i => c[j] = b[j]
    BY <2>1, <2>2, <2>3, MoveEnd
  <2> QED
    BY <2>2, <2>4
<1>3. TypeInv'
  BY <1>0, <1>1, <1>2 DEF TypeInv
<1>4. \A j \in Ids : biow[j].st # "waiting" => biow'[j] = biow[j]
  BY <1>1, <1>2
<1>5. Tasks'
  <2>1. \A j \in Ids : biow[j].st = "log" => biow'[j].discard = biow[j].discard
    BY <1>4
  <2>2. wd' # "idle" => queue'.wait # <<>>
    BY <1>0, <1>1 DEF Tasks
  <2>3. gc'.packs # <<>> <=> gc'.pc \in {"destroy", "sub"}
    BY <1>0, <1>1 DEF Tasks
  <2> QED
    BY <1>0, <1>1, <2>1, <2>2, <2>3, TasksKept
<1>6. InWait(biow', queue.wait, wd)
  <2>1. InWait(biow, queue.wait, wd)
    BY <1>0 DEF Places
  <2>2. ASSUME NEW j \in Ids, At(j, queue.wait)
        PROVE  IF wd # "idle" /\ j = Head(queue.wait) THEN biow'[j].st = "deleted"
                                                      ELSE biow'[j].st \in {"waiting", "written"}
    BY <1>1, <1>2, <2>1, <2>2 DEF InWait
  <2> QED
    BY <2>1, <2>2, Zenon DEF InWait
<1>7. /\ InLine(biow', queue.submit, queue.frozen) /\ InLog(biow', queue.log, wl.todo)
      /\ InTodo(biow', wl.todo, wl.pc) /\ InData(biow', queue.data, sd)
  <2>1. /\ InLine(biow, queue.submit, queue.frozen) /\ InLog(biow, queue.log, wl.todo)
        /\ InTodo(biow, wl.todo, wl.pc) /\ InData(biow, queue.data, sd)
    BY <1>0 DEF Places
  <2>2. /\ \A j \in Ids : biow[j].st = "queued" => biow'[j].st = "queued"
        /\ \A j \in Ids : biow[j].st = "log" => biow'[j].st = "log"
        /\ \A j \in Ids : biow[j].st \in {"log", "inserted"} => biow'[j].st = biow[j].st
        /\ \A j \in Ids : biow[j].st = "answered" => biow'[j].st = "answered"
    BY <1>4
  <2> QED
    BY <2>1, <2>2, StatesKept
<1>8. InPack(biow', wl.pack.ids, wl.todo) /\ InGc(biow', queue.gc, gc.packs, wl.pack.ids)
  <2>1. InPack(biow, wl.pack.ids, wl.todo) /\ InGc(biow, queue.gc, gc.packs, wl.pack.ids)
    BY <1>0 DEF Places
  <2>2. "written" \in LoggedStates
    BY DEF LoggedStates, StartedStates, InsertedStates
  <2>3. \A j \in Ids : biow'[j].st = biow[j].st \/ biow'[j].st \in LoggedStates
    BY <1>2, <2>2
  <2> QED
    BY <2>1, <2>3, StatesKept
<1>9. Places'
  BY <1>1, <1>6, <1>7, <1>8 DEF Places
<1> QED
  BY <1>3, <1>5, <1>9

\* A round of the submit log task: the batch leaves the submit queue, and no write of it
\* is left in the line.
LEMMA BatchApart ==
  ASSUME QueueInv, TypeInv, queue.submit # <<>>
  PROVE  /\ Batch \in Seq(Ids) /\ Once(Batch) /\ Len(Batch) \in Nat \ {0} /\ Batch # <<>>
         /\ \A i : At(i, Batch) => At(i, queue.submit)
         /\ Behind(queue.submit, Len(Batch)) \in Seq(Ids)
         /\ \A i : At(i, Behind(queue.submit, Len(Batch))) \/ At(i, queue.frozen) =>
                     ~At(i, Batch) /\ (At(i, queue.submit) \/ At(i, queue.frozen))
         /\ Range(Batch) = {i \in Ids : At(i, Batch)}
<1>0. Types /\ LineSorted(Line(queue)) /\ QueueShape(queue)
  BY DEF QueueInv, Order, Shape
<1>1. PICK s, f, n, l, a : s = queue.submit /\ f = queue.frozen /\ n = Len(Batch)
                           /\ l = Line(queue) /\ a = Batch
  OBVIOUS
<1>2. /\ s \in Seq(Ids) /\ f \in Seq(Ids) /\ s # <<>> /\ Len(s) \in Nat \ {0} /\ Len(f) \in Nat
  BY <1>0, <1>1, LenProperties DEF Types
<1>3. /\ a \in Seq(Ids) /\ n \in Nat /\ n <= Len(s) /\ \A k \in 1..n : a[k] = s[k]
      /\ Len(a) = n /\ n # 0
  BY <1>0, <1>1, <1>2, QueueAssumption, BatchType
<1>4. PICK r, t : r = NewSubmit(queue, Behind(s, n)) /\ t = Behind(s, n)
  OBVIOUS
<1>5. r.submit = t /\ r.frozen = f
  <2>1. ASSUME NEW x
        PROVE  NewSubmit(queue, x).submit = x /\ NewSubmit(queue, x).frozen = queue.frozen
    BY <1>0, SubmitSet
  <2> QED
    BY <1>1, <1>4, <2>1, Zenon
<1>6. /\ t \in Seq(Ids) /\ Line(r) \in Seq(Ids)
      /\ Len(l) = Len(Line(r)) + n
      /\ \A k \in 1..Len(Line(r)) : Line(r)[k] = l[k + n]
      /\ \A k \in 1..n : l[k] = a[k]
  BY <1>0, <1>1, <1>4, <1>5, QueueAssumption, BatchTaken
<1>7. /\ Len(Line(r)) = Len(t) + Len(f)
      /\ \A k \in 1..Len(t) : Line(r)[k] = t[k]
      /\ \A k \in 1..Len(f) : Line(r)[Len(t) + k] = f[k]
      /\ Len(t) \in Nat
  BY <1>2, <1>5, <1>6, LineType, LenProperties
<1>8. l \in Seq(Ids) /\ \A k \in 1..Len(l) : l[k] \in Nat
  <2>1. l \in Seq(Ids)
    BY <1>0, <1>1, LineType DEF Types
  <2>2. \A k \in 1..Len(l) : l[k] \in Ids
    BY <2>1, ElementOfSeq
  <2> QED
    BY <2>1, <2>2 DEF Ids
<1>9. \A k, m \in 1..Len(l) : k < m => l[k] # l[m]
  BY <1>0, <1>1, <1>8 DEF LineSorted
<1>10. Once(a)
  BY <1>3, <1>6, <1>7, <1>9 DEF Once
<1>11. \A i : At(i, a) => At(i, s)
  BY <1>2, <1>3 DEF At
<1>12. ASSUME NEW i, At(i, t) \/ At(i, f) PROVE ~At(i, a)
  <2>1. PICK k \in 1..Len(Line(r)) : Line(r)[k] = i
    <3>1. CASE At(i, t)
      BY <1>2, <1>7, <3>1 DEF At
    <3>2. CASE At(i, f)
      <4>1. PICK k \in 1..Len(f) : f[k] = i
        BY <3>2 DEF At
      <4>2. Len(t) + k \in 1..Len(Line(r)) /\ Line(r)[Len(t) + k] = i
        BY <1>2, <1>7, <4>1
      <4> QED
        BY <4>2
    <3> QED
      BY <1>12, <3>1, <3>2
  <2>2. SUFFICES ASSUME NEW m \in 1..n, a[m] = i PROVE FALSE
    BY <1>3 DEF At
  <2>3. l[k + n] = l[m] /\ m < k + n /\ m \in 1..Len(l) /\ k + n \in 1..Len(l)
    BY <1>2, <1>3, <1>6, <1>7, <2>1, <2>2
  <2> QED
    BY <1>9, <2>3
<1>13. ASSUME NEW i, At(i, t) PROVE At(i, s)
  <2>1. PICK k \in 1..Len(t) : t[k] = i
    BY <1>13 DEF At
  <2>2. /\ Len(l) = Len(s) + Len(f)
        /\ \A x \in 1..Len(s) : l[x] = s[x]
    BY <1>0, <1>1, LineType DEF Types
  <2>3. l[k + n] = i /\ k + n \in 1..Len(s)
    <3>1. Len(t) + n = Len(s)
      BY <1>2, <1>3, <1>6, <1>7, <2>2
    <3> QED
      BY <1>2, <1>3, <1>6, <1>7, <2>1, <3>1
  <2> QED
    BY <2>2, <2>3 DEF At
<1>14. Range(a) = {i \in Ids : At(i, a)}
  <2>1. DOMAIN a = 1..Len(a) /\ \A k \in 1..Len(a) : a[k] \in Ids
    BY <1>3, ElementOfSeq, LenProperties
  <2> QED
    BY <2>1 DEF Range, At
<1> QED
  BY <1>1, <1>2, <1>3, <1>4, <1>6, <1>10, <1>11, <1>12, <1>13, <1>14

\* When queued writes move, those that are past the queue stay.
LEMMA QueuedMoves ==
  ASSUME Places, NEW c, \A j \in Ids : biow[j].st # "queued" => c[j] = biow[j]
  PROVE  /\ InLog(c, queue.log, wl.todo) /\ InTodo(c, wl.todo, wl.pc) /\ InData(c, queue.data, sd)
         /\ InWait(c, queue.wait, wd) /\ InPack(c, wl.pack.ids, wl.todo)
         /\ InGc(c, queue.gc, gc.packs, wl.pack.ids)
<1>1. PICK b : b = biow
  OBVIOUS
<1>2. /\ InLog(b, queue.log, wl.todo) /\ InTodo(b, wl.todo, wl.pc) /\ InData(b, queue.data, sd)
      /\ InWait(b, queue.wait, wd) /\ InPack(b, wl.pack.ids, wl.todo)
      /\ InGc(b, queue.gc, gc.packs, wl.pack.ids)
  BY <1>1 DEF Places
<1>3. /\ \A j \in Ids : b[j].st = "log" => c[j].st = "log"
      /\ \A j \in Ids : b[j].st \in {"log", "inserted"} => c[j].st = b[j].st
      /\ \A j \in Ids : b[j].st = "answered" => c[j].st = "answered"
      /\ \A j \in Ids : b[j].st \in {"waiting", "written", "deleted"} => c[j].st = b[j].st
  BY <1>1
<1>4. \A j \in Ids : b[j].st \in StartedStates \cup {"done"} => c[j].st = b[j].st
  BY <1>1 DEF StartedStates, InsertedStates
<1>5. \A s \in LoggedStates : s \in StartedStates
  BY DEF LoggedStates
<1>6. /\ \A j \in Ids : b[j].st \in StartedStates => c[j].st = b[j].st \/ c[j].st \in LoggedStates
      /\ \A j \in Ids : b[j].st \in LoggedStates \cup {"done"} => c[j].st \in LoggedStates \cup {"done"}
  BY <1>4, <1>5
<1>7. InLog(c, queue.log, wl.todo) /\ InData(c, queue.data, sd)
  BY <1>2, <1>3, StatesKept
<1>8. InTodo(c, wl.todo, wl.pc) /\ InWait(c, queue.wait, wd)
  BY <1>2, <1>3, StatesKept
<1>9. InPack(c, wl.pack.ids, wl.todo) /\ InGc(c, queue.gc, gc.packs, wl.pack.ids)
  BY <1>2, <1>6, StatesKept
<1> QED
  BY <1>7, <1>8, <1>9

\* A round of the submit log task in read-only mode.
LEMMA SubmitLogReadOnlyMoves ==
  ASSUME PlacesInv, SubmitLogReadOnly
  PROVE  TypeInv' /\ Tasks' /\ Places'
<1>0. TypeInv /\ Tasks /\ Places /\ QueueInv
  BY DEF PlacesInv
<1>1. PICK a, t, b, c : a = Batch /\ t = Behind(queue.submit, Len(Batch)) /\ b = biow /\ c = biow'
  OBVIOUS
<1>2. /\ \A i : At(i, a) => At(i, queue.submit)
      /\ t \in Seq(Ids)
      /\ \A i : At(i, t) \/ At(i, queue.frozen) =>
                  ~At(i, a) /\ (At(i, queue.submit) \/ At(i, queue.frozen))
      /\ Range(a) = {i \in Ids : At(i, a)}
  <2>1. queue.submit # <<>>
    BY DEF SubmitLogReadOnly
  <2> QED
    BY <1>0, <1>1, <2>1, BatchApart
<1>3. queue' = [queue EXCEPT !.submit = t] /\ c = Destroyed(Range(a), "failed")
      /\ UNCHANGED <<frozen, wl, sd, wd, gc, fz, count, readOnly>>
  BY <1>1 DEF SubmitLogReadOnly
<1>4. /\ queue'.submit = t /\ queue'.frozen = queue.frozen /\ queue'.log = queue.log
      /\ queue'.data = queue.data /\ queue'.wait = queue.wait /\ queue'.gc = queue.gc
      /\ queue' \in [frozen : Seq(Ids), submit : Seq(Ids), log : Seq(Packs), data : Seq(Ids),
                     wait : Seq(Ids), gc : Seq(Packs)]
  BY <1>0, <1>2, <1>3 DEF TypeInv
<1>5. InLine(b, queue.submit, queue.frozen)
  BY <1>0, <1>1 DEF Places
<1>6. \A i \in Ids : At(i, a) => b[i].st = "queued"
  BY <1>2, <1>5, Zenon DEF InLine
<1>7. /\ c \in [Ids -> Biows]
      /\ \A i \in Ids : ~At(i, a) => c[i] = b[i]
  <2>1. \A i \in Ids : [NoBiow EXCEPT !.st = "failed", !.lsid = b[i].lsid] \in Biows
    BY <1>0, <1>1 DEF Biows, NoBiow, TypeInv, States
  <2>2. c = [i \in Ids |-> IF i \in Range(a)
                           THEN [NoBiow EXCEPT !.st = "failed", !.lsid = b[i].lsid] ELSE b[i]]
    BY <1>1, <1>3 DEF Destroyed
  <2>3. b \in [Ids -> Biows]
    BY <1>0, <1>1 DEF TypeInv
  <2> QED
    BY <1>2, <2>1, <2>2, <2>3
<1>8. \A j \in Ids : b[j].st # "queued" => c[j] = b[j]
  BY <1>6, <1>7
<1>9. InLine(c, t, queue.frozen)
  BY <1>2, <1>5, <1>7, Zenon DEF InLine
<1>10. /\ InLog(c, queue.log, wl.todo) /\ InTodo(c, wl.todo, wl.pc) /\ InData(c, queue.data, sd)
       /\ InWait(c, queue.wait, wd) /\ InPack(c, wl.pack.ids, wl.todo)
       /\ InGc(c, queue.gc, gc.packs, wl.pack.ids)
  BY <1>0, <1>1, <1>8, QueuedMoves DEF Places
<1>11. Places'
  BY <1>1, <1>3, <1>4, <1>9, <1>10 DEF Places
<1>12. TypeInv'
  BY <1>0, <1>1, <1>3, <1>4, <1>7 DEF TypeInv
<1>13. Tasks'
  <2>1. \A j \in Ids : biow[j].st = "log" => biow'[j].discard = biow[j].discard
    BY <1>1, <1>8
  <2>2. wd' # "idle" => queue'.wait # <<>>
    BY <1>0, <1>3, <1>4 DEF Tasks
  <2>3. gc'.packs # <<>> <=> gc'.pc \in {"destroy", "sub"}
    BY <1>0, <1>3 DEF Tasks
  <2> QED
    BY <1>0, <1>3, <2>1, <2>2, <2>3, TasksKept
<1> QED
  BY <1>11, <1>12, <1>13

\* A round of the submit log task.
LEMMA SubmitLogMoves ==
  ASSUME PlacesInv, SubmitLog
  PROVE  TypeInv' /\ Tasks' /\ Places'
<1>0. TypeInv /\ Tasks /\ Places /\ QueueInv
  BY DEF PlacesInv
<1>1. PICK a, t, n, b, c, e :
        /\ a = Batch /\ t = Behind(queue.submit, Len(Batch)) /\ n = Len(Batch)
        /\ b = biow /\ c = biow' /\ e = [ids |-> Batch, end |-> count.latest + Len(Batch)]
  OBVIOUS
<1>2. /\ a \in Seq(Ids) /\ Once(a) /\ n \in Nat /\ n = Len(a) /\ a # <<>>
      /\ \A i : At(i, a) => At(i, queue.submit)
      /\ t \in Seq(Ids)
      /\ \A i : At(i, t) \/ At(i, queue.frozen) =>
                  ~At(i, a) /\ (At(i, queue.submit) \/ At(i, queue.frozen))
      /\ Range(a) = {i \in Ids : At(i, a)}
  <2>1. queue.submit # <<>>
    BY DEF SubmitLog
  <2> QED
    BY <1>0, <1>1, <2>1, BatchApart
<1>3. /\ count' = [count EXCEPT !.started = @ + n, !.latest = @ + n]
      /\ queue' = [queue EXCEPT !.submit = t, !.log = Append(queue.log, e)]
      /\ UNCHANGED <<frozen, wl, sd, wd, gc, fz, readOnly>>
  BY <1>1 DEF SubmitLog
<1>4. count' \in [started : Int, gc : Int, latest : Nat, written : Nat]
  <2>1. count \in [started : Int, gc : Int, latest : Nat, written : Nat]
    BY <1>0 DEF TypeInv
  <2> QED
    BY <1>2, <1>3, <2>1, CountSteps
<1>5. e \in Packs /\ e.ids = a
  <2>1. count.latest \in Nat
    BY <1>0 DEF TypeInv
  <2>2. count.latest + n \in Nat
    BY <1>2, <2>1
  <2> QED
    BY <1>1, <1>2, <2>2 DEF Packs
<1>6. PICK l, m : l = queue.log /\ m = Append(queue.log, e)
  OBVIOUS
<1>7. /\ m \in Seq(Packs) /\ Len(m) = Len(l) + 1 /\ m[Len(l) + 1] = e /\ Len(l) \in Nat
      /\ \A k \in 1..Len(l) : m[k] = l[k]
  <2>1. l \in Seq(Packs)
    BY <1>0, <1>6 DEF TypeInv
  <2> QED
    BY <1>5, <1>6, <2>1, AppendAt, LenProperties
<1>8. /\ queue'.submit = t /\ queue'.frozen = queue.frozen /\ queue'.log = m
      /\ queue'.data = queue.data /\ queue'.wait = queue.wait /\ queue'.gc = queue.gc
      /\ queue' \in [frozen : Seq(Ids), submit : Seq(Ids), log : Seq(Packs), data : Seq(Ids),
                     wait : Seq(Ids), gc : Seq(Packs)]
  BY <1>0, <1>2, <1>3, <1>6, <1>7 DEF TypeInv
<1>9. InLine(b, queue.submit, queue.frozen) /\ InLog(b, l, wl.todo)
  BY <1>0, <1>1, <1>6 DEF Places
<1>10. \A i \in Ids : At(i, a) => b[i].st = "queued"
  BY <1>2, <1>9, Zenon DEF InLine
<1>11. /\ c \in [Ids -> Biows]
       /\ \A i \in Ids : At(i, a) => c[i].st = "log"
       /\ \A i \in Ids : ~At(i, a) => c[i] = b[i]
  <2>1. ASSUME NEW i \in Ids, At(i, a)
        PROVE  c[i] \in Biows /\ c[i].st = "log"
    <3>1. PICK k : k = CHOOSE x \in 1..n : a[x] = i
      OBVIOUS
    <3>2. k \in 1..n
      BY <1>2, <2>1, <3>1 DEF At
    <3>3. c[i] = [b[i] EXCEPT !.st = "log", !.lsid = count.latest + k]
      BY <1>1, <1>2, <2>1, <3>1 DEF SubmitLog
    <3>4. b[i] \in Biows /\ count.latest + k \in Nat
      <4>1. b[i] \in Biows /\ count.latest \in Nat
        BY <1>0, <1>1, <2>1 DEF TypeInv
      <4>2. k \in Nat
        BY <1>2, <3>2
      <4> QED
        BY <4>1, <4>2
    <3> QED
      BY <3>3, <3>4 DEF Biows, States, StartedStates
  <2>2. ASSUME NEW i \in Ids, ~At(i, a) PROVE c[i] = b[i]
    BY <1>1, <1>2, <2>2 DEF SubmitLog
  <2>3. c = [i \in Ids |-> c[i]]
    <3> DEFINE place(i) == CHOOSE k \in 1..Len(Batch) : Batch[k] = i
    <3>1. biow' = [i \in Ids |->
                     IF i \in Range(Batch)
                     THEN [biow[i] EXCEPT !.st = "log", !.lsid = count.latest + place(i)]
                     ELSE biow[i]]
      BY DEF SubmitLog
    <3> HIDE DEF place
    <3> QED
      BY <1>1, <3>1
  <2>4. b \in [Ids -> Biows]
    BY <1>0, <1>1 DEF TypeInv
  <2> QED
    BY <2>1, <2>2, <2>3, <2>4
<1>12. \A j \in Ids : b[j].st # "queued" => c[j] = b[j]
  BY <1>10, <1>11
<1>13. InLine(c, t, queue.frozen)
  <2>1. ASSUME NEW i \in Ids, At(i, t) \/ At(i, queue.frozen) PROVE c[i].st = "queued"
    <3>1. c[i] = b[i] /\ (At(i, queue.submit) \/ At(i, queue.frozen))
      BY <1>2, <1>11, <2>1
    <3> QED
      BY <1>9, <3>1 DEF InLine
  <2> QED
    BY <2>1, Zenon DEF InLine
<1>14. /\ InLog(c, l, wl.todo) /\ InTodo(c, wl.todo, wl.pc) /\ InData(c, queue.data, sd)
       /\ InWait(c, queue.wait, wd) /\ InPack(c, wl.pack.ids, wl.todo)
       /\ InGc(c, queue.gc, gc.packs, wl.pack.ids)
  BY <1>0, <1>1, <1>6, <1>12, QueuedMoves
<1>15. \A k \in 1..Len(m) : k \in 1..Len(l) \/ k = Len(l) + 1
  BY <1>7
<1>16. InLog(c, m, wl.todo)
  <2>1. ASSUME NEW i \in Ids, At(i, a) PROVE ~At(i, wl.todo) /\ ~AtPacks(i, l)
    <3>1. b[i].st = "queued"
      BY <1>10, <2>1
    <3>2. ~AtPacks(i, l)
      BY <1>9, <3>1 DEF InLog
    <3>3. InTodo(b, wl.todo, wl.pc)
      BY <1>0, <1>1 DEF Places
    <3> QED
      BY <3>1, <3>2, <3>3 DEF InTodo
  <2>2. ASSUME NEW i \in Ids, NEW k \in 1..Len(m), At(i, m[k].ids), k \notin 1..Len(l)
        PROVE  At(i, a)
    BY <1>5, <1>7, <1>15, <2>2
  <2>3. ASSUME NEW i \in Ids, NEW k \in 1..Len(l), At(i, m[k].ids)
        PROVE  At(i, l[k].ids) /\ AtPacks(i, l)
    BY <1>7, <2>3 DEF AtPacks
  <2>4. ASSUME NEW i \in Ids, AtPacks(i, m) PROVE c[i].st = "log" /\ ~At(i, wl.todo)
    <3>1. PICK k \in 1..Len(m) : At(i, m[k].ids)
      BY <2>4 DEF AtPacks
    <3>2. CASE k \in 1..Len(l)
      BY <1>14, <2>3, <3>1, <3>2 DEF InLog
    <3>3. CASE k \notin 1..Len(l)
      BY <1>11, <2>1, <2>2, <3>1, <3>3
    <3> QED
      BY <3>2, <3>3
  <2>5. ASSUME NEW k \in 1..Len(m) PROVE m[k].ids # <<>> /\ Once(m[k].ids)
    <3>1. CASE k \in 1..Len(l)
      BY <1>7, <1>14, <3>1 DEF InLog
    <3>2. CASE k = Len(l) + 1
      BY <1>2, <1>5, <1>7, <3>2
    <3> QED
      BY <1>15, <3>1, <3>2
  <2>6. ASSUME NEW k \in 1..Len(m), NEW x \in 1..Len(m), NEW i \in Ids, At(i, m[k].ids),
               At(i, m[x].ids)
        PROVE  k = x
    <3>1. CASE k \in 1..Len(l) /\ x \in 1..Len(l)
      BY <1>14, <2>3, <2>6, <3>1 DEF InLog
    <3>2. CASE k \in 1..Len(l) /\ x \notin 1..Len(l)
      BY <2>1, <2>2, <2>3, <2>6, <3>2
    <3>3. CASE k \notin 1..Len(l) /\ x \in 1..Len(l)
      BY <2>1, <2>2, <2>3, <2>6, <3>3
    <3>4. CASE k \notin 1..Len(l) /\ x \notin 1..Len(l)
      BY <1>15, <3>4
    <3> QED
      BY <3>1, <3>2, <3>3, <3>4
  <2> QED
    BY <2>4, <2>5, <2>6 DEF InLog
<1>17. Places'
  BY <1>1, <1>3, <1>8, <1>13, <1>14, <1>16 DEF Places
<1>18. TypeInv'
  BY <1>0, <1>1, <1>3, <1>4, <1>8, <1>11 DEF TypeInv
<1>19. Tasks'
  <2>1. \A j \in Ids : biow[j].st = "log" => biow'[j].discard = biow[j].discard
    BY <1>1, <1>12
  <2>2. wd' # "idle" => queue'.wait # <<>>
    BY <1>0, <1>3, <1>8 DEF Tasks
  <2>3. gc'.packs # <<>> <=> gc'.pc \in {"destroy", "sub"}
    BY <1>0, <1>3 DEF Tasks
  <2> QED
    BY <1>0, <1>3, <2>1, <2>2, <2>3, TasksKept
<1> QED
  BY <1>17, <1>18, <1>19

\* The data task takes the data queue.
LEMMA SubmitDataTakeMoves ==
  ASSUME PlacesInv, SubmitDataTake
  PROVE  TypeInv' /\ Tasks' /\ Places'
<1>0. TypeInv /\ Tasks /\ Places
  BY DEF PlacesInv
<1>1. PICK d, w, v, b, c : d = queue.data /\ w = queue.wait /\ v = queue.wait \o queue.data
                           /\ b = biow /\ c = biow'
  OBVIOUS
<1>2. d \in Seq(Ids) /\ w \in Seq(Ids) /\ d # <<>> /\ sd = <<>> /\ b \in [Ids -> Biows]
  BY <1>0, <1>1 DEF SubmitDataTake, TypeInv
<1>3. UNCHANGED <<frozen, wl, wd, gc, fz, count, readOnly>>
  BY DEF SubmitDataTake
<1>4. InData(b, d, <<>>) /\ InWait(b, w, wd)
  BY <1>0, <1>1, <1>2 DEF Places
<1>5. (\A i : ~At(i, <<>>)) /\ Once(<<>>) /\ <<>> \in Seq(Ids)
  BY DEF At, Once
<1>6. CASE readOnly
  <2>1. queue' = [queue EXCEPT !.data = <<>>, !.wait = queue.wait] /\ sd' = d /\ biow' = biow
    BY <1>1, <1>6 DEF SubmitDataTake
  <2>2. /\ queue'.submit = queue.submit /\ queue'.frozen = queue.frozen /\ queue'.log = queue.log
        /\ queue'.data = <<>> /\ queue'.wait = queue.wait /\ queue'.gc = queue.gc
        /\ queue' \in [frozen : Seq(Ids), submit : Seq(Ids), log : Seq(Packs), data : Seq(Ids),
                       wait : Seq(Ids), gc : Seq(Packs)]
    BY <1>0, <1>5, <2>1 DEF TypeInv
  <2>3. InData(b, <<>>, d)
    BY <1>4, <1>5, Zenon DEF InData
  <2>4. Places'
    BY <1>0, <1>1, <1>3, <2>1, <2>2, <2>3 DEF Places
  <2>5. TypeInv'
    BY <1>0, <1>2, <1>3, <2>1, <2>2 DEF TypeInv
  <2>6. Tasks'
    BY <1>0, <1>3, <2>1, <2>2 DEF Tasks
  <2> QED
    BY <2>4, <2>5, <2>6
<1>7. CASE ~readOnly
  <2>1. /\ queue' = [queue EXCEPT !.data = <<>>, !.wait = v] /\ sd' = <<>>
        /\ c = [i \in Ids |-> IF i \in Range(d) THEN [b[i] EXCEPT !.st = "waiting"] ELSE b[i]]
    BY <1>1, <1>2, <1>7 DEF SubmitDataTake
  <2>2. \A i \in Ids : At(i, d) => b[i].st = "answered"
    BY <1>4, Zenon DEF InData
  <2>3. \A i \in Ids : At(i, w) => b[i].st # "answered"
    BY <1>4 DEF InWait
  <2>4. v \in Seq(Ids) /\ (\A i : At(i, v) <=> At(i, w) \/ At(i, d)) /\ Once(v)
    <3>1. Once(w) /\ Once(d)
      BY <1>4 DEF InData, InWait
    <3>2. \A i \in Ids : ~(At(i, w) /\ At(i, d))
      BY <2>2, <2>3
    <3> QED
      BY <1>1, <1>2, <3>1, <3>2, ConcatAt
  <2>5. /\ queue'.submit = queue.submit /\ queue'.frozen = queue.frozen /\ queue'.log = queue.log
        /\ queue'.data = <<>> /\ queue'.wait = v /\ queue'.gc = queue.gc
        /\ queue' \in [frozen : Seq(Ids), submit : Seq(Ids), log : Seq(Packs), data : Seq(Ids),
                       wait : Seq(Ids), gc : Seq(Packs)]
    <3>1. queue \in [frozen : Seq(Ids), submit : Seq(Ids), log : Seq(Packs), data : Seq(Ids),
                     wait : Seq(Ids), gc : Seq(Packs)]
      BY <1>0 DEF TypeInv
    <3> QED
      BY <1>5, <2>1, <2>4, <3>1
  <2>6. /\ c \in [Ids -> Biows]
        /\ \A i \in Ids : c[i].discard = b[i].discard
        /\ \A i \in Ids : At(i, d) => c[i].st = "waiting"
        /\ \A i \in Ids : ~At(i, d) => c[i] = b[i]
    <3>1. Range(d) = {i \in Ids : At(i, d)}
      BY <1>2, RangeAt
    <3>2. \A i \in Ids : LET r == [b[i] EXCEPT !.st = "waiting"]
                         IN  r \in Biows /\ r.st = "waiting" /\ r.discard = b[i].discard
      BY <1>2 DEF Biows, States, StartedStates, InsertedStates
    <3>3. \A i \in Ids : c[i] = IF At(i, d) THEN [b[i] EXCEPT !.st = "waiting"] ELSE b[i]
      BY <2>1, <3>1
    <3>4. c = [i \in Ids |-> c[i]]
      BY <2>1
    <3> QED
      BY <1>2, <3>2, <3>3, <3>4
  <2>7. \A j \in Ids : b[j].st # "answered" => c[j] = b[j]
    BY <2>2, <2>6
  <2>8. InData(c, <<>>, <<>>)
    BY <1>5, Zenon DEF InData
  <2>9. InWait(c, v, wd)
    <3>1. ASSUME NEW i \in Ids, At(i, w)
          PROVE  IF wd # "idle" /\ i = Head(v) THEN c[i].st = "deleted"
                                               ELSE c[i].st \in {"waiting", "written"}
      <4>1. c[i] = b[i]
        BY <2>3, <2>7, <3>1
      <4>2. Head(v) = Head(w)
        <5>1. w # <<>>
          BY <1>5, <3>1, Zenon
        <5> QED
          BY <1>1, <1>2, <5>1, HeadConcat
      <4> QED
        BY <1>4, <3>1, <4>1, <4>2 DEF InWait
    <3>2. ASSUME NEW i \in Ids, At(i, d), ~At(i, w)
          PROVE  IF wd # "idle" /\ i = Head(v) THEN c[i].st = "deleted"
                                               ELSE c[i].st \in {"waiting", "written"}
      <4>1. c[i].st = "waiting"
        BY <2>6, <3>2
      <4>2. ASSUME wd # "idle" PROVE i # Head(v)
        <5>1. w # <<>>
          BY <1>0, <1>1, <4>2 DEF Tasks
        <5>2. Head(v) = Head(w) /\ At(Head(w), w)
          BY <1>1, <1>2, <5>1, HeadConcat, TailAt
        <5> QED
          BY <3>2, <5>2
      <4> QED
        BY <4>1, <4>2
    <3> QED
      BY <2>4, <3>1, <3>2, Zenon DEF InWait
  <2>10. /\ InLine(c, queue.submit, queue.frozen) /\ InLog(c, queue.log, wl.todo)
         /\ InTodo(c, wl.todo, wl.pc)
    <3>1. /\ InLine(b, queue.submit, queue.frozen) /\ InLog(b, queue.log, wl.todo)
          /\ InTodo(b, wl.todo, wl.pc)
      BY <1>0, <1>1 DEF Places
    <3>2. /\ \A j \in Ids : b[j].st = "queued" => c[j].st = "queued"
          /\ \A j \in Ids : b[j].st = "log" => c[j].st = "log"
          /\ \A j \in Ids : b[j].st \in {"log", "inserted"} => c[j].st = b[j].st
      BY <2>7
    <3> QED
      BY <3>1, <3>2, StatesKept
  <2>11. InPack(c, wl.pack.ids, wl.todo) /\ InGc(c, queue.gc, gc.packs, wl.pack.ids)
    <3>1. InPack(b, wl.pack.ids, wl.todo) /\ InGc(b, queue.gc, gc.packs, wl.pack.ids)
      BY <1>0, <1>1 DEF Places
    <3>2. "waiting" \in LoggedStates
      BY DEF LoggedStates, StartedStates, InsertedStates
    <3>3. \A j \in Ids : c[j].st = b[j].st \/ c[j].st \in LoggedStates
      BY <2>6, <3>2
    <3> QED
      BY <3>1, <3>3, StatesKept
  <2>12. Places'
    BY <1>1, <1>3, <2>1, <2>5, <2>8, <2>9, <2>10, <2>11 DEF Places
  <2>13. TypeInv'
    <3>1. sd' \in Seq(Ids) /\ biow' \in [Ids -> Biows]
      BY <1>1, <1>5, <2>1, <2>6
    <3>2. queue' \in [frozen : Seq(Ids), submit : Seq(Ids), log : Seq(Packs), data : Seq(Ids),
                      wait : Seq(Ids), gc : Seq(Packs)]
      BY <2>5
    <3> QED
      BY <1>0, <1>3, <3>1, <3>2 DEF TypeInv
  <2>14. Tasks'
    <3>1. \A j \in Ids : biow[j].st = "log" => biow'[j].discard = biow[j].discard
      BY <1>1, <2>6
    <3>2. v # <<>>
      <4>1. At(Head(d), v)
        BY <1>2, <2>4, TailAt
      <4> QED
        BY <2>4, <4>1 DEF At
    <3>3. gc'.packs # <<>> <=> gc'.pc \in {"destroy", "sub"}
      BY <1>0, <1>3 DEF Tasks
    <3> QED
      BY <1>0, <1>3, <2>5, <3>1, <3>2, <3>3, TasksKept
  <2> QED
    BY <2>12, <2>13, <2>14
<1> QED
  BY <1>6, <1>7

\* The data task deletes a write that it cancels from pending_data.
LEMMA CancelDeleteMoves ==
  ASSUME PlacesInv, CancelDelete
  PROVE  TypeInv' /\ Tasks' /\ Places'
<1>0. TypeInv /\ Tasks /\ Places
  BY DEF PlacesInv
<1>1. PICK i, s, t, b, c : i = Head(sd) /\ s = sd /\ t = Tail(sd) /\ b = biow /\ c = biow'
  OBVIOUS
<1>2. /\ s \in Seq(Ids) /\ s # <<>> /\ sd' = t
      /\ UNCHANGED <<queue, frozen, wl, wd, gc, fz, count, readOnly>>
  BY <1>0, <1>1 DEF CancelDelete, TypeInv
<1>3. i \in Ids /\ t \in Seq(Ids)
  BY <1>1, <1>2, TailFacts
<1>4. /\ At(i, s) /\ \A j : At(j, t) => At(j, s)
      /\ Once(s) => Once(t) /\ ~At(i, t)
  BY <1>1, <1>2, TailAt
<1>5. /\ c \in [Ids -> Biows] /\ c[i].st \in {"cancelled", "complete"}
      /\ c[i].discard = b[i].discard
      /\ \A j \in Ids : j # i => c[j] = b[j]
  <2>1. "cancelled" \in States /\ "complete" \in States /\ b \in [Ids -> Biows]
    BY <1>0, <1>1 DEF States, StartedStates, TypeInv
  <2>2. PICK e \in BOOLEAN : e = TRUE
    OBVIOUS
  <2>3. c = [b EXCEPT ![i].st = "cancelled"] \/ EndStep(b, c, i, "complete", e)
    BY <1>1, <2>2 DEF CancelDelete, EndStep
  <2>4. CASE c = [b EXCEPT ![i].st = "cancelled"]
    BY <1>3, <2>1, <2>4, MoveOne
  <2>5. CASE EndStep(b, c, i, "complete", e)
    BY <1>3, <2>1, <2>5, MoveEnd
  <2> QED
    BY <2>3, <2>4, <2>5
<1>6. InData(b, queue.data, s)
  BY <1>0, <1>1 DEF Places
<1>7. b[i].st = "answered" /\ ~At(i, queue.data) /\ ~At(i, t)
  BY <1>3, <1>4, <1>6, Zenon DEF InData
<1>8. InData(c, queue.data, t)
  BY <1>3, <1>4, <1>5, <1>6, <1>7, Zenon DEF InData
<1>9. /\ InLine(c, queue.submit, queue.frozen) /\ InLog(c, queue.log, wl.todo)
      /\ InTodo(c, wl.todo, wl.pc) /\ InWait(c, queue.wait, wd)
  <2>1. /\ InLine(b, queue.submit, queue.frozen) /\ InLog(b, queue.log, wl.todo)
        /\ InTodo(b, wl.todo, wl.pc) /\ InWait(b, queue.wait, wd)
    BY <1>0, <1>1 DEF Places
  <2>2. \A j \in Ids : j # i => c[j].st = b[j].st
    BY <1>5
  <2> QED
    BY <1>3, <1>7, <2>1, <2>2, Others
<1>10. InPack(c, wl.pack.ids, wl.todo) /\ InGc(c, queue.gc, gc.packs, wl.pack.ids)
  <2>1. InPack(b, wl.pack.ids, wl.todo) /\ InGc(b, queue.gc, gc.packs, wl.pack.ids)
    BY <1>0, <1>1 DEF Places
  <2>2. "cancelled" \in LoggedStates /\ "complete" \in LoggedStates
    BY DEF LoggedStates, StartedStates, InsertedStates
  <2>3. \A j \in Ids : c[j].st = b[j].st \/ c[j].st \in LoggedStates
    BY <1>5, <2>2
  <2> QED
    BY <2>1, <2>3, StatesKept
<1>11. Places'
  BY <1>1, <1>2, <1>8, <1>9, <1>10 DEF Places
<1>12. TypeInv'
  BY <1>0, <1>1, <1>2, <1>3, <1>5 DEF TypeInv
<1>13. Tasks'
  <2>1. \A j \in Ids : biow[j].st = "log" => biow'[j].discard = biow[j].discard
    BY <1>1, <1>5
  <2>2. wd' # "idle" => queue'.wait # <<>>
    BY <1>0, <1>2 DEF Tasks
  <2>3. gc'.packs # <<>> <=> gc'.pc \in {"destroy", "sub"}
    BY <1>0, <1>2 DEF Tasks
  <2> QED
    BY <1>0, <1>2, <2>1, <2>2, <2>3, TasksKept
<1> QED
  BY <1>11, <1>12, <1>13

\* And completes it when the queue has melted.
LEMMA CancelCompleteMoves ==
  ASSUME PlacesInv, CancelComplete
  PROVE  TypeInv' /\ Tasks' /\ Places'
<1>0. TypeInv /\ Tasks /\ Places
  BY DEF PlacesInv
<1>1. UNCHANGED <<queue, frozen, wl, sd, wd, gc, fz, count, readOnly>>
  BY DEF CancelComplete
<1>2. PICK i \in Ids : /\ biow[i].st = "cancelled"
                       /\ biow' = [biow EXCEPT ![i].st = "complete", ![i].error = TRUE]
  BY DEF CancelComplete, Cancelled
<1>3. PICK b, c : b = biow /\ c = biow'
  OBVIOUS
<1>4. /\ c \in [Ids -> Biows] /\ c[i].st = "complete" /\ c[i].discard = b[i].discard
      /\ \A j \in Ids : j # i => c[j] = b[j]
  <2>1. "complete" \in States /\ b \in [Ids -> Biows]
    BY <1>0, <1>3 DEF States, StartedStates, TypeInv
  <2>2. PICK e \in BOOLEAN : e = TRUE
    OBVIOUS
  <2>3. EndStep(b, c, i, "complete", e)
    BY <1>2, <1>3, <2>2 DEF EndStep
  <2>4. i \in Ids
    BY <1>2
  <2> QED
    BY <2>1, <2>3, <2>4, MoveEnd
<1>5. /\ InLine(b, queue.submit, queue.frozen) /\ InLog(b, queue.log, wl.todo)
      /\ InTodo(b, wl.todo, wl.pc) /\ InData(b, queue.data, sd) /\ InWait(b, queue.wait, wd)
      /\ InPack(b, wl.pack.ids, wl.todo) /\ InGc(b, queue.gc, gc.packs, wl.pack.ids)
  BY <1>0, <1>3 DEF Places
<1>6. b[i].st = "cancelled" /\ \A j \in Ids : j # i => c[j].st = b[j].st
  BY <1>2, <1>3, <1>4
<1>7. c[i].st \in LoggedStates
  BY <1>4 DEF LoggedStates, StartedStates, InsertedStates
<1>8. /\ InLine(c, queue.submit, queue.frozen) /\ InLog(c, queue.log, wl.todo)
      /\ InTodo(c, wl.todo, wl.pc) /\ InData(c, queue.data, sd) /\ InWait(c, queue.wait, wd)
      /\ InPack(c, wl.pack.ids, wl.todo) /\ InGc(c, queue.gc, gc.packs, wl.pack.ids)
  <2>1. \A j \in Ids : b[j].st # "cancelled" => c[j].st = b[j].st
    BY <1>6
  <2>2. /\ \A j \in Ids : b[j].st = "queued" => c[j].st = "queued"
        /\ \A j \in Ids : b[j].st = "log" => c[j].st = "log"
        /\ \A j \in Ids : b[j].st \in {"log", "inserted"} => c[j].st = b[j].st
        /\ \A j \in Ids : b[j].st = "answered" => c[j].st = "answered"
        /\ \A j \in Ids : b[j].st \in {"waiting", "written", "deleted"} => c[j].st = b[j].st
    BY <2>1
  <2>3. \A j \in Ids : b[j].st \in StartedStates => c[j].st = b[j].st \/ c[j].st \in LoggedStates
    BY <1>6, <1>7
  <2>4. \A j \in Ids : b[j].st \in LoggedStates \cup {"done"} =>
                        c[j].st \in LoggedStates \cup {"done"}
    BY <1>6, <1>7
  <2> QED
    BY <1>5, <2>2, <2>3, <2>4, StatesKept
<1>9. Places'
  BY <1>1, <1>3, <1>8 DEF Places
<1>10. TypeInv'
  BY <1>0, <1>1, <1>3, <1>4 DEF TypeInv
<1>11. Tasks'
  <2>1. \A j \in Ids : biow[j].st = "log" => biow'[j].discard = biow[j].discard
    BY <1>3, <1>4
  <2>2. wd' # "idle" => queue'.wait # <<>>
    BY <1>0, <1>1 DEF Tasks
  <2>3. gc'.packs # <<>> <=> gc'.pc \in {"destroy", "sub"}
    BY <1>0, <1>1 DEF Tasks
  <2> QED
    BY <1>0, <1>1, <2>1, <2>2, <2>3, TasksKept
<1> QED
  BY <1>9, <1>10, <1>11

\* The data tasks melt the queue, or the user does.
LEMMA MeltMoves ==
  ASSUME PlacesInv, CancelMelt \/ WaitDataMelt \/ Melt
  PROVE  TypeInv' /\ Tasks' /\ Places'
<1>0. TypeInv /\ Tasks /\ Places
  BY DEF PlacesInv
<1>1. UNCHANGED <<biow, wl, sd, gc, count, readOnly>>
  BY DEF CancelMelt, WaitDataMelt, WaitDataVars, Melt, FreezeVars
<1>2. /\ wd' \in {"idle", "melt", "clear"} /\ (wd' # "idle" <=> wd # "idle")
      /\ fz' \in {"melted", "queue", "started", "gc", "frozen"}
  BY <1>0 DEF CancelMelt, WaitDataMelt, WaitDataVars, Melt, FreezeVars, TypeInv
<1>3. \E isUsr : queue' = Melted(isUsr).queue /\ frozen' = Melted(isUsr).frozen
  BY DEF CancelMelt, WaitDataMelt, Melt
<1>4. /\ queue' \in [frozen : Seq(Ids), submit : Seq(Ids), log : Seq(Packs), data : Seq(Ids),
                     wait : Seq(Ids), gc : Seq(Packs)]
      /\ queue'.log = queue.log /\ queue'.data = queue.data /\ queue'.wait = queue.wait
      /\ queue'.gc = queue.gc
      /\ \A j : At(j, queue'.submit) \/ At(j, queue'.frozen) =>
                  At(j, queue.submit) \/ At(j, queue.frozen)
      /\ frozen' \in [sys : BOOLEAN, usr : BOOLEAN, stopped : BOOLEAN]
  BY <1>0, <1>3, MeltedFields
<1>5. InLine(biow, queue'.submit, queue'.frozen) /\ InWait(biow, queue.wait, wd')
  <2>1. InLine(biow, queue.submit, queue.frozen) /\ InWait(biow, queue.wait, wd)
    BY <1>0 DEF Places
  <2>2. InLine(biow, queue'.submit, queue'.frozen)
    BY <1>4, <2>1, Zenon DEF InLine
  <2>3. InWait(biow, queue.wait, wd')
    BY <1>2, <2>1 DEF InWait
  <2> QED
    BY <2>2, <2>3
<1>6. Places'
  BY <1>0, <1>1, <1>4, <1>5 DEF Places
<1>7. TypeInv'
  BY <1>0, <1>1, <1>2, <1>4 DEF TypeInv
<1>8. Tasks'
  BY <1>0, <1>1, <1>2, <1>4 DEF Tasks
<1> QED
  BY <1>6, <1>7, <1>8

\* The task that waits for the data deletes the first write from pending_data.
LEMMA WaitDataMoves ==
  ASSUME PlacesInv, WaitDataDelete \/ WaitDataClear
  PROVE  TypeInv' /\ Tasks' /\ Places'
<1>0. TypeInv /\ Tasks /\ Places
  BY DEF PlacesInv
<1>1. PICK i, w, t, b, c : i = Head(queue.wait) /\ w = queue.wait /\ t = Tail(queue.wait)
                           /\ b = biow /\ c = biow'
  OBVIOUS
<1>2. w \in Seq(Ids) /\ w # <<>>
  BY <1>0, <1>1 DEF WaitDataDelete, WaitDataClear, TypeInv, Tasks
<1>3. i \in Ids /\ t \in Seq(Ids)
  BY <1>1, <1>2, TailFacts
<1>4. /\ At(i, w) /\ \A j : At(j, t) => At(j, w)
      /\ \A j : At(j, w) => j = i \/ At(j, t)
      /\ Once(w) => Once(t) /\ ~At(i, t)
  BY <1>1, <1>2, TailAt
<1>5. UNCHANGED <<wl, sd, gc, fz, count, readOnly>>
  BY DEF WaitDataDelete, WaitDataClear, WaitDataVars
<1>6. frozen' \in [sys : BOOLEAN, usr : BOOLEAN, stopped : BOOLEAN]
  BY <1>0 DEF WaitDataDelete, WaitDataClear, WaitDataVars, TypeInv
<1>7. InWait(b, w, wd)
  BY <1>0, <1>1 DEF Places
<1>8. b[i].st \in {"written", "deleted"} /\ Once(t) /\ ~At(i, t)
  BY <1>1, <1>3, <1>4, <1>7 DEF InWait, WaitDataDelete, WaitDataClear
<1>9. \/ wd' = "melt" /\ wd = "idle" /\ c = [b EXCEPT ![i].st = "deleted"] /\ queue' = queue
      \/ wd' = "idle" /\ c = [b EXCEPT ![i].st = "complete"] /\ queue' = [queue EXCEPT !.wait = t]
  BY <1>1 DEF WaitDataDelete, WaitDataClear, Completed
<1>10. ASSUME NEW s \in {"deleted", "complete"}, c = [b EXCEPT ![i].st = s], NEW v \in Seq(Ids),
              queue' = [queue EXCEPT !.wait = v], wd' \in {"idle", "melt"},
              wd' # "idle" => v # <<>>, InWait(c, v, wd')
       PROVE  TypeInv' /\ Tasks' /\ Places'
  <2>1. /\ c \in [Ids -> Biows] /\ c[i].st = s /\ c[i].discard = b[i].discard
        /\ \A j \in Ids : j # i => c[j] = b[j]
    <3>1. s \in States /\ b \in [Ids -> Biows]
      BY <1>0, <1>1, <1>10 DEF States, StartedStates, TypeInv
    <3>2. i \in Ids /\ c = [b EXCEPT ![i].st = s]
      BY <1>3, <1>10
    <3> QED
      BY <3>1, <3>2, MoveOne
  <2>2. /\ queue'.submit = queue.submit /\ queue'.frozen = queue.frozen /\ queue'.log = queue.log
        /\ queue'.data = queue.data /\ queue'.wait = v /\ queue'.gc = queue.gc
        /\ queue' \in [frozen : Seq(Ids), submit : Seq(Ids), log : Seq(Packs), data : Seq(Ids),
                       wait : Seq(Ids), gc : Seq(Packs)]
    BY <1>0, <1>10 DEF TypeInv
  <2>3. \A j \in Ids : b[j].st \notin {"written", "deleted"} => c[j] = b[j]
    BY <1>8, <2>1
  <2>4. /\ InLine(c, queue.submit, queue.frozen) /\ InLog(c, queue.log, wl.todo)
        /\ InTodo(c, wl.todo, wl.pc) /\ InData(c, queue.data, sd)
    <3>1. /\ InLine(b, queue.submit, queue.frozen) /\ InLog(b, queue.log, wl.todo)
          /\ InTodo(b, wl.todo, wl.pc) /\ InData(b, queue.data, sd)
      BY <1>0, <1>1 DEF Places
    <3>2. /\ \A j \in Ids : b[j].st = "queued" => c[j].st = "queued"
          /\ \A j \in Ids : b[j].st = "log" => c[j].st = "log"
          /\ \A j \in Ids : b[j].st \in {"log", "inserted"} => c[j].st = b[j].st
          /\ \A j \in Ids : b[j].st = "answered" => c[j].st = "answered"
      BY <2>3
    <3> QED
      BY <3>1, <3>2, StatesKept
  <2>5. InPack(c, wl.pack.ids, wl.todo) /\ InGc(c, queue.gc, gc.packs, wl.pack.ids)
    <3>1. InPack(b, wl.pack.ids, wl.todo) /\ InGc(b, queue.gc, gc.packs, wl.pack.ids)
      BY <1>0, <1>1 DEF Places
    <3>2. s \in LoggedStates
      BY <1>10 DEF LoggedStates, StartedStates, InsertedStates
    <3>3. \A j \in Ids : c[j].st = b[j].st \/ c[j].st \in LoggedStates
      BY <2>1, <3>2
    <3> QED
      BY <3>1, <3>3, StatesKept
  <2>6. Places'
    BY <1>1, <1>5, <1>10, <2>2, <2>4, <2>5 DEF Places
  <2>7. TypeInv'
    <3>1. biow' \in [Ids -> Biows] /\ wd' \in {"idle", "melt", "clear"}
      BY <1>1, <1>10, <2>1
    <3> QED
      BY <1>0, <1>5, <1>6, <2>2, <3>1 DEF TypeInv
  <2>8. Tasks'
    <3>1. \A j \in Ids : biow[j].st = "log" => biow'[j].discard = biow[j].discard
      BY <1>1, <2>1
    <3>2. wd' # "idle" => queue'.wait # <<>>
      BY <1>10, <2>2
    <3>3. gc'.packs # <<>> <=> gc'.pc \in {"destroy", "sub"}
      BY <1>0, <1>5 DEF Tasks
    <3> QED
      BY <1>0, <1>5, <3>1, <3>2, <3>3, TasksKept
  <2> QED
    BY <2>6, <2>7, <2>8
<1>11. CASE wd' = "melt" /\ wd = "idle" /\ c = [b EXCEPT ![i].st = "deleted"] /\ queue' = queue
  <2>1. queue' = [queue EXCEPT !.wait = w]
    BY <1>0, <1>1, <1>11 DEF TypeInv
  <2>2. InWait(c, w, "melt")
    <3>1. c[i].st = "deleted" /\ \A j \in Ids : j # i => c[j] = b[j]
      <4>1. b \in [Ids -> Biows] /\ "deleted" \in States
        BY <1>0, <1>1 DEF TypeInv, States, StartedStates
      <4>2. c = [b EXCEPT ![i].st = "deleted"]
        BY <1>11
      <4> QED
        BY <1>3, <4>1, <4>2, MoveOne
    <3>2. ASSUME NEW j \in Ids, At(j, w)
          PROVE  IF j = Head(w) THEN c[j].st = "deleted" ELSE c[j].st \in {"waiting", "written"}
      BY <1>1, <1>7, <1>11, <3>1, <3>2 DEF InWait
    <3> QED
      BY <1>7, <3>2 DEF InWait
  <2> QED
    BY <1>2, <1>10, <1>11, <2>1, <2>2
<1>12. CASE /\ wd' = "idle" /\ c = [b EXCEPT ![i].st = "complete"]
            /\ queue' = [queue EXCEPT !.wait = t]
  <2>1. InWait(c, t, "idle")
    <3>1. \A j \in Ids : j # i => c[j] = b[j]
      BY <1>0, <1>1, <1>3, <1>12 DEF TypeInv, Biows
    <3>2. ASSUME NEW j \in Ids, At(j, t)
          PROVE  c[j].st \in {"waiting", "written"}
      <4>1. j # i /\ At(j, w)
        BY <1>4, <1>8, <3>2
      <4> QED
        BY <1>1, <1>7, <3>1, <4>1 DEF InWait
    <3> QED
      BY <1>8, <3>2 DEF InWait
  <2> QED
    BY <1>3, <1>10, <1>12, <2>1
<1> QED
  BY <1>9, <1>11, <1>12

\* The gc worker takes the packs that wait for it, or is done with those that it took.
LEMMA GcPacksMove ==
  ASSUME PlacesInv, GcTake \/ GcSub
  PROVE  TypeInv' /\ Tasks' /\ Places'
<1>0. TypeInv /\ Tasks /\ Places
  BY DEF PlacesInv
<1>1. UNCHANGED <<biow, frozen, wl, sd, wd, fz, readOnly>>
  BY DEF GcTake, GcSub, GcVars
<1>2. /\ queue' \in [frozen : Seq(Ids), submit : Seq(Ids), log : Seq(Packs), data : Seq(Ids),
                     wait : Seq(Ids), gc : Seq(Packs)]
      /\ queue'.submit = queue.submit /\ queue'.frozen = queue.frozen /\ queue'.log = queue.log
      /\ queue'.data = queue.data /\ queue'.wait = queue.wait
      /\ queue'.gc = <<>> \/ queue'.gc = queue.gc
  <2>1. queue \in [frozen : Seq(Ids), submit : Seq(Ids), log : Seq(Packs), data : Seq(Ids),
                   wait : Seq(Ids), gc : Seq(Packs)]
    BY <1>0 DEF TypeInv
  <2>2. <<>> \in Seq(Packs)
    OBVIOUS
  <2>3. queue' = [queue EXCEPT !.gc = <<>>] \/ queue' = queue
    BY DEF GcTake, GcSub, GcVars
  <2> QED
    BY <2>1, <2>2, <2>3
<1>3. /\ gc' \in [pc : {"idle", "run", "destroy", "sub"}, wakeup : BOOLEAN, packs : Seq(Packs)]
      /\ gc'.packs = <<>> \/ gc'.packs = queue.gc
      /\ gc'.packs # <<>> <=> gc'.pc \in {"destroy", "sub"}
  <2>1. gc \in [pc : {"idle", "run", "destroy", "sub"}, wakeup : BOOLEAN, packs : Seq(Packs)]
        /\ queue.gc \in Seq(Packs) /\ <<>> \in Seq(Packs)
    BY <1>0 DEF TypeInv
  <2>2. CASE GcTake /\ queue.gc = <<>>
    <3>1. gc' = [gc EXCEPT !.pc = "idle"] /\ gc.pc = "run"
      BY <2>2 DEF GcTake
    <3>2. gc.packs = <<>>
      BY <1>0, <3>1 DEF Tasks
    <3> QED
      BY <2>1, <3>1, <3>2
  <2>3. CASE GcTake /\ queue.gc # <<>>
    <3>1. gc' = [gc EXCEPT !.pc = "destroy", !.packs = queue.gc]
      BY <2>3 DEF GcTake
    <3> QED
      BY <2>1, <2>3, <3>1
  <2>4. CASE GcSub
    <3>1. gc' = [gc EXCEPT !.pc = "run", !.packs = <<>>]
      BY <2>4 DEF GcSub
    <3> QED
      BY <2>1, <3>1
  <2> QED
    BY <2>2, <2>3, <2>4
<1>4. count' \in [started : Int, gc : Int, latest : Nat, written : Nat]
  <2>1. count \in [started : Int, gc : Int, latest : Nat, written : Nat] /\ gc.packs \in Seq(Packs)
    BY <1>0 DEF TypeInv
  <2>2. Len(gc.packs) \in Nat
    BY <2>1, LenProperties
  <2>3. count' = [count EXCEPT !.gc = @ - Len(gc.packs)] \/ count' = count
    BY DEF GcTake, GcSub
  <2> QED
    BY <2>1, <2>2, <2>3, CountSteps
<1>5. InGc(biow, queue'.gc, gc'.packs, wl.pack.ids)
  <2>1. InGc(biow, queue.gc, gc.packs, wl.pack.ids)
    BY <1>0 DEF Places
  <2>2. \A i : ~AtPacks(i, <<>>)
    BY DEF AtPacks
  <2>3. ASSUME NEW i, AtPacks(i, queue'.gc) \/ AtPacks(i, gc'.packs)
        PROVE  AtPacks(i, queue.gc) \/ AtPacks(i, gc.packs)
    BY <1>2, <1>3, <2>2, <2>3
  <2> QED
    BY <2>1, <2>3, Zenon DEF InGc
<1>6. Places'
  BY <1>0, <1>1, <1>2, <1>5 DEF Places
<1>7. TypeInv'
  BY <1>0, <1>1, <1>2, <1>3, <1>4 DEF TypeInv
<1>8. Tasks'
  BY <1>0, <1>1, <1>2, <1>3 DEF Tasks
<1> QED
  BY <1>6, <1>7, <1>8

\* The writes that gc_logpack_list has not destroyed are in the packs it was given.
LEMMA GcLeftAt ==
  ASSUME TypeInv
  PROVE  /\ \A i : i \in GcLeft => i \in Ids /\ AtPacks(i, gc.packs)
         /\ \A i \in Ids : AtPacks(i, gc.packs) /\ biow[i].st # "done" => i \in GcLeft
<1>1. gc.packs \in Seq(Packs)
  BY DEF TypeInv
<1>2. DOMAIN gc.packs = 1..Len(gc.packs) /\ \A k \in 1..Len(gc.packs) : gc.packs[k].ids \in Seq(Ids)
  <2>1. \A k \in 1..Len(gc.packs) : gc.packs[k] \in Packs
    BY <1>1, ElementOfSeq
  <2> QED
    BY <1>1, <2>1, LenProperties DEF Packs
<1>3. \A k \in 1..Len(gc.packs) : Range(gc.packs[k].ids) = {i \in Ids : At(i, gc.packs[k].ids)}
  BY <1>2, RangeAt
<1>4. GcLeft = {i \in UNION {Range(gc.packs[k].ids) : k \in 1..Len(gc.packs)} : biow[i].st # "done"}
  BY <1>2 DEF GcLeft
<1> QED
  BY <1>3, <1>4, Zenon DEF AtPacks

\* The gc worker destroys a write.
LEMMA GcDestroyMoves ==
  ASSUME PlacesInv, GcDestroy
  PROVE  TypeInv' /\ Tasks' /\ Places'
<1>0. TypeInv /\ Tasks /\ Places
  BY DEF PlacesInv
<1>1. PICK i \in GcLeft : /\ biow[i].st = "complete"
                          /\ readOnly' = (readOnly \/ biow[i].error)
                          /\ biow' = Destroyed({i}, "done")
  BY DEF GcDestroy
<1>2. UNCHANGED <<gc, queue, frozen, wl, sd, wd, fz>> /\ count' = [count EXCEPT !.started = @ - 1]
  BY DEF GcDestroy, GcVars
<1>3. PICK b, c : b = biow /\ c = biow'
  OBVIOUS
<1>4. i \in Ids /\ AtPacks(i, gc.packs)
  BY <1>0, GcLeftAt
<1>5. c \in [Ids -> Biows] /\ c[i].st = "done" /\ \A j \in Ids : j # i => c[j] = b[j]
  <2>1. "done" \in States /\ biow \in [Ids -> Biows]
    BY <1>0 DEF States, TypeInv
  <2> QED
    BY <1>1, <1>3, <1>4, <2>1, DestroyOne
<1>6. readOnly' \in BOOLEAN /\ (readOnly => readOnly')
  BY <1>0, <1>1, <1>4 DEF TypeInv, Biows
<1>7. count' \in [started : Int, gc : Int, latest : Nat, written : Nat]
  <2>1. count \in [started : Int, gc : Int, latest : Nat, written : Nat]
    BY <1>0 DEF TypeInv
  <2> QED
    BY <1>2, <2>1, CountSteps
<1>8. \A j \in Ids : b[j].st # "complete" => c[j] = b[j]
  BY <1>1, <1>3, <1>5
<1>9. /\ InLine(c, queue.submit, queue.frozen) /\ InLog(c, queue.log, wl.todo)
      /\ InTodo(c, wl.todo, wl.pc) /\ InData(c, queue.data, sd) /\ InWait(c, queue.wait, wd)
  <2>1. /\ InLine(b, queue.submit, queue.frozen) /\ InLog(b, queue.log, wl.todo)
        /\ InTodo(b, wl.todo, wl.pc) /\ InData(b, queue.data, sd) /\ InWait(b, queue.wait, wd)
    BY <1>0, <1>3 DEF Places
  <2>2. /\ \A j \in Ids : b[j].st = "queued" => c[j].st = "queued"
        /\ \A j \in Ids : b[j].st = "log" => c[j].st = "log"
        /\ \A j \in Ids : b[j].st \in {"log", "inserted"} => c[j].st = b[j].st
        /\ \A j \in Ids : b[j].st = "answered" => c[j].st = "answered"
        /\ \A j \in Ids : b[j].st \in {"waiting", "written", "deleted"} => c[j].st = b[j].st
    BY <1>8
  <2> QED
    BY <2>1, <2>2, StatesKept
<1>10. InPack(c, wl.pack.ids, wl.todo) /\ InGc(c, queue.gc, gc.packs, wl.pack.ids)
  <2>1. InPack(b, wl.pack.ids, wl.todo) /\ InGc(b, queue.gc, gc.packs, wl.pack.ids)
    BY <1>0, <1>3 DEF Places
  <2>2. ~At(i, wl.pack.ids)
    BY <1>4, <2>1 DEF InGc
  <2>3. InPack(c, wl.pack.ids, wl.todo)
    BY <1>5, <2>1, <2>2, Zenon DEF InPack
  <2>4. \A j \in Ids : b[j].st \in LoggedStates \cup {"done"} => c[j].st \in LoggedStates \cup {"done"}
    BY <1>5
  <2> QED
    BY <2>1, <2>3, <2>4, StatesKept
<1>11. Places'
  BY <1>2, <1>3, <1>9, <1>10 DEF Places
<1>12. TypeInv'
  BY <1>0, <1>2, <1>3, <1>5, <1>6, <1>7 DEF TypeInv
<1>13. Tasks'
  <2>1. \A j \in Ids : biow[j].st = "log" => biow'[j].discard = biow[j].discard
    BY <1>3, <1>8
  <2>2. wd' # "idle" => queue'.wait # <<>>
    BY <1>0, <1>2 DEF Tasks
  <2>3. gc'.packs # <<>> <=> gc'.pc \in {"destroy", "sub"}
    BY <1>0, <1>2 DEF Tasks
  <2> QED
    BY <1>0, <1>2, <1>6, <2>1, <2>2, <2>3, TasksKept
<1> QED
  BY <1>11, <1>12, <1>13

-----------------------------------------------------------------------------
\* Every step leaves each write at its place.
LEMMA PlacesStep ==
  ASSUME PlacesInv, [Next]_vars
  PROVE  PlacesInv'
<1>0. TypeInv /\ Tasks /\ Places /\ QueueInv
  BY DEF PlacesInv
<1>1. QueueInv'
  BY <1>0, QueueInvStep
<1>2. TypeInv' /\ Tasks' /\ Places'
  <2>1. CASE \E i \in Ids, len \in Lens : MakeWrite(i, len, FALSE)
    <3>1. \A len \in Lens : len \in Nat
      BY QueueAssumption DEF QueueAssumption
    <3> QED
      BY <2>1, <3>1, MakeWriteMoves
  <2>2. CASE \E i \in Ids, len \in DiscardLens : MakeWrite(i, len, TRUE)
    <3>1. \A len \in DiscardLens : len \in Nat
      BY QueueAssumption DEF QueueAssumption
    <3> QED
      BY <2>2, <3>1, MakeWriteMoves
  <2>3. CASE \E i \in Ids, error \in BOOLEAN : DdevWrite(i, error)
    BY <2>3, DdevWriteMoves
  <2>4. CASE Dispatch \/ SubmitLogTask
    BY <2>4, DispatchMoves, SubmitLogReadOnlyMoves, SubmitLogMoves DEF SubmitLogTask
  <2>5. CASE WaitLogTask
    BY <2>5, WaitLogTakeMoves, WaitLogFailMoves, WaitLogInsertMoves, WaitLogStays,
       WaitLogAnswerMoves, WaitLogEndMoves DEF WaitLogTask
  <2>6. CASE SubmitDataTask
    BY <2>6, SubmitDataTakeMoves, CancelDeleteMoves, MeltMoves, CancelCompleteMoves
       DEF SubmitDataTask
  <2>7. CASE WaitDataTask \/ Melt
    BY <2>7, WaitDataMoves, MeltMoves DEF WaitDataTask
  <2>8. CASE GcWorker \/ Freeze \/ FreezeWait
    BY <2>8, OthersStay, GcPacksMove, GcDestroyMoves DEF GcWorker
  <2>9. CASE UNCHANGED vars
    <3>1. UNCHANGED <<biow, queue, frozen, wl, sd, wd, gc, fz, count, readOnly>>
      BY <2>9 DEF vars
    <3> QED
      BY <1>0, <3>1 DEF TypeInv, Tasks, Places
  <2> QED
    BY <2>1, <2>2, <2>3, <2>4, <2>5, <2>6, <2>7, <2>8, <2>9, Zenon DEF Next
<1> QED
  BY <1>1, <1>2 DEF PlacesInv

\* At the start there is no write.
LEMMA PlacesInit ==
  ASSUME Init
  PROVE  PlacesInv
<1>1. QueueInv
  BY QueueInvInit
<1>2. TypeInv
  <2>1. NoBiow \in Biows /\ NoPack \in Packs
    BY DEF NoBiow, Biows, NoPack, Packs, States
  <2>2. biow \in [Ids -> Biows]
    BY <2>1 DEF Init
  <2>3. queue \in [frozen : Seq(Ids), submit : Seq(Ids), log : Seq(Packs), data : Seq(Ids),
                   wait : Seq(Ids), gc : Seq(Packs)]
    BY DEF Init
  <2>4. wl \in [pc : {"idle", "next", "undo", "stop", "freeze", "answer"}, pack : Packs,
                todo : Seq(Ids), failed : BOOLEAN]
    BY <2>1 DEF Init
  <2>5. gc \in [pc : {"idle", "run", "destroy", "sub"}, wakeup : BOOLEAN, packs : Seq(Packs)]
    BY DEF Init
  <2>6. /\ frozen \in [sys : BOOLEAN, usr : BOOLEAN, stopped : BOOLEAN] /\ sd \in Seq(Ids)
        /\ wd \in {"idle", "melt", "clear"} /\ readOnly \in BOOLEAN
        /\ fz \in {"melted", "queue", "started", "gc", "frozen"}
    <3>1. frozen = [sys |-> FALSE, usr |-> FALSE, stopped |-> FALSE]
      BY DEF Init
    <3>2. sd = <<>> /\ wd = "idle" /\ readOnly = FALSE /\ fz = "melted"
      BY DEF Init
    <3>3. frozen \in [sys : BOOLEAN, usr : BOOLEAN, stopped : BOOLEAN]
      BY <3>1
    <3>4. sd \in Seq(Ids)
      BY <3>2
    <3> QED
      BY <3>2, <3>3, <3>4
  <2>7. count \in [started : Int, gc : Int, latest : Nat, written : Nat]
    BY DEF Init
  <2> QED
    BY <2>2, <2>3, <2>4, <2>5, <2>6, <2>7 DEF TypeInv
<1>3. Tasks
  BY DEF Init, Tasks, Past
<1>4. Places
  <2>1. /\ \A i : ~At(i, <<>>) /\ ~AtPacks(i, <<>>)
        /\ Once(<<>>) /\ Len(<<>>) = 0
    BY DEF At, AtPacks, Once
  <2>2. /\ queue.submit = <<>> /\ queue.frozen = <<>> /\ queue.log = <<>> /\ queue.data = <<>>
        /\ queue.wait = <<>> /\ queue.gc = <<>> /\ sd = <<>> /\ gc.packs = <<>>
        /\ wl.todo = <<>> /\ wl.pack.ids = <<>>
    BY DEF Init, NoPack
  <2>3. /\ InLine(biow, <<>>, <<>>) /\ InLog(biow, <<>>, <<>>) /\ InTodo(biow, <<>>, wl.pc)
        /\ InData(biow, <<>>, <<>>) /\ InWait(biow, <<>>, wd) /\ InPack(biow, <<>>, <<>>)
        /\ InGc(biow, <<>>, <<>>, <<>>)
    BY <2>1 DEF InLine, InLog, InTodo, InData, InWait, InPack, InGc
  <2> QED
    BY <2>2, <2>3 DEF Places
<1> QED
  BY <1>1, <1>2, <1>3, <1>4 DEF PlacesInv

\* PlacesInv is an invariant.
LEMMA PlacesInvariant == Spec => []PlacesInv
<1>1. Init => PlacesInv
  BY PlacesInit
<1>2. PlacesInv /\ [Next]_vars => PlacesInv'
  BY PlacesStep
<1> QED
  BY <1>1, <1>2, PTL DEF Spec

-----------------------------------------------------------------------------
(***************************************************************************)
(* The counters                                                            *)
(***************************************************************************)
\* The weight of a write in pending_data.
WeightIn(b, i) == IF b[i].discard THEN 1 ELSE b[i].len

\* What a sector is.
LEMMA InSectors ==
  ASSUME NEW b
  PROVE  \A e : e \in SectorsOf(b) <=>
           \E i \in Ids : b[i].st \in InsertedStates /\ \E k \in 1..WeightIn(b, i) : e = <<i, k>>
<1>1. SectorsOf(b) = UNION {{i} \X (1..WeightIn(b, i)) : i \in {j \in Ids : b[j].st \in InsertedStates}}
  BY DEF SectorsOf, WeightIn
<1>2. ASSUME NEW e \in SectorsOf(b)
      PROVE  \E i \in Ids : b[i].st \in InsertedStates /\ \E k \in 1..WeightIn(b, i) : e = <<i, k>>
  <2>1. PICK i \in {j \in Ids : b[j].st \in InsertedStates} : e \in {i} \X (1..WeightIn(b, i))
    BY <1>1, <1>2
  <2>2. \E k \in 1..WeightIn(b, i) : e = <<i, k>>
    BY <2>1
  <2> QED
    BY <2>1, <2>2
<1>3. ASSUME NEW i \in Ids, b[i].st \in InsertedStates, NEW k \in 1..WeightIn(b, i)
      PROVE  <<i, k>> \in SectorsOf(b)
  <2>1. <<i, k>> \in {i} \X (1..WeightIn(b, i))
    OBVIOUS
  <2> QED
    BY <1>1, <1>3, <2>1
<1> QED
  BY <1>2, <1>3

\* A write whose insertion and whose weight a step leaves.
SectorsStay(b, c, i) ==
  /\ b[i].st \in InsertedStates <=> c[i].st \in InsertedStates
  /\ b[i].st \in InsertedStates => c[i].len = b[i].len /\ c[i].discard = b[i].discard

\* Nothing is inserted or deleted.
LEMMA SectorsSame ==
  ASSUME NEW b, NEW c, \A i \in Ids : SectorsStay(b, c, i)
  PROVE  SectorsOf(c) = SectorsOf(b)
<1>1. \A i \in Ids : b[i].st \in InsertedStates => WeightIn(c, i) = WeightIn(b, i)
  BY DEF SectorsStay, WeightIn
<1>2. \A e : e \in SectorsOf(b) <=>
        \E i \in Ids : b[i].st \in InsertedStates /\ \E k \in 1..WeightIn(b, i) : e = <<i, k>>
  BY InSectors
<1>3. \A e : e \in SectorsOf(c) <=>
        \E i \in Ids : c[i].st \in InsertedStates /\ \E k \in 1..WeightIn(c, i) : e = <<i, k>>
  BY InSectors
<1>4. \A e : e \in SectorsOf(c) <=> e \in SectorsOf(b)
  BY <1>1, <1>2, <1>3, Zenon DEF SectorsStay
<1> QED
  BY <1>4, Zenon

\* A write is inserted, from b to c, or deleted, from c to b.
LEMMA SectorsMore ==
  ASSUME NEW b, NEW c, NEW i \in Ids, NEW n \in Nat, n = WeightIn(c, i),
         b[i].st \notin InsertedStates, c[i].st \in InsertedStates,
         \A j \in Ids : j # i => SectorsStay(b, c, j),
         IsFiniteSet(SectorsOf(b)) \/ IsFiniteSet(SectorsOf(c))
  PROVE  /\ IsFiniteSet(SectorsOf(b)) /\ IsFiniteSet(SectorsOf(c))
         /\ Cardinality(SectorsOf(b)) \in Nat
         /\ Cardinality(SectorsOf(c)) = Cardinality(SectorsOf(b)) + n
<1> DEFINE X == {i} \X (1..n)
<1>0. /\ \A e : e \in SectorsOf(b) <=>
           \E j \in Ids : b[j].st \in InsertedStates /\ \E k \in 1..WeightIn(b, j) : e = <<j, k>>
      /\ \A e : e \in SectorsOf(c) <=>
           \E j \in Ids : c[j].st \in InsertedStates /\ \E k \in 1..WeightIn(c, j) : e = <<j, k>>
  BY InSectors
<1>1. \A j \in Ids : j # i /\ b[j].st \in InsertedStates => WeightIn(c, j) = WeightIn(b, j)
  BY DEF SectorsStay, WeightIn
<1>2. SectorsOf(c) = SectorsOf(b) \cup X
  <2>1. ASSUME NEW e \in SectorsOf(c) PROVE e \in SectorsOf(b) \cup X
    <3>1. PICK j \in Ids : c[j].st \in InsertedStates /\ \E k \in 1..WeightIn(c, j) : e = <<j, k>>
      BY <1>0, <2>1
    <3>2. PICK k \in 1..WeightIn(c, j) : e = <<j, k>>
      BY <3>1
    <3>3. CASE j = i
      BY <3>2, <3>3
    <3>4. CASE j # i
      <4>1. b[j].st \in InsertedStates /\ k \in 1..WeightIn(b, j)
        BY <1>1, <3>1, <3>2, <3>4 DEF SectorsStay
      <4> QED
        BY <1>0, <3>2, <4>1
    <3> QED
      BY <3>3, <3>4
  <2>2. ASSUME NEW e \in SectorsOf(b) PROVE e \in SectorsOf(c)
    <3>1. PICK j \in Ids : b[j].st \in InsertedStates /\ \E k \in 1..WeightIn(b, j) : e = <<j, k>>
      BY <1>0, <2>2
    <3>2. j # i /\ c[j].st \in InsertedStates /\ WeightIn(c, j) = WeightIn(b, j)
      BY <1>1, <3>1 DEF SectorsStay
    <3> QED
      BY <1>0, <3>1, <3>2
  <2>3. ASSUME NEW e \in X PROVE e \in SectorsOf(c)
    <3>1. PICK k \in 1..n : e = <<i, k>>
      BY <2>3
    <3> QED
      BY <1>0, <3>1
  <2> HIDE DEF X
  <2> QED
    BY <2>1, <2>2, <2>3
<1>3. SectorsOf(b) \cap X = {}
  <2>1. SUFFICES ASSUME NEW e \in X, e \in SectorsOf(b) PROVE FALSE
    OBVIOUS
  <2>2. PICK j \in Ids : b[j].st \in InsertedStates /\ \E k \in 1..WeightIn(b, j) : e = <<j, k>>
    BY <1>0, <2>1
  <2> QED
    BY <2>1, <2>2
<1>4. IsFiniteSet(X) /\ Cardinality(X) = n
  <2> DEFINE one == {i}
             I == 1..n
  <2>1. IsFiniteSet(I) /\ Cardinality(I) = n
    BY FS_Interval
  <2>2. IsFiniteSet(one) /\ Cardinality(one) = 1
    BY FS_Singleton
  <2>3. X = one \X I
    OBVIOUS
  <2> HIDE DEF one, I, X
  <2> QED
    BY <2>1, <2>2, <2>3, FS_Product
<1> HIDE DEF X
<1>5. IsFiniteSet(SectorsOf(b))
  <2>1. SectorsOf(b) \in SUBSET SectorsOf(c)
    BY <1>2
  <2> QED
    BY <2>1, FS_Subset
<1>6. Cardinality(SectorsOf(b)) \in Nat
  BY <1>5, FS_CardinalityType
<1>7. /\ IsFiniteSet(SectorsOf(c))
      /\ Cardinality(SectorsOf(c)) = Cardinality(SectorsOf(b)) + n - Cardinality({})
  BY <1>2, <1>3, <1>4, <1>5, FS_Union
<1>8. Cardinality({}) = 0
  BY FS_EmptySet
<1> QED
  BY <1>5, <1>6, <1>7, <1>8

\* The writes that are started are finitely many.
LEMMA StartedFinite ==
  ASSUME NEW b
  PROVE  IsFiniteSet(Started(b)) /\ Cardinality(Started(b)) \in Nat
<1>1. IsFiniteSet(Ids)
  <2>1. 1 \in Int /\ MaxWrites \in Int
    BY QueueAssumption DEF QueueAssumption
  <2> QED
    BY <2>1, FS_Interval DEF Ids
<1>2. Started(b) \in SUBSET Ids
  BY DEF Started
<1> QED
  BY <1>1, <1>2, FS_Subset, FS_CardinalityType

\* A write ends.
LEMMA StartedLess ==
  ASSUME NEW b, NEW c, NEW i \in Ids, b[i].st \in StartedStates, c[i].st \notin StartedStates,
         \A j \in Ids : j # i => (b[j].st \in StartedStates <=> c[j].st \in StartedStates)
  PROVE  Cardinality(Started(c)) = Cardinality(Started(b)) - 1 /\ Cardinality(Started(b)) > 0
<1>1. Started(c) = Started(b) \ {i} /\ i \in Started(b)
  BY DEF Started
<1>2. /\ IsFiniteSet(Started(b)) /\ Cardinality(Started(b)) \in Nat
      /\ Cardinality(Started(c)) \in Nat
  BY StartedFinite
<1>3. Cardinality(Started(c)) = Cardinality(Started(b)) - 1
  BY <1>1, <1>2, FS_RemoveElement
<1> QED
  BY <1>2, <1>3

\* A batch is started.
LEMMA StartedMore ==
  ASSUME NEW b, NEW c, NEW a \in Seq(Ids), Once(a),
         \A i \in Ids : At(i, a) => b[i].st \notin StartedStates /\ c[i].st \in StartedStates,
         \A i \in Ids : ~At(i, a) => (b[i].st \in StartedStates <=> c[i].st \in StartedStates)
  PROVE  Cardinality(Started(c)) = Cardinality(Started(b)) + Len(a)
<1> DEFINE R == {i \in Ids : At(i, a)}
           I == 1..Len(a)
<1>1. Len(a) \in Nat /\ \A k \in 1..Len(a) : a[k] \in Ids
  BY ElementOfSeq, LenProperties
<1>2. IsFiniteSet(I) /\ Cardinality(I) = Len(a)
  <2>1. PICK n \in Nat : n = Len(a)
    BY <1>1
  <2>2. IsFiniteSet(1..n) /\ Cardinality(1..n) = n
    BY FS_Interval
  <2> QED
    BY <2>1, <2>2
<1>3. ExistsBijection(I, R)
  <2>1. PICK f : f = [k \in I |-> a[k]]
    OBVIOUS
  <2>2. \A k \in I : f[k] = a[k] /\ a[k] \in R
    BY <1>1, <2>1 DEF At
  <2>3. f \in [I -> R]
    BY <2>1, <2>2
  <2>4. \A k, m \in I : f[k] = f[m] => k = m
    BY <2>2 DEF Once
  <2>5. \A x \in R : \E k \in I : f[k] = x
    BY <2>2 DEF At
  <2> HIDE DEF R, I
  <2>6. f \in Bijection(I, R)
    BY <2>3, <2>4, <2>5 DEF Bijection, Injection, Surjection, IsInjective
  <2> QED
    BY <2>6 DEF ExistsBijection
<1>4. Started(c) = Started(b) \cup R /\ Started(b) \cap R = {}
  BY DEF Started
<1> HIDE DEF R, I
<1>5. IsFiniteSet(R) /\ Cardinality(R) = Len(a)
  BY <1>2, <1>3, FS_Bijection
<1>6. IsFiniteSet(Started(b)) /\ Cardinality(Started(b)) \in Nat
  BY StartedFinite
<1>7. Cardinality(Started(c)) = Cardinality(Started(b)) + Len(a) - Cardinality({})
  BY <1>4, <1>5, <1>6, FS_Union
<1>8. Cardinality({}) = 0
  BY FS_EmptySet
<1> QED
  BY <1>1, <1>6, <1>7, <1>8

\* One write goes from one state to another.
OneMove(i, s, t) ==
  /\ i \in Ids /\ biow[i].st = s /\ biow'[i].st = t
  /\ \A j \in Ids : j # i => biow'[j] = biow[j]
SameSize(i) == biow'[i].len = biow[i].len /\ biow'[i].discard = biow[i].discard

\* The states of the writes that the tasks are at.
LEMMA Heads ==
  ASSUME PlacesInv
  PROVE  /\ wl.todo # <<>> =>
              /\ Head(wl.todo) \in Ids /\ wl.pc \in Past => biow[Head(wl.todo)].st = "inserted"
              /\ Head(wl.todo) \in Ids /\ wl.pc \notin Past => biow[Head(wl.todo)].st = "log"
              /\ Head(wl.todo) \in Ids
         /\ sd # <<>> => Head(sd) \in Ids /\ biow[Head(sd)].st = "answered"
         /\ queue.wait # <<>> =>
              Head(queue.wait) \in Ids /\ (wd # "idle" => biow[Head(queue.wait)].st = "deleted")
<1>0. /\ wl.todo \in Seq(Ids) /\ sd \in Seq(Ids) /\ queue.wait \in Seq(Ids)
      /\ InTodo(biow, wl.todo, wl.pc) /\ InData(biow, queue.data, sd)
      /\ InWait(biow, queue.wait, wd)
  BY DEF PlacesInv, TypeInv, Places
<1>1. ASSUME wl.todo # <<>>
      PROVE  /\ Head(wl.todo) \in Ids
             /\ biow[Head(wl.todo)].st = IF wl.pc \in Past THEN "inserted" ELSE "log"
  <2>1. Head(wl.todo) \in Ids /\ At(Head(wl.todo), wl.todo)
    BY <1>0, <1>1, TailFacts, TailAt
  <2> QED
    BY <1>0, <2>1 DEF InTodo
<1>2. ASSUME sd # <<>> PROVE Head(sd) \in Ids /\ biow[Head(sd)].st = "answered"
  <2>1. Head(sd) \in Ids /\ At(Head(sd), sd)
    BY <1>0, <1>2, TailFacts, TailAt
  <2> QED
    BY <1>0, <2>1 DEF InData
<1>3. ASSUME queue.wait # <<>>
      PROVE  Head(queue.wait) \in Ids /\ (wd # "idle" => biow[Head(queue.wait)].st = "deleted")
  <2>1. Head(queue.wait) \in Ids /\ At(Head(queue.wait), queue.wait)
    BY <1>0, <1>3, TailFacts, TailAt
  <2> QED
    BY <1>0, <2>1 DEF InWait
<1> QED
  BY <1>1, <1>2, <1>3

\* The steps that move one write on.
LEMMA OneMoves ==
  ASSUME PlacesInv
  PROVE  /\ WaitLogInsert => OneMove(Head(wl.todo), "log", "inserted") /\ SameSize(Head(wl.todo))
         /\ WaitLogAnswer => OneMove(Head(wl.todo), "inserted", "answered") /\ SameSize(Head(wl.todo))
         /\ WaitLogFail => OneMove(Head(wl.todo), "log", "failed")
         /\ WaitDataDelete => \E s \in {"deleted", "complete"} :
              OneMove(Head(queue.wait), "written", s) /\ SameSize(Head(queue.wait))
         /\ WaitDataClear => OneMove(Head(queue.wait), "deleted", "complete")
         /\ CancelDelete => \E s \in {"cancelled", "complete"} :
              OneMove(Head(sd), "answered", s) /\ SameSize(Head(sd))
         /\ CancelComplete => \E i \in Ids : OneMove(i, "cancelled", "complete")
<1>0. TypeInv /\ Tasks /\ biow \in [Ids -> Biows]
  BY DEF PlacesInv, TypeInv
<1>1. ASSUME WaitLogInsert
      PROVE  OneMove(Head(wl.todo), "log", "inserted") /\ SameSize(Head(wl.todo))
  <2>1. PICK i : i = Head(wl.todo)
    OBVIOUS
  <2>2. wl.pc = "next" /\ wl.todo # <<>> /\ biow' = [biow EXCEPT ![i].st = "inserted"]
    BY <1>1, <2>1 DEF WaitLogInsert
  <2>3. i \in Ids /\ biow[i].st = "log"
    BY <2>1, <2>2, Heads DEF Past
  <2> QED
    BY <1>0, <2>1, <2>2, <2>3 DEF OneMove, SameSize, Biows
<1>2. ASSUME WaitLogAnswer
      PROVE  OneMove(Head(wl.todo), "inserted", "answered") /\ SameSize(Head(wl.todo))
  <2>1. PICK i : i = Head(wl.todo)
    OBVIOUS
  <2>2. wl.pc = "answer" /\ wl.todo # <<>> /\ biow' = [biow EXCEPT ![i].st = "answered"]
    BY <1>0, <1>2, <2>1 DEF WaitLogAnswer, Tasks, Past
  <2>3. i \in Ids /\ biow[i].st = "inserted"
    BY <2>1, <2>2, Heads DEF Past
  <2> QED
    BY <1>0, <2>1, <2>2, <2>3 DEF OneMove, SameSize, Biows
<1>3. ASSUME WaitLogFail PROVE OneMove(Head(wl.todo), "log", "failed")
  <2>1. PICK i : i = Head(wl.todo)
    OBVIOUS
  <2>2. wl.pc = "next" /\ wl.todo # <<>> /\ biow' = Destroyed({i}, "failed")
    BY <1>3, <2>1 DEF WaitLogFail
  <2>3. i \in Ids /\ biow[i].st = "log"
    BY <2>1, <2>2, Heads DEF Past
  <2>4. "failed" \in States
    BY DEF States
  <2>5. biow'[i].st = "failed" /\ \A j \in Ids : j # i => biow'[j] = biow[j]
    <3>1. PICK c : c = Destroyed({i}, "failed")
      OBVIOUS
    <3>2. c[i].st = "failed" /\ \A j \in Ids : j # i => c[j] = biow[j]
      BY <1>0, <2>3, <2>4, <3>1, DestroyOne
    <3>3. biow' = c
      BY <2>2, <3>1
    <3> QED
      BY <3>2, <3>3, Zenon
  <2> QED
    BY <2>1, <2>3, <2>5 DEF OneMove
<1>4. ASSUME WaitDataDelete
      PROVE  \E s \in {"deleted", "complete"} :
               OneMove(Head(queue.wait), "written", s) /\ SameSize(Head(queue.wait))
  <2>1. PICK i : i = Head(queue.wait)
    OBVIOUS
  <2>2. /\ queue.wait # <<>> /\ biow[i].st = "written"
        /\ biow' = [biow EXCEPT ![i].st = "deleted"] \/ biow' = [biow EXCEPT ![i].st = "complete"]
    BY <1>4, <2>1 DEF WaitDataDelete, Completed
  <2>3. i \in Ids
    BY <2>1, <2>2, Heads
  <2>4. PICK s \in {"deleted", "complete"} : biow' = [biow EXCEPT ![i].st = s]
    BY <2>2
  <2>5. s \in States
    BY DEF States, StartedStates
  <2>6. /\ biow'[i].st = s /\ biow'[i].len = biow[i].len /\ biow'[i].discard = biow[i].discard
        /\ \A j \in Ids : j # i => biow'[j] = biow[j]
    BY <1>0, <2>3, <2>4, <2>5, MoveOne
  <2>7. OneMove(i, "written", s) /\ SameSize(i)
    BY <2>2, <2>3, <2>6 DEF OneMove, SameSize
  <2> QED
    BY <2>1, <2>7
<1>5. ASSUME WaitDataClear PROVE OneMove(Head(queue.wait), "deleted", "complete")
  <2>1. PICK i : i = Head(queue.wait)
    OBVIOUS
  <2>2. queue.wait # <<>> /\ wd = "clear" /\ biow' = [biow EXCEPT ![i].st = "complete"]
    BY <1>0, <1>5, <2>1 DEF WaitDataClear, Completed, Tasks
  <2>3. i \in Ids /\ biow[i].st = "deleted"
    BY <2>1, <2>2, Heads
  <2> QED
    BY <1>0, <2>1, <2>2, <2>3 DEF OneMove, Biows
<1>6. ASSUME CancelDelete
      PROVE  \E s \in {"cancelled", "complete"} :
               OneMove(Head(sd), "answered", s) /\ SameSize(Head(sd))
  <2>1. PICK i, b, c : i = Head(sd) /\ b = biow /\ c = biow'
    OBVIOUS
  <2>2. i \in Ids /\ biow[i].st = "answered"
    BY <1>6, <2>1, Heads DEF CancelDelete
  <2>3. PICK e \in BOOLEAN : e = TRUE
    OBVIOUS
  <2>4. c = [b EXCEPT ![i].st = "cancelled"] \/ EndStep(b, c, i, "complete", e)
    BY <1>6, <2>1, <2>3 DEF CancelDelete, EndStep
  <2>5. "cancelled" \in States /\ "complete" \in States /\ b \in [Ids -> Biows]
    BY <1>0, <2>1 DEF States, StartedStates
  <2>6. PICK s \in {"cancelled", "complete"} :
          /\ c[i].st = s /\ c[i].len = b[i].len /\ c[i].discard = b[i].discard
          /\ \A j \in Ids : j # i => c[j] = b[j]
    <3>1. CASE c = [b EXCEPT ![i].st = "cancelled"]
      BY <2>2, <2>5, <3>1, MoveOne
    <3>2. CASE EndStep(b, c, i, "complete", e)
      BY <2>2, <2>5, <3>2, MoveEnd
    <3> QED
      BY <2>4, <3>1, <3>2
  <2>7. OneMove(i, "answered", s) /\ SameSize(i)
    BY <2>1, <2>2, <2>6 DEF OneMove, SameSize
  <2> QED
    BY <2>1, <2>7
<1>7. ASSUME CancelComplete PROVE \E i \in Ids : OneMove(i, "cancelled", "complete")
  <2>1. PICK i \in Ids : /\ biow[i].st = "cancelled"
                         /\ biow' = [biow EXCEPT ![i].st = "complete", ![i].error = TRUE]
    BY <1>7 DEF CancelComplete, Cancelled
  <2>2. PICK b, c : b = biow /\ c = biow'
    OBVIOUS
  <2>i. i \in Ids
    BY <2>1
  <2>e. PICK e \in BOOLEAN : e = TRUE
    OBVIOUS
  <2>3. EndStep(b, c, i, "complete", e)
    BY <2>1, <2>2, <2>e DEF EndStep
  <2>4. "complete" \in States /\ b \in [Ids -> Biows]
    BY <1>0, <2>2 DEF States, StartedStates
  <2>5. c[i].st = "complete" /\ \A j \in Ids : j # i => c[j] = b[j]
    BY <2>3, <2>4, <2>i, MoveEnd
  <2> QED
    BY <2>1, <2>2, <2>5 DEF OneMove
<1> QED
  BY <1>1, <1>2, <1>3, <1>4, <1>5, <1>6, <1>7

\* The data device completes a write, the gc worker destroys one.
LEMMA EndMoves ==
  ASSUME PlacesInv
  PROVE  /\ \A i \in Ids, error \in BOOLEAN :
              DdevWrite(i, error) => OneMove(i, "waiting", "written") /\ SameSize(i)
         /\ GcDestroy => \E i \in Ids : OneMove(i, "complete", "done")
<1>0. TypeInv /\ biow \in [Ids -> Biows]
  BY DEF PlacesInv, TypeInv
<1>1. ASSUME NEW i \in Ids, NEW error \in BOOLEAN, DdevWrite(i, error)
      PROVE  OneMove(i, "waiting", "written") /\ SameSize(i)
  <2>1. PICK b, c : b = biow /\ c = biow'
    OBVIOUS
  <2>2. EndStep(b, c, i, "written", error) /\ biow[i].st = "waiting"
    BY <1>1, <2>1 DEF DdevWrite, EndStep
  <2>3. "written" \in States /\ b \in [Ids -> Biows]
    BY <1>0, <2>1 DEF States, StartedStates, InsertedStates
  <2>4. /\ c[i].st = "written" /\ c[i].len = b[i].len /\ c[i].discard = b[i].discard
        /\ \A j \in Ids : j # i => c[j] = b[j]
    BY <2>2, <2>3, MoveEnd
  <2> QED
    BY <2>1, <2>2, <2>4 DEF OneMove, SameSize
<1>2. ASSUME GcDestroy PROVE \E i \in Ids : OneMove(i, "complete", "done")
  <2>1. PICK i \in GcLeft : biow[i].st = "complete" /\ biow' = Destroyed({i}, "done")
    BY <1>2 DEF GcDestroy
  <2>2. i \in Ids /\ "done" \in States
    BY <1>0, GcLeftAt DEF States
  <2>3. biow'[i].st = "done" /\ \A j \in Ids : j # i => biow'[j] = biow[j]
    BY <1>0, <2>1, <2>2, DestroyOne
  <2> QED
    BY <2>1, <2>2, <2>3 DEF OneMove
<1> QED
  BY <1>1, <1>2

\* A request, a batch of the submit log task and the writes that the data task takes.
LEMMA ManyMoves ==
  ASSUME PlacesInv
  PROVE  /\ \A i \in Ids, len \in Nat, discard \in BOOLEAN :
              MakeWrite(i, len, discard) =>
                \E s \in {"queued", "failed"} : OneMove(i, "none", s)
         /\ SubmitLogReadOnly => \A i \in Ids :
              biow'[i] = biow[i] \/ (biow[i].st = "queued" /\ biow'[i].st = "failed")
         /\ SubmitLog =>
              /\ Batch \in Seq(Ids) /\ Once(Batch)
              /\ \A i \in Ids : At(i, Batch) => biow[i].st = "queued" /\ biow'[i].st = "log"
              /\ \A i \in Ids : ~At(i, Batch) => biow'[i] = biow[i]
         /\ SubmitDataTake => \A i \in Ids :
              biow'[i] = biow[i] \/ (/\ biow[i].st = "answered" /\ biow'[i].st = "waiting"
                                     /\ SameSize(i))
<1>0. TypeInv /\ Places /\ QueueInv /\ biow \in [Ids -> Biows]
  BY DEF PlacesInv, TypeInv
<1>1. ASSUME NEW i \in Ids, NEW len \in Nat, NEW discard \in BOOLEAN, MakeWrite(i, len, discard)
      PROVE  \E s \in {"queued", "failed"} : OneMove(i, "none", s)
  <2>1. CASE readOnly
    <3>1. biow[i].st = "none" /\ biow' = Destroyed({i}, "failed") /\ "failed" \in States
      BY <1>1, <2>1 DEF MakeWrite, States
    <3>2. biow'[i].st = "failed" /\ \A j \in Ids : j # i => biow'[j] = biow[j]
      BY <1>0, <3>1, DestroyOne
    <3> QED
      BY <3>1, <3>2 DEF OneMove
  <2>2. CASE ~readOnly
    <3>1. PICK b, c : b = biow /\ c = biow'
      OBVIOUS
    <3>2. biow[i].st = "none" /\ NewStep(b, c, i, "queued", len, discard)
      BY <1>1, <2>2, <3>1 DEF MakeWrite, NewStep
    <3>3. "queued" \in States /\ b \in [Ids -> Biows]
      BY <1>0, <3>1 DEF States
    <3>4. c[i].st = "queued" /\ \A j \in Ids : j # i => c[j] = b[j]
      BY <3>2, <3>3, MoveNew
    <3> QED
      BY <3>1, <3>2, <3>4 DEF OneMove
  <2> QED
    BY <2>1, <2>2
<1>2. ASSUME queue.submit # <<>>
      PROVE  /\ Batch \in Seq(Ids) /\ Once(Batch) /\ Range(Batch) = {i \in Ids : At(i, Batch)}
             /\ \A i \in Ids : At(i, Batch) => biow[i].st = "queued"
  <2>1. /\ Batch \in Seq(Ids) /\ Once(Batch) /\ Range(Batch) = {i \in Ids : At(i, Batch)}
        /\ \A i : At(i, Batch) => At(i, queue.submit)
    BY <1>0, <1>2, BatchApart
  <2>2. InLine(biow, queue.submit, queue.frozen)
    BY <1>0 DEF Places
  <2> QED
    BY <2>1, <2>2, Zenon DEF InLine
<1>3. ASSUME SubmitLogReadOnly, NEW i \in Ids
      PROVE  biow'[i] = biow[i] \/ (biow[i].st = "queued" /\ biow'[i].st = "failed")
  <2>1. queue.submit # <<>> /\ biow' = Destroyed(Range(Batch), "failed")
    BY <1>3 DEF SubmitLogReadOnly
  <2>2. CASE At(i, Batch)
    <3>1. biow[i].st = "queued" /\ i \in Range(Batch)
      BY <1>2, <2>1, <2>2
    <3>2. biow'[i] = [NoBiow EXCEPT !.st = "failed", !.lsid = biow[i].lsid]
      BY <2>1, <3>1 DEF Destroyed
    <3> QED
      BY <3>1, <3>2 DEF NoBiow
  <2>3. CASE ~At(i, Batch)
    <3>1. i \notin Range(Batch)
      BY <1>2, <2>1, <2>3
    <3> QED
      BY <2>1, <3>1 DEF Destroyed
  <2> QED
    BY <2>2, <2>3
<1>4. ASSUME SubmitLog
      PROVE  /\ Batch \in Seq(Ids) /\ Once(Batch)
             /\ \A i \in Ids : At(i, Batch) => biow[i].st = "queued" /\ biow'[i].st = "log"
             /\ \A i \in Ids : ~At(i, Batch) => biow'[i] = biow[i]
  <2> DEFINE place(i) == CHOOSE k \in 1..Len(Batch) : Batch[k] = i
  <2>1. /\ queue.submit # <<>>
        /\ biow' = [i \in Ids |->
                      IF i \in Range(Batch)
                      THEN [biow[i] EXCEPT !.st = "log", !.lsid = count.latest + place(i)]
                      ELSE biow[i]]
    BY <1>4 DEF SubmitLog
  <2> HIDE DEF place
  <2>2. \A i \in Ids : i \in Range(Batch) => biow'[i].st = "log"
    BY <1>0, <2>1 DEF Biows
  <2>3. \A i \in Ids : i \notin Range(Batch) => biow'[i] = biow[i]
    BY <2>1
  <2> QED
    BY <1>2, <2>1, <2>2, <2>3
<1>5. ASSUME SubmitDataTake, NEW i \in Ids
      PROVE  biow'[i] = biow[i] \/ (/\ biow[i].st = "answered" /\ biow'[i].st = "waiting"
                                    /\ SameSize(i))
  <2>1. CASE readOnly
    BY <1>5, <2>1 DEF SubmitDataTake
  <2>2. CASE ~readOnly
    <3>1. biow'[i] = IF i \in Range(queue.data) THEN [biow[i] EXCEPT !.st = "waiting"] ELSE biow[i]
      BY <1>5, <2>2 DEF SubmitDataTake
    <3>2. i \in Range(queue.data) => biow[i].st = "answered"
      <4>1. queue.data \in Seq(Ids) /\ InData(biow, queue.data, sd)
        BY <1>0 DEF TypeInv, Places
      <4>2. i \in Range(queue.data) => At(i, queue.data)
        BY <4>1, RangeAt
      <4> QED
        BY <4>1, <4>2 DEF InData
    <3> QED
      BY <1>0, <3>1, <3>2 DEF Biows, SameSize
  <2> QED
    BY <2>1, <2>2
<1> QED
  BY <1>1, <1>3, <1>4, <1>5

\* What a step of the tasks leaves of the packs on their way: all but those that take a
\* pack along keep the log and gc queues and the counters that go with them.
LEMMA PacksKept ==
  ASSUME PlacesInv, [Next]_vars, ~SubmitLog, ~WaitLogTake, ~WaitLogEnd, ~GcTake, ~GcWritten,
         ~GcSub
  PROVE  /\ queue'.log = queue.log /\ queue'.gc = queue.gc
         /\ gc'.packs = gc.packs /\ (gc'.pc = "sub" <=> gc.pc = "sub")
         /\ count'.gc = count.gc /\ count'.latest = count.latest /\ count'.written = count.written
         /\ (wl'.pc = "idle" <=> wl.pc = "idle") /\ wl'.pack.end = wl.pack.end
<1>0. TypeInv
  BY DEF PlacesInv
<1>c. count \in [started : Int, gc : Int, latest : Nat, written : Nat]
  BY <1>0 DEF TypeInv
<1> DEFINE Queues == queue'.log = queue.log /\ queue'.gc = queue.gc
           Wls == (wl'.pc = "idle" <=> wl.pc = "idle") /\ wl'.pack.end = wl.pack.end
           Counters == count'.gc = count.gc /\ count'.latest = count.latest /\ count'.written = count.written
           Gcs == gc'.packs = gc.packs /\ (gc'.pc = "sub" <=> gc.pc = "sub")
<1>1. ASSUME NEW i \in Ids, NEW len, NEW discard, MakeWrite(i, len, discard)
      PROVE  Queues /\ Wls /\ Counters /\ Gcs
  <2>1. UNCHANGED <<wl, count, gc>> /\ (queue' = queue \/ queue' = Push(i))
    BY <1>1 DEF MakeWrite
  <2>2. Queues
    BY <1>0, <2>1, PushFields
  <2> QED
    BY <2>1, <2>2
<1>2. ASSUME \/ \E i \in Ids, error \in BOOLEAN : DdevWrite(i, error)
             \/ Dispatch \/ SubmitLogEmpty \/ Freeze \/ FreezeWait \/ UNCHANGED vars
      PROVE  Queues /\ Wls /\ Counters /\ Gcs
  BY <1>2 DEF DdevWrite, Dispatch, DispatchOk, DispatchNoMem, DispatchRetry, DispatchVars,
              SubmitLogEmpty, Freeze, FreezeWait, FreezeVars, vars
<1>3. ASSUME SubmitLogReadOnly \/ SubmitDataTake
      PROVE  Queues /\ Wls /\ Counters /\ Gcs
  <2>1. UNCHANGED <<wl, count, gc>>
    BY <1>3 DEF SubmitLogReadOnly, SubmitDataTake
  <2>2. Queues
    <3>1. CASE SubmitLogReadOnly
      <4>1. PICK s : s = Behind(queue.submit, Len(Batch))
        OBVIOUS
      <4>2. queue' = [queue EXCEPT !.submit = s]
        BY <3>1, <4>1 DEF SubmitLogReadOnly
      <4> QED
        BY <1>0, <4>2 DEF TypeInv
    <3>2. CASE SubmitDataTake
      <4>1. PICK s : s = IF readOnly THEN queue.wait ELSE queue.wait \o queue.data
        OBVIOUS
      <4>2. queue' = [queue EXCEPT !.data = <<>>, !.wait = s]
        BY <3>2, <4>1 DEF SubmitDataTake
      <4> QED
        BY <1>0, <4>2 DEF TypeInv
    <3> QED
      BY <1>3, <3>1, <3>2
  <2> QED
    BY <2>1, <2>2
<1>4. ASSUME WaitLogFail PROVE Queues /\ Wls /\ Counters /\ Gcs
  <2>1. UNCHANGED <<queue, gc>> /\ wl.pc = "next"
        /\ wl' = [wl EXCEPT !.todo = Tail(@), !.pack.ids = Tail(@)]
        /\ count' = [count EXCEPT !.started = @ - 1]
    BY <1>4 DEF WaitLogFail, WaitLogVars
  <2>2. Wls
    BY <1>0, <2>1 DEF TypeInv, Packs
  <2>3. Counters
    <3>1. PICK n : count' = [count EXCEPT !.started = n]
      BY <2>1
    <3> QED
      BY <1>c, <3>1
  <2> QED
    BY <2>1, <2>2, <2>3
<1>5. ASSUME WaitLogInsert \/ WaitLogInsertNoMem \/ WaitLogUndo \/ WaitLogStop \/ WaitLogFreeze
             \/ WaitLogAnswer
      PROVE  Queues /\ Wls /\ Counters /\ Gcs
  <2>1. UNCHANGED <<gc, count>>
    BY <1>5 DEF WaitLogInsert, WaitLogInsertNoMem, WaitLogUndo, WaitLogStop, WaitLogFreeze,
                WaitLogAnswer, WaitLogVars
  <2>2. Queues
    BY <1>0, <1>5 DEF WaitLogInsert, WaitLogInsertNoMem, WaitLogUndo, WaitLogStop,
                WaitLogFreeze, WaitLogAnswer, TypeInv
  <2>3. Wls
    <3>1. wl \in [pc : {"idle", "next", "undo", "stop", "freeze", "answer"}, pack : Packs,
                  todo : Seq(Ids), failed : BOOLEAN]
      BY <1>0 DEF TypeInv
    <3>2. CASE WaitLogAnswer
      <4>1. PICK s : s = Tail(wl.todo)
        OBVIOUS
      <4>2. wl.pc = "answer" /\ wl' = [wl EXCEPT !.pc = "next", !.todo = s]
        BY <3>2, <4>1 DEF WaitLogAnswer
      <4> QED
        BY <3>1, <4>2
    <3>3. CASE WaitLogInsert \/ WaitLogInsertNoMem \/ WaitLogUndo \/ WaitLogStop
               \/ WaitLogFreeze
      <4>1. PICK pc : wl.pc # "idle" /\ pc # "idle" /\ wl' = [wl EXCEPT !.pc = pc]
        BY <3>3 DEF WaitLogInsert, WaitLogInsertNoMem, WaitLogUndo, WaitLogStop, WaitLogFreeze
      <4> QED
        BY <3>1, <4>1
    <3> QED
      BY <1>5, <3>2, <3>3
  <2> QED
    BY <2>1, <2>2, <2>3
<1>6. ASSUME CancelDelete \/ CancelMelt \/ CancelComplete \/ WaitDataMelt \/ Melt
      PROVE  Queues /\ Wls /\ Counters /\ Gcs
  <2>1. UNCHANGED <<wl, count, gc>>
        /\ (queue' = queue \/ \E u \in BOOLEAN : queue' = Melted(u).queue)
    BY <1>6 DEF CancelDelete, CancelMelt, CancelComplete, WaitDataMelt, WaitDataVars, Melt,
                FreezeVars
  <2>2. Queues
    BY <1>0, <2>1, MeltedFields
  <2> QED
    BY <2>1, <2>2
<1>7. ASSUME WaitDataDelete \/ WaitDataClear PROVE Queues /\ Wls /\ Counters /\ Gcs
  <2>1. UNCHANGED <<wl, count, gc>>
        /\ (queue' = queue \/ queue' = [queue EXCEPT !.wait = Tail(@)])
    BY <1>7 DEF WaitDataDelete, WaitDataClear, WaitDataVars
  <2>2. Queues
    BY <1>0, <2>1 DEF TypeInv
  <2> QED
    BY <2>1, <2>2
<1>8. ASSUME GcWakeup \/ GcDestroy PROVE Queues /\ Wls /\ Counters /\ Gcs
  <2>1. UNCHANGED <<wl, queue>>
    BY <1>8 DEF GcWakeup, GcDestroy, GcVars
  <2>2. Counters
    <3>1. PICK n : count' = count \/ count' = [count EXCEPT !.started = n]
      BY <1>8 DEF GcWakeup, GcDestroy
    <3> QED
      BY <1>c, <3>1
  <2>3. Gcs
    BY <1>0, <1>8 DEF GcWakeup, GcDestroy, TypeInv
  <2> QED
    BY <2>1, <2>2, <2>3
<1> HIDE DEF Queues, Wls, Counters, Gcs
<1>9. Queues /\ Wls /\ Counters /\ Gcs
  BY <1>1, <1>2, <1>3, <1>4, <1>5, <1>6, <1>7, <1>8, Zenon
     DEF Next, SubmitLogTask, WaitLogTask, SubmitDataTask, WaitDataTask, GcWorker
<1> QED
  BY <1>9 DEF Queues, Wls, Counters, Gcs

\* The steps that take a pack along.
LEMMA PackSteps ==
  ASSUME PlacesInv
  PROVE  /\ SubmitLog =>
              /\ \E n \in Nat, ids \in Seq(Ids) :
                   /\ count'.latest = count.latest + n
                   /\ queue'.log = Append(queue.log, [ids |-> ids, end |-> count'.latest])
                   /\ [ids |-> ids, end |-> count'.latest] \in Packs
              /\ queue'.gc = queue.gc /\ gc' = gc /\ wl' = wl
              /\ count'.gc = count.gc /\ count'.written = count.written
         /\ WaitLogTake =>
              /\ wl.pc = "idle" /\ queue.log # <<>> /\ queue'.log = Tail(queue.log)
              /\ wl'.pc = "next" /\ wl'.pack = Head(queue.log)
              /\ queue'.gc = queue.gc /\ gc' = gc /\ count' = count
         /\ WaitLogEnd =>
              /\ wl.pc # "idle" /\ wl'.pc = "idle" /\ queue'.gc = Append(queue.gc, wl.pack)
              /\ queue'.log = queue.log /\ gc'.packs = gc.packs /\ gc'.pc = gc.pc
              /\ count'.gc = count.gc + 1 /\ count'.latest = count.latest
              /\ count'.written = count.written
         /\ GcTake =>
              /\ gc.packs = <<>> /\ gc'.packs = queue.gc /\ queue'.gc = <<>> /\ gc'.pc # "sub"
              /\ queue'.log = queue.log /\ wl' = wl /\ count' = count
         /\ GcWritten =>
              /\ count'.written = gc.packs[Len(gc.packs)].end /\ gc'.packs = gc.packs
              /\ gc.packs # <<>> /\ queue' = queue /\ wl' = wl
              /\ count'.gc = count.gc /\ count'.latest = count.latest
         /\ GcSub =>
              /\ gc.pc = "sub" /\ gc.packs # <<>> /\ gc'.pc = "run" /\ gc'.packs = <<>>
              /\ queue' = queue /\ wl' = wl
              /\ count'.gc = count.gc - Len(gc.packs) /\ count'.latest = count.latest
              /\ count'.written = count.written
<1>0. TypeInv /\ Tasks /\ QueueInv
  BY DEF PlacesInv
<1>q. queue \in [frozen : Seq(Ids), submit : Seq(Ids), log : Seq(Packs), data : Seq(Ids),
                 wait : Seq(Ids), gc : Seq(Packs)]
  BY <1>0 DEF TypeInv
<1>c. count \in [started : Int, gc : Int, latest : Nat, written : Nat]
  BY <1>0 DEF TypeInv
<1>g. gc \in [pc : {"idle", "run", "destroy", "sub"}, wakeup : BOOLEAN, packs : Seq(Packs)]
  BY <1>0 DEF TypeInv
<1>1. ASSUME SubmitLog
      PROVE  /\ \E n \in Nat, ids \in Seq(Ids) :
                  /\ count'.latest = count.latest + n
                  /\ queue'.log = Append(queue.log, [ids |-> ids, end |-> count'.latest])
                  /\ [ids |-> ids, end |-> count'.latest] \in Packs
             /\ queue'.gc = queue.gc /\ gc' = gc /\ wl' = wl
             /\ count'.gc = count.gc /\ count'.written = count.written
  <2>1. PICK a, s, n, e : /\ a = Batch /\ s = Behind(queue.submit, Len(Batch)) /\ n = Len(Batch)
                          /\ e = [ids |-> Batch, end |-> count.latest + Len(Batch)]
    OBVIOUS
  <2>2. a \in Seq(Ids) /\ n \in Nat
    BY <1>1, <2>1, ManyMoves
  <2>3. /\ count' = [count EXCEPT !.started = @ + n, !.latest = @ + n]
        /\ queue' = [queue EXCEPT !.submit = s, !.log = Append(queue.log, e)]
        /\ UNCHANGED <<wl, gc>>
    <3>1. /\ count' = [count EXCEPT !.started = @ + Len(Batch), !.latest = @ + Len(Batch)]
          /\ queue' = [queue EXCEPT !.submit = Behind(@, Len(Batch)),
                                    !.log = Append(@, [ids |-> Batch, end |-> count.latest + Len(Batch)])]
          /\ UNCHANGED <<wl, gc>>
      BY <1>1, Zenon DEF SubmitLog
    <3> QED
      BY <2>1, <3>1
  <2>4. PICK l : l = Append(queue.log, e)
    OBVIOUS
  <2>5. queue'.log = l /\ queue'.gc = queue.gc
    BY <1>q, <2>3, <2>4
  <2>6. count'.latest = count.latest + n /\ count'.gc = count.gc /\ count'.written = count.written
    <3>1. count' = [count EXCEPT !.started = @ + n, !.latest = @ + n]
      BY <2>3
    <3>2. PICK k, m : k = count.started + n /\ m = count.latest + n
      OBVIOUS
    <3>3. count' = [count EXCEPT !.started = k, !.latest = m]
      BY <3>1, <3>2
    <3> QED
      BY <1>c, <3>2, <3>3
  <2>7. e = [ids |-> a, end |-> count'.latest] /\ e \in Packs
    BY <1>c, <2>1, <2>2, <2>6 DEF Packs
  <2> QED
    BY <2>2, <2>3, <2>4, <2>5, <2>6, <2>7
<1>2. ASSUME WaitLogTake
      PROVE  /\ wl.pc = "idle" /\ queue.log # <<>> /\ queue'.log = Tail(queue.log)
             /\ wl'.pc = "next" /\ wl'.pack = Head(queue.log)
             /\ queue'.gc = queue.gc /\ gc' = gc /\ count' = count
  <2>1. PICK s : s = Tail(queue.log)
    OBVIOUS
  <2>2. queue' = [queue EXCEPT !.log = s]
    BY <1>2, <2>1 DEF WaitLogTake
  <2>3. queue'.log = s /\ queue'.gc = queue.gc
    BY <1>q, <2>2
  <2> QED
    BY <1>2, <2>1, <2>3 DEF WaitLogTake
<1>3. ASSUME WaitLogEnd
      PROVE  /\ wl.pc # "idle" /\ wl'.pc = "idle" /\ queue'.gc = Append(queue.gc, wl.pack)
             /\ queue'.log = queue.log /\ gc'.packs = gc.packs /\ gc'.pc = gc.pc
             /\ count'.gc = count.gc + 1 /\ count'.latest = count.latest
             /\ count'.written = count.written
  <2>1. PICK s : s = Append(queue.gc, wl.pack)
    OBVIOUS
  <2>2. queue' = [queue EXCEPT !.gc = s] /\ gc' = [gc EXCEPT !.wakeup = TRUE]
        /\ count' = [count EXCEPT !.gc = @ + 1]
    BY <1>3, <2>1 DEF WaitLogEnd
  <2>3. queue'.gc = s /\ queue'.log = queue.log
    BY <1>q, <2>2
  <2>4. gc'.packs = gc.packs /\ gc'.pc = gc.pc
    BY <1>g, <2>2
  <2>5. count'.gc = count.gc + 1 /\ count'.latest = count.latest /\ count'.written = count.written
    BY <1>c, <2>2
  <2>6. wl.pc = "next" /\ wl'.pc = "idle"
    BY <1>3 DEF WaitLogEnd
  <2> QED
    BY <2>1, <2>3, <2>4, <2>5, <2>6
<1>4. ASSUME GcTake
      PROVE  /\ gc.packs = <<>> /\ gc'.packs = queue.gc /\ queue'.gc = <<>> /\ gc'.pc # "sub"
             /\ queue'.log = queue.log /\ wl' = wl /\ count' = count
  <2>1. gc.packs = <<>> /\ UNCHANGED <<wl, count>>
    BY <1>0, <1>4 DEF GcTake, Tasks
  <2>2. queue' = [queue EXCEPT !.gc = <<>>]
    BY <1>4 DEF GcTake
  <2>3. queue'.gc = <<>> /\ queue'.log = queue.log
    BY <1>q, <2>2
  <2>4. gc'.packs = queue.gc /\ gc'.pc # "sub"
    BY <1>4, <1>g, <2>1 DEF GcTake
  <2> QED
    BY <2>1, <2>3, <2>4
<1>5. ASSUME GcWritten
      PROVE  /\ count'.written = gc.packs[Len(gc.packs)].end /\ gc'.packs = gc.packs
             /\ gc.packs # <<>> /\ queue' = queue /\ wl' = wl
             /\ count'.gc = count.gc /\ count'.latest = count.latest
  <2>1. gc.packs # <<>> /\ UNCHANGED <<queue, wl>>
    BY <1>0, <1>5 DEF GcWritten, GcVars, Tasks
  <2>2. PICK n : n = gc.packs[Len(gc.packs)].end
    OBVIOUS
  <2>3. count' = [count EXCEPT !.written = n] /\ gc' = [gc EXCEPT !.pc = "sub"]
    BY <1>5, <2>2 DEF GcWritten, Last
  <2>4. count'.written = n /\ count'.gc = count.gc /\ count'.latest = count.latest
    BY <1>c, <2>3
  <2>5. gc'.packs = gc.packs
    BY <1>g, <2>3
  <2> QED
    BY <2>1, <2>2, <2>4, <2>5
<1>6. ASSUME GcSub
      PROVE  /\ gc.pc = "sub" /\ gc.packs # <<>> /\ gc'.pc = "run" /\ gc'.packs = <<>>
             /\ queue' = queue /\ wl' = wl
             /\ count'.gc = count.gc - Len(gc.packs) /\ count'.latest = count.latest
             /\ count'.written = count.written
  <2>1. gc.pc = "sub" /\ gc.packs # <<>> /\ UNCHANGED <<queue, wl>>
    BY <1>0, <1>6 DEF GcSub, GcVars, Tasks
  <2>2. PICK n : n = count.gc - Len(gc.packs)
    OBVIOUS
  <2>3. count' = [count EXCEPT !.gc = n] /\ gc' = [gc EXCEPT !.pc = "run", !.packs = <<>>]
    BY <1>6, <2>2 DEF GcSub
  <2>4. count'.written = count.written /\ count'.gc = n /\ count'.latest = count.latest
    BY <1>c, <2>3
  <2>5. gc'.packs = <<>> /\ gc'.pc = "run"
    BY <1>g, <2>3
  <2> QED
    BY <2>1, <2>2, <2>4, <2>5
<1> QED
  BY <1>1, <1>2, <1>3, <1>4, <1>5, <1>6

\* n_pending_gc counts the packs for which the gc worker is not done.
LEMMA GcCountsStep ==
  ASSUME PlacesInv, GcCounts, [Next]_vars
  PROVE  GcCounts'
<1>0. queue.gc \in Seq(Packs) /\ gc.packs \in Seq(Packs) /\ wl.pack \in Packs
  BY DEF PlacesInv, TypeInv
<1>n. PICK p, q, n, m : p = Len(queue.gc) /\ q = Len(gc.packs) /\ n = count.gc /\ m = count'.gc
  OBVIOUS
<1>1. p \in Nat /\ q \in Nat /\ n = p + q
  <2>1. p \in Nat /\ q \in Nat
    BY <1>0, <1>n, LenProperties
  <2>2. n = p + q
    BY <1>n DEF GcCounts
  <2> QED
    BY <2>1, <2>2
<1>2. CASE WaitLogEnd
  <2>1. Len(queue'.gc) = p + 1
    <3>1. queue'.gc = Append(queue.gc, wl.pack)
      BY <1>2, PackSteps
    <3> QED
      BY <1>0, <1>n, <3>1
  <2>2. gc'.packs = gc.packs /\ m = n + 1
    BY <1>2, <1>n, PackSteps
  <2>3. m = (p + 1) + q
    BY <1>1, <2>2
  <2> QED
    BY <1>n, <2>1, <2>2, <2>3 DEF GcCounts
<1>3. CASE GcTake
  <2>1. gc.packs = <<>> /\ gc'.packs = queue.gc /\ queue'.gc = <<>> /\ m = n
    BY <1>3, <1>n, PackSteps
  <2>2. Len(queue'.gc) = 0 /\ q = 0 /\ Len(gc'.packs) = p
    BY <1>n, <2>1
  <2>3. m = 0 + p
    BY <1>1, <2>1, <2>2
  <2> QED
    BY <1>n, <2>2, <2>3 DEF GcCounts
<1>4. CASE GcSub
  <2>1. gc'.packs = <<>> /\ queue' = queue /\ m = n - q
    BY <1>4, <1>n, PackSteps
  <2>2. Len(gc'.packs) = 0 /\ Len(queue'.gc) = p
    BY <1>n, <2>1
  <2>3. m = p + 0
    BY <1>1, <2>1
  <2> QED
    BY <1>n, <2>2, <2>3 DEF GcCounts
<1>5. CASE SubmitLog \/ WaitLogTake \/ GcWritten
  <2>1. queue'.gc = queue.gc /\ gc'.packs = gc.packs /\ count'.gc = count.gc
    BY <1>5, PackSteps
  <2> QED
    BY <2>1 DEF GcCounts
<1>6. CASE ~SubmitLog /\ ~WaitLogTake /\ ~WaitLogEnd /\ ~GcTake /\ ~GcWritten /\ ~GcSub
  <2>1. queue'.gc = queue.gc /\ gc'.packs = gc.packs /\ count'.gc = count.gc
    BY <1>6, PacksKept
  <2> QED
    BY <2>1 DEF GcCounts
<1> QED
  BY <1>2, <1>3, <1>4, <1>5, <1>6

\* The packs end where the next ones begin.
LEMMA EndsStep ==
  ASSUME PlacesInv, Ends, [Next]_vars
  PROVE  Ends'
<1>0. /\ queue.log \in Seq(Packs) /\ queue.gc \in Seq(Packs) /\ gc.packs \in Seq(Packs)
      /\ wl.pack \in Packs
  BY DEF PlacesInv, TypeInv
<1>1. CASE SubmitLog
  <2>1. PICK n \in Nat, ids \in Seq(Ids) :
          /\ count'.latest = count.latest + n
          /\ queue'.log = Append(queue.log, [ids |-> ids, end |-> count'.latest])
          /\ [ids |-> ids, end |-> count'.latest] \in Packs
    BY <1>1, PackSteps
  <2>2. PICK p : p = [ids |-> ids, end |-> count'.latest]
    OBVIOUS
  <2>3. p \in Packs /\ queue'.log = Append(queue.log, p) /\ p.end = count'.latest
    BY <2>1, <2>2
  <2>4. queue'.log # <<>> /\ queue'.log[Len(queue'.log)].end = count'.latest
    BY <1>0, <2>3, AppendAt
  <2>5. gc' = gc /\ count'.written = count.written
    BY <1>1, PackSteps
  <2> QED
    BY <2>4, <2>5 DEF Ends
<1>2. CASE WaitLogTake
  <2>1. /\ queue.log # <<>> /\ queue'.log = Tail(queue.log)
        /\ wl'.pc = "next" /\ wl'.pack = Head(queue.log)
        /\ queue'.gc = queue.gc /\ gc' = gc /\ count' = count
    BY <1>2, PackSteps
  <2>2. PICK s, t : s = queue.log /\ t = Tail(queue.log)
    OBVIOUS
  <2>3. /\ Len(s) \in Nat \ {0} /\ Head(s) = s[1] /\ t \in Seq(Packs) /\ Len(t) = Len(s) - 1
        /\ \A k \in 1..(Len(s) - 1) : t[k] = s[k + 1]
    BY <1>0, <2>1, <2>2, TailFacts
  <2>4. count.latest = s[Len(s)].end
    BY <2>1, <2>2 DEF Ends
  <2>5. t # <<>> => t[Len(t)] = s[Len(s)]
    <3>1. t # <<>> => Len(t) \in 1..(Len(s) - 1) /\ Len(t) + 1 = Len(s)
      BY <2>3
    <3> QED
      BY <2>3, <3>1
  <2>6. t = <<>> => s[Len(s)] = Head(s)
    <3>1. t = <<>> => Len(s) = 1
      BY <2>3
    <3> QED
      BY <2>3, <3>1
  <2>7. queue'.log = t /\ wl'.pack = Head(s)
    BY <2>1, <2>2
  <2> QED
    BY <2>1, <2>4, <2>5, <2>6, <2>7 DEF Ends
<1>3. CASE WaitLogEnd
  <2>1. /\ wl.pc # "idle" /\ wl'.pc = "idle" /\ queue'.gc = Append(queue.gc, wl.pack)
        /\ queue'.log = queue.log /\ gc'.packs = gc.packs /\ gc'.pc = gc.pc
        /\ count'.latest = count.latest /\ count'.written = count.written
    BY <1>3, PackSteps
  <2>2. queue'.gc # <<>> /\ queue'.gc[Len(queue'.gc)].end = wl.pack.end
    BY <1>0, <2>1, AppendAt
  <2> QED
    BY <2>1, <2>2 DEF Ends
<1>4. CASE GcTake
  <2>1. /\ gc.packs = <<>> /\ gc'.packs = queue.gc /\ queue'.gc = <<>> /\ gc'.pc # "sub"
        /\ queue'.log = queue.log /\ wl' = wl /\ count' = count
    BY <1>4, PackSteps
  <2> QED
    BY <2>1 DEF Ends
<1>5. CASE GcWritten
  <2>1. /\ count'.written = gc.packs[Len(gc.packs)].end /\ gc'.packs = gc.packs
        /\ gc.packs # <<>> /\ queue' = queue /\ wl' = wl /\ count'.latest = count.latest
    BY <1>5, PackSteps
  <2> QED
    BY <2>1 DEF Ends
<1>6. CASE GcSub
  <2>1. /\ gc.pc = "sub" /\ gc.packs # <<>> /\ gc'.pc = "run" /\ gc'.packs = <<>>
        /\ queue' = queue /\ wl' = wl
        /\ count'.latest = count.latest /\ count'.written = count.written
    BY <1>6, PackSteps
  <2> QED
    BY <2>1 DEF Ends
<1>7. CASE ~SubmitLog /\ ~WaitLogTake /\ ~WaitLogEnd /\ ~GcTake /\ ~GcWritten /\ ~GcSub
  <2>1. /\ queue'.log = queue.log /\ queue'.gc = queue.gc
        /\ gc'.packs = gc.packs /\ (gc'.pc = "sub" <=> gc.pc = "sub")
        /\ count'.latest = count.latest /\ count'.written = count.written
        /\ (wl'.pc = "idle" <=> wl.pc = "idle") /\ wl'.pack.end = wl.pack.end
    BY <1>7, PacksKept
  <2> QED
    BY <2>1 DEF Ends
<1> QED
  BY <1>1, <1>2, <1>3, <1>4, <1>5, <1>6, <1>7

\* Nothing is inserted, deleted, started or ended by the steps that leave the writes alone.
LEMMA QuietCounts ==
  ASSUME PlacesInv,
         \/ Dispatch \/ SubmitLogEmpty \/ WaitLogTake \/ WaitLogStop \/ WaitLogFreeze
         \/ WaitLogEnd \/ CancelMelt \/ WaitDataMelt \/ GcWakeup \/ GcTake \/ GcWritten \/ GcSub
         \/ Freeze \/ FreezeWait \/ Melt \/ UNCHANGED vars
  PROVE  /\ biow' = biow /\ pending' = pending /\ count'.started = count.started
         /\ Undone(biow', wl') = Undone(biow, wl)
<1>w. wl \in [pc : {"idle", "next", "undo", "stop", "freeze", "answer"}, pack : Packs,
              todo : Seq(Ids), failed : BOOLEAN]
  BY DEF PlacesInv, TypeInv
<1>c. count \in [started : Int, gc : Int, latest : Nat, written : Nat]
  BY DEF PlacesInv, TypeInv
<1>1. biow' = biow /\ pending' = pending
  BY DEF Dispatch, DispatchOk, DispatchNoMem, DispatchRetry, DispatchVars, SubmitLogEmpty,
         WaitLogTake, WaitLogStop, WaitLogFreeze, WaitLogEnd, CancelMelt, WaitDataMelt, GcWakeup,
         GcTake, GcWritten, GcSub, GcVars, Freeze, FreezeWait, Melt, FreezeVars, vars
<1>2. count'.started = count.started
  <2>1. PICK n : count' = count \/ count' = [count EXCEPT !.gc = n]
                 \/ count' = [count EXCEPT !.written = n]
    <3>1. CASE WaitLogEnd \/ GcWritten \/ GcSub
      BY <3>1 DEF WaitLogEnd, GcWritten, GcSub
    <3>2. CASE ~(WaitLogEnd \/ GcWritten \/ GcSub)
      <4>1. count' = count
        BY <3>2 DEF Dispatch, DispatchOk, DispatchNoMem, DispatchRetry, DispatchVars,
             SubmitLogEmpty, WaitLogTake, WaitLogStop, WaitLogFreeze, CancelMelt, WaitDataMelt,
             WaitDataVars, GcWakeup, GcTake, Freeze, FreezeWait, Melt, FreezeVars, vars
      <4> QED
        BY <4>1
    <3> QED
      BY <3>1, <3>2
  <2> QED
    BY <1>c, <2>1
<1>3. wl' = wl \/ (wl.pc # "undo" /\ wl'.pc # "undo")
  <2>1. CASE WaitLogTake \/ WaitLogEnd
    BY <2>1 DEF WaitLogTake, WaitLogEnd
  <2>2. CASE WaitLogStop \/ WaitLogFreeze
    BY <1>w, <2>2 DEF WaitLogStop, WaitLogFreeze
  <2>3. CASE ~(WaitLogTake \/ WaitLogEnd \/ WaitLogStop \/ WaitLogFreeze)
    BY <2>3 DEF Dispatch, DispatchOk, DispatchNoMem, DispatchRetry, DispatchVars,
         SubmitLogEmpty, CancelMelt, WaitDataMelt, WaitDataVars, GcWakeup, GcTake, GcWritten, GcSub,
         GcVars, Freeze, FreezeWait, Melt, FreezeVars, vars
  <2> QED
    BY <2>1, <2>2, <2>3
<1> QED
  BY <1>1, <1>2, <1>3 DEF Undone

\* n_started_write_bio counts the writes from their submission to the log to their end.
LEMMA StartedCountsStep ==
  ASSUME PlacesInv, StartedCounts, [Next]_vars
  PROVE  StartedCounts'
<1>0. count \in [started : Int, gc : Int, latest : Nat, written : Nat]
  BY DEF PlacesInv, TypeInv
<1>n. PICK b, c, n, m : b = biow /\ c = biow' /\ n = count.started /\ m = count'.started
  OBVIOUS
<1>1. n = Cardinality(Started(b)) /\ Cardinality(Started(b)) \in Nat
  BY <1>n, StartedFinite DEF StartedCounts
<1>2. ASSUME m = n, \A j \in Ids : b[j].st \in StartedStates <=> c[j].st \in StartedStates
      PROVE  StartedCounts'
  <2>1. Started(c) = Started(b)
    BY <1>2 DEF Started
  <2> QED
    BY <1>1, <1>2, <1>n, <2>1 DEF StartedCounts
<1>3. ASSUME NEW i, NEW s, NEW t, OneMove(i, s, t), s \in StartedStates <=> t \in StartedStates,
             count' = count
      PROVE  StartedCounts'
  <2>1. \A j \in Ids : b[j].st \in StartedStates <=> c[j].st \in StartedStates
    BY <1>3, <1>n DEF OneMove
  <2> QED
    BY <1>2, <1>3, <1>n, <2>1
<1>4. CASE \E i \in Ids, len \in Nat, discard \in BOOLEAN : MakeWrite(i, len, discard)
  <2>1. PICK i \in Ids, s \in {"queued", "failed"} : OneMove(i, "none", s)
    BY <1>4, ManyMoves
  <2>2. count' = count
    BY <1>4 DEF MakeWrite
  <2>3. "none" \notin StartedStates /\ s \notin StartedStates
    BY DEF StartedStates, InsertedStates
  <2> QED
    BY <1>3, <2>1, <2>2, <2>3
<1>5. CASE \E i \in Ids, error \in BOOLEAN : DdevWrite(i, error)
  <2>1. PICK i : OneMove(i, "waiting", "written")
    BY <1>5, EndMoves
  <2>2. count' = count
    BY <1>5 DEF DdevWrite
  <2>3. "waiting" \in StartedStates /\ "written" \in StartedStates
    BY DEF StartedStates, InsertedStates
  <2> QED
    BY <1>3, <2>1, <2>2, <2>3
<1>6. CASE \/ WaitLogInsert \/ WaitLogAnswer \/ WaitDataDelete \/ WaitDataClear
           \/ CancelDelete \/ CancelComplete
  <2>1. PICK i \in Ids, s \in StartedStates, t \in StartedStates : OneMove(i, s, t)
    <3>1. {"log", "inserted", "answered", "written", "deleted", "cancelled", "complete"}
            \subseteq StartedStates
      BY DEF StartedStates, InsertedStates
    <3> QED
      BY <1>6, <3>1, OneMoves DEF OneMove
  <2>2. count' = count
    BY <1>6 DEF WaitLogInsert, WaitLogAnswer, WaitDataDelete, WaitDataClear, WaitDataVars,
                CancelDelete, CancelComplete
  <2> QED
    BY <1>3, <2>1, <2>2
<1>7. CASE WaitLogInsertNoMem \/ WaitLogUndo
  BY <1>2, <1>7, <1>n DEF WaitLogInsertNoMem, WaitLogUndo
<1>8. CASE SubmitLogReadOnly \/ SubmitDataTake
  <2>1. count' = count
    BY <1>8 DEF SubmitLogReadOnly, SubmitDataTake
  <2>2. \A j \in Ids : \/ c[j] = b[j]
                       \/ b[j].st = "queued" /\ c[j].st = "failed"
                       \/ b[j].st = "answered" /\ c[j].st = "waiting"
    BY <1>8, <1>n, ManyMoves
  <2>3. \A j \in Ids : b[j].st \in StartedStates <=> c[j].st \in StartedStates
    BY <2>2 DEF StartedStates, InsertedStates
  <2> QED
    BY <1>2, <1>n, <2>1, <2>3
<1>9. CASE SubmitLog
  <2>1. PICK a : a = Batch
    OBVIOUS
  <2>2. /\ a \in Seq(Ids) /\ Once(a)
        /\ \A i \in Ids : At(i, a) => b[i].st = "queued" /\ c[i].st = "log"
        /\ \A i \in Ids : ~At(i, a) => c[i] = b[i]
    BY <1>9, <1>n, <2>1, ManyMoves
  <2>3. "queued" \notin StartedStates /\ "log" \in StartedStates
    BY DEF StartedStates, InsertedStates
  <2>4. Cardinality(Started(c)) = Cardinality(Started(b)) + Len(a)
    BY <2>2, <2>3, StartedMore
  <2>5. m = n + Len(a)
    <3>1. PICK k, l : k = count.started + Len(Batch) /\ l = count.latest + Len(Batch)
      OBVIOUS
    <3>2. count' = [count EXCEPT !.started = @ + Len(Batch), !.latest = @ + Len(Batch)]
      BY <1>9, Zenon DEF SubmitLog
    <3>3. count' = [count EXCEPT !.started = k, !.latest = l]
      BY <3>1, <3>2
    <3> QED
      BY <1>0, <1>n, <2>1, <3>1, <3>3
  <2>6. m = Cardinality(Started(c))
    BY <1>1, <2>4, <2>5
  <2> QED
    BY <1>n, <2>6 DEF StartedCounts
<1>10. CASE WaitLogFail \/ GcDestroy
  <2>1. PICK i \in Ids, s \in {"log", "complete"}, t \in {"failed", "done"} : OneMove(i, s, t)
    BY <1>10, OneMoves, EndMoves DEF OneMove
  <2>2. s \in StartedStates /\ t \notin StartedStates
    BY DEF StartedStates, InsertedStates
  <2>3. i \in Ids /\ b[i].st \in StartedStates /\ c[i].st \notin StartedStates
    BY <1>n, <2>1, <2>2 DEF OneMove
  <2>4. \A j \in Ids : j # i => (b[j].st \in StartedStates <=> c[j].st \in StartedStates)
    BY <1>n, <2>1 DEF OneMove
  <2>5. Cardinality(Started(c)) = Cardinality(Started(b)) - 1
    BY <2>3, <2>4, StartedLess
  <2>6. m = n - 1
    <3>1. PICK k : k = count.started - 1
      OBVIOUS
    <3>2. count' = [count EXCEPT !.started = k]
      BY <1>10, <3>1 DEF WaitLogFail, GcDestroy
    <3> QED
      BY <1>0, <1>n, <3>1, <3>2
  <2>7. m = Cardinality(Started(c))
    BY <1>1, <2>5, <2>6
  <2> QED
    BY <1>n, <2>7 DEF StartedCounts
<1>11. CASE \/ Dispatch \/ SubmitLogEmpty \/ WaitLogTake \/ WaitLogStop \/ WaitLogFreeze
            \/ WaitLogEnd \/ CancelMelt \/ WaitDataMelt \/ GcWakeup \/ GcTake \/ GcWritten \/ GcSub
            \/ Freeze \/ FreezeWait \/ Melt \/ UNCHANGED vars
  <2>1. biow' = biow /\ count'.started = count.started
    BY <1>11, QuietCounts
  <2> QED
    BY <1>2, <1>n, <2>1
<1>12. (\A len \in Lens : len \in Nat) /\ (\A len \in DiscardLens : len \in Nat)
  BY QueueAssumption DEF QueueAssumption
<1> QED
  BY <1>4, <1>5, <1>6, <1>7, <1>8, <1>9, <1>10, <1>11, <1>12, Zenon
     DEF Next, SubmitLogTask, WaitLogTask, SubmitDataTask, WaitDataTask, GcWorker

\* The write whose insertion is to be undone stays as it is while the wait task is there.
LEMMA UndoneKept ==
  ASSUME PlacesInv, wl' = wl, \A j \in Ids : biow[j].st = "log" => biow'[j].len = biow[j].len
  PROVE  Undone(biow', wl') = Undone(biow, wl)
<1>1. CASE wl.pc = "undo"
  <2>1. wl.todo # <<>>
    BY <1>1 DEF PlacesInv, Tasks
  <2>2. Head(wl.todo) \in Ids /\ biow[Head(wl.todo)].st = "log"
    BY <1>1, <2>1, Heads DEF Past
  <2> QED
    BY <1>1, <2>2 DEF Undone
<1>2. CASE wl.pc # "undo"
  BY <1>2 DEF Undone
<1> QED
  BY <1>1, <1>2

\* A write moves on that was not inserted and is not, or that was and is.
LEMMA MoveKeepsSectors ==
  ASSUME NEW i, NEW s, NEW t, OneMove(i, s, t),
         (s \notin InsertedStates /\ t \notin InsertedStates)
           \/ (s \in InsertedStates /\ t \in InsertedStates /\ SameSize(i))
  PROVE  /\ \A j \in Ids : SectorsStay(biow, biow', j)
         /\ s # "log" => \A j \in Ids : biow[j].st = "log" => biow'[j].len = biow[j].len
BY DEF OneMove, SameSize, SectorsStay

\* pending_sectors counts the sectors of the writes that are inserted.
LEMMA PendingCountsStep ==
  ASSUME PlacesInv, PendingCounts, [Next]_vars
  PROVE  PendingCounts'
<1>0. /\ biow \in [Ids -> Biows]
      /\ wl \in [pc : {"idle", "next", "undo", "stop", "freeze", "answer"}, pack : Packs,
                 todo : Seq(Ids), failed : BOOLEAN]
  BY DEF PlacesInv, TypeInv
<1>n. PICK b, c, p, q, u, v : /\ b = biow /\ c = biow' /\ p = pending /\ q = pending'
                              /\ u = Undone(biow, wl) /\ v = Undone(biow', wl')
  OBVIOUS
<1>1. /\ IsFiniteSet(SectorsOf(b)) /\ Cardinality(SectorsOf(b)) \in Nat
      /\ p = u + Cardinality(SectorsOf(b))
  <2>1. IsFiniteSet(SectorsOf(b)) /\ p = u + Cardinality(SectorsOf(b))
    BY <1>n DEF PendingCounts
  <2> QED
    BY <2>1, FS_CardinalityType
<1>2. ASSUME q = p, v = u, \A j \in Ids : SectorsStay(b, c, j) PROVE PendingCounts'
  <2>1. SectorsOf(c) = SectorsOf(b)
    BY <1>2, SectorsSame
  <2> QED
    BY <1>1, <1>2, <1>n, <2>1 DEF PendingCounts
<1>3. ASSUME NEW i, NEW s, NEW t, OneMove(i, s, t),
             (s \notin InsertedStates /\ t \notin InsertedStates)
               \/ (s \in InsertedStates /\ t \in InsertedStates /\ SameSize(i)),
             pending' = pending, wl' = wl, s # "log"
      PROVE  PendingCounts'
  <2>1. /\ \A j \in Ids : SectorsStay(b, c, j)
        /\ \A j \in Ids : biow[j].st = "log" => biow'[j].len = biow[j].len
    BY <1>3, <1>n, MoveKeepsSectors
  <2>2. v = u
    BY <1>3, <1>n, <2>1, UndoneKept
  <2> QED
    BY <1>2, <1>3, <1>n, <2>1, <2>2
<1>4. CASE \E i \in Ids, len \in Nat, discard \in BOOLEAN : MakeWrite(i, len, discard)
  <2>1. PICK i \in Ids, s \in {"queued", "failed"} : OneMove(i, "none", s)
    BY <1>4, ManyMoves
  <2>2. pending' = pending /\ wl' = wl
    BY <1>4 DEF MakeWrite
  <2>3. "none" \notin InsertedStates /\ s \notin InsertedStates
    BY DEF InsertedStates
  <2> QED
    BY <1>3, <2>1, <2>2, <2>3
<1>5. CASE \E i \in Ids, error \in BOOLEAN : DdevWrite(i, error)
  <2>1. PICK i \in Ids : OneMove(i, "waiting", "written") /\ SameSize(i)
    BY <1>5, EndMoves
  <2>2. pending' = pending /\ wl' = wl
    BY <1>5 DEF DdevWrite
  <2>3. "waiting" \in InsertedStates /\ "written" \in InsertedStates
    BY DEF InsertedStates
  <2> QED
    BY <1>3, <2>1, <2>2, <2>3
<1>6. CASE WaitDataClear \/ CancelComplete \/ GcDestroy
  <2>1. PICK i \in Ids, s \in {"deleted", "cancelled", "complete"}, t \in {"complete", "done"} : OneMove(i, s, t)
    BY <1>6, OneMoves, EndMoves DEF OneMove
  <2>2. pending' = pending /\ wl' = wl
    BY <1>6 DEF WaitDataClear, WaitDataVars, CancelComplete, GcDestroy, GcVars
  <2>3. s \notin InsertedStates /\ t \notin InsertedStates
    BY DEF InsertedStates
  <2> QED
    BY <1>3, <2>1, <2>2, <2>3
<1>7. CASE WaitLogAnswer \/ WaitLogFail
  <2>1. PICK i \in Ids : OneMove(i, "log", "failed")
                         \/ (OneMove(i, "inserted", "answered") /\ SameSize(i))
    BY <1>7, OneMoves DEF OneMove
  <2>2. \A j \in Ids : SectorsStay(b, c, j)
    <3>1. "log" \notin InsertedStates /\ "failed" \notin InsertedStates
          /\ "inserted" \in InsertedStates /\ "answered" \in InsertedStates
      BY DEF InsertedStates
    <3> QED
      BY <1>n, <2>1, <3>1, MoveKeepsSectors
  <2>3. pending' = pending /\ wl.pc # "undo" /\ wl'.pc # "undo"
    BY <1>0, <1>7 DEF WaitLogAnswer, WaitLogFail
  <2>4. v = u
    BY <1>n, <2>3 DEF Undone
  <2> QED
    BY <1>2, <1>n, <2>2, <2>3, <2>4
<1>8. CASE SubmitLogReadOnly \/ SubmitLog \/ SubmitDataTake
  <2>1. pending' = pending /\ wl' = wl
    BY <1>8, Zenon DEF SubmitLogReadOnly, SubmitLog, SubmitDataTake
  <2>2. \A j \in Ids : \/ c[j] = b[j]
                       \/ b[j].st = "queued" /\ c[j].st \in {"failed", "log"}
                       \/ /\ b[j].st = "answered" /\ c[j].st = "waiting"
                          /\ c[j].len = b[j].len /\ c[j].discard = b[j].discard
    BY <1>8, <1>n, ManyMoves DEF SameSize
  <2>3. /\ \A j \in Ids : SectorsStay(b, c, j)
        /\ \A j \in Ids : b[j].st = "log" => c[j].len = b[j].len
    BY <2>2 DEF SectorsStay, InsertedStates
  <2>4. v = u
    BY <1>n, <2>1, <2>3, UndoneKept
  <2> QED
    BY <1>2, <1>n, <2>1, <2>3, <2>4
<1>9. CASE WaitLogInsertNoMem \/ WaitLogUndo
  <2>1. PICK n : n = biow[Head(wl.todo)].len
    OBVIOUS
  <2>2. wl.todo # <<>>
    BY <1>9 DEF PlacesInv, Tasks, WaitLogInsertNoMem, WaitLogUndo
  <2>3. n \in Nat
    BY <1>0, <2>1, <2>2, Heads DEF Biows
  <2>4. c = b /\ wl'.todo = wl.todo
    BY <1>0, <1>9, <1>n DEF WaitLogInsertNoMem, WaitLogUndo
  <2>5. SectorsOf(c) = SectorsOf(b)
    BY <2>4
  <2>6. q = v + Cardinality(SectorsOf(b))
    <3>1. CASE WaitLogInsertNoMem
      <4>1. wl.pc = "next" /\ wl'.pc = "undo" /\ q = p + n
        BY <1>0, <1>n, <2>1, <3>1 DEF WaitLogInsertNoMem
      <4>2. u = 0 /\ v = n
        BY <1>n, <2>1, <2>4, <4>1 DEF Undone
      <4> QED
        BY <1>1, <2>3, <4>1, <4>2
    <3>2. CASE WaitLogUndo
      <4>1. wl.pc = "undo" /\ wl'.pc = "next" /\ q = p - n
        BY <1>0, <1>n, <2>1, <3>2 DEF WaitLogUndo
      <4>2. u = n /\ v = 0
        BY <1>n, <2>1, <4>1 DEF Undone
      <4> QED
        BY <1>1, <2>3, <4>1, <4>2
    <3> QED
      BY <1>9, <3>1, <3>2
  <2> QED
    BY <1>1, <1>n, <2>5, <2>6 DEF PendingCounts
<1>10. CASE WaitLogInsert
  <2>1. PICK i, n : i = Head(wl.todo) /\ n = Weight(i)
    OBVIOUS
  <2>2. OneMove(i, "log", "inserted") /\ SameSize(i)
    BY <1>10, <2>1, OneMoves
  <2>3. i \in Ids /\ b[i].st \notin InsertedStates /\ c[i].st \in InsertedStates
    BY <1>n, <2>2 DEF OneMove, InsertedStates
  <2>4. \A j \in Ids : j # i => SectorsStay(b, c, j)
    BY <1>n, <2>2 DEF OneMove, SectorsStay
  <2>5. n = WeightIn(c, i) /\ n \in Nat
    BY <1>0, <1>n, <2>1, <2>2, <2>3 DEF SameSize, Weight, WeightIn, Biows
  <2>6. IsFiniteSet(SectorsOf(c)) /\ Cardinality(SectorsOf(c)) = Cardinality(SectorsOf(b)) + n
    BY <1>1, <2>3, <2>4, <2>5, SectorsMore
  <2>7. wl.pc = "next" /\ wl'.pc # "undo" /\ q = p + n
    BY <1>0, <1>10, <1>n, <2>1 DEF WaitLogInsert
  <2>8. u = 0 /\ v = 0
    BY <1>n, <2>7 DEF Undone
  <2>9. q = v + Cardinality(SectorsOf(c))
    BY <1>1, <2>5, <2>6, <2>7, <2>8
  <2> QED
    BY <1>n, <2>6, <2>9 DEF PendingCounts
<1>11. CASE WaitDataDelete \/ CancelDelete
  <2>0. PICK i \in Ids : /\ \E s \in {"written", "answered"}, t \in {"deleted", "cancelled", "complete"} :
                                OneMove(i, s, t) /\ SameSize(i)
                         /\ q = p - Weight(i)
    <3>1. CASE WaitDataDelete
      <4>1. \E t \in {"deleted", "complete"} :
              OneMove(Head(queue.wait), "written", t) /\ SameSize(Head(queue.wait))
        BY <3>1, OneMoves
      <4>2. Head(queue.wait) \in Ids
        BY <4>1 DEF OneMove
      <4>3. q = p - Weight(Head(queue.wait))
        BY <1>n, <3>1 DEF WaitDataDelete, DeletePending
      <4> QED
        BY <4>1, <4>2, <4>3
    <3>2. CASE CancelDelete
      <4>1. \E t \in {"cancelled", "complete"} :
              OneMove(Head(sd), "answered", t) /\ SameSize(Head(sd))
        BY <3>2, OneMoves
      <4>2. Head(sd) \in Ids
        BY <4>1 DEF OneMove
      <4>3. q = p - Weight(Head(sd))
        BY <1>n, <3>2 DEF CancelDelete, DeletePending
      <4> QED
        BY <4>1, <4>2, <4>3
    <3> QED
      BY <1>11, <3>1, <3>2
  <2>1. PICK n : n = Weight(i) /\ q = p - n
    BY <2>0
  <2>2. PICK s \in {"written", "answered"}, t \in {"deleted", "cancelled", "complete"} :
          OneMove(i, s, t) /\ SameSize(i)
    BY <2>0
  <2>3. b[i].st \in InsertedStates /\ c[i].st \notin InsertedStates
    BY <1>n, <2>2 DEF OneMove, InsertedStates
  <2>4. \A j \in Ids : j # i => SectorsStay(c, b, j)
    BY <1>n, <2>2 DEF OneMove, SectorsStay
  <2>5. n = WeightIn(b, i) /\ n \in Nat
    BY <1>0, <1>n, <2>1 DEF Weight, WeightIn, Biows
  <2>6. /\ IsFiniteSet(SectorsOf(c)) /\ Cardinality(SectorsOf(c)) \in Nat
        /\ Cardinality(SectorsOf(b)) = Cardinality(SectorsOf(c)) + n
    BY <1>1, <2>3, <2>4, <2>5, SectorsMore
  <2>7. \A j \in Ids : biow[j].st = "log" => biow'[j].len = biow[j].len
    BY <2>2 DEF OneMove, SameSize
  <2>8. wl' = wl
    BY <1>11 DEF WaitDataDelete, WaitDataVars, CancelDelete
  <2>9. v = u /\ u \in Nat
    <3>1. v = u
      BY <1>n, <2>7, <2>8, UndoneKept
    <3>2. u \in Nat
      <4>1. CASE wl.pc = "undo"
        <5>1. wl.todo # <<>>
          BY <4>1 DEF PlacesInv, Tasks
        <5>2. Head(wl.todo) \in Ids
          BY <5>1, Heads
        <5>3. biow[Head(wl.todo)].len \in Nat
          BY <1>0, <5>2 DEF Biows
        <5> QED
          BY <1>n, <4>1, <5>3 DEF Undone
      <4>2. CASE wl.pc # "undo"
        BY <1>n, <4>2 DEF Undone
      <4> QED
        BY <4>1, <4>2
    <3> QED
      BY <3>1, <3>2
  <2>10. q = v + Cardinality(SectorsOf(c))
    BY <1>1, <2>1, <2>5, <2>6, <2>9
  <2> QED
    BY <1>n, <2>6, <2>10 DEF PendingCounts
<1>12. CASE \/ Dispatch \/ SubmitLogEmpty \/ WaitLogTake \/ WaitLogStop \/ WaitLogFreeze
            \/ WaitLogEnd \/ CancelMelt \/ WaitDataMelt \/ GcWakeup \/ GcTake \/ GcWritten \/ GcSub
            \/ Freeze \/ FreezeWait \/ Melt \/ UNCHANGED vars
  <2>1. biow' = biow /\ pending' = pending /\ Undone(biow', wl') = Undone(biow, wl)
    BY <1>12, QuietCounts
  <2>2. \A j \in Ids : SectorsStay(b, c, j)
    BY <1>n, <2>1 DEF SectorsStay
  <2> QED
    BY <1>2, <1>n, <2>1, <2>2
<1>13. (\A len \in Lens : len \in Nat) /\ (\A len \in DiscardLens : len \in Nat)
  BY QueueAssumption DEF QueueAssumption
<1> QED
  BY <1>4, <1>5, <1>6, <1>7, <1>8, <1>9, <1>10, <1>11, <1>12, <1>13, Zenon
     DEF Next, SubmitLogTask, WaitLogTask, SubmitDataTask, WaitDataTask, GcWorker

\* While the user keeps the queue frozen the submit queue gets no write.
LEMMA FrozenKept ==
  ASSUME PlacesInv, [Next]_vars, ~Freeze, ~FreezeWait, ~Melt
  PROVE  /\ fz' = fz /\ frozen'.usr = frozen.usr /\ (readOnly => readOnly')
         /\ frozen.usr /\ queue.submit = <<>> => queue'.submit = <<>>
<1>0. TypeInv
  BY DEF PlacesInv
<1>q. queue \in [frozen : Seq(Ids), submit : Seq(Ids), log : Seq(Packs), data : Seq(Ids),
                 wait : Seq(Ids), gc : Seq(Packs)]
  BY <1>0 DEF TypeInv
<1>f. frozen \in [sys : BOOLEAN, usr : BOOLEAN, stopped : BOOLEAN]
  BY <1>0 DEF TypeInv
<1> DEFINE Kept == /\ fz' = fz /\ frozen'.usr = frozen.usr /\ (readOnly => readOnly')
                   /\ frozen.usr /\ queue.submit = <<>> => queue'.submit = <<>>
<1>1. ASSUME NEW i \in Ids, NEW len, NEW discard, MakeWrite(i, len, discard) PROVE Kept
  <2>1. UNCHANGED <<fz, frozen, readOnly>> /\ (queue' = queue \/ queue' = Push(i))
    BY <1>1 DEF MakeWrite
  <2>2. frozen.usr => queue'.submit = queue.submit
    BY <1>0, <2>1, PushFields
  <2> QED
    BY <2>1, <2>2
<1>2. ASSUME \/ \E i \in Ids, error \in BOOLEAN : DdevWrite(i, error)
             \/ Dispatch \/ SubmitLogEmpty \/ UNCHANGED vars
      PROVE  Kept
  <2>1. UNCHANGED <<fz, frozen, readOnly, queue>>
    BY <1>2 DEF DdevWrite, Dispatch, DispatchOk, DispatchNoMem, DispatchRetry, DispatchVars,
                SubmitLogEmpty, vars
  <2> QED
    BY <2>1
<1>3. ASSUME SubmitLogReadOnly \/ SubmitLog PROVE Kept
  <2>1. UNCHANGED <<fz, frozen, readOnly>> /\ queue.submit # <<>>
    BY <1>3, Zenon DEF SubmitLogReadOnly, SubmitLog
  <2> QED
    BY <2>1
<1>4. ASSUME SubmitDataTake PROVE Kept
  <2>1. PICK s : s = IF readOnly THEN queue.wait ELSE queue.wait \o queue.data
    OBVIOUS
  <2>2. UNCHANGED <<fz, frozen, readOnly>> /\ queue' = [queue EXCEPT !.data = <<>>, !.wait = s]
    BY <1>4, <2>1 DEF SubmitDataTake
  <2>3. queue'.submit = queue.submit
    BY <1>q, <2>2
  <2> QED
    BY <2>2, <2>3
<1>5. ASSUME WaitLogTask PROVE Kept
  <2>1. UNCHANGED <<fz, readOnly>>
    BY <1>5 DEF WaitLogTask, WaitLogTake, WaitLogFail, WaitLogInsert, WaitLogInsertNoMem,
                WaitLogUndo, WaitLogStop, WaitLogFreeze, WaitLogAnswer, WaitLogEnd, WaitLogVars
  <2>2. frozen'.usr = frozen.usr
    <3>1. frozen' = frozen \/ frozen' = [frozen EXCEPT !.stopped = TRUE]
          \/ frozen' = [frozen EXCEPT !.sys = TRUE]
      BY <1>5 DEF WaitLogTask, WaitLogTake, WaitLogFail, WaitLogInsert, WaitLogInsertNoMem,
                  WaitLogUndo, WaitLogStop, WaitLogFreeze, WaitLogAnswer, WaitLogEnd, WaitLogVars
    <3> QED
      BY <1>f, <3>1
  <2>3. queue'.submit = queue.submit
    <3>1. PICK s : \/ queue' = queue \/ queue' = [queue EXCEPT !.log = s]
                   \/ queue' = [queue EXCEPT !.data = s] \/ queue' = [queue EXCEPT !.gc = s]
      <4>1. CASE WaitLogTake \/ WaitLogAnswer \/ WaitLogEnd
        BY <4>1 DEF WaitLogTake, WaitLogAnswer, WaitLogEnd
      <4>2. CASE WaitLogFail \/ WaitLogInsert \/ WaitLogInsertNoMem \/ WaitLogUndo
                 \/ WaitLogStop \/ WaitLogFreeze
        BY <4>2 DEF WaitLogFail, WaitLogInsert, WaitLogInsertNoMem, WaitLogUndo, WaitLogStop,
                    WaitLogFreeze
      <4> QED
        BY <1>5, <4>1, <4>2 DEF WaitLogTask
    <3> QED
      BY <1>q, <3>1
  <2> QED
    BY <2>1, <2>2, <2>3
<1>6. ASSUME CancelDelete \/ CancelMelt \/ CancelComplete \/ WaitDataMelt PROVE Kept
  <2>1. /\ UNCHANGED <<fz, readOnly>>
        /\ \/ UNCHANGED <<queue, frozen>>
           \/ queue' = Melted(FALSE).queue /\ frozen' = Melted(FALSE).frozen
    BY <1>6 DEF CancelDelete, CancelMelt, CancelComplete, WaitDataMelt, WaitDataVars
  <2>2. frozen'.usr = frozen.usr /\ (frozen.usr => queue' = queue)
    BY <1>0, <2>1, MeltedFields
  <2> QED
    BY <2>1, <2>2
<1>7. ASSUME WaitDataDelete \/ WaitDataClear PROVE Kept
  <2>1. PICK s : /\ UNCHANGED <<fz, readOnly>>
                 /\ queue' = queue \/ queue' = [queue EXCEPT !.wait = s]
                 /\ frozen' = frozen \/ frozen' = [frozen EXCEPT !.stopped = FALSE]
    BY <1>7 DEF WaitDataDelete, WaitDataClear, WaitDataVars
  <2>2. queue'.submit = queue.submit /\ frozen'.usr = frozen.usr
    BY <1>q, <1>f, <2>1
  <2> QED
    BY <2>1, <2>2
<1>8. ASSUME GcWorker PROVE Kept
  <2>0. GcDestroy \/ (readOnly' = readOnly)
    BY <1>8 DEF GcWorker, GcWakeup, GcTake, GcWritten, GcSub
  <2>1. UNCHANGED <<fz, frozen>> /\ (queue' = queue \/ queue' = [queue EXCEPT !.gc = <<>>])
    BY <1>8 DEF GcWorker, GcWakeup, GcTake, GcDestroy, GcWritten, GcSub, GcVars
  <2>2. queue'.submit = queue.submit
    BY <1>q, <2>1
  <2>3. readOnly => readOnly'
    <3>1. CASE GcDestroy
      <4>1. PICK i \in GcLeft : readOnly' = (readOnly \/ biow[i].error)
        BY <3>1 DEF GcDestroy
      <4>2. i \in Ids
        BY <1>0, GcLeftAt
      <4> QED
        BY <1>0, <4>1, <4>2 DEF TypeInv, Biows
    <3>2. CASE readOnly' = readOnly
      BY <3>2
    <3> QED
      BY <2>0, <3>1, <3>2, Zenon
  <2> QED
    BY <2>1, <2>2, <2>3
<1> HIDE DEF Kept
<1>9. Kept
  BY <1>1, <1>2, <1>3, <1>4, <1>5, <1>6, <1>7, <1>8, Zenon
     DEF Next, SubmitLogTask, SubmitDataTask, WaitDataTask
<1> QED
  BY <1>9 DEF Kept

\* When no write is started, the log wait queue is empty and the wait task is at no write.
LEMMA NothingStarted ==
  ASSUME PlacesInv, Counts, count.started = 0
  PROVE  /\ \A i \in Ids : biow[i].st \notin StartedStates
         /\ queue.log = <<>> /\ wl.todo = <<>> /\ (wl.pc # "idle" => wl.failed)
         /\ SectorsOf(biow) = {} /\ Undone(biow, wl) = 0
<1>0. TypeInv /\ Tasks /\ Places
  BY DEF PlacesInv
<1>1. Started(biow) = {}
  <2>1. Cardinality(Started(biow)) = 0
    BY DEF Counts, StartedCounts
  <2> QED
    BY <2>1, StartedFinite, FS_EmptySet
<1>2. \A i \in Ids : biow[i].st \notin StartedStates
  BY <1>1 DEF Started
<1>3. queue.log = <<>>
  <2>1. SUFFICES ASSUME queue.log # <<>> PROVE FALSE
    OBVIOUS
  <2>2. PICK p : p = queue.log[1]
    OBVIOUS
  <2>3. 1 \in 1..Len(queue.log) /\ p \in Packs
    BY <1>0, <2>1, <2>2, TailFacts DEF TypeInv
  <2>4. p.ids # <<>> /\ p.ids \in Seq(Ids)
    BY <1>0, <2>2, <2>3 DEF Places, InLog, Packs
  <2>5. Head(p.ids) \in Ids /\ At(Head(p.ids), p.ids)
    BY <2>4, TailFacts, TailAt
  <2>6. AtPacks(Head(p.ids), queue.log)
    BY <2>2, <2>3, <2>5 DEF AtPacks
  <2>7. biow[Head(p.ids)].st = "log"
    BY <1>0, <2>5, <2>6 DEF Places, InLog
  <2> QED
    BY <1>2, <2>5, <2>7 DEF StartedStates
<1>4. wl.todo = <<>>
  <2>1. wl.todo # <<>> => Head(wl.todo) \in Ids /\ biow[Head(wl.todo)].st \in {"inserted", "log"}
    BY Heads
  <2> QED
    BY <1>2, <2>1 DEF StartedStates, InsertedStates
<1>5. wl.pc # "idle" => wl.failed
  <2>1. SUFFICES ASSUME wl.pc # "idle", ~wl.failed PROVE FALSE
    OBVIOUS
  <2>2. wl.pack.ids # <<>> /\ wl.pack.ids \in Seq(Ids)
    BY <1>0, <2>1 DEF Tasks, TypeInv, Packs
  <2>3. Head(wl.pack.ids) \in Ids /\ At(Head(wl.pack.ids), wl.pack.ids)
    BY <2>2, TailFacts, TailAt
  <2>4. biow[Head(wl.pack.ids)].st \in StartedStates
    BY <1>0, <2>3 DEF Places, InPack, LoggedStates
  <2> QED
    BY <1>2, <2>3, <2>4
<1>6. SectorsOf(biow) = {}
  <2>1. \A i \in Ids : biow[i].st \notin InsertedStates
    BY <1>2 DEF StartedStates
  <2>2. \A e : e \notin SectorsOf(biow)
    BY <2>1, InSectors
  <2> QED
    BY <2>2
<1>7. Undone(biow, wl) = 0
  BY <1>0, <1>4 DEF Undone, Tasks
<1> QED
  BY <1>2, <1>3, <1>4, <1>5, <1>6, <1>7

\* Only the submission to the log and the end of a write change n_started_write_bio.
LEMMA StartedStays ==
  ASSUME PlacesInv, [Next]_vars, ~SubmitLog, ~WaitLogFail, ~GcDestroy
  PROVE  count'.started = count.started
<1>1. ASSUME NEW i \in Ids, NEW len, NEW discard, MakeWrite(i, len, discard)
      PROVE  count'.started = count.started
  BY <1>1 DEF MakeWrite
<1>2. CASE \/ \E i \in Ids, error \in BOOLEAN : DdevWrite(i, error)
           \/ SubmitLogReadOnly \/ SubmitDataTake \/ CancelDelete \/ CancelComplete
           \/ WaitDataDelete \/ WaitDataClear
           \/ WaitLogInsert \/ WaitLogInsertNoMem \/ WaitLogUndo \/ WaitLogAnswer
  <2>1. count' = count
    BY <1>2 DEF DdevWrite, SubmitLogReadOnly, SubmitDataTake, CancelDelete, CancelComplete, WaitDataDelete,
                WaitDataClear, WaitDataVars, WaitLogInsert, WaitLogInsertNoMem, WaitLogUndo,
                WaitLogAnswer
  <2> QED
    BY <2>1
<1>3. CASE \/ Dispatch \/ SubmitLogEmpty \/ WaitLogTake \/ WaitLogStop \/ WaitLogFreeze
           \/ WaitLogEnd \/ CancelMelt \/ WaitDataMelt \/ GcWakeup \/ GcTake \/ GcWritten \/ GcSub
           \/ Freeze \/ FreezeWait \/ Melt \/ UNCHANGED vars
  BY <1>3, QuietCounts
<1> QED
  BY <1>1, <1>2, <1>3, Zenon DEF Next, SubmitLogTask, WaitLogTask, SubmitDataTask, WaitDataTask, GcWorker

\* iocore_freeze returns when nothing is on its way, and nothing starts before the melt.
LEMMA FreezingStep ==
  ASSUME PlacesInv, Counts, Freezing, [Next]_vars
  PROVE  Freezing'
<1>0. TypeInv /\ Tasks /\ Places
  BY DEF PlacesInv
<1>1. CASE Freeze
  <2>1. fz' = "queue" /\ frozen' = [frozen EXCEPT !.usr = TRUE]
    BY <1>1 DEF Freeze
  <2>2. frozen'.usr
    BY <1>0, <2>1 DEF TypeInv
  <2> QED
    BY <2>1, <2>2 DEF Freezing
<1>2. CASE FreezeWait
  <2>1. UNCHANGED <<queue, frozen, count, wl, readOnly>>
    BY <1>2 DEF FreezeWait, FreezeVars
  <2>2. \/ fz = "queue" /\ queue.submit = <<>> /\ fz' = "started"
        \/ fz = "started" /\ count.started = 0 /\ fz' = "gc"
        \/ fz = "gc" /\ count.gc = 0 /\ fz' = "frozen"
    BY <1>2 DEF FreezeWait
  <2>3. CASE fz = "gc" /\ count.gc = 0 /\ fz' = "frozen"
    <3>1. frozen.usr /\ queue.submit = <<>> /\ count.started = 0
      BY <2>3 DEF Freezing
    <3>2. queue.log = <<>> /\ (wl.pc # "idle" => wl.failed)
      BY <3>1, NothingStarted
    <3>3. ~readOnly => wl.pc = "idle"
      BY <1>0, <3>2 DEF Tasks
    <3> QED
      BY <2>1, <2>3, <3>1, <3>2, <3>3 DEF Freezing
  <2>4. CASE fz = "queue" /\ queue.submit = <<>> /\ fz' = "started"
    BY <2>1, <2>4 DEF Freezing
  <2>5. CASE fz = "started" /\ count.started = 0 /\ fz' = "gc"
    BY <2>1, <2>5 DEF Freezing
  <2> QED
    BY <2>2, <2>3, <2>4, <2>5
<1>3. CASE Melt
  BY <1>3 DEF Melt, Freezing
<1>4. CASE ~Freeze /\ ~FreezeWait /\ ~Melt
  <2>1. /\ fz' = fz /\ frozen'.usr = frozen.usr /\ (readOnly => readOnly')
        /\ frozen.usr /\ queue.submit = <<>> => queue'.submit = <<>>
    BY <1>4, FrozenKept
  <2>2. fz' # "melted" => frozen'.usr
    BY <2>1 DEF Freezing
  <2>3. fz' \in {"started", "gc", "frozen"} => queue'.submit = <<>>
    BY <2>1 DEF Freezing
  <2>4. ASSUME fz \in {"gc", "frozen"} PROVE count'.started = 0 /\ ~SubmitLog
    <3>1. count.started = 0 /\ queue.submit = <<>>
      BY <2>4 DEF Freezing
    <3>2. ~SubmitLog
      BY <3>1, Zenon DEF SubmitLog
    <3>3. \A i \in Ids : biow[i].st \notin StartedStates
      BY <3>1, NothingStarted
    <3>4. ~WaitLogFail /\ ~GcDestroy
      <4>1. \A i, t : ~OneMove(i, "log", t) /\ ~OneMove(i, "complete", t)
        BY <3>3 DEF OneMove, StartedStates
      <4> QED
        BY <4>1, OneMoves, EndMoves
    <3> QED
      BY <3>1, <3>2, <3>4, StartedStays
  <2>5. ASSUME fz = "frozen", ~readOnly
        PROVE  wl'.pc = "idle" /\ queue'.log = <<>> /\ count'.gc = 0
    <3>1. wl.pc = "idle" /\ queue.log = <<>> /\ count.gc = 0 /\ ~SubmitLog
      BY <2>4, <2>5 DEF Freezing
    <3>2. ~WaitLogTake /\ ~WaitLogEnd
      BY <3>1, PackSteps
    <3>3. ~GcSub
      <4>1. SUFFICES ASSUME GcSub PROVE FALSE
        OBVIOUS
      <4>2. PICK p, q : p = Len(queue.gc) /\ q = Len(gc.packs)
        OBVIOUS
      <4>3. gc.packs # <<>>
        BY <4>1, PackSteps
      <4>4. p \in Nat /\ q \in Nat \ {0}
        BY <1>0, <4>2, <4>3, LenProperties, EmptySeq DEF TypeInv
      <4>5. p + q = 0
        BY <3>1, <4>2 DEF Counts, GcCounts
      <4> QED
        BY <4>4, <4>5
    <3>4. CASE GcTake \/ GcWritten
      BY <3>1, <3>4, PackSteps
    <3>5. CASE ~GcTake /\ ~GcWritten
      BY <3>1, <3>2, <3>3, <3>5, PacksKept
    <3> QED
      BY <3>4, <3>5
  <2> QED
    BY <2>1, <2>2, <2>3, <2>4, <2>5 DEF Freezing
<1> QED
  BY <1>1, <1>2, <1>3, <1>4

-----------------------------------------------------------------------------
\* The invariant of the theorems on the counters and the freeze.
CountsInv == PlacesInv /\ Counts /\ Ends /\ Freezing

\* It holds at the start,
LEMMA CountsInit ==
  ASSUME Init
  PROVE  CountsInv
<1>1. PlacesInv
  BY PlacesInit
<1>2. \A i \in Ids : biow[i].st = "none"
  BY DEF Init, NoBiow
<1>3. SectorsOf(biow) = {}
  <2>1. \A i \in Ids : biow[i].st \notin InsertedStates
    BY <1>2 DEF InsertedStates
  <2>2. \A e : e \notin SectorsOf(biow)
    BY <2>1, InSectors
  <2> QED
    BY <2>2
<1>4. Started(biow) = {}
  BY <1>2 DEF Started, StartedStates, InsertedStates
<1>5. IsFiniteSet({}) /\ Cardinality({}) = 0
  BY FS_EmptySet
<1>6. /\ pending = 0 /\ count.started = 0 /\ count.gc = 0 /\ count.latest = 0
      /\ count.written = 0 /\ wl.pc = "idle" /\ queue.gc = <<>> /\ queue.log = <<>>
      /\ queue.submit = <<>> /\ gc.packs = <<>> /\ gc.pc = "idle" /\ fz = "melted"
  BY DEF Init
<1>7. PendingCounts
  BY <1>3, <1>5, <1>6 DEF PendingCounts, Undone
<1>8. StartedCounts
  BY <1>4, <1>5, <1>6 DEF StartedCounts
<1>9. GcCounts
  BY <1>6 DEF GcCounts
<1>10. Ends /\ Freezing
  BY <1>6 DEF Ends, Freezing
<1> QED
  BY <1>1, <1>7, <1>8, <1>9, <1>10 DEF CountsInv, Counts

\* and every step preserves it.
LEMMA CountsInvariant == Spec => []CountsInv
<1>1. Init => CountsInv
  BY CountsInit
<1>2. CountsInv /\ [Next]_vars => CountsInv'
  BY PlacesStep, PendingCountsStep, StartedCountsStep, GcCountsStep, EndsStep, FreezingStep
     DEF CountsInv, Counts
<1> QED
  BY <1>1, <1>2, PTL DEF Spec

\* pending_sectors is exact: whatever fails and whoever is where, it is the weight of the
\* writes that are in pending_data, and of the one whose insertion is to be undone.
THEOREM PendingExactThm == Spec => []PendingExact
<1>1. CountsInv => PendingExact
  <2>1. SUFFICES ASSUME CountsInv PROVE PendingExact
    OBVIOUS
  <2>2. SectorsOf(biow) = PendingSectors
    BY DEF SectorsOf, PendingSectors, Weight, Inserted, InsertedStates
  <2>3. pending = Undone(biow, wl) + Cardinality(SectorsOf(biow))
    BY <2>1 DEF CountsInv, Counts, PendingCounts
  <2> QED
    BY <2>2, <2>3 DEF PendingExact, Undone
<1> QED
  BY <1>1, CountsInvariant, PTL

\* iocore_freeze returns with nothing between the submit queue and the gc, and so it stays
\* until iocore_melt: no write, no sector, and no lsid that is not written.
THEOREM FrozenQuietThm == Spec => []FrozenQuiet
<1>1. CountsInv => FrozenQuiet
  <2>1. SUFFICES ASSUME CountsInv, fz = "frozen"
                 PROVE  /\ \A i \in Ids : biow[i].st \in {"none", "queued", "done", "failed"}
                        /\ queue.submit = <<>> /\ pending = 0
                        /\ ~readOnly => count.latest = count.written
    BY DEF FrozenQuiet
  <2>2. PlacesInv /\ Counts /\ Ends /\ Freezing
    BY <2>1 DEF CountsInv
  <2>3. queue.submit = <<>> /\ count.started = 0
    BY <2>1, <2>2 DEF Freezing
  <2>4. /\ \A i \in Ids : biow[i].st \notin StartedStates
        /\ SectorsOf(biow) = {} /\ Undone(biow, wl) = 0
    BY <2>2, <2>3, NothingStarted
  <2>5. \A i \in Ids : biow[i].st \in {"none", "queued", "done", "failed"}
    <3>1. biow \in [Ids -> Biows]
      BY <2>2 DEF PlacesInv, TypeInv
    <3>2. \A i \in Ids : biow[i].st \in States
      BY <3>1 DEF Biows
    <3> QED
      BY <2>4, <3>2 DEF States
  <2>6. pending = 0
    <3>1. Cardinality({}) = 0
      BY FS_EmptySet
    <3>2. pending = 0 + Cardinality({})
      BY <2>2, <2>4 DEF Counts, PendingCounts
    <3> QED
      BY <3>1, <3>2
  <2>7. ASSUME ~readOnly PROVE count.latest = count.written
    <3>1. wl.pc = "idle" /\ queue.log = <<>> /\ count.gc = 0
      BY <2>1, <2>2, <2>7 DEF Freezing
    <3>2. PICK p, q : p = Len(queue.gc) /\ q = Len(gc.packs)
      OBVIOUS
    <3>3. queue.gc \in Seq(Packs) /\ gc.packs \in Seq(Packs)
      BY <2>2 DEF PlacesInv, TypeInv
    <3>4. p \in Nat /\ q \in Nat /\ p + q = 0
      <4>1. p \in Nat /\ q \in Nat
        BY <3>2, <3>3, LenProperties
      <4>2. p + q = 0
        BY <2>2, <3>1, <3>2 DEF Counts, GcCounts
      <4> QED
        BY <4>1, <4>2
    <3>5. p = 0 /\ q = 0
      BY <3>4
    <3>6. queue.gc = <<>> /\ gc.packs = <<>>
      BY <3>2, <3>3, <3>5, EmptySeq
    <3> QED
      BY <2>2, <3>1, <3>6 DEF Ends
  <2> QED
    BY <2>3, <2>5, <2>6, <2>7
<1> QED
  BY <1>1, CountsInvariant, PTL
=============================================================================
