------------------------- MODULE WalbOverlapProofs -------------------------
(***************************************************************************)
(* Overlapped writes reach the data device in lsid order, for any number   *)
(* of bio wrappers, any positions and lengths, any n_io_bulk, and however  *)
(* often multimap_add fails.                                               *)
(***************************************************************************)
EXTENDS WalbOverlap, FiniteSetTheorems, TLAPS

\* The lists of the two tasks, as intervals.
Counters ==
  /\ waitedTo <= waitTo /\ waitTo <= insertedTo
  /\ insertedTo <= last /\ last <= Len(biows)
  /\ 1 <= first /\ first - 1 <= insertedTo
  /\ waitTo = first - 1 \/ waitTo = last

\* overlapped_data holds what was inserted and not yet deleted, and no entry is
\* longer than max_sectors_in_overlapped.
Multimap ==
  /\ overlapped = waitedTo + 1 .. insertedTo
  /\ \A i \in overlapped : biows[i].len <= maxSectors

\* What has been submitted, completed and waited for.
Progress ==
  /\ submitted \subseteq 1..insertedTo
  /\ shouldSubmit \subseteq overlapped
  /\ completed \subseteq submitted
  /\ 1..waitedTo \subseteq completed

\* Who still has to wait for somebody.
Waiting ==
  /\ \A i \in overlapped : i \notin delayed => nOverlapped[i] = 0
  /\ \A i \in submitted \cup shouldSubmit : nOverlapped[i] = 0
  /\ shouldSubmit \subseteq delayed
  /\ shouldSubmit \cap submitted = {}

\* The inductive invariant.
IInv ==
  /\ TypeOK
  /\ Counters
  /\ Multimap
  /\ Progress
  /\ Waiting
  /\ NOverlappedExact
  /\ OverlappedInOrder

-----------------------------------------------------------------------------
\* The entries of S before j that overlap j.
Earlier(j, S) == {i \in S : i < j /\ IsOverlap(biows[i], biows[j])}

\* The record of a write, field by field.
LEMMA BiowType ==
  ASSUME TypeOK
  PROVE  \A i \in Ids : /\ biows[i] \in Biow
                        /\ biows[i].pos \in Nat
                        /\ biows[i].len \in Nat \ {0}
                        /\ nOverlapped[i] \in Int
<1>1. \A i \in Ids : biows[i] \in Biow
  BY DEF TypeOK, Ids
<1>2. \A i \in Ids : nOverlapped[i] \in Int
  BY DEF TypeOK, Ids
<1>3. QED
  BY <1>1, <1>2 DEF Biow

\* The walk from StartPos(b) meets every entry of S that overlaps b, provided no
\* entry of S is longer than max_sectors_in_overlapped.
LEMMA WindowIsEnough ==
  ASSUME TypeOK, NEW b \in Biow, NEW S \in SUBSET Ids,
         \A i \in S : biows[i].len <= maxSectors
  PROVE  FoundBy(b, S) = {i \in S : IsOverlap(biows[i], b)}
<1>1. \A i \in S : biows[i].pos \in Nat /\ biows[i].len \in Nat \ {0}
  BY BiowType
<1>2. b.pos \in Nat /\ b.len \in Nat \ {0} /\ maxSectors \in Nat
  BY DEF TypeOK, Biow
<1>3. ASSUME NEW i \in S, IsOverlap(biows[i], b)
      PROVE  /\ StartPos(b) <= biows[i].pos
             /\ biows[i].pos < b.pos + b.len
             /\ IsOverlap(b, biows[i])
  BY <1>1, <1>2, <1>3 DEF StartPos, IsOverlap
<1>4. ASSUME NEW i \in S, IsOverlap(b, biows[i])
      PROVE  IsOverlap(biows[i], b)
  BY <1>4 DEF IsOverlap
<1>5. QED
  BY <1>3, <1>4 DEF FoundBy

\* An interval of integers and all of its subsets are finite.
LEMMA EarlierFinite ==
  ASSUME IInv, NEW j \in Ids
  PROVE  /\ IsFiniteSet(overlapped)
         /\ IsFiniteSet(Earlier(j, overlapped))
         /\ Cardinality(Earlier(j, overlapped)) \in Nat
<1>1. IsFiniteSet(overlapped)
  BY FS_Interval DEF IInv, Multimap, TypeOK
<1>2. IsFiniteSet(Earlier(j, overlapped))
  BY <1>1, FS_Subset DEF Earlier
<1>3. QED
  BY <1>1, <1>2, FS_CardinalityType

\* A bio wrapper in the multimap that waits for nobody has no earlier overlapping
\* entry there, so everything earlier that overlaps it is complete.
LEMMA NobodyEarlier ==
  ASSUME IInv, NEW j \in overlapped, nOverlapped[j] = 0
  PROVE  \A i \in Ids : (i < j /\ IsOverlap(biows[i], biows[j])) => i \in completed
<1>1. j \in Ids
  BY DEF IInv, TypeOK
<1>2. Cardinality(Earlier(j, overlapped)) = 0
  BY DEF IInv, NOverlappedExact, Earlier
<1>3. Earlier(j, overlapped) = {}
  BY <1>1, <1>2, EarlierFinite, FS_EmptySet
<1>4. SUFFICES ASSUME NEW i \in Ids, i < j, IsOverlap(biows[i], biows[j])
               PROVE  i \in completed
  OBVIOUS
<1>5. i \notin overlapped
  BY <1>3, <1>4 DEF Earlier
<1>6. i \in 1..waitedTo
  BY <1>4, <1>5 DEF IInv, TypeOK, Multimap, Ids
<1>7. QED
  BY <1>6 DEF IInv, Progress

\* IInv holds at the start.
LEMMA InitInv == Init => IInv
<1> SUFFICES ASSUME Init PROVE IInv
  OBVIOUS
<1>1. TypeOK
  BY DEF Init, TypeOK, Ids
<1>2. /\ Counters /\ Progress /\ Waiting /\ OverlappedInOrder /\ NOverlappedExact
  BY DEF Init, Counters, Progress, Waiting, OverlappedInOrder, NOverlappedExact, Ids
<1>3. Multimap
  BY DEF Init, Multimap
<1>4. QED
  BY <1>1, <1>2, <1>3 DEF IInv

-----------------------------------------------------------------------------
(* One lemma per action that disturbs more than a counter. *)

\* A new write keeps IInv.
LEMMA EnqueueInv ==
  ASSUME IInv, NEW p \in 0..MaxPos, NEW l \in 1..MaxLen, Enqueue(p, l)
  PROVE  IInv'
<1> USE OverlapAssumption
<1>1. /\ biows' \in Seq(Biow) /\ Len(biows') = Len(biows) + 1
      /\ nOverlapped' \in Seq(Int) /\ Len(nOverlapped') = Len(nOverlapped) + 1
  <2>1. [pos |-> p, len |-> l] \in Biow
    BY DEF Biow
  <2>2. QED
    BY <2>1 DEF IInv, TypeOK, Enqueue
<1>2. /\ Ids \subseteq Ids'
      /\ \A i \in Ids : biows'[i] = biows[i] /\ nOverlapped'[i] = nOverlapped[i]
  BY <1>1 DEF IInv, TypeOK, Enqueue, Ids
<1>3. TypeOK'
  BY <1>1, <1>2 DEF IInv, TypeOK, Enqueue
<1>4. Counters' /\ Progress'
  BY <1>1 DEF IInv, TypeOK, Counters, Progress, Enqueue
<1>5. overlapped \subseteq Ids /\ submitted \subseteq Ids /\ shouldSubmit \subseteq Ids
  BY DEF IInv, TypeOK
<1>6. Multimap' /\ Waiting'
  BY <1>2, <1>5 DEF IInv, Multimap, Waiting, Enqueue
<1>7. NOverlappedExact'
  <2> SUFFICES ASSUME NEW j \in overlapped
               PROVE  nOverlapped'[j] = Cardinality({i \in overlapped :
                                          i < j /\ IsOverlap(biows'[i], biows'[j])})
    BY DEF NOverlappedExact, Enqueue
  <2>1. {i \in overlapped : i < j /\ IsOverlap(biows'[i], biows'[j])}
          = {i \in overlapped : i < j /\ IsOverlap(biows[i], biows[j])}
    BY <1>2, <1>5
  <2>2. QED
    BY <1>2, <1>5, <2>1 DEF IInv, NOverlappedExact
<1>8. OverlappedInOrder'
  <2> SUFFICES ASSUME NEW i \in Ids', NEW j \in Ids', i < j,
                      IsOverlap(biows'[i], biows'[j]), j \in submitted
               PROVE  i \in completed
    BY DEF OverlappedInOrder, Enqueue
  <2>1. i \in Ids /\ j \in Ids
    BY <1>1, <1>5 DEF Ids, IInv, TypeOK
  <2>2. QED
    BY <1>2, <2>1 DEF IInv, OverlappedInOrder
<1>9. QED
  BY <1>3, <1>4, <1>6, <1>7, <1>8 DEF IInv

\* The counting half of overlapped_check_and_insert for the next bio wrapper.
LEMMA CountFacts ==
  ASSUME IInv, insertedTo + 1 <= last, CountOverlapped(insertedTo + 1)
  PROVE  LET i == insertedTo + 1 IN
         /\ i \in Ids /\ i \notin overlapped /\ i \notin submitted
         /\ i \notin shouldSubmit
         /\ nOverlapped' \in Seq(Int) /\ Len(nOverlapped') = Len(nOverlapped)
         /\ \A j \in Ids \ {i} : nOverlapped'[j] = nOverlapped[j]
         /\ nOverlapped'[i] = Cardinality({k \in overlapped : IsOverlap(biows[k], biows[i])})
         /\ i \notin delayed' => nOverlapped'[i] = 0
         /\ delayed' \subseteq Ids
         /\ \A j \in Ids \ {i} : j \in delayed' <=> j \in delayed
<1> DEFINE i == insertedTo + 1
           E == {k \in overlapped : IsOverlap(biows[k], biows[i])}
<1>1. i \in Ids /\ i \notin overlapped /\ i \notin submitted /\ i \notin shouldSubmit
  BY DEF IInv, TypeOK, Counters, Multimap, Progress, Ids
<1>2. FoundBy(biows[i], overlapped) = E
  <2>1. biows[i] \in Biow /\ TypeOK
    BY <1>1, BiowType DEF IInv
  <2>2. overlapped \in SUBSET Ids /\ \A k \in overlapped : biows[k].len <= maxSectors
    BY DEF IInv, TypeOK, Multimap
  <2>3. QED
    BY <2>1, <2>2, WindowIsEnough
<1>3. Cardinality(E) \in Nat
  BY <1>1, EarlierFinite, FS_Subset, FS_CardinalityType
<1>4. nOverlapped \in Seq(Int) /\ i \in 1..Len(nOverlapped)
  BY <1>1 DEF IInv, TypeOK, Ids
<1>5. /\ nOverlapped' = [nOverlapped EXCEPT ![i] = Cardinality(E)]
      /\ delayed' = IF Cardinality(E) > 0 THEN delayed \cup {i} ELSE delayed
  BY <1>2 DEF CountOverlapped
<1> HIDE DEF E
<1>6. /\ nOverlapped' \in Seq(Int) /\ Len(nOverlapped') = Len(nOverlapped)
      /\ nOverlapped'[i] = Cardinality(E)
  BY <1>3, <1>4, <1>5
<1>7. \A j \in Ids \ {i} : nOverlapped'[j] = nOverlapped[j]
  BY <1>4, <1>5 DEF IInv, TypeOK, Ids
<1>8. i \notin delayed' => nOverlapped'[i] = 0
  BY <1>3, <1>5, <1>6
<1>9. delayed' \subseteq Ids /\ \A j \in Ids \ {i} : j \in delayed' <=> j \in delayed
  BY <1>1, <1>5 DEF IInv, TypeOK
<1>10. QED
  BY <1>1, <1>6, <1>7, <1>8, <1>9 DEF E

\* A failed insertion keeps IInv.
LEMMA NoMemInv ==
  ASSUME IInv, CheckAndInsertNoMem
  PROVE  IInv'
<1> DEFINE i == insertedTo + 1
<1>1. /\ i \in Ids /\ i \notin overlapped /\ i \notin submitted /\ i \notin shouldSubmit
      /\ nOverlapped' \in Seq(Int) /\ Len(nOverlapped') = Len(nOverlapped)
      /\ \A j \in Ids \ {i} : nOverlapped'[j] = nOverlapped[j]
      /\ delayed' \subseteq Ids
      /\ \A j \in Ids \ {i} : j \in delayed' <=> j \in delayed
  BY CountFacts DEF CheckAndInsertNoMem
<1>2. /\ UNCHANGED <<biows, first, last, insertedTo, overlapped, maxSectors, submitted,
                     completed, waitTo, waitedTo, shouldSubmit>>
      /\ noMem' = noMem + 1
  BY DEF CheckAndInsertNoMem
<1>3. TypeOK'
  BY <1>1, <1>2 DEF IInv, TypeOK, Ids
<1>4. Counters' /\ Multimap' /\ Progress' /\ OverlappedInOrder'
  BY <1>2 DEF IInv, Counters, Multimap, Progress, OverlappedInOrder, Ids
<1>5. Waiting'
  <2>1. overlapped \subseteq Ids \ {i} /\ submitted \cup shouldSubmit \subseteq Ids \ {i}
    BY <1>1 DEF IInv, TypeOK
  <2>2. QED
    BY <1>1, <1>2, <2>1 DEF IInv, Waiting
<1>6. NOverlappedExact'
  <2>1. overlapped \subseteq Ids \ {i}
    BY <1>1 DEF IInv, TypeOK
  <2>2. QED
    BY <1>1, <1>2, <2>1 DEF IInv, NOverlappedExact
<1>7. QED
  BY <1>3, <1>4, <1>5, <1>6 DEF IInv

\* overlapped_check_and_insert keeps IInv.
LEMMA InsertInv ==
  ASSUME IInv, CheckAndInsert
  PROVE  IInv'
<1> DEFINE i == insertedTo + 1
<1>1. /\ i \in Ids /\ i \notin overlapped /\ i \notin submitted /\ i \notin shouldSubmit
      /\ nOverlapped' \in Seq(Int) /\ Len(nOverlapped') = Len(nOverlapped)
      /\ \A j \in Ids \ {i} : nOverlapped'[j] = nOverlapped[j]
      /\ nOverlapped'[i] = Cardinality({k \in overlapped : IsOverlap(biows[k], biows[i])})
      /\ i \notin delayed' => nOverlapped'[i] = 0
      /\ delayed' \subseteq Ids
      /\ \A j \in Ids \ {i} : j \in delayed' <=> j \in delayed
  BY CountFacts DEF CheckAndInsert
<1>2. /\ UNCHANGED <<biows, first, last, submitted, completed, waitTo, waitedTo,
                     shouldSubmit, noMem>>
      /\ insertedTo' = i /\ i <= last
      /\ overlapped' = overlapped \cup {i}
      /\ maxSectors' = IF biows[i].len > maxSectors THEN biows[i].len ELSE maxSectors
  BY DEF CheckAndInsert
<1>3. biows[i].len \in Nat /\ maxSectors \in Nat
  BY <1>1, BiowType DEF IInv, TypeOK
<1>4. TypeOK'
  BY <1>1, <1>2, <1>3 DEF IInv, TypeOK, Ids
<1>5. Counters' /\ Progress'
  BY <1>2, SMTT(40) DEF IInv, TypeOK, Counters, Progress
<1>6. Multimap'
  <2>1. overlapped' = waitedTo' + 1 .. insertedTo'
    BY <1>2 DEF IInv, TypeOK, Multimap, Counters
  <2>2. \A j \in overlapped : biows[j].len \in Nat /\ biows[j].len <= maxSectors
    BY BiowType DEF IInv, Multimap, TypeOK
  <2>3. QED
    BY <1>2, <1>3, <2>1, <2>2 DEF Multimap
<1>7. Waiting'
  <2>1. overlapped \subseteq Ids \ {i} /\ submitted \cup shouldSubmit \subseteq Ids \ {i}
    BY <1>1 DEF IInv, TypeOK
  <2>2. QED
    BY <1>1, <1>2, <2>1 DEF IInv, Waiting
<1>8. NOverlappedExact'
  <2>1. \A j \in overlapped : j \in Ids \ {i} /\ j < i
    BY <1>1 DEF IInv, TypeOK, Multimap
  <2>2. ASSUME NEW j \in overlapped
        PROVE  nOverlapped'[j] = Cardinality({k \in overlapped' :
                                   k < j /\ IsOverlap(biows[k], biows[j])})
    <3>1. {k \in overlapped' : k < j /\ IsOverlap(biows[k], biows[j])}
            = {k \in overlapped : k < j /\ IsOverlap(biows[k], biows[j])}
      BY <1>2, <2>1, <2>2 DEF IInv, TypeOK, Ids
    <3>2. nOverlapped'[j] = nOverlapped[j]
      BY <1>1, <2>1
    <3>3. QED
      BY <3>1, <3>2 DEF IInv, NOverlappedExact
  <2>3. {k \in overlapped' : k < i /\ IsOverlap(biows[k], biows[i])}
          = {k \in overlapped : IsOverlap(biows[k], biows[i])}
    BY <1>2, <2>1 DEF IInv, TypeOK
  <2>4. nOverlapped'[i] = Cardinality({k \in overlapped' :
                            k < i /\ IsOverlap(biows[k], biows[i])})
    BY <1>1, <2>3
  <2>5. \A j \in overlapped' : j \in overlapped \/ j = i
    BY <1>2
  <2>6. \A j \in overlapped' : nOverlapped'[j] = Cardinality({k \in overlapped' :
                                 k < j /\ IsOverlap(biows[k], biows[j])})
    BY <2>2, <2>4, <2>5
  <2>7. biows' = biows
    BY <1>2
  <2>8. QED
    BY <2>6, <2>7 DEF NOverlappedExact
<1>9. OverlappedInOrder'
  BY <1>2 DEF IInv, OverlappedInOrder, Ids
<1>10. QED
  BY <1>4, <1>5, <1>6, <1>7, <1>8, <1>9 DEF IInv

\* The submission of a write that overlaps nothing keeps IInv.
LEMMA SubmitDataInv ==
  ASSUME IInv, NEW i \in Ids, SubmitData(i)
  PROVE  IInv'
<1>1. /\ UNCHANGED <<biows, first, last, insertedTo, overlapped, maxSectors, nOverlapped,
                     delayed, completed, waitTo, waitedTo, shouldSubmit, noMem>>
      /\ submitted' = submitted \cup {i}
      /\ insertedTo = last /\ waitTo < last
      /\ i \in first..last /\ i \notin delayed
  BY DEF SubmitData, Sorted
<1>2. i \in overlapped /\ i \in 1..insertedTo
  BY <1>1 DEF IInv, TypeOK, Counters, Multimap
<1>3. nOverlapped[i] = 0
  BY <1>1, <1>2 DEF IInv, Waiting
<1>4. TypeOK' /\ Counters' /\ Multimap'
  BY <1>1 DEF IInv, TypeOK, Counters, Multimap, Ids
<1>5. Progress' /\ Waiting'
  BY <1>1, <1>2, <1>3 DEF IInv, Progress, Waiting
<1>6. NOverlappedExact'
  BY <1>1 DEF IInv, NOverlappedExact
<1>7. OverlappedInOrder'
  BY <1>1, <1>2, <1>3, NobodyEarlier DEF IInv, OverlappedInOrder, Ids
<1>8. QED
  BY <1>4, <1>5, <1>6, <1>7 DEF IInv

\* The submission of a delayed write keeps IInv.
LEMMA SubmitDelayedInv ==
  ASSUME IInv, NEW i \in Ids, SubmitDelayed(i)
  PROVE  IInv'
<1>1. /\ UNCHANGED <<biows, first, last, insertedTo, overlapped, maxSectors, nOverlapped,
                     delayed, completed, waitTo, waitedTo, noMem>>
      /\ submitted' = submitted \cup {i}
      /\ i \in shouldSubmit
      /\ shouldSubmit' = shouldSubmit \ {i}
  BY DEF SubmitDelayed
<1>2. i \in overlapped /\ i \in 1..insertedTo
  BY <1>1 DEF IInv, TypeOK, Progress, Multimap
<1>3. nOverlapped[i] = 0
  BY <1>1 DEF IInv, Waiting
<1>4. TypeOK' /\ Counters' /\ Multimap'
  BY <1>1 DEF IInv, TypeOK, Counters, Multimap, Ids
<1>5. Progress' /\ Waiting'
  BY <1>1, <1>2, <1>3 DEF IInv, Progress, Waiting
<1>6. NOverlappedExact'
  BY <1>1 DEF IInv, NOverlappedExact
<1>7. OverlappedInOrder'
  BY <1>1, <1>2, <1>3, NobodyEarlier DEF IInv, OverlappedInOrder, Ids
<1>8. QED
  BY <1>4, <1>5, <1>6, <1>7 DEF IInv

\* overlapped_delete_and_notify keeps IInv.
LEMMA DeleteInv ==
  ASSUME IInv, DeleteAndNotify
  PROVE  IInv'
<1> DEFINE i == waitedTo + 1
           rest == overlapped \ {i}
           hit == FoundBy(biows[i], rest)
           E(j) == {k \in overlapped : k < j /\ IsOverlap(biows[k], biows[j])}
<1>1. /\ UNCHANGED <<biows, first, last, insertedTo, delayed, submitted, completed,
                     waitTo, noMem>>
      /\ shouldSubmit = {} /\ i <= waitTo /\ i \in completed
      /\ overlapped' = rest
      /\ maxSectors' = IF rest = {} THEN 0 ELSE maxSectors
      /\ nOverlapped' = [j \in Ids |-> IF j \in hit THEN nOverlapped[j] - 1
                                                    ELSE nOverlapped[j]]
      /\ shouldSubmit' = {j \in hit : nOverlapped[j] - 1 = 0}
      /\ waitedTo' = i
  BY DEF DeleteAndNotify, WaitedFor, Freed
<1>2. i \in overlapped /\ i \in Ids /\ rest \subseteq Ids /\ rest = i + 1 .. insertedTo
  BY <1>1 DEF IInv, TypeOK, Counters, Multimap, Ids
<1>3. hit = {k \in rest : IsOverlap(biows[k], biows[i])}
  <2>1. biows[i] \in Biow /\ TypeOK
    BY <1>2, BiowType DEF IInv
  <2>2. rest \in SUBSET Ids /\ \A k \in rest : biows[k].len <= maxSectors
    BY <1>2 DEF IInv, Multimap
  <2>3. QED
    BY <2>1, <2>2, WindowIsEnough
<1> HIDE DEF hit
<1>4. \A j \in Ids : nOverlapped[j] \in Int
  BY BiowType DEF IInv
<1>5. \A j \in Ids : nOverlapped'[j] = IF j \in hit THEN nOverlapped[j] - 1
                                                    ELSE nOverlapped[j]
  BY <1>1
<1>6. \A j \in rest : /\ nOverlapped[j] = Cardinality(E(j))
                      /\ IsFiniteSet(E(j)) /\ Cardinality(E(j)) \in Nat
  <2> SUFFICES ASSUME NEW j \in rest
               PROVE  /\ nOverlapped[j] = Cardinality(E(j))
                      /\ IsFiniteSet(E(j)) /\ Cardinality(E(j)) \in Nat
    OBVIOUS
  <2>1. j \in Ids
    BY <1>2
  <2>2. IsFiniteSet(overlapped)
    BY <2>1, EarlierFinite
  <2>3. IsFiniteSet(E(j))
    BY <2>2, FS_Subset
  <2>4. Cardinality(E(j)) \in Nat
    BY <2>3, FS_CardinalityType
  <2>5. nOverlapped[j] = Cardinality(E(j))
    BY DEF IInv, NOverlappedExact
  <2>6. QED
    BY <2>3, <2>4, <2>5
<1>7. ASSUME NEW j \in hit
      PROVE  i \in E(j) /\ j \in rest
  <2>1. j \in rest /\ IsOverlap(biows[j], biows[i])
    BY <1>3
  <2>2. i < j
    BY <1>2, <2>1 DEF IInv, TypeOK
  <2>3. QED
    BY <1>2, <2>1, <2>2 DEF IsOverlap
<1>8. \A j \in hit : Cardinality(E(j) \ {i}) = Cardinality(E(j)) - 1
  BY <1>6, <1>7, FS_RemoveElement
<1>9. \A j \in hit : nOverlapped[j] >= 1
  <2> SUFFICES ASSUME NEW j \in hit PROVE nOverlapped[j] >= 1
    OBVIOUS
  <2>1. E(j) # {} /\ IsFiniteSet(E(j)) /\ Cardinality(E(j)) \in Nat
    BY <1>6, <1>7
  <2>2. Cardinality(E(j)) # 0
    BY <2>1, FS_EmptySet
  <2>3. QED
    BY <1>6, <1>7, <2>1, <2>2
<1>10. TypeOK'
  <2>1. nOverlapped' \in Seq(Int) /\ Len(nOverlapped') = Len(biows)
    BY <1>1, <1>4 DEF IInv, TypeOK, Ids
  <2>2. hit \subseteq Ids
    BY <1>2, <1>3
  <2>3. shouldSubmit' \subseteq Ids /\ maxSectors' \in Nat /\ waitedTo' \in Nat
    BY <1>1, <2>2 DEF IInv, TypeOK
  <2>4. UNCHANGED <<biows, first, last, insertedTo, delayed, submitted, completed, waitTo,
                    noMem>> /\ overlapped' \subseteq Ids
    BY <1>1, <1>2
  <2>5. QED
    BY <2>1, <2>3, <2>4 DEF IInv, TypeOK, Ids
<1>11. Counters'
  BY <1>1 DEF IInv, TypeOK, Counters
<1>12. Multimap'
  BY <1>1, <1>2 DEF IInv, Multimap
<1>13. Progress'
  <2>1. 1..i \subseteq completed
    BY <1>1 DEF IInv, TypeOK, Progress
  <2>2. shouldSubmit' \subseteq rest
    BY <1>1, <1>3
  <2>3. QED
    BY <1>1, <2>1, <2>2 DEF IInv, Progress
<1>14. Waiting'
  <2>1. \A j \in Ids : nOverlapped[j] = 0 => nOverlapped'[j] = 0
    BY <1>4, <1>5, <1>9
  <2>2. \A j \in shouldSubmit' : nOverlapped'[j] = 0
    BY <1>1, <1>2, <1>3, <1>5
  <2>3. rest \subseteq Ids /\ submitted \subseteq Ids
    BY <1>2 DEF IInv, TypeOK
  <2>4. shouldSubmit' \subseteq delayed /\ shouldSubmit' \cap submitted = {}
    BY <1>1, <1>2, <1>3, <1>4 DEF IInv, Waiting
  <2>5. QED
    BY <1>1, <2>1, <2>2, <2>3, <2>4 DEF IInv, Waiting
<1>15. NOverlappedExact'
  <2> SUFFICES ASSUME NEW j \in rest
               PROVE  nOverlapped'[j] = Cardinality({k \in rest :
                                          k < j /\ IsOverlap(biows[k], biows[j])})
    BY <1>1 DEF NOverlappedExact
  <2>1. {k \in rest : k < j /\ IsOverlap(biows[k], biows[j])} = E(j) \ {i}
    OBVIOUS
  <2>2. CASE j \in hit
    BY <1>2, <1>5, <1>6, <1>8, <2>1, <2>2
  <2>3. CASE j \notin hit
    <3>1. i \notin E(j)
      BY <1>3, <2>3 DEF IsOverlap
    <3>2. E(j) \ {i} = E(j)
      BY <3>1
    <3>3. QED
      BY <1>2, <1>5, <1>6, <2>1, <2>3, <3>2
  <2>4. QED
    BY <2>2, <2>3
<1>16. OverlappedInOrder'
  BY <1>1 DEF IInv, OverlappedInOrder, Ids
<1>17. QED
  BY <1>10, <1>11, <1>12, <1>13, <1>14, <1>15, <1>16 DEF IInv

-----------------------------------------------------------------------------
\* IInv is kept by every step.
LEMMA NextInv == IInv /\ [Next]_vars => IInv'
<1> SUFFICES ASSUME IInv, [Next]_vars PROVE IInv'
  OBVIOUS
<1>1. CASE \E p \in 0..MaxPos, l \in 1..MaxLen : Enqueue(p, l)
  BY <1>1, EnqueueInv
<1>2. CASE Dequeue
  <2>1. /\ UNCHANGED <<biows, insertedTo, overlapped, maxSectors, nOverlapped, delayed,
                       submitted, completed, waitTo, waitedTo, shouldSubmit, noMem>>
        /\ waitTo = last /\ last < Len(biows)
        /\ first' = last + 1
        /\ last' = IF Len(biows) <= last + IoBulk THEN Len(biows) ELSE last + IoBulk
    BY <1>2 DEF Dequeue
  <2>2. TypeOK' /\ Counters'
    BY <2>1, OverlapAssumption DEF IInv, TypeOK, Counters, Ids
  <2>3. Multimap' /\ Progress' /\ Waiting' /\ NOverlappedExact' /\ OverlappedInOrder'
    BY <2>1 DEF IInv, Multimap, Progress, Waiting, NOverlappedExact, OverlappedInOrder, Ids
  <2>4. QED
    BY <2>2, <2>3 DEF IInv
<1>3. CASE CheckAndInsert
  BY <1>3, InsertInv
<1>4. CASE CheckAndInsertNoMem
  BY <1>4, NoMemInv
<1>5. CASE \E i \in Ids : SubmitData(i)
  BY <1>5, SubmitDataInv
<1>6. CASE EnqueueWait
  <2>1. /\ UNCHANGED <<biows, first, last, insertedTo, overlapped, maxSectors, nOverlapped,
                       delayed, submitted, completed, waitedTo, shouldSubmit, noMem>>
        /\ insertedTo = last /\ waitTo < last /\ waitTo' = last
    BY <1>6 DEF EnqueueWait
  <2>2. TypeOK' /\ Counters'
    BY <2>1 DEF IInv, TypeOK, Counters, Ids
  <2>3. Multimap' /\ Progress' /\ Waiting' /\ NOverlappedExact' /\ OverlappedInOrder'
    BY <2>1 DEF IInv, Multimap, Progress, Waiting, NOverlappedExact, OverlappedInOrder, Ids
  <2>4. QED
    BY <2>2, <2>3 DEF IInv
<1>7. CASE \E i \in Ids : Complete(i)
  <2>1. PICK i \in Ids : Complete(i)
    BY <1>7
  <2>2. /\ UNCHANGED <<biows, first, last, insertedTo, overlapped, maxSectors, nOverlapped,
                       delayed, submitted, waitTo, waitedTo, shouldSubmit, noMem>>
        /\ i \in submitted
        /\ completed' = completed \cup {i}
    BY <2>1 DEF Complete
  <2>3. TypeOK' /\ Counters' /\ Multimap' /\ Progress'
    BY <2>2 DEF IInv, TypeOK, Counters, Multimap, Progress, Ids
  <2>4. Waiting' /\ NOverlappedExact' /\ OverlappedInOrder'
    BY <2>2 DEF IInv, Waiting, NOverlappedExact, OverlappedInOrder, Ids
  <2>5. QED
    BY <2>3, <2>4 DEF IInv
<1>8. CASE DeleteAndNotify
  BY <1>8, DeleteInv
<1>9. CASE \E i \in Ids : SubmitDelayed(i)
  BY <1>9, SubmitDelayedInv
<1>10. CASE UNCHANGED vars
  BY <1>10, SMTT(40) DEF IInv, TypeOK, Counters, Multimap, Progress, Waiting, NOverlappedExact,
               OverlappedInOrder, Ids, vars
<1>11. QED
  BY <1>1, <1>2, <1>3, <1>4, <1>5, <1>6, <1>7, <1>8, <1>9, <1>10
     DEF Next, SubmitTask, WaitTask

\* The inductive invariant holds in every behaviour of the two tasks.
THEOREM Invariance == Spec => []IInv
BY InitInv, NextInv, PTL DEF Spec

\* Every counter, list and flag of the two tasks keeps its type.
THEOREM TypeCorrect == Spec => []TypeOK
<1>1. IInv => TypeOK
  BY DEF IInv
<1>2. QED
  BY <1>1, Invariance, PTL

\* overlapped_io.c, doc/algorithm.creole: a write that overlaps an earlier one is
\* submitted to the data device only after the IO of the earlier one is complete.
THEOREM OverlappedInOrderHolds == Spec => []OverlappedInOrder
<1>1. IInv => OverlappedInOrder
  BY DEF IInv
<1>2. QED
  BY <1>1, Invariance, PTL

\* The assertions on n_overlapped: nobody is submitted while it waits for another.
THEOREM SubmittedWaitsForNobodyHolds == Spec => []SubmittedWaitsForNobody
<1>1. IInv => SubmittedWaitsForNobody
  BY DEF IInv, Waiting, SubmittedWaitsForNobody
<1>2. QED
  BY <1>1, Invariance, PTL

\* The submit task and the wait task never both submit the same bio wrapper.
THEOREM SubmittedOnceHolds == Spec => []SubmittedOnce
<1>1. IInv => SubmittedOnce
  BY DEF IInv, Waiting, SubmittedOnce, Sorted
<1>2. QED
  BY <1>1, Invariance, PTL

\* The cursor walks of overlapped_check_and_insert and overlapped_delete_and_notify
\* keep n_overlapped equal to the number of earlier overlapping entries.
THEOREM NOverlappedExactHolds == Spec => []NOverlappedExact
<1>1. IInv => NOverlappedExact
  BY DEF IInv
<1>2. QED
  BY <1>1, Invariance, PTL

-----------------------------------------------------------------------------
(* The two tasks implement WalbSerial. *)

\* Issuing a bio wrapper of the multimap that waits for nobody is an abstract step.
LEMMA IssueStep ==
  ASSUME IInv, NEW i \in overlapped, nOverlapped[i] = 0, i \notin submitted,
         submitted' = submitted \cup {i}, UNCHANGED <<biows, completed>>
  PROVE  i \in 1..Len(biows) /\ Serial!Issue(i)
<1>1. i \in Ids
  BY DEF IInv, TypeOK
<1>2. \A j \in Ids : (j < i /\ IsOverlap(biows[j], biows[i])) => j \in completed
  BY NobodyEarlier
<1>3. \A j \in 1 .. i - 1 : j \in Ids /\ j < i
  BY <1>1 DEF Ids, IInv, TypeOK
<1>4. \A j \in 1 .. i - 1 : Serial!Meet(biows[j], biows[i]) => j \in completed
  BY <1>2, <1>3 DEF Serial!Meet, IsOverlap
<1>5. QED
  BY <1>1, <1>4 DEF Serial!Issue, Ids

\* Every step is a step of the abstract serializer, or none.
LEMMA SerialStep == IInv /\ [Next]_vars => [Serial!Next]_(Serial!vars)
<1> SUFFICES ASSUME IInv, [Next]_vars PROVE Serial!Next \/ UNCHANGED Serial!vars
  OBVIOUS
<1>1. CASE \E p \in 0..MaxPos, l \in 1..MaxLen : Enqueue(p, l)
  BY <1>1 DEF Enqueue, Serial!Next, Serial!Arrive
<1>2. CASE \/ Dequeue \/ CheckAndInsert \/ CheckAndInsertNoMem \/ EnqueueWait
           \/ DeleteAndNotify \/ UNCHANGED vars
  BY <1>2 DEF Dequeue, CheckAndInsert, CheckAndInsertNoMem, EnqueueWait, DeleteAndNotify,
              vars, Serial!vars
<1>3. CASE \E i \in Ids : SubmitData(i)
  <2>1. PICK i \in Ids : SubmitData(i)
    BY <1>3
  <2>2. /\ submitted' = submitted \cup {i} /\ UNCHANGED <<biows, completed>>
        /\ insertedTo = last /\ waitTo < last
        /\ i \in first..last /\ i \notin delayed /\ i \notin submitted
    BY <2>1 DEF SubmitData, Sorted
  <2>3. i \in overlapped
    BY <2>2 DEF IInv, TypeOK, Counters, Multimap
  <2>4. nOverlapped[i] = 0
    BY <2>2, <2>3 DEF IInv, Waiting
  <2>5. QED
    BY <2>2, <2>3, <2>4, IssueStep DEF Serial!Next
<1>4. CASE \E i \in Ids : Complete(i)
  BY <1>4 DEF Complete, Ids, Serial!Next, Serial!Complete
<1>5. CASE \E i \in Ids : SubmitDelayed(i)
  <2>1. PICK i \in Ids : SubmitDelayed(i)
    BY <1>5
  <2>2. /\ submitted' = submitted \cup {i} /\ UNCHANGED <<biows, completed>>
        /\ i \in shouldSubmit
    BY <2>1 DEF SubmitDelayed
  <2>3. i \in overlapped /\ nOverlapped[i] = 0 /\ i \notin submitted
    BY <2>2 DEF IInv, Progress, Waiting
  <2>4. QED
    BY <2>2, <2>3, IssueStep DEF Serial!Next
<1>6. QED
  BY <1>1, <1>2, <1>3, <1>4, <1>5 DEF Next, SubmitTask, WaitTask

\* The submit task and the wait task together issue no write before an earlier one
\* that it overlaps is complete: WalbOverlap implements WalbSerial.
THEOREM SerialRefinement == Spec => ImplementsSerial
<1>1. Init => Serial!Init
  BY DEF Init, Serial!Init
<1>2. QED
  BY <1>1, SerialStep, Invariance, PTL DEF Spec, ImplementsSerial, Serial!Spec
=============================================================================
