-------------------------- MODULE WalbTreemapProofs --------------------------
(***************************************************************************)
(* Proofs about the multimap of WalbTreemap, for every range of keys and   *)
(* every set of values: the cursor stays valid whatever is deleted through *)
(* it, and the memory pools are exact.                                     *)
(*                                                                         *)
(* The inductive invariant adds to the two properties that no key has an   *)
(* empty list of cells or the same value twice (what the assertions of     *)
(* multimap_del test).  Neighbours are described by what they are next to, *)
(* so that the pointers the cursor remembers can be compared with the ones *)
(* a walk of the tree that is left would find.                             *)
(***************************************************************************)
EXTENDS WalbTreemap, FiniteSetTheorems, SequenceTheorems, WellFoundedInduction, TLAPS

(***************************************************************************)
(* Least and greatest elements                                             *)
(***************************************************************************)
\* A set of naturals that is not empty has a least element, which Min chooses.
LEMMA MinIs ==
  ASSUME NEW S \in SUBSET Nat, S # {}
  PROVE  Min(S) \in S /\ \A y \in S : Min(S) <= y
<1> DEFINE R == OpToRel(<, Nat)
<1>1. IsWellFoundedOn(R, Nat)
  BY NatLessThanWellFounded
<1>2. \A x, y \in Nat : y < x => <<y, x>> \in R
  BY DEF OpToRel
<1> HIDE DEF R
<1>3. PICK x \in S : \A y \in S : ~(<<y, x>> \in R)
  BY <1>1, WFMin
<1>4. ASSUME NEW y \in S PROVE x <= y
  <2>1. x \in Nat /\ y \in Nat
    OBVIOUS
  <2>2. ~(y < x)
    BY <1>2, <1>3, <2>1, Zenon
  <2> QED
    BY <2>1, <2>2
<1> QED
  BY <1>4 DEF Min

\* A bounded one has a greatest element, which Max chooses.
LEMMA MaxIs ==
  ASSUME NEW n \in Nat, NEW S \in SUBSET (0..n), S # {}
  PROVE  Max(S) \in S /\ \A y \in S : y <= Max(S)
<1> DEFINE T == {n - y : y \in S}
<1>1. T \in SUBSET Nat /\ T # {}
  <2>1. \A y \in S : n - y \in Nat /\ n - y \in T
    OBVIOUS
  <2> QED
    BY <2>1
<1>2. Min(T) \in T /\ \A t \in T : Min(T) <= t
  <2> HIDE DEF T
  <2> QED
    BY <1>1, MinIs
<1>3. PICK x \in S : Min(T) = n - x
  BY <1>2
<1>4. ASSUME NEW y \in S PROVE y <= x
  <2>1. n - y \in T /\ x \in Int /\ y \in Int
    OBVIOUS
  <2> HIDE DEF T
  <2>2. n - x <= n - y
    BY <1>2, <1>3, <2>1
  <2> QED
    BY <2>1, <2>2
<1>5. \A y \in S : x \in Int /\ y \in Int /\ x >= y
  BY <1>4
<1> QED
  BY <1>5 DEF Max

(***************************************************************************)
(* Neighbours, in a set N of keys                                          *)
(***************************************************************************)
IsNext(N, t, n) ==
  \/ n = NULL /\ \A k \in N : k <= t
  \/ n \in N /\ n > t /\ \A k \in N : k > t => n <= k

IsPrev(N, t, p) ==
  \/ p = NULL /\ \A k \in N : k >= t
  \/ p \in N /\ p < t /\ \A k \in N : k < t => k <= p

\* There is one such neighbour.
LEMMA OneNext ==
  ASSUME NEW N \in SUBSET (Nat \ {0}), NEW t \in Nat, NEW n, NEW m,
         IsNext(N, t, n), IsNext(N, t, m)
  PROVE  n = m
<1>1. \A k \in N : k \in Nat /\ k > 0
  OBVIOUS
<1>2. n \in Nat /\ m \in Nat
  <2>1. (n = 0 \/ n \in N) /\ (m = 0 \/ m \in N)
    BY Zenon DEF IsNext, NULL
  <2>2. 0 \in Nat
    OBVIOUS
  <2> QED
    BY <1>1, <2>1, <2>2, Zenon
<1>3. n \in N => n > t /\ (m \in N => n <= m)
  BY <1>1, <1>2 DEF IsNext, NULL
<1>4. m \in N => m > t /\ (n \in N => m <= n)
  BY <1>1, <1>2 DEF IsNext, NULL
<1>5. n \in N <=> m \in N
  BY <1>1, <1>2, <1>3, <1>4 DEF IsNext, NULL
<1>6. n \notin N => n = 0 /\ m = 0
  BY <1>5 DEF IsNext, NULL
<1> QED
  BY <1>2, <1>3, <1>4, <1>5, <1>6

\* The same for the one before.
LEMMA OnePrev ==
  ASSUME NEW N \in SUBSET (Nat \ {0}), NEW t \in Nat, NEW n, NEW m,
         IsPrev(N, t, n), IsPrev(N, t, m)
  PROVE  n = m
<1>1. \A k \in N : k \in Nat /\ k > 0
  OBVIOUS
<1>2. n \in Nat /\ m \in Nat
  <2>1. (n = 0 \/ n \in N) /\ (m = 0 \/ m \in N)
    BY Zenon DEF IsPrev, NULL
  <2>2. 0 \in Nat
    OBVIOUS
  <2> QED
    BY <1>1, <2>1, <2>2, Zenon
<1>3. n \in N => n < t /\ (m \in N => m <= n)
  BY <1>1, <1>2 DEF IsPrev, NULL
<1>4. m \in N => m < t /\ (n \in N => n <= m)
  BY <1>1, <1>2 DEF IsPrev, NULL
<1>5. n \in N <=> m \in N
  BY <1>1, <1>2, <1>3, <1>4 DEF IsPrev, NULL
<1>6. n \notin N => n = 0 /\ m = 0
  BY <1>5 DEF IsPrev, NULL
<1> QED
  BY <1>2, <1>3, <1>4, <1>5, <1>6

\* rb_next finds the least key above, if there is one, and nothing else is that.
LEMMA NextIs ==
  ASSUME Nodes \subseteq Keys, MaxKey \in Nat, NEW t \in Keys
  PROVE  /\ IsNext(Nodes, t, MapNext(t))
         /\ \A n : IsNext(Nodes, t, n) => n = MapNext(t)
<1> DEFINE above == {k \in Nodes : k > t}
<1>1. above \in SUBSET Nat /\ t \in Nat /\ t # NULL /\ Nodes \in SUBSET (Nat \ {0})
      /\ \A k \in Nodes : k \in Nat
  <2>1. t \in Nat /\ t # NULL
    BY DEF Keys, NULL
  <2>2. \A k \in Nodes : k \in Nat /\ k # 0 /\ k \in 0..MaxKey
    BY DEF Keys
  <2> QED
    BY <2>1, <2>2
<1>2. above # {} => Min(above) \in above /\ \A y \in above : Min(above) <= y
  <2> HIDE DEF above
  <2> QED
    BY <1>1, MinIs
<1>3. MapNext(t) = IF above = {} THEN NULL ELSE Min(above)
  BY <1>1 DEF MapNext
<1>4. IsNext(Nodes, t, MapNext(t))
  <2>1. CASE above = {}
    BY <1>1, <1>3, <2>1 DEF IsNext
  <2>2. CASE above # {}
    <3>1. \A k \in Nodes : k > t => k \in above
      OBVIOUS
    <3>2. MapNext(t) \in above /\ \A y \in above : MapNext(t) <= y
      BY <1>2, <1>3, <2>2
    <3> QED
      BY <3>1, <3>2 DEF IsNext
  <2> QED
    BY <2>1, <2>2
<1> QED
  BY <1>1, <1>4, OneNext

\* The same for rb_prev.
LEMMA PrevIs ==
  ASSUME Nodes \subseteq Keys, MaxKey \in Nat, NEW t \in Keys
  PROVE  /\ IsPrev(Nodes, t, MapPrev(t))
         /\ \A n : IsPrev(Nodes, t, n) => n = MapPrev(t)
<1> DEFINE below == {k \in Nodes : k < t}
<1>1. below \in SUBSET (0..MaxKey) /\ t \in Nat /\ t # NULL /\ Nodes \in SUBSET (Nat \ {0})
      /\ \A k \in Nodes : k \in Nat
  <2>1. t \in Nat /\ t # NULL
    BY DEF Keys, NULL
  <2>2. \A k \in Nodes : k \in Nat /\ k # 0 /\ k \in 0..MaxKey
    BY DEF Keys
  <2> QED
    BY <2>1, <2>2
<1>2. below # {} => Max(below) \in below /\ \A y \in below : y <= Max(below)
  <2> HIDE DEF below
  <2> QED
    BY <1>1, MaxIs
<1>3. MapPrev(t) = IF below = {} THEN NULL ELSE Max(below)
  BY <1>1 DEF MapPrev
<1>4. IsPrev(Nodes, t, MapPrev(t))
  <2>1. CASE below = {}
    BY <1>1, <1>3, <2>1 DEF IsPrev
  <2>2. CASE below # {}
    <3>1. \A k \in Nodes : k < t => k \in below
      OBVIOUS
    <3>2. MapPrev(t) \in below /\ \A y \in below : y <= MapPrev(t)
      BY <1>2, <1>3, <2>2
    <3> QED
      BY <3>1, <3>2 DEF IsPrev
  <2> QED
    BY <2>1, <2>2
<1> QED
  BY <1>1, <1>4, OnePrev

\* The first node is the one behind 0, the last the one before MaxKey + 1.
LEMMA EndsAre ==
  ASSUME Nodes \subseteq Keys, MaxKey \in Nat
  PROVE  /\ IsNext(Nodes, 0, MapFirst)
         /\ \A n : IsNext(Nodes, 0, n) => n = MapFirst
         /\ IsPrev(Nodes, MaxKey + 1, MapLast)
         /\ \A n : IsPrev(Nodes, MaxKey + 1, n) => n = MapLast
<1>1. Nodes \in SUBSET (Nat \ {0}) /\ Nodes \in SUBSET Nat /\ Nodes \in SUBSET (0..MaxKey)
      /\ \A k \in Nodes : k \in Nat /\ k > 0 /\ k < MaxKey + 1
  BY DEF Keys
<1>2. Nodes # {} => /\ Min(Nodes) \in Nodes /\ \A y \in Nodes : Min(Nodes) <= y
                    /\ Max(Nodes) \in Nodes /\ \A y \in Nodes : y <= Max(Nodes)
  BY <1>1, MinIs, MaxIs
<1>3. IsNext(Nodes, 0, MapFirst) /\ IsPrev(Nodes, MaxKey + 1, MapLast)
  <2>1. CASE Nodes = {}
    BY <2>1 DEF MapFirst, MapLast, IsNext, IsPrev
  <2>2. CASE Nodes # {}
    BY <1>1, <1>2, <2>2 DEF MapFirst, MapLast, IsNext, IsPrev
  <2> QED
    BY <2>1, <2>2
<1> QED
  BY <1>1, <1>3, OneNext, OnePrev

(***************************************************************************)
(* The map and a cursor in it                                              *)
(***************************************************************************)
\* The list of a key: not empty, and no value twice.
CellsOK(s) ==
  /\ s \in Seq(Vals)
  /\ Len(s) > 0
  /\ \A i, j \in 1..Len(s) : s[i] = s[j] => i = j

MapOK(m) == DOMAIN m \subseteq Keys /\ \A k \in DOMAIN m : CellsOK(m[k])

Pointers == Keys \cup {NULL}

Cursors ==
  [state : {"INVALID", "BEGIN", "DATA", "END"}, prev : Pointers, curr : Pointers,
   next : Pointers, head : Pointers, cell : Vals \cup {InvalidVal}]

\* CursorValid for a cursor c in a map m.
Valid(m, c) ==
  /\ c \in Cursors
  /\ c.state = "DATA" =>
       /\ c.curr \in DOMAIN m
       /\ c.head = c.curr
       /\ c.cell \in Range(m[c.curr])
       /\ IsPrev(DOMAIN m, c.curr, c.prev)
       /\ IsNext(DOMAIN m, c.curr, c.next)
  /\ c.state \in {"BEGIN", "END"} => c.curr = NULL /\ c.head = NULL /\ c.cell = InvalidVal
  /\ c.state = "BEGIN" => c.prev = NULL /\ IsNext(DOMAIN m, 0, c.next)
  /\ c.state = "END" => c.next = NULL /\ IsPrev(DOMAIN m, MaxKey + 1, c.prev)

\* The neighbours a cursor remembers are the ones a walk of the tree finds.
LEMMA ValidCursor ==
  ASSUME MapOK(tmap), Valid(tmap, cursor)
  PROVE  CursorValid
<1>1. Nodes \subseteq Keys /\ MaxKey \in Nat
  BY TreemapAssumption DEF MapOK, Nodes
<1>2. cursor.state = "DATA" => cursor.curr \in Keys /\ cursor.curr \in Nodes
  BY <1>1 DEF Valid, Nodes
<1>3. cursor.state = "DATA" => /\ cursor.prev = MapPrev(cursor.curr)
                               /\ cursor.next = MapNext(cursor.curr)
  BY <1>1, <1>2, PrevIs, NextIs DEF Valid, Nodes
<1>4. cursor.state = "BEGIN" => cursor.next = MapFirst
  BY <1>1, EndsAre DEF Valid, Nodes
<1>5. cursor.state = "END" => cursor.prev = MapLast
  BY <1>1, EndsAre DEF Valid, Nodes
<1> QED
  BY <1>2, <1>3, <1>4, <1>5 DEF Valid, CursorValid, Nodes

\* Pointers that rb_next and rb_prev return.
LEMMA Neighbours ==
  ASSUME MapOK(tmap), NEW t \in Nodes
  PROVE  /\ t \in Keys
         /\ MapPrev(t) \in Nodes \cup {NULL} /\ MapNext(t) \in Nodes \cup {NULL}
         /\ MapPrev(t) \in Pointers /\ MapNext(t) \in Pointers
         /\ IsPrev(Nodes, t, MapPrev(t)) /\ IsNext(Nodes, t, MapNext(t))
<1>1. Nodes \subseteq Keys /\ MaxKey \in Nat
  BY TreemapAssumption DEF MapOK, Nodes
<1>2. IsPrev(Nodes, t, MapPrev(t)) /\ IsNext(Nodes, t, MapNext(t))
  BY <1>1, PrevIs, NextIs
<1>3. MapPrev(t) \in Nodes \cup {NULL} /\ MapNext(t) \in Nodes \cup {NULL}
  BY <1>2, Zenon DEF IsPrev, IsNext
<1> QED
  BY <1>1, <1>2, <1>3 DEF Pointers

\* A key that is in the map is no NULL pointer.
LEMMA NotNull == ASSUME MapOK(tmap) PROVE NULL \notin Nodes /\ NULL \in Pointers
BY DEF MapOK, Nodes, Keys, NULL, Pointers

\* The first and the last cell of a list, and the place of a cell.
LEMMA CellFacts ==
  ASSUME NEW s, CellsOK(s)
  PROVE  /\ Head(s) \in Range(s) /\ Last(s) \in Range(s) /\ Range(s) \subseteq Vals
         /\ Len(s) \in Nat \ {0}
         /\ \A i \in 1..Len(s) : s[i] \in Range(s)
         /\ \A v \in Range(s) : IndexOf(s, v) \in 1..Len(s) /\ s[IndexOf(s, v)] = v
<1>1. Len(s) \in Nat \ {0} /\ DOMAIN s = 1..Len(s) /\ \A i \in 1..Len(s) : s[i] \in Vals
  BY DEF CellsOK
<1>2. Range(s) \subseteq Vals /\ \A i \in 1..Len(s) : s[i] \in Range(s)
  BY <1>1 DEF Range
<1>3. Head(s) = s[1] /\ Last(s) = s[Len(s)]
  BY <1>1 DEF CellsOK, Last
<1>4. ASSUME NEW v \in Range(s)
      PROVE  IndexOf(s, v) \in 1..Len(s) /\ s[IndexOf(s, v)] = v
  <2>1. \E i \in 1..Len(s) : s[i] = v
    BY <1>1 DEF Range
  <2> QED
    BY <2>1 DEF IndexOf
<1> QED
  BY <1>1, <1>2, <1>3, <1>4

(***************************************************************************)
(* The calls that move the cursor                                          *)
(***************************************************************************)
\* A lookup finds a node or nothing, wherever its descent stops.
LEMMA LookupFinds ==
  ASSUME MapOK(tmap), NEW k \in Keys, NEW flag \in SearchFlags, NEW t \in Descent(k)
  PROVE  LookupNode(k, flag, t) \in Nodes \cup {NULL}
<1>1. t \in Nodes \cup {NULL}
  <2>1. Nodes \subseteq Keys /\ MaxKey \in Nat
    BY TreemapAssumption DEF MapOK, Nodes
  <2>2. MapPrev(k) \in Nodes \cup {NULL} /\ MapNext(k) \in Nodes \cup {NULL}
    <3>1. IsPrev(Nodes, k, MapPrev(k)) /\ IsNext(Nodes, k, MapNext(k))
      BY <2>1, PrevIs, NextIs
    <3> QED
      BY <3>1, Zenon DEF IsPrev, IsNext
  <2> QED
    BY <2>2 DEF Descent
<1>2. t # NULL => MapPrev(t) \in Nodes \cup {NULL} /\ MapNext(t) \in Nodes \cup {NULL}
  BY <1>1, Neighbours
<1> QED
  BY <1>1, <1>2 DEF LookupNode, SearchFlags

\* The cursor of a successful search, or of a step to another node.
LEMMA AtNodeValid ==
  ASSUME MapOK(tmap), NEW c \in Cursors, NEW last \in BOOLEAN,
         c.state \in {"DATA", "BEGIN", "END"},
         c.state = "DATA" => /\ c.curr \in Nodes
                             /\ IsPrev(Nodes, c.curr, c.prev) /\ IsNext(Nodes, c.curr, c.next),
         c.state = "BEGIN" => c.curr = NULL /\ c.prev = NULL /\ IsNext(Nodes, 0, c.next),
         c.state = "END" => c.curr = NULL /\ c.next = NULL /\ IsPrev(Nodes, MaxKey + 1, c.prev)
  PROVE  Valid(tmap, AtNode(c, last))
<1>1. CASE c.state = "DATA"
  <2> DEFINE v == IF last THEN Last(tmap[c.curr]) ELSE Head(tmap[c.curr])
             r == [c EXCEPT !.head = c.curr, !.cell = v]
  <2>1. AtNode(c, last) = r
    BY <1>1 DEF AtNode
  <2>2. v \in Range(tmap[c.curr]) /\ v \in Vals
    BY <1>1, CellFacts DEF MapOK, Nodes
  <2> HIDE DEF v
  <2>3. /\ r \in Cursors /\ r.state = "DATA" /\ r.curr = c.curr /\ r.head = c.curr /\ r.cell = v
        /\ r.prev = c.prev /\ r.next = c.next
    BY <1>1, <2>2 DEF Cursors
  <2> HIDE DEF r
  <2> QED
    BY <1>1, <2>1, <2>2, <2>3 DEF Valid, Nodes
<1>2. CASE c.state # "DATA"
  <2> DEFINE r == [c EXCEPT !.head = NULL, !.cell = InvalidVal]
  <2>1. AtNode(c, last) = r
    BY <1>2 DEF AtNode
  <2>2. /\ r \in Cursors /\ r.state = c.state /\ r.curr = c.curr /\ r.head = NULL
        /\ r.cell = InvalidVal /\ r.prev = c.prev /\ r.next = c.next
    BY DEF Cursors, Pointers
  <2> HIDE DEF r
  <2> QED
    BY <1>2, <2>1, <2>2 DEF Valid, Nodes
<1> QED
  BY <1>1, <1>2

\* multimap_cursor_search leaves a valid cursor, found or not.
LEMMA SearchValid ==
  ASSUME MapOK(tmap), NEW c \in Cursors, NEW node \in Nodes, NEW last \in BOOLEAN
  PROVE  Valid(tmap, AtNode(MapCursorSearch(c, node), last))
<1> DEFINE p == MapPrev(node)
           n == MapNext(node)
           r == [c EXCEPT !.state = "DATA", !.curr = node, !.prev = p, !.next = n]
<1>1. node # NULL /\ node \in Pointers
  BY NotNull, Neighbours DEF Pointers
<1>2. p \in Pointers /\ n \in Pointers /\ IsPrev(Nodes, node, p) /\ IsNext(Nodes, node, n)
  BY Neighbours
<1>3. MapCursorSearch(c, node) = r
  BY <1>1 DEF MapCursorSearch
<1> HIDE DEF p, n
<1>4. r \in Cursors /\ r.state = "DATA" /\ r.curr = node /\ r.prev = p /\ r.next = n
  BY <1>1, <1>2 DEF Cursors
<1> HIDE DEF r
<1>5. Valid(tmap, AtNode(r, last))
  BY <1>2, <1>4, AtNodeValid
<1> QED
  BY <1>3, <1>5

\* A search that finds nothing leaves an invalid cursor, with the head and cell it had.
LEMMA NotFoundValid ==
  ASSUME MapOK(tmap), NEW c \in Cursors
  PROVE  Valid(tmap, MapCursorSearch(c, NULL))
<1> DEFINE r == [CursorInit EXCEPT !.head = c.head, !.cell = c.cell]
<1>1. MapCursorSearch(c, NULL) = r
  BY DEF MapCursorSearch
<1>2. r \in Cursors /\ r.state = "INVALID"
  BY DEF Cursors, CursorInit, Pointers
<1> HIDE DEF r
<1> QED
  BY <1>1, <1>2 DEF Valid

\* multimap_cursor_begin and multimap_cursor_end
LEMMA EndsValid ==
  ASSUME MapOK(tmap)
  PROVE  Valid(tmap, MapCursorBegin) /\ Valid(tmap, MapCursorEnd) /\ Valid(tmap, CursorInit)
<1>1. Nodes \subseteq Keys /\ MaxKey \in Nat
  BY TreemapAssumption DEF MapOK, Nodes
<1>2. IsNext(Nodes, 0, MapFirst) /\ IsPrev(Nodes, MaxKey + 1, MapLast)
  BY <1>1, EndsAre
<1>3. MapFirst \in Pointers /\ MapLast \in Pointers
  <2>1. MapFirst \in Nodes \cup {NULL} /\ MapLast \in Nodes \cup {NULL}
    BY <1>2, Zenon DEF IsNext, IsPrev
  <2> QED
    BY <1>1, <2>1 DEF Pointers
<1>4. /\ MapCursorBegin \in Cursors /\ MapCursorBegin.state = "BEGIN"
      /\ MapCursorBegin.prev = NULL /\ MapCursorBegin.curr = NULL /\ MapCursorBegin.head = NULL
      /\ MapCursorBegin.next = MapFirst /\ MapCursorBegin.cell = InvalidVal
  BY <1>3 DEF MapCursorBegin, CursorInit, Cursors, Pointers
<1>5. /\ MapCursorEnd \in Cursors /\ MapCursorEnd.state = "END"
      /\ MapCursorEnd.next = NULL /\ MapCursorEnd.curr = NULL /\ MapCursorEnd.head = NULL
      /\ MapCursorEnd.prev = MapLast /\ MapCursorEnd.cell = InvalidVal
  BY <1>3 DEF MapCursorEnd, CursorInit, Cursors, Pointers
<1>6. CursorInit \in Cursors /\ CursorInit.state = "INVALID"
  BY DEF CursorInit, Cursors, Pointers
<1> QED
  BY <1>2, <1>4, <1>5, <1>6 DEF Valid, Nodes

\* map_cursor_next, from a valid cursor: the remembered pointer is followed.
LEMMA MapNextMoves ==
  ASSUME MapOK(tmap), NEW c, Valid(tmap, c), c.state \in {"BEGIN", "DATA"}
  PROVE  LET r == MapCursorNext(c)
         IN  /\ r \in Cursors /\ r.curr = c.next /\ r.prev = c.curr
             /\ r.state = (IF c.next # NULL THEN "DATA" ELSE "END")
             /\ c.next # NULL => /\ c.next \in Nodes
                                 /\ IsPrev(Nodes, c.next, c.curr) /\ IsNext(Nodes, c.next, r.next)
             /\ c.next = NULL => r.next = NULL /\ IsPrev(Nodes, MaxKey + 1, c.curr)
<1> DEFINE n == MapNext(c.next)
           st == IF c.next # NULL THEN "DATA" ELSE "END"
           r == [c EXCEPT !.prev = c.curr, !.curr = c.next, !.next = n, !.state = st]
<1>1. Nodes \subseteq Keys /\ MaxKey \in Nat /\ \A k \in Nodes : k \in Nat /\ k > 0 /\ k < MaxKey + 1
  BY TreemapAssumption DEF MapOK, Nodes, Keys
<1>2. c \in Cursors /\ c.next \in Pointers /\ c.curr \in Pointers /\ c.curr \in Nat /\ c.next \in Nat
  BY DEF Valid, Cursors, Pointers, Keys, NULL
<1>3. IsNext(Nodes, c.curr, c.next) /\ (c.state = "DATA" => c.curr \in Nodes)
      /\ (c.state = "BEGIN" => c.curr = NULL)
  BY DEF Valid, Nodes, NULL
<1>4. c.next # NULL => c.next \in Nodes /\ c.next > c.curr /\ \A k \in Nodes : k > c.curr => c.next <= k
  BY <1>3, Zenon DEF IsNext
<1>5. c.next # NULL => IsPrev(Nodes, c.next, c.curr)
  <2>1. ASSUME c.next # NULL, NEW k \in Nodes, k < c.next PROVE k <= c.curr
    BY <1>1, <1>2, <1>4, <2>1
  <2>2. ASSUME c.next # NULL, c.state = "BEGIN" PROVE \A k \in Nodes : k >= c.next
    BY <1>1, <1>2, <1>3, <1>4, <2>2 DEF NULL
  <2> QED
    BY <1>3, <1>4, <2>1, <2>2 DEF IsPrev
<1>6. c.next = NULL => IsPrev(Nodes, MaxKey + 1, c.curr)
  <2>1. ASSUME c.next = NULL, NEW k \in Nodes PROVE k <= c.curr
    BY <1>1, <1>2, <1>3, <2>1 DEF IsNext, NULL
  <2>2. ASSUME c.next = NULL, c.state = "BEGIN" PROVE Nodes = {}
    BY <1>1, <1>2, <1>3, <2>1, <2>2 DEF NULL
  <2> QED
    BY <1>1, <1>3, <2>1, <2>2 DEF IsPrev
<1>7. /\ n \in Pointers /\ (c.next # NULL => IsNext(Nodes, c.next, n))
      /\ (c.next = NULL => n = NULL)
  BY <1>4, Neighbours, NotNull DEF MapNext
<1>8. MapCursorNext(c) = r /\ st \in {"DATA", "END"}
  BY DEF MapCursorNext
<1> HIDE DEF n, st
<1>9. r \in Cursors /\ r.curr = c.next /\ r.prev = c.curr /\ r.next = n /\ r.state = st
  BY <1>2, <1>7, <1>8 DEF Cursors
<1> HIDE DEF r
<1> QED
  BY <1>4, <1>5, <1>6, <1>7, <1>8, <1>9 DEF st

\* map_cursor_prev
LEMMA MapPrevMoves ==
  ASSUME MapOK(tmap), NEW c, Valid(tmap, c), c.state \in {"END", "DATA"}
  PROVE  LET r == MapCursorPrev(c)
         IN  /\ r \in Cursors /\ r.curr = c.prev /\ r.next = c.curr
             /\ r.state = (IF c.prev # NULL THEN "DATA" ELSE "BEGIN")
             /\ c.prev # NULL => /\ c.prev \in Nodes
                                 /\ IsNext(Nodes, c.prev, c.curr) /\ IsPrev(Nodes, c.prev, r.prev)
             /\ c.prev = NULL => r.prev = NULL /\ IsNext(Nodes, 0, c.curr)
<1> DEFINE n == MapPrev(c.prev)
           st == IF c.prev # NULL THEN "DATA" ELSE "BEGIN"
           r == [c EXCEPT !.next = c.curr, !.curr = c.prev, !.prev = n, !.state = st]
           at == IF c.state = "END" THEN MaxKey + 1 ELSE c.curr
<1>1. Nodes \subseteq Keys /\ MaxKey \in Nat /\ \A k \in Nodes : k \in Nat /\ k > 0 /\ k < MaxKey + 1
  BY TreemapAssumption DEF MapOK, Nodes, Keys
<1>2. c \in Cursors /\ c.prev \in Pointers /\ c.curr \in Pointers /\ c.curr \in Nat /\ c.prev \in Nat
  BY DEF Valid, Cursors, Pointers, Keys, NULL
<1>3. IsPrev(Nodes, at, c.prev) /\ (c.state = "DATA" => c.curr \in Nodes /\ at = c.curr)
      /\ (c.state = "END" => c.curr = NULL /\ at = MaxKey + 1) /\ at \in Nat
  BY <1>1, <1>2 DEF Valid, Nodes
<1> HIDE DEF at
<1>4. c.prev # NULL => c.prev \in Nodes /\ c.prev < at /\ \A k \in Nodes : k < at => k <= c.prev
  BY <1>3, Zenon DEF IsPrev
<1>5. c.prev # NULL => IsNext(Nodes, c.prev, c.curr)
  <2>1. ASSUME c.prev # NULL, NEW k \in Nodes, k > c.prev PROVE at <= k
    BY <1>1, <1>2, <1>3, <1>4, <2>1
  <2>2. ASSUME c.prev # NULL, c.state = "END", NEW k \in Nodes PROVE k <= c.prev
    BY <1>1, <1>2, <1>3, <1>4, <2>2
  <2> QED
    BY <1>3, <1>4, <2>1, <2>2 DEF IsNext
<1>6. c.prev = NULL => IsNext(Nodes, 0, c.curr)
  <2>1. ASSUME c.prev = NULL, NEW k \in Nodes PROVE k >= at
    BY <1>1, <1>2, <1>3, <2>1 DEF IsPrev, NULL
  <2>2. ASSUME c.prev = NULL, c.state = "END" PROVE Nodes = {}
    BY <1>1, <1>2, <1>3, <2>1, <2>2
  <2> QED
    BY <1>1, <1>3, <2>1, <2>2 DEF IsNext
<1>7. /\ n \in Pointers /\ (c.prev # NULL => IsPrev(Nodes, c.prev, n))
      /\ (c.prev = NULL => n = NULL)
  BY <1>4, Neighbours, NotNull DEF MapPrev
<1>8. MapCursorPrev(c) = r /\ st \in {"DATA", "BEGIN"}
  BY DEF MapCursorPrev
<1> HIDE DEF n, st
<1>9. r \in Cursors /\ r.curr = c.prev /\ r.next = c.curr /\ r.prev = n /\ r.state = st
  BY <1>2, <1>7, <1>8 DEF Cursors
<1> HIDE DEF r
<1> QED
  BY <1>4, <1>5, <1>6, <1>7, <1>8, <1>9 DEF st

\* multimap_cursor_next: to the next cell of the list, or to the first of the next node.
LEMMA NextValid ==
  ASSUME MapOK(tmap), NEW c, Valid(tmap, c)
  PROVE  Valid(tmap, NextOf(c))
<1>1. CASE c.state \in {"END", "INVALID"}
  BY <1>1 DEF NextOf, HasNextCell
<1>2. CASE HasNextCell(c)
  <2> DEFINE i == CellIndex(c)
             v == tmap[c.head][i + 1]
             r == [c EXCEPT !.cell = v]
  <2>1. /\ c \in Cursors /\ c.state = "DATA" /\ c.head = c.curr /\ c.curr \in DOMAIN tmap
        /\ CellsOK(tmap[c.head]) /\ i < Len(tmap[c.head]) /\ c.cell \in Range(tmap[c.head])
    BY <1>2 DEF HasNextCell, Valid, MapOK
  <2>2. i \in 1..Len(tmap[c.head]) /\ Len(tmap[c.head]) \in Nat
    BY <2>1, CellFacts DEF CellIndex
  <2> HIDE DEF i
  <2>3. i + 1 \in 1..Len(tmap[c.head])
    BY <2>1, <2>2
  <2>4. v \in Range(tmap[c.curr]) /\ v \in Vals
    BY <2>1, <2>3, CellFacts
  <2>5. NextOf(c) = r
    BY <1>2, <2>1 DEF NextOf, i
  <2> HIDE DEF v
  <2>6. /\ r \in Cursors /\ r.state = "DATA" /\ r.curr = c.curr /\ r.head = c.head /\ r.cell = v
        /\ r.prev = c.prev /\ r.next = c.next
    BY <2>1, <2>4 DEF Cursors
  <2> HIDE DEF r
  <2> QED
    BY <2>1, <2>4, <2>5, <2>6 DEF Valid
<1>3. CASE c.state \in {"BEGIN", "DATA"} /\ ~HasNextCell(c)
  <2> DEFINE r == MapCursorNext(c)
  <2>1. NextOf(c) = AtNode(r, FALSE)
    BY <1>3 DEF NextOf
  <2>2. /\ r \in Cursors /\ r.curr = c.next /\ r.prev = c.curr
        /\ r.state = (IF c.next # NULL THEN "DATA" ELSE "END")
        /\ c.next # NULL => /\ c.next \in Nodes
                            /\ IsPrev(Nodes, c.next, c.curr) /\ IsNext(Nodes, c.next, r.next)
        /\ c.next = NULL => r.next = NULL /\ IsPrev(Nodes, MaxKey + 1, c.curr)
    BY <1>3, MapNextMoves
  <2> HIDE DEF r
  <2>3. Valid(tmap, AtNode(r, FALSE))
    BY <2>2, AtNodeValid
  <2> QED
    BY <2>1, <2>3
<1> QED
  BY <1>1, <1>2, <1>3 DEF Valid, Cursors

\* multimap_cursor_prev
LEMMA PrevValid ==
  ASSUME MapOK(tmap), NEW c, Valid(tmap, c)
  PROVE  Valid(tmap, PrevOf(c))
<1>1. CASE c.state \in {"BEGIN", "INVALID"}
  BY <1>1 DEF PrevOf, HasPrevCell
<1>2. CASE HasPrevCell(c)
  <2> DEFINE i == CellIndex(c)
             v == tmap[c.head][i - 1]
             r == [c EXCEPT !.cell = v]
  <2>1. /\ c \in Cursors /\ c.state = "DATA" /\ c.head = c.curr /\ c.curr \in DOMAIN tmap
        /\ CellsOK(tmap[c.head]) /\ i > 1 /\ c.cell \in Range(tmap[c.head])
    BY <1>2 DEF HasPrevCell, Valid, MapOK
  <2>2. i \in 1..Len(tmap[c.head]) /\ Len(tmap[c.head]) \in Nat
    BY <2>1, CellFacts DEF CellIndex
  <2> HIDE DEF i
  <2>3. i - 1 \in 1..Len(tmap[c.head])
    BY <2>1, <2>2
  <2>4. v \in Range(tmap[c.curr]) /\ v \in Vals
    BY <2>1, <2>3, CellFacts
  <2>5. PrevOf(c) = r
    BY <1>2, <2>1 DEF PrevOf, i
  <2> HIDE DEF v
  <2>6. /\ r \in Cursors /\ r.state = "DATA" /\ r.curr = c.curr /\ r.head = c.head /\ r.cell = v
        /\ r.prev = c.prev /\ r.next = c.next
    BY <2>1, <2>4 DEF Cursors
  <2> HIDE DEF r
  <2> QED
    BY <2>1, <2>4, <2>5, <2>6 DEF Valid
<1>3. CASE c.state \in {"END", "DATA"} /\ ~HasPrevCell(c)
  <2> DEFINE r == MapCursorPrev(c)
  <2>1. PrevOf(c) = AtNode(r, TRUE)
    BY <1>3 DEF PrevOf
  <2>2. /\ r \in Cursors /\ r.curr = c.prev /\ r.next = c.curr
        /\ r.state = (IF c.prev # NULL THEN "DATA" ELSE "BEGIN")
        /\ c.prev # NULL => /\ c.prev \in Nodes
                            /\ IsNext(Nodes, c.prev, c.curr) /\ IsPrev(Nodes, c.prev, r.prev)
        /\ c.prev = NULL => r.prev = NULL /\ IsNext(Nodes, 0, c.curr)
    BY <1>3, MapPrevMoves
  <2> HIDE DEF r
  <2>3. Valid(tmap, AtNode(r, TRUE))
    BY <2>2, AtNodeValid
  <2> QED
    BY <2>1, <2>3
<1> QED
  BY <1>1, <1>2, <1>3 DEF Valid, Cursors

(***************************************************************************)
(* The calls that change the map                                           *)
(***************************************************************************)
\* Lists after hlist_add_head and hlist_del.
LEMMA AddCell ==
  ASSUME NEW s, CellsOK(s), NEW v \in Vals, v \notin Range(s)
  PROVE  CellsOK(<<v>> \o s) /\ Len(<<v>> \o s) = Len(s) + 1
<1>1. s \in Seq(Vals) /\ Len(s) \in Nat /\ DOMAIN s = 1..Len(s)
  BY DEF CellsOK
<1> DEFINE r == <<v>> \o s
<1>2. r \in Seq(Vals) /\ Len(r) = Len(s) + 1 /\ r[1] = v
      /\ \A i \in 2..(Len(s) + 1) : r[i] = s[i - 1] /\ i - 1 \in 1..Len(s)
  BY <1>1
<1> HIDE DEF r
<1>3. \A i \in 1..Len(s) : s[i] # v
  BY <1>1 DEF Range
<1>4. ASSUME NEW i \in 1..Len(r), NEW j \in 1..Len(r), r[i] = r[j] PROVE i = j
  <2>1. i = 1 \/ i \in 2..(Len(s) + 1)
    BY <1>1, <1>2
  <2>2. j = 1 \/ j \in 2..(Len(s) + 1)
    BY <1>1, <1>2
  <2>3. CASE i = 1 /\ j # 1
    BY <1>2, <1>3, <1>4, <2>2, <2>3
  <2>4. CASE i # 1 /\ j = 1
    BY <1>2, <1>3, <1>4, <2>1, <2>4
  <2>5. CASE i # 1 /\ j # 1
    <3>1. i \in Int /\ j \in Int /\ s[i - 1] = s[j - 1] /\ i - 1 \in 1..Len(s) /\ j - 1 \in 1..Len(s)
      BY <1>2, <1>4, <2>1, <2>2, <2>5
    <3>2. i - 1 = j - 1
      BY <3>1 DEF CellsOK
    <3> QED
      BY <3>1, <3>2
  <2> QED
    BY <2>3, <2>4, <2>5
<1>5. CellsOK(r)
  BY <1>1, <1>2, <1>4 DEF CellsOK
<1> QED
  BY <1>2, <1>5 DEF r

\* A list without its x-th element.
LEMMA RemoveAtIs ==
  ASSUME NEW S, NEW s \in Seq(S), NEW x \in 1..Len(s)
  PROVE  /\ RemoveAt(s, x) \in Seq(S) /\ Len(RemoveAt(s, x)) = Len(s) - 1
         /\ \A i \in 1..(x - 1) : RemoveAt(s, x)[i] = s[i]
         /\ \A i \in x..(Len(s) - 1) : RemoveAt(s, x)[i] = s[i + 1]
<1> DEFINE a == SubSeq(s, 1, x - 1)
           b == SubSeq(s, x + 1, Len(s))
<1>1. Len(s) \in Nat /\ x \in Nat /\ x >= 1 /\ x <= Len(s) /\ \A i \in 1..Len(s) : s[i] \in S
  OBVIOUS
<1>2. a \in Seq(S) /\ Len(a) = x - 1 /\ \A i \in 1..(x - 1) : a[i] = s[i]
  <2>1. \A i \in 1..(x - 1) : s[i] \in S
    BY <1>1
  <2>2. a \in Seq(S) /\ Len(a) = (IF 1 <= x - 1 THEN (x - 1) - 1 + 1 ELSE 0)
        /\ \A i \in 1..((x - 1) - 1 + 1) : a[i] = s[1 + i - 1]
    BY <1>1, <2>1, SubSeqProperties
  <2> HIDE DEF a
  <2>3. Len(a) = x - 1
    BY <1>1, <2>2
  <2>4. ASSUME NEW i \in 1..(x - 1) PROVE a[i] = s[i]
    <3>1. i \in 1..((x - 1) - 1 + 1) /\ 1 + i - 1 = i
      BY <1>1
    <3> QED
      BY <2>2, <3>1
  <2> QED
    BY <2>2, <2>3, <2>4
<1>3. b \in Seq(S) /\ Len(b) = Len(s) - x /\ \A i \in 1..(Len(s) - x) : b[i] = s[x + i]
  <2>1. \A i \in (x + 1)..Len(s) : s[i] \in S
    BY <1>1
  <2>2. b \in Seq(S) /\ Len(b) = (IF x + 1 <= Len(s) THEN Len(s) - (x + 1) + 1 ELSE 0)
        /\ \A i \in 1..(Len(s) - (x + 1) + 1) : b[i] = s[(x + 1) + i - 1]
    BY <1>1, <2>1, SubSeqProperties
  <2> HIDE DEF b
  <2>3. Len(b) = Len(s) - x
    BY <1>1, <2>2
  <2>4. ASSUME NEW i \in 1..(Len(s) - x) PROVE b[i] = s[x + i]
    <3>1. i \in 1..(Len(s) - (x + 1) + 1) /\ (x + 1) + i - 1 = x + i
      BY <1>1
    <3> QED
      BY <2>2, <3>1
  <2> QED
    BY <2>2, <2>3, <2>4
<1> HIDE DEF a, b
<1> DEFINE r == a \o b
<1>4. r \in Seq(S) /\ Len(r) = Len(a) + Len(b)
      /\ \A i \in 1..(Len(a) + Len(b)) : r[i] = IF i <= Len(a) THEN a[i] ELSE b[i - Len(a)]
  BY <1>2, <1>3, ConcatProperties
<1> HIDE DEF r
<1>5. ASSUME NEW i \in 1..(x - 1) PROVE r[i] = s[i]
  <2>1. i \in 1..(Len(a) + Len(b)) /\ i <= Len(a)
    BY <1>1, <1>2, <1>3
  <2> QED
    BY <1>2, <1>4, <2>1
<1>6. ASSUME NEW i \in x..(Len(s) - 1) PROVE r[i] = s[i + 1]
  <2>1. Len(a) = x - 1 /\ Len(b) = Len(s) - x
    BY <1>2, <1>3
  <2>2. i \in 1..(Len(a) + Len(b)) /\ ~(i <= Len(a))
    BY <1>1, <2>1
  <2>3. i - Len(a) \in 1..(Len(s) - x) /\ x + (i - Len(a)) = i + 1
    BY <1>1, <2>1
  <2>4. r[i] = b[i - Len(a)]
    BY <1>4, <2>2
  <2>5. b[i - Len(a)] = s[x + (i - Len(a))]
    BY <1>3, <2>3
  <2> QED
    BY <2>3, <2>4, <2>5
<1>7. RemoveAt(s, x) = r
  BY DEF RemoveAt, r, a, b
<1>8. Len(r) = Len(s) - 1
  BY <1>1, <1>2, <1>3, <1>4
<1> QED
  BY <1>4, <1>5, <1>6, <1>7, <1>8

\* hlist_del takes the one cell with the value, and the list stays without repetitions.
LEMMA DelCell ==
  ASSUME NEW s, CellsOK(s), NEW v \in Range(s), Len(s) # 1
  PROVE  /\ CellsOK(HlistDel(s, v)) /\ Len(HlistDel(s, v)) = Len(s) - 1
         /\ \A w \in Range(s) : w # v => w \in Range(HlistDel(s, v))
<1>1. s \in Seq(Vals) /\ Len(s) \in Nat /\ Len(s) > 1 /\ DOMAIN s = 1..Len(s)
  <2>1. s \in Seq(Vals) /\ Len(s) > 0
    BY DEF CellsOK
  <2>2. Len(s) \in Nat /\ DOMAIN s = 1..Len(s)
    BY <2>1
  <2> QED
    BY <2>1, <2>2
<1>2. PICK x : x = IndexOf(s, v) /\ x \in 1..Len(s) /\ s[x] = v
  BY CellFacts
<1>3. PICK r : r = HlistDel(s, v)
  OBVIOUS
<1>4. r = RemoveAt(s, x)
  BY <1>2, <1>3 DEF HlistDel
<1>6. /\ r \in Seq(Vals) /\ Len(r) = Len(s) - 1
      /\ \A i \in 1..(x - 1) : r[i] = s[i]
      /\ \A i \in x..(Len(s) - 1) : r[i] = s[i + 1]
  BY <1>1, <1>2, <1>4, RemoveAtIs
<1>7. ASSUME NEW i \in 1..Len(r), NEW j \in 1..Len(r), r[i] = r[j] PROVE i = j
  <2> DEFINE at(k) == IF k < x THEN k ELSE k + 1
  <2>1. \A k \in 1..Len(r) : k \in Int /\ r[k] = s[at(k)] /\ at(k) \in 1..Len(s)
    BY <1>1, <1>2, <1>6
  <2>2. at(i) = at(j)
    <3> HIDE DEF at
    <3> QED
      BY <1>7, <2>1 DEF CellsOK
  <2> QED
    BY <1>2, <2>1, <2>2
<1>8. ASSUME NEW w \in Range(s), w # v PROVE w \in Range(r)
  <2>1. PICK i \in 1..Len(s) : s[i] = w
    BY <1>1 DEF Range
  <2>2. DOMAIN r = 1..(Len(s) - 1)
    BY <1>1, <1>6
  <2>3. \E k \in 1..(Len(s) - 1) : r[k] = w
    <3>1. CASE i < x
      <4>1. i \in 1..(x - 1) /\ i \in 1..(Len(s) - 1)
        BY <1>1, <1>2, <2>1, <3>1
      <4> QED
        BY <1>6, <2>1, <4>1
    <3>2. CASE i > x
      <4>1. i - 1 \in x..(Len(s) - 1) /\ (i - 1) + 1 = i /\ i - 1 \in 1..(Len(s) - 1)
        BY <1>1, <1>2, <2>1, <3>2
      <4> QED
        BY <1>6, <2>1, <4>1
    <3> QED
      BY <1>2, <1>8, <2>1, <3>1, <3>2
  <2> QED
    BY <2>2, <2>3 DEF Range
<1> QED
  BY <1>1, <1>3, <1>6, <1>7, <1>8 DEF CellsOK

\* map_del leaves the lists of the other nodes.
LEMMA WithoutIs ==
  ASSUME NEW k
  PROVE  /\ DOMAIN Without(k) = Nodes \ {k}
         /\ \A j \in Nodes \ {k} : Without(k)[j] = tmap[j]
BY DEF Without, Restrict, Nodes

\* The next cell is another one: of another node, or another value of the same node.
LEMMA NextOther ==
  ASSUME MapOK(tmap), NEW c, Valid(tmap, c), c.state = "DATA"
  PROVE  LET r == NextOf(c)
         IN  r.state = "DATA" => r.curr # c.curr \/ r.cell # c.cell
<1>1. CASE HasNextCell(c)
  <2> DEFINE i == CellIndex(c)
             s == tmap[c.head]
             r == [c EXCEPT !.cell = s[i + 1]]
  <2>1. CellsOK(s) /\ i < Len(s) /\ c.cell \in Range(s) /\ c \in Cursors
    BY <1>1 DEF HasNextCell, Valid, MapOK
  <2>2. i \in 1..Len(s) /\ Len(s) \in Nat /\ s[i] = c.cell
    BY <2>1, CellFacts DEF CellIndex
  <2>3. NextOf(c) = r
    BY <1>1 DEF NextOf, i
  <2> HIDE DEF i, s
  <2>4. i + 1 \in 1..Len(s) /\ i + 1 # i
    BY <2>1, <2>2
  <2>5. s[i + 1] # s[i]
    BY <2>1, <2>2, <2>4 DEF CellsOK
  <2>6. r.cell = s[i + 1]
    BY <2>1 DEF Cursors
  <2> QED
    BY <2>2, <2>3, <2>5, <2>6
<1>2. CASE ~HasNextCell(c)
  <2> DEFINE r == MapCursorNext(c)
             a == AtNode(r, FALSE)
  <2>1. NextOf(c) = a
    BY <1>2 DEF NextOf
  <2>2. /\ r \in Cursors /\ r.curr = c.next
        /\ r.state = (IF c.next # NULL THEN "DATA" ELSE "END")
    BY MapNextMoves
  <2>3. c.curr \in Nat /\ c.next \in Nat /\ (c.next # NULL => c.next > c.curr)
    <3>1. c \in Cursors /\ IsNext(Nodes, c.curr, c.next)
      BY DEF Valid, Nodes
    <3>2. c.curr \in Nat /\ c.next \in Nat
      BY <3>1 DEF Cursors, Pointers, Keys, NULL
    <3>3. c.next # NULL => c.next > c.curr
      BY <3>1, Zenon DEF IsNext
    <3> QED
      BY <3>2, <3>3
  <2> HIDE DEF r
  <2>4. a.state = r.state /\ a.curr = r.curr
    BY <2>2 DEF AtNode, Cursors
  <2> HIDE DEF a
  <2> QED
    BY <2>1, <2>2, <2>3, <2>4
<1> QED
  BY <1>1, <1>2

\* multimap_cursor_del of a cell that is not the last of its key.
LEMMA DelCellValid ==
  ASSUME MapOK(tmap), NEW c, Valid(tmap, c), c.state = "DATA", Len(tmap[c.head]) # 1
  PROVE  Valid([tmap EXCEPT ![c.head] = HlistDel(@, c.cell)], NextOf(c))
<1> DEFINE m == [tmap EXCEPT ![c.head] = HlistDel(@, c.cell)]
<1>1. /\ c.head = c.curr /\ c.curr \in DOMAIN tmap /\ CellsOK(tmap[c.curr])
      /\ c.cell \in Range(tmap[c.curr])
  BY DEF Valid, MapOK
<1>2. PICK r : r = NextOf(c)
  OBVIOUS
<1>3. Valid(tmap, r) /\ (r.state = "DATA" => r.curr # c.curr \/ r.cell # c.cell)
  BY <1>2, NextValid, NextOther
<1>4. DOMAIN m = DOMAIN tmap /\ m[c.curr] = HlistDel(tmap[c.curr], c.cell)
      /\ \A k \in DOMAIN tmap : k # c.curr => m[k] = tmap[k]
  BY <1>1
<1>5. \A w \in Range(tmap[c.curr]) : w # c.cell => w \in Range(m[c.curr])
  BY <1>1, <1>4, DelCell
<1> HIDE DEF m
<1>6. r.state = "DATA" => r.cell \in Range(m[r.curr])
  <2>1. ASSUME r.state = "DATA", r.curr = c.curr PROVE r.cell \in Range(m[r.curr])
    BY <1>3, <1>5, <2>1 DEF Valid
  <2>2. ASSUME r.state = "DATA", r.curr # c.curr PROVE r.cell \in Range(m[r.curr])
    BY <1>3, <1>4, <2>2 DEF Valid
  <2> QED
    BY <2>1, <2>2
<1>7. Valid(m, r)
  BY <1>3, <1>4, <1>6 DEF Valid
<1> QED
  BY <1>2, <1>7 DEF m

\* multimap_cursor_del of the last cell of a key: the pointer to the node before the
\* deleted one, which map_cursor_del restores, is the neighbour of the node moved to.
LEMMA DelNodeValid ==
  ASSUME MapOK(tmap), NEW c, Valid(tmap, c), c.state = "DATA", Len(tmap[c.head]) = 1
  PROVE  Valid(Without(c.curr),
               [MapCursorDel(c) EXCEPT !.head = NextOf(c).head, !.cell = NextOf(c).cell])
<1> DEFINE N == Nodes \ {c.curr}
           r == MapCursorNext(c)
           a == AtNode(r, FALSE)
           d == [r EXCEPT !.prev = c.prev]
           e == [d EXCEPT !.head = a.head, !.cell = a.cell]
<1>1. /\ c \in Cursors /\ c.head = c.curr /\ c.curr \in Nodes /\ CellsOK(tmap[c.curr])
      /\ c.cell \in Range(tmap[c.curr]) /\ IsPrev(Nodes, c.curr, c.prev)
      /\ IsNext(Nodes, c.curr, c.next)
  BY DEF Valid, MapOK, Nodes
<1>2. ~HasNextCell(c)
  BY <1>1, CellFacts DEF HasNextCell, CellIndex
<1>3. NextOf(c) = a
  BY <1>2 DEF NextOf
<1>4. /\ r \in Cursors /\ r.curr = c.next
      /\ r.state = (IF c.next # NULL THEN "DATA" ELSE "END")
      /\ c.next # NULL => c.next \in Nodes /\ IsNext(Nodes, c.next, r.next)
      /\ c.next = NULL => r.next = NULL
  BY MapNextMoves
<1>5. Valid(tmap, a)
  BY <1>2, <1>3, NextValid
<1>6. MapCursorDel(c) = d
  BY DEF MapCursorDel
<1> HIDE DEF r
<1>7. a.state = r.state /\ a.curr = r.curr /\ a.next = r.next
  BY <1>4 DEF AtNode, Cursors
<1>8. a \in Cursors
  BY <1>5 DEF Valid
<1> HIDE DEF a
<1>9. /\ e \in Cursors /\ e.state = r.state /\ e.curr = r.curr /\ e.next = r.next
      /\ e.prev = c.prev /\ e.head = a.head /\ e.cell = a.cell
  BY <1>1, <1>4, <1>8 DEF Cursors
<1>10. c.curr \in Nat /\ c.next \in Nat /\ c.prev \in Nat /\ r.next \in Nat /\ MaxKey \in Nat
       /\ \A k \in Nodes : k \in Nat /\ k > 0 /\ k < MaxKey + 1
  <2>1. \A p \in Pointers : p \in Nat
    BY DEF Pointers, Keys, NULL
  <2>2. c.curr \in Pointers /\ c.next \in Pointers /\ c.prev \in Pointers /\ r.next \in Pointers
    BY <1>1, <1>4 DEF Cursors
  <2>3. MaxKey \in Nat /\ \A k \in Nodes : k \in Nat /\ k > 0 /\ k < MaxKey + 1
    BY TreemapAssumption DEF MapOK, Nodes, Keys
  <2> QED
    BY <2>1, <2>2, <2>3
<1>11. c.prev # NULL => c.prev \in N /\ c.prev < c.curr /\ \A k \in Nodes : k < c.curr => k <= c.prev
  <2>1. c.prev # NULL => c.prev \in Nodes /\ c.prev < c.curr
                         /\ \A k \in Nodes : k < c.curr => k <= c.prev
    BY <1>1, Zenon DEF IsPrev
  <2> QED
    BY <1>10, <2>1
<1>12. c.prev = NULL => \A k \in Nodes : k >= c.curr
  BY <1>1, <1>10 DEF IsPrev, NULL
<1>13. c.next # NULL => c.next \in N /\ c.next > c.curr /\ \A k \in Nodes : k > c.curr => c.next <= k
  <2>1. c.next # NULL => c.next \in Nodes /\ c.next > c.curr
                         /\ \A k \in Nodes : k > c.curr => c.next <= k
    BY <1>1, Zenon DEF IsNext
  <2> QED
    BY <1>10, <2>1
<1>14. c.next = NULL => \A k \in Nodes : k <= c.curr
  BY <1>1, <1>10 DEF IsNext, NULL
<1>15. c.next # NULL => IsPrev(N, c.next, c.prev)
  <2>1. ASSUME c.next # NULL, NEW k \in N, k < c.next PROVE k < c.curr
    BY <1>10, <1>13, <2>1
  <2>2. ASSUME c.next # NULL, c.prev = NULL, NEW k \in N PROVE k >= c.next
    BY <1>10, <1>12, <1>13, <2>1, <2>2
  <2>3. ASSUME c.next # NULL, c.prev # NULL
        PROVE  c.prev \in N /\ c.prev < c.next /\ \A k \in N : k < c.next => k <= c.prev
    BY <1>10, <1>11, <1>13, <2>1, <2>3
  <2> HIDE DEF N
  <2> QED
    BY <2>2, <2>3 DEF IsPrev
<1>16. c.next = NULL => IsPrev(N, MaxKey + 1, c.prev)
  <2>1. ASSUME c.next = NULL, c.prev = NULL PROVE N = {}
    BY <1>10, <1>12, <1>14, <2>1
  <2>2. ASSUME c.next = NULL, c.prev # NULL
        PROVE  c.prev \in N /\ c.prev < MaxKey + 1 /\ \A k \in N : k <= c.prev
    <3>1. ASSUME NEW k \in N PROVE k <= c.prev
      BY <1>10, <1>11, <1>14, <2>2
    <3> QED
      BY <1>10, <1>11, <2>2, <3>1
  <2> HIDE DEF N
  <2> QED
    BY <2>1, <2>2 DEF IsPrev
<1>17. c.next # NULL => IsNext(N, c.next, r.next)
  <2>1. ASSUME c.next # NULL, r.next # NULL
        PROVE  r.next \in N /\ r.next > c.next /\ \A k \in N : k > c.next => r.next <= k
    <3>1. r.next \in Nodes /\ r.next > c.next /\ \A k \in Nodes : k > c.next => r.next <= k
      BY <1>4, <2>1, Zenon DEF IsNext
    <3> QED
      BY <1>10, <1>13, <2>1, <3>1
  <2>2. ASSUME c.next # NULL, r.next = NULL PROVE \A k \in N : k <= c.next
    BY <1>4, <1>10, <2>2 DEF IsNext, NULL
  <2> HIDE DEF N
  <2> QED
    BY <2>1, <2>2 DEF IsNext
<1>18. DOMAIN Without(c.curr) = N /\ \A k \in N : Without(c.curr)[k] = tmap[k]
  BY WithoutIs
<1> HIDE DEF N, e
<1>19. c.next # NULL => e.head = c.next /\ e.cell \in Range(Without(c.curr)[c.next])
  BY <1>4, <1>5, <1>7, <1>9, <1>13, <1>18 DEF Valid
<1>20. c.next = NULL => e.head = NULL /\ e.cell = InvalidVal
  BY <1>4, <1>5, <1>7, <1>9 DEF Valid
<1>21. Valid(Without(c.curr), e)
  BY <1>4, <1>9, <1>13, <1>15, <1>16, <1>17, <1>18, <1>19, <1>20 DEF Valid
<1> QED
  BY <1>3, <1>6, <1>21 DEF e

(***************************************************************************)
(* The cells of a map, counted                                             *)
(***************************************************************************)
\* Cells for a map m.
CellsOf(m) == UNION {{k} \X DOMAIN m[k] : k \in DOMAIN m}

\* What is a cell of a map.
LEMMA InCells ==
  ASSUME NEW m, MapOK(m)
  PROVE  \A e : e \in CellsOf(m) <=> \E k \in DOMAIN m : \E i \in 1..Len(m[k]) : e = <<k, i>>
<1>1. \A k \in DOMAIN m : DOMAIN m[k] = 1..Len(m[k])
  BY DEF MapOK, CellsOK
<1> QED
  BY <1>1 DEF CellsOf

\* n has one cell more than m, in the list of k.
LEMMA OneMore ==
  ASSUME NEW m, NEW n, MapOK(m), MapOK(n), DOMAIN n = DOMAIN m, NEW k \in DOMAIN m,
         \A j \in DOMAIN m : j # k => n[j] = m[j],
         Len(n[k]) = Len(m[k]) + 1,
         IsFiniteSet(CellsOf(m)) \/ IsFiniteSet(CellsOf(n))
  PROVE  /\ IsFiniteSet(CellsOf(m)) /\ IsFiniteSet(CellsOf(n))
         /\ Cardinality(CellsOf(m)) \in Nat
         /\ Cardinality(CellsOf(n)) = Cardinality(CellsOf(m)) + 1
<1> DEFINE x == <<k, Len(m[k]) + 1>>
<1>1. Len(m[k]) \in Nat
  BY DEF MapOK, CellsOK
<1>2. CellsOf(n) = CellsOf(m) \cup {x}
  <2>1. ASSUME NEW e \in CellsOf(n) PROVE e \in CellsOf(m) \cup {x}
    <3>1. PICK j \in DOMAIN m : \E i \in 1..Len(n[j]) : e = <<j, i>>
      BY <2>1, InCells
    <3>2. PICK i \in 1..Len(n[j]) : e = <<j, i>>
      BY <3>1
    <3>3. i \in 1..Len(m[j]) \/ (j = k /\ i = Len(m[k]) + 1)
      BY <1>1, <3>2
    <3> QED
      BY <3>2, <3>3, InCells
  <2>2. ASSUME NEW e \in CellsOf(m) PROVE e \in CellsOf(n)
    <3>1. PICK j \in DOMAIN m : \E i \in 1..Len(m[j]) : e = <<j, i>>
      BY <2>2, InCells
    <3>2. PICK i \in 1..Len(m[j]) : e = <<j, i>>
      BY <3>1
    <3>3. i \in 1..Len(n[j])
      BY <1>1, <3>2
    <3> QED
      BY <3>2, <3>3, InCells
  <2>3. x \in CellsOf(n)
    <3>1. Len(m[k]) + 1 \in 1..Len(n[k])
      BY <1>1
    <3> QED
      BY <3>1, InCells
  <2> HIDE DEF x
  <2> QED
    BY <2>1, <2>2, <2>3
<1>3. x \notin CellsOf(m)
  <2>1. SUFFICES ASSUME NEW j \in DOMAIN m, NEW i \in 1..Len(m[j]), x = <<j, i>> PROVE FALSE
    BY InCells
  <2> QED
    BY <1>1, <2>1
<1> HIDE DEF x
<1>4. CellsOf(m) \in SUBSET CellsOf(n)
  BY <1>2
<1>5. IsFiniteSet(CellsOf(m))
  BY <1>4, FS_Subset
<1> QED
  BY <1>2, <1>3, <1>5, FS_AddElement, FS_CardinalityType

\* n is m without the node k.
LEMMA NodeLess ==
  ASSUME NEW m, NEW n, MapOK(m), MapOK(n), NEW k \in DOMAIN m, DOMAIN n = DOMAIN m \ {k},
         \A j \in DOMAIN n : n[j] = m[j],
         IsFiniteSet(CellsOf(m)) \/ IsFiniteSet(CellsOf(n))
  PROVE  /\ IsFiniteSet(CellsOf(m)) /\ IsFiniteSet(CellsOf(n))
         /\ Cardinality(CellsOf(n)) \in Nat
         /\ Cardinality(CellsOf(m)) = Cardinality(CellsOf(n)) + Len(m[k])
<1> DEFINE X == {k} \X (1..Len(m[k]))
<1>1. Len(m[k]) \in Nat
  BY DEF MapOK, CellsOK
<1>2. CellsOf(m) = CellsOf(n) \cup X
  <2>1. ASSUME NEW e \in CellsOf(m) PROVE e \in CellsOf(n) \cup X
    <3>1. PICK j \in DOMAIN m : \E i \in 1..Len(m[j]) : e = <<j, i>>
      BY <2>1, InCells
    <3>2. PICK i \in 1..Len(m[j]) : e = <<j, i>>
      BY <3>1
    <3>3. CASE j = k
      BY <3>2, <3>3
    <3>4. CASE j # k
      <4>1. j \in DOMAIN n /\ i \in 1..Len(n[j])
        BY <3>2, <3>4
      <4> QED
        BY <3>2, <4>1, InCells
    <3> QED
      BY <3>3, <3>4
  <2>2. ASSUME NEW e \in CellsOf(n) PROVE e \in CellsOf(m)
    <3>1. PICK j \in DOMAIN n : \E i \in 1..Len(n[j]) : e = <<j, i>>
      BY <2>2, InCells
    <3>2. PICK i \in 1..Len(n[j]) : e = <<j, i>>
      BY <3>1
    <3>3. j \in DOMAIN m /\ i \in 1..Len(m[j])
      BY <3>2
    <3> QED
      BY <3>2, <3>3, InCells
  <2>3. ASSUME NEW e \in X PROVE e \in CellsOf(m)
    <3>1. PICK i \in 1..Len(m[k]) : e = <<k, i>>
      BY <2>3
    <3> QED
      BY <3>1, InCells
  <2> HIDE DEF X
  <2> QED
    BY <2>1, <2>2, <2>3
<1>3. CellsOf(n) \cap X = {}
  <2>1. SUFFICES ASSUME NEW e \in X, e \in CellsOf(n) PROVE FALSE
    OBVIOUS
  <2>2. PICK j \in DOMAIN n : \E i \in 1..Len(n[j]) : e = <<j, i>>
    BY <2>1, InCells
  <2> QED
    BY <2>1, <2>2
<1>4. IsFiniteSet(X) /\ Cardinality(X) = Len(m[k])
  <2> DEFINE one == {k}
             I == 1..Len(m[k])
  <2>1. IsFiniteSet(I) /\ Cardinality(I) = Len(m[k])
    BY <1>1, FS_Interval
  <2>2. IsFiniteSet(one) /\ Cardinality(one) = 1
    BY FS_Singleton
  <2>3. X = one \X I
    OBVIOUS
  <2> HIDE DEF one, I, X
  <2> QED
    BY <1>1, <2>1, <2>2, <2>3, FS_Product
<1> HIDE DEF X
<1>5. CellsOf(n) \in SUBSET CellsOf(m)
  BY <1>2
<1>6. IsFiniteSet(CellsOf(n))
  BY <1>5, FS_Subset
<1>7. Cardinality(CellsOf(n)) \in Nat
  BY <1>6, FS_CardinalityType
<1>8. /\ IsFiniteSet(CellsOf(n) \cup X)
      /\ Cardinality(CellsOf(n) \cup X)
         = Cardinality(CellsOf(n)) + Cardinality(X) - Cardinality(CellsOf(n) \cap X)
  BY <1>4, <1>6, FS_Union
<1>9. Cardinality(CellsOf(n) \cap X) = 0
  BY <1>3, FS_EmptySet
<1> QED
  BY <1>1, <1>2, <1>4, <1>6, <1>7, <1>8, <1>9

(***************************************************************************)
(* The invariant                                                           *)
(***************************************************************************)
PoolOf(n, c) == [node |-> n, head |-> n, cell |-> c]

\* The map is well formed and its pools are exact.
MapInv(m, p) ==
  /\ MapOK(m)
  /\ IsFiniteSet(CellsOf(m))
  /\ p = PoolOf(Cardinality(DOMAIN m), Cardinality(CellsOf(m)))

\* The nodes are counted.
LEMMA FiniteNodes ==
  ASSUME NEW m, MapOK(m)
  PROVE  IsFiniteSet(DOMAIN m) /\ Cardinality(DOMAIN m) \in Nat
<1>1. MaxKey \in Int /\ 1 \in Int
  BY TreemapAssumption
<1>2. IsFiniteSet(Keys)
  BY <1>1, FS_Interval DEF Keys
<1> QED
  BY <1>2, FS_Subset, FS_CardinalityType DEF MapOK

\* The list of one key gets a cell, or loses one of several.
LEMMA AddOldKeyMap ==
  ASSUME MapInv(tmap, pool), NEW k \in Nodes, NEW v \in Vals, v \notin Range(tmap[k])
  PROVE  MapInv([tmap EXCEPT ![k] = <<v>> \o @], [pool EXCEPT !.cell = @ + 1])
<1>1. PICK m : m = [tmap EXCEPT ![k] = <<v>> \o @]
  OBVIOUS
<1>2. MapOK(tmap) /\ CellsOK(tmap[k]) /\ IsFiniteSet(CellsOf(tmap)) /\ k \in DOMAIN tmap
  BY DEF MapInv, MapOK, Nodes
<1>3. CellsOK(<<v>> \o tmap[k]) /\ Len(<<v>> \o tmap[k]) = Len(tmap[k]) + 1
  BY <1>2, AddCell
<1>4. /\ DOMAIN m = DOMAIN tmap /\ m[k] = <<v>> \o tmap[k]
      /\ \A j \in DOMAIN tmap : j # k => m[j] = tmap[j]
  BY <1>1, <1>2
<1>5. CellsOK(m[k]) /\ Len(m[k]) = Len(tmap[k]) + 1
  BY <1>3, <1>4
<1>6. MapOK(m)
  BY <1>2, <1>4, <1>5 DEF MapOK
<1>7. /\ IsFiniteSet(CellsOf(m)) /\ Cardinality(CellsOf(tmap)) \in Nat
      /\ Cardinality(CellsOf(m)) = Cardinality(CellsOf(tmap)) + 1
  BY <1>2, <1>4, <1>5, <1>6, OneMore
<1>8. [pool EXCEPT !.cell = @ + 1] = PoolOf(Cardinality(DOMAIN m), Cardinality(CellsOf(m)))
  <2>1. PICK n \in Int, c \in Int : n = Cardinality(DOMAIN tmap) /\ c = Cardinality(CellsOf(tmap))
    BY <1>2, <1>4, <1>7, FiniteNodes
  <2>2. pool = PoolOf(n, c)
    BY <2>1 DEF MapInv
  <2>3. [pool EXCEPT !.cell = @ + 1] = PoolOf(n, c + 1)
    BY <2>2 DEF PoolOf
  <2>4. Cardinality(DOMAIN m) = n /\ Cardinality(CellsOf(m)) = c + 1
    BY <1>2, <1>4, <1>7, FiniteNodes, <2>1
  <2> QED
    BY <2>3, <2>4
<1> QED
  BY <1>1, <1>6, <1>7, <1>8 DEF MapInv

\* hlist_del of one of several cells.
LEMMA DelCellMap ==
  ASSUME MapInv(tmap, pool), NEW k \in Nodes, NEW v \in Range(tmap[k]), Len(tmap[k]) # 1
  PROVE  MapInv([tmap EXCEPT ![k] = HlistDel(@, v)], [pool EXCEPT !.cell = @ - 1])
<1>1. PICK m : m = [tmap EXCEPT ![k] = HlistDel(@, v)]
  OBVIOUS
<1>2. MapOK(tmap) /\ CellsOK(tmap[k]) /\ IsFiniteSet(CellsOf(tmap)) /\ k \in DOMAIN tmap
      /\ Len(tmap[k]) \in Nat
  BY DEF MapInv, MapOK, Nodes, CellsOK
<1>3. CellsOK(HlistDel(tmap[k], v)) /\ Len(HlistDel(tmap[k], v)) = Len(tmap[k]) - 1
  BY <1>2, DelCell
<1>4. /\ DOMAIN m = DOMAIN tmap /\ m[k] = HlistDel(tmap[k], v)
      /\ \A j \in DOMAIN tmap : j # k => m[j] = tmap[j]
  BY <1>1, <1>2
<1>5. CellsOK(m[k]) /\ Len(tmap[k]) = Len(m[k]) + 1
  BY <1>2, <1>3, <1>4
<1>6. MapOK(m)
  BY <1>2, <1>4, <1>5 DEF MapOK
<1>7. /\ IsFiniteSet(CellsOf(m)) /\ Cardinality(CellsOf(m)) \in Nat
      /\ Cardinality(CellsOf(tmap)) = Cardinality(CellsOf(m)) + 1
  <2>1. k \in DOMAIN m /\ \A j \in DOMAIN m : j # k => tmap[j] = m[j]
    BY <1>2, <1>4
  <2> QED
    BY <1>2, <1>4, <1>5, <1>6, <2>1, OneMore
<1>8. [pool EXCEPT !.cell = @ - 1] = PoolOf(Cardinality(DOMAIN m), Cardinality(CellsOf(m)))
  <2>1. PICK n \in Int, c \in Int : n = Cardinality(DOMAIN tmap) /\ c = Cardinality(CellsOf(tmap))
    BY <1>2, <1>4, <1>7, FiniteNodes
  <2>2. pool = PoolOf(n, c)
    BY <2>1 DEF MapInv
  <2>3. [pool EXCEPT !.cell = @ - 1] = PoolOf(n, c - 1)
    BY <2>2 DEF PoolOf
  <2>4. Cardinality(DOMAIN m) = n /\ Cardinality(CellsOf(m)) = c - 1
    BY <1>2, <1>4, <1>7, FiniteNodes, <2>1
  <2> QED
    BY <2>3, <2>4
<1> QED
  BY <1>1, <1>6, <1>7, <1>8 DEF MapInv

\* map_add of a node with one cell.
LEMMA AddNewKeyMap ==
  ASSUME MapInv(tmap, pool), NEW k \in Keys, k \notin Nodes, NEW v \in Vals
  PROVE  MapInv(MapAdd(k, <<v>>), [c \in DOMAIN pool |-> pool[c] + 1])
<1>1. PICK m : m = MapAdd(k, <<v>>)
  OBVIOUS
<1>2. MapOK(tmap) /\ IsFiniteSet(CellsOf(tmap)) /\ k \notin DOMAIN tmap
  BY DEF MapInv, Nodes
<1>3. CellsOK(<<v>>) /\ Len(<<v>>) = 1
  BY DEF CellsOK
<1>4. /\ DOMAIN m = DOMAIN tmap \cup {k} /\ m[k] = <<v>>
      /\ \A j \in DOMAIN tmap : m[j] = tmap[j]
  BY <1>1, <1>2 DEF MapAdd, Nodes
<1>5. CellsOK(m[k]) /\ Len(m[k]) = 1
  BY <1>3, <1>4
<1>6. MapOK(m)
  BY <1>2, <1>4, <1>5 DEF MapOK
<1>7. /\ IsFiniteSet(CellsOf(m)) /\ Cardinality(CellsOf(tmap)) \in Nat
      /\ Cardinality(CellsOf(m)) = Cardinality(CellsOf(tmap)) + 1
  <2>1. k \in DOMAIN m /\ DOMAIN tmap = DOMAIN m \ {k} /\ \A j \in DOMAIN tmap : tmap[j] = m[j]
    BY <1>2, <1>4
  <2>2. /\ IsFiniteSet(CellsOf(m)) /\ Cardinality(CellsOf(tmap)) \in Nat
        /\ Cardinality(CellsOf(m)) = Cardinality(CellsOf(tmap)) + Len(m[k])
    BY <1>2, <1>6, <2>1, NodeLess
  <2> QED
    BY <1>5, <2>2
<1>8. Cardinality(DOMAIN m) = Cardinality(DOMAIN tmap) + 1 /\ Cardinality(DOMAIN tmap) \in Nat
  BY <1>2, <1>4, FiniteNodes, FS_AddElement
<1>9. [c \in DOMAIN pool |-> pool[c] + 1] = PoolOf(Cardinality(DOMAIN m), Cardinality(CellsOf(m)))
  <2>1. PICK n \in Int, c \in Int : n = Cardinality(DOMAIN tmap) /\ c = Cardinality(CellsOf(tmap))
    BY <1>7, <1>8
  <2>2. pool = PoolOf(n, c)
    BY <2>1 DEF MapInv
  <2>3. [x \in DOMAIN pool |-> pool[x] + 1] = PoolOf(n + 1, c + 1)
    BY <2>2 DEF PoolOf
  <2>4. Cardinality(DOMAIN m) = n + 1 /\ Cardinality(CellsOf(m)) = c + 1
    BY <1>7, <1>8, <2>1
  <2> QED
    BY <2>3, <2>4
<1> QED
  BY <1>1, <1>6, <1>7, <1>9 DEF MapInv

\* map_del of a node, with its cells.
LEMMA WithoutMap ==
  ASSUME MapInv(tmap, pool), NEW k \in Nodes
  PROVE  /\ MapOK(Without(k))
         /\ MapInv(Without(k), [node |-> pool.node - 1, head |-> pool.head - 1,
                                cell |-> pool.cell - Len(tmap[k])])
         /\ Len(tmap[k]) = 1 => MapInv(Without(k), [c \in DOMAIN pool |-> pool[c] - 1])
<1>1. PICK m : m = Without(k)
  OBVIOUS
<1>2. MapOK(tmap) /\ IsFiniteSet(CellsOf(tmap)) /\ k \in DOMAIN tmap /\ Len(tmap[k]) \in Nat
  BY DEF MapInv, MapOK, Nodes, CellsOK
<1>3. DOMAIN m = DOMAIN tmap \ {k} /\ \A j \in DOMAIN m : m[j] = tmap[j]
  BY <1>1, WithoutIs DEF Nodes
<1>4. MapOK(m)
  BY <1>2, <1>3 DEF MapOK
<1>5. /\ IsFiniteSet(CellsOf(m)) /\ Cardinality(CellsOf(m)) \in Nat
      /\ Cardinality(CellsOf(tmap)) = Cardinality(CellsOf(m)) + Len(tmap[k])
  BY <1>2, <1>3, <1>4, NodeLess
<1>6. Cardinality(DOMAIN m) = Cardinality(DOMAIN tmap) - 1 /\ Cardinality(DOMAIN tmap) \in Nat
  BY <1>2, <1>3, FiniteNodes, FS_RemoveElement
<1>7. /\ pool.node = Cardinality(DOMAIN tmap) /\ pool.head = Cardinality(DOMAIN tmap)
      /\ pool.cell = Cardinality(CellsOf(tmap))
  BY DEF MapInv, PoolOf
<1>8. [node |-> pool.node - 1, head |-> pool.head - 1, cell |-> pool.cell - Len(tmap[k])]
      = PoolOf(Cardinality(DOMAIN m), Cardinality(CellsOf(m)))
  <2>1. /\ pool.node - 1 = Cardinality(DOMAIN m) /\ pool.head - 1 = Cardinality(DOMAIN m)
        /\ pool.cell - Len(tmap[k]) = Cardinality(CellsOf(m))
    BY <1>2, <1>5, <1>6, <1>7
  <2> QED
    BY <2>1 DEF PoolOf
<1>9. ASSUME Len(tmap[k]) = 1
      PROVE  [c \in DOMAIN pool |-> pool[c] - 1]
             = PoolOf(Cardinality(DOMAIN m), Cardinality(CellsOf(m)))
  <2>1. Cardinality(CellsOf(m)) = Cardinality(CellsOf(tmap)) - 1 /\ Cardinality(CellsOf(tmap)) \in Nat
    BY <1>5, <1>9
  <2>2. PICK n \in Int, c \in Int : n = Cardinality(DOMAIN tmap) /\ c = Cardinality(CellsOf(tmap))
    BY <1>6, <2>1
  <2>3. pool = PoolOf(n, c)
    BY <2>2 DEF MapInv
  <2>4. [x \in DOMAIN pool |-> pool[x] - 1] = PoolOf(n - 1, c - 1)
    BY <2>3 DEF PoolOf
  <2>5. Cardinality(DOMAIN m) = n - 1 /\ Cardinality(CellsOf(m)) = c - 1
    BY <1>6, <2>1, <2>2
  <2> QED
    BY <2>4, <2>5
<1> QED
  BY <1>1, <1>4, <1>5, <1>8, <1>9 DEF MapInv

\* multimap_empty
LEMMA EmptyMap ==
  ASSUME MapInv(tmap, pool)
  PROVE  MapInv(<<>>, [node |-> pool.node - Cardinality(Nodes),
                       head |-> pool.head - Cardinality(Nodes),
                       cell |-> pool.cell - NItems])
<1>1. PICK m : m = <<>>
  OBVIOUS
<1>2. DOMAIN m = {}
  BY <1>1
<1>3. MapOK(m)
  BY <1>2 DEF MapOK
<1>4. CellsOf(m) = {}
  BY <1>2 DEF CellsOf
<1>5. Cardinality(DOMAIN m) = 0 /\ Cardinality(CellsOf(m)) = 0 /\ IsFiniteSet(CellsOf(m))
  BY <1>2, <1>4, FS_EmptySet
<1>6. /\ pool.node = Cardinality(Nodes) /\ pool.head = Cardinality(Nodes) /\ pool.cell = NItems
  BY DEF MapInv, PoolOf, Nodes, NItems, Cells, CellsOf
<1>7. Cardinality(Nodes) \in Nat /\ NItems \in Nat
  BY FiniteNodes, FS_CardinalityType DEF MapInv, Nodes, NItems, Cells, CellsOf
<1>8. /\ pool.node - Cardinality(Nodes) = 0 /\ pool.head - Cardinality(Nodes) = 0
      /\ pool.cell - NItems = 0
  BY <1>6, <1>7
<1> QED
  BY <1>1, <1>3, <1>5, <1>8 DEF MapInv, PoolOf

\* The inductive invariant.
Inv == MapInv(tmap, pool) /\ Valid(tmap, cursor)

\* A cursor that is not in use is valid in every map.
LEMMA InitValid == ASSUME NEW m PROVE Valid(m, CursorInit)
<1>1. CursorInit \in Cursors /\ CursorInit.state = "INVALID"
  BY DEF CursorInit, Cursors, Pointers
<1> QED
  BY <1>1 DEF Valid

\* Init and each call establish the invariant.
LEMMA InvInit == Init => Inv
<1> SUFFICES ASSUME Init PROVE Inv
  OBVIOUS
<1>1. PICK m : m = tmap
  OBVIOUS
<1>2. DOMAIN m = {}
  BY <1>1 DEF Init
<1>3. MapOK(m) /\ CellsOf(m) = {}
  BY <1>2 DEF MapOK, CellsOf
<1>4. Cardinality(DOMAIN m) = 0 /\ Cardinality(CellsOf(m)) = 0 /\ IsFiniteSet(CellsOf(m))
  BY <1>2, <1>3, FS_EmptySet
<1>5. MapInv(tmap, pool)
  BY <1>1, <1>3, <1>4 DEF MapInv, PoolOf, Init
<1> QED
  BY <1>5, InitValid DEF Inv, Init

\* A call that moves the cursor leaves the map and its pools.
LEMMA Moved ==
  ASSUME Inv, NEW c, NEW r, MoveTo(c, r), Valid(tmap, c)
  PROVE  Inv'
BY DEF Inv, MoveTo

\* A call that changes the map has no cursor to spoil.
LEMMA Changed ==
  ASSUME Inv, NoCursor, UNCHANGED cursor, MapInv(tmap', pool')
  PROVE  Inv'
BY InitValid DEF Inv, NoCursor

\* Every call preserves the invariant.
LEMMA InvNext == Inv /\ [Next]_vars => Inv'
<1> SUFFICES ASSUME Inv, [Next]_vars PROVE Inv'
  OBVIOUS
<1>0. MapInv(tmap, pool) /\ MapOK(tmap) /\ Valid(tmap, cursor) /\ cursor \in Cursors
  BY DEF Inv, MapInv, Valid
<1>1. ASSUME NEW k \in Keys, NEW v \in Vals, NEW got \in {{}, {"cell"}, {"cell", "head"}},
             AddNoMem(k, v, got)
      PROVE  Inv'
  <2>1. {c \in got : c \in {"head", "cell"}} = got
    OBVIOUS
  <2>2. pool' = [c \in DOMAIN pool |-> pool[c]]
    BY <1>1, <2>1 DEF AddNoMem
  <2>3. pool' = pool
    BY <1>0, <2>2 DEF MapInv, PoolOf
  <2> QED
    BY <1>1, <2>3 DEF AddNoMem, Inv
<1>2. ASSUME NEW k \in Keys, NEW v \in Vals, AddOldKey(k, v) PROVE Inv'
  <2>1. CASE v \in Range(tmap[k])
    BY <1>2, <2>1 DEF AddOldKey, Inv
  <2>2. CASE v \notin Range(tmap[k])
    <3>1. MapInv(tmap', pool')
      BY <1>0, <1>2, <2>2, AddOldKeyMap DEF AddOldKey
    <3> QED
      BY <1>2, <3>1, Changed DEF AddOldKey
  <2> QED
    BY <2>1, <2>2
<1>3. ASSUME NEW k \in Keys, NEW v \in Vals, AddNewKey(k, v) PROVE Inv'
  <2>1. MapInv(tmap', pool')
    BY <1>0, <1>3, AddNewKeyMap DEF AddNewKey
  <2> QED
    BY <1>3, <2>1, Changed DEF AddNewKey
<1>4. ASSUME NEW k \in Keys, NEW v \in Vals, Del(k, v) PROVE Inv'
  <2>1. CASE ~(k \in Nodes /\ v \in Range(tmap[k]))
    BY <1>4, <2>1 DEF Del, Inv
  <2>2. CASE k \in Nodes /\ v \in Range(tmap[k]) /\ Len(tmap[k]) = 1
    <3>1. MapInv(tmap', pool')
      BY <1>0, <1>4, <2>2, WithoutMap DEF Del
    <3> QED
      BY <1>4, <3>1, Changed DEF Del
  <2>3. CASE k \in Nodes /\ v \in Range(tmap[k]) /\ Len(tmap[k]) # 1
    <3>1. MapInv(tmap', pool')
      BY <1>0, <1>4, <2>3, DelCellMap DEF Del
    <3> QED
      BY <1>4, <3>1, Changed DEF Del
  <2> QED
    BY <2>1, <2>2, <2>3
<1>5. ASSUME NEW k \in Keys, DelKey(k) PROVE Inv'
  <2>1. CASE k \in Nodes
    <3>1. MapInv(tmap', pool')
      BY <1>0, <1>5, <2>1, WithoutMap DEF DelKey
    <3> QED
      BY <1>5, <3>1, Changed DEF DelKey
  <2>2. CASE k \notin Nodes
    BY <1>5, <2>2 DEF DelKey, Inv
  <2> QED
    BY <2>1, <2>2
<1>6. ASSUME Empty PROVE Inv'
  <2>1. MapInv(tmap', pool')
    BY <1>0, <1>6, EmptyMap DEF Empty
  <2> QED
    BY <1>6, <2>1, Changed DEF Empty
<1>7. ASSUME NEW k \in Keys, NEW flag \in SearchFlags, NEW last \in BOOLEAN,
             CursorSearch(k, flag, last)
      PROVE  Inv'
  <2>1. PICK t \in Descent(k) :
          LET node == LookupNode(k, flag, t)
              moved == MapCursorSearch(cursor, node)
          IN IF node = NULL
             THEN MoveTo(moved, <<"none", k, flag, last>>)
             ELSE MoveTo(AtNode(moved, last), <<"ok", k, flag, last>>)
    BY <1>7 DEF CursorSearch
  <2>2. PICK node : node = LookupNode(k, flag, t)
    OBVIOUS
  <2>3. node \in Nodes \cup {NULL}
    BY <1>0, <2>2, LookupFinds
  <2>4. CASE node = NULL
    <3>1. MoveTo(MapCursorSearch(cursor, NULL), <<"none", k, flag, last>>)
      BY <2>1, <2>2, <2>4
    <3>2. Valid(tmap, MapCursorSearch(cursor, NULL))
      BY <1>0, NotFoundValid
    <3> QED
      BY <3>1, <3>2, Moved
  <2>5. CASE node # NULL
    <3>1. MoveTo(AtNode(MapCursorSearch(cursor, node), last), <<"ok", k, flag, last>>)
      BY <2>1, <2>2, <2>5
    <3>2. Valid(tmap, AtNode(MapCursorSearch(cursor, node), last))
      BY <1>0, <2>3, <2>5, SearchValid
    <3> QED
      BY <3>1, <3>2, Moved
  <2> QED
    BY <2>4, <2>5
<1>8. CASE CursorBegin
  BY <1>0, <1>8, EndsValid, Moved DEF CursorBegin
<1>9. CASE CursorEnd
  BY <1>0, <1>9, EndsValid, Moved DEF CursorEnd
<1>10. CASE CursorNext
  <2>1. MoveTo(NextOf(cursor), IsData(NextOf(cursor)))
    BY <1>10 DEF CursorNext
  <2> QED
    BY <1>0, <2>1, NextValid, Moved
<1>11. CASE CursorPrev
  <2>1. MoveTo(PrevOf(cursor), IsData(PrevOf(cursor)))
    BY <1>11 DEF CursorPrev
  <2> QED
    BY <1>0, <2>1, PrevValid, Moved
<1>12. CASE CursorDel
  <2>1. /\ cursor.state = "DATA" /\ cursor.head = cursor.curr /\ cursor.curr \in Nodes
        /\ cursor.cell \in Range(tmap[cursor.curr])
    BY <1>0, <1>12 DEF CursorDel, Valid, Nodes
  <2>2. CASE Len(tmap[cursor.head]) = 1
    <3>1. /\ tmap' = Without(cursor.curr)
          /\ cursor' = [MapCursorDel(cursor) EXCEPT !.head = NextOf(cursor).head,
                                                    !.cell = NextOf(cursor).cell]
          /\ pool' = [c \in DOMAIN pool |-> pool[c] - 1]
      BY <1>12, <2>2 DEF CursorDel
    <3>2. MapInv(tmap', pool')
      BY <1>0, <2>1, <2>2, <3>1, WithoutMap
    <3>3. Valid(tmap', cursor')
      BY <1>0, <2>1, <2>2, <3>1, DelNodeValid
    <3> QED
      BY <3>2, <3>3 DEF Inv
  <2>3. CASE Len(tmap[cursor.head]) # 1
    <3>1. /\ tmap' = [tmap EXCEPT ![cursor.head] = HlistDel(@, cursor.cell)]
          /\ cursor' = NextOf(cursor)
          /\ pool' = [pool EXCEPT !.cell = @ - 1]
      BY <1>12, <2>3 DEF CursorDel
    <3>2. MapInv(tmap', pool')
      BY <1>0, <2>1, <2>3, <3>1, DelCellMap
    <3>3. Valid(tmap', cursor')
      BY <1>0, <2>1, <2>3, <3>1, DelCellValid
    <3> QED
      BY <3>2, <3>3 DEF Inv
  <2> QED
    BY <2>2, <2>3
<1>13. CASE CursorDelNothing
  BY <1>0, <1>13, Moved DEF CursorDelNothing
<1>14. CASE CursorForget
  BY <1>0, <1>14, EndsValid, Moved DEF CursorForget
<1>15. CASE UNCHANGED vars
  BY <1>15 DEF vars, Inv
<1> QED
  BY <1>1, <1>2, <1>3, <1>4, <1>5, <1>6, <1>7, <1>8, <1>9, <1>10, <1>11, <1>12, <1>13, <1>14,
     <1>15 DEF Next

\* The invariant holds in every state of the multimap.
LEMMA InvHolds == Spec => []Inv
BY InvInit, InvNext, PTL DEF Spec

\* A cursor in use points to a node, neighbours and a cell that are in the map, and the
\* neighbours are next to it, whatever multimap_cursor_del deleted through it.
THEOREM CursorValidThm == Spec => []CursorValid
<1>1. Inv => CursorValid
  BY ValidCursor DEF Inv, MapInv
<1> QED
  BY <1>1, InvHolds, PTL

\* One node and one head are allocated for each key and one cell for each pair, after the
\* failure paths of multimap_add and after deletions through a cursor too.
THEOREM PoolExactThm == Spec => []PoolExact
<1>1. Inv => PoolExact
  BY DEF Inv, MapInv, PoolOf, PoolExact, Nodes, NItems, Cells, CellsOf
<1> QED
  BY <1>1, InvHolds, PTL

\* No key has an empty list of cells or a value twice: what the assertions of multimap_del
\* and of the cursor functions test.
THEOREM MapOKThm == Spec => []MapOK(tmap)
<1>1. Inv => MapOK(tmap)
  BY DEF Inv, MapInv
<1> QED
  BY <1>1, InvHolds, PTL
=============================================================================
