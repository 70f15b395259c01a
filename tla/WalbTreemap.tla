---------------------------- MODULE WalbTreemap ----------------------------
(***************************************************************************)
(* The multimap of module/treemap.c: a red-black tree with one node for    *)
(* each key, whose value is a list of cells, and a cursor that remembers a *)
(* node with its two neighbours and a cell.  pending_data and              *)
(* overlapped_data are such multimaps.                                     *)
(*                                                                         *)
(* The tree is kept by the kernel's rbtree library: its shape is not       *)
(* modelled, so the descent of a lookup may stop at either neighbour of a  *)
(* key that is not there.  A node and its tree_cell_head are named by      *)
(* their key (NULL is 0), a cell by its key and value.  Nodes, heads and   *)
(* cells come from mempools and go back there: the pools are counted.      *)
(*                                                                         *)
(* treemap.h: "Calling map_add() or map_del() may invalidate the cursor."  *)
(* The users hold a cursor only within a critical section that changes the *)
(* map through the cursor alone.                                           *)
(***************************************************************************)
EXTENDS Integers, Sequences, FiniteSetsExt, SequencesExt, Functions

CONSTANTS
  MaxKey,      \* keys are 1..MaxKey
  Vals,        \* values
  InvalidVal   \* TREEMAP_INVALID_VAL, also a cell pointer that is NULL

ASSUME TreemapAssumption ==
  MaxKey \in Nat \ {0} /\ InvalidVal \notin Vals

VARIABLES
  tmap,     \* the tree: a list of cells for each key that has a node
  cursor,   \* the multimap cursor
  pool,     \* nodes, heads and cells allocated and not freed
  ret       \* what the last call returned, for a search with its arguments

vars == <<tmap, cursor, pool, ret>>

Keys == 1..MaxKey
NULL == 0
Nodes == DOMAIN tmap

SearchFlags == {"EQ", "LT", "LE", "GT", "GE"}

CursorInit ==
  [state |-> "INVALID", prev |-> NULL, curr |-> NULL, next |-> NULL,
   head |-> NULL, cell |-> InvalidVal]

Init ==
  /\ tmap = <<>>
  /\ cursor = CursorInit
  /\ pool = [node |-> 0, head |-> 0, cell |-> 0]
  /\ ret = <<"none">>

(***************************************************************************)
(* Nodes in the order of their keys                                        *)
(***************************************************************************)
MapNext(t) ==
  LET above == {k \in Nodes : k > t}
  IN IF t = NULL \/ above = {} THEN NULL ELSE Min(above)

MapPrev(t) ==
  LET below == {k \in Nodes : k < t}
  IN IF t = NULL \/ below = {} THEN NULL ELSE Max(below)

MapFirst == IF Nodes = {} THEN NULL ELSE Min(Nodes)
MapLast == IF Nodes = {} THEN NULL ELSE Max(Nodes)

\* Where the descent for k may stop: at k, else at one of its neighbours.
Descent(k) ==
  CASE Nodes = {} -> {NULL}
    [] k \in Nodes -> {k}
    [] OTHER -> {MapPrev(k), MapNext(k)} \ {NULL}

\* Mutated LookupNode: a search for GE or GT trusts the node the descent stopped at.
LookupNodeNoStep(k, flag, t) ==
  IF t = NULL \/ (t = k /\ flag \in {"EQ", "LE", "GE"}) THEN t
  ELSE CASE flag = "EQ" -> NULL
         [] flag \in {"LT", "LE"} -> IF t < k THEN t ELSE MapPrev(t)
         [] flag \in {"GT", "GE"} -> t

\* map_lookup_node_detail, after its descent stopped at t.
LookupNode(k, flag, t) ==
  IF t = NULL \/ (t = k /\ flag \in {"EQ", "LE", "GE"}) THEN t
  ELSE CASE flag = "EQ" -> NULL
         [] flag \in {"LT", "LE"} -> IF t < k THEN t ELSE MapPrev(t)
         [] flag \in {"GT", "GE"} -> IF t > k THEN t ELSE MapNext(t)

(***************************************************************************)
(* Adding and deleting, while no cursor is in use                          *)
(***************************************************************************)
NoCursor == cursor = CursorInit

\* Mutated AddNoMem: multimap_add_newkey keeps the head when map_add fails.
AddNoMemLeak(k, v, got) ==
  /\ NoCursor
  /\ got # {} => k \notin Nodes
  /\ pool' = [c \in DOMAIN pool |-> IF c = "head" /\ c \in got THEN pool[c] + 1 ELSE pool[c]]
  /\ ret' = <<"ENOMEM">>
  /\ UNCHANGED <<tmap, cursor>>

\* One of the allocations of multimap_add fails: that of the cell, for a new key that of
\* the head, or in map_add that of the node.  got is what it had by then:
\* multimap_add_newkey frees the head, multimap_add the cell.
AddNoMem(k, v, got) ==
  LET freed == {c \in got : c \in {"head", "cell"}} IN
  /\ NoCursor
  /\ got # {} => k \notin Nodes
  /\ pool' = [c \in DOMAIN pool |-> IF c \in got \ freed THEN pool[c] + 1 ELSE pool[c]]
  /\ ret' = <<"ENOMEM">>
  /\ UNCHANGED <<tmap, cursor>>

\* multimap_add for a key that has a node: multimap_add_oldkey.
AddOldKey(k, v) ==
  /\ NoCursor
  /\ k \in Nodes
  /\ \/ /\ v \in Range(tmap[k])
        /\ ret' = <<"EEXIST">>
        /\ UNCHANGED <<tmap, pool>>
     \/ /\ v \notin Range(tmap[k])
        /\ ret' = <<"ok">>
        /\ tmap' = [tmap EXCEPT ![k] = <<v>> \o @]
        /\ pool' = [pool EXCEPT !.cell = @ + 1]
  /\ UNCHANGED cursor

\* map_add: the tree with a new node.
MapAdd(k, cells) == [j \in Nodes \cup {k} |-> IF j = k THEN cells ELSE tmap[j]]

\* multimap_add for a new key: multimap_add_newkey.
AddNewKey(k, v) ==
  /\ NoCursor
  /\ k \notin Nodes
  /\ tmap' = MapAdd(k, <<v>>)
  /\ pool' = [c \in DOMAIN pool |-> pool[c] + 1]
  /\ ret' = <<"ok">>
  /\ UNCHANGED cursor

\* map_del: the tree without a node.
Without(k) == Restrict(tmap, Nodes \ {k})

\* The cells of the map, by key and place in the list of the key, and multimap_n_items.
Cells == UNION {{k} \X DOMAIN tmap[k] : k \in Nodes}
NItems == Cardinality(Cells)

\* hlist_del of the cell with value v.  multimap_del deletes every cell that has the value
\* and asserts that it was one; multimap_add_oldkey lets no second one in.
IndexOf(cells, v) == CHOOSE i \in 1..Len(cells) : cells[i] = v
HlistDel(cells, v) == RemoveAt(cells, IndexOf(cells, v))

\* multimap_del: the cell, and with the last cell of a key its head and node (map_del).
Del(k, v) ==
  /\ NoCursor
  /\ \/ /\ k \in Nodes /\ v \in Range(tmap[k])
        /\ ret' = <<"ok">>
        /\ IF Len(tmap[k]) = 1
           THEN /\ tmap' = Without(k)
                /\ pool' = [c \in DOMAIN pool |-> pool[c] - 1]
           ELSE /\ tmap' = [tmap EXCEPT ![k] = HlistDel(@, v)]
                /\ pool' = [pool EXCEPT !.cell = @ - 1]
     \/ /\ ~(k \in Nodes /\ v \in Range(tmap[k]))
        /\ ret' = <<"none">>
        /\ UNCHANGED <<tmap, pool>>
  /\ UNCHANGED cursor

\* multimap_del_key: every cell of the key.
DelKey(k) ==
  /\ NoCursor
  /\ \/ /\ k \in Nodes
        /\ ret' = <<"ok">>
        /\ tmap' = Without(k)
        /\ pool' = [node |-> pool.node - 1, head |-> pool.head - 1,
                    cell |-> pool.cell - Len(tmap[k])]
     \/ /\ k \notin Nodes
        /\ ret' = <<"none">>
        /\ UNCHANGED <<tmap, pool>>
  /\ UNCHANGED cursor

\* multimap_empty, node by node: a head and a node for each key, and its cells.
Empty ==
  /\ NoCursor
  /\ tmap' = <<>>
  /\ pool' = [node |-> pool.node - Cardinality(Nodes),
              head |-> pool.head - Cardinality(Nodes),
              cell |-> pool.cell - NItems]
  /\ ret' = <<"none">>
  /\ UNCHANGED cursor

(***************************************************************************)
(* The cursor.  Each operator below is the cursor a call leaves, computed  *)
(* from the cursor c it is given.                                          *)
(***************************************************************************)
\* map_cursor_search, when its lookup found a node and when it did not.
MapCursorSearch(c, node) ==
  IF node = NULL
  THEN [CursorInit EXCEPT !.head = c.head, !.cell = c.cell]
  ELSE [c EXCEPT !.state = "DATA", !.curr = node,
                 !.prev = MapPrev(node), !.next = MapNext(node)]

MapCursorBegin == [CursorInit EXCEPT !.state = "BEGIN", !.next = MapFirst]
MapCursorEnd == [CursorInit EXCEPT !.state = "END", !.prev = MapLast]

MapCursorNext(c) ==
  IF c.state \in {"BEGIN", "DATA"}
  THEN [c EXCEPT !.prev = c.curr, !.curr = c.next, !.next = MapNext(c.next),
                 !.state = IF c.next # NULL THEN "DATA" ELSE "END"]
  ELSE c

MapCursorPrev(c) ==
  IF c.state \in {"END", "DATA"}
  THEN [c EXCEPT !.next = c.curr, !.curr = c.prev, !.prev = MapPrev(c.prev),
                 !.state = IF c.prev # NULL THEN "DATA" ELSE "BEGIN"]
  ELSE c

\* Mutated MapCursorDel: the node before is not restored.
MapCursorDelNoRestore(c) == MapCursorNext(c)

\* map_cursor_del moves on and restores the pointer to the node before; the node goes.
MapCursorDel(c) == [MapCursorNext(c) EXCEPT !.prev = c.prev]

\* The cells before and behind the cursor's in the list of its head.
CellIndex(c) == IndexOf(tmap[c.head], c.cell)
HasNextCell(c) == c.state = "DATA" /\ CellIndex(c) < Len(tmap[c.head])
HasPrevCell(c) == c.state = "DATA" /\ CellIndex(c) > 1

\* The head of the node the cursor has come to, and that head's first or last cell.
AtNode(c, last) ==
  IF c.state = "DATA"
  THEN [c EXCEPT !.head = c.curr,
                 !.cell = IF last THEN Last(tmap[c.curr]) ELSE Head(tmap[c.curr])]
  ELSE [c EXCEPT !.head = NULL, !.cell = InvalidVal]

\* multimap_cursor_next
NextOf(c) ==
  CASE c.state \in {"END", "INVALID"} -> c
    [] HasNextCell(c) -> [c EXCEPT !.cell = tmap[c.head][CellIndex(c) + 1]]
    [] OTHER -> AtNode(MapCursorNext(c), FALSE)

\* multimap_cursor_prev
PrevOf(c) ==
  CASE c.state \in {"BEGIN", "INVALID"} -> c
    [] HasPrevCell(c) -> [c EXCEPT !.cell = tmap[c.head][CellIndex(c) - 1]]
    [] OTHER -> AtNode(MapCursorPrev(c), TRUE)

IsData(c) == <<IF c.state = "DATA" THEN "ok" ELSE "none">>

MoveTo(c, r) == cursor' = c /\ ret' = r /\ UNCHANGED <<tmap, pool>>

\* multimap_cursor_search for a key; a search that fails leaves head and cell alone.
CursorSearch(k, flag, last) ==
  \E t \in Descent(k) :
    LET node == LookupNode(k, flag, t)
        moved == MapCursorSearch(cursor, node)
    IN IF node = NULL
       THEN MoveTo(moved, <<"none", k, flag, last>>)
       ELSE MoveTo(AtNode(moved, last), <<"ok", k, flag, last>>)

\* multimap_cursor_begin, multimap_cursor_end and the searches for BEGIN and END
CursorBegin == MoveTo(MapCursorBegin, <<"ok">>)
CursorEnd == MoveTo(MapCursorEnd, <<"ok">>)

CursorNext == LET c == NextOf(cursor) IN MoveTo(c, IsData(c))
CursorPrev == LET c == PrevOf(cursor) IN MoveTo(c, IsData(c))

\* multimap_cursor_del: moves on, then deletes the cell, and with the last cell of a key
\* the node through map_cursor_del, whose cursor it takes over.
CursorDel ==
  LET moved == NextOf(cursor)
      deleted == MapCursorDel(cursor)
  IN
  /\ cursor.state = "DATA"
  /\ ret' = <<"ok">>
  /\ IF Len(tmap[cursor.head]) = 1
     THEN /\ tmap' = Without(cursor.curr)
          /\ cursor' = [deleted EXCEPT !.head = moved.head, !.cell = moved.cell]
          /\ pool' = [c \in DOMAIN pool |-> pool[c] - 1]
     ELSE /\ tmap' = [tmap EXCEPT ![cursor.head] = HlistDel(@, cursor.cell)]
          /\ cursor' = moved
          /\ pool' = [pool EXCEPT !.cell = @ - 1]

CursorDelNothing == cursor.state # "DATA" /\ MoveTo(cursor, <<"none">>)

\* The user ends its critical section and forgets the cursor.
CursorForget == MoveTo(CursorInit, <<"none">>)

Next ==
  \/ \E k \in Keys, v \in Vals :
       \/ \E got \in {{}, {"cell"}, {"cell", "head"}} : AddNoMem(k, v, got)
       \/ AddOldKey(k, v)
       \/ AddNewKey(k, v)
       \/ Del(k, v)
  \/ \E k \in Keys : DelKey(k)
  \/ Empty
  \/ \E k \in Keys, flag \in SearchFlags, last \in BOOLEAN : CursorSearch(k, flag, last)
  \/ CursorBegin \/ CursorEnd
  \/ CursorNext \/ CursorPrev
  \/ CursorDel \/ CursorDelNothing
  \/ CursorForget

Spec == Init /\ [][Next]_vars

(***************************************************************************)
(* Properties                                                              *)
(***************************************************************************)
\* A cursor in use never holds a pointer to memory that was freed, whatever was deleted
\* through it: its node, the neighbours it remembers (map_cursor_next and map_cursor_prev
\* follow them without a lookup) and its cell are in the map, and the neighbours are next
\* to it (is_valid_multimap_cursor, which every cursor function asserts, tests only
\* which of them are NULL).
CursorValid ==
  /\ cursor.state = "DATA" =>
       /\ cursor.curr \in Nodes
       /\ cursor.head = cursor.curr
       /\ cursor.cell \in Range(tmap[cursor.curr])
       /\ cursor.prev = MapPrev(cursor.curr)
       /\ cursor.next = MapNext(cursor.curr)
  /\ cursor.state \in {"BEGIN", "END"} =>
       cursor.curr = NULL /\ cursor.head = NULL /\ cursor.cell = InvalidVal
  /\ cursor.state = "BEGIN" => cursor.prev = NULL /\ cursor.next = MapFirst
  /\ cursor.state = "END" => cursor.next = NULL /\ cursor.prev = MapLast

\* Nothing leaks and nothing is freed twice: one node and one head are out for each key
\* and one cell for each pair, after every failure path of multimap_add too.
PoolExact ==
  /\ pool.node = Cardinality(Nodes)
  /\ pool.head = Cardinality(Nodes)
  /\ pool.cell = NItems

\* The map as the list of its pairs, and the cursor as a place in that list.
Items ==
  LET upto[k \in 0..MaxKey] ==
        IF k = 0 THEN <<>>
        ELSE upto[k - 1] \o IF k \notin Nodes THEN <<>>
                            ELSE [j \in DOMAIN tmap[k] |-> <<k, tmap[k][j]>>]
  IN upto[MaxKey]

Place ==
  CASE cursor.state = "INVALID" -> -1
    [] cursor.state = "BEGIN" -> 0
    [] cursor.state = "END" -> Len(Items) + 1
    [] cursor.state = "DATA" ->
         SelectInSeq(Items, LAMBDA e : e = <<cursor.head, cursor.cell>>)

Multimap == INSTANCE WalbMultimap WITH items <- Items, place <- Place, ret <- ret

\* The tree of cell lists and the cursor with its remembered neighbours behave as an
\* ordered list of pairs with a place in it: every call changes and returns what the
\* list would.
ImplementsMultimap == Multimap!Spec
=============================================================================
