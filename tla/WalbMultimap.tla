---------------------------- MODULE WalbMultimap ----------------------------
(***************************************************************************)
(* What the multimap of module/treemap.c promises its users, stated        *)
(* without nodes, cells and pointers: a list of key-value pairs in the     *)
(* order of their keys, the newest of a key first, no pair twice, and a    *)
(* cursor that is a place in that list.  An addition may be refused for    *)
(* want of memory and then changes nothing.                                *)
(***************************************************************************)
EXTENDS Integers, Sequences, FiniteSetsExt, SequencesExt, Functions

CONSTANTS MaxKey, Vals

VARIABLES
  items,   \* the pairs <<key, value>>, in order
  place,   \* 0 before the first item, Len(items) + 1 behind the last, -1 nowhere
  ret      \* what the last call returned, for a search with its arguments

vars == <<items, place, ret>>

Keys == 1..MaxKey

\* The places whose key satisfies P.
At(P(_)) == LET list == items IN {i \in DOMAIN list : P(list[i][1])}

Init == items = <<>> /\ place = -1 /\ ret = <<"none">>

Add(k, v) ==
  /\ place = -1
  /\ \/ /\ <<k, v>> \in Range(items)
        /\ ret' = <<"EEXIST">>
        /\ UNCHANGED items
     \/ /\ <<k, v>> \notin Range(items)
        /\ ret' = <<"ok">>
        /\ items' = InsertAt(items, 1 + Cardinality(At(LAMBDA j : j < k)), <<k, v>>)
     \/ ret' = <<"ENOMEM">> /\ UNCHANGED items
  /\ UNCHANGED place

Del(k, v) ==
  /\ place = -1
  /\ items' = SelectSeq(items, LAMBDA e : e # <<k, v>>)
  /\ ret' = <<IF items' = items THEN "none" ELSE "ok">>
  /\ UNCHANGED place

DelKey(k) ==
  /\ place = -1
  /\ items' = SelectSeq(items, LAMBDA e : e[1] # k)
  /\ ret' = <<IF items' = items THEN "none" ELSE "ok">>
  /\ UNCHANGED place

Clear == place = -1 /\ items' = <<>> /\ ret' = <<"none">> /\ UNCHANGED place

\* The places of the items with the key that a search asks for.
Wanted(k, flag) ==
  LET list == items
      keys == {list[i][1] : i \in DOMAIN list}
      below == {j \in keys : j < k \/ (flag = "LE" /\ j = k)}
      above == {j \in keys : j > k \/ (flag = "GE" /\ j = k)}
  IN CASE flag = "EQ" -> At(LAMBDA j : j = k)
       [] flag \in {"LT", "LE"} -> At(LAMBDA j : below # {} /\ j = Max(below))
       [] flag \in {"GT", "GE"} -> At(LAMBDA j : above # {} /\ j = Min(above))

Search(k, flag, last) ==
  LET found == Wanted(k, flag) IN
  /\ place' = CASE found = {} -> -1 [] found # {} /\ last -> Max(found) [] OTHER -> Min(found)
  /\ ret' = <<IF found = {} THEN "none" ELSE "ok", k, flag, last>>
  /\ UNCHANGED items

Goto(p) == place' = p /\ ret' = <<"ok">> /\ UNCHANGED items

Data(p) == IF p \in 1..Len(items) THEN "ok" ELSE "none"

Step(d) ==
  /\ place' = IF place + d \in 0 .. Len(items) + 1 /\ place # -1 THEN place + d ELSE place
  /\ ret' = <<Data(place')>>
  /\ UNCHANGED items

Delete ==
  /\ items' = IF Data(place) = "ok" THEN RemoveAt(items, place) ELSE items
  /\ ret' = <<Data(place)>>
  /\ UNCHANGED place

Leave == place' = -1 /\ ret' = <<"none">> /\ UNCHANGED items

Next ==
  \/ \E k \in Keys, v \in Vals : Add(k, v) \/ Del(k, v)
  \/ \E k \in Keys : DelKey(k)
  \/ \E k \in Keys, last \in BOOLEAN, flag \in {"EQ", "LT", "LE", "GT", "GE"} :
       Search(k, flag, last)
  \/ Clear \/ Goto(0) \/ Goto(Len(items) + 1) \/ Step(1) \/ Step(-1)
  \/ Delete \/ Leave

Spec == Init /\ [][Next]_vars
=============================================================================
