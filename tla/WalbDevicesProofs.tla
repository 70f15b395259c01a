------------------------- MODULE WalbDevicesProofs -------------------------
(***************************************************************************)
(* Proofs about walb devices, for any devices, users, disks, requests and  *)
(* minor ids, wherever a start fails and however starts, stops, opens,     *)
(* closes and the unloading of the module overlap.                         *)
(*                                                                         *)
(* UsersHaveDevice is not inductive: that destroy_wdev comes after the     *)
(* last walb_release depends on the disks being unregistered before the    *)
(* users are waited for, and that on the list of devices, from which stop  *)
(* and exit take a device only when it runs (DevInv).                      *)
(*                                                                         *)
(* NothingLeaked speaks of moments when nothing is under way.  At any      *)
(* other moment what a device has is told by its stage and by what is left *)
(* of the list that the stage works through (Owned), and the objects, the  *)
(* claims and the counts agree with that (ResourcesOK).                    *)
(*                                                                         *)
(* ListExact needs to know which ioctl an entry belongs to while it is     *)
(* reserved, and what the holder of the lock excludes (ListInv); that      *)
(* get_wdev_list_range puts each entry once and in order is a fact about   *)
(* the ranks of numbers in a finite set.                                   *)
(***************************************************************************)
EXTENDS WalbDevices, FiniteSetTheorems, SequenceTheorems, TLAPS

\* What the users of a device need, and the disks through which it is opened.
Core == {"wdev", "gd", "iocored"}
DiskParts == {"disk", "log_disk"}

\* All that a device takes and releases.
Names ==
  Core \cup DiskParts \cup Caches
    \cup {"ldev", "ddev", "super", "queue", "log_queue", "log_gd", "redo", "checkpoint", "sysfs"}

\* The stages in which nobody has the device open, and those without disks.
Closed == {"free", "prepare", "unwind", "destroy"}
NoDisks == Closed \cup {"flush", "finalize", "wait_users"}

Stages ==
  NoDisks \cup {"register", "register_error", "running", "unregister"}

TypesOK ==
  /\ stage \in [Wdevs -> Stages]
  /\ todo \in [Wdevs -> Seq(Names)]
  /\ held \in [Wdevs -> SUBSET Names]
  /\ idr \in [Keys -> Wdevs \cup {NoDev, Prealloced}]
  /\ key \in [Wdevs -> Keys]
  /\ opened \in [Users -> {NoDev} \cup (DiskParts \X Wdevs)]

\* A device that is being started has the lock, and only a device that runs is listed
\* while the lock is free or with walb_exit.
LockOK ==
  \A w \in Wdevs :
    stage[w] \in {"prepare", "unwind", "register", "register_error"} => lock = w

ListedOK ==
  \A k \in Keys, w \in Wdevs : idr[k] = w =>
    /\ key[w] = k
    /\ \/ stage[w] = "running"
       \/ stage[w] \in {"register", "register_error", "unregister"} /\ lock = w

\* What a device has, by its stage and by what the stage still has to do.
HeldAt(s, h, t) ==
  /\ s \in NoDisks => h \cap DiskParts = {}
  /\ s \in {"unregister", "register_error"} => h \cap DiskParts \subseteq Range(t)
  /\ s = "prepare" => Core \subseteq h \cup Range(t) /\ Range(t) \cap DiskParts = {}
  /\ s \notin Closed => Core \subseteq h
  /\ s \in {"unregister", "register_error", "finalize"} => Range(t) \cap Core = {}

HeldOK == \A w \in Wdevs : HeldAt(stage[w], held[w], todo[w])

\* Users have a device open only while it has its core.
HasOpen(o, w) == o # NoDev /\ o = <<"disk", w>>

UsersOK == \A u \in Users, w \in Wdevs : HasOpen(opened[u], w) => stage[w] \notin Closed

DevInv == TypesOK /\ LockOK /\ ListedOK /\ HeldOK /\ UsersOK

-----------------------------------------------------------------------------
(* Lists of resources *)

\* The elements of a list, and of its rest.
LEMMA RangeTail ==
  ASSUME NEW S, NEW s \in Seq(S), s # <<>>
  PROVE  /\ Head(s) \in S /\ Tail(s) \in Seq(S)
         /\ Range(s) = {Head(s)} \cup Range(Tail(s))
<1>1. Len(s) \in Nat \ {0} /\ DOMAIN s = 1..Len(s)
  BY EmptySeq, LenProperties
<1>2. Head(s) = s[1] /\ Head(s) \in S
  BY <1>1, HeadTailProperties
<1>3. /\ Tail(s) \in Seq(S) /\ DOMAIN Tail(s) = 1..(Len(s) - 1)
      /\ \A k \in 1..(Len(s) - 1) : Tail(s)[k] = s[k + 1]
  BY HeadTailProperties, LenProperties
<1>4. ASSUME NEW x \in Range(s) PROVE x \in {Head(s)} \cup Range(Tail(s))
  <2>1. PICK k \in 1..Len(s) : x = s[k]
    BY <1>1, <1>4 DEF Range
  <2>2. CASE k = 1
    BY <1>2, <2>1, <2>2
  <2>3. CASE k # 1
    <3>1. k - 1 \in 1..(Len(s) - 1) /\ (k - 1) + 1 = k
      BY <1>1, <2>3
    <3>2. Tail(s)[k - 1] = x
      BY <1>3, <2>1, <3>1
    <3> QED
      BY <1>3, <3>1, <3>2 DEF Range
  <2> QED
    BY <2>2, <2>3
<1>5. ASSUME NEW x \in {Head(s)} \cup Range(Tail(s)) PROVE x \in Range(s)
  <2>1. CASE x = Head(s)
    BY <1>1, <1>2, <2>1 DEF Range
  <2>2. CASE x \in Range(Tail(s))
    <3>1. PICK k \in 1..(Len(s) - 1) : x = Tail(s)[k]
      BY <1>3, <2>2 DEF Range
    <3>2. k + 1 \in 1..Len(s)
      BY <1>1
    <3> QED
      BY <1>1, <1>3, <3>1, <3>2 DEF Range
  <2> QED
    BY <1>5, <2>1, <2>2
<1> QED
  BY <1>2, <1>3, <1>4, <1>5

\* The elements of two lists.
LEMMA RangeConcat ==
  ASSUME NEW S, NEW s \in Seq(S), NEW t \in Seq(S)
  PROVE  s \o t \in Seq(S) /\ Range(s \o t) = Range(s) \cup Range(t)
<1>1. /\ s \o t \in Seq(S) /\ Len(s \o t) = Len(s) + Len(t)
      /\ \A i \in 1..(Len(s) + Len(t)) :
           (s \o t)[i] = IF i <= Len(s) THEN s[i] ELSE t[i - Len(s)]
  BY ConcatProperties
<1>2. /\ Len(s) \in Nat /\ Len(t) \in Nat /\ DOMAIN s = 1..Len(s) /\ DOMAIN t = 1..Len(t)
      /\ DOMAIN (s \o t) = 1..(Len(s) + Len(t))
  BY <1>1, LenProperties
<1>3. ASSUME NEW x \in Range(s \o t) PROVE x \in Range(s) \cup Range(t)
  <2>1. PICK i \in 1..(Len(s) + Len(t)) : x = (s \o t)[i]
    BY <1>2, <1>3 DEF Range
  <2>2. i <= Len(s) => i \in 1..Len(s)
    BY <1>2
  <2>3. ~(i <= Len(s)) => i - Len(s) \in 1..Len(t)
    BY <1>2
  <2> QED
    BY <1>1, <1>2, <2>1, <2>2, <2>3, Zenon DEF Range
<1>4. ASSUME NEW x \in Range(s) \cup Range(t) PROVE x \in Range(s \o t)
  <2>1. CASE x \in Range(s)
    <3>1. PICK i \in 1..Len(s) : x = s[i]
      BY <1>2, <2>1 DEF Range
    <3>2. i \in 1..(Len(s) + Len(t)) /\ i <= Len(s)
      BY <1>2
    <3>3. (s \o t)[i] = x
      BY <1>1, <3>1, <3>2, Zenon
    <3> QED
      BY <1>2, <3>2, <3>3 DEF Range
  <2>2. CASE x \in Range(t)
    <3>1. PICK i \in 1..Len(t) : x = t[i]
      BY <1>2, <2>2 DEF Range
    <3>2. i + Len(s) \in 1..(Len(s) + Len(t)) /\ ~(i + Len(s) <= Len(s))
        /\ (i + Len(s)) - Len(s) = i
      BY <1>2
    <3>3. (s \o t)[i + Len(s)] = x
      BY <1>1, <3>1, <3>2
    <3> QED
      BY <1>2, <3>2, <3>3 DEF Range
  <2> QED
    BY <1>4, <2>1, <2>2
<1> QED
  BY <1>1, <1>3, <1>4

\* The reverse of the first elements of a list.
LEMMA ReverseType ==
  ASSUME NEW S, NEW s \in Seq(S), NEW n \in Int, n <= Len(s)
  PROVE  Reverse(SubSeq(s, 1, n)) \in Seq(S)
<1>1. Len(s) \in Nat
  OBVIOUS
<1>3. PICK t \in Seq(S) : t = SubSeq(s, 1, n)
  <2>1. \A i \in 1..n : s[i] \in S
    BY <1>1, ElementOfSeq
  <2>2. 1 \in Int /\ n \in Int
    BY <1>1
  <2> QED
    BY <1>1, <2>1, <2>2, SubSeqProperties
<1>4. Len(t) \in Nat /\ \A i \in 1..Len(t) : (Len(t) - i) + 1 \in 1..Len(t)
  BY LenProperties
<1>5. Reverse(t) = [i \in 1..Len(t) |-> t[(Len(t) - i) + 1]]
  BY DEF Reverse
<1>6. \A i \in 1..Len(t) : t[(Len(t) - i) + 1] \in S
  BY <1>4, ElementOfSeq
<1> QED
  BY <1>3, <1>4, <1>5, <1>6

\* A list without repetitions, and a list that is the rest of another.
Once(s) == \A i, j \in 1..Len(s) : s[i] = s[j] => i = j
RestOf(t, s) == Len(t) <= Len(s) /\ \A i \in 1..Len(t) : t[i] = s[(Len(s) - Len(t)) + i]

\* A list of these names, each of them once.
ListOf(s, R) == s \in Seq(Names) /\ Range(s) = R /\ Once(s)

\* The rest of a list without repetitions.
LEMMA OnceTail ==
  ASSUME NEW S, NEW s \in Seq(S), s # <<>>, Once(s)
  PROVE  Once(Tail(s)) /\ Head(s) \notin Range(Tail(s))
<1>1. Len(s) \in Nat \ {0} /\ DOMAIN s = 1..Len(s)
  BY EmptySeq, LenProperties
<1>2. Head(s) = s[1]
  BY <1>1, HeadTailProperties
<1>3. /\ DOMAIN Tail(s) = 1..(Len(s) - 1) /\ Len(Tail(s)) = Len(s) - 1
      /\ \A k \in 1..(Len(s) - 1) : Tail(s)[k] = s[k + 1]
  BY HeadTailProperties, LenProperties
<1>4. \A k \in 1..(Len(s) - 1) : k + 1 \in 1..Len(s) /\ k + 1 # 1
  BY <1>1
<1>5. 1 \in 1..Len(s)
  BY <1>1
<1>6. ASSUME NEW i \in 1..Len(Tail(s)), NEW j \in 1..Len(Tail(s)), Tail(s)[i] = Tail(s)[j]
      PROVE  i = j
  <2>1. i \in 1..(Len(s) - 1) /\ j \in 1..(Len(s) - 1)
    BY <1>3, <1>6
  <2>2. s[i + 1] = s[j + 1] /\ i + 1 \in 1..Len(s) /\ j + 1 \in 1..Len(s)
    BY <1>3, <1>4, <1>6, <2>1
  <2>3. i + 1 = j + 1
    BY <2>2 DEF Once
  <2> QED
    BY <2>1, <2>3
<1>7. ASSUME Head(s) \in Range(Tail(s)) PROVE FALSE
  <2>1. PICK k \in 1..(Len(s) - 1) : Head(s) = Tail(s)[k]
    BY <1>3, <1>7 DEF Range
  <2>2. s[1] = s[k + 1] /\ k + 1 \in 1..Len(s)
    BY <1>2, <1>3, <1>4, <2>1
  <2>3. 1 = k + 1
    BY <1>5, <2>2 DEF Once
  <2> QED
    BY <1>4, <2>1, <2>3
<1> QED
  BY <1>6, <1>7 DEF Once

\* The rest of the rest of a list.
LEMMA RestTail ==
  ASSUME NEW S, NEW s \in Seq(S), NEW t \in Seq(S), t # <<>>, RestOf(t, s)
  PROVE  RestOf(Tail(t), s)
<1>1. Len(t) \in Nat \ {0} /\ Len(s) \in Nat
  BY EmptySeq, LenProperties
<1>3. /\ Len(Tail(t)) = Len(t) - 1
      /\ \A k \in 1..(Len(t) - 1) : Tail(t)[k] = t[k + 1]
  BY HeadTailProperties, LenProperties
<1>4. ASSUME NEW i \in 1..Len(Tail(t)) PROVE Tail(t)[i] = s[(Len(s) - Len(Tail(t))) + i]
  <2>1. i \in 1..(Len(t) - 1) /\ i + 1 \in 1..Len(t)
    BY <1>1, <1>3
  <2>2. Tail(t)[i] = s[(Len(s) - Len(t)) + (i + 1)]
    BY <1>3, <2>1 DEF RestOf
  <2>3. (Len(s) - Len(t)) + (i + 1) = (Len(s) - Len(Tail(t))) + i
    BY <1>1, <1>3, <2>1
  <2> QED
    BY <2>2, <2>3
<1>5. Len(Tail(t)) <= Len(s)
  BY <1>1, <1>3 DEF RestOf
<1> QED
  BY <1>4, <1>5 DEF RestOf

\* The elements of the rest of a list.
LEMMA RestRange ==
  ASSUME NEW S, NEW s \in Seq(S), NEW t \in Seq(S), RestOf(t, s)
  PROVE  Range(t) \subseteq Range(s)
<1>1. /\ Len(s) \in Nat /\ Len(t) \in Nat /\ Len(t) <= Len(s)
      /\ DOMAIN s = 1..Len(s) /\ DOMAIN t = 1..Len(t)
  BY LenProperties DEF RestOf
<1>2. ASSUME NEW i \in 1..Len(t) PROVE t[i] \in Range(s)
  <2>1. (Len(s) - Len(t)) + i \in 1..Len(s)
    BY <1>1
  <2>2. t[i] = s[(Len(s) - Len(t)) + i]
    BY DEF RestOf
  <2> QED
    BY <1>1, <2>1, <2>2 DEF Range
<1> QED
  BY <1>1, <1>2 DEF Range

\* The elements before the rest of a list, the last first.
LEMMA BeforeRest ==
  ASSUME NEW S, NEW s \in Seq(S), NEW t \in Seq(S), Once(s), RestOf(t, s)
  PROVE  LET u == Reverse(SubSeq(s, 1, Len(s) - Len(t)))
         IN  Once(u) /\ Range(u) = Range(s) \ Range(t)
<1>1. PICK m : m = Len(s) - Len(t)
  OBVIOUS
<1>2. /\ Len(s) \in Nat /\ Len(t) \in Nat /\ m \in Nat /\ m <= Len(s)
      /\ DOMAIN s = 1..Len(s) /\ DOMAIN t = 1..Len(t)
  BY <1>1, LenProperties DEF RestOf
<1>3. PICK p : p = SubSeq(s, 1, m)
  OBVIOUS
<1>4. Len(p) = m /\ \A i \in 1..m : p[i] = s[i]
  BY <1>2, <1>3, SubSeqProperties
<1>5. PICK u : u = [i \in 1..m |-> p[(m - i) + 1]]
  OBVIOUS
<1>6. u = Reverse(SubSeq(s, 1, Len(s) - Len(t)))
  BY <1>1, <1>3, <1>4, <1>5 DEF Reverse
<1>7. Len(u) = m /\ DOMAIN u = 1..m
  BY <1>2, <1>5
<1>8. \A i \in 1..m : (m - i) + 1 \in 1..m /\ (m - ((m - i) + 1)) + 1 = i
  BY <1>2
<1>9. \A i \in 1..m : u[i] = s[(m - i) + 1] /\ (m - i) + 1 \in 1..Len(s)
  <2> TAKE i \in 1..m
  <2>1. (m - i) + 1 \in 1..m
    BY <1>8
  <2>2. u[i] = p[(m - i) + 1]
    BY <1>5
  <2>3. (m - i) + 1 \in 1..Len(s)
    BY <1>2, <2>1
  <2> QED
    BY <1>4, <2>1, <2>2, <2>3
<1>10. ASSUME NEW i \in 1..m, NEW j \in 1..m, u[i] = u[j] PROVE i = j
  <2>1. (m - i) + 1 = (m - j) + 1
    BY <1>9, <1>10 DEF Once
  <2> QED
    BY <1>2, <2>1
<1>11. ASSUME NEW x \in Range(u) PROVE x \in Range(s) \ Range(t)
  <2>1. PICK i \in 1..m : x = u[i]
    BY <1>7, <1>11 DEF Range
  <2>2. x = s[(m - i) + 1] /\ (m - i) + 1 \in 1..Len(s)
    BY <1>9, <2>1
  <2>3. ASSUME x \in Range(t) PROVE FALSE
    <3>1. PICK j \in 1..Len(t) : x = t[j]
      BY <1>2, <2>3 DEF Range
    <3>2. x = s[m + j] /\ m + j \in 1..Len(s)
      BY <1>1, <1>2, <3>1 DEF RestOf
    <3>3. (m - i) + 1 = m + j
      BY <2>2, <3>2 DEF Once
    <3> QED
      BY <1>2, <3>3
  <2> QED
    BY <1>2, <2>2, <2>3 DEF Range
<1>12. ASSUME NEW x \in Range(s) \ Range(t) PROVE x \in Range(u)
  <2>1. PICK k \in 1..Len(s) : x = s[k]
    BY <1>2, <1>12 DEF Range
  <2>2. CASE k > m
    <3>1. k - m \in 1..Len(t) /\ m + (k - m) = k
      BY <1>1, <1>2, <2>2
    <3>2. t[k - m] = s[m + (k - m)]
      BY <1>1, <3>1 DEF RestOf
    <3>3. t[k - m] = x
      BY <2>1, <3>1, <3>2
    <3> QED
      BY <1>2, <1>12, <3>1, <3>3 DEF Range
  <2>3. CASE ~(k > m)
    <3>1. k \in 1..m
      BY <1>2, <2>3
    <3>2. (m - k) + 1 \in 1..m /\ (m - ((m - k) + 1)) + 1 = k
      BY <1>8, <3>1
    <3>3. u[(m - k) + 1] = x
      BY <1>9, <2>1, <3>2
    <3> QED
      BY <1>7, <3>2, <3>3 DEF Range
  <2> QED
    BY <2>2, <2>3
<1> QED
  BY <1>6, <1>7, <1>10, <1>11, <1>12 DEF Once

\* Two lists without repetitions and without a common element.
LEMMA ListConcat ==
  ASSUME NEW s, NEW t, NEW A, NEW B, ListOf(s, A), ListOf(t, B), A \cap B = {}
  PROVE  ListOf(s \o t, A \cup B)
<1>0. s \in Seq(Names) /\ t \in Seq(Names) /\ Once(s) /\ Once(t) /\ Range(s) = A /\ Range(t) = B
  BY DEF ListOf
<1>1. s \o t \in Seq(Names) /\ Range(s \o t) = A \cup B
  <2>1. s \in Seq(Names) /\ t \in Seq(Names)
    BY <1>0
  <2>2. s \o t \in Seq(Names) /\ Range(s \o t) = Range(s) \cup Range(t)
    BY <2>1, RangeConcat
  <2> QED
    BY <1>0, <2>2
<1>2. /\ Len(s \o t) = Len(s) + Len(t)
      /\ \A i \in 1..(Len(s) + Len(t)) :
           (s \o t)[i] = IF i <= Len(s) THEN s[i] ELSE t[i - Len(s)]
  BY <1>0, ConcatProperties
<1>3. PICK m, n, c : m = Len(s) /\ n = Len(t) /\ c = s \o t
  OBVIOUS
<1>4. m \in Nat /\ n \in Nat /\ DOMAIN s = 1..m /\ DOMAIN t = 1..n /\ Len(c) = m + n
  BY <1>0, <1>2, <1>3, LenProperties
<1>5. \A i \in 1..(m + n) : /\ i <= m => i \in 1..m /\ c[i] = s[i]
                            /\ ~(i <= m) => i - m \in 1..n /\ c[i] = t[i - m]
  BY <1>2, <1>3, <1>4
<1>6. \A i \in 1..m : s[i] \in A
  BY <1>0, <1>4 DEF Range
<1>7. \A i \in 1..n : t[i] \in B
  BY <1>0, <1>4 DEF Range
<1>8. ASSUME NEW i \in 1..(m + n), NEW j \in 1..(m + n), c[i] = c[j] PROVE i = j
  <2>1. CASE i <= m /\ j <= m
    BY <1>0, <1>3, <1>5, <1>8, <2>1 DEF Once
  <2>2. CASE ~(i <= m) /\ ~(j <= m)
    <3>1. i - m = j - m
      BY <1>0, <1>3, <1>5, <1>8, <2>2 DEF Once
    <3> QED
      BY <1>4, <3>1
  <2>3. CASE i <= m /\ ~(j <= m)
    BY <1>5, <1>6, <1>7, <1>8, <2>3
  <2>4. CASE ~(i <= m) /\ j <= m
    BY <1>5, <1>6, <1>7, <1>8, <2>4
  <2> QED
    BY <2>1, <2>2, <2>3, <2>4
<1> QED
  BY <1>1, <1>3, <1>4, <1>8 DEF ListOf, Once

\* A list of 1.
LEMMA Names1 ==
  ASSUME NEW a \in Names
  PROVE  ListOf(<<a>>, {a})
<1> DEFINE s == <<a>>
<1>1. s \in Seq(Names) /\ Len(s) = 1 /\ DOMAIN s = 1..1 /\ s[1] = a
  OBVIOUS
<1>2. 1..1 = {1}
  OBVIOUS
<1> HIDE DEF s
<1>3. Range(s) = {s[1]}
  BY <1>1, <1>2 DEF Range
<1>4. Once(s)
  BY <1>1, <1>2 DEF Once
<1> QED
  BY <1>1, <1>3, <1>4 DEF s, ListOf

\* A list of 2.
LEMMA Names2 ==
  ASSUME NEW a \in Names, NEW b \in Names,
         a # b
  PROVE  ListOf(<<a, b>>, {a, b})
<1> DEFINE s == <<a, b>>
<1>1. s \in Seq(Names) /\ Len(s) = 2 /\ DOMAIN s = 1..2 /\ s[1] = a /\ s[2] = b
  OBVIOUS
<1>2. 1..2 = {1, 2}
  OBVIOUS
<1> HIDE DEF s
<1>3. Range(s) = {s[1], s[2]}
  BY <1>1, <1>2 DEF Range
<1>4. Once(s)
  BY <1>1, <1>2 DEF Once
<1> QED
  BY <1>1, <1>3, <1>4 DEF s, ListOf

\* A list of 3.
LEMMA Names3 ==
  ASSUME NEW a \in Names, NEW b \in Names, NEW c \in Names,
         a # b /\ a # c /\ b # c
  PROVE  ListOf(<<a, b, c>>, {a, b, c})
<1> DEFINE s == <<a, b, c>>
<1>1. s \in Seq(Names) /\ Len(s) = 3 /\ DOMAIN s = 1..3 /\ s[1] = a /\ s[2] = b /\ s[3] = c
  OBVIOUS
<1>2. 1..3 = {1, 2, 3}
  OBVIOUS
<1> HIDE DEF s
<1>3. Range(s) = {s[1], s[2], s[3]}
  BY <1>1, <1>2 DEF Range
<1>4. Once(s)
  BY <1>1, <1>2 DEF Once
<1> QED
  BY <1>1, <1>3, <1>4 DEF s, ListOf

\* A list of 4.
LEMMA Names4 ==
  ASSUME NEW a \in Names, NEW b \in Names, NEW c \in Names, NEW d \in Names,
         a # b /\ a # c /\ a # d /\ b # c /\ b # d /\ c # d
  PROVE  ListOf(<<a, b, c, d>>, {a, b, c, d})
<1> DEFINE s == <<a, b, c, d>>
<1>1. s \in Seq(Names) /\ Len(s) = 4 /\ DOMAIN s = 1..4 /\ s[1] = a /\ s[2] = b
    /\ s[3] = c /\ s[4] = d
  OBVIOUS
<1>2. 1..4 = {1, 2, 3, 4}
  OBVIOUS
<1> HIDE DEF s
<1>3. Range(s) = {s[1], s[2], s[3], s[4]}
  BY <1>1, <1>2 DEF Range
<1>4. Once(s)
  BY <1>1, <1>2 DEF Once
<1> QED
  BY <1>1, <1>3, <1>4 DEF s, ListOf

\* A list of 6.
LEMMA Names6 ==
  ASSUME NEW a \in Names, NEW b \in Names, NEW c \in Names, NEW d \in Names, NEW e \in Names,
    NEW f \in Names,
         a # b /\ a # c /\ a # d /\ a # e /\ a # f /\ b # c /\ b # d /\ b # e /\ b # f
           /\ c # d /\ c # e /\ c # f /\ d # e /\ d # f /\ e # f
  PROVE  ListOf(<<a, b, c, d, e, f>>, {a, b, c, d, e, f})
<1> DEFINE s == <<a, b, c, d, e, f>>
<1>1. s \in Seq(Names) /\ Len(s) = 6 /\ DOMAIN s = 1..6 /\ s[1] = a /\ s[2] = b
    /\ s[3] = c /\ s[4] = d /\ s[5] = e /\ s[6] = f
  OBVIOUS
<1>2. 1..6 = {1, 2, 3, 4, 5, 6}
  OBVIOUS
<1> HIDE DEF s
<1>3. Range(s) = {s[1], s[2], s[3], s[4], s[5], s[6]}
  BY <1>1, <1>2 DEF Range
<1>4. Once(s)
  BY <1>1, <1>2 DEF Once
<1> QED
  BY <1>1, <1>3, <1>4 DEF s, ListOf

\* What prepare_wdev takes, and what register_wdev takes.
Prep ==
  {"wdev", "ldev", "ddev", "super", "queue", "gd", "log_queue", "log_gd", "iocored"} \cup Caches
Registered == {"checkpoint", "log_disk", "disk", "sysfs"}

\* The lists of what is taken and released.
LEMMA ExactOrders ==
  /\ ListOf(PrepareOrder, Prep \cup {"redo"}) /\ ListOf(RegisterOrder, Registered)
  /\ ListOf(RegisterError, Registered \ {"sysfs"}) /\ ListOf(UnregisterOrder, Registered)
  /\ ListOf(FinalizeOrder, {"super", "ddev", "ldev"})
  /\ ListOf(DestroyOrder, Prep \ {"super", "ddev", "ldev"})
<1>0. /\ "wdev" \in Names /\ "gd" \in Names /\ "iocored" \in Names /\ "disk" \in Names
      /\ "log_disk" \in Names /\ "ldev" \in Names /\ "ddev" \in Names /\ "super" \in Names
      /\ "queue" \in Names /\ "log_queue" \in Names /\ "log_gd" \in Names /\ "redo" \in Names
      /\ "checkpoint" \in Names /\ "sysfs" \in Names /\ "treemap" \in Names /\ "pack" \in Names
      /\ "bio_entry" \in Names /\ "bio_wrapper" \in Names /\ "pack_work" \in Names
  BY DEF Names, Core, DiskParts, Caches
<1>1. ListOf(<<"wdev", "ldev", "ddev", "super">>, {"wdev", "ldev", "ddev", "super"})
  BY <1>0, Names4
<1>2. /\ ListOf(DeviceOrder, {"queue", "gd"}) /\ ListOf(LogDeviceOrder, {"log_queue", "log_gd"})
  BY <1>0, Names2 DEF DeviceOrder, LogDeviceOrder
<1>3. /\ ListOf(DeviceFinal, {"gd", "queue"}) /\ ListOf(LogDeviceFinal, {"log_gd", "log_queue"})
  BY <1>0, Names2 DEF DeviceFinal, LogDeviceFinal
<1>4. ListOf(IocoreOrder, {"treemap", "pack", "bio_entry", "bio_wrapper", "pack_work", "iocored"})
  BY <1>0, Names6 DEF IocoreOrder
<1>5. ListOf(IocoreFinal, {"iocored", "pack_work", "bio_wrapper", "bio_entry", "pack", "treemap"})
  BY <1>0, Names6 DEF IocoreFinal
<1>6. ListOf(<<"redo">>, {"redo"}) /\ ListOf(<<"wdev">>, {"wdev"})
  BY <1>0, Names1
<1>7. ListOf(PrepareOrder, Prep \cup {"redo"})
  <2>1. ListOf(<<"wdev", "ldev", "ddev", "super">> \o DeviceOrder,
               {"wdev", "ldev", "ddev", "super"} \cup {"queue", "gd"})
    <3>1. {"wdev", "ldev", "ddev", "super"} \cap {"queue", "gd"} = {}
      OBVIOUS
    <3> QED
      BY <1>1, <1>2, <3>1, ListConcat, Zenon
  <2>2. ListOf(<<"wdev", "ldev", "ddev", "super">> \o DeviceOrder \o LogDeviceOrder,
               {"wdev", "ldev", "ddev", "super"} \cup {"queue", "gd"} \cup {"log_queue", "log_gd"})
    <3>1. ({"wdev", "ldev", "ddev", "super"} \cup {"queue", "gd"}) \cap {"log_queue", "log_gd"} = {}
      OBVIOUS
    <3> QED
      BY <1>2, <2>1, <3>1, ListConcat, Zenon
  <2>3. ListOf(<<"wdev", "ldev", "ddev", "super">> \o DeviceOrder \o LogDeviceOrder \o IocoreOrder,
               Prep)
    <3> DEFINE A == {"wdev", "ldev", "ddev", "super"} \cup {"queue", "gd"} \cup {"log_queue", "log_gd"}
               B == {"treemap", "pack", "bio_entry", "bio_wrapper", "pack_work", "iocored"}
    <3>1. A \cap B = {} /\ A \cup B = Prep
      BY DEF Prep, Caches
    <3>2. ListOf(<<"wdev", "ldev", "ddev", "super">> \o DeviceOrder \o LogDeviceOrder \o IocoreOrder,
                 A \cup B)
      BY <1>4, <2>2, <3>1, ListConcat, Zenon
    <3> QED
      BY <3>1, <3>2, Zenon
  <2>4. Prep \cap {"redo"} = {}
    BY DEF Prep, Caches
  <2> QED
    BY <1>6, <2>3, <2>4, ListConcat, Zenon DEF PrepareOrder
<1>8. ListOf(DestroyOrder, Prep \ {"super", "ddev", "ldev"})
  <2>1. ListOf(LogDeviceFinal \o DeviceFinal, {"log_gd", "log_queue"} \cup {"gd", "queue"})
    <3>1. {"log_gd", "log_queue"} \cap {"gd", "queue"} = {}
      OBVIOUS
    <3> QED
      BY <1>3, <3>1, ListConcat, Zenon
  <2> DEFINE A == {"log_gd", "log_queue"} \cup {"gd", "queue"}
             B == {"iocored", "pack_work", "bio_wrapper", "bio_entry", "pack", "treemap"}
  <2>2. A \cap B = {} /\ (A \cup B) \cap {"wdev"} = {}
        /\ (A \cup B) \cup {"wdev"} = Prep \ {"super", "ddev", "ldev"}
    BY DEF Prep, Caches
  <2>3. ListOf(LogDeviceFinal \o DeviceFinal \o IocoreFinal, A \cup B)
    BY <1>5, <2>1, <2>2, ListConcat, Zenon
  <2>4. ListOf(LogDeviceFinal \o DeviceFinal \o IocoreFinal \o <<"wdev">>, (A \cup B) \cup {"wdev"})
    BY <1>6, <2>2, <2>3, ListConcat, Zenon
  <2> QED
    BY <2>2, <2>4, Zenon DEF DestroyOrder
<1>9. ListOf(RegisterOrder, Registered) /\ ListOf(UnregisterOrder, Registered)
  <2>1. ListOf(RegisterOrder, {"checkpoint", "log_disk", "disk", "sysfs"})
    BY <1>0, Names4 DEF RegisterOrder
  <2>2. ListOf(UnregisterOrder, {"checkpoint", "sysfs", "log_disk", "disk"})
    BY <1>0, Names4 DEF UnregisterOrder
  <2>3. {"checkpoint", "sysfs", "log_disk", "disk"} = Registered
    BY DEF Registered
  <2> QED
    BY <2>1, <2>2, <2>3, Zenon DEF Registered
<1>10. ListOf(RegisterError, Registered \ {"sysfs"})
  <2>1. ListOf(RegisterError, {"disk", "log_disk", "checkpoint"})
    BY <1>0, Names3 DEF RegisterError
  <2>2. {"disk", "log_disk", "checkpoint"} = Registered \ {"sysfs"}
    BY DEF Registered
  <2> QED
    BY <2>1, <2>2, Zenon
<1>11. ListOf(FinalizeOrder, {"super", "ddev", "ldev"})
  BY <1>0, Names3 DEF FinalizeOrder
<1> QED
  BY <1>7, <1>8, <1>9, <1>10, <1>11

\* What is taken and released, as far as the users of the device are concerned.
LEMMA Orders ==
  /\ PrepareOrder \in Seq(Names) /\ RegisterOrder \in Seq(Names) /\ RegisterError \in Seq(Names)
  /\ UnregisterOrder \in Seq(Names) /\ FinalizeOrder \in Seq(Names) /\ DestroyOrder \in Seq(Names)
  /\ Core \subseteq Range(PrepareOrder) /\ Range(PrepareOrder) \cap DiskParts = {}
  /\ DiskParts \subseteq Range(RegisterError) /\ Range(RegisterError) \cap Core = {}
  /\ DiskParts \subseteq Range(UnregisterOrder) /\ Range(UnregisterOrder) \cap Core = {}
  /\ Range(FinalizeOrder) \cap Core = {}
<1>1. /\ Core \subseteq Prep /\ Prep \cap DiskParts = {} /\ "redo" \notin DiskParts
      /\ DiskParts \subseteq Registered \ {"sysfs"} /\ Registered \cap Core = {}
      /\ {"super", "ddev", "ldev"} \cap Core = {}
  BY DEF Core, DiskParts, Prep, Registered, Caches
<1>2. /\ PrepareOrder \in Seq(Names) /\ RegisterOrder \in Seq(Names) /\ RegisterError \in Seq(Names)
      /\ UnregisterOrder \in Seq(Names) /\ FinalizeOrder \in Seq(Names)
        /\ DestroyOrder \in Seq(Names)
      /\ Range(PrepareOrder) = Prep \cup {"redo"} /\ Range(RegisterError) = Registered \ {"sysfs"}
      /\ Range(UnregisterOrder) = Registered /\ Range(FinalizeOrder) = {"super", "ddev", "ldev"}
  BY ExactOrders DEF ListOf
<1> QED
  BY <1>1, <1>2

\* Nobody holds the lock over a listed device: all of them run.
LEMMA ListedNext ==
  ASSUME \A k \in Keys, v \in Wdevs : idr'[k] = v => key'[v] = k /\ stage'[v] = "running"
  PROVE  ListedOK'
BY DEF ListedOK


-----------------------------------------------------------------------------
(* The invariant *)

\* n_users is 0: nobody has the disk open.
LEMMA NoUsers ==
  ASSUME NEW w \in Wdevs, NUsers(w) = 0
  PROVE  \A u \in Users : opened[u] # <<"disk", w>>
<1> DEFINE S == {u \in Users : opened[u] = <<"disk", w>>}
<1>1. IsFiniteSet(S)
  BY DevicesAssumption, FS_Subset
<1>2. Cardinality(S) = 0
  BY DEF NUsers
<1>3. S = {}
  BY <1>1, <1>2, FS_EmptySet
<1> QED
  BY <1>3

\* The list of nothing.
LEMMA RangeEmpty == Range(<<>>) = {}
BY DEF Range

\* Every step keeps the invariant.
LEMMA DevKept ==
  ASSUME DevInv, [Next]_vars
  PROVE  DevInv'
<1>0. 0 \in Keys
  BY DevicesAssumption DEF Keys
<1> USE <1>0, DevicesAssumption, Orders, RangeEmpty
<1> USE DEF TypesOK, DevInv, mod, dev, resources, user
<1>1. ASSUME NEW w \in Wdevs, NEW r \in Requests, StartDev(w, r) PROVE DevInv'
  <2>1. TypesOK'
    BY <1>1 DEF StartDev, AllocMinor, Stages, NoDisks, Closed
  <2>2. LockOK'
    BY <1>1 DEF StartDev, AllocMinor, LockOK, ListedOK
  <2>3. ListedOK'
    BY <1>1 DEF StartDev, AllocMinor, LockOK, ListedOK
  <2>4. HeldOK'
    BY <1>1 DEF StartDev, AllocMinor, LockOK, ListedOK, HeldOK, HeldAt, Core, DiskParts,
       Closed, NoDisks, Caches
  <2>5. UsersOK'
    <3>1. \A u \in Users : ~HasOpen(opened[u], w)
      BY <1>1 DEF StartDev, HasOpen
    <3> QED
      BY <1>1, <3>1 DEF StartDev, UsersOK, Closed
  <2> QED
    BY <2>1, <2>2, <2>3, <2>4, <2>5
<1>2. ASSUME NEW w \in Wdevs, Prepare(w) PROVE DevInv'
  <2>1. /\ Head(todo[w]) \in Names /\ Tail(todo[w]) \in Seq(Names)
        /\ Range(todo[w]) = {Head(todo[w])} \cup Range(Tail(todo[w]))
    BY <1>2, RangeTail DEF Prepare
  <2>2. TypesOK'
    BY <1>2, <2>1 DEF Prepare, Take, Stages, NoDisks, Closed
  <2>3. LockOK'
    BY <1>2, <2>1 DEF Prepare, Take, LockOK, ListedOK
  <2>4. ListedOK'
    BY <1>2, <2>1 DEF Prepare, Take, LockOK, ListedOK
  <2>5. HeldOK'
    <3>1. /\ held'[w] \in {held[w], held[w] \cup {Head(todo[w])}}
          /\ Head(todo[w]) \in Core => held'[w] = held[w] \cup {Head(todo[w])}
      BY <1>2, <2>1 DEF Prepare, Take, Core, Caches
    <3>2. stage' = stage /\ todo'[w] = Tail(todo[w])
          /\ \A v \in Wdevs : v # w => held'[v] = held[v] /\ todo'[v] = todo[v]
      BY <1>2 DEF Prepare, Take
    <3>3. HeldAt(stage[w], held'[w], Tail(todo[w]))
      <4>1. /\ stage[w] = "prepare" /\ held[w] \cap DiskParts = {}
            /\ Core \subseteq held[w] \cup Range(todo[w]) /\ Range(todo[w]) \cap DiskParts = {}
        BY <1>2 DEF Prepare, HeldOK, HeldAt, NoDisks, Closed
      <4>2. held'[w] \cap DiskParts = {} /\ Range(Tail(todo[w])) \cap DiskParts = {}
        BY <2>1, <3>1, <4>1
      <4>3. Core \subseteq held'[w] \cup Range(Tail(todo[w]))
        BY <2>1, <3>1, <4>1
      <4> QED
        BY <4>1, <4>2, <4>3 DEF HeldAt, Closed
    <3> QED
      BY <3>2, <3>3, Zenon DEF HeldOK
  <2>6. UsersOK'
    BY <1>2, <2>1 DEF Prepare, Take, LockOK, ListedOK, UsersOK, Closed
  <2> QED
    BY <2>2, <2>3, <2>4, <2>5, <2>6
<1>3. ASSUME NEW w \in Wdevs, PrepareFail(w) PROVE DevInv'
  <2>1. Taken(w) \in Seq(Names)
    <3>1. /\ Len(PrepareOrder) - Len(todo[w]) \in Int
          /\ Len(PrepareOrder) - Len(todo[w]) <= Len(PrepareOrder)
      OBVIOUS
    <3> QED
      BY <3>1, ReverseType DEF Taken
  <2>2. TypesOK'
    BY <1>3, <2>1 DEF PrepareFail, Stages, NoDisks, Closed
  <2>3. LockOK'
    BY <1>3, <2>1 DEF PrepareFail, LockOK, ListedOK
  <2>4. ListedOK'
    BY <1>3, <2>1 DEF PrepareFail, LockOK, ListedOK
  <2>5. HeldOK'
    BY <1>3, <2>1 DEF PrepareFail, LockOK, ListedOK, HeldOK, HeldAt, Core, DiskParts, Closed,
       NoDisks, Caches
  <2>6. UsersOK'
    BY <1>3, <2>1 DEF PrepareFail, LockOK, ListedOK, UsersOK, Closed
  <2> QED
    BY <2>2, <2>3, <2>4, <2>5, <2>6
<1>4. ASSUME NEW w \in Wdevs, Release(w) PROVE DevInv'
  <2>1. /\ Head(todo[w]) \in Names /\ Tail(todo[w]) \in Seq(Names)
        /\ Range(todo[w]) = {Head(todo[w])} \cup Range(Tail(todo[w]))
    BY <1>4, RangeTail DEF Release
  <2>2. TypesOK'
    BY <1>4, <2>1 DEF Release, Give, Stages, NoDisks, Closed
  <2>3. LockOK'
    BY <1>4, <2>1 DEF Release, Give, LockOK, ListedOK
  <2>4. ListedOK'
    BY <1>4, <2>1 DEF Release, Give, LockOK, ListedOK
  <2>5. HeldOK'
    <3>1. held'[w] = held[w] \ {Head(todo[w])}
      BY <1>4, <2>1 DEF Release, Give
    <3>2. stage' = stage /\ todo'[w] = Tail(todo[w])
          /\ \A v \in Wdevs : v # w => held'[v] = held[v] /\ todo'[v] = todo[v]
      BY <1>4 DEF Release, Give
    <3>3. HeldAt(stage[w], held'[w], Tail(todo[w]))
      <4>1. HeldAt(stage[w], held[w], todo[w])
        BY DEF HeldOK
      <4>2. stage[w] \in {"unregister", "register_error", "finalize", "destroy", "unwind"}
        BY <1>4 DEF Release
      <4>3. stage[w] \in NoDisks => held'[w] \cap DiskParts = {}
        BY <3>1, <4>1 DEF HeldAt
      <4>4. stage[w] \in {"unregister", "register_error"} =>
              held'[w] \cap DiskParts \subseteq Range(Tail(todo[w]))
        BY <2>1, <3>1, <4>1 DEF HeldAt
      <4>5. stage[w] \notin Closed => Core \subseteq held'[w]
        BY <2>1, <3>1, <4>1, <4>2 DEF HeldAt, Closed
      <4>6. stage[w] \in {"unregister", "register_error", "finalize"} =>
              Range(Tail(todo[w])) \cap Core = {}
        BY <2>1, <4>1 DEF HeldAt
      <4> QED
        BY <4>2, <4>3, <4>4, <4>5, <4>6 DEF HeldAt
    <3> QED
      BY <3>2, <3>3, Zenon DEF HeldOK
  <2>6. UsersOK'
    BY <1>4, <2>1 DEF Release, Give, LockOK, ListedOK, UsersOK, Closed
  <2> QED
    BY <2>2, <2>3, <2>4, <2>5, <2>6
<1>5. ASSUME NEW w \in Wdevs, StartFailed(w) PROVE DevInv'
  <2>1. TypesOK'
    BY <1>5 DEF StartFailed, Free, Stages, NoDisks, Closed
  <2>2. LockOK'
    BY <1>5 DEF StartFailed, Free, LockOK, ListedOK
  <2>3. ListedOK'
    BY <1>5 DEF StartFailed, Free, LockOK, ListedOK
  <2>4. HeldOK'
    BY <1>5 DEF StartFailed, Free, LockOK, ListedOK, HeldOK, HeldAt, Core, DiskParts, Closed,
       NoDisks, Caches
  <2>5. UsersOK'
    BY <1>5 DEF StartFailed, Free, LockOK, ListedOK, UsersOK, Closed
  <2> QED
    BY <2>1, <2>2, <2>3, <2>4, <2>5
<1>6. ASSUME NEW w \in Wdevs, AddDev(w) PROVE DevInv'
  <2>1. TypesOK'
    BY <1>6 DEF AddDev, Stages, NoDisks, Closed
  <2>2. LockOK'
    BY <1>6 DEF AddDev, LockOK, ListedOK
  <2>3. ListedOK'
    BY <1>6 DEF AddDev, LockOK, ListedOK
  <2>4. HeldOK'
    BY <1>6 DEF AddDev, LockOK, ListedOK, HeldOK, HeldAt, Core, DiskParts, Closed, NoDisks,
       Caches
  <2>5. UsersOK'
    BY <1>6 DEF AddDev, LockOK, ListedOK, UsersOK, Closed
  <2> QED
    BY <2>1, <2>2, <2>3, <2>4, <2>5
<1>7. ASSUME NEW w \in Wdevs, AddDevClash(w) PROVE DevInv'
  <2>1. TypesOK'
    BY <1>7 DEF AddDevClash, Stages, NoDisks, Closed
  <2>2. LockOK'
    BY <1>7 DEF AddDevClash, LockOK, ListedOK
  <2>3. ListedOK'
    BY <1>7 DEF AddDevClash, LockOK, ListedOK
  <2>4. HeldOK'
    BY <1>7 DEF AddDevClash, LockOK, ListedOK, HeldOK, HeldAt, Core, DiskParts, Closed,
       NoDisks, Caches
  <2>5. UsersOK'
    BY <1>7 DEF AddDevClash, LockOK, ListedOK, UsersOK, Closed
  <2> QED
    BY <2>1, <2>2, <2>3, <2>4, <2>5
<1>8. ASSUME NEW w \in Wdevs, Register(w) PROVE DevInv'
  <2>1. /\ Head(todo[w]) \in Names /\ Tail(todo[w]) \in Seq(Names)
        /\ Range(todo[w]) = {Head(todo[w])} \cup Range(Tail(todo[w]))
    BY <1>8, RangeTail DEF Register
  <2>2. TypesOK'
    BY <1>8, <2>1 DEF Register, Take, Stages, NoDisks, Closed
  <2>3. LockOK'
    BY <1>8, <2>1 DEF Register, Take, LockOK, ListedOK
  <2>4. ListedOK'
    BY <1>8, <2>1 DEF Register, Take, LockOK, ListedOK
  <2>5. HeldOK'
    BY <1>8, <2>1 DEF Register, Take, LockOK, ListedOK, HeldOK, HeldAt, Core, DiskParts,
       Closed, NoDisks, Caches
  <2>6. UsersOK'
    BY <1>8, <2>1 DEF Register, Take, LockOK, ListedOK, UsersOK, Closed
  <2> QED
    BY <2>2, <2>3, <2>4, <2>5, <2>6
<1>9. ASSUME NEW w \in Wdevs, RegisterFail(w) PROVE DevInv'
  <2>1. TypesOK'
    BY <1>9 DEF RegisterFail, Stages, NoDisks, Closed
  <2>2. LockOK'
    BY <1>9 DEF RegisterFail, LockOK, ListedOK
  <2>3. ListedOK'
    BY <1>9 DEF RegisterFail, LockOK, ListedOK
  <2>4. HeldOK'
    BY <1>9 DEF RegisterFail, LockOK, ListedOK, HeldOK, HeldAt, Core, DiskParts, Closed,
       NoDisks, Caches
  <2>5. UsersOK'
    BY <1>9 DEF RegisterFail, LockOK, ListedOK, UsersOK, Closed
  <2> QED
    BY <2>1, <2>2, <2>3, <2>4, <2>5
<1>10. ASSUME NEW w \in Wdevs, StartEnd(w) PROVE DevInv'
  <2>1. TypesOK'
    BY <1>10 DEF StartEnd, Stages, NoDisks, Closed
  <2>2. LockOK'
    BY <1>10 DEF StartEnd, LockOK, ListedOK
  <2>3. ListedOK'
    BY <1>10 DEF StartEnd, LockOK, ListedOK
  <2>4. HeldOK'
    BY <1>10 DEF StartEnd, LockOK, ListedOK, HeldOK, HeldAt, Core, DiskParts, Closed, NoDisks,
       Caches
  <2>5. UsersOK'
    BY <1>10 DEF StartEnd, LockOK, ListedOK, UsersOK, Closed
  <2> QED
    BY <2>1, <2>2, <2>3, <2>4, <2>5
<1>11. ASSUME NEW w \in Wdevs, NEW force \in BOOLEAN, StopDev(w, force) PROVE DevInv'
  <2>1. TypesOK'
    BY <1>11 DEF StopDev, Listed, Stages, NoDisks, Closed
  <2>2. LockOK'
    BY <1>11 DEF StopDev, Listed, LockOK, ListedOK
  <2>3. ListedOK'
    BY <1>11 DEF StopDev, Listed, LockOK, ListedOK
  <2>4. HeldOK'
    BY <1>11 DEF StopDev, Listed, LockOK, ListedOK, HeldOK, HeldAt, Core, DiskParts, Closed,
       NoDisks, Caches
  <2>5. UsersOK'
    BY <1>11 DEF StopDev, Listed, LockOK, ListedOK, UsersOK, Closed
  <2> QED
    BY <2>1, <2>2, <2>3, <2>4, <2>5
<1>12. ASSUME NEW w \in Wdevs, Unregistered(w) PROVE DevInv'
  <2>1. TypesOK'
    BY <1>12 DEF Unregistered, AlldevsDel, Stages, NoDisks, Closed
  <2>2. LockOK'
    BY <1>12 DEF Unregistered, AlldevsDel, LockOK, ListedOK
  <2>3. ListedOK'
    <3>1. CASE lock = w
      <4>1. idr' = [idr EXCEPT ![key[w]] = NoDev] /\ key' = key
          /\ stage' = [stage EXCEPT ![w] = "flush"]
        BY <1>12, <3>1 DEF Unregistered, AlldevsDel
      <4>2. ASSUME NEW k \in Keys, NEW v \in Wdevs, idr'[k] = v
            PROVE  v # w /\ idr[k] = v
        BY <4>1, <4>2 DEF ListedOK
      <4>3. ASSUME NEW k \in Keys, NEW v \in Wdevs, idr'[k] = v
            PROVE  key'[v] = k /\ stage'[v] = "running"
        BY <3>1, <4>1, <4>2, <4>3 DEF ListedOK
      <4>4. \A k \in Keys, v \in Wdevs : idr'[k] = v => key'[v] = k /\ stage'[v] = "running"
        BY <4>3
      <4> QED
        BY <4>4, ListedNext
    <3>2. CASE lock # w
      BY <1>12, <3>2 DEF Unregistered, AlldevsDel, LockOK, ListedOK
    <3> QED
      BY <3>1, <3>2
  <2>4. HeldOK'
    BY <1>12 DEF Unregistered, AlldevsDel, LockOK, ListedOK, HeldOK, HeldAt, Core, DiskParts,
       Closed, NoDisks, Caches
  <2>5. UsersOK'
    BY <1>12 DEF Unregistered, AlldevsDel, LockOK, ListedOK, UsersOK, Closed
  <2> QED
    BY <2>1, <2>2, <2>3, <2>4, <2>5
<1>13. ASSUME NEW w \in Wdevs, RegisterFailed(w) PROVE DevInv'
  <2>1. TypesOK'
    BY <1>13 DEF RegisterFailed, AlldevsDel, Stages, NoDisks, Closed
  <2>2. LockOK'
    BY <1>13 DEF RegisterFailed, AlldevsDel, LockOK, ListedOK
  <2>3. ListedOK'
    BY <1>13 DEF RegisterFailed, AlldevsDel, LockOK, ListedOK
  <2>4. HeldOK'
    BY <1>13 DEF RegisterFailed, AlldevsDel, LockOK, ListedOK, HeldOK, HeldAt, Core,
       DiskParts, Closed, NoDisks, Caches
  <2>5. UsersOK'
    BY <1>13 DEF RegisterFailed, AlldevsDel, LockOK, ListedOK, UsersOK, Closed
  <2> QED
    BY <2>1, <2>2, <2>3, <2>4, <2>5
<1>14. ASSUME NEW w \in Wdevs, Flush(w) PROVE DevInv'
  <2>1. TypesOK'
    BY <1>14 DEF Flush, Stages, NoDisks, Closed
  <2>2. LockOK'
    BY <1>14 DEF Flush, LockOK, ListedOK
  <2>3. ListedOK'
    BY <1>14 DEF Flush, LockOK, ListedOK
  <2>4. HeldOK'
    BY <1>14 DEF Flush, LockOK, ListedOK, HeldOK, HeldAt, Core, DiskParts, Closed, NoDisks,
       Caches
  <2>5. UsersOK'
    BY <1>14 DEF Flush, LockOK, ListedOK, UsersOK, Closed
  <2> QED
    BY <2>1, <2>2, <2>3, <2>4, <2>5
<1>15. ASSUME NEW w \in Wdevs, Finalized(w) PROVE DevInv'
  <2>1. TypesOK'
    BY <1>15 DEF Finalized, Stages, NoDisks, Closed
  <2>2. LockOK'
    BY <1>15 DEF Finalized, LockOK, ListedOK
  <2>3. ListedOK'
    BY <1>15 DEF Finalized, LockOK, ListedOK
  <2>4. HeldOK'
    BY <1>15 DEF Finalized, LockOK, ListedOK, HeldOK, HeldAt, Core, DiskParts, Closed,
       NoDisks, Caches
  <2>5. UsersOK'
    BY <1>15 DEF Finalized, LockOK, ListedOK, UsersOK, Closed
  <2> QED
    BY <2>1, <2>2, <2>3, <2>4, <2>5
<1>16. ASSUME NEW w \in Wdevs, WaitUsers(w) PROVE DevInv'
  <2>1. \A u \in Users : opened[u] # <<"disk", w>>
    BY <1>16, NoUsers DEF WaitUsers
  <2>2. TypesOK'
    BY <1>16, <2>1 DEF WaitUsers, Stages, NoDisks, Closed
  <2>3. LockOK'
    BY <1>16, <2>1 DEF WaitUsers, LockOK, ListedOK
  <2>4. ListedOK'
    BY <1>16, <2>1 DEF WaitUsers, LockOK, ListedOK
  <2>5. HeldOK'
    BY <1>16, <2>1 DEF WaitUsers, LockOK, ListedOK, HeldOK, HeldAt, Core, DiskParts, Closed,
       NoDisks, Caches
  <2>6. UsersOK'
    <3>1. \A u \in Users : ~HasOpen(opened[u], w)
      BY <2>1, Zenon DEF HasOpen
    <3> QED
      BY <1>16, <3>1 DEF WaitUsers, UsersOK, Closed
  <2> QED
    BY <2>2, <2>3, <2>4, <2>5, <2>6
<1>17. ASSUME NEW w \in Wdevs, Destroyed(w) PROVE DevInv'
  <2>1. TypesOK'
    BY <1>17 DEF Destroyed, Free, Stages, NoDisks, Closed
  <2>2. LockOK'
    BY <1>17 DEF Destroyed, Free, LockOK, ListedOK
  <2>3. ListedOK'
    BY <1>17 DEF Destroyed, Free, LockOK, ListedOK
  <2>4. HeldOK'
    BY <1>17 DEF Destroyed, Free, LockOK, ListedOK, HeldOK, HeldAt, Core, DiskParts, Closed,
       NoDisks, Caches
  <2>5. UsersOK'
    BY <1>17 DEF Destroyed, Free, LockOK, ListedOK, UsersOK, Closed
  <2> QED
    BY <2>1, <2>2, <2>3, <2>4, <2>5
<1>18. ASSUME NEW w \in Wdevs, AlldevsPop(w) PROVE DevInv'
  <2>1. TypesOK'
    BY <1>18 DEF AlldevsPop, AlldevsDel, Listed, Stages, NoDisks, Closed
  <2>2. LockOK'
    BY <1>18 DEF AlldevsPop, AlldevsDel, Listed, LockOK, ListedOK
  <2>3. ListedOK'
    BY <1>18 DEF AlldevsPop, AlldevsDel, Listed, LockOK, ListedOK
  <2>4. HeldOK'
    BY <1>18 DEF AlldevsPop, AlldevsDel, Listed, LockOK, ListedOK, HeldOK, HeldAt, Core,
       DiskParts, Closed, NoDisks, Caches
  <2>5. UsersOK'
    BY <1>18 DEF AlldevsPop, AlldevsDel, Listed, LockOK, ListedOK, UsersOK, Closed
  <2> QED
    BY <2>1, <2>2, <2>3, <2>4, <2>5
<1>19. ASSUME NEW u \in Users, NEW w \in Wdevs, NEW d \in DiskParts, Open(u, w, d) PROVE DevInv'
  <2>1. TypesOK'
    BY <1>19 DEF Open, Stages, NoDisks, Closed
  <2>2. LockOK'
    BY <1>19 DEF Open, LockOK, ListedOK
  <2>3. ListedOK'
    BY <1>19 DEF Open, LockOK, ListedOK
  <2>4. HeldOK'
    BY <1>19 DEF Open, LockOK, ListedOK, HeldOK, HeldAt, Core, DiskParts, Closed, NoDisks,
       Caches
  <2>5. UsersOK'
    BY <1>19 DEF Open, HeldOK, HeldAt, UsersOK, HasOpen, DiskParts, NoDisks, Closed, Stages
  <2> QED
    BY <2>1, <2>2, <2>3, <2>4, <2>5
<1>20. ASSUME NEW u \in Users, Close(u) PROVE DevInv'
  <2>1. TypesOK'
    BY <1>20 DEF Close, Stages, NoDisks, Closed
  <2>2. LockOK'
    BY <1>20 DEF Close, LockOK, ListedOK
  <2>3. ListedOK'
    BY <1>20 DEF Close, LockOK, ListedOK
  <2>4. HeldOK'
    BY <1>20 DEF Close, LockOK, ListedOK, HeldOK, HeldAt, Core, DiskParts, Closed, NoDisks,
       Caches
  <2>5. UsersOK'
    BY <1>20 DEF Close, HeldOK, HeldAt, UsersOK, HasOpen, DiskParts, NoDisks, Closed, Stages
  <2> QED
    BY <2>1, <2>2, <2>3, <2>4, <2>5
<1>21. ASSUME NEW u \in Users, MakeRequest(u) \/ BioStep(u) PROVE DevInv'
  <2>1. TypesOK'
    BY <1>21 DEF MakeRequest, BioStep, CountBio, EndBio, Stages, NoDisks, Closed
  <2>2. LockOK'
    BY <1>21 DEF MakeRequest, BioStep, CountBio, EndBio, LockOK, ListedOK
  <2>3. ListedOK'
    BY <1>21 DEF MakeRequest, BioStep, CountBio, EndBio, LockOK, ListedOK
  <2>4. HeldOK'
    BY <1>21 DEF MakeRequest, BioStep, CountBio, EndBio, LockOK, ListedOK, HeldOK, HeldAt,
       Core, DiskParts, Closed, NoDisks, Caches
  <2>5. UsersOK'
    BY <1>21 DEF MakeRequest, BioStep, CountBio, EndBio, LockOK, ListedOK, UsersOK, Closed
  <2> QED
    BY <2>1, <2>2, <2>3, <2>4, <2>5
<1>22. ASSUME Insmod \/ WalbInit \/ WalbInitFail \/ Exit \/ ExitEnd PROVE DevInv'
  <2>1. TypesOK'
    BY <1>22 DEF Insmod, WalbInit, WalbInitFail, Exit, ExitEnd, moduleUnchanged, Stages,
       NoDisks, Closed
  <2>2. LockOK'
    BY <1>22 DEF Insmod, WalbInit, WalbInitFail, Exit, ExitEnd, moduleUnchanged, LockOK,
       ListedOK
  <2>3. ListedOK'
    BY <1>22 DEF Insmod, WalbInit, WalbInitFail, Exit, ExitEnd, moduleUnchanged, LockOK,
       ListedOK
  <2>4. HeldOK'
    BY <1>22 DEF Insmod, WalbInit, WalbInitFail, Exit, ExitEnd, moduleUnchanged, LockOK,
       ListedOK, HeldOK, HeldAt, Core, DiskParts, Closed, NoDisks, Caches
  <2>5. UsersOK'
    BY <1>22 DEF Insmod, WalbInit, WalbInitFail, Exit, ExitEnd, moduleUnchanged, LockOK,
       ListedOK, UsersOK, Closed
  <2> QED
    BY <2>1, <2>2, <2>3, <2>4, <2>5
<1>23. ASSUME UNCHANGED vars PROVE DevInv'
  <2>1. TypesOK'
    BY <1>23 DEF vars, Stages, NoDisks, Closed
  <2>2. LockOK'
    BY <1>23 DEF vars, LockOK, ListedOK
  <2>3. ListedOK'
    BY <1>23 DEF vars, LockOK, ListedOK
  <2>4. HeldOK'
    BY <1>23 DEF vars, LockOK, ListedOK, HeldOK, HeldAt, Core, DiskParts, Closed, NoDisks,
       Caches
  <2>5. UsersOK'
    BY <1>23 DEF vars, LockOK, ListedOK, UsersOK, Closed
  <2> QED
    BY <2>1, <2>2, <2>3, <2>4, <2>5
<1> HIDE DEF DevInv
<1> QED
  BY <1>1, <1>2, <1>3, <1>4, <1>5, <1>6, <1>7, <1>8, <1>9, <1>10, <1>11, <1>12, <1>13, <1>14,
     <1>15, <1>16, <1>17, <1>18, <1>19, <1>20, <1>21, <1>22, <1>23, Zenon
  DEF Next, Step, DiskParts

\* Init has the invariant.
LEMMA InitDev == Init => DevInv
<1> SUFFICES ASSUME Init PROVE DevInv
  OBVIOUS
<1>1. 0 \in Keys
  BY DevicesAssumption DEF Keys
<1>2. TypesOK
  BY <1>1 DEF Init, TypesOK, Stages, NoDisks, Closed
<1>3. LockOK /\ ListedOK
  BY DevicesAssumption DEF Init, LockOK, ListedOK
<1>4. HeldOK
  BY DEF Init, HeldOK, HeldAt, NoDisks, Closed
<1>5. UsersOK
  BY DEF Init, UsersOK, HasOpen
<1> QED
  BY <1>2, <1>3, <1>4, <1>5 DEF DevInv

\* However starts, failed starts, stops, opens and closes overlap, a user who has a walb device open
\* finds its walb_dev, its gendisk and its iocore data: destroy_wdev comes after the last walb_release,
\* and no disk can be opened after unregister_wdev.
THEOREM UsersHaveDeviceThm == Spec => []UsersHaveDevice
<1>1. DevInv => UsersHaveDevice
  <2> SUFFICES ASSUME DevInv, NEW u \in Users, opened[u] # NoDev, opened[u][1] = "disk"
               PROVE  {"wdev", "gd", "iocored"} \subseteq held[opened[u][2]]
    BY DEF UsersHaveDevice
  <2>1. PICK d \in DiskParts, w \in Wdevs : opened[u] = <<d, w>>
    BY DEF DevInv, TypesOK
  <2>2. d = "disk" /\ opened[u][2] = w
    BY <2>1
  <2>3. stage[w] \notin Closed
    BY <2>1, <2>2 DEF DevInv, UsersOK, HasOpen
  <2>4. Core \subseteq held[w]
    BY <2>3 DEF DevInv, HeldOK, HeldAt
  <2> QED
    BY <2>2, <2>4 DEF Core
<1> QED
  BY <1>1, InitDev, DevKept, PTL DEF Spec

-----------------------------------------------------------------------------
(* Nothing leaks *)

\* The resources that are counted; the others are objects of the device.
Counted == Caches \cup {"ldev", "ddev"}

\* What a device has, by its stage and by what the stage has still to do.
OwnedAt(s, t) ==
  CASE s = "free" -> {}
    [] s = "prepare" -> Prep \ Range(t)
    [] s \in {"unwind", "destroy"} -> Range(t) \ {"redo"}
    [] s = "register" -> Prep \cup (Registered \ Range(t))
    [] s \in {"register_error", "unregister"} -> Prep \cup Range(t)
    [] s = "running" -> Prep \cup Registered
    [] s = "flush" -> Prep
    [] s = "finalize" -> (Prep \ {"super", "ddev", "ldev"}) \cup Range(t)
    [] s = "wait_users" -> Prep \ {"super", "ddev", "ldev"}

Owned(w) == OwnedAt(stage[w], todo[w])

\* The lists from which the stages work.
TodoAt(s, t) ==
  /\ Once(t)
  /\ s = "prepare" => RestOf(t, PrepareOrder)
  /\ s \in {"unwind", "destroy"} => Range(t) \subseteq Prep \cup {"redo"}
  /\ s \in {"register", "register_error", "unregister"} => Range(t) \subseteq Registered
  /\ s = "finalize" => Range(t) \subseteq {"super", "ddev", "ldev"}

TodoOK ==
  /\ req \in [Wdevs -> Requests \cup {NoDev}]
  /\ \A w \in Wdevs : TodoAt(stage[w], todo[w]) /\ (stage[w] # "free" => req[w] \in Requests)

\* The devices that have claimed a disk as their r, and those that have a resource.
Claiming(r, d) == {w \in Wdevs : r \in Owned(w) /\ DiskOf(w, r) = d}
Having(r) == {w \in Wdevs : r \in Owned(w)}

\* The objects and the counts agree with what the devices have.
ResourcesOK ==
  /\ claims \in [Disks -> Nat] /\ caches \in [Caches -> Nat]
  /\ \A w \in Wdevs : held[w] = Owned(w) \ Counted
  /\ \A d \in Disks :
       claims[d] = Cardinality(Claiming("ldev", d)) + Cardinality(Claiming("ddev", d))
  /\ \A c \in Caches : caches[c] = Cardinality(Having(c))

\* Sets of devices are finite.
LEMMA DevicesFinite ==
  ASSUME NEW S, S \subseteq Wdevs
  PROVE  IsFiniteSet(S) /\ Cardinality(S) \in Nat
BY DevicesAssumption, FS_Subset, FS_CardinalityType

\* A set of devices with one more, and with one less.
LEMMA OneMore ==
  ASSUME NEW S, S \subseteq Wdevs, NEW w \in Wdevs, w \notin S
  PROVE  Cardinality(S \cup {w}) = Cardinality(S) + 1
BY DevicesFinite, FS_AddElement

\* One less, after one that is in the set is gone.
LEMMA OneLess ==
  ASSUME NEW S, S \subseteq Wdevs, NEW w \in S
  PROVE  Cardinality(S \ {w}) = Cardinality(S) - 1 /\ Cardinality(S) >= 1
<1>1. /\ IsFiniteSet(S) /\ Cardinality(S) \in Nat /\ Cardinality(S \ {w}) \in Nat
  BY DevicesFinite
<1>2. Cardinality(S \ {w}) = Cardinality(S) - 1
  BY <1>1, FS_RemoveElement
<1> QED
  BY <1>1, <1>2

\* A step that changes neither what the devices have nor which disks they want.
LEMMA SameResources ==
  ASSUME ResourcesOK, UNCHANGED resources,
         \A w \in Wdevs : Owned(w)' = Owned(w) /\ (Owned(w) # {} => req'[w] = req[w])
  PROVE  ResourcesOK'
<1>1. \A r \in Caches : Having(r)' = Having(r)
  BY DEF Having
<1>2. \A r \in {"ldev", "ddev"}, d \in Disks : Claiming(r, d)' = Claiming(r, d)
  <2>1. \A r \in {"ldev", "ddev"}, w \in Wdevs : r \in Owned(w) => DiskOf(w, r)' = DiskOf(w, r)
    BY DEF DiskOf
  <2> QED
    BY <2>1 DEF Claiming
<1> QED
  BY <1>1, <1>2 DEF ResourcesOK, resources

\* A device takes a resource.
LEMMA TakeCounts ==
  ASSUME ResourcesOK, TypesOK, NEW w \in Wdevs, NEW r \in Names, Take(w, r), r \notin Owned(w),
         r # "redo", Owned(w)' = Owned(w) \cup {r},
         \A v \in Wdevs : v # w => Owned(v)' = Owned(v), req' = req, req[w] \in Requests
  PROVE  ResourcesOK'
<1>1. \A c \in Caches : Having(c)' = IF c = r THEN Having(c) \cup {w} ELSE Having(c)
  BY DEF Having
<1>2. \A c \in {"ldev", "ddev"}, d \in Disks :
        Claiming(c, d)' =
          IF c = r /\ d = DiskOf(w, r) THEN Claiming(c, d) \cup {w} ELSE Claiming(c, d)
  <2>1. \A c \in {"ldev", "ddev"}, v \in Wdevs : DiskOf(v, c)' = DiskOf(v, c)
    BY DEF DiskOf
  <2> QED
    BY <2>1 DEF Claiming
<1>3. \A c \in Caches : /\ Having(c) \subseteq Wdevs /\ Cardinality(Having(c)) \in Nat
                        /\ c = r => w \notin Having(c)
  BY DevicesFinite DEF Having
<1>4. \A c \in {"ldev", "ddev"}, d \in Disks :
        /\ Claiming(c, d) \subseteq Wdevs /\ Cardinality(Claiming(c, d)) \in Nat
        /\ c = r => w \notin Claiming(c, d)
  BY DevicesFinite DEF Claiming
<1>5. \A c \in Caches : Cardinality(Having(c))' = IF c = r THEN Cardinality(Having(c)) + 1
                                                          ELSE Cardinality(Having(c))
  BY <1>1, <1>3, OneMore
<1>6. \A c \in {"ldev", "ddev"}, d \in Disks :
        Cardinality(Claiming(c, d))' =
          IF c = r /\ d = DiskOf(w, r) THEN Cardinality(Claiming(c, d)) + 1
                                                                   ELSE Cardinality(Claiming(c, d))
  BY <1>2, <1>4, OneMore
<1>7. \A v \in Wdevs : held'[v] = Owned(v)' \ Counted
  <2>1. \A v \in Wdevs : held[v] = Owned(v) \ Counted
    BY DEF ResourcesOK
  <2>2. CASE r \in Counted
    BY <2>1, <2>2 DEF Take, Counted
  <2>3. CASE r \notin Counted
    BY <2>1, <2>3 DEF Take, Counted, TypesOK
  <2> QED
    BY <2>2, <2>3
<1>8. caches' \in [Caches -> Nat] /\ \A c \in Caches : caches'[c] = Cardinality(Having(c))'
  BY <1>3, <1>5 DEF Take, ResourcesOK
<1>9. claims' \in [Disks -> Nat]
      /\ \A d \in Disks :
           claims'[d] = Cardinality(Claiming("ldev", d))' + Cardinality(Claiming("ddev", d))'
  <2>1. claims \in [Disks -> Nat]
        /\ \A d \in Disks :
             claims[d] = Cardinality(Claiming("ldev", d)) + Cardinality(Claiming("ddev", d))
    BY DEF ResourcesOK
  <2>2. DiskOf(w, "ldev") \in Disks /\ DiskOf(w, "ddev") \in Disks
    BY DevicesAssumption DEF DiskOf
  <2>3. CASE r \in {"ldev", "ddev"}
    <3>1. PICK e \in Disks : e = DiskOf(w, r)
      BY <2>2, <2>3
    <3>2. claims' = [claims EXCEPT ![e] = @ + 1]
      BY <2>3, <3>1 DEF Take
    <3>3. \A d \in Disks : claims'[d] = IF d = e THEN claims[d] + 1 ELSE claims[d]
      BY <2>1, <3>2
    <3>4. CASE r = "ldev"
      BY <1>4, <1>6, <2>1, <3>1, <3>2, <3>3, <3>4
    <3>5. CASE r = "ddev"
      BY <1>4, <1>6, <2>1, <3>1, <3>2, <3>3, <3>5
    <3> QED
      BY <2>3, <3>4, <3>5
  <2>4. CASE r \notin {"ldev", "ddev"}
    <3>1. claims' = claims
      BY <2>4 DEF Take
    <3> QED
      BY <1>6, <2>1, <2>4, <3>1
  <2> QED
    BY <2>3, <2>4
<1> QED
  BY <1>7, <1>8, <1>9 DEF ResourcesOK

\* A device gives a resource back.
LEMMA GiveCounts ==
  ASSUME ResourcesOK, TypesOK, NEW w \in Wdevs, NEW r \in Names, Give(w, r), r \in Owned(w),
         r # "redo", Owned(w)' = Owned(w) \ {r},
         \A v \in Wdevs : v # w => Owned(v)' = Owned(v), req' = req, req[w] \in Requests
  PROVE  ResourcesOK'
<1>1. \A c \in Caches : Having(c)' = IF c = r THEN Having(c) \ {w} ELSE Having(c)
  BY DEF Having
<1>2. \A c \in {"ldev", "ddev"}, d \in Disks :
        Claiming(c, d)' = IF c = r /\ d = DiskOf(w, r) THEN Claiming(c, d) \ {w} ELSE Claiming(c, d)
  <2>1. \A c \in {"ldev", "ddev"}, v \in Wdevs : DiskOf(v, c)' = DiskOf(v, c)
    BY DEF DiskOf
  <2> QED
    BY <2>1 DEF Claiming
<1>3. \A c \in Caches : /\ Having(c) \subseteq Wdevs /\ Cardinality(Having(c)) \in Nat
                        /\ c = r => w \in Having(c)
  BY DevicesFinite DEF Having
<1>4. \A c \in {"ldev", "ddev"}, d \in Disks :
        /\ Claiming(c, d) \subseteq Wdevs /\ Cardinality(Claiming(c, d)) \in Nat
        /\ c = r /\ d = DiskOf(w, r) => w \in Claiming(c, d)
  BY DevicesFinite DEF Claiming
<1>5. \A c \in Caches : Cardinality(Having(c))' = IF c = r THEN Cardinality(Having(c)) - 1
                                                          ELSE Cardinality(Having(c))
  BY <1>1, <1>3, OneLess
<1>6. \A c \in {"ldev", "ddev"}, d \in Disks :
        Cardinality(Claiming(c, d))' =
          IF c = r /\ d = DiskOf(w, r) THEN Cardinality(Claiming(c, d)) - 1
                                                                   ELSE Cardinality(Claiming(c, d))
  BY <1>2, <1>4, OneLess
<1>10. \A c \in Caches : Cardinality(Having(c))' \in Nat
  <2>1. \A c \in Caches : Having(c)' \subseteq Wdevs
    BY <1>1, <1>3
  <2> QED
    BY <2>1, DevicesFinite, ZenonT(30)
<1>7. \A v \in Wdevs : held'[v] = Owned(v)' \ Counted
  <2>1. \A v \in Wdevs : held[v] = Owned(v) \ Counted
    BY DEF ResourcesOK
  <2>2. CASE r \in Counted
    BY <2>1, <2>2 DEF Give, Counted
  <2>3. CASE r \notin Counted
    BY <2>1, <2>3 DEF Give, Counted, TypesOK
  <2> QED
    BY <2>2, <2>3
<1>8. caches' \in [Caches -> Nat] /\ \A c \in Caches : caches'[c] = Cardinality(Having(c))'
  BY <1>5, <1>10 DEF Give, ResourcesOK
<1>9. claims' \in [Disks -> Nat]
      /\ \A d \in Disks :
           claims'[d] = Cardinality(Claiming("ldev", d))' + Cardinality(Claiming("ddev", d))'
  <2>1. claims \in [Disks -> Nat]
        /\ \A d \in Disks :
             claims[d] = Cardinality(Claiming("ldev", d)) + Cardinality(Claiming("ddev", d))
    BY DEF ResourcesOK
  <2>5. \A d \in Disks : Claiming(r, d) # {} /\ r \in {"ldev", "ddev"} => claims[d] >= 1
    <3>1. \A d \in Disks : \A v \in Claiming(r, d) : r \in {"ldev", "ddev"}
        => Cardinality(Claiming(r, d)) >= 1
      BY <1>4, OneLess
    <3> QED
      BY <1>4, <2>1, <3>1
  <2>2. DiskOf(w, "ldev") \in Disks /\ DiskOf(w, "ddev") \in Disks
    BY DevicesAssumption DEF DiskOf
  <2>3. CASE r \in {"ldev", "ddev"}
    <3>1. PICK e \in Disks : e = DiskOf(w, r)
      BY <2>2, <2>3
    <3>2. claims' = [claims EXCEPT ![e] = @ - 1]
      BY <2>3, <3>1 DEF Give
    <3>6. claims[e] >= 1
      BY <1>4, <2>3, <2>5, <3>1
    <3>3. \A d \in Disks : claims'[d] = IF d = e THEN claims[d] - 1 ELSE claims[d]
      BY <2>1, <3>2
    <3>4. CASE r = "ldev"
      BY <1>4, <1>6, <2>1, <3>1, <3>2, <3>3, <3>4, <3>6
    <3>5. CASE r = "ddev"
      BY <1>4, <1>6, <2>1, <3>1, <3>2, <3>3, <3>5, <3>6
    <3> QED
      BY <2>3, <3>4, <3>5
  <2>4. CASE r \notin {"ldev", "ddev"}
    <3>1. claims' = claims
      BY <2>4 DEF Give
    <3> QED
      BY <1>6, <2>1, <2>4, <3>1
  <2> QED
    BY <2>3, <2>4
<1> QED
  BY <1>7, <1>8, <1>9 DEF ResourcesOK

\* What a device has in each stage.
LEMMA OwnedStages ==
  \A t :
    /\ OwnedAt("free", t) = {}
    /\ OwnedAt("prepare", t) = Prep \ Range(t)
    /\ OwnedAt("unwind", t) = Range(t) \ {"redo"}
    /\ OwnedAt("register", t) = Prep \cup (Registered \ Range(t))
    /\ OwnedAt("register_error", t) = Prep \cup Range(t)
    /\ OwnedAt("running", t) = Prep \cup Registered
    /\ OwnedAt("unregister", t) = Prep \cup Range(t)
    /\ OwnedAt("flush", t) = Prep
    /\ OwnedAt("finalize", t) = (Prep \ {"super", "ddev", "ldev"}) \cup Range(t)
    /\ OwnedAt("wait_users", t) = Prep \ {"super", "ddev", "ldev"}
    /\ OwnedAt("destroy", t) = Range(t) \ {"redo"}
BY DEF OwnedAt

\* An empty list.
LEMMA EmptyTodo == Once(<<>>) /\ Range(<<>>) = {}
BY RangeEmpty DEF Once

\* A step that changes the stage, the list and the parameters of one device.
OnlyDevice(w) ==
  \A v \in Wdevs : v # w => stage'[v] = stage[v] /\ todo'[v] = todo[v] /\ req'[v] = req[v]

\* A step of one device leaves what the others have to do and what they own.
LEMMA OneDevice ==
  ASSUME TodoOK, NEW w \in Wdevs, OnlyDevice(w), TodoAt(stage'[w], todo'[w]),
         stage'[w] # "free" => req'[w] \in Requests,
         req' \in [Wdevs -> Requests \cup {NoDev}]
  PROVE  TodoOK' /\ \A v \in Wdevs : v # w => Owned(v)' = Owned(v)
<1>1. \A v \in Wdevs : v # w => Owned(v)' = Owned(v)
  BY DEF OnlyDevice, Owned
<1>2. ASSUME NEW v \in Wdevs
      PROVE  TodoAt(stage'[v], todo'[v]) /\ (stage'[v] # "free" => req'[v] \in Requests)
  <2>1. CASE v = w
    BY <2>1
  <2>2. CASE v # w
    BY <2>2, Zenon DEF OnlyDevice, TodoOK
  <2> QED
    BY <2>1, <2>2
<1>3. TodoOK'
  BY <1>2 DEF TodoOK
<1> QED
  BY <1>1, <1>3

\* One that keeps what the device has.
LEMMA OneStage ==
  ASSUME TodoOK, ResourcesOK, NEW w \in Wdevs, OnlyDevice(w), TodoAt(stage'[w], todo'[w]),
         stage'[w] # "free" => req'[w] \in Requests,
         req' \in [Wdevs -> Requests \cup {NoDev}], UNCHANGED resources,
         OwnedAt(stage'[w], todo'[w]) = OwnedAt(stage[w], todo[w]),
         req' = req \/ OwnedAt(stage[w], todo[w]) = {}
  PROVE  TodoOK' /\ ResourcesOK'
<1>1. TodoOK' /\ \A v \in Wdevs : v # w => Owned(v)' = Owned(v)
  BY OneDevice, Zenon
<1>2. Owned(w)' = Owned(w)
  BY DEF Owned
<1>3. ASSUME NEW v \in Wdevs PROVE Owned(v)' = Owned(v) /\ (Owned(v) # {} => req'[v] = req[v])
  <2>1. CASE v = w
    BY <1>2, <2>1 DEF Owned
  <2>2. CASE v # w
    BY <1>1, <2>2 DEF OnlyDevice
  <2> QED
    BY <2>1, <2>2
<1> QED
  BY <1>1, <1>3, SameResources

\* Several steps of the same kind: a device takes the first resource of its list.
LEMMA TakeStep ==
  ASSUME DevInv, TodoOK, ResourcesOK, NEW w \in Wdevs, stage[w] \in {"prepare", "register"},
         todo[w] # <<>>, Take(w, Head(todo[w])), todo' = [todo EXCEPT ![w] = Tail(@)],
         UNCHANGED <<stage, req>>
  PROVE  TodoOK' /\ ResourcesOK'
<1>0. PICK r, t, u : r = Head(todo[w]) /\ t = todo[w] /\ u = Tail(todo[w])
  OBVIOUS
<1>1. /\ t \in Seq(Names) /\ t # <<>> /\ Once(t)
      /\ stage[w] = "prepare" => RestOf(t, PrepareOrder)
      /\ stage[w] = "register" => Range(t) \subseteq Registered
  BY <1>0 DEF DevInv, TypesOK, TodoOK, TodoAt
<1>2. r \in Names /\ u \in Seq(Names) /\ Range(t) = {r} \cup Range(u) /\ r \notin Range(u)
    /\ Once(u)
  BY <1>0, <1>1, RangeTail, OnceTail
<1>3. /\ ListOf(PrepareOrder, Prep \cup {"redo"}) /\ PrepareOrder \in Seq(Names)
      /\ Range(PrepareOrder) = Prep \cup {"redo"}
  BY ExactOrders DEF ListOf
<1>4. stage[w] = "prepare" => RestOf(u, PrepareOrder) /\ Range(t) \subseteq Prep \cup {"redo"}
  <2>1. ASSUME stage[w] = "prepare" PROVE RestOf(u, PrepareOrder)
    BY <1>0, <1>1, <1>3, <2>1, RestTail
  <2>2. ASSUME stage[w] = "prepare" PROVE Range(t) \subseteq Range(PrepareOrder)
    BY <1>1, <1>3, <2>2, RestRange
  <2> QED
    BY <1>3, <2>1, <2>2
<1>5. todo' = [todo EXCEPT ![w] = u] /\ todo'[w] = u /\ stage' = stage /\ req' = req
  BY <1>0 DEF DevInv, TypesOK
<1>6. OnlyDevice(w)
  BY <1>5 DEF OnlyDevice, DevInv, TypesOK
<1>7. TodoAt(stage'[w], todo'[w])
  BY <1>1, <1>2, <1>4, <1>5 DEF TodoAt
<1>8. req'[w] \in Requests
  BY <1>5 DEF TodoOK
<1>13. req' \in [Wdevs -> Requests \cup {NoDev}]
  BY <1>5 DEF TodoOK
<1>9. TodoOK' /\ \A v \in Wdevs : v # w => Owned(v)' = Owned(v)
  BY <1>6, <1>7, <1>8, <1>13, OneDevice, Zenon
<1>10. Owned(w) = OwnedAt(stage[w], t) /\ Owned(w)' = OwnedAt(stage[w], u)
  BY <1>0, <1>5 DEF Owned
<1>11. CASE r = "redo"
  <2>1. OwnedAt(stage[w], u) = OwnedAt(stage[w], t)
    <3>1. "redo" \notin Prep /\ "redo" \notin Registered
      BY DEF Prep, Registered, Caches
    <3>2. Prep \ Range(u) = Prep \ Range(t) /\ Registered \ Range(u) = Registered \ Range(t)
      BY <1>2, <1>11, <3>1
    <3>3. CASE stage[w] = "prepare"
      <4>1. OwnedAt("prepare", t) = Prep \ Range(t) /\ OwnedAt("prepare", u) = Prep \ Range(u)
        BY OwnedStages
      <4> QED
        BY <3>2, <3>3, <4>1
    <3>4. CASE stage[w] = "register"
      <4>1. OwnedAt("register", t) = Prep \cup (Registered \ Range(t))
          /\ OwnedAt("register", u) = Prep \cup (Registered \ Range(u))
        BY OwnedStages
      <4> QED
        BY <3>2, <3>4, <4>1
    <3> QED
      BY <3>3, <3>4
  <2>2. UNCHANGED resources
    BY <1>0, <1>11 DEF Take, resources, Caches
  <2>3. \A v \in Wdevs : Owned(v)' = Owned(v) /\ (Owned(v) # {} => req'[v] = req[v])
    BY <1>5, <1>9, <1>10, <2>1
  <2> QED
    BY <1>9, <2>2, <2>3, SameResources
<1>12. CASE r # "redo"
  <2>1. r \notin OwnedAt(stage[w], t) /\ OwnedAt(stage[w], u) = OwnedAt(stage[w], t) \cup {r}
    <3>1. CASE stage[w] = "prepare"
      <4>1. r \in Prep
        BY <1>2, <1>4, <1>12, <3>1
      <4> QED
        BY <1>2, <3>1, <4>1, OwnedStages
    <3>2. CASE stage[w] = "register"
      <4>1. r \in Registered /\ Registered \cap Prep = {}
        BY <1>1, <1>2, <3>2 DEF Registered, Prep, Caches
      <4> QED
        BY <1>2, <3>2, <4>1, OwnedStages
    <3> QED
      BY <3>1, <3>2
  <2>2. TypesOK
    BY DEF DevInv
  <2>3. Take(w, r) /\ r \notin Owned(w) /\ Owned(w)' = Owned(w) \cup {r} /\ req[w] \in Requests
    BY <1>0, <1>5, <1>8, <1>10, <2>1
  <2> QED
    BY <1>2, <1>5, <1>9, <1>12, <2>2, <2>3, TakeCounts
<1> QED
  BY <1>11, <1>12

\* A device gives back the first resource of its list.
LEMMA GiveStep ==
  ASSUME DevInv, TodoOK, ResourcesOK, NEW w \in Wdevs, Release(w)
  PROVE  TodoOK' /\ ResourcesOK'
<1>0. PICK r, t, u, s : r = Head(todo[w]) /\ t = todo[w] /\ u = Tail(todo[w]) /\ s = stage[w]
  OBVIOUS
<1>1. /\ t \in Seq(Names) /\ t # <<>> /\ Once(t)
      /\ s \in {"unwind", "register_error", "unregister", "finalize", "destroy"}
      /\ s \in {"unwind", "destroy"} => Range(t) \subseteq Prep \cup {"redo"}
      /\ s \in {"register_error", "unregister"} => Range(t) \subseteq Registered
      /\ s = "finalize" => Range(t) \subseteq {"super", "ddev", "ldev"}
  BY <1>0 DEF DevInv, TypesOK, TodoOK, TodoAt, Release
<1>2. r \in Names /\ u \in Seq(Names) /\ Range(t) = {r} \cup Range(u) /\ r \notin Range(u)
    /\ Once(u)
  BY <1>0, <1>1, RangeTail, OnceTail
<1>3. Give(w, r) /\ todo' = [todo EXCEPT ![w] = u] /\ todo'[w] = u /\ stage' = stage /\ req' = req
  BY <1>0 DEF DevInv, TypesOK, Release, dev
<1>4. OnlyDevice(w)
  BY <1>3 DEF OnlyDevice, DevInv, TypesOK
<1>5. s # "prepare"
  BY <1>1
<1>6. TodoAt(stage'[w], todo'[w])
  BY <1>0, <1>1, <1>2, <1>3 DEF TodoAt
<1>7. req'[w] \in Requests
  BY <1>0, <1>1, <1>3 DEF TodoOK
<1>12. req' \in [Wdevs -> Requests \cup {NoDev}]
  BY <1>3 DEF TodoOK
<1>8. TodoOK' /\ \A v \in Wdevs : v # w => Owned(v)' = Owned(v)
  BY <1>4, <1>6, <1>7, <1>12, OneDevice, Zenon
<1>9. Owned(w) = OwnedAt(s, t) /\ Owned(w)' = OwnedAt(s, u)
  BY <1>0, <1>3 DEF Owned
<1>10. CASE r = "redo"
  <2>0. "redo" \notin Prep /\ "redo" \notin Registered /\ "redo" \notin {"super", "ddev", "ldev"}
    BY DEF Prep, Registered, Caches
  <2>1. OwnedAt(s, u) = OwnedAt(s, t)
    <3>1. s \in {"unwind", "destroy"}
      BY <1>1, <1>2, <1>10, <2>0
    <3>2. Range(u) \ {"redo"} = Range(t) \ {"redo"}
      BY <1>2, <1>10
    <3>3. CASE s = "unwind"
      <4>1. OwnedAt("unwind", t) = Range(t) \ {"redo"} /\ OwnedAt("unwind", u) = Range(u) \ {"redo"}
        BY OwnedStages
      <4> QED
        BY <3>2, <3>3, <4>1
    <3>4. CASE s = "destroy"
      <4>1. OwnedAt("destroy", t) = Range(t) \ {"redo"}
          /\ OwnedAt("destroy", u) = Range(u) \ {"redo"}
        BY OwnedStages
      <4> QED
        BY <3>2, <3>4, <4>1
    <3> QED
      BY <3>1, <3>3, <3>4
  <2>2. UNCHANGED resources
    <3>1. claims' = claims /\ caches' = caches /\ held' = [held EXCEPT ![w] = @ \ {"redo"}]
      BY <1>3, <1>10 DEF Give, Caches
    <3>2. "redo" \notin held[w] /\ held \in [Wdevs -> SUBSET Names]
      <4>1. held[w] \subseteq OwnedAt(s, t)
        BY <1>9 DEF ResourcesOK
      <4>2. s \in {"unwind", "destroy"}
        BY <1>1, <1>2, <1>10, <2>0
      <4>3. OwnedAt(s, t) = Range(t) \ {"redo"}
        <5>1. CASE s = "unwind"
          BY <5>1, OwnedStages
        <5>2. CASE s = "destroy"
          BY <5>2, OwnedStages
        <5> QED
          BY <4>2, <5>1, <5>2
      <4> QED
        BY <4>1, <4>3 DEF DevInv, TypesOK
    <3>3. held' = held
      BY <3>1, <3>2
    <3> QED
      BY <3>1, <3>3 DEF resources
  <2>3. \A v \in Wdevs : Owned(v)' = Owned(v) /\ (Owned(v) # {} => req'[v] = req[v])
    BY <1>3, <1>8, <1>9, <2>1
  <2> QED
    BY <1>8, <2>2, <2>3, SameResources
<1>11. CASE r # "redo"
  <2>1. r \in OwnedAt(s, t) /\ OwnedAt(s, u) = OwnedAt(s, t) \ {r}
    <3>1. CASE s = "unwind"
      BY <1>2, <1>11, <3>1, OwnedStages
    <3>2. CASE s = "destroy"
      BY <1>2, <1>11, <3>2, OwnedStages
    <3>3. CASE s \in {"register_error", "unregister"}
      <4>1. r \notin Prep
        BY <1>1, <1>2, <3>3 DEF Registered, Prep, Caches
      <4>2. OwnedAt(s, t) = Prep \cup Range(t) /\ OwnedAt(s, u) = Prep \cup Range(u)
        BY <3>3, OwnedStages
      <4> QED
        BY <1>2, <4>1, <4>2
    <3>4. CASE s = "finalize"
      <4>1. r \notin Prep \ {"super", "ddev", "ldev"}
        BY <1>1, <1>2, <3>4
      <4> QED
        BY <1>2, <3>4, <4>1, OwnedStages
    <3> QED
      BY <1>1, <3>1, <3>2, <3>3, <3>4
  <2>2. TypesOK
    BY DEF DevInv
  <2>3. r \in Owned(w) /\ Owned(w)' = Owned(w) \ {r} /\ req[w] \in Requests
    BY <1>3, <1>7, <1>9, <2>1
  <2> QED
    BY <1>2, <1>3, <1>8, <1>11, <2>2, <2>3, GiveCounts
<1> QED
  BY <1>10, <1>11

\* The elements of a list of one name.
LEMMA RangeOne == Range(<<"sysfs">>) = {"sysfs"}
<1>1. "sysfs" \in Names
  BY DEF Names
<1> QED
  BY <1>1, Names1 DEF ListOf

\* Every step keeps the books of the resources.
LEMMA ResourcesKept ==
  ASSUME DevInv, TodoOK, ResourcesOK, [Next]_vars
  PROVE  TodoOK' /\ ResourcesOK'
<1>0. /\ stage \in [Wdevs -> Stages] /\ todo \in [Wdevs -> Seq(Names)]
      /\ req \in [Wdevs -> Requests \cup {NoDev}]
      /\ \A w \in Wdevs : stage[w] # "free" => req[w] \in Requests
      /\ \A w \in Wdevs : TodoAt(stage[w], todo[w])
  BY DEF DevInv, TypesOK, TodoOK
<1>31. Range(PrepareOrder) = Prep \cup {"redo"} /\ Once(PrepareOrder)
  BY ExactOrders DEF ListOf
<1>32. Range(RegisterOrder) = Registered /\ Once(RegisterOrder)
  BY ExactOrders DEF ListOf
<1>33. Range(RegisterError) = Registered \ {"sysfs"} /\ Once(RegisterError)
  BY ExactOrders DEF ListOf
<1>34. Range(UnregisterOrder) = Registered /\ Once(UnregisterOrder)
  BY ExactOrders DEF ListOf
<1>35. Range(FinalizeOrder) = {"super", "ddev", "ldev"} /\ Once(FinalizeOrder)
  BY ExactOrders DEF ListOf
<1>36. Range(DestroyOrder) = Prep \ {"super", "ddev", "ldev"} /\ Once(DestroyOrder)
  BY ExactOrders DEF ListOf
<1>37. PrepareOrder \in Seq(Names)
  BY ExactOrders DEF ListOf
<1>38. "redo" \notin Prep /\ "redo" \notin Registered
  BY DEF Prep, Registered, Caches
<1>39. (Prep \ {"super", "ddev", "ldev"}) \cup {"super", "ddev", "ldev"} = Prep
  BY DEF Prep
<1>40. Once(<<>>) /\ Range(<<>>) = {}
  BY EmptyTodo
<1>1. ASSUME NEW w \in Wdevs, NEW r \in Requests, StartDev(w, r)
      PROVE  TodoOK' /\ ResourcesOK'
  <2>1. stage[w] = "free"
    BY <1>1 DEF StartDev
  <2>2. /\ stage' = [stage EXCEPT ![w] = "prepare"] /\ todo' = [todo EXCEPT ![w] = PrepareOrder]
        /\ req' = [req EXCEPT ![w] = r] /\ UNCHANGED resources
    BY <1>1 DEF StartDev, dev, mod, user
  <2>3. stage'[w] = "prepare" /\ todo'[w] = PrepareOrder
    BY <1>0, <2>1, <2>2
  <2>4. OnlyDevice(w)
    <3>1. \A v \in Wdevs : v # w => req'[v] = req[v]
      BY <2>2
    <3> QED
      BY <1>0, <2>2, <3>1 DEF OnlyDevice
  <2>6. TodoAt("prepare", PrepareOrder)
    <3>1. RestOf(PrepareOrder, PrepareOrder)
      <4>1. Len(PrepareOrder) \in Nat
        BY <1>37, LenProperties
      <4> QED
        BY <4>1 DEF RestOf
    <3> QED
      BY <1>31, <3>1 DEF TodoAt
  <2>7. OwnedAt("prepare", PrepareOrder) = OwnedAt("free", todo[w])
    <3>1. /\ OwnedAt("prepare", PrepareOrder) = Prep \ Range(PrepareOrder)
          /\ OwnedAt("free", todo[w]) = {}
      BY OwnedStages, Zenon
    <3> QED
      BY <1>31, <1>38, <3>1
  <2>8. stage'[w] # "free" => req'[w] \in Requests
    BY <1>0, <1>1, <2>2 DEF StartDev
  <2>9. req' = req \/ OwnedAt(stage[w], todo[w]) = {}
    BY <2>1, OwnedStages
  <2>10. req' \in [Wdevs -> Requests \cup {NoDev}]
    BY <1>0, <2>2
  <2> QED
    BY <2>1, <2>2, <2>3, <2>4, <2>6, <2>7, <2>8, <2>9, <2>10, OneStage, Zenon
<1>2. ASSUME NEW w \in Wdevs, PrepareFail(w)
      PROVE  TodoOK' /\ ResourcesOK'
  <2>1. stage[w] = "prepare"
    BY <1>2 DEF PrepareFail
  <2>2. /\ stage' = [stage EXCEPT ![w] = "unwind"] /\ todo' = [todo EXCEPT ![w] = Taken(w)]
        /\ req' = req /\ UNCHANGED resources
    BY <1>2 DEF PrepareFail, dev, mod, user
  <2>3. stage'[w] = "unwind" /\ todo'[w] = Taken(w)
    BY <1>0, <2>1, <2>2
  <2>4. OnlyDevice(w)
    <3>1. \A v \in Wdevs : v # w => req'[v] = req[v]
      BY <2>2
    <3> QED
      BY <1>0, <2>2, <3>1 DEF OnlyDevice
  <2>5. Once(Taken(w)) /\ Range(Taken(w)) = Range(PrepareOrder) \ Range(todo[w])
    <3>1. todo[w] \in Seq(Names) /\ RestOf(todo[w], PrepareOrder)
      BY <1>0, <2>1 DEF TodoAt
    <3>2. LET u == Reverse(SubSeq(PrepareOrder, 1, Len(PrepareOrder) - Len(todo[w])))
          IN  Once(u) /\ Range(u) = Range(PrepareOrder) \ Range(todo[w])
      BY <1>31, <1>37, <3>1, BeforeRest, ZenonT(40)
    <3> QED
      BY <3>2, Zenon DEF Taken
  <2>6. TodoAt("unwind", Taken(w))
    BY <1>0, <2>1, <1>31, <1>38, <2>5 DEF TodoAt
  <2>7. OwnedAt("unwind", Taken(w)) = OwnedAt("prepare", todo[w])
    <3>1. /\ OwnedAt("unwind", Taken(w)) = Range(Taken(w)) \ {"redo"}
          /\ OwnedAt("prepare", todo[w]) = Prep \ Range(todo[w])
      BY OwnedStages, Zenon
    <3> QED
      BY <1>31, <1>38, <2>5, <3>1
  <2>8. stage'[w] # "free" => req'[w] \in Requests
    BY <1>0, <2>1, <2>2
  <2>9. req' = req \/ OwnedAt(stage[w], todo[w]) = {}
    BY <2>2
  <2>10. req' \in [Wdevs -> Requests \cup {NoDev}]
    BY <1>0, <2>2
  <2> QED
    BY <2>1, <2>2, <2>3, <2>4, <2>6, <2>7, <2>8, <2>9, <2>10, OneStage, Zenon
<1>3. ASSUME NEW w \in Wdevs, StartFailed(w)
      PROVE  TodoOK' /\ ResourcesOK'
  <2>1. stage[w] = "unwind" /\ todo[w] = <<>>
    BY <1>3 DEF StartFailed, Free
  <2>2. /\ stage' = [stage EXCEPT ![w] = "free"] /\ todo' = todo
        /\ req' = [req EXCEPT ![w] = NoDev] /\ UNCHANGED resources
    BY <1>3 DEF StartFailed, Free, dev, mod, user
  <2>3. stage'[w] = "free" /\ todo'[w] = <<>>
    BY <1>0, <2>1, <2>2
  <2>4. OnlyDevice(w)
    <3>1. \A v \in Wdevs : v # w => req'[v] = req[v]
      BY <2>2
    <3> QED
      BY <1>0, <2>2, <3>1 DEF OnlyDevice
  <2>6. TodoAt("free", <<>>)
    BY <1>0, <2>1, <1>40 DEF TodoAt
  <2>7. OwnedAt("free", <<>>) = OwnedAt("unwind", <<>>)
    <3>1. OwnedAt("free", <<>>) = {} /\ OwnedAt("unwind", <<>>) = Range(<<>>) \ {"redo"}
      BY OwnedStages, Zenon
    <3> QED
      BY <1>40, <3>1
  <2>8. stage'[w] # "free" => req'[w] \in Requests
    BY <2>3
  <2>9. req' = req \/ OwnedAt(stage[w], todo[w]) = {}
    <3>1. OwnedAt("free", <<>>) = {}
      BY OwnedStages, Zenon
    <3> QED
      BY <2>1, <2>7, <3>1
  <2>10. req' \in [Wdevs -> Requests \cup {NoDev}]
    BY <1>0, <2>2
  <2> QED
    BY <2>1, <2>2, <2>3, <2>4, <2>6, <2>7, <2>8, <2>9, <2>10, OneStage, Zenon
<1>4. ASSUME NEW w \in Wdevs, AddDev(w)
      PROVE  TodoOK' /\ ResourcesOK'
  <2>1. stage[w] = "prepare" /\ todo[w] = <<>>
    BY <1>4 DEF AddDev
  <2>2. /\ stage' = [stage EXCEPT ![w] = "register"] /\ todo' = [todo EXCEPT ![w] = RegisterOrder]
        /\ req' = req /\ UNCHANGED resources
    BY <1>4 DEF AddDev, dev, mod, user
  <2>3. stage'[w] = "register" /\ todo'[w] = RegisterOrder
    BY <1>0, <2>1, <2>2
  <2>4. OnlyDevice(w)
    <3>1. \A v \in Wdevs : v # w => req'[v] = req[v]
      BY <2>2
    <3> QED
      BY <1>0, <2>2, <3>1 DEF OnlyDevice
  <2>6. TodoAt("register", RegisterOrder)
    BY <1>0, <2>1, <1>32, <1>40 DEF TodoAt
  <2>7. OwnedAt("register", RegisterOrder) = OwnedAt("prepare", <<>>)
    <3>1. /\ OwnedAt("register", RegisterOrder) = Prep \cup (Registered \ Range(RegisterOrder))
          /\ OwnedAt("prepare", <<>>) = Prep \ Range(<<>>)
      BY OwnedStages, Zenon
    <3> QED
      BY <1>32, <1>40, <3>1
  <2>8. stage'[w] # "free" => req'[w] \in Requests
    BY <1>0, <2>1, <2>2
  <2>9. req' = req \/ OwnedAt(stage[w], todo[w]) = {}
    BY <2>2
  <2>10. req' \in [Wdevs -> Requests \cup {NoDev}]
    BY <1>0, <2>2
  <2> QED
    BY <2>1, <2>2, <2>3, <2>4, <2>6, <2>7, <2>8, <2>9, <2>10, OneStage, Zenon
<1>5. ASSUME NEW w \in Wdevs, AddDevClash(w)
      PROVE  TodoOK' /\ ResourcesOK'
  <2>1. stage[w] = "prepare" /\ todo[w] = <<>>
    BY <1>5 DEF AddDevClash
  <2>2. /\ stage' = [stage EXCEPT ![w] = "flush"] /\ todo' = todo
        /\ req' = req /\ UNCHANGED resources
    BY <1>5 DEF AddDevClash, dev, mod, user
  <2>3. stage'[w] = "flush" /\ todo'[w] = <<>>
    BY <1>0, <2>1, <2>2
  <2>4. OnlyDevice(w)
    <3>1. \A v \in Wdevs : v # w => req'[v] = req[v]
      BY <2>2
    <3> QED
      BY <1>0, <2>2, <3>1 DEF OnlyDevice
  <2>6. TodoAt("flush", <<>>)
    BY <1>0, <2>1, <1>40 DEF TodoAt
  <2>7. OwnedAt("flush", <<>>) = OwnedAt("prepare", <<>>)
    <3>1. OwnedAt("flush", <<>>) = Prep /\ OwnedAt("prepare", <<>>) = Prep \ Range(<<>>)
      BY OwnedStages, Zenon
    <3> QED
      BY <1>40, <3>1
  <2>8. stage'[w] # "free" => req'[w] \in Requests
    BY <1>0, <2>1, <2>2
  <2>9. req' = req \/ OwnedAt(stage[w], todo[w]) = {}
    BY <2>2
  <2>10. req' \in [Wdevs -> Requests \cup {NoDev}]
    BY <1>0, <2>2
  <2> QED
    BY <2>1, <2>2, <2>3, <2>4, <2>6, <2>7, <2>8, <2>9, <2>10, OneStage, Zenon
<1>6. ASSUME NEW w \in Wdevs, RegisterFail(w)
      PROVE  TodoOK' /\ ResourcesOK'
  <2>1. stage[w] = "register" /\ todo[w] = <<"sysfs">>
    BY <1>6 DEF RegisterFail
  <2>2. /\ stage' = [stage EXCEPT ![w] = "register_error"]
      /\ todo' = [todo EXCEPT ![w] = RegisterError]
        /\ req' = req /\ UNCHANGED resources
    BY <1>6 DEF RegisterFail, dev, mod, user
  <2>3. stage'[w] = "register_error" /\ todo'[w] = RegisterError
    BY <1>0, <2>1, <2>2
  <2>4. OnlyDevice(w)
    <3>1. \A v \in Wdevs : v # w => req'[v] = req[v]
      BY <2>2
    <3> QED
      BY <1>0, <2>2, <3>1 DEF OnlyDevice
  <2>5. Range(<<"sysfs">>) = {"sysfs"}
    BY RangeOne
  <2>6. TodoAt("register_error", RegisterError)
    BY <1>0, <2>1, <1>33, <1>38, <2>5 DEF TodoAt
  <2>7. OwnedAt("register_error", RegisterError) = OwnedAt("register", <<"sysfs">>)
    <3>1. /\ OwnedAt("register_error", RegisterError) = Prep \cup Range(RegisterError)
          /\ OwnedAt("register", <<"sysfs">>) = Prep \cup (Registered \ Range(<<"sysfs">>))
      BY OwnedStages, Zenon
    <3> QED
      BY <1>33, <1>38, <2>5, <3>1
  <2>8. stage'[w] # "free" => req'[w] \in Requests
    BY <1>0, <2>1, <2>2
  <2>9. req' = req \/ OwnedAt(stage[w], todo[w]) = {}
    BY <2>2
  <2>10. req' \in [Wdevs -> Requests \cup {NoDev}]
    BY <1>0, <2>2
  <2> QED
    BY <2>1, <2>2, <2>3, <2>4, <2>6, <2>7, <2>8, <2>9, <2>10, OneStage, Zenon
<1>7. ASSUME NEW w \in Wdevs, StartEnd(w)
      PROVE  TodoOK' /\ ResourcesOK'
  <2>1. stage[w] = "register" /\ todo[w] = <<>>
    BY <1>7 DEF StartEnd
  <2>2. /\ stage' = [stage EXCEPT ![w] = "running"] /\ todo' = todo
        /\ req' = req /\ UNCHANGED resources
    BY <1>7 DEF StartEnd, dev, mod, user
  <2>3. stage'[w] = "running" /\ todo'[w] = <<>>
    BY <1>0, <2>1, <2>2
  <2>4. OnlyDevice(w)
    <3>1. \A v \in Wdevs : v # w => req'[v] = req[v]
      BY <2>2
    <3> QED
      BY <1>0, <2>2, <3>1 DEF OnlyDevice
  <2>6. TodoAt("running", <<>>)
    BY <1>0, <2>1, <1>40 DEF TodoAt
  <2>7. OwnedAt("running", <<>>) = OwnedAt("register", <<>>)
    <3>1. /\ OwnedAt("running", <<>>) = Prep \cup Registered
          /\ OwnedAt("register", <<>>) = Prep \cup (Registered \ Range(<<>>))
      BY OwnedStages, Zenon
    <3> QED
      BY <1>40, <3>1
  <2>8. stage'[w] # "free" => req'[w] \in Requests
    BY <1>0, <2>1, <2>2
  <2>9. req' = req \/ OwnedAt(stage[w], todo[w]) = {}
    BY <2>2
  <2>10. req' \in [Wdevs -> Requests \cup {NoDev}]
    BY <1>0, <2>2
  <2> QED
    BY <2>1, <2>2, <2>3, <2>4, <2>6, <2>7, <2>8, <2>9, <2>10, OneStage, Zenon
<1>8. ASSUME NEW w \in Wdevs, NEW force \in BOOLEAN, StopDev(w, force)
      PROVE  TodoOK' /\ ResourcesOK'
  <2>1. stage[w] = "running"
    <3>1. PICK k \in Keys : idr[k] = w
      BY <1>8 DEF StopDev, Listed
    <3>2. lock # w
      BY <1>8, DevicesAssumption DEF StopDev
    <3> QED
      BY <3>1, <3>2 DEF DevInv, ListedOK
  <2>2. /\ stage' = [stage EXCEPT ![w] = "unregister"]
      /\ todo' = [todo EXCEPT ![w] = UnregisterOrder]
        /\ req' = req /\ UNCHANGED resources
    BY <1>8 DEF StopDev, dev, mod, user
  <2>3. stage'[w] = "unregister" /\ todo'[w] = UnregisterOrder
    BY <1>0, <2>1, <2>2
  <2>4. OnlyDevice(w)
    <3>1. \A v \in Wdevs : v # w => req'[v] = req[v]
      BY <2>2
    <3> QED
      BY <1>0, <2>2, <3>1 DEF OnlyDevice
  <2>6. TodoAt("unregister", UnregisterOrder)
    BY <1>0, <2>1, <1>34 DEF TodoAt
  <2>7. OwnedAt("unregister", UnregisterOrder) = OwnedAt("running", todo[w])
    <3>1. /\ OwnedAt("unregister", UnregisterOrder) = Prep \cup Range(UnregisterOrder)
          /\ OwnedAt("running", todo[w]) = Prep \cup Registered
      BY OwnedStages, Zenon
    <3> QED
      BY <1>34, <3>1
  <2>8. stage'[w] # "free" => req'[w] \in Requests
    BY <1>0, <2>1, <2>2
  <2>9. req' = req \/ OwnedAt(stage[w], todo[w]) = {}
    BY <2>2
  <2>10. req' \in [Wdevs -> Requests \cup {NoDev}]
    BY <1>0, <2>2
  <2> QED
    BY <2>1, <2>2, <2>3, <2>4, <2>6, <2>7, <2>8, <2>9, <2>10, OneStage, Zenon
<1>9. ASSUME NEW w \in Wdevs, Unregistered(w)
      PROVE  TodoOK' /\ ResourcesOK'
  <2>1. stage[w] = "unregister" /\ todo[w] = <<>>
    BY <1>9 DEF Unregistered, AlldevsDel
  <2>2. /\ stage' = [stage EXCEPT ![w] = "flush"] /\ todo' = todo
        /\ req' = req /\ UNCHANGED resources
    BY <1>9 DEF Unregistered, AlldevsDel, dev, mod, user
  <2>3. stage'[w] = "flush" /\ todo'[w] = <<>>
    BY <1>0, <2>1, <2>2
  <2>4. OnlyDevice(w)
    <3>1. \A v \in Wdevs : v # w => req'[v] = req[v]
      BY <2>2
    <3> QED
      BY <1>0, <2>2, <3>1 DEF OnlyDevice
  <2>6. TodoAt("flush", <<>>)
    BY <1>0, <2>1, <1>40 DEF TodoAt
  <2>7. OwnedAt("flush", <<>>) = OwnedAt("unregister", <<>>)
    <3>1. OwnedAt("flush", <<>>) = Prep /\ OwnedAt("unregister", <<>>) = Prep \cup Range(<<>>)
      BY OwnedStages, Zenon
    <3> QED
      BY <1>40, <3>1
  <2>8. stage'[w] # "free" => req'[w] \in Requests
    BY <1>0, <2>1, <2>2
  <2>9. req' = req \/ OwnedAt(stage[w], todo[w]) = {}
    BY <2>2
  <2>10. req' \in [Wdevs -> Requests \cup {NoDev}]
    BY <1>0, <2>2
  <2> QED
    BY <2>1, <2>2, <2>3, <2>4, <2>6, <2>7, <2>8, <2>9, <2>10, OneStage, Zenon
<1>10. ASSUME NEW w \in Wdevs, RegisterFailed(w)
      PROVE  TodoOK' /\ ResourcesOK'
  <2>1. stage[w] = "register_error" /\ todo[w] = <<>>
    BY <1>10 DEF RegisterFailed, AlldevsDel
  <2>2. /\ stage' = [stage EXCEPT ![w] = "flush"] /\ todo' = todo
        /\ req' = req /\ UNCHANGED resources
    BY <1>10 DEF RegisterFailed, AlldevsDel, dev, mod, user
  <2>3. stage'[w] = "flush" /\ todo'[w] = <<>>
    BY <1>0, <2>1, <2>2
  <2>4. OnlyDevice(w)
    <3>1. \A v \in Wdevs : v # w => req'[v] = req[v]
      BY <2>2
    <3> QED
      BY <1>0, <2>2, <3>1 DEF OnlyDevice
  <2>6. TodoAt("flush", <<>>)
    BY <1>0, <2>1, <1>40 DEF TodoAt
  <2>7. OwnedAt("flush", <<>>) = OwnedAt("register_error", <<>>)
    <3>1. OwnedAt("flush", <<>>) = Prep /\ OwnedAt("register_error", <<>>) = Prep \cup Range(<<>>)
      BY OwnedStages, Zenon
    <3> QED
      BY <1>40, <3>1
  <2>8. stage'[w] # "free" => req'[w] \in Requests
    BY <1>0, <2>1, <2>2
  <2>9. req' = req \/ OwnedAt(stage[w], todo[w]) = {}
    BY <2>2
  <2>10. req' \in [Wdevs -> Requests \cup {NoDev}]
    BY <1>0, <2>2
  <2> QED
    BY <2>1, <2>2, <2>3, <2>4, <2>6, <2>7, <2>8, <2>9, <2>10, OneStage, Zenon
<1>11. ASSUME NEW w \in Wdevs, Flush(w)
      PROVE  TodoOK' /\ ResourcesOK'
  <2>1. stage[w] = "flush"
    BY <1>11 DEF Flush
  <2>2. /\ stage' = [stage EXCEPT ![w] = "finalize"] /\ todo' = [todo EXCEPT ![w] = FinalizeOrder]
        /\ req' = req /\ UNCHANGED resources
    BY <1>11 DEF Flush, dev, mod, user
  <2>3. stage'[w] = "finalize" /\ todo'[w] = FinalizeOrder
    BY <1>0, <2>1, <2>2
  <2>4. OnlyDevice(w)
    <3>1. \A v \in Wdevs : v # w => req'[v] = req[v]
      BY <2>2
    <3> QED
      BY <1>0, <2>2, <3>1 DEF OnlyDevice
  <2>6. TodoAt("finalize", FinalizeOrder)
    BY <1>0, <2>1, <1>35, <1>39 DEF TodoAt
  <2>7. OwnedAt("finalize", FinalizeOrder) = OwnedAt("flush", todo[w])
    <3>1. /\ OwnedAt("finalize", FinalizeOrder) = (Prep \ {"super", "ddev", "ldev"}) \cup Range(FinalizeOrder)
          /\ OwnedAt("flush", todo[w]) = Prep
      BY OwnedStages, Zenon
    <3> QED
      BY <1>35, <1>39, <3>1
  <2>8. stage'[w] # "free" => req'[w] \in Requests
    BY <1>0, <2>1, <2>2
  <2>9. req' = req \/ OwnedAt(stage[w], todo[w]) = {}
    BY <2>2
  <2>10. req' \in [Wdevs -> Requests \cup {NoDev}]
    BY <1>0, <2>2
  <2> QED
    BY <2>1, <2>2, <2>3, <2>4, <2>6, <2>7, <2>8, <2>9, <2>10, OneStage, Zenon
<1>12. ASSUME NEW w \in Wdevs, Finalized(w)
      PROVE  TodoOK' /\ ResourcesOK'
  <2>1. stage[w] = "finalize" /\ todo[w] = <<>>
    BY <1>12 DEF Finalized
  <2>2. /\ stage' = [stage EXCEPT ![w] = "wait_users"] /\ todo' = todo
        /\ req' = req /\ UNCHANGED resources
    BY <1>12 DEF Finalized, dev, mod, user
  <2>3. stage'[w] = "wait_users" /\ todo'[w] = <<>>
    BY <1>0, <2>1, <2>2
  <2>4. OnlyDevice(w)
    <3>1. \A v \in Wdevs : v # w => req'[v] = req[v]
      BY <2>2
    <3> QED
      BY <1>0, <2>2, <3>1 DEF OnlyDevice
  <2>6. TodoAt("wait_users", <<>>)
    BY <1>0, <2>1, <1>40 DEF TodoAt
  <2>7. OwnedAt("wait_users", <<>>) = OwnedAt("finalize", <<>>)
    <3>1. /\ OwnedAt("wait_users", <<>>) = Prep \ {"super", "ddev", "ldev"}
          /\ OwnedAt("finalize", <<>>) = (Prep \ {"super", "ddev", "ldev"}) \cup Range(<<>>)
      BY OwnedStages, Zenon
    <3> QED
      BY <1>40, <3>1
  <2>8. stage'[w] # "free" => req'[w] \in Requests
    BY <1>0, <2>1, <2>2
  <2>9. req' = req \/ OwnedAt(stage[w], todo[w]) = {}
    BY <2>2
  <2>10. req' \in [Wdevs -> Requests \cup {NoDev}]
    BY <1>0, <2>2
  <2> QED
    BY <2>1, <2>2, <2>3, <2>4, <2>6, <2>7, <2>8, <2>9, <2>10, OneStage, Zenon
<1>13. ASSUME NEW w \in Wdevs, WaitUsers(w)
      PROVE  TodoOK' /\ ResourcesOK'
  <2>1. stage[w] = "wait_users"
    BY <1>13 DEF WaitUsers
  <2>2. /\ stage' = [stage EXCEPT ![w] = "destroy"] /\ todo' = [todo EXCEPT ![w] = DestroyOrder]
        /\ req' = req /\ UNCHANGED resources
    BY <1>13 DEF WaitUsers, dev, mod, user
  <2>3. stage'[w] = "destroy" /\ todo'[w] = DestroyOrder
    BY <1>0, <2>1, <2>2
  <2>4. OnlyDevice(w)
    <3>1. \A v \in Wdevs : v # w => req'[v] = req[v]
      BY <2>2
    <3> QED
      BY <1>0, <2>2, <3>1 DEF OnlyDevice
  <2>6. TodoAt("destroy", DestroyOrder)
    BY <1>0, <2>1, <1>36, <1>38 DEF TodoAt
  <2>7. OwnedAt("destroy", DestroyOrder) = OwnedAt("wait_users", todo[w])
    <3>1. /\ OwnedAt("destroy", DestroyOrder) = Range(DestroyOrder) \ {"redo"}
          /\ OwnedAt("wait_users", todo[w]) = Prep \ {"super", "ddev", "ldev"}
      BY OwnedStages, Zenon
    <3> QED
      BY <1>36, <1>38, <3>1
  <2>8. stage'[w] # "free" => req'[w] \in Requests
    BY <1>0, <2>1, <2>2
  <2>9. req' = req \/ OwnedAt(stage[w], todo[w]) = {}
    BY <2>2
  <2>10. req' \in [Wdevs -> Requests \cup {NoDev}]
    BY <1>0, <2>2
  <2> QED
    BY <2>1, <2>2, <2>3, <2>4, <2>6, <2>7, <2>8, <2>9, <2>10, OneStage, Zenon
<1>14. ASSUME NEW w \in Wdevs, Destroyed(w)
      PROVE  TodoOK' /\ ResourcesOK'
  <2>1. stage[w] = "destroy" /\ todo[w] = <<>>
    BY <1>14 DEF Destroyed, Free
  <2>2. /\ stage' = [stage EXCEPT ![w] = "free"] /\ todo' = todo
        /\ req' = [req EXCEPT ![w] = NoDev] /\ UNCHANGED resources
    BY <1>14 DEF Destroyed, Free, dev, mod, user
  <2>3. stage'[w] = "free" /\ todo'[w] = <<>>
    BY <1>0, <2>1, <2>2
  <2>4. OnlyDevice(w)
    <3>1. \A v \in Wdevs : v # w => req'[v] = req[v]
      BY <2>2
    <3> QED
      BY <1>0, <2>2, <3>1 DEF OnlyDevice
  <2>6. TodoAt("free", <<>>)
    BY <1>0, <2>1, <1>40 DEF TodoAt
  <2>7. OwnedAt("free", <<>>) = OwnedAt("destroy", <<>>)
    <3>1. OwnedAt("free", <<>>) = {} /\ OwnedAt("destroy", <<>>) = Range(<<>>) \ {"redo"}
      BY OwnedStages, Zenon
    <3> QED
      BY <1>40, <3>1
  <2>8. stage'[w] # "free" => req'[w] \in Requests
    BY <2>3
  <2>9. req' = req \/ OwnedAt(stage[w], todo[w]) = {}
    <3>1. OwnedAt("free", <<>>) = {}
      BY OwnedStages, Zenon
    <3> QED
      BY <2>1, <2>7, <3>1
  <2>10. req' \in [Wdevs -> Requests \cup {NoDev}]
    BY <1>0, <2>2
  <2> QED
    BY <2>1, <2>2, <2>3, <2>4, <2>6, <2>7, <2>8, <2>9, <2>10, OneStage, Zenon
<1>15. ASSUME NEW w \in Wdevs, AlldevsPop(w)
      PROVE  TodoOK' /\ ResourcesOK'
  <2>1. stage[w] = "running"
    <3>1. PICK k \in Keys : idr[k] = w
      BY <1>15 DEF AlldevsPop, AlldevsDel, Listed
    <3>2. lock # w
      BY <1>15, DevicesAssumption DEF AlldevsPop
    <3> QED
      BY <3>1, <3>2 DEF DevInv, ListedOK
  <2>2. /\ stage' = [stage EXCEPT ![w] = "unregister"]
      /\ todo' = [todo EXCEPT ![w] = UnregisterOrder]
        /\ req' = req /\ UNCHANGED resources
    BY <1>15 DEF AlldevsPop, AlldevsDel, dev, mod, user
  <2>3. stage'[w] = "unregister" /\ todo'[w] = UnregisterOrder
    BY <1>0, <2>1, <2>2
  <2>4. OnlyDevice(w)
    <3>1. \A v \in Wdevs : v # w => req'[v] = req[v]
      BY <2>2
    <3> QED
      BY <1>0, <2>2, <3>1 DEF OnlyDevice
  <2>6. TodoAt("unregister", UnregisterOrder)
    BY <1>0, <2>1, <1>34 DEF TodoAt
  <2>7. OwnedAt("unregister", UnregisterOrder) = OwnedAt("running", todo[w])
    <3>1. /\ OwnedAt("unregister", UnregisterOrder) = Prep \cup Range(UnregisterOrder)
          /\ OwnedAt("running", todo[w]) = Prep \cup Registered
      BY OwnedStages, Zenon
    <3> QED
      BY <1>34, <3>1
  <2>8. stage'[w] # "free" => req'[w] \in Requests
    BY <1>0, <2>1, <2>2
  <2>9. req' = req \/ OwnedAt(stage[w], todo[w]) = {}
    BY <2>2
  <2>10. req' \in [Wdevs -> Requests \cup {NoDev}]
    BY <1>0, <2>2
  <2> QED
    BY <2>1, <2>2, <2>3, <2>4, <2>6, <2>7, <2>8, <2>9, <2>10, OneStage, Zenon
<1>16. ASSUME NEW w \in Wdevs, Prepare(w) \/ Register(w)
      PROVE  TodoOK' /\ ResourcesOK'
  <2>1. /\ stage[w] \in {"prepare", "register"} /\ todo[w] # <<>> /\ Take(w, Head(todo[w]))
        /\ todo' = [todo EXCEPT ![w] = Tail(@)] /\ UNCHANGED <<stage, req>>
    BY <1>16 DEF Prepare, Register, dev
  <2> QED
    BY <2>1, TakeStep
<1>17. ASSUME NEW w \in Wdevs, Release(w)
      PROVE  TodoOK' /\ ResourcesOK'
  BY <1>17, GiveStep
<1>18. ASSUME UNCHANGED <<stage, todo, req, resources>>
      PROVE  TodoOK' /\ ResourcesOK'
  <2>1. \A w \in Wdevs : Owned(w)' = Owned(w) /\ req'[w] = req[w]
    BY <1>18 DEF Owned
  <2>2. TodoOK'
    BY <1>18 DEF TodoOK
  <2> QED
    BY <1>18, <2>1, <2>2, SameResources
<1>19. ASSUME Insmod \/ WalbInit \/ WalbInitFail \/ Exit \/ ExitEnd \/ UNCHANGED vars
      PROVE  UNCHANGED <<stage, todo, req, resources>>
  BY <1>19 DEF Insmod, WalbInit, WalbInitFail, Exit, ExitEnd, moduleUnchanged, vars, dev, mod,
               resources
<1>20. ASSUME NEW u \in Users, NEW w \in Wdevs, NEW d \in DiskParts, Open(u, w, d)
      PROVE  UNCHANGED <<stage, todo, req, resources>>
  BY <1>20 DEF Open, dev, mod, resources
<1>21. ASSUME NEW u \in Users, Close(u) \/ MakeRequest(u) \/ BioStep(u)
      PROVE  UNCHANGED <<stage, todo, req, resources>>
  BY <1>21 DEF Close, MakeRequest, BioStep, CountBio, EndBio, dev, mod, resources
<1> QED
  BY <1>1, <1>2, <1>3, <1>4, <1>5, <1>6, <1>7, <1>8, <1>9, <1>10, <1>11, <1>12,
     <1>13, <1>14, <1>15, <1>16, <1>17, <1>18, <1>19, <1>20, <1>21,
     Zenon DEF Next, Step, DiskParts

\* walb_exit undoes what walb_init has done.
LEMMA ExitRange == Range(InitOrder) \subseteq Range(ExitOrder)
<1>1. /\ DOMAIN InitOrder = 1..7
      /\ InitOrder[1] = "major" /\ InitOrder[2] = "bio_set" /\ InitOrder[3] = "wq_normal"
      /\ InitOrder[4] = "wq_unbound" /\ InitOrder[5] = "wq_misc" /\ InitOrder[6] = "alldevs"
      /\ InitOrder[7] = "control"
  BY DEF InitOrder
<1>2. /\ DOMAIN ExitOrder = 1..7
      /\ ExitOrder[1] = "wq_misc" /\ ExitOrder[2] = "wq_unbound" /\ ExitOrder[3] = "wq_normal"
      /\ ExitOrder[4] = "major" /\ ExitOrder[5] = "control" /\ ExitOrder[6] = "alldevs"
      /\ ExitOrder[7] = "bio_set"
  BY DEF ExitOrder
<1>3. ASSUME NEW j \in 1..7 PROVE \E k \in 1..7 : InitOrder[j] = ExitOrder[k]
  <2>1. j = 1 \/ j = 2 \/ j = 3 \/ j = 4 \/ j = 5 \/ j = 6 \/ j = 7
    OBVIOUS
  <2> QED
    BY <1>1, <1>2, <2>1
<1> QED
  BY <1>1, <1>2, <1>3 DEF Range

\* Devices are there only while the module is, and nothing of walb_init when it is out.
ModuleOK ==
  /\ parts \subseteq Range(InitOrder)
  /\ module = "out" => parts = {}
  /\ module \in {"out", "init"} => \A w \in Wdevs : stage[w] = "free"

\* Every step leaves the module without caches and devices whenever it is not in.
LEMMA ModuleKept ==
  ASSUME DevInv, ModuleOK, [Next]_vars
  PROVE  ModuleOK'
<1>1. ASSUME UNCHANGED mod, module \in {"out", "init"} => stage' = stage PROVE ModuleOK'
  BY <1>1 DEF ModuleOK, mod
<1>2. ASSUME NEW w \in Wdevs, Step(w) PROVE ModuleOK'
  <2>1. stage[w] # "free" /\ UNCHANGED mod
    BY <1>2 DEF Step, Prepare, PrepareFail, Release, StartFailed, AddDev, AddDevClash, Register,
       RegisterFail, StartEnd, Unregistered, RegisterFailed, Flush, Finalized, WaitUsers, Destroyed
  <2> QED
    BY <1>1, <2>1 DEF ModuleOK
<1>3. ASSUME NEW w \in Wdevs, AlldevsPop(w) PROVE ModuleOK'
  <2>1. stage[w] # "free" /\ UNCHANGED mod
    BY <1>3 DEF AlldevsPop, Listed, DevInv, ListedOK
  <2> QED
    BY <1>1, <2>1 DEF ModuleOK
<1>4. ASSUME NEW w \in Wdevs, (\E r \in Requests : StartDev(w, r))
    \/ (\E force \in BOOLEAN : StopDev(w, force))
      PROVE  ModuleOK'
  <2>1. module = "in" /\ UNCHANGED mod
    BY <1>4 DEF StartDev, StopDev
  <2> QED
    BY <1>1, <2>1
<1>5. ASSUME NEW u \in Users, NEW w \in Wdevs, NEW d \in DiskParts, Open(u, w, d) PROVE ModuleOK'
  BY <1>1, <1>5 DEF Open
<1>6. ASSUME NEW u \in Users, Close(u) \/ MakeRequest(u) \/ BioStep(u) PROVE ModuleOK'
  BY <1>1, <1>6 DEF Close, MakeRequest, BioStep, CountBio, EndBio
<1>7. CASE Insmod
  BY <1>7 DEF Insmod, ModuleOK, moduleUnchanged
<1>8. CASE WalbInit
  <2>1. PICK j \in DOMAIN InitOrder : parts' = parts \cup {InitOrder[j]}
    BY <1>8 DEF WalbInit
  <2>2. InitOrder[j] \in Range(InitOrder)
    BY DEF Range
  <2> QED
    BY <1>8, <2>1, <2>2 DEF WalbInit, ModuleOK, moduleUnchanged
<1>9. CASE WalbInitFail
  BY <1>9 DEF WalbInitFail, ModuleOK, moduleUnchanged
<1>10. CASE Exit
  BY <1>10 DEF Exit, ModuleOK, moduleUnchanged
<1>11. CASE ExitEnd
  BY <1>11, ExitRange DEF ExitEnd, ModuleOK, moduleUnchanged
<1>12. CASE UNCHANGED vars
  BY <1>1, <1>12 DEF vars, mod
<1> QED
  BY <1>2, <1>3, <1>4, <1>5, <1>6, <1>7, <1>8, <1>9, <1>10, <1>11, <1>12, Zenon DEF Next, DiskParts

BookInv == DevInv /\ TodoOK /\ ResourcesOK /\ ModuleOK

\* Init has the books right.
LEMMA InitBook == Init => BookInv
<1> SUFFICES ASSUME Init PROVE BookInv
  OBVIOUS
<1>1. \A w \in Wdevs : Owned(w) = {}
  BY OwnedStages DEF Init, Owned
<1>2. TodoOK
  BY EmptyTodo DEF Init, TodoOK, TodoAt
<1>3. ResourcesOK
  <2>1. \A c \in Caches : Having(c) = {}
    BY <1>1 DEF Having
  <2>2. \A c \in {"ldev", "ddev"}, d \in Disks : Claiming(c, d) = {}
    BY <1>1 DEF Claiming
  <2>3. Cardinality({}) = 0
    BY FS_EmptySet
  <2>4. \A c \in Caches : Cardinality(Having(c)) = 0
    BY <2>1, <2>3
  <2>5. \A d \in Disks : Cardinality(Claiming("ldev", d)) = 0
      /\ Cardinality(Claiming("ddev", d)) = 0
    BY <2>2, <2>3
  <2> QED
    BY <1>1, <2>4, <2>5 DEF Init, ResourcesOK
<1>4. ModuleOK
  BY DEF Init, ModuleOK
<1> QED
  BY <1>2, <1>3, <1>4, InitDev DEF BookInv

\* What the running devices hold is all that is held when nothing is under way: every error
\* path, unregister_wdev, finalize_wdev and destroy_wdev have given back what was taken,
\* the counts of the shared caches and of the claims included.
THEOREM NothingLeakedThm == Spec => []NothingLeaked
<1>1. BookInv => NothingLeaked
  <2> SUFFICES ASSUME BookInv, \A w \in Wdevs : stage[w] \in {"free", "running"} PROVE NothingLeaked
    BY DEF NothingLeaked
  <2> DEFINE running == {w \in Wdevs : stage[w] = "running"}
             own == {"wdev", "super", "gd", "queue", "log_gd", "log_queue", "iocored",
                     "checkpoint", "log_disk", "disk", "sysfs"}
  <2>1. \A w \in Wdevs : Owned(w) = IF w \in running THEN Prep \cup Registered ELSE {}
    BY OwnedStages DEF Owned
  <2>2. (Prep \cup Registered) \ Counted = own /\ Counted \subseteq Prep
    BY DEF Prep, Registered, Counted, Caches
  <2>3. \A w \in Wdevs : held[w] = IF w \in running THEN own ELSE {}
    BY <2>1, <2>2 DEF BookInv, ResourcesOK
  <2>4. \A c \in Caches : Having(c) = running
    BY <2>1, <2>2 DEF Having, Counted
  <2>5. \A d \in Disks : /\ Claiming("ldev", d) = {w \in running : req[w].ldev = d}
                         /\ Claiming("ddev", d) = {w \in running : req[w].ddev = d}
    BY <2>1, <2>2 DEF Claiming, DiskOf, Counted
  <2>6. \A d \in Disks : claims[d] = Cardinality({w \in running : req[w].ldev = d})
                                     + Cardinality({w \in running : req[w].ddev = d})
    BY <2>5 DEF BookInv, ResourcesOK
  <2>7. \A c \in Caches : caches[c] = Cardinality(running)
    BY <2>4 DEF BookInv, ResourcesOK
  <2>8. module = "out" => parts = {} /\ running = {}
    BY DEF BookInv, ModuleOK
  <2> QED
    BY <2>3, <2>6, <2>7, <2>8 DEF NothingLeaked
<1>2. BookInv /\ [Next]_vars => BookInv'
  BY DevKept, ResourcesKept, ModuleKept DEF BookInv
<1> QED
  BY <1>1, <1>2, InitBook, PTL DEF Spec

-----------------------------------------------------------------------------
(* The list is exact *)

\* How many elements of a set of numbers are below one.
Rank(S, k) == Cardinality({i \in S : i < k})

\* Ranks are ordered as the numbers, and below the size of the set.
LEMMA RankOrder ==
  ASSUME NEW S, IsFiniteSet(S), S \subseteq Nat
  PROVE  /\ \A k \in S : Rank(S, k) \in 0..(Cardinality(S) - 1)
         /\ \A k, m \in S : k < m => Rank(S, k) < Rank(S, m)
<1>1. Cardinality(S) \in Nat
  BY FS_CardinalityType
<1>2. ASSUME NEW k \in S PROVE Rank(S, k) \in 0..(Cardinality(S) - 1)
  <2> DEFINE B == {i \in S : i < k}
  <2>1. B \subseteq S /\ k \notin B
    BY <1>2
  <2>2. B # S
    BY <2>1
  <2>3. IsFiniteSet(B) /\ Cardinality(B) \in Nat /\ Cardinality(B) < Cardinality(S)
    BY <2>1, <2>2, FS_Subset, FS_CardinalityType
  <2> QED
    BY <1>1, <2>3 DEF Rank
<1>3. ASSUME NEW k \in S, NEW m \in S, k < m PROVE Rank(S, k) < Rank(S, m)
  <2> DEFINE A == {i \in S : i < k}
             B == {i \in S : i < m}
  <2>1. A \subseteq B /\ k \in B /\ k \notin A
    <3>0. k \in Nat /\ m \in Nat /\ \A i \in S : i \in Nat
      OBVIOUS
    <3>1. \A i \in S : i < k => i < m
      BY <1>3, <3>0
    <3>2. ~(k < k)
      BY <3>0
    <3> QED
      BY <1>3, <3>1, <3>2
  <2>2. A # B /\ IsFiniteSet(A) /\ IsFiniteSet(B)
    BY <2>1, FS_Subset
  <2>3. Cardinality(A) < Cardinality(B)
    <3> HIDE DEF A, B
    <3>1. Cardinality(A) \in Nat /\ Cardinality(B) \in Nat
      BY <2>2, FS_CardinalityType
    <3>2. Cardinality(A) <= Cardinality(B) /\ Cardinality(A) # Cardinality(B)
      BY <2>1, <2>2, FS_Subset
    <3> QED
      BY <3>1, <3>2
  <2> QED
    BY <2>3 DEF Rank
<1>4. \A k \in S : Rank(S, k) \in 0..(Cardinality(S) - 1)
  BY <1>2
<1>5. \A k, m \in S : k < m => Rank(S, k) < Rank(S, m)
  BY <1>3
<1> QED
  BY <1>4, <1>5

\* Ranks are numbers.
LEMMA RankIn ==
  ASSUME NEW S, IsFiniteSet(S), S \subseteq Nat, NEW k \in S
  PROVE  Rank(S, k) \in Nat /\ Rank(S, k) <= Cardinality(S) - 1
<1>1. Cardinality(S) \in Nat
  BY FS_CardinalityType
<1>2. Rank(S, k) \in 0..(Cardinality(S) - 1)
  BY RankOrder
<1> QED
  BY <1>1, <1>2

\* Each rank below the size is that of one element.
LEMMA RankExists ==
  ASSUME NEW S, IsFiniteSet(S), S \subseteq Nat, NEW j \in 1..Cardinality(S)
  PROVE  \E k \in S : Rank(S, k) = j - 1
<1>1. PICK n \in Nat : n = Cardinality(S)
  BY FS_CardinalityType
<1>2. ASSUME \A k \in S : Rank(S, k) # j - 1 PROVE FALSE
  <2> DEFINE T == (0..(n - 1)) \ {j - 1}
             f == [k \in S |-> Rank(S, k)]
  <2>1. f \in [S -> T]
    BY <1>1, <1>2, RankOrder
  <2>2. PICK U : U = 0..(n - 1)
    OBVIOUS
  <2>3. IsFiniteSet(U) /\ Cardinality(U) = n /\ j - 1 \in U
    BY <1>1, <2>2, FS_Interval
  <2>4. IsFiniteSet(T) /\ Cardinality(T) = n - 1
    <3>1. T = U \ {j - 1}
      BY <2>2
    <3>2. IsFiniteSet(U \ {j - 1}) /\ Cardinality(U \ {j - 1}) = n - 1
      BY <2>3, FS_RemoveElement
    <3> QED
      BY <3>1, <3>2, Zenon
  <2>5. Cardinality(T) < Cardinality(S)
    BY <1>1, <2>4
  <2>6. PICK k \in S, m \in S : k # m /\ f[k] = f[m]
    <3> HIDE DEF f, T
    <3> QED
      BY <2>1, <2>4, <2>5, FS_PigeonHole
  <2>7. Rank(S, k) = Rank(S, m)
    BY <2>6
  <2>8. k \in Nat /\ m \in Nat /\ Rank(S, k) \in Nat /\ Rank(S, m) \in Nat
    BY <1>1, RankIn
  <2>9. (k < m => Rank(S, k) < Rank(S, m)) /\ (m < k => Rank(S, m) < Rank(S, k))
    BY <2>6, RankOrder
  <2>10. PICK a, b : a = Rank(S, k) /\ b = Rank(S, m)
    OBVIOUS
  <2>11. a \in Nat /\ b \in Nat /\ a = b /\ (k < m => a < b) /\ (m < k => b < a) /\ (k < m \/ m < k)
    BY <2>6, <2>7, <2>8, <2>9, <2>10
  <2> QED
    BY <2>11
<1> QED
  BY <1>2

\* The element of a rank is unique.
LEMMA RankUnique ==
  ASSUME NEW S, IsFiniteSet(S), S \subseteq Nat, NEW k \in S, NEW m \in S, Rank(S, k) = Rank(S, m)
  PROVE  k = m
<1>1. k \in Nat /\ m \in Nat /\ Rank(S, k) \in Nat /\ Rank(S, m) \in Nat
  BY RankIn
<1>2. (k < m => Rank(S, k) < Rank(S, m)) /\ (m < k => Rank(S, m) < Rank(S, k))
  BY RankOrder
<1>3. PICK a, b : a = Rank(S, k) /\ b = Rank(S, m)
  OBVIOUS
<1>4. a \in Nat /\ b \in Nat /\ a = b /\ (k < m => a < b) /\ (m < k => b < a)
  BY <1>1, <1>2, <1>3
<1> QED
  BY <1>1, <1>4

\* The devices whose ioctl has reserved a minor id, and those that are entered in the list or
\* whose disks are still there.
Starting == {w \in Wdevs : stage[w] \in {"prepare", "unwind"}}
Active == {w \in Wdevs : stage[w] \in {"register", "register_error", "running", "unregister"}}

\* The reserved entries are those of the devices that are starting.
ReservedOK ==
  /\ \A w \in Starting : idr[key[w]] = Prealloced
  /\ \A k \in Keys : idr[k] = Prealloced => \E w \in Starting : key[w] = k

\* Active devices are listed, until stop takes them from the list with their last step or
\* walb_exit with its first.
EntriesOK ==
  \A w \in Active :
    /\ stage[w] # "unregister" => idr[key[w]] = w
    /\ stage[w] = "unregister" => lock = "exit" \/ (lock = w /\ idr[key[w]] = w)

\* The counter of the list.
Entries == {k \in Keys : idr[k] \in Wdevs}
CountOK == nrDevs = Cardinality(Entries)

\* Active devices differ in their keys and names, and from the ones that start in their disks.
DisksOf(w) == {req[w].ldev, req[w].ddev}
ApartOK ==
  /\ \A v, w \in Active : v # w => key[v] # key[w] /\ NameOf(v) # NameOf(w)
  /\ \A v, w \in Active \cup Starting : v # w => DisksOf(v) \cap DisksOf(w) = {}

ListInv == ReservedOK /\ EntriesOK /\ CountOK /\ ApartOK

\* The keys are a finite set.
LEMMA EntriesFinite ==
  ASSUME NEW S, S \subseteq Keys
  PROVE  IsFiniteSet(S) /\ Cardinality(S) \in Nat /\ Cardinality(S) <= NKeys
<1>1. NKeys \in Nat \ {0} /\ 0 \in Int /\ NKeys - 1 \in Int
  BY DevicesAssumption
<1>2. IsFiniteSet(Keys) /\ Cardinality(Keys) = NKeys
  BY <1>1, FS_Interval DEF Keys
<1> QED
  BY <1>1, <1>2, FS_Subset, FS_CardinalityType

\* An entry is written over or cleared.
LEMMA EntrySet ==
  ASSUME TypesOK, CountOK, NEW k \in Keys, NEW x, idr' = [idr EXCEPT ![k] = x]
  PROVE  /\ idr[k] \notin Wdevs /\ x \notin Wdevs /\ nrDevs' = nrDevs => CountOK'
         /\ idr[k] \notin Wdevs /\ x \in Wdevs /\ nrDevs' = nrDevs + 1 => CountOK'
         /\ idr[k] \in Wdevs /\ x \notin Wdevs /\ nrDevs' = nrDevs - 1 => CountOK'
<1>1. \A m \in Keys : idr'[m] = IF m = k THEN x ELSE idr[m]
  BY DEF TypesOK
<1>2. IsFiniteSet(Entries)
  BY EntriesFinite DEF Entries
<1>3. ASSUME idr[k] \notin Wdevs, x \notin Wdevs, nrDevs' = nrDevs PROVE CountOK'
  <2>1. Entries' = Entries
    BY <1>1, <1>3 DEF Entries
  <2> QED
    BY <1>3, <2>1 DEF CountOK
<1>4. ASSUME idr[k] \notin Wdevs, x \in Wdevs, nrDevs' = nrDevs + 1 PROVE CountOK'
  <2>1. Entries' = Entries \cup {k} /\ k \notin Entries
    BY <1>1, <1>4 DEF Entries
  <2>2. Cardinality(Entries \cup {k}) = Cardinality(Entries) + 1
    BY <1>2, <2>1, FS_AddElement
  <2> QED
    BY <1>4, <2>1, <2>2 DEF CountOK
<1>5. ASSUME idr[k] \in Wdevs, x \notin Wdevs, nrDevs' = nrDevs - 1 PROVE CountOK'
  <2>1. Entries' = Entries \ {k} /\ k \in Entries
    BY <1>1, <1>5 DEF Entries
  <2>2. Cardinality(Entries \ {k}) = Cardinality(Entries) - 1
    BY <1>2, <2>1, FS_RemoveElement
  <2> QED
    BY <1>5, <2>1, <2>2 DEF CountOK
<1> QED
  BY <1>3, <1>4, <1>5

\* A step that leaves the list alone and moves no device between those sets.
LEMMA ListAlone ==
  ASSUME ListInv, UNCHANGED <<idr, nrDevs, key, req, lock>>, Starting' = Starting, Active' = Active,
         \A w \in Active : stage'[w] = "unregister" <=> stage[w] = "unregister"
  PROVE  ListInv'
<1>1. ReservedOK'
  BY DEF ListInv, ReservedOK
<1>2. EntriesOK'
  BY DEF ListInv, EntriesOK
<1>3. CountOK'
  BY DEF ListInv, CountOK, Entries
<1>4. ApartOK'
  BY DEF ListInv, ApartOK, NameOf, DisksOf
<1> QED
  BY <1>1, <1>2, <1>3, <1>4 DEF ListInv

\* The parts about pairs, when fewer devices are concerned.
LEMMA ApartFewer ==
  ASSUME ApartOK, Active' \subseteq Active, Starting' \subseteq Starting \cup Active,
         \A w \in Active' \cup Starting' : key'[w] = key[w] /\ req'[w] = req[w]
  PROVE  ApartOK'
<1>1. \A w \in Active' \cup Starting' : NameOf(w)' = NameOf(w) /\ DisksOf(w)' = DisksOf(w)
  BY DEF NameOf, DisksOf
<1> QED
  BY <1>1 DEF ApartOK

\* When the lock belongs to an ioctl or to nobody, the other active devices run and are listed,
\* and no other device is starting.
LEMMA LockFacts ==
  ASSUME DevInv, ListInv, lock # "exit"
  PROVE  /\ \A v \in Active : v # lock => stage[v] = "running" /\ idr[key[v]] = v
         /\ \A v \in Starting : v = lock
<1>1. \A v \in Starting : v = lock
  BY DEF Starting, DevInv, LockOK
<1>2. ASSUME NEW v \in Active, v # lock PROVE stage[v] = "running" /\ idr[key[v]] = v
  <2>1. stage[v] \notin {"register", "register_error"}
    BY <1>2 DEF Active, DevInv, LockOK
  <2>2. stage[v] # "unregister"
    BY <1>2 DEF Active, ListInv, EntriesOK
  <2>3. stage[v] = "running"
    BY <2>1, <2>2 DEF Active
  <2> QED
    BY <2>3 DEF ListInv, EntriesOK
<1> QED
  BY <1>1, <1>2

\* The steps that take an entry or give one back.
LEMMA ListStart ==
  ASSUME DevInv, ListInv, NEW w \in Wdevs, NEW r \in Requests, StartDev(w, r),
         req \in [Wdevs -> Requests \cup {NoDev}]
  PROVE  ListInv'
<1>1. PICK k \in Keys : /\ idr[k] = NoDev /\ idr' = [idr EXCEPT ![k] = Prealloced]
                        /\ key' = [key EXCEPT ![w] = k]
  BY DEF StartDev, AllocMinor
<1>2. /\ lock = NoDev /\ lock' = w /\ stage[w] = "free" /\ req' = [req EXCEPT ![w] = r]
      /\ stage' = [stage EXCEPT ![w] = "prepare"] /\ nrDevs' = nrDevs
      /\ ~IsAlreadyUsed(r.ldev) /\ ~IsAlreadyUsed(r.ddev)
  BY DEF StartDev
<1>3. TypesOK
  BY DEF DevInv
<1>4. \A v \in Wdevs : v # w => key'[v] = key[v] /\ req'[v] = req[v] /\ stage'[v] = stage[v]
  BY <1>1, <1>2, <1>3 DEF TypesOK
<1>5. key'[w] = k /\ req'[w] = r /\ stage'[w] = "prepare"
  BY <1>1, <1>2, <1>3 DEF TypesOK
<1>6. \A v \in Active : stage[v] = "running" /\ idr[key[v]] = v
  BY <1>2, LockFacts, DevicesAssumption DEF Active
<1>7. Starting = {}
  BY <1>2, LockFacts, DevicesAssumption DEF Starting
<1>8. Active' = Active /\ Starting' = {w} /\ w \notin Active
  BY <1>2, <1>4, <1>5, <1>7 DEF Active, Starting
<1>9. \A m \in Keys : idr'[m] = IF m = k THEN Prealloced ELSE idr[m]
  BY <1>1, <1>3 DEF TypesOK
<1>10. ReservedOK'
  BY <1>5, <1>7, <1>8, <1>9 DEF ReservedOK, ListInv
<1>11. EntriesOK'
  <2>1. ASSUME NEW v \in Active PROVE stage'[v] = "running" /\ idr'[key'[v]] = v
    <3>1. v # w /\ key'[v] = key[v] /\ stage'[v] = "running" /\ key[v] \in Keys
      BY <1>3, <1>4, <1>6, <1>8 DEF Active, TypesOK
    <3>2. key[v] # k
      BY <1>1, <1>6, DevicesAssumption DEF Active
    <3> QED
      BY <1>6, <1>9, <3>1, <3>2
  <2> QED
    BY <1>8, <2>1 DEF EntriesOK
<1>12. CountOK'
  BY <1>1, <1>2, <1>3, EntrySet, DevicesAssumption DEF ListInv
<1>13. ApartOK'
  <2>1. \A v \in Active : NameOf(v)' = NameOf(v) /\ DisksOf(v)' = DisksOf(v)
      /\ key'[v] = key[v] /\ v # w
    BY <1>4, <1>8 DEF NameOf, DisksOf, Active
  <2>2. DisksOf(w)' = {r.ldev, r.ddev}
    BY <1>5 DEF DisksOf
  <2>3. ASSUME NEW v \in Active PROVE DisksOf(v) \cap {r.ldev, r.ddev} = {}
    <3>1. v \in Listed
      BY <1>3, <1>6 DEF Listed, Active, TypesOK
    <3> QED
      BY <1>2, <3>1 DEF IsAlreadyUsed, DisksOf
  <2>4. \A u, v \in Active : u # v => key[u] # key[v] /\ NameOf(u) # NameOf(v)
      /\ DisksOf(u) \cap DisksOf(v) = {}
    BY DEF ListInv, ApartOK
  <2>5. \A u, v \in Active : u # v => key'[u] # key'[v] /\ NameOf(u)' # NameOf(v)'
    BY <2>1, <2>4
  <2>6. \A u, v \in Active \cup {w} : u # v => DisksOf(u)' \cap DisksOf(v)' = {}
    BY <2>1, <2>2, <2>3, <2>4
  <2> QED
    BY <1>8, <2>5, <2>6 DEF ApartOK
<1> QED
  BY <1>10, <1>11, <1>12, <1>13 DEF ListInv

\* A failed start takes its entry back (alldevs_del of a reserved entry).
LEMMA ListStartFailed ==
  ASSUME DevInv, ListInv, NEW w \in Wdevs, StartFailed(w) \/ AddDevClash(w)
  PROVE  ListInv'
<1>1. /\ idr' = [idr EXCEPT ![key[w]] = NoDev] /\ nrDevs' = nrDevs /\ w \in Starting
      /\ \E s \in {"free", "flush"} : stage' = [stage EXCEPT ![w] = s]
      /\ \A v \in Wdevs : v # w => key'[v] = key[v] /\ req'[v] = req[v]
      /\ lock' \in {lock, NoDev}
  <2>1. CASE StartFailed(w)
    <3>1. /\ stage' = [stage EXCEPT ![w] = "free"] /\ req' = [req EXCEPT ![w] = NoDev]
          /\ key' = [key EXCEPT ![w] = 0]
      BY <2>1 DEF StartFailed, Free
    <3>2. \A v \in Wdevs : v # w => key'[v] = key[v] /\ req'[v] = req[v]
      BY <3>1
    <3> QED
      BY <2>1, <3>1, <3>2 DEF StartFailed, Starting
  <2>2. CASE AddDevClash(w)
    BY <2>2 DEF AddDevClash, Starting
  <2> QED
    BY <2>1, <2>2
<1>2. TypesOK /\ key[w] \in Keys
  BY DEF DevInv, TypesOK
<1>3. lock = w
  BY <1>1 DEF DevInv, LockOK, Starting
<1>4. lock # "exit" /\ lock' # "exit"
  BY <1>1, <1>3, DevicesAssumption
<1>5. /\ \A v \in Active : v # w => stage[v] = "running" /\ idr[key[v]] = v
      /\ Starting = {w}
  BY <1>1, <1>3, <1>4, LockFacts DEF Starting
<1>6. stage'[w] \in {"free", "flush"} /\ \A v \in Wdevs : v # w => stage'[v] = stage[v]
  BY <1>1, <1>2 DEF TypesOK
<1>7. Starting' = {} /\ Active' = Active /\ w \notin Active
  BY <1>1, <1>5, <1>6 DEF Starting, Active
<1>8. \A m \in Keys : idr'[m] = IF m = key[w] THEN NoDev ELSE idr[m]
  BY <1>1, <1>2 DEF TypesOK
<1>9. idr[key[w]] = Prealloced
  BY <1>1 DEF ListInv, ReservedOK
<1>10. ReservedOK'
  BY <1>5, <1>7, <1>8, DevicesAssumption DEF ListInv, ReservedOK
<1>11. EntriesOK'
  <2>1. ASSUME NEW v \in Active PROVE stage'[v] = "running" /\ idr'[key'[v]] = v
    <3>1. v \in Wdevs /\ v # w /\ key'[v] = key[v] /\ stage'[v] = "running" /\ key[v] \in Keys
      BY <1>1, <1>2, <1>5, <1>6, <1>7 DEF Active, TypesOK
    <3>2. key[v] # key[w]
      BY <1>5, <1>9, <3>1, DevicesAssumption
    <3> QED
      BY <1>5, <1>8, <3>1, <3>2
  <2> QED
    BY <1>7, <2>1 DEF EntriesOK
<1>12. CountOK'
  BY <1>1, <1>2, <1>9, EntrySet, DevicesAssumption DEF ListInv
<1>13. ApartOK'
  BY <1>1, <1>7, ApartFewer DEF ListInv, Active
<1> QED
  BY <1>10, <1>11, <1>12, <1>13 DEF ListInv

\* alldevs_add puts the device in the entry that its ioctl reserved.
LEMMA ListAdd ==
  ASSUME DevInv, ListInv, NEW w \in Wdevs, AddDev(w)
  PROVE  ListInv'
<1>1. /\ idr' = [idr EXCEPT ![key[w]] = w] /\ nrDevs' = nrDevs + 1 /\ w \in Starting
      /\ stage' = [stage EXCEPT ![w] = "register"] /\ UNCHANGED <<lock, key, req>>
      /\ \A v \in Listed : NameOf(v) # NameOf(w)
  BY DEF AddDev, Starting
<1>2. TypesOK /\ key[w] \in Keys
  BY DEF DevInv, TypesOK
<1>3. lock = w
  BY <1>1 DEF DevInv, LockOK, Starting
<1>4. lock # "exit"
  BY <1>3, DevicesAssumption
<1>5. /\ \A v \in Active : v # w => stage[v] = "running" /\ idr[key[v]] = v
      /\ Starting = {w}
  BY <1>1, <1>3, <1>4, LockFacts DEF Starting
<1>6. stage'[w] = "register" /\ \A v \in Wdevs : v # w => stage'[v] = stage[v]
  BY <1>1, <1>2 DEF TypesOK
<1>7. Starting' = {} /\ Active' = Active \cup {w} /\ w \notin Active
  BY <1>1, <1>5, <1>6 DEF Starting, Active
<1>8. \A m \in Keys : idr'[m] = IF m = key[w] THEN w ELSE idr[m]
  BY <1>1, <1>2 DEF TypesOK
<1>9. idr[key[w]] = Prealloced
  BY <1>1 DEF ListInv, ReservedOK
<1>10. ReservedOK'
  BY <1>5, <1>7, <1>8, DevicesAssumption DEF ListInv, ReservedOK
<1>14. \A v \in Active : v \in Wdevs /\ v # w /\ key[v] \in Keys /\ key[v] # key[w]
  BY <1>2, <1>5, <1>7, <1>9, DevicesAssumption DEF Active, TypesOK
<1>11. EntriesOK'
  <2>1. ASSUME NEW v \in Active PROVE stage'[v] = "running" /\ idr'[key'[v]] = v
    BY <1>1, <1>5, <1>6, <1>8, <1>14
  <2>2. idr'[key'[w]] = w
    BY <1>1, <1>2, <1>8
  <2> QED
    BY <1>6, <1>7, <2>1, <2>2 DEF EntriesOK
<1>12. CountOK'
  BY <1>1, <1>2, <1>9, EntrySet, DevicesAssumption DEF ListInv
<1>13. ApartOK'
  <2>1. \A v : NameOf(v)' = NameOf(v) /\ DisksOf(v)' = DisksOf(v) /\ key'[v] = key[v]
    BY <1>1 DEF NameOf, DisksOf
  <2>2. ASSUME NEW v \in Active PROVE NameOf(v) # NameOf(w)
    <3>1. v \in Listed
      BY <1>5, <1>14 DEF Listed
    <3> QED
      BY <1>1, <3>1
  <2>3. Active' \cup Starting' \subseteq Active \cup Starting
    BY <1>5, <1>7
  <2>4. \A u, v \in Active : u # v => key[u] # key[v] /\ NameOf(u) # NameOf(v)
    BY DEF ListInv, ApartOK
  <2>5. \A u, v \in Active \cup {w} : u # v => key[u] # key[v] /\ NameOf(u) # NameOf(v)
    BY <1>14, <2>2, <2>4
  <2>6. \A u, v \in Active \cup Starting : u # v => DisksOf(u) \cap DisksOf(v) = {}
    BY DEF ListInv, ApartOK
  <2>7. \A u, v \in Active' : u # v => key'[u] # key'[v] /\ NameOf(u)' # NameOf(v)'
    BY <1>7, <2>1, <2>5
  <2>8. \A u, v \in Active' \cup Starting' : u # v => DisksOf(u)' \cap DisksOf(v)' = {}
    BY <2>1, <2>3, <2>6
  <2> QED
    BY <2>7, <2>8 DEF ApartOK
<1> QED
  BY <1>10, <1>11, <1>12, <1>13 DEF ListInv

\* alldevs_del and alldevs_pop.
LEMMA ListDel ==
  ASSUME DevInv, ListInv, NEW w \in Active, idr[key[w]] = w, AlldevsDel(w), UNCHANGED <<key, req>>,
         NEW s \in {"flush", "unregister"}, stage' = [stage EXCEPT ![w] = s],
         \/ lock = w /\ lock' \in {w, NoDev} /\ s = "flush"
         \/ lock = "exit" /\ lock' = lock /\ s = "unregister"
  PROVE  ListInv'
<1>1. idr' = [idr EXCEPT ![key[w]] = NoDev] /\ nrDevs' = nrDevs - 1
  BY DEF AlldevsDel
<1>2. TypesOK /\ w \in Wdevs /\ key[w] \in Keys
  BY DEF DevInv, TypesOK, Active
<1>3. stage'[w] = s /\ \A v \in Wdevs : v # w => stage'[v] = stage[v]
  BY <1>2 DEF TypesOK
<1>4. Starting = {}
  BY DevicesAssumption DEF DevInv, LockOK, Starting, Active
<1>5. Starting' = {} /\ Active' = IF s = "flush" THEN Active \ {w} ELSE Active
  BY <1>2, <1>3, <1>4 DEF Starting, Active
<1>6. \A m \in Keys : idr'[m] = IF m = key[w] THEN NoDev ELSE idr[m]
  BY <1>1, <1>2 DEF TypesOK
<1>7. ReservedOK'
  BY <1>4, <1>5, <1>6, DevicesAssumption DEF ListInv, ReservedOK
<1>8. ASSUME NEW v \in Active, v # w
      PROVE  /\ stage'[v] # "unregister" => idr'[key'[v]] = v
             /\ stage'[v] = "unregister" => lock' = "exit" \/ (lock' = v /\ idr'[key'[v]] = v)
  <2>1. v \in Wdevs /\ key[v] \in Keys /\ stage'[v] = stage[v] /\ key'[v] = key[v]
    BY <1>2, <1>3, <1>8 DEF Active, TypesOK
  <2>2. idr[key[v]] = v => idr'[key[v]] = v
    BY <1>6, <1>8, <2>1
  <2>3. /\ stage[v] # "unregister" => idr[key[v]] = v
        /\ stage[v] = "unregister" => lock = "exit" \/ (lock = v /\ idr[key[v]] = v)
    BY <1>8 DEF ListInv, EntriesOK
  <2>4. stage[v] = "unregister" => lock' = "exit"
    BY <1>2, <1>8, <2>1, <2>3, DevicesAssumption
  <2> QED
    BY <2>1, <2>2, <2>3, <2>4
<1>9. EntriesOK'
  <2>1. CASE s = "flush"
    BY <1>5, <1>8, <2>1 DEF EntriesOK
  <2>2. CASE s = "unregister"
    BY <1>3, <1>5, <1>8, <2>2, DevicesAssumption DEF EntriesOK
  <2> QED
    BY <2>1, <2>2
<1>10. CountOK'
  BY <1>1, <1>2, EntrySet, DevicesAssumption DEF ListInv
<1>11. ApartOK'
  BY <1>5, ApartFewer DEF ListInv
<1> QED
  BY <1>7, <1>9, <1>10, <1>11 DEF ListInv

\* Every step keeps the list right.
LEMMA ListKept ==
  ASSUME DevInv, TodoOK, ModuleOK, ListInv, [Next]_vars
  PROVE  ListInv'
<1>0. TypesOK /\ req \in [Wdevs -> Requests \cup {NoDev}]
  BY DEF DevInv, TodoOK
<1>1. ASSUME NEW w \in Wdevs, NEW r \in Requests, StartDev(w, r) PROVE ListInv'
  BY <1>0, <1>1, ListStart
<1>2. ASSUME NEW w \in Wdevs, StartFailed(w) \/ AddDevClash(w) PROVE ListInv'
  BY <1>2, ListStartFailed
<1>3. ASSUME NEW w \in Wdevs, AddDev(w) PROVE ListInv'
  BY <1>3, ListAdd
<1>4. ASSUME UNCHANGED <<idr, nrDevs, key, req, lock, stage>> PROVE ListInv'
  <2>1. Active' = Active /\ Starting' = Starting
    BY <1>4 DEF Active, Starting
  <2> QED
    BY <1>4, <2>1, ListAlone
<1>5. ASSUME NEW w \in Wdevs, Prepare(w) \/ Release(w) \/ Register(w) PROVE ListInv'
  <2>1. UNCHANGED <<idr, nrDevs, key, req, lock, stage>>
    BY <1>5 DEF Prepare, Release, Register, dev
  <2> QED
    BY <1>4, <2>1
<1>6. ASSUME NEW w \in Wdevs, PrepareFail(w) \/ RegisterFail(w) \/ Flush(w)
    \/ Finalized(w) \/ WaitUsers(w)
      PROVE  ListInv'
  <2>1. /\ UNCHANGED <<idr, nrDevs, key, req, lock>>
        /\ \/ stage[w] = "prepare" /\ stage' = [stage EXCEPT ![w] = "unwind"]
           \/ stage[w] = "register" /\ stage' = [stage EXCEPT ![w] = "register_error"]
           \/ stage[w] = "flush" /\ stage' = [stage EXCEPT ![w] = "finalize"]
           \/ stage[w] = "finalize" /\ stage' = [stage EXCEPT ![w] = "wait_users"]
           \/ stage[w] = "wait_users" /\ stage' = [stage EXCEPT ![w] = "destroy"]
    BY <1>6 DEF PrepareFail, RegisterFail, Flush, Finalized, WaitUsers, dev
  <2>2. Active' = Active /\ Starting' = Starting
    BY <1>0, <2>1 DEF TypesOK, Active, Starting
  <2>3. \A v \in Active : stage'[v] = "unregister" <=> stage[v] = "unregister"
    BY <1>0, <2>1 DEF TypesOK, Active
  <2> QED
    BY <2>1, <2>2, <2>3, ListAlone
<1>7. ASSUME NEW w \in Wdevs, StartEnd(w) PROVE ListInv'
  <2>1. /\ UNCHANGED <<idr, nrDevs, key, req>> /\ lock' = NoDev /\ lock = w
        /\ stage[w] = "register" /\ stage' = [stage EXCEPT ![w] = "running"]
    BY <1>7 DEF StartEnd, dev, DevInv, LockOK
  <2>2. Active' = Active /\ Starting' = Starting
    BY <1>0, <2>1 DEF TypesOK, Active, Starting
  <2>3. \A v \in Active : stage'[v] = "running" /\ idr[key[v]] = v
    <3>1. lock # "exit"
      BY <2>1, DevicesAssumption
    <3>2. \A v \in Active : v # w => stage[v] = "running" /\ idr[key[v]] = v
      BY <2>1, <3>1, LockFacts
    <3>3. idr[key[w]] = w
      BY <2>1 DEF ListInv, EntriesOK, Active
    <3> QED
      BY <1>0, <2>1, <3>2, <3>3 DEF TypesOK, Active
  <2>4. EntriesOK'
    BY <2>1, <2>2, <2>3 DEF EntriesOK
  <2>5. ReservedOK' /\ CountOK'
    BY <2>1, <2>2 DEF ListInv, ReservedOK, CountOK, Entries
  <2>6. ApartOK'
    BY <2>1, <2>2, ApartFewer DEF ListInv
  <2> QED
    BY <2>4, <2>5, <2>6 DEF ListInv
<1>8. ASSUME NEW w \in Wdevs, NEW force \in BOOLEAN, StopDev(w, force) PROVE ListInv'
  <2>1. /\ UNCHANGED <<idr, nrDevs, key, req>> /\ lock = NoDev /\ lock' = w /\ w \in Listed
        /\ stage' = [stage EXCEPT ![w] = "unregister"]
    BY <1>8 DEF StopDev, dev
  <2>2. stage[w] = "running" /\ idr[key[w]] = w
    BY <2>1, DevicesAssumption DEF Listed, DevInv, ListedOK
  <2>3. Active' = Active /\ Starting' = Starting
    BY <1>0, <2>1, <2>2 DEF TypesOK, Active, Starting
  <2>4. \A v \in Active : v # w => stage'[v] = "running" /\ idr[key[v]] = v
    <3>1. lock # "exit" /\ lock \notin Wdevs
      BY <2>1, DevicesAssumption
    <3>2. \A v \in Active : stage[v] = "running" /\ idr[key[v]] = v
      BY <3>1, LockFacts DEF Active
    <3> QED
      BY <1>0, <2>1, <3>2 DEF TypesOK, Active
  <2>5. EntriesOK'
    BY <2>1, <2>2, <2>3, <2>4 DEF EntriesOK
  <2>6. ReservedOK' /\ CountOK'
    BY <2>1, <2>3 DEF ListInv, ReservedOK, CountOK, Entries
  <2>7. ApartOK'
    BY <2>1, <2>3, ApartFewer DEF ListInv
  <2> QED
    BY <2>5, <2>6, <2>7 DEF ListInv
<1>9. ASSUME NEW w \in Wdevs, Unregistered(w), lock = w PROVE ListInv'
  <2>1. /\ w \in Active /\ AlldevsDel(w) /\ UNCHANGED <<key, req>> /\ lock' = NoDev
        /\ stage' = [stage EXCEPT ![w] = "flush"] /\ stage[w] = "unregister"
    BY <1>9 DEF Unregistered, Active
  <2>2. idr[key[w]] = w
    BY <1>9, <2>1, DevicesAssumption DEF ListInv, EntriesOK
  <2> QED
    BY <1>9, <2>1, <2>2, ListDel
<1>10. ASSUME NEW w \in Wdevs, Unregistered(w), lock # w PROVE ListInv'
  <2>1. /\ w \in Active /\ UNCHANGED <<idr, nrDevs, key, req, lock>>
        /\ stage' = [stage EXCEPT ![w] = "flush"] /\ stage[w] = "unregister"
    BY <1>10 DEF Unregistered, Active
  <2>2. Active' = Active \ {w} /\ Starting' = Starting
    BY <1>0, <2>1 DEF TypesOK, Active, Starting
  <2>3. \A v \in Active : v # w => stage'[v] = stage[v]
    BY <1>0, <2>1 DEF TypesOK, Active
  <2>4. EntriesOK'
    BY <2>1, <2>2, <2>3 DEF ListInv, EntriesOK
  <2>5. ReservedOK' /\ CountOK'
    BY <2>1, <2>2 DEF ListInv, ReservedOK, CountOK, Entries
  <2>6. ApartOK'
    BY <2>1, <2>2, ApartFewer DEF ListInv
  <2> QED
    BY <2>4, <2>5, <2>6 DEF ListInv
<1>11. ASSUME NEW w \in Wdevs, RegisterFailed(w) PROVE ListInv'
  <2>1. /\ w \in Active /\ AlldevsDel(w) /\ UNCHANGED <<key, req, lock>>
        /\ stage' = [stage EXCEPT ![w] = "flush"] /\ stage[w] = "register_error"
    BY <1>11 DEF RegisterFailed, Active
  <2>2. lock = w /\ idr[key[w]] = w
    BY <2>1 DEF DevInv, LockOK, ListInv, EntriesOK
  <2> QED
    BY <2>1, <2>2, ListDel
<1>12. ASSUME NEW w \in Wdevs, AlldevsPop(w) PROVE ListInv'
  <2>1. /\ lock = "exit" /\ AlldevsDel(w) /\ UNCHANGED <<key, req, lock>> /\ w \in Listed
        /\ stage' = [stage EXCEPT ![w] = "unregister"]
    BY <1>12 DEF AlldevsPop
  <2>2. stage[w] = "running" /\ idr[key[w]] = w /\ w \in Active
    BY <2>1, DevicesAssumption DEF Listed, DevInv, ListedOK, Active
  <2> QED
    BY <2>1, <2>2, ListDel
<1>13. ASSUME NEW w \in Wdevs, Destroyed(w) PROVE ListInv'
  <2>1. /\ UNCHANGED <<idr, nrDevs>> /\ lock' = IF lock = w THEN NoDev ELSE lock
        /\ stage[w] = "destroy" /\ stage' = [stage EXCEPT ![w] = "free"]
        /\ key' = [key EXCEPT ![w] = 0] /\ req' = [req EXCEPT ![w] = NoDev]
    BY <1>13 DEF Destroyed, Free
  <2>2. Active' = Active /\ Starting' = Starting /\ w \notin Active \cup Starting
    BY <1>0, <2>1 DEF TypesOK, Active, Starting
  <2>3. \A v \in Active \cup Starting : stage'[v] = stage[v] /\ key'[v] = key[v] /\ req'[v] = req[v]
    <3>1. \A v \in Wdevs : v # w => stage'[v] = stage[v] /\ key'[v] = key[v] /\ req'[v] = req[v]
      BY <1>0, <2>1 DEF TypesOK
    <3> QED
      BY <2>2, <3>1 DEF Active, Starting
  <2>4. EntriesOK'
    BY <2>1, <2>2, <2>3, DevicesAssumption DEF ListInv, EntriesOK
  <2>5. ReservedOK'
    BY <2>1, <2>2, <2>3 DEF ListInv, ReservedOK
  <2>6. CountOK'
    BY <2>1 DEF ListInv, CountOK, Entries
  <2>7. ApartOK'
    BY <2>2, <2>3, ApartFewer DEF ListInv
  <2> QED
    BY <2>4, <2>5, <2>6, <2>7 DEF ListInv
<1>14. ASSUME Exit PROVE ListInv'
  <2>1. UNCHANGED <<idr, nrDevs, key, req, stage>> /\ lock = NoDev
    BY <1>14 DEF Exit, moduleUnchanged, dev
  <2>2. Active' = Active /\ Starting' = Starting
    BY <2>1 DEF Active, Starting
  <2>3. \A v \in Active : stage[v] = "running" /\ idr[key[v]] = v
    <3>1. lock # "exit" /\ lock \notin Wdevs
      BY <2>1, DevicesAssumption
    <3> QED
      BY <3>1, LockFacts DEF Active
  <2>4. EntriesOK'
    BY <2>1, <2>2, <2>3 DEF EntriesOK
  <2>5. ReservedOK' /\ CountOK'
    BY <2>1, <2>2 DEF ListInv, ReservedOK, CountOK, Entries
  <2>6. ApartOK'
    BY <2>1, <2>2, ApartFewer DEF ListInv
  <2> QED
    BY <2>4, <2>5, <2>6 DEF ListInv
<1>15. ASSUME ExitEnd PROVE ListInv'
  <2>1. UNCHANGED <<idr, nrDevs, key, req, stage>> /\ \A v \in Wdevs : stage[v] = "free"
    BY <1>15 DEF ExitEnd, moduleUnchanged, dev
  <2>2. Active' = Active /\ Starting' = Starting /\ Active = {}
    BY <2>1 DEF Active, Starting
  <2>3. EntriesOK'
    BY <2>2 DEF EntriesOK
  <2>4. ReservedOK' /\ CountOK'
    BY <2>1, <2>2 DEF ListInv, ReservedOK, CountOK, Entries
  <2>5. ApartOK'
    BY <2>1, <2>2, ApartFewer DEF ListInv
  <2> QED
    BY <2>3, <2>4, <2>5 DEF ListInv
<1>16. ASSUME Insmod \/ WalbInit \/ WalbInitFail \/ UNCHANGED vars
       PROVE  UNCHANGED <<idr, nrDevs, key, req, lock, stage>>
  BY <1>16 DEF Insmod, WalbInit, WalbInitFail, moduleUnchanged, vars, dev
<1>17. ASSUME NEW u \in Users, NEW w \in Wdevs, NEW d \in DiskParts, Open(u, w, d)
       PROVE  UNCHANGED <<idr, nrDevs, key, req, lock, stage>>
  BY <1>17 DEF Open, dev
<1>18. ASSUME NEW u \in Users, Close(u) \/ MakeRequest(u) \/ BioStep(u)
       PROVE  UNCHANGED <<idr, nrDevs, key, req, lock, stage>>
  BY <1>18 DEF Close, MakeRequest, BioStep, CountBio, EndBio, dev
<1> QED
  BY <1>1, <1>2, <1>3, <1>4, <1>5, <1>6, <1>7, <1>8, <1>9, <1>10, <1>11, <1>12, <1>13, <1>14,
     <1>15, <1>16, <1>17, <1>18, Zenon DEF Next, Step, DiskParts

\* Init has it right.
LEMMA InitList == Init => ListInv
<1> SUFFICES ASSUME Init PROVE ListInv
  OBVIOUS
<1>1. Active = {} /\ Starting = {}
  BY DEF Init, Active, Starting
<1>2. ReservedOK
  BY <1>1, DevicesAssumption DEF Init, ReservedOK
<1>3. Entries = {}
  BY DevicesAssumption DEF Init, Entries
<1>4. CountOK
  BY <1>3, FS_EmptySet DEF Init, CountOK
<1>5. EntriesOK /\ ApartOK
  BY <1>1 DEF EntriesOK, ApartOK
<1> QED
  BY <1>2, <1>4, <1>5 DEF ListInv

\* What get_wdev_list_range finds over all keys.
LEMMA ListFound ==
  ASSUME DevInv, ListInv, lock = NoDev
  PROVE  /\ \A w \in Active : stage[w] = "running" /\ idr[key[w]] = w
         /\ {k \in Keys : idr[k] # NoDev} = Entries
         /\ \A k \in Entries : idr[k] \in Wdevs /\ key[idr[k]] = k /\ stage[idr[k]] = "running"
<1>1. lock # "exit" /\ lock \notin Wdevs
  BY DevicesAssumption
<1>2. Starting = {} /\ \A w \in Active : stage[w] = "running" /\ idr[key[w]] = w
  BY <1>1, LockFacts DEF Starting, Active
<1>3. \A k \in Keys : idr[k] # NoDev <=> idr[k] \in Wdevs
  BY <1>2, DevicesAssumption DEF DevInv, TypesOK, ListInv, ReservedOK
<1>4. \A k \in Entries : idr[k] \in Wdevs /\ key[idr[k]] = k /\ stage[idr[k]] = "running"
  BY <1>1 DEF Entries, DevInv, ListedOK
<1> QED
  BY <1>2, <1>3, <1>4 DEF Entries

\* While nobody has the lock, a listing from the first minor is the devices that run, in order.
LEMMA ListIsExact ==
  ASSUME DevInv, ListInv, lock = NoDev
  PROVE  LET list == ListRange(NKeys, 0, NKeys)
         IN  /\ Len(list) = nrDevs
             /\ Range(list) = {w \in Wdevs : stage[w] = "running"}
             /\ \A j \in 1 .. Len(list) - 1 : key[list[j]] < key[list[j + 1]]
<1> DEFINE list == ListRange(NKeys, 0, NKeys)
<1>1. PICK S, n : S = Entries /\ n = Cardinality(Entries)
  OBVIOUS
<1>2. /\ IsFiniteSet(S) /\ n \in Nat /\ n <= NKeys /\ n = Cardinality(S) /\ S \subseteq Keys
  BY <1>1, EntriesFinite DEF Entries
<1>3. S \subseteq Nat /\ NKeys \in Nat \ {0} /\ \A k \in Keys : 0 <= k /\ k < NKeys
  BY <1>2, DevicesAssumption DEF Keys
<1> DEFINE F == {k \in Keys : 0 <= k /\ k < (IF 0 = NKeys THEN 0 + 1 ELSE NKeys) /\ idr[k] # NoDev}
<1>4. F = S
  <2>1. S = {k \in Keys : idr[k] # NoDev}
    BY <1>1, ListFound
  <2>2. (IF 0 = NKeys THEN 0 + 1 ELSE NKeys) = NKeys
    BY <1>3
  <2> QED
    BY <1>3, <2>1, <2>2
<1>5. list = [j \in 1 .. (IF NKeys < Cardinality(F) THEN NKeys ELSE Cardinality(F)) |-> idr[Nth(F, j)]]
  BY Zenon DEF ListRange
<1> HIDE DEF F, list
<1>6. (IF NKeys < Cardinality(F) THEN NKeys ELSE Cardinality(F)) = n
  BY <1>2, <1>3, <1>4
<1>7. PICK nth : nth = [j \in 1..n |-> Nth(S, j)]
  OBVIOUS
<1>8. Len(list) = n /\ DOMAIN list = 1..n /\ \A j \in 1..n : list[j] = idr[nth[j]]
  BY <1>2, <1>4, <1>5, <1>6, <1>7
<1>14. \A j \in 1..n : nth[j] \in S /\ Rank(S, nth[j]) = j - 1
  <2> TAKE j \in 1..n
  <2>1. \E k \in S : Rank(S, k) = j - 1
    BY <1>2, <1>3, RankExists
  <2>2. nth[j] = CHOOSE k \in S : Rank(S, k) = j - 1
    BY <1>7 DEF Nth, Rank
  <2> QED
    BY <2>1, <2>2
<1>9. \A k \in S : idr[k] \in Wdevs /\ key[idr[k]] = k /\ stage[idr[k]] = "running"
  BY <1>1, ListFound
<1>10. Range(list) \subseteq {w \in Wdevs : stage[w] = "running"}
  BY <1>14, <1>8, <1>9 DEF Range
<1>11. ASSUME NEW w \in Wdevs, stage[w] = "running" PROVE w \in Range(list)
  <2>1. idr[key[w]] = w
    BY <1>11, ListFound DEF Active
  <2>2. key[w] \in S
    BY <1>1, <2>1 DEF Entries, DevInv, TypesOK
  <2>3. PICK r : r = Rank(S, key[w])
    OBVIOUS
  <2>4. r \in 0..(n - 1)
    BY <1>2, <1>3, <2>2, <2>3, RankOrder
  <2>5. r + 1 \in 1..n /\ (r + 1) - 1 = r
    BY <1>2, <2>4
  <2>6. nth[r + 1] \in S /\ Rank(S, nth[r + 1]) = Rank(S, key[w])
    BY <1>14, <2>3, <2>5
  <2>7. nth[r + 1] = key[w]
    BY <1>2, <1>3, <2>2, <2>6, RankUnique
  <2> QED
    BY <1>8, <2>1, <2>5, <2>7 DEF Range
<1>12. ASSUME NEW j \in 1..(n - 1) PROVE key[list[j]] < key[list[j + 1]]
  <2>1. j \in 1..n /\ j + 1 \in 1..n /\ (j + 1) - 1 = j /\ j \in Nat
    BY <1>2
  <2>2. PICK a \in S, b \in S : a = nth[j] /\ b = nth[j + 1]
    BY <1>14, <2>1
  <2>3. Rank(S, a) = j - 1 /\ Rank(S, b) = j
    BY <1>14, <2>1, <2>2
  <2>4. a \in Nat /\ b \in Nat /\ a # b /\ ~(b < a)
    <3>1. a \in Nat /\ b \in Nat
      BY <1>3
    <3>2. a # b
      BY <2>1, <2>3
    <3>3. b < a => Rank(S, b) < Rank(S, a)
      BY <1>2, <1>3, RankOrder
    <3> QED
      BY <2>1, <2>3, <3>1, <3>2, <3>3
  <2>5. key[list[j]] = a /\ key[list[j + 1]] = b
    BY <1>8, <1>9, <2>1, <2>2
  <2> QED
    BY <2>4, <2>5
<1>13. Len(list) = nrDevs
  BY <1>1, <1>8 DEF ListInv, CountOK
<1> QED
  BY <1>8, <1>10, <1>11, <1>12, <1>13 DEF list

\* Starts, failed starts and stops leave a list that shows the running devices in the order of their
\* keys, and keep the keys, names and disks of the devices apart.
THEOREM ListExactThm == Spec => []ListExact
<1>1. DevInv /\ ListInv => ListExact
  <2> SUFFICES ASSUME DevInv, ListInv PROVE ListExact
    OBVIOUS
  <2>1. ListShowsRunning
    BY ListIsExact DEF ListShowsRunning
  <2>2. \A v, w \in Active : v # w => key[v] # key[w] /\ NameOf(v) # NameOf(w)
    BY DEF ListInv, ApartOK
  <2>3. \A v, w \in Active : v # w => DisksOf(v) \cap DisksOf(w) = {}
    BY DEF ListInv, ApartOK
  <2>4. \A w \in Wdevs : "disk" \in held[w] => w \in Active
    <3>1. \A w \in Wdevs : "disk" \in held[w] => stage[w] \in Stages \ NoDisks
      BY DEF DevInv, TypesOK, HeldOK, HeldAt, DiskParts
    <3> QED
      BY <3>1 DEF Stages, Active
  <2>5. \A w \in Listed : w \in Active
    BY DEF Listed, DevInv, ListedOK, Active
  <2>6. DisksDistinct
    BY <2>2, <2>3, <2>4, <2>5 DEF DisksDistinct, DisksOf
  <2> QED
    BY <2>1, <2>6 DEF ListExact
<1>2. BookInv /\ ListInv /\ [Next]_vars => BookInv' /\ ListInv'
  BY DevKept, ResourcesKept, ModuleKept, ListKept DEF BookInv
<1>3. BookInv => DevInv
  BY DEF BookInv
<1> QED
  BY <1>1, <1>2, <1>3, InitBook, InitList, PTL DEF Spec
=============================================================================
