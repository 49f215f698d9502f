---------------------------- MODULE LauncherProofs ----------------------------
(***************************************************************************)
(* Theorems about the launcher of the session, for every set of            *)
(* applications, every length of its list and of the stored one: why each  *)
(* item is there, what refresh() does to the list, and what is stored and  *)
(* copied of it.                                                           *)
(***************************************************************************)
EXTENDS LauncherModel, SelectionProofs

-----------------------------------------------------------------------------
(* Lists.                                                                  *)

\* No application has two items.
AppsOnce(list) ==
    \A i, j \in DOMAIN list : list[i].appId = list[j].appId => i = j

LEMMA ItemFields ==
    ASSUME NEW x \in Item
    PROVE  /\ x.appId \in AppIds
           /\ [x EXCEPT !.pinned = FALSE] \in Item
           /\ [x EXCEPT !.pinned = TRUE] \in Item
  BY DEF Item

LEMMA NewItemFields ==
    ASSUME NEW a \in AppIds
    PROVE  /\ NewItem(a) \in Item
           /\ NewItem(a).appId = a /\ ~NewItem(a).pinned /\ ~NewItem(a).running
           /\ ~NewItem(a).recent /\ ~NewItem(a).countVisible /\ ~NewItem(a).focused
  BY DEF Item, NewItem

LEMMA IdsOfList ==
    ASSUME NEW list \in Seq(Item)
    PROVE  /\ IdsOf(list) \in Seq(AppIds)
           /\ DOMAIN IdsOf(list) = DOMAIN list /\ DOMAIN list = 1..Len(list)
           /\ Len(IdsOf(list)) = Len(list) /\ Len(list) \in Nat
           /\ \A k \in DOMAIN list : list[k] \in Item /\ IdsOf(list)[k] = list[k].appId
           /\ AppsOnce(list) <=> NoneTwice(IdsOf(list))
<1>1. /\ DOMAIN list = 1..Len(list) /\ Len(list) \in Nat
      /\ \A k \in DOMAIN list : list[k] \in Item
  BY SequenceDomain
<1>2. \A k \in DOMAIN list : list[k].appId \in AppIds
  BY <1>1, ItemFields
<1>3. IdsOf(list) = [k \in 1..Len(list) |-> list[k].appId]
  BY <1>1 DEF IdsOf
<1>4. IdsOf(list) \in Seq(AppIds) /\ Len(IdsOf(list)) = Len(list)
  BY <1>1, <1>2, <1>3
<1>5. DOMAIN IdsOf(list) = DOMAIN list /\ \A k \in DOMAIN list : IdsOf(list)[k] = list[k].appId
  BY <1>1, <1>3
<1> QED
  BY <1>1, <1>4, <1>5 DEF AppsOnce, NoneTwice

\* The item of an application is found, and it is the only one.
LEMMA ItemFound ==
    ASSUME NEW list \in Seq(Item), AppsOnce(list), NEW a, Knows(list, a)
    PROVE  /\ FindApplication(list, a) \in DOMAIN list
           /\ list[FindApplication(list, a)].appId = a
           /\ \A k \in DOMAIN list : list[k].appId = a => k = FindApplication(list, a)
<1> DEFINE Found(i) == /\ list[i].appId = a
                       /\ \A j \in 1 .. i - 1 : list[j].appId # a
<1>1. DOMAIN list = 1..Len(list) /\ Len(list) \in Nat
  BY SequenceDomain
<1>2. PICK k \in DOMAIN list : list[k].appId = a
  BY DEF Knows
<1>3. Found(k)
  BY <1>1, <1>2 DEF AppsOnce
<1> QED
  BY <1>3 DEF FindApplication, AppsOnce

\* t is s without its f-th element: the k-th was at old[k], and the order stays.
Leaves(t, s, f, old) ==
    /\ \A k \in DOMAIN t : old[k] \in DOMAIN s /\ old[k] # f /\ t[k] = s[old[k]]
    /\ \A j, k \in DOMAIN t : j < k => old[j] < old[k]
    /\ \A k \in DOMAIN s : k # f => \E j \in DOMAIN t : old[j] = k

LEMMA OneLessLeaves ==
    ASSUME NEW A, NEW s \in Seq(A), NEW t \in Seq(A), NEW f \in DOMAIN s, OneLess(t, s, f)
    PROVE  \E old : Leaves(t, s, f, old)
<1> DEFINE old == [k \in DOMAIN t |-> IF k < f THEN k ELSE k + 1]
<1>1. /\ DOMAIN s = 1..Len(s) /\ Len(s) \in Nat /\ DOMAIN t = 1..Len(s) - 1 /\ f \in Nat
  BY SequenceDomain DEF OneLess
<1>2. ASSUME NEW k \in DOMAIN t
      PROVE  old[k] \in DOMAIN s /\ old[k] # f /\ t[k] = s[old[k]]
  BY <1>1 DEF OneLess
<1>3. \A j, k \in DOMAIN t : j < k => old[j] < old[k]
  BY <1>1
<1>4. ASSUME NEW k \in DOMAIN s, k # f PROVE \E j \in DOMAIN t : old[j] = k
  <2>1. CASE k < f
    <3>1. k \in DOMAIN t /\ old[k] = k
      BY <1>1, <2>1
    <3> QED
      BY <3>1
  <2>2. CASE k > f
    <3>1. k - 1 \in DOMAIN t /\ old[k - 1] = k
      BY <1>1, <2>2
    <3> QED
      BY <3>1
  <2> QED
    BY <1>1, <1>4, <2>1, <2>2
<1> HIDE DEF old
<1> QED
  BY <1>2, <1>3, <1>4 DEF Leaves

-----------------------------------------------------------------------------
(* The first loop of refresh(): what is not to stay is unpinned.           *)

UnpinnedOf(x, gone) == IF x.appId \in gone THEN [x EXCEPT !.pinned = FALSE] ELSE x

Stays(x, gone) == x.appId \notin gone \/ x.appId \in apps

\* The items of l are in the order of list.
InOrder(l, list) ==
    \A j, k \in DOMAIN l, m, n \in DOMAIN list :
        l[j].appId = list[m].appId /\ l[k].appId = list[n].appId /\ j < k => m < n

\* l is what is left of list when the applications in gone have been unpinned.
Clearing(l, list, gone) ==
    /\ l \in Seq(Item)
    /\ \A k \in DOMAIN l : \E m \in DOMAIN list : /\ Stays(list[m], gone)
                                                  /\ l[k] = UnpinnedOf(list[m], gone)
    /\ \A m \in DOMAIN list : Stays(list[m], gone) =>
          \E k \in DOMAIN l : l[k] = UnpinnedOf(list[m], gone)
    /\ InOrder(l, list)

LEMMA UnpinnedFields ==
    ASSUME NEW x \in Item, NEW gone
    PROVE  /\ UnpinnedOf(x, gone) \in Item
           /\ UnpinnedOf(x, gone).appId = x.appId
           /\ UnpinnedOf(x, gone).running = x.running
           /\ UnpinnedOf(x, gone).recent = x.recent
           /\ UnpinnedOf(x, gone).countVisible = x.countVisible
           /\ UnpinnedOf(x, gone).focused = x.focused
           /\ UnpinnedOf(x, gone).pinned = (x.pinned /\ x.appId \notin gone)
<1>1. CASE x.appId \in gone
  BY <1>1 DEF UnpinnedOf, Item
<1>2. CASE x.appId \notin gone
  BY <1>2 DEF UnpinnedOf, Item
<1> QED
  BY <1>1, <1>2

LEMMA ClearingOnce ==
    ASSUME NEW list \in Seq(Item), NEW l, NEW gone, Clearing(l, list, gone)
    PROVE  AppsOnce(l)
<1>1. /\ DOMAIN l = 1..Len(l) /\ Len(l) \in Nat
      /\ DOMAIN list = 1..Len(list) /\ \A m \in DOMAIN list : list[m] \in Item
  BY SequenceDomain DEF Clearing
<1>2. ASSUME NEW j \in DOMAIN l, NEW k \in DOMAIN l, l[j].appId = l[k].appId, j < k PROVE FALSE
  <2>1. PICK m \in DOMAIN list : l[j] = UnpinnedOf(list[m], gone)
    BY DEF Clearing
  <2>2. l[j].appId = list[m].appId
    BY <1>1, <2>1, UnpinnedFields
  <2>3. m < m
    BY <1>2, <2>2 DEF Clearing, InOrder
  <2> QED
    BY <1>1, <2>3
<1> QED
  BY <1>1, <1>2 DEF AppsOnce

LEMMA ClearingStarts ==
    ASSUME NEW list \in Seq(Item), AppsOnce(list)
    PROVE  Clearing(list, list, {})
<1>1. \A m \in DOMAIN list : Stays(list[m], {}) /\ UnpinnedOf(list[m], {}) = list[m]
  BY DEF Stays, UnpinnedOf
<1>2. InOrder(list, list)
  BY DEF AppsOnce, InOrder
<1> QED
  BY <1>1, <1>2 DEF Clearing

LEMMA UnpinClears ==
    ASSUME NEW list \in Seq(Item), NEW gone, NEW a,
           NEW l, Clearing(l, list, gone), NEW t, t = Unpin(l, a)
    PROVE  Clearing(t, list, gone \cup {a})
<1> DEFINE now == gone \cup {a}
<1>1. /\ l \in Seq(Item) /\ AppsOnce(l)
      /\ DOMAIN l = 1..Len(l) /\ Len(l) \in Nat
      /\ \A k \in DOMAIN l : l[k] \in Item
      /\ \A m \in DOMAIN list : list[m] \in Item
  BY ClearingOnce, SequenceDomain DEF Clearing
<1>2. \A k \in DOMAIN l : \E m \in DOMAIN list : Stays(list[m], gone) /\ l[k] = UnpinnedOf(list[m], gone)
  BY DEF Clearing
<1>3. \A m \in DOMAIN list : Stays(list[m], gone) =>
         \E k \in DOMAIN l : l[k] = UnpinnedOf(list[m], gone)
  BY DEF Clearing
<1>4. InOrder(l, list)
  BY DEF Clearing
<1>5. \A x \in Item : UnpinnedOf(x, gone).appId = x.appId
  BY UnpinnedFields
<1>6. \A x \in Item : x.appId # a =>
         UnpinnedOf(x, now) = UnpinnedOf(x, gone) /\ (Stays(x, now) <=> Stays(x, gone))
  BY DEF UnpinnedOf, Stays
<1>7. CASE ~Knows(l, a)
  <2>1. t = l
    BY <1>7 DEF Unpin
  <2>2. \A k \in DOMAIN l : l[k].appId # a
    BY <1>7 DEF Knows
  <2>3. ASSUME NEW k \in DOMAIN l
        PROVE  \E m \in DOMAIN list : Stays(list[m], now) /\ l[k] = UnpinnedOf(list[m], now)
    <3>1. PICK m \in DOMAIN list : Stays(list[m], gone) /\ l[k] = UnpinnedOf(list[m], gone)
      BY <1>2
    <3>2. list[m].appId # a
      BY <1>1, <1>5, <2>2, <3>1
    <3> QED
      BY <1>1, <1>6, <3>1, <3>2
  <2>4. ASSUME NEW m \in DOMAIN list, Stays(list[m], now)
        PROVE  \E k \in DOMAIN l : l[k] = UnpinnedOf(list[m], now)
    <3>1. Stays(list[m], gone)
      BY <2>4 DEF Stays
    <3>2. PICK k \in DOMAIN l : l[k] = UnpinnedOf(list[m], gone)
      BY <1>3, <3>1
    <3>3. list[m].appId # a
      BY <1>1, <1>5, <2>2, <3>2
    <3> QED
      BY <1>1, <1>6, <3>2, <3>3
  <2> QED
    BY <1>1, <1>4, <2>1, <2>3, <2>4 DEF Clearing
<1>8. CASE Knows(l, a) /\ a \in apps
  <2>1. PICK f : f = FindApplication(l, a)
    OBVIOUS
  <2>2. /\ f \in DOMAIN l /\ l[f].appId = a
        /\ \A k \in DOMAIN l : l[k].appId = a => k = f
    BY <1>1, <1>8, <2>1, ItemFound
  <2>3. t = [l EXCEPT ![f].pinned = FALSE]
    BY <1>8, <2>1 DEF Unpin
  <2>4. /\ DOMAIN t = DOMAIN l
        /\ \A k \in DOMAIN l : k # f => t[k] = l[k]
        /\ t[f] = [l[f] EXCEPT !.pinned = FALSE]
    BY <2>2, <2>3
  <2>5. \A k \in DOMAIN l : t[k] \in Item /\ t[k].appId = l[k].appId
    <3>1. t[f] \in Item /\ t[f].appId = l[f].appId
      BY <1>1, <2>2, <2>4 DEF Item
    <3> QED
      BY <1>1, <2>4, <3>1
  <2>6. t \in Seq(Item)
    <3>1. t = [k \in 1..Len(l) |-> t[k]]
      BY <1>1, <2>3
    <3> QED
      BY <1>1, <2>5, <3>1
  <2>7. \A x \in Item : Stays(x, now) <=> Stays(x, gone)
    BY <1>8 DEF Stays
  <2>8. ASSUME NEW k \in DOMAIN l, NEW m \in DOMAIN list, l[k] = UnpinnedOf(list[m], gone)
        PROVE  t[k] = UnpinnedOf(list[m], now)
    <3>1. list[m] \in Item /\ l[k].appId = list[m].appId
      BY <1>1, <1>5, <2>8
    <3>2. CASE k = f
      <4>1. list[m].appId = a
        BY <2>2, <3>1, <3>2
      <4>2. UnpinnedOf(list[m], now) = [list[m] EXCEPT !.pinned = FALSE]
        BY <4>1 DEF UnpinnedOf
      <4>3. [UnpinnedOf(list[m], gone) EXCEPT !.pinned = FALSE] = [list[m] EXCEPT !.pinned = FALSE]
        BY <3>1 DEF UnpinnedOf, Item
      <4> QED
        BY <2>4, <2>8, <3>2, <4>2, <4>3
    <3>3. CASE k # f
      <4>1. list[m].appId # a
        BY <2>2, <3>1, <3>3
      <4> QED
        BY <1>6, <2>4, <2>8, <3>1, <3>3, <4>1
    <3> QED
      BY <3>2, <3>3
  <2>9. ASSUME NEW k \in DOMAIN t
        PROVE  \E m \in DOMAIN list : Stays(list[m], now) /\ t[k] = UnpinnedOf(list[m], now)
    <3>1. PICK m \in DOMAIN list : Stays(list[m], gone) /\ l[k] = UnpinnedOf(list[m], gone)
      BY <1>2, <2>4
    <3> QED
      BY <1>1, <2>4, <2>7, <2>8, <3>1
  <2>10. ASSUME NEW m \in DOMAIN list, Stays(list[m], now)
         PROVE  \E k \in DOMAIN t : t[k] = UnpinnedOf(list[m], now)
    <3>1. PICK k \in DOMAIN l : l[k] = UnpinnedOf(list[m], gone)
      BY <1>1, <1>3, <2>7, <2>10
    <3> QED
      BY <2>4, <2>8, <3>1
  <2>11. InOrder(t, list)
    BY <1>4, <2>4, <2>5 DEF InOrder
  <2> QED
    BY <2>6, <2>9, <2>10, <2>11 DEF Clearing
<1>9. CASE Knows(l, a) /\ a \notin apps
  <2>1. PICK f : f = FindApplication(l, a)
    OBVIOUS
  <2>2. /\ f \in DOMAIN l /\ l[f].appId = a
        /\ \A k \in DOMAIN l : l[k].appId = a => k = f
    BY <1>1, <1>9, <2>1, ItemFound
  <2>3. t \in Seq(Item) /\ OneLess(t, l, f)
    <3>1. t = RemoveAt(l, f) /\ f \in 1..Len(l)
      BY <1>1, <1>9, <2>1, <2>2 DEF Unpin
    <3> QED
      BY <1>1, <3>1, ElementRemoved
  <2>4. PICK old : Leaves(t, l, f, old)
    BY <1>1, <2>2, <2>3, OneLessLeaves
  <2>5. \A k \in DOMAIN t : t[k].appId # a
    BY <2>2, <2>4 DEF Leaves
  <2>6. ASSUME NEW k \in DOMAIN t
        PROVE  \E m \in DOMAIN list : Stays(list[m], now) /\ t[k] = UnpinnedOf(list[m], now)
    <3>1. old[k] \in DOMAIN l /\ t[k] = l[old[k]]
      BY <2>4 DEF Leaves
    <3>2. PICK m \in DOMAIN list : Stays(list[m], gone) /\ t[k] = UnpinnedOf(list[m], gone)
      BY <1>2, <3>1
    <3>3. list[m].appId # a
      BY <1>1, <1>5, <2>5, <3>2
    <3> QED
      BY <1>1, <1>6, <3>2, <3>3
  <2>7. ASSUME NEW m \in DOMAIN list, Stays(list[m], now)
        PROVE  \E k \in DOMAIN t : t[k] = UnpinnedOf(list[m], now)
    <3>1. list[m].appId # a /\ Stays(list[m], gone)
      BY <1>9, <2>7 DEF Stays
    <3>2. PICK k \in DOMAIN l : l[k] = UnpinnedOf(list[m], gone)
      BY <1>3, <3>1
    <3>3. k # f
      BY <1>1, <1>5, <2>2, <3>1, <3>2
    <3>4. PICK j \in DOMAIN t : old[j] = k
      BY <2>4, <3>3 DEF Leaves
    <3>5. t[j] = UnpinnedOf(list[m], gone)
      BY <2>4, <3>2, <3>4 DEF Leaves
    <3> QED
      BY <1>1, <1>6, <3>1, <3>5
  <2>8. ASSUME NEW j \in DOMAIN t, NEW k \in DOMAIN t, NEW m \in DOMAIN list, NEW n \in DOMAIN list,
               t[j].appId = list[m].appId, t[k].appId = list[n].appId, j < k
        PROVE  m < n
    <3>1. /\ l[old[j]].appId = list[m].appId /\ l[old[k]].appId = list[n].appId
          /\ old[j] < old[k] /\ old[j] \in DOMAIN l /\ old[k] \in DOMAIN l
      BY <2>4, <2>8 DEF Leaves
    <3> QED
      BY <1>4, <3>1 DEF InOrder
  <2> QED
    BY <2>3, <2>6, <2>7, <2>8 DEF Clearing, InOrder
<1> QED
  BY <1>7, <1>8, <1>9

\* f[i] is what is left after the first i applications in u have been unpinned.
ClearLoop(f, list, u) ==
    f = [i \in 0..Len(u) |-> IF i = 0 THEN list ELSE Unpin(f[i - 1], u[i])]

LEMMA ClearLoopExists ==
    ASSUME NEW list \in Seq(Item), AppsOnce(list), NEW u \in Seq(AppIds)
    PROVE  \E f : ClearLoop(f, list, u)
<1> DEFINE S == {l \in Seq(Item) : AppsOnce(l)}
           n == Len(u)
           step == [i \in 1..n |-> [l \in S |-> Unpin(l, u[i])]]
<1>1. n \in Nat
  BY SequenceDomain
<1>2. ASSUME NEW l \in S, NEW a PROVE Unpin(l, a) \in S
  <2>1. PICK t : t = Unpin(l, a)
    OBVIOUS
  <2>2. Clearing(l, l, {})
    BY ClearingStarts
  <2>3. Clearing(t, l, {} \cup {a})
    BY <2>1, <2>2, UnpinClears
  <2>4. t \in Seq(Item) /\ AppsOnce(t)
    BY <2>3, ClearingOnce DEF Clearing
  <2> QED
    BY <2>1, <2>4
<1>3. list \in S
  OBVIOUS
<1> HIDE DEF S, n
<1>4. step \in [1..n -> [S -> S]]
  BY <1>2
<1>5. PICK f : Runs(f, S, n, list, step)
  <2> HIDE DEF step
  <2> QED
    BY <1>1, <1>3, <1>4, LoopRuns
<1>6. /\ f \in [0..n -> S]
      /\ \A i \in 0..n : f[i] = IF i = 0 THEN list ELSE step[i][f[i - 1]]
  <2> HIDE DEF step
  <2> QED
    BY <1>5 DEF Runs
<1>7. ASSUME NEW i \in 0..n PROVE f[i] = IF i = 0 THEN list ELSE Unpin(f[i - 1], u[i])
  <2>1. CASE i = 0
    BY <1>6, <2>1
  <2>2. CASE i # 0
    <3>1. i \in 1..n /\ i - 1 \in 0..n
      BY <1>1, <2>2
    <3>2. f[i - 1] \in S
      BY <1>6, <3>1
    <3>3. step[i][f[i - 1]] = Unpin(f[i - 1], u[i])
      BY <3>1, <3>2
    <3> HIDE DEF step
    <3> QED
      BY <1>6, <2>2, <3>3
  <2> QED
    BY <2>1, <2>2
<1> HIDE DEF step
<1>8. f = [i \in 0..n |-> IF i = 0 THEN list ELSE Unpin(f[i - 1], u[i])]
  BY <1>6, <1>7
<1> QED
  BY <1>8 DEF ClearLoop, n

\* Who loses the pin in a refresh with the stored list ids.
Lost(ids) == AppIds \ (installed \cap ToSet(ids))

\* What the whole loop leaves: the items of applications that run or are stored
\* and installed, in their order; those not stored or not installed have lost the pin.
LEMMA ClearedLeaves ==
    ASSUME NEW list \in Seq(Item), AppsOnce(list), NEW ids
    PROVE  Clearing(Cleared(list, ids), list, Lost(ids))
<1> DEFINE K == {i \in DOMAIN list : list[i].appId \notin installed \cap ToSet(ids)}
           gone == AppIds \ (installed \cap ToSet(ids))
           first(u, i) == {u[j] : j \in 1..i}
<1>1. PICK u : u = Unwanted(list, ids)
  OBVIOUS
<1>2. u = Kept(IdsOf(list), K)
  BY <1>1 DEF Unwanted
<1>3. /\ IdsOf(list) \in Seq(AppIds) /\ DOMAIN IdsOf(list) = DOMAIN list
      /\ \A k \in DOMAIN list : list[k] \in Item /\ IdsOf(list)[k] = list[k].appId
  BY IdsOfList
<1>4. u \in Seq(AppIds) /\ \E g : Selects(g, u, IdsOf(list), K)
  <2> HIDE DEF K
  <2> QED
    BY <1>2, <1>3, KeptSelects
<1>5. DOMAIN u = 1..Len(u) /\ Len(u) \in Nat
  BY <1>4, SequenceDomain
<1>6. ASSUME NEW m \in DOMAIN list
      PROVE  list[m].appId \in first(u, Len(u)) <=> list[m].appId \in gone
  <2>1. PICK g : Selects(g, u, IdsOf(list), K)
    BY <1>4
  <2>2. ASSUME list[m].appId \in gone PROVE list[m].appId \in first(u, Len(u))
    <3>1. m \in DOMAIN IdsOf(list) \cap K
      BY <1>3, <2>2
    <3>2. PICK k \in DOMAIN u : g[k] = m
      BY <2>1, <3>1 DEF Selects
    <3>3. u[k] = list[m].appId
      BY <1>3, <2>1, <3>2 DEF Selects
    <3> QED
      BY <1>5, <3>2, <3>3
  <2>3. ASSUME NEW k \in 1..Len(u), u[k] = list[m].appId PROVE list[m].appId \in gone
    <3>1. g[k] \in DOMAIN list /\ g[k] \in K /\ u[k] = list[g[k]].appId
      BY <1>3, <1>5, <2>1 DEF Selects
    <3>2. list[m].appId \in AppIds
      BY <1>3, ItemFields
    <3> QED
      BY <2>3, <3>1, <3>2
  <2> QED
    BY <2>2, <2>3
<1> HIDE DEF K, gone
<1> DEFINE left == CHOOSE f : ClearLoop(f, list, u)
<1>7. Cleared(list, ids) = left[Len(u)]
  BY <1>1, Zenon DEF Cleared, ClearLoop
<1>8. ClearLoop(left, list, u)
  BY <1>4, ClearLoopExists
<1> HIDE DEF left, first
<1>9. \A i \in 0..Len(u) : left[i] = IF i = 0 THEN list ELSE Unpin(left[i - 1], u[i])
  BY <1>8 DEF ClearLoop
<1> DEFINE T == {i \in Nat : i <= Len(u) => Clearing(left[i], list, first(u, i))}
<1>10. 0 \in T
  <2>1. left[0] = list /\ first(u, 0) = {}
    BY <1>5, <1>9 DEF first
  <2> QED
    BY <2>1, ClearingStarts
<1>11. ASSUME NEW i \in T PROVE i + 1 \in T
  <2> SUFFICES ASSUME i + 1 <= Len(u) PROVE Clearing(left[i + 1], list, first(u, i + 1))
    OBVIOUS
  <2>1. i \in Nat /\ Clearing(left[i], list, first(u, i))
    BY <1>5
  <2>2. PICK t : t = left[i + 1]
    OBVIOUS
  <2>3. t = Unpin(left[i], u[i + 1])
    <3>1. i + 1 \in 0..Len(u) /\ i + 1 # 0 /\ (i + 1) - 1 = i
      BY <1>5, <2>1
    <3> QED
      BY <1>9, <2>2, <3>1
  <2>4. first(u, i + 1) = first(u, i) \cup {u[i + 1]}
    BY <2>1 DEF first
  <2>5. Clearing(t, list, first(u, i) \cup {u[i + 1]})
    BY <2>1, <2>3, UnpinClears
  <2> QED
    BY <2>2, <2>4, <2>5
<1>12. T \subseteq Nat
  OBVIOUS
<1> HIDE DEF T
<1>13. Len(u) \in T
  BY <1>5, <1>10, <1>11, <1>12, SetInduction
<1>14. PICK l : l = Cleared(list, ids)
  OBVIOUS
<1>15. Clearing(l, list, first(u, Len(u)))
  BY <1>5, <1>7, <1>13, <1>14 DEF T
<1>16. \A m \in DOMAIN list : /\ UnpinnedOf(list[m], first(u, Len(u))) = UnpinnedOf(list[m], gone)
                              /\ Stays(list[m], first(u, Len(u))) <=> Stays(list[m], gone)
  BY <1>6 DEF UnpinnedOf, Stays
<1>17. Clearing(l, list, gone)
  BY <1>15, <1>16 DEF Clearing
<1> QED
  BY <1>14, <1>17 DEF gone, Lost

-----------------------------------------------------------------------------
(* The second loop of refresh(): what is stored is put in front.           *)

Fresh(a) == [NewItem(a) EXCEPT !.pinned = TRUE]

\* An item of l is one that the first loop left, or a new one in the first n.
FromItems(l, n, c) ==
    \A k \in DOMAIN l :
        \/ \E m \in DOMAIN c : l[k] = c[m]
        \/ /\ k <= n /\ l[k] = Fresh(l[k].appId)
           /\ l[k].appId \in installed /\ ~Knows(c, l[k].appId)

\* The first n items of l are those of the first i stored applications, in order;
\* who has an item or can get one is among them.
FrontIs(l, n, c, ids, i) ==
    /\ \A k \in 1..n : \E j \in 1..i : l[k].appId = ids[j]
    /\ \A j \in 1..i : ids[j] \in installed \/ Knows(c, ids[j]) =>
          \E k \in 1..n : l[k].appId = ids[j]
    /\ \A k, m \in 1..n, p, q \in 1..i :
          l[k].appId = ids[p] /\ l[m].appId = ids[q] /\ k < m => p < q

\* Behind them are others, as the first loop left them.
BackIs(l, n, c, ids, i) ==
    /\ \A k \in n + 1..Len(l), j \in 1..i : l[k].appId # ids[j]
    /\ \A k, m \in n + 1..Len(l), p, q \in DOMAIN c :
          l[k].appId = c[p].appId /\ l[m].appId = c[q].appId /\ k < m => p < q

\* l is what c has become after i rounds, of which n have put an item in front.
Fronted(l, n, c, ids, i) ==
    /\ l \in Seq(Item) /\ n \in 0..Len(l) /\ AppsOnce(l)
    /\ FromItems(l, n, c)
    /\ \A m \in DOMAIN c : \E k \in DOMAIN l : l[k] = c[m]
    /\ FrontIs(l, n, c, ids, i)
    /\ BackIs(l, n, c, ids, i)

LEMMA FreshFields ==
    ASSUME NEW a \in AppIds
    PROVE  /\ Fresh(a) \in Item
           /\ Fresh(a).appId = a /\ Fresh(a).pinned /\ ~Fresh(a).running
           /\ ~Fresh(a).recent /\ ~Fresh(a).countVisible /\ ~Fresh(a).focused
  BY DEF Item, NewItem, Fresh

\* t has its (n+1)-th item from somewhere and the others from l, in their order.
Placed(t, l, n, old) ==
    /\ t \in Seq(Item) /\ n + 1 \in DOMAIN t
    /\ \A k \in 1..n : t[k] = l[k]
    /\ \A k \in n + 2..Len(t) : /\ old[k] \in n + 1..Len(l) /\ t[k] = l[old[k]]
                                /\ t[k].appId # t[n + 1].appId
    /\ \A j, k \in n + 2..Len(t) : j < k => old[j] < old[k]
    /\ \A o \in n + 1..Len(l) : \/ l[o] = t[n + 1]
                                \/ \E k \in n + 2..Len(t) : old[k] = o

LEMMA PlacedFronts ==
    ASSUME NEW c \in Seq(Item), NEW ids \in Seq(AppIds), NoneTwice(ids),
           NEW i \in Nat, i + 1 <= Len(ids), NEW l, NEW n, Fronted(l, n, c, ids, i),
           NEW t, NEW old, Placed(t, l, n, old), t[n + 1].appId = ids[i + 1],
           \/ \E m \in DOMAIN c : t[n + 1] = c[m]
           \/ /\ t[n + 1] = Fresh(ids[i + 1])
              /\ ids[i + 1] \in installed /\ ~Knows(c, ids[i + 1])
    PROVE  Fronted(t, n + 1, c, ids, i + 1)
<1> DEFINE a == ids[i + 1]
<1>1. /\ l \in Seq(Item) /\ DOMAIN l = 1..Len(l) /\ Len(l) \in Nat
      /\ t \in Seq(Item) /\ DOMAIN t = 1..Len(t) /\ Len(t) \in Nat
      /\ n \in Nat /\ n <= Len(l) /\ n + 1 <= Len(t)
      /\ DOMAIN ids = 1..Len(ids) /\ Len(ids) \in Nat
  <2>1. l \in Seq(Item) /\ t \in Seq(Item) /\ n \in 0..Len(l) /\ n + 1 \in DOMAIN t
    BY DEF Fronted, Placed
  <2> QED
    BY <2>1, SequenceDomain
<1>2. \A j \in 1..i : ids[j] # a
  BY <1>1 DEF NoneTwice
<1>3. /\ \A k \in 1..n : t[k] = l[k]
      /\ \A k \in n + 2..Len(t) : /\ old[k] \in n + 1..Len(l) /\ t[k] = l[old[k]]
                                  /\ t[k].appId # a
      /\ \A j, k \in n + 2..Len(t) : j < k => old[j] < old[k]
      /\ \A o \in n + 1..Len(l) : \/ l[o] = t[n + 1]
                                  \/ \E k \in n + 2..Len(t) : old[k] = o
  BY DEF Placed
<1>4. /\ AppsOnce(l) /\ FromItems(l, n, c)
      /\ \A m \in DOMAIN c : \E k \in DOMAIN l : l[k] = c[m]
  BY DEF Fronted
<1>5. /\ \A k \in 1..n : \E j \in 1..i : l[k].appId = ids[j]
      /\ \A j \in 1..i : ids[j] \in installed \/ Knows(c, ids[j]) =>
            \E k \in 1..n : l[k].appId = ids[j]
      /\ \A k, m \in 1..n, p, q \in 1..i :
            l[k].appId = ids[p] /\ l[m].appId = ids[q] /\ k < m => p < q
  BY DEF Fronted, FrontIs
<1>6. /\ \A k \in n + 1..Len(l), j \in 1..i : l[k].appId # ids[j]
      /\ \A k, m \in n + 1..Len(l), p, q \in DOMAIN c :
            l[k].appId = c[p].appId /\ l[m].appId = c[q].appId /\ k < m => p < q
  BY DEF Fronted, BackIs
<1>7. \A k \in DOMAIN t : k \in 1..n \/ k = n + 1 \/ k \in n + 2..Len(t)
  BY <1>1
<1>8. \A k \in 1..n : t[k].appId # a
  <2> SUFFICES ASSUME NEW k \in 1..n PROVE t[k].appId # a
    OBVIOUS
  <2>1. PICK j \in 1..i : l[k].appId = ids[j]
    BY <1>5
  <2> QED
    BY <1>2, <1>3, <2>1
<1>9. AppsOnce(t)
  <2>1. ASSUME NEW j \in DOMAIN t, NEW k \in DOMAIN t, t[j].appId = t[k].appId, j < k PROVE FALSE
    <3>1. CASE j = n + 1
      <4>1. k \in n + 2..Len(t)
        BY <1>1, <2>1, <3>1
      <4> QED
        BY <1>3, <2>1, <3>1, <4>1
    <3>2. CASE k = n + 1
      <4>1. j \in 1..n
        BY <1>1, <2>1, <3>2
      <4> QED
        BY <1>8, <2>1, <3>2, <4>1
    <3>3. CASE j \in 1..n /\ k \in 1..n
      <4>1. j \in DOMAIN l /\ k \in DOMAIN l /\ l[j].appId = l[k].appId
        BY <1>1, <1>3, <2>1, <3>3
      <4>2. j = k
        BY <1>4, <4>1 DEF AppsOnce
      <4> QED
        BY <1>1, <2>1, <3>3, <4>2
    <3>4. CASE j \in 1..n /\ k \in n + 2..Len(t)
      <4>1. /\ j \in DOMAIN l /\ old[k] \in DOMAIN l /\ l[j].appId = l[old[k]].appId
            /\ j # old[k]
        BY <1>1, <1>3, <2>1, <3>4
      <4> QED
        BY <1>4, <4>1 DEF AppsOnce
    <3>5. CASE j \in n + 2..Len(t) /\ k \in n + 2..Len(t)
      <4>1. /\ old[j] \in n + 1..Len(l) /\ old[k] \in n + 1..Len(l)
            /\ t[j] = l[old[j]] /\ t[k] = l[old[k]] /\ old[j] < old[k]
        BY <1>3, <2>1, <3>5
      <4>2. old[j] \in DOMAIN l /\ old[k] \in DOMAIN l /\ old[j] # old[k]
        BY <1>1, <4>1
      <4> QED
        BY <1>4, <2>1, <4>1, <4>2 DEF AppsOnce
    <3>6. CASE j \in n + 2..Len(t) /\ k \in 1..n
      BY <1>1, <2>1, <3>6
    <3> QED
      BY <1>7, <3>1, <3>2, <3>3, <3>4, <3>5, <3>6
  <2>2. \A j, k \in DOMAIN t : j < k \/ k < j \/ j = k
    BY <1>1
  <2>3. ASSUME NEW j \in DOMAIN t, NEW k \in DOMAIN t, t[j].appId = t[k].appId PROVE j = k
    BY <2>1, <2>2, <2>3
  <2> QED
    BY <2>3 DEF AppsOnce
<1>10. FromItems(t, n + 1, c)
  <2> SUFFICES ASSUME NEW k \in DOMAIN t
               PROVE  \/ \E m \in DOMAIN c : t[k] = c[m]
                      \/ /\ k <= n + 1 /\ t[k] = Fresh(t[k].appId)
                         /\ t[k].appId \in installed /\ ~Knows(c, t[k].appId)
    BY DEF FromItems
  <2>1. CASE k = n + 1
    BY <1>1, <2>1
  <2>2. CASE k \in 1..n
    <3>1. k \in DOMAIN l /\ t[k] = l[k] /\ k <= n + 1
      BY <1>1, <1>3, <2>2
    <3> QED
      BY <1>4, <3>1 DEF FromItems
  <2>3. CASE k \in n + 2..Len(t)
    <3>1. old[k] \in DOMAIN l /\ t[k] = l[old[k]] /\ ~(old[k] <= n)
      BY <1>1, <1>3, <2>3
    <3> QED
      BY <1>4, <3>1 DEF FromItems
  <2> QED
    BY <1>7, <2>1, <2>2, <2>3
<1>11. ASSUME NEW m \in DOMAIN c PROVE \E k \in DOMAIN t : t[k] = c[m]
  <2>1. PICK o \in DOMAIN l : l[o] = c[m]
    BY <1>4
  <2>2. CASE o \in 1..n
    <3>1. o \in DOMAIN t /\ t[o] = c[m]
      BY <1>1, <1>3, <2>1, <2>2
    <3> QED
      BY <3>1
  <2>3. CASE o \in n + 1..Len(l)
    <3>1. CASE l[o] = t[n + 1]
      BY <1>1, <2>1, <3>1
    <3>2. CASE \E k \in n + 2..Len(t) : old[k] = o
      <4>1. PICK k \in n + 2..Len(t) : old[k] = o
        BY <3>2
      <4>2. k \in DOMAIN t
        BY <1>1
      <4> QED
        BY <1>3, <2>1, <4>1, <4>2
    <3> QED
      BY <1>3, <2>3, <3>1, <3>2
  <2> QED
    BY <1>1, <2>1, <2>2, <2>3
<1>12. FrontIs(t, n + 1, c, ids, i + 1)
  <2>1. \A k \in 1..n + 1 : k \in 1..n \/ k = n + 1
    BY <1>1
  <2>2. \A j \in 1..i + 1 : j \in 1..i \/ j = i + 1
    OBVIOUS
  <2>3. ASSUME NEW k \in 1..n + 1 PROVE \E j \in 1..i + 1 : t[k].appId = ids[j]
    <3>1. CASE k \in 1..n
      <4>1. PICK j \in 1..i : l[k].appId = ids[j]
        BY <1>5, <3>1
      <4>2. j \in 1..i + 1 /\ t[k] = l[k]
        BY <1>3, <3>1
      <4> QED
        BY <4>1, <4>2
    <3>2. CASE k = n + 1
      BY <3>2
    <3> QED
      BY <2>1, <3>1, <3>2
  <2>4. ASSUME NEW j \in 1..i + 1, ids[j] \in installed \/ Knows(c, ids[j])
        PROVE  \E k \in 1..n + 1 : t[k].appId = ids[j]
    <3>1. CASE j \in 1..i
      <4>1. PICK k \in 1..n : l[k].appId = ids[j]
        BY <1>5, <2>4, <3>1
      <4>2. k \in 1..n + 1 /\ t[k].appId = ids[j]
        BY <1>1, <1>3, <4>1
      <4> QED
        BY <4>2
    <3>2. CASE j = i + 1
      <4>1. n + 1 \in 1..n + 1
        BY <1>1
      <4> QED
        BY <3>2, <4>1
    <3> QED
      BY <2>2, <3>1, <3>2
  <2>5. ASSUME NEW k \in 1..n + 1, NEW m \in 1..n + 1, NEW p \in 1..i + 1, NEW q \in 1..i + 1,
               t[k].appId = ids[p], t[m].appId = ids[q], k < m
        PROVE  p < q
    <3>1. k \in 1..n
      BY <1>1, <2>5
    <3>2. p \in 1..i
      BY <1>8, <2>2, <2>5, <3>1
    <3>3. CASE m = n + 1
      <4>1. q = i + 1
        BY <1>2, <2>2, <2>5, <3>3
      <4> QED
        BY <3>2, <4>1
    <3>4. CASE m \in 1..n
      <4>1. q \in 1..i
        BY <1>8, <2>2, <2>5, <3>4
      <4>2. l[k].appId = ids[p] /\ l[m].appId = ids[q]
        BY <1>3, <2>5, <3>1, <3>4
      <4> QED
        BY <1>5, <2>5, <3>1, <3>2, <3>4, <4>1, <4>2
    <3> QED
      BY <2>1, <3>3, <3>4
  <2> QED
    BY <2>3, <2>4, <2>5 DEF FrontIs
<1>13. BackIs(t, n + 1, c, ids, i + 1)
  <2>1. (n + 1) + 1 = n + 2
    BY <1>1
  <2>2. ASSUME NEW k \in n + 2..Len(t), NEW j \in 1..i + 1 PROVE t[k].appId # ids[j]
    <3>1. CASE j = i + 1
      BY <1>3, <3>1
    <3>2. CASE j \in 1..i
      <4>1. old[k] \in n + 1..Len(l) /\ t[k] = l[old[k]]
        BY <1>3
      <4> QED
        BY <1>6, <3>2, <4>1
    <3> QED
      BY <3>1, <3>2
  <2>3. ASSUME NEW k \in n + 2..Len(t), NEW m \in n + 2..Len(t), NEW p \in DOMAIN c, NEW q \in DOMAIN c,
               t[k].appId = c[p].appId, t[m].appId = c[q].appId, k < m
        PROVE  p < q
    <3>1. /\ old[k] \in n + 1..Len(l) /\ old[m] \in n + 1..Len(l) /\ old[k] < old[m]
          /\ l[old[k]].appId = c[p].appId /\ l[old[m]].appId = c[q].appId
      BY <1>3, <2>3
    <3> QED
      BY <1>6, <3>1
  <2> QED
    BY <2>1, <2>2, <2>3 DEF BackIs
<1>14. n + 1 \in 0..Len(t)
  BY <1>1
<1> QED
  BY <1>1, <1>9, <1>10, <1>11, <1>12, <1>13, <1>14 DEF Fronted

\* An item that is there, behind the first n, is pulled to the front.
LEMMA PulledPlaces ==
    ASSUME NEW l \in Seq(Item), AppsOnce(l), NEW n \in Nat, NEW f \in n + 1..Len(l),
           NEW t, t = MoveItem(l, f, n + 1)
    PROVE  (\E old : Placed(t, l, n, old)) /\ t[n + 1] = l[f]
<1> DEFINE old == [k \in 1..Len(l) |-> IF k <= f THEN k - 1 ELSE k]
<1>1. /\ DOMAIN l = 1..Len(l) /\ Len(l) \in Nat /\ f \in 1..Len(l) /\ n + 1 \in 1..f
      /\ f \in Nat
  BY SequenceDomain
<1>2. t \in Seq(Item) /\ Pulled(t, l, f, n + 1)
  <2>1. t = InsertAt(RemoveAt(l, f), n + 1, l[f])
    BY DEF MoveItem
  <2> QED
    BY <1>1, <2>1, ElementPulled
<1>3. Len(t) = Len(l) /\ DOMAIN t = 1..Len(l)
  BY <1>2, SequenceDomain DEF Pulled
<1>4. \A m \in 1..Len(l) :
         t[m] = IF m < n + 1 THEN l[m] ELSE IF m = n + 1 THEN l[f]
                ELSE IF m <= f THEN l[m - 1] ELSE l[m]
  BY <1>2 DEF Pulled
<1>5. t[n + 1] = l[f] /\ n + 1 \in DOMAIN t
  BY <1>1, <1>3, <1>4
<1>6. \A k \in 1..n : t[k] = l[k]
  BY <1>1, <1>4
<1>7. ASSUME NEW k \in n + 2..Len(t)
      PROVE  /\ old[k] \in n + 1..Len(l) /\ t[k] = l[old[k]]
             /\ t[k].appId # t[n + 1].appId
  <2>1. old[k] \in n + 1..Len(l) /\ old[k] # f
    BY <1>1, <1>3
  <2>2. t[k] = l[old[k]]
    BY <1>1, <1>3, <1>4
  <2>3. old[k] \in DOMAIN l /\ f \in DOMAIN l
    BY <1>1, <2>1
  <2> HIDE DEF old
  <2> QED
    BY <1>5, <2>1, <2>2, <2>3 DEF AppsOnce
<1>8. \A j, k \in n + 2..Len(t) : j < k => old[j] < old[k]
  BY <1>1, <1>3
<1>9. ASSUME NEW o \in n + 1..Len(l)
      PROVE  l[o] = t[n + 1] \/ \E k \in n + 2..Len(t) : old[k] = o
  <2>1. CASE o = f
    BY <1>5, <2>1
  <2>2. CASE o < f
    <3>1. o + 1 \in n + 2..Len(t) /\ old[o + 1] = o
      BY <1>1, <1>3, <2>2
    <3> QED
      BY <3>1
  <2>3. CASE o > f
    <3>1. o \in n + 2..Len(t) /\ old[o] = o
      BY <1>1, <1>3, <2>3
    <3> QED
      BY <3>1
  <2> QED
    BY <1>1, <2>1, <2>2, <2>3
<1> HIDE DEF old
<1>10. Placed(t, l, n, old)
  BY <1>2, <1>5, <1>6, <1>7, <1>8, <1>9 DEF Placed
<1> QED
  BY <1>5, <1>10

\* A new item is put behind the first n.
LEMMA InsertedPlaces ==
    ASSUME NEW l \in Seq(Item), NEW n \in 0..Len(l), NEW x \in Item, ~Knows(l, x.appId),
           NEW t, t = InsertAt(l, n + 1, x)
    PROVE  (\E old : Placed(t, l, n, old)) /\ t[n + 1] = x
<1> DEFINE old == [k \in 1..Len(l) + 1 |-> k - 1]
<1>1. DOMAIN l = 1..Len(l) /\ Len(l) \in Nat /\ n \in Nat /\ n + 1 \in 1..Len(l) + 1
  BY SequenceDomain
<1>2. t \in Seq(Item) /\ OneMore(t, l, n + 1, x)
  BY <1>1, ElementInserted
<1>3. Len(t) = Len(l) + 1 /\ DOMAIN t = 1..Len(l) + 1
  BY <1>2, SequenceDomain DEF OneMore
<1>4. \A m \in 1..Len(l) + 1 :
         t[m] = IF m < n + 1 THEN l[m] ELSE IF m = n + 1 THEN x ELSE l[m - 1]
  BY <1>2 DEF OneMore
<1>5. t[n + 1] = x /\ n + 1 \in DOMAIN t
  BY <1>1, <1>3, <1>4
<1>6. \A k \in 1..n : t[k] = l[k]
  BY <1>1, <1>4
<1>7. ASSUME NEW k \in n + 2..Len(t)
      PROVE  /\ old[k] \in n + 1..Len(l) /\ t[k] = l[old[k]]
             /\ t[k].appId # t[n + 1].appId
  <2>1. old[k] \in n + 1..Len(l)
    BY <1>1, <1>3
  <2>2. t[k] = l[old[k]]
    BY <1>1, <1>3, <1>4
  <2>3. old[k] \in DOMAIN l
    BY <1>1, <2>1
  <2> HIDE DEF old
  <2> QED
    BY <1>5, <2>1, <2>2, <2>3 DEF Knows
<1>8. \A j, k \in n + 2..Len(t) : j < k => old[j] < old[k]
  BY <1>1, <1>3
<1>9. ASSUME NEW o \in n + 1..Len(l) PROVE \E k \in n + 2..Len(t) : old[k] = o
  <2>1. o + 1 \in n + 2..Len(t) /\ old[o + 1] = o
    BY <1>1, <1>3
  <2> QED
    BY <2>1
<1> HIDE DEF old
<1>10. Placed(t, l, n, old)
  BY <1>2, <1>5, <1>6, <1>7, <1>8, <1>9 DEF Placed
<1> QED
  BY <1>5, <1>10

\* One round of the loop.
LEMMA PlaceEntryFronts ==
    ASSUME NEW c \in Seq(Item), NEW ids \in Seq(AppIds), NoneTwice(ids),
           NEW i \in Nat, i + 1 <= Len(ids),
           NEW d \in [list : Seq(Item), added : Nat], Fronted(d.list, d.added, c, ids, i),
           NEW e, e = PlaceEntry(d, ids[i + 1])
    PROVE  /\ e \in [list : Seq(Item), added : Nat]
           /\ Fronted(e.list, e.added, c, ids, i + 1)
<1>1. PICK l, n, a : l = d.list /\ n = d.added /\ a = ids[i + 1]
  OBVIOUS
<1>2. /\ l \in Seq(Item) /\ DOMAIN l = 1..Len(l) /\ Len(l) \in Nat
      /\ n \in 0..Len(l) /\ n \in Nat /\ AppsOnce(l) /\ FromItems(l, n, c)
      /\ \A m \in DOMAIN c : \E k \in DOMAIN l : l[k] = c[m]
      /\ FrontIs(l, n, c, ids, i) /\ BackIs(l, n, c, ids, i)
      /\ DOMAIN ids = 1..Len(ids) /\ Len(ids) \in Nat /\ a \in AppIds
  BY <1>1, SequenceDomain DEF Fronted
<1>3. \A j \in 1..i : ids[j] # a
  BY <1>1, <1>2 DEF NoneTwice
<1>4. Fronted(l, n, c, ids, i)
  BY <1>1
<1>5. CASE Knows(l, a)
  <2>1. PICK f : f = FindApplication(l, a)
    OBVIOUS
  <2>2. f \in DOMAIN l /\ l[f].appId = a
    BY <1>2, <1>5, <2>1, ItemFound
  <2>3. f \notin 1..n
    BY <1>3, <2>2, <1>2 DEF FrontIs
  <2>4. f \in n + 1..Len(l) /\ ~(f <= n)
    BY <1>2, <2>2, <2>3
  <2>5. \E m \in DOMAIN c : l[f] = c[m]
    BY <1>2, <2>2, <2>4 DEF FromItems
  <2>6. PICK t : t = MoveItem(l, f, n + 1)
    OBVIOUS
  <2>7. e = [list |-> t, added |-> n + 1]
    BY <1>1, <1>5, <2>1, <2>6 DEF PlaceEntry
  <2>8. (\E old : Placed(t, l, n, old)) /\ t[n + 1] = l[f]
    BY <1>2, <2>4, <2>6, PulledPlaces
  <2>9. PICK old : Placed(t, l, n, old)
    BY <2>8
  <2>10. Fronted(t, n + 1, c, ids, i + 1)
    BY <1>1, <1>4, <2>2, <2>5, <2>8, <2>9, PlacedFronts
  <2>11. t \in Seq(Item) /\ n + 1 \in Nat
    BY <1>2, <2>9 DEF Placed
  <2> QED
    BY <2>7, <2>10, <2>11
<1>6. CASE ~Knows(l, a) /\ a \in installed
  <2>1. PICK t : t = InsertAt(l, n + 1, Fresh(a))
    OBVIOUS
  <2>2. e = [list |-> t, added |-> n + 1]
    BY <1>1, <1>6, <2>1 DEF PlaceEntry, Fresh
  <2>3. Fresh(a) \in Item /\ Fresh(a).appId = a
    BY <1>2, FreshFields
  <2>4. (\E old : Placed(t, l, n, old)) /\ t[n + 1] = Fresh(a)
    BY <1>2, <1>6, <2>1, <2>3, InsertedPlaces
  <2>5. PICK old : Placed(t, l, n, old)
    BY <2>4
  <2>6. ~Knows(c, a)
    BY <1>2, <1>6 DEF Knows
  <2>7. Fronted(t, n + 1, c, ids, i + 1)
    BY <1>1, <1>4, <1>6, <2>3, <2>4, <2>5, <2>6, PlacedFronts
  <2>8. t \in Seq(Item) /\ n + 1 \in Nat
    BY <1>2, <2>5 DEF Placed
  <2> QED
    BY <2>2, <2>7, <2>8
<1>7. CASE ~Knows(l, a) /\ a \notin installed
  <2>1. e = d
    BY <1>1, <1>7 DEF PlaceEntry
  <2>2. ~Knows(c, a)
    BY <1>2, <1>7 DEF Knows
  <2>3. \A j \in 1..i + 1 : j \in 1..i \/ j = i + 1
    OBVIOUS
  <2>4. \A k \in DOMAIN l : l[k].appId # ids[i + 1]
    BY <1>1, <1>7 DEF Knows
  <2>5. FrontIs(l, n, c, ids, i + 1)
    <3>1. ASSUME NEW k \in 1..n PROVE \E j \in 1..i + 1 : l[k].appId = ids[j]
      <4>1. PICK j \in 1..i : l[k].appId = ids[j]
        BY <1>2 DEF FrontIs
      <4> QED
        BY <4>1
    <3>2. ASSUME NEW j \in 1..i + 1, ids[j] \in installed \/ Knows(c, ids[j])
          PROVE  \E k \in 1..n : l[k].appId = ids[j]
      <4>1. j \in 1..i
        BY <1>1, <1>7, <2>2, <2>3, <3>2
      <4> QED
        BY <1>2, <3>2, <4>1 DEF FrontIs
    <3>3. ASSUME NEW k \in 1..n, NEW m \in 1..n, NEW p \in 1..i + 1, NEW q \in 1..i + 1,
                 l[k].appId = ids[p], l[m].appId = ids[q], k < m
          PROVE  p < q
      <4>1. k \in DOMAIN l /\ m \in DOMAIN l
        BY <1>2
      <4>2. p \in 1..i /\ q \in 1..i
        BY <2>3, <2>4, <3>3, <4>1
      <4> QED
        BY <1>2, <3>3, <4>2 DEF FrontIs
    <3> QED
      BY <3>1, <3>2, <3>3 DEF FrontIs
  <2>6. BackIs(l, n, c, ids, i + 1)
    <3>1. \A k \in n + 1..Len(l) : k \in DOMAIN l
      BY <1>2
    <3>2. \A k \in n + 1..Len(l), j \in 1..i + 1 : l[k].appId # ids[j]
      BY <1>2, <2>3, <2>4, <3>1 DEF BackIs
    <3> QED
      BY <1>2, <3>2 DEF BackIs
  <2> QED
    BY <1>1, <1>2, <2>1, <2>5, <2>6 DEF Fronted
<1> QED
  BY <1>5, <1>6, <1>7

\* f[i] is the list after i rounds, and how many of them have put an item in front.
PlaceLoop(f, c, ids) ==
    f = [i \in 0..Len(ids) |-> IF i = 0 THEN [list |-> c, added |-> 0]
                               ELSE PlaceEntry(f[i - 1], ids[i])]

LEMMA FrontedStarts ==
    ASSUME NEW c \in Seq(Item), AppsOnce(c), NEW ids
    PROVE  Fronted(c, 0, c, ids, 0)
<1>1. DOMAIN c = 1..Len(c) /\ Len(c) \in Nat
  BY SequenceDomain
<1>2. FromItems(c, 0, c) /\ FrontIs(c, 0, c, ids, 0)
  BY DEF FromItems, FrontIs
<1>3. BackIs(c, 0, c, ids, 0)
  BY <1>1 DEF BackIs, AppsOnce
<1> QED
  BY <1>1, <1>2, <1>3 DEF Fronted

LEMMA PlaceLoopExists ==
    ASSUME NEW c \in Seq(Item), AppsOnce(c), NEW ids \in Seq(AppIds), NoneTwice(ids)
    PROVE  \E f : PlaceLoop(f, c, ids)
<1> DEFINE S == [list : Seq(Item), added : Nat]
           n == Len(ids)
           ok(d, i) == Fronted(d.list, d.added, c, ids, i)
           round(d, i) == IF ok(d, i - 1) THEN PlaceEntry(d, ids[i]) ELSE d
           step == [i \in 1..n |-> [d \in S |-> round(d, i)]]
           start == [list |-> c, added |-> 0]
<1>1. n \in Nat
  BY SequenceDomain
<1>2. start \in S /\ ok(start, 0)
  BY FrontedStarts
<1>3. ASSUME NEW d \in S, NEW i \in Nat, i + 1 <= n, ok(d, i)
      PROVE  PlaceEntry(d, ids[i + 1]) \in S /\ ok(PlaceEntry(d, ids[i + 1]), i + 1)
  BY <1>3, PlaceEntryFronts
<1> HIDE DEF S, n, ok, start
<1>4. ASSUME NEW i \in 1..n, NEW d \in S PROVE round(d, i) \in S
  <2>1. i - 1 \in Nat /\ (i - 1) + 1 = i /\ (i - 1) + 1 <= n
    BY <1>1
  <2> QED
    BY <1>3, <2>1
<1> HIDE DEF round
<1>5. step \in [1..n -> [S -> S]]
  BY <1>4
<1>6. \A i \in 1..n, d \in S : step[i][d] = round(d, i)
  OBVIOUS
<1> HIDE DEF step
<1>7. PICK f : Runs(f, S, n, start, step)
  BY <1>1, <1>2, <1>5, LoopRuns
<1>8. /\ f \in [0..n -> S]
      /\ \A i \in 0..n : f[i] = IF i = 0 THEN start ELSE step[i][f[i - 1]]
  BY <1>7 DEF Runs
<1>9. ASSUME NEW i \in Nat, i + 1 <= n PROVE f[i + 1] = round(f[i], i + 1) /\ f[i] \in S
  <2>1. i + 1 \in 0..n /\ i + 1 \in 1..n /\ i + 1 # 0 /\ (i + 1) - 1 = i /\ i \in 0..n
    BY <1>1, <1>9
  <2> QED
    BY <1>6, <1>8, <2>1
<1> DEFINE T == {i \in Nat : i <= n => ok(f[i], i)}
<1>10. 0 \in T
  BY <1>1, <1>2, <1>8
<1>11. ASSUME NEW i \in T PROVE i + 1 \in T
  <2> SUFFICES ASSUME i + 1 <= n PROVE ok(f[i + 1], i + 1)
    OBVIOUS
  <2>1. i \in Nat /\ ok(f[i], i) /\ (i + 1) - 1 = i
    BY <1>1
  <2>2. f[i + 1] = PlaceEntry(f[i], ids[i + 1]) /\ f[i] \in S
    BY <1>9, <2>1 DEF round
  <2> QED
    BY <1>3, <2>1, <2>2
<1>12. T \subseteq Nat
  OBVIOUS
<1> HIDE DEF T
<1>13. T = Nat
  BY <1>10, <1>11, <1>12, SetInduction
<1>14. ASSUME NEW i \in 0..n PROVE f[i] = IF i = 0 THEN start ELSE PlaceEntry(f[i - 1], ids[i])
  <2>1. CASE i = 0
    BY <1>1, <1>8, <2>1
  <2>2. CASE i # 0
    <3>1. PICK j \in Nat : j = i - 1
      BY <1>1, <2>2
    <3>2. j + 1 = i /\ j + 1 <= n /\ j <= n /\ (j + 1) - 1 = j
      BY <1>1, <3>1
    <3>3. ok(f[j], j)
      BY <1>13, <3>2 DEF T
    <3>4. f[j + 1] = PlaceEntry(f[j], ids[j + 1])
      BY <1>9, <3>2, <3>3 DEF round
    <3> QED
      BY <2>2, <3>1, <3>2, <3>4
  <2> QED
    BY <2>1, <2>2
<1>15. f = [i \in 0..n |-> IF i = 0 THEN start ELSE PlaceEntry(f[i - 1], ids[i])]
  BY <1>8, <1>14
<1> QED
  BY <1>15 DEF PlaceLoop, n, start

\* What refresh() makes of a list.
LEMMA RefreshedFronts ==
    ASSUME NEW list \in Seq(Item), AppsOnce(list), NEW ids \in Seq(AppIds), NoneTwice(ids),
           NEW c, c = Cleared(list, ids), NEW r, r = Refreshed(list, ids)
    PROVE  /\ Clearing(c, list, Lost(ids))
           /\ c \in Seq(Item) /\ AppsOnce(c)
           /\ \E n : Fronted(r, n, c, ids, Len(ids))
<1>1. Clearing(c, list, Lost(ids))
  BY ClearedLeaves
<1>2. c \in Seq(Item) /\ AppsOnce(c)
  BY <1>1, ClearingOnce DEF Clearing
<1> DEFINE n == Len(ids)
           start == [list |-> c, added |-> 0]
           placed == CHOOSE f : PlaceLoop(f, c, ids)
           ok(d, i) == Fronted(d.list, d.added, c, ids, i)
           S == [list : Seq(Item), added : Nat]
           T == {i \in Nat : i <= n => placed[i] \in S /\ ok(placed[i], i)}
<1>3. n \in Nat
  BY SequenceDomain
<1>4. r = placed[n].list
  BY Zenon DEF Refreshed, PlaceLoop
<1>5. PlaceLoop(placed, c, ids)
  BY <1>2, PlaceLoopExists
<1>6. start \in S /\ ok(start, 0)
  BY <1>2, FrontedStarts
<1>7. ASSUME NEW d \in S, NEW i \in Nat, i + 1 <= n, ok(d, i)
      PROVE  PlaceEntry(d, ids[i + 1]) \in S /\ ok(PlaceEntry(d, ids[i + 1]), i + 1)
  BY <1>2, <1>7, PlaceEntryFronts
<1> HIDE DEF placed
<1>8. \A i \in 0..n : placed[i] = IF i = 0 THEN start ELSE PlaceEntry(placed[i - 1], ids[i])
  BY <1>5 DEF PlaceLoop
<1> HIDE DEF ok, S, start, n
<1>9. 0 \in T
  BY <1>3, <1>6, <1>8
<1>10. ASSUME NEW i \in T PROVE i + 1 \in T
  <2> SUFFICES ASSUME i + 1 <= n PROVE placed[i + 1] \in S /\ ok(placed[i + 1], i + 1)
    OBVIOUS
  <2>1. i \in Nat /\ placed[i] \in S /\ ok(placed[i], i)
    BY <1>3
  <2>2. i + 1 \in 0..n /\ i + 1 # 0 /\ (i + 1) - 1 = i
    BY <1>3, <2>1
  <2>3. placed[i + 1] = PlaceEntry(placed[i], ids[i + 1])
    BY <1>8, <2>2
  <2> QED
    BY <1>7, <2>1, <2>3
<1>11. T \subseteq Nat
  OBVIOUS
<1> HIDE DEF T
<1>12. n \in T
  BY <1>3, <1>9, <1>10, <1>11, SetInduction
<1>13. Fronted(r, placed[n].added, c, ids, n)
  BY <1>3, <1>4, <1>12 DEF T, ok
<1> QED
  BY <1>1, <1>2, <1>13 DEF n

-----------------------------------------------------------------------------
(* Why items are there.                                                    *)

\* recent() outlives the application only behind a pin, so what hides an emblem
\* may take it for running.
ItemHolds(x, running, focused) ==
    /\ x.running => x.appId \in running
    /\ x.pinned \/ x.appId \in running \/ x.countVisible
    /\ x.recent /\ ~x.pinned => x.appId \in running
    /\ x.focused => x.appId = focused

\* A list that is right when these applications run and that one is focused.
GoodList(list, running, focused) ==
    /\ list \in Seq(Item) /\ AppsOnce(list)
    /\ \A k \in DOMAIN list : ItemHolds(list[k], running, focused)
    /\ \A a \in running \ {Dash} :
          \E k \in DOMAIN list : list[k].appId = a /\ list[k].running /\ list[k].recent

LEMMA EmptyIsGood == <<>> \in Seq(Item) /\ AppsOnce(<<>>) /\ GoodList(<<>>, {}, NoApp)
  BY DEF GoodList, AppsOnce

\* The items of r are new, or those of list that stay, without the pin of those in gone.
ItemsFrom(r, list, gone) ==
    /\ r \in Seq(Item) /\ AppsOnce(r)
    /\ \A k \in DOMAIN r :
          \/ \E m \in DOMAIN list : Stays(list[m], gone) /\ r[k] = UnpinnedOf(list[m], gone)
          \/ r[k] = Fresh(r[k].appId)
    /\ \A m \in DOMAIN list : Stays(list[m], gone) =>
          \E k \in DOMAIN r : r[k] = UnpinnedOf(list[m], gone)

LEMMA RefreshedItems ==
    ASSUME NEW list \in Seq(Item), AppsOnce(list), NEW ids \in Seq(AppIds), NoneTwice(ids),
           NEW r, r = Refreshed(list, ids)
    PROVE  ItemsFrom(r, list, Lost(ids))
<1>0. PICK gone : gone = Lost(ids)
  OBVIOUS
<1>1. PICK c : c = Cleared(list, ids)
  OBVIOUS
<1>2. Clearing(c, list, gone) /\ \E n : Fronted(r, n, c, ids, Len(ids))
  BY <1>0, <1>1, RefreshedFronts
<1>3. PICK n : Fronted(r, n, c, ids, Len(ids))
  BY <1>2
<1>4. /\ r \in Seq(Item) /\ AppsOnce(r) /\ FromItems(r, n, c)
      /\ \A m \in DOMAIN c : \E k \in DOMAIN r : r[k] = c[m]
  BY <1>3 DEF Fronted
<1>5. ASSUME NEW k \in DOMAIN r
      PROVE  \/ \E m \in DOMAIN list : Stays(list[m], gone) /\ r[k] = UnpinnedOf(list[m], gone)
             \/ r[k] = Fresh(r[k].appId)
  <2>1. CASE \E m \in DOMAIN c : r[k] = c[m]
    BY <1>2, <2>1 DEF Clearing
  <2>2. CASE r[k] = Fresh(r[k].appId)
    BY <2>2
  <2> QED
    BY <1>4, <2>1, <2>2 DEF FromItems
<1>6. ASSUME NEW m \in DOMAIN list, Stays(list[m], gone)
      PROVE  \E k \in DOMAIN r : r[k] = UnpinnedOf(list[m], gone)
  <2>1. PICK j \in DOMAIN c : c[j] = UnpinnedOf(list[m], gone)
    BY <1>2, <1>6 DEF Clearing
  <2>2. PICK k \in DOMAIN r : r[k] = c[j]
    BY <1>4
  <2> QED
    BY <2>1, <2>2
<1> QED
  BY <1>0, <1>4, <1>5, <1>6 DEF ItemsFrom

LEMMA UnpinnedHolds ==
    ASSUME NEW x \in Item, NEW gone, Stays(x, gone), NEW F, ItemHolds(x, apps, F)
    PROVE  ItemHolds(UnpinnedOf(x, gone), apps, F)
<1>1. CASE x.appId \in gone
  BY <1>1, UnpinnedFields DEF ItemHolds, Stays
<1>2. CASE x.appId \notin gone
  BY <1>2 DEF UnpinnedOf
<1> QED
  BY <1>1, <1>2

LEMMA FreshHolds ==
    ASSUME NEW a \in AppIds, NEW R, NEW F
    PROVE  ItemHolds(Fresh(a), R, F)
  BY FreshFields DEF ItemHolds

LEMMA RefreshedGood ==
    ASSUME NEW list, NEW F, GoodList(list, apps, F), NEW ids \in Seq(AppIds), NoneTwice(ids),
           NEW r, r = Refreshed(list, ids)
    PROVE  GoodList(r, apps, F)
<1>1. PICK gone : gone = Lost(ids)
  OBVIOUS
<1>2. list \in Seq(Item) /\ AppsOnce(list) /\ \A m \in DOMAIN list : list[m] \in Item
  BY SequenceDomain DEF GoodList
<1>3. /\ r \in Seq(Item) /\ AppsOnce(r)
      /\ \A k \in DOMAIN r :
            \/ \E m \in DOMAIN list : Stays(list[m], gone) /\ r[k] = UnpinnedOf(list[m], gone)
            \/ r[k] = Fresh(r[k].appId)
      /\ \A m \in DOMAIN list : Stays(list[m], gone) =>
            \E k \in DOMAIN r : r[k] = UnpinnedOf(list[m], gone)
  <2>1. ItemsFrom(r, list, gone)
    BY <1>1, <1>2, RefreshedItems
  <2> QED
    BY <2>1 DEF ItemsFrom
<1>4. \A k \in DOMAIN r : r[k].appId \in AppIds
  BY <1>3, SequenceDomain, ItemFields
<1>5. ASSUME NEW k \in DOMAIN r PROVE ItemHolds(r[k], apps, F)
  <2>1. CASE \E m \in DOMAIN list : Stays(list[m], gone) /\ r[k] = UnpinnedOf(list[m], gone)
    BY <1>2, <2>1, UnpinnedHolds DEF GoodList
  <2>2. CASE r[k] = Fresh(r[k].appId)
    <3>1. PICK a \in AppIds : a = r[k].appId
      BY <1>4
    <3> QED
      BY <2>2, <3>1, FreshHolds
  <2> QED
    BY <1>3, <2>1, <2>2
<1>6. ASSUME NEW a \in apps \ {Dash}
      PROVE  \E k \in DOMAIN r : r[k].appId = a /\ r[k].running /\ r[k].recent
  <2>1. PICK m \in DOMAIN list : list[m].appId = a /\ list[m].running /\ list[m].recent
    BY DEF GoodList
  <2>2. PICK k \in DOMAIN r : r[k] = UnpinnedOf(list[m], gone)
    BY <1>3, <2>1 DEF Stays
  <2> QED
    BY <1>2, <2>1, <2>2, UnpinnedFields
<1> QED
  BY <1>3, <1>5, <1>6 DEF GoodList

\* What a start makes of nothing.
LEMMA StartedGood ==
    ASSUME NEW ids \in Seq(AppIds), NoneTwice(ids), NEW r, r = Refreshed(<<>>, ids)
    PROVE  GoodList(r, {}, NoApp)
<1>1. PICK gone : gone = Lost(ids)
  OBVIOUS
<1>2. PICK list : list = <<>>
  OBVIOUS
<1>3. list \in Seq(Item) /\ AppsOnce(list) /\ DOMAIN list = {}
  BY <1>2, EmptyIsGood
<1>4. /\ r \in Seq(Item) /\ AppsOnce(r)
      /\ \A k \in DOMAIN r :
            \/ \E m \in DOMAIN list : Stays(list[m], gone) /\ r[k] = UnpinnedOf(list[m], gone)
            \/ r[k] = Fresh(r[k].appId)
  <2>1. ItemsFrom(r, list, gone)
    BY <1>1, <1>2, <1>3, RefreshedItems
  <2> QED
    BY <2>1 DEF ItemsFrom
<1>5. ASSUME NEW k \in DOMAIN r PROVE ItemHolds(r[k], {}, NoApp)
  <2>1. PICK a \in AppIds : a = r[k].appId
    BY <1>4, SequenceDomain, ItemFields
  <2> QED
    BY <1>3, <1>4, <2>1, FreshHolds
<1> QED
  BY <1>4, <1>5 DEF GoodList

-----------------------------------------------------------------------------
(* What is stored.                                                         *)

LEMMA StoredIds ==
    ASSUME NEW list \in Seq(Entries)
    PROVE  /\ StoredApplications(list) \in Seq(AppIds)
           /\ \E g : /\ g \in [DOMAIN StoredApplications(list) -> DOMAIN list]
                     /\ \A k \in DOMAIN StoredApplications(list) :
                           /\ list[g[k]].form # "other"
                           /\ StoredApplications(list)[k] = list[g[k]].app
                     /\ \A j, k \in DOMAIN StoredApplications(list) : j < k => g[j] < g[k]
<1> DEFINE K == {i \in DOMAIN list : list[i].form # "other"}
           s == [i \in DOMAIN list |-> list[i].app]
<1>1. DOMAIN list = 1..Len(list) /\ Len(list) \in Nat /\ \A i \in DOMAIN list : list[i] \in Entries
  BY SequenceDomain
<1>2. s \in Seq(AppIds) /\ DOMAIN s = DOMAIN list /\ \A i \in DOMAIN list : s[i] = list[i].app
  BY <1>1 DEF Entries
<1>3. PICK r : r = StoredApplications(list)
  OBVIOUS
<1>4. r = Kept(s, K)
  BY <1>3 DEF StoredApplications
<1>5. \A i \in K : i \in DOMAIN list /\ list[i].form # "other"
  OBVIOUS
<1> HIDE DEF s, K
<1>6. r \in Seq(AppIds) /\ \E g : Selects(g, r, s, K)
  BY <1>2, <1>4, KeptSelects
<1>7. PICK g : Selects(g, r, s, K)
  BY <1>6
<1>8. /\ g \in [DOMAIN r -> DOMAIN s \cap K]
      /\ \A j, k \in DOMAIN r : j < k => g[j] < g[k]
      /\ \A k \in DOMAIN r : r[k] = s[g[k]]
  BY <1>7 DEF Selects
<1>9. g \in [DOMAIN r -> DOMAIN list]
  BY <1>2, <1>8
<1>10. \A k \in DOMAIN r : list[g[k]].form # "other" /\ r[k] = list[g[k]].app
  BY <1>2, <1>5, <1>8
<1> QED
  BY <1>3, <1>6, <1>8, <1>9, <1>10

\* What others write names no application twice.
LEMMA ForeignOnce ==
    ASSUME NEW list \in ForeignLists
    PROVE  list \in Seq(Entries) /\ NoneTwice(StoredApplications(list))
<1>1. list \in Seq(Entries)
  BY LauncherAssumption
<1>2. PICK r : r = StoredApplications(list)
  OBVIOUS
<1>3. /\ r \in Seq(AppIds)
      /\ \E g : /\ g \in [DOMAIN r -> DOMAIN list]
                /\ \A k \in DOMAIN r : list[g[k]].form # "other" /\ r[k] = list[g[k]].app
                /\ \A j, k \in DOMAIN r : j < k => g[j] < g[k]
  BY <1>1, <1>2, StoredIds
<1>4. PICK g : /\ g \in [DOMAIN r -> DOMAIN list]
               /\ \A k \in DOMAIN r : list[g[k]].form # "other" /\ r[k] = list[g[k]].app
               /\ \A j, k \in DOMAIN r : j < k => g[j] < g[k]
  BY <1>3
<1>5. DOMAIN r = 1..Len(r) /\ Len(r) \in Nat /\ DOMAIN list = 1..Len(list) /\ Len(list) \in Nat
  BY <1>1, <1>3, SequenceDomain
<1>6. ASSUME NEW j \in DOMAIN r, NEW k \in DOMAIN r, r[j] = r[k], j < k PROVE FALSE
  <2>1. g[j] \in DOMAIN list /\ g[k] \in DOMAIN list /\ g[j] < g[k]
    BY <1>4, <1>6
  <2>2. g[j] # g[k] /\ list[g[j]].app = list[g[k]].app
    BY <1>4, <1>5, <1>6, <2>1
  <2>3. "other" \in {list[g[j]].form, list[g[k]].form}
    BY <2>1, <2>2, LauncherAssumption
  <2> QED
    BY <1>4, <2>3
<1>7. NoneTwice(r)
  BY <1>5, <1>6 DEF NoneTwice
<1> QED
  BY <1>1, <1>2, <1>7

\* What the launcher writes is read back as it was.
LEMMA WrittenIsRead ==
    ASSUME NEW ids \in Seq(AppIds), NoneTwice(ids)
    PROVE  Written(ids) \in Seq(Entries) /\ StoredApplications(Written(ids)) = ids
<1> DEFINE w == Written(ids)
           K == {i \in DOMAIN w : w[i].form # "other"}
<1>1. DOMAIN ids = 1..Len(ids) /\ Len(ids) \in Nat /\ \A i \in DOMAIN ids : ids[i] \in AppIds
  BY SequenceDomain
<1>2. /\ w \in Seq(Entries) /\ DOMAIN w = DOMAIN ids
      /\ \A i \in DOMAIN ids : w[i].form = "appid" /\ w[i].app = ids[i]
  BY <1>1 DEF Written, Entries, Forms
<1>3. [i \in DOMAIN w |-> w[i].app] = ids
  <2>1. [i \in DOMAIN w |-> w[i].app] = [i \in 1..Len(ids) |-> ids[i]]
    BY <1>1, <1>2
  <2>2. ids = [i \in 1..Len(ids) |-> ids[i]]
    BY <1>1
  <2> QED
    BY <2>1, <2>2
<1>4. K = DOMAIN ids
  BY <1>2
<1>5. StoredApplications(w) = Kept(ids, DOMAIN ids)
  BY <1>3, <1>4 DEF StoredApplications
<1> HIDE DEF w, K
<1>6. Picks(ids, ids, DOMAIN ids)
  BY DEF Picks, NoneTwice
<1>7. ids = Kept(ids, DOMAIN ids)
  BY <1>6, PicksIsKept
<1> QED
  BY <1>2, <1>5, <1>7 DEF w

LEMMA PinnedOnce ==
    ASSUME NEW list \in Seq(Item), AppsOnce(list)
    PROVE  /\ PinnedIds(list) \in Seq(AppIds) /\ NoneTwice(PinnedIds(list))
           /\ Picks(PinnedIds(list), IdsOf(list), {i \in DOMAIN list : list[i].pinned})
<1>1. PICK K : K = {i \in DOMAIN list : list[i].pinned}
  OBVIOUS
<1>2. IdsOf(list) \in Seq(AppIds) /\ NoneTwice(IdsOf(list))
  BY IdsOfList
<1>3. PICK r : r = PinnedIds(list)
  OBVIOUS
<1>4. r = Kept(IdsOf(list), K)
  BY <1>1, <1>3 DEF PinnedIds
<1>5. r \in Seq(AppIds) /\ Picks(r, IdsOf(list), K)
  BY <1>2, <1>4, KeptPicks
<1>6. NoneTwice(r)
  BY <1>2, <1>5, PicksNoneTwice
<1> QED
  BY <1>1, <1>3, <1>5, <1>6

-----------------------------------------------------------------------------
(* The invariant.                                                          *)

\* copy has the applications and the pins of list, in its order.
Mirrors(copy, list) ==
    /\ copy \in Seq(AccountsItem) /\ Len(copy) = Len(list)
    /\ \A k \in DOMAIN list : copy[k].id = list[k].appId /\ copy[k].pinned = list[k].pinned

\* A setting that names no application twice.
GoodSetting(list) == list \in Seq(Entries) /\ NoneTwice(StoredApplications(list))

\* The list is right, the setting names no application twice (else refresh()
\* would pull an item that it has put in front already), and the copy in
\* AccountsService has the pins.
LauncherInv ==
    /\ GoodList(mList, apps, focusedApp)
    /\ Mirrors(asItems, mList)
    /\ GoodSetting(items)
    /\ mCachedItems \in Seq(Entries) /\ notice \in BOOLEAN
    /\ installed \subseteq AppIds /\ apps \subseteq AppIds /\ focusedApp \in AppIds \cup {NoApp}

-----------------------------------------------------------------------------
(* What the handlers do to a list.                                         *)

\* The same applications run, but for a.
SameBut(a, R, Rn) == Rn \ {a} = R \ {a}

\* x is an item of a, and right when these applications run and that one is focused.
Fits(x, a, R, F) ==
    /\ x \in Item /\ x.appId = a
    /\ ItemHolds(x, R, F)
    /\ a \in R \ {Dash} => x.running /\ x.recent

\* An item that holds still holds when only another application came or went.
LEMMA HoldsElsewhere ==
    ASSUME NEW x \in Item, NEW R, NEW Rn, NEW F, NEW a, SameBut(a, R, Rn), x.appId # a,
           ItemHolds(x, R, F)
    PROVE  ItemHolds(x, Rn, F)
<1>1. x.appId \in Rn <=> x.appId \in R
  BY DEF SameBut
<1> QED
  BY <1>1 DEF ItemHolds

\* The item of an application that runs says so.
LEMMA ItemOfRunning ==
    ASSUME NEW list, NEW R, NEW F, GoodList(list, R, F), NEW i \in DOMAIN list,
           list[i].appId \in R \ {Dash}
    PROVE  list[i].running /\ list[i].recent
  BY DEF GoodList, AppsOnce

\* t is list with x in place of its i-th item.
Replaced(t, list, i, x) ==
    /\ t \in Seq(Item) /\ DOMAIN t = DOMAIN list /\ Len(t) = Len(list)
    /\ t[i] = x /\ \A k \in DOMAIN list : k # i => t[k] = list[k]

LEMMA ItemReplaced ==
    ASSUME NEW list \in Seq(Item), NEW i \in DOMAIN list, NEW x \in Item,
           NEW t, t = [list EXCEPT ![i] = x]
    PROVE  Replaced(t, list, i, x)
<1>1. DOMAIN list = 1..Len(list) /\ Len(list) \in Nat /\ \A k \in DOMAIN list : list[k] \in Item
  BY SequenceDomain
<1>2. /\ DOMAIN t = 1..Len(list) /\ t[i] = x
      /\ \A k \in DOMAIN list : k # i => t[k] = list[k]
  BY <1>1
<1>3. t = [k \in 1..Len(list) |-> t[k]]
  BY <1>1
<1>4. \A k \in 1..Len(list) : t[k] \in Item
  BY <1>1, <1>2
<1>5. t \in Seq(Item) /\ Len(t) = Len(list)
  BY <1>1, <1>3, <1>4
<1> QED
  BY <1>1, <1>2, <1>5 DEF Replaced

\* Who replaces the item of an application that came, went or stayed by one that holds
\* leaves a good list.
LEMMA ReplacedGood ==
    ASSUME NEW list, NEW R, NEW F, GoodList(list, R, F), NEW i \in DOMAIN list,
           NEW a, list[i].appId = a, NEW Rn, SameBut(a, R, Rn), NEW x, Fits(x, a, Rn, F),
           NEW t, t = [list EXCEPT ![i] = x]
    PROVE  GoodList(t, Rn, F)
<1>0. /\ x \in Item /\ x.appId = a /\ ItemHolds(x, Rn, F)
      /\ a \in Rn \ {Dash} => x.running /\ x.recent
  BY DEF Fits
<1>1. /\ list \in Seq(Item) /\ AppsOnce(list)
      /\ \A k \in DOMAIN list : list[k] \in Item /\ ItemHolds(list[k], R, F)
  BY SequenceDomain DEF GoodList
<1>2. /\ t \in Seq(Item) /\ DOMAIN t = DOMAIN list
      /\ t[i] = x /\ \A k \in DOMAIN list : k # i => t[k] = list[k]
  BY <1>0, <1>1, ItemReplaced DEF Replaced
<1>3. \A k \in DOMAIN list : t[k].appId = list[k].appId
  BY <1>0, <1>2
<1>4. AppsOnce(t)
  BY <1>1, <1>2, <1>3 DEF AppsOnce
<1>5. ASSUME NEW k \in DOMAIN t PROVE ItemHolds(t[k], Rn, F)
  <2>1. CASE k = i
    BY <1>0, <1>2, <2>1
  <2>2. CASE k # i
    <3>1. list[k].appId # a
      BY <1>1, <1>2, <2>2 DEF AppsOnce
    <3> QED
      BY <1>1, <1>2, <2>2, <3>1, HoldsElsewhere
  <2> QED
    BY <2>1, <2>2
<1>6. ASSUME NEW b \in Rn \ {Dash}
      PROVE  \E k \in DOMAIN t : t[k].appId = b /\ t[k].running /\ t[k].recent
  <2>1. CASE b = a
    BY <1>0, <1>2, <2>1
  <2>2. CASE b # a
    <3>1. b \in R \ {Dash}
      BY <2>2 DEF SameBut
    <3>2. PICK k \in DOMAIN list : list[k].appId = b /\ list[k].running /\ list[k].recent
      BY <3>1 DEF GoodList
    <3> QED
      BY <1>2, <2>2, <3>2
  <2> QED
    BY <2>1, <2>2
<1> QED
  BY <1>2, <1>4, <1>5, <1>6 DEF GoodList

LEMMA AppendedGood ==
    ASSUME NEW list, NEW R, NEW F, GoodList(list, R, F),
           NEW a, ~Knows(list, a), NEW Rn, SameBut(a, R, Rn), NEW x, Fits(x, a, Rn, F),
           NEW t, t = Append(list, x)
    PROVE  GoodList(t, Rn, F)
<1>0. /\ x \in Item /\ x.appId = a /\ ItemHolds(x, Rn, F)
      /\ a \in Rn \ {Dash} => x.running /\ x.recent
  BY DEF Fits
<1>1. /\ list \in Seq(Item) /\ AppsOnce(list) /\ DOMAIN list = 1..Len(list) /\ Len(list) \in Nat
      /\ \A k \in DOMAIN list : list[k] \in Item /\ ItemHolds(list[k], R, F)
  BY SequenceDomain DEF GoodList
<1>2. /\ t \in Seq(Item) /\ DOMAIN t = 1..Len(list) + 1
      /\ \A k \in DOMAIN list : t[k] = list[k]
      /\ t[Len(list) + 1] = x
  BY <1>0, <1>1, SequenceAppended
<1>3. \A k \in DOMAIN t : k \in DOMAIN list \/ k = Len(list) + 1
  BY <1>1, <1>2
<1>4. \A k \in DOMAIN list : list[k].appId # a
  BY DEF Knows
<1>5. AppsOnce(t)
  BY <1>0, <1>1, <1>2, <1>3, <1>4 DEF AppsOnce
<1>6. ASSUME NEW k \in DOMAIN t PROVE ItemHolds(t[k], Rn, F)
  <2>1. CASE k = Len(list) + 1
    BY <1>0, <1>2, <2>1
  <2>2. CASE k \in DOMAIN list
    <3>1. list[k] \in Item /\ list[k].appId # a /\ ItemHolds(list[k], R, F)
      BY <1>1, <1>4, <2>2
    <3>2. ItemHolds(list[k], Rn, F)
      BY <3>1, HoldsElsewhere
    <3> QED
      BY <1>2, <2>2, <3>2
  <2> QED
    BY <1>3, <2>1, <2>2
<1>7. ASSUME NEW b \in Rn \ {Dash}
      PROVE  \E k \in DOMAIN t : t[k].appId = b /\ t[k].running /\ t[k].recent
  <2>1. CASE b = a
    <3>1. Len(list) + 1 \in DOMAIN t
      BY <1>1, <1>2
    <3> QED
      BY <1>0, <1>2, <2>1, <3>1
  <2>2. CASE b # a
    <3>1. b \in R \ {Dash}
      BY <2>2 DEF SameBut
    <3>2. PICK k \in DOMAIN list : list[k].appId = b /\ list[k].running /\ list[k].recent
      BY <3>1 DEF GoodList
    <3>3. k \in DOMAIN t
      BY <1>1, <1>2
    <3> QED
      BY <1>2, <3>2, <3>3
  <2> QED
    BY <2>1, <2>2
<1> QED
  BY <1>2, <1>5, <1>6, <1>7 DEF GoodList

\* The item of an application that does not run, or of the dash, may go, whatever was
\* made of it before.
LEMMA RemovedGood ==
    ASSUME NEW list, NEW R, NEW F, GoodList(list, R, F), NEW i \in DOMAIN list,
           NEW a, list[i].appId = a, NEW Rn, SameBut(a, R, Rn), a \notin Rn \ {Dash},
           NEW s \in Seq(Item), DOMAIN s = DOMAIN list,
           \A k \in DOMAIN list : k # i => s[k] = list[k],
           NEW t, t = RemoveAt(s, i)
    PROVE  GoodList(t, Rn, F)
<1>1. /\ list \in Seq(Item) /\ AppsOnce(list)
      /\ \A k \in DOMAIN list : list[k] \in Item /\ ItemHolds(list[k], R, F)
      /\ DOMAIN s = 1..Len(s)
  BY SequenceDomain DEF GoodList
<1>2. t \in Seq(Item) /\ OneLess(t, s, i)
  BY <1>1, ElementRemoved
<1>3. PICK old : Leaves(t, s, i, old)
  BY <1>2, OneLessLeaves
<1>4. /\ \A k \in DOMAIN t : old[k] \in DOMAIN list /\ t[k] = list[old[k]] /\ old[k] # i
      /\ \A j, k \in DOMAIN t : j < k => old[j] < old[k]
      /\ \A k \in DOMAIN list : k # i => \E j \in DOMAIN t : old[j] = k
  BY <1>3 DEF Leaves
<1>5. AppsOnce(t)
  <2>1. DOMAIN t = 1..Len(t) /\ Len(t) \in Nat /\ DOMAIN list = 1..Len(list) /\ Len(list) \in Nat
    BY <1>1, <1>2, SequenceDomain
  <2>2. ASSUME NEW j \in DOMAIN t, NEW k \in DOMAIN t, t[j].appId = t[k].appId, j < k PROVE FALSE
    <3>1. old[j] = old[k] /\ old[j] < old[k] /\ old[j] \in DOMAIN list
      BY <1>1, <1>4, <2>2 DEF AppsOnce
    <3> QED
      BY <2>1, <3>1
  <2> QED
    BY <2>1, <2>2 DEF AppsOnce
<1>6. ASSUME NEW k \in DOMAIN t PROVE ItemHolds(t[k], Rn, F)
  <2>1. old[k] \in DOMAIN list /\ t[k] = list[old[k]] /\ list[old[k]].appId # a
    BY <1>1, <1>4 DEF AppsOnce
  <2> QED
    BY <1>1, <2>1, HoldsElsewhere
<1>7. ASSUME NEW b \in Rn \ {Dash}
      PROVE  \E k \in DOMAIN t : t[k].appId = b /\ t[k].running /\ t[k].recent
  <2>1. b # a /\ b \in R \ {Dash}
    BY DEF SameBut
  <2>2. PICK k \in DOMAIN list : list[k].appId = b /\ list[k].running /\ list[k].recent
    BY <2>1 DEF GoodList
  <2>3. PICK j \in DOMAIN t : old[j] = k
    BY <1>4, <2>1, <2>2
  <2> QED
    BY <1>4, <2>2, <2>3
<1> QED
  BY <1>2, <1>5, <1>6, <1>7 DEF GoodList

LEMMA PinnedGood ==
    ASSUME NEW list, NEW R, NEW F, GoodList(list, R, F), NEW i \in DOMAIN list,
           NEW u, u = [list EXCEPT ![i].pinned = TRUE]
    PROVE  GoodList(u, R, F)
<1>1. PICK x, a, Rn : x = [list[i] EXCEPT !.pinned = TRUE] /\ a = list[i].appId /\ Rn = R
  OBVIOUS
<1>2. list[i] \in Item /\ ItemHolds(list[i], R, F)
  BY SequenceDomain DEF GoodList
<1>3. /\ x \in Item /\ x.appId = a /\ x.pinned /\ x.running = list[i].running
      /\ x.recent = list[i].recent /\ x.focused = list[i].focused
  BY <1>1, <1>2 DEF Item
<1>4. ItemHolds(x, Rn, F)
  BY <1>1, <1>2, <1>3 DEF ItemHolds
<1>5. a \in Rn \ {Dash} => x.running /\ x.recent
  BY <1>1, <1>3, ItemOfRunning
<1>6. PICK t : t = [list EXCEPT ![i] = x]
  OBVIOUS
<1>7. list[i].appId = a /\ SameBut(a, R, Rn)
  BY <1>1 DEF SameBut
<1>8. Fits(x, a, Rn, F)
  BY <1>3, <1>4, <1>5 DEF Fits
<1>9. GoodList(t, Rn, F)
  BY <1>6, <1>7, <1>8, ReplacedGood
<1>10. t = u
  BY <1>1, <1>6
<1> QED
  BY <1>1, <1>9, <1>10

LEMMA UnpinGood ==
    ASSUME NEW list, NEW F, GoodList(list, apps, F), NEW a, NEW t, t = Unpin(list, a)
    PROVE  GoodList(t, apps, F)
<1>1. list \in Seq(Item) /\ AppsOnce(list) /\ \A m \in DOMAIN list : list[m] \in Item
  BY SequenceDomain DEF GoodList
<1>2. PICK gone : gone = {} \cup {a}
  OBVIOUS
<1>3. Clearing(list, list, {})
  BY <1>1, ClearingStarts
<1>4. Clearing(t, list, gone)
  BY <1>1, <1>2, <1>3, UnpinClears
<1>5. AppsOnce(t)
  BY <1>1, <1>4, ClearingOnce
<1>6. ASSUME NEW k \in DOMAIN t PROVE ItemHolds(t[k], apps, F)
  <2>1. PICK m \in DOMAIN list : Stays(list[m], gone) /\ t[k] = UnpinnedOf(list[m], gone)
    BY <1>4 DEF Clearing
  <2> QED
    BY <1>1, <2>1, UnpinnedHolds DEF GoodList
<1>7. ASSUME NEW b \in apps \ {Dash}
      PROVE  \E k \in DOMAIN t : t[k].appId = b /\ t[k].running /\ t[k].recent
  <2>1. PICK m \in DOMAIN list : list[m].appId = b /\ list[m].running /\ list[m].recent
    BY DEF GoodList
  <2>2. PICK k \in DOMAIN t : t[k] = UnpinnedOf(list[m], gone)
    BY <1>4, <2>1 DEF Clearing, Stays
  <2> QED
    BY <1>1, <2>1, <2>2, UnpinnedFields
<1> QED
  BY <1>4, <1>5, <1>6, <1>7 DEF GoodList, Clearing

LEMMA MovedGood ==
    ASSUME NEW list, NEW R, NEW F, GoodList(list, R, F),
           NEW from \in DOMAIN list, NEW to \in DOMAIN list, NEW t, t = MoveItem(list, from, to)
    PROVE  GoodList(t, R, F) /\ DOMAIN t = DOMAIN list
<1>1. /\ list \in Seq(Item) /\ AppsOnce(list) /\ DOMAIN list = 1..Len(list)
      /\ \A k \in DOMAIN list : ItemHolds(list[k], R, F)
  BY SequenceDomain DEF GoodList
<1>2. t \in Seq(Item) /\ Moved(t, list, from, to)
  <2>1. t = InsertAt(RemoveAt(list, from), to, list[from])
    BY DEF MoveItem
  <2> QED
    BY <1>1, <2>1, ElementMoved
<1>3. PICK h : Rearranged(t, list, h)
  BY <1>2 DEF Moved
<1>4. DOMAIN t = DOMAIN list
  BY <1>1, <1>2, <1>3, SequenceDomain DEF Rearranged
<1>5. /\ \A k \in DOMAIN list : h[k] \in DOMAIN list /\ t[k] = list[h[k]]
      /\ \A j, k \in DOMAIN list : h[j] = h[k] => j = k
      /\ \A o \in DOMAIN list : \E k \in DOMAIN list : h[k] = o
  BY <1>1, <1>3 DEF Rearranged
<1>6. AppsOnce(t)
  <2> SUFFICES ASSUME NEW j \in DOMAIN list, NEW k \in DOMAIN list, t[j].appId = t[k].appId
               PROVE  j = k
    BY <1>4 DEF AppsOnce
  <2>1. /\ h[j] \in DOMAIN list /\ h[k] \in DOMAIN list
        /\ t[j] = list[h[j]] /\ t[k] = list[h[k]]
    BY <1>5
  <2>2. h[j] = h[k]
    BY <1>1, <2>1 DEF AppsOnce
  <2> QED
    BY <1>5, <2>2
<1>8. ASSUME NEW k \in DOMAIN t PROVE ItemHolds(t[k], R, F)
  <2>1. h[k] \in DOMAIN list /\ t[k] = list[h[k]]
    BY <1>4, <1>5
  <2> QED
    BY <1>1, <2>1
<1>7. ASSUME NEW b \in R \ {Dash}
      PROVE  \E k \in DOMAIN t : t[k].appId = b /\ t[k].running /\ t[k].recent
  <2>1. PICK m \in DOMAIN list : list[m].appId = b /\ list[m].running /\ list[m].recent
    BY DEF GoodList
  <2>2. PICK k \in DOMAIN list : h[k] = m
    BY <1>5
  <2>3. k \in DOMAIN t /\ t[k] = list[m]
    BY <1>4, <1>5, <2>2
  <2> QED
    BY <2>1, <2>3
<1> QED
  BY <1>2, <1>4, <1>6, <1>7, <1>8 DEF GoodList

\* t has the applications and the pins of list.
SamePins(t, list) ==
    /\ Len(t) = Len(list) /\ DOMAIN t = DOMAIN list
    /\ \A k \in DOMAIN list : t[k].appId = list[k].appId /\ t[k].pinned = list[k].pinned

FocusOn(list, a) == [i \in DOMAIN list |-> [list[i] EXCEPT !.focused = (list[i].appId = a)]]

LEMMA FocusedGood ==
    ASSUME NEW list, NEW R, NEW F, GoodList(list, R, F), NEW a, NEW t, t = FocusOn(list, a)
    PROVE  GoodList(t, R, a) /\ SamePins(t, list)
<1>1. /\ list \in Seq(Item) /\ AppsOnce(list) /\ DOMAIN list = 1..Len(list) /\ Len(list) \in Nat
      /\ \A k \in DOMAIN list : list[k] \in Item /\ ItemHolds(list[k], R, F)
  BY SequenceDomain DEF GoodList
<1>2. ASSUME NEW k \in DOMAIN list
      PROVE  /\ t[k] \in Item /\ t[k].appId = list[k].appId /\ t[k].pinned = list[k].pinned
             /\ t[k].running = list[k].running /\ t[k].recent = list[k].recent
             /\ t[k].countVisible = list[k].countVisible
             /\ t[k].focused = (list[k].appId = a)
  <2>1. t[k] = [list[k] EXCEPT !.focused = (list[k].appId = a)]
    BY DEF FocusOn
  <2> QED
    BY <1>1, <2>1 DEF Item
<1>3. t \in Seq(Item) /\ Len(t) = Len(list) /\ DOMAIN t = DOMAIN list
  <2>1. DOMAIN t = 1..Len(list) /\ t = [k \in 1..Len(list) |-> t[k]]
    BY <1>1 DEF FocusOn
  <2>2. \A k \in 1..Len(list) : t[k] \in Item
    BY <1>1, <1>2
  <2>3. t \in [1..Len(list) -> Item]
    BY <2>1, <2>2, Zenon
  <2>4. t \in Seq(Item)
    BY <1>1, <2>3, SeqDef
  <2> QED
    BY <1>1, <2>1, <2>4, SequenceDomain
<1>4. AppsOnce(t)
  <2> SUFFICES ASSUME NEW j \in DOMAIN list, NEW k \in DOMAIN list, t[j].appId = t[k].appId
               PROVE  j = k
    BY <1>3 DEF AppsOnce
  <2>1. list[j].appId = list[k].appId
    BY <1>2
  <2> QED
    BY <1>1, <2>1 DEF AppsOnce
<1>5. ASSUME NEW k \in DOMAIN t PROVE ItemHolds(t[k], R, a)
  <2>1. k \in DOMAIN list /\ ItemHolds(list[k], R, F)
    BY <1>1, <1>3
  <2> QED
    BY <1>2, <2>1 DEF ItemHolds
<1>6. ASSUME NEW b \in R \ {Dash}
      PROVE  \E k \in DOMAIN t : t[k].appId = b /\ t[k].running /\ t[k].recent
  <2>1. PICK m \in DOMAIN list : list[m].appId = b /\ list[m].running /\ list[m].recent
    BY DEF GoodList
  <2>2. m \in DOMAIN t /\ t[m].appId = b /\ t[m].running /\ t[m].recent
    BY <1>2, <1>3, <2>1
  <2> QED
    BY <2>2
<1> QED
  BY <1>2, <1>3, <1>4, <1>5, <1>6 DEF GoodList, SamePins

-----------------------------------------------------------------------------
(* The steps.                                                              *)

\* SyncItems sends what the launcher shows.
LEMMA SyncMirrors ==
    ASSUME NEW R, NEW F, GoodList(mList', R, F), SyncItems
    PROVE  Mirrors(asItems', mList')
<1>1. PICK t, copy : t = mList' /\ copy = asItems'
  OBVIOUS
<1>2. /\ t \in Seq(Item) /\ DOMAIN t = 1..Len(t) /\ Len(t) \in Nat
      /\ \A k \in DOMAIN t : t[k] \in Item
  BY <1>1, SequenceDomain DEF GoodList
<1>3. copy = [i \in DOMAIN t |-> ItemToVariant(t[i])]
  BY <1>1 DEF SyncItems
<1>4. \A k \in DOMAIN t : /\ copy[k] \in AccountsItem
                          /\ copy[k].id = t[k].appId /\ copy[k].pinned = t[k].pinned
  BY <1>2, <1>3 DEF Item, AccountsItem, ItemToVariant
<1>5. copy \in Seq(AccountsItem) /\ Len(copy) = Len(t)
  BY <1>2, <1>3, <1>4
<1>6. Mirrors(copy, t)
  BY <1>4, <1>5 DEF Mirrors
<1> QED
  BY <1>1, <1>6

LEMMA SamePinsMirror ==
    ASSUME NEW t, NEW list, SamePins(t, list), NEW copy, Mirrors(copy, list)
    PROVE  Mirrors(copy, t)
  BY DEF SamePins, Mirrors

\* storeAppList() writes the pins of a list that is right, and sends them.
LEMMA StoreKeeps ==
    ASSUME LauncherInv, GoodList(mList', apps, focusedApp), StoreAppList, Fixed
    PROVE  LauncherInv' /\ StoredApplications(items') = PinnedIds(mList')
<1>1. PICK t, w, p : t = mList' /\ w = items' /\ p = PinnedIds(t)
  OBVIOUS
<1>2. t \in Seq(Item) /\ AppsOnce(t)
  BY <1>1 DEF GoodList
<1>3. p \in Seq(AppIds) /\ NoneTwice(p)
  BY <1>1, <1>2, PinnedOnce
<1>4. w = Written(p)
  BY <1>1 DEF StoreAppList
<1>5. w \in Seq(Entries) /\ StoredApplications(w) = p
  BY <1>3, <1>4, WrittenIsRead
<1>6. GoodSetting(items') /\ mCachedItems' \in Seq(Entries) /\ notice' \in BOOLEAN
  <2>1. GoodSetting(w)
    BY <1>3, <1>5 DEF GoodSetting
  <2> QED
    BY <1>1, <1>5, <2>1 DEF StoreAppList
<1>7. Mirrors(asItems', mList')
  BY SyncMirrors DEF StoreAppList
<1> QED
  BY <1>1, <1>5, <1>6, <1>7 DEF LauncherInv, Fixed

\* A step that leaves the setting alone and sends what it shows.
LEMMA SyncKeeps ==
    ASSUME LauncherInv, GoodList(mList', apps', focusedApp'), SyncItems, SettingUnread,
           UNCHANGED installed, apps' \subseteq AppIds, focusedApp' \in AppIds \cup {NoApp}
    PROVE  LauncherInv'
<1>1. Mirrors(asItems', mList')
  BY SyncMirrors
<1> QED
  BY <1>1 DEF LauncherInv, SettingUnread

LEMMA MoveKeeps ==
    ASSUME LauncherInv, NEW from, NEW to, Move(from, to)
    PROVE  LauncherInv' /\ StoredApplications(items') = PinnedIds(mList')
<1>1. from \in DOMAIN mList /\ to \in DOMAIN mList /\ GoodList(mList, apps, focusedApp)
  BY DEF LauncherInv, Move
<1>2. PICK l : l = MoveItem(mList, from, to)
  OBVIOUS
<1>3. GoodList(l, apps, focusedApp) /\ DOMAIN l = DOMAIN mList
  BY <1>1, <1>2, MovedGood
<1>4. mList' = [l EXCEPT ![to].pinned = TRUE]
  BY <1>2 DEF Move, Moves
<1>5. GoodList(mList', apps, focusedApp)
  BY <1>1, <1>3, <1>4, PinnedGood
<1> QED
  BY <1>5, StoreKeeps DEF Move

LEMMA PinKnownKeeps ==
    ASSUME LauncherInv, NEW a, PinKnown(a)
    PROVE  LauncherInv' /\ StoredApplications(items') = PinnedIds(mList')
<1>1. PICK i : i = FindApplication(mList, a)
  OBVIOUS
<1>2. GoodList(mList, apps, focusedApp) /\ mList \in Seq(Item) /\ AppsOnce(mList) /\ Knows(mList, a)
  BY DEF LauncherInv, GoodList, PinKnown
<1>3. i \in DOMAIN mList
  BY <1>1, <1>2, ItemFound
<1>4. mList' = [mList EXCEPT ![i].pinned = TRUE]
  BY <1>1 DEF PinKnown
<1>5. GoodList(mList', apps, focusedApp)
  BY <1>2, <1>3, <1>4, PinnedGood
<1> QED
  BY <1>5, StoreKeeps DEF PinKnown

\* An application without an item does not run, unless it is the dash.
LEMMA UnknownFits ==
    ASSUME NEW list, NEW R, NEW F, GoodList(list, R, F), NEW a, ~Knows(list, a)
    PROVE  a \notin R \ {Dash}
  BY DEF GoodList, Knows

LEMMA PinNewKeeps ==
    ASSUME LauncherInv, NEW a \in AppIds, PinNew(a)
    PROVE  LauncherInv' /\ StoredApplications(items') = PinnedIds(mList')
<1>1. PICK R : R = apps
  OBVIOUS
<1>2. GoodList(mList, R, focusedApp) /\ ~Knows(mList, a) /\ SameBut(a, R, R)
  BY <1>1 DEF LauncherInv, PinNew, SameBut
<1>3. Fits(Fresh(a), a, R, focusedApp)
  BY <1>2, FreshFields, FreshHolds, UnknownFits DEF Fits
<1>4. mList' = Append(mList, Fresh(a))
  BY DEF PinNew, Fresh
<1>5. GoodList(mList', R, focusedApp)
  BY <1>2, <1>3, <1>4, AppendedGood
<1> QED
  BY <1>1, <1>5, StoreKeeps DEF PinNew

LEMMA RequestRemoveKeeps ==
    ASSUME LauncherInv, NEW a, RequestRemove(a)
    PROVE  LauncherInv' /\ StoredApplications(items') = PinnedIds(mList')
<1>1. GoodList(mList, apps, focusedApp) /\ mList' = Unpin(mList, a)
  BY DEF LauncherInv, RequestRemove
<1>2. GoodList(mList', apps, focusedApp)
  BY <1>1, UnpinGood
<1> QED
  BY <1>2, StoreKeeps DEF RequestRemove

LEMMA CountVisibleKeeps ==
    ASSUME LauncherInv, NEW a \in AppIds, NEW visible \in BOOLEAN, CountVisibleChanged(a, visible)
    PROVE  LauncherInv'
<1> DEFINE R == apps
           F == focusedApp
<1>1. /\ GoodList(mList, R, F) /\ mList \in Seq(Item) /\ AppsOnce(mList) /\ SameBut(a, R, R)
      /\ \A k \in DOMAIN mList : mList[k] \in Item /\ ItemHolds(mList[k], R, F)
  BY SequenceDomain DEF LauncherInv, GoodList, SameBut
<1>2. SUFFICES GoodList(mList', R, F)
  <2>1. SyncItems /\ SettingUnread /\ UNCHANGED <<installed, apps, focusedApp>>
    BY DEF CountVisibleChanged, Fixed
  <2>2. apps' \subseteq AppIds /\ focusedApp' \in AppIds \cup {NoApp}
    BY <2>1 DEF LauncherInv
  <2>3. GoodList(mList', apps', focusedApp')
    BY <1>2, <2>1
  <2> QED
    BY <2>1, <2>2, <2>3, SyncKeeps
<1> HIDE DEF R, F
<1>3. CASE Knows(mList, a)
  <2>1. PICK i, s : /\ i = FindApplication(mList, a)
                    /\ s = [mList EXCEPT ![i].countVisible = visible]
    OBVIOUS
  <2>2. i \in DOMAIN mList /\ mList[i].appId = a /\ mList[i] \in Item
    BY <1>1, <1>3, <2>1, ItemFound
  <2>3. PICK x : x = [mList[i] EXCEPT !.countVisible = visible]
    OBVIOUS
  <2>4. /\ x \in Item /\ x.appId = a /\ x.pinned = mList[i].pinned /\ x.running = mList[i].running
        /\ x.recent = mList[i].recent /\ x.countVisible = visible /\ x.focused = mList[i].focused
    BY <2>2, <2>3 DEF Item
  <2>5. s = [mList EXCEPT ![i] = x]
    BY <2>1, <2>3
  <2>6. mList' = IF ~visible /\ ~mList[i].pinned /\ ~mList[i].recent THEN RemoveAt(s, i) ELSE s
    BY <1>3, <2>1 DEF CountVisibleChanged, ShowsEmblem
  <2>7. a \in R \ {Dash} => mList[i].running /\ mList[i].recent
    BY <1>1, <2>2, ItemOfRunning
  <2>8. CASE ~visible /\ ~mList[i].pinned /\ ~mList[i].recent
    <3>1. Replaced(s, mList, i, x)
      BY <1>1, <2>2, <2>4, <2>5, ItemReplaced
    <3>2. /\ s \in Seq(Item) /\ DOMAIN s = DOMAIN mList
          /\ \A k \in DOMAIN mList : k # i => s[k] = mList[k]
      BY <3>1 DEF Replaced
    <3>3. a \notin R \ {Dash}
      BY <2>7, <2>8
    <3>4. mList' = RemoveAt(s, i)
      BY <2>6, <2>8
    <3> QED
      BY <1>1, <2>2, <3>2, <3>3, <3>4, RemovedGood
  <2>9. CASE ~(~visible /\ ~mList[i].pinned /\ ~mList[i].recent)
    <3>1. ItemHolds(mList[i], R, F)
      BY <1>1, <2>2
    <3>2. ItemHolds(x, R, F)
      BY <2>2, <2>4, <2>9, <3>1 DEF ItemHolds
    <3>3. Fits(x, a, R, F)
      BY <2>4, <2>7, <3>2 DEF Fits
    <3>4. mList' = [mList EXCEPT ![i] = x]
      BY <2>5, <2>6, <2>9
    <3> QED
      BY <1>1, <2>2, <3>3, <3>4, ReplacedGood
  <2> QED
    BY <2>8, <2>9
<1>4. CASE ~Knows(mList, a)
  <2>1. mList' = IF visible /\ a \in installed
                 THEN Append(mList, [NewItem(a) EXCEPT !.countVisible = TRUE]) ELSE mList
    BY <1>4 DEF CountVisibleChanged
  <2>2. PICK x : x = [NewItem(a) EXCEPT !.countVisible = TRUE]
    OBVIOUS
  <2>3. /\ x \in Item /\ x.appId = a /\ ~x.pinned /\ ~x.running /\ ~x.recent
        /\ x.countVisible /\ ~x.focused
    BY <2>2 DEF NewItem, Item
  <2>4. Fits(x, a, R, F)
    BY <1>1, <1>4, <2>3, UnknownFits DEF Fits, ItemHolds
  <2>5. CASE visible /\ a \in installed
    <3>1. mList' = Append(mList, x)
      BY <2>1, <2>2, <2>5
    <3> QED
      BY <1>1, <1>4, <2>4, <3>1, AppendedGood
  <2>6. CASE ~(visible /\ a \in installed)
    BY <1>1, <2>1, <2>6
  <2> QED
    BY <2>5, <2>6
<1> QED
  BY <1>3, <1>4

LEMMA CountKeeps ==
    ASSUME LauncherInv, NEW a, CountChanged(a)
    PROVE  LauncherInv'
<1>1. GoodList(mList', apps', focusedApp') /\ SyncItems /\ SettingUnread /\ UNCHANGED installed
  BY DEF LauncherInv, CountChanged, Fixed
<1>2. apps' \subseteq AppIds /\ focusedApp' \in AppIds \cup {NoApp}
  BY DEF LauncherInv, CountChanged, Fixed
<1> QED
  BY <1>1, <1>2, SyncKeeps

\* refresh() leaves a good list.
LEMMA RefreshGood ==
    ASSUME LauncherInv, Refresh
    PROVE  GoodList(mList', apps, focusedApp)
<1>1. PICK ids : ids = StoredApplications(items)
  OBVIOUS
<1>2. ids \in Seq(AppIds) /\ NoneTwice(ids)
  BY <1>1, StoredIds DEF LauncherInv, GoodSetting
<1>3. mList' = Refreshed(mList, ids) /\ GoodList(mList, apps, focusedApp)
  BY <1>1 DEF Refresh, LauncherInv
<1> QED
  BY <1>2, <1>3, RefreshedGood

LEMMA RefreshKeeps ==
    ASSUME LauncherInv, RefreshCalled
    PROVE  LauncherInv'
<1>1. GoodList(mList', apps, focusedApp)
  BY RefreshGood DEF RefreshCalled
<1>2. SyncItems /\ SettingUnread /\ UNCHANGED <<installed, apps, focusedApp>>
  BY DEF RefreshCalled, Refresh, Fixed
<1>3. apps' \subseteq AppIds /\ focusedApp' \in AppIds \cup {NoApp}
  BY <1>2 DEF LauncherInv
<1> QED
  BY <1>1, <1>2, <1>3, SyncKeeps

LEMMA AddedKeeps ==
    ASSUME LauncherInv, NEW a \in AppIds, ApplicationAdded(a)
    PROVE  LauncherInv'
<1>1. PICK R, Rn, F : R = apps /\ Rn = apps \cup {a} /\ F = focusedApp
  OBVIOUS
<1>2. /\ GoodList(mList, R, F) /\ mList \in Seq(Item) /\ AppsOnce(mList) /\ SameBut(a, R, Rn)
      /\ \A k \in DOMAIN mList : mList[k] \in Item /\ ItemHolds(mList[k], R, F)
  BY <1>1, SequenceDomain DEF LauncherInv, GoodList, SameBut
<1>3. apps' = Rn /\ focusedApp' = F /\ UNCHANGED installed /\ SettingUnread
  BY <1>1 DEF ApplicationAdded
<1>4. apps' \subseteq AppIds /\ focusedApp' \in AppIds \cup {NoApp}
  BY <1>1, <1>3 DEF LauncherInv
<1>5. CASE a = Dash
  <2>1. UNCHANGED <<mList, asItems>>
    BY <1>5 DEF ApplicationAdded
  <2>2. GoodList(mList, Rn, F)
    <3>1. \A k \in DOMAIN mList : ItemHolds(mList[k], Rn, F)
      BY <1>1, <1>2 DEF ItemHolds
    <3>2. Rn \ {Dash} = R \ {Dash}
      BY <1>1, <1>5
    <3> QED
      BY <1>2, <3>1, <3>2 DEF GoodList
  <2> QED
    BY <1>3, <1>4, <2>1, <2>2 DEF LauncherInv, SettingUnread
<1>6. CASE a # Dash
  <2>1. mList' = Running(mList, a) /\ SyncItems
    BY <1>6 DEF ApplicationAdded
  <2>2. CASE Knows(mList, a)
    <3>1. PICK i : i = FindApplication(mList, a)
      OBVIOUS
    <3>2. i \in DOMAIN mList /\ mList[i].appId = a /\ mList[i] \in Item
      BY <1>2, <2>2, <3>1, ItemFound
    <3>3. PICK x : x = [mList[i] EXCEPT !.running = TRUE, !.recent = TRUE]
      OBVIOUS
    <3>4. /\ x \in Item /\ x.appId = a /\ x.running /\ x.recent /\ x.pinned = mList[i].pinned
          /\ x.countVisible = mList[i].countVisible /\ x.focused = mList[i].focused
      BY <3>2, <3>3 DEF Item
    <3>5. ItemHolds(mList[i], R, F)
      BY <1>2, <3>2
    <3>6. Fits(x, a, Rn, F)
      BY <1>1, <3>2, <3>4, <3>5 DEF Fits, ItemHolds
    <3>7. mList' = [mList EXCEPT ![i] = x]
      <4>1. mList' = [mList EXCEPT ![i].running = TRUE, ![i].recent = TRUE]
        BY <2>1, <2>2, <3>1 DEF Running
      <4> QED
        BY <3>2, <3>3, <4>1
    <3>8. GoodList(mList', Rn, F)
      BY <1>2, <3>2, <3>6, <3>7, ReplacedGood
    <3> QED
      BY <1>3, <1>4, <2>1, <3>8, SyncKeeps
  <2>3. CASE ~Knows(mList, a)
    <3>1. PICK x : x = [NewItem(a) EXCEPT !.running = TRUE, !.recent = TRUE,
                                          !.focused = (a = focusedApp)]
      OBVIOUS
    <3>2. /\ x \in Item /\ x.appId = a /\ x.running /\ x.recent /\ x.focused = (a = F)
      BY <1>1, <3>1 DEF NewItem, Item
    <3>3. Fits(x, a, Rn, F)
      BY <1>1, <3>2 DEF Fits, ItemHolds
    <3>4. mList' = Append(mList, x)
      BY <2>1, <2>3, <3>1 DEF Running
    <3>5. GoodList(mList', Rn, F)
      BY <1>2, <2>3, <3>3, <3>4, AppendedGood
    <3> QED
      BY <1>3, <1>4, <2>1, <3>5, SyncKeeps
  <2> QED
    BY <2>2, <2>3
<1> QED
  BY <1>5, <1>6

LEMMA RemovedKeeps ==
    ASSUME LauncherInv, NEW a \in AppIds, ApplicationRemoved(a)
    PROVE  LauncherInv'
<1>1. PICK R, Rn, F : R = apps /\ Rn = apps \ {a} /\ F = focusedApp
  OBVIOUS
<1>2. /\ GoodList(mList, R, F) /\ mList \in Seq(Item) /\ AppsOnce(mList) /\ SameBut(a, R, Rn)
      /\ \A k \in DOMAIN mList : mList[k] \in Item /\ ItemHolds(mList[k], R, F)
      /\ a \notin Rn
  BY <1>1, SequenceDomain DEF LauncherInv, GoodList, SameBut
<1>3. apps' = Rn /\ focusedApp' = F /\ UNCHANGED installed /\ SettingUnread
  BY <1>1 DEF ApplicationRemoved
<1>4. apps' \subseteq AppIds /\ focusedApp' \in AppIds \cup {NoApp}
  BY <1>1, <1>3 DEF LauncherInv
<1>5. CASE ~Knows(mList, a)
  <2>1. UNCHANGED <<mList, asItems>>
    BY <1>5 DEF ApplicationRemoved
  <2>2. GoodList(mList, Rn, F)
    <3>1. ASSUME NEW k \in DOMAIN mList PROVE ItemHolds(mList[k], Rn, F)
      <4>1. mList[k].appId # a /\ mList[k] \in Item /\ ItemHolds(mList[k], R, F)
        BY <1>2, <1>5 DEF Knows
      <4> QED
        BY <1>2, <4>1, HoldsElsewhere
    <3>2. Rn \ {Dash} \subseteq R \ {Dash}
      BY <1>1
    <3> QED
      BY <1>2, <3>1, <3>2 DEF GoodList
  <2> QED
    BY <1>3, <1>4, <2>1, <2>2 DEF LauncherInv, SettingUnread
<1>6. CASE Knows(mList, a)
  <2>1. PICK i : i = FindApplication(mList, a)
    OBVIOUS
  <2>2. i \in DOMAIN mList /\ mList[i].appId = a /\ mList[i] \in Item
    BY <1>2, <1>6, <2>1, ItemFound
  <2>3. CASE mList[i].pinned
    <3>1. PICK x : x = [mList[i] EXCEPT !.running = FALSE]
      OBVIOUS
    <3>2. /\ x \in Item /\ x.appId = a /\ ~x.running /\ x.pinned /\ x.focused = mList[i].focused
      BY <2>2, <2>3, <3>1 DEF Item
    <3>3. ItemHolds(mList[i], R, F)
      BY <1>2, <2>2
    <3>4. Fits(x, a, Rn, F)
      BY <1>2, <2>2, <3>2, <3>3 DEF Fits, ItemHolds
    <3>5. mList' = [mList EXCEPT ![i] = x] /\ UNCHANGED asItems
      <4>1. mList' = [mList EXCEPT ![i].running = FALSE] /\ UNCHANGED asItems
        BY <1>6, <2>1, <2>3 DEF ApplicationRemoved
      <4> QED
        BY <3>1, <4>1
    <3>6. GoodList(mList', Rn, F)
      BY <1>2, <2>2, <3>4, <3>5, ReplacedGood
    <3>7. Replaced(mList', mList, i, x)
      BY <1>2, <2>2, <3>2, <3>5, ItemReplaced
    <3>8. Mirrors(asItems', mList')
      <4>1. PICK t : t = mList'
        OBVIOUS
      <4>2. /\ DOMAIN t = DOMAIN mList /\ Len(t) = Len(mList) /\ t[i] = x
            /\ \A k \in DOMAIN mList : k # i => t[k] = mList[k]
        BY <3>7, <4>1 DEF Replaced
      <4>3. ASSUME NEW k \in DOMAIN mList
            PROVE  t[k].appId = mList[k].appId /\ t[k].pinned = mList[k].pinned
        <5>1. mList[k] \in Item /\ mList[k].pinned \in BOOLEAN
          BY <1>2 DEF Item
        <5>2. CASE k = i
          BY <2>2, <2>3, <3>1, <4>2, <5>1, <5>2 DEF Item
        <5>3. CASE k # i
          BY <4>2, <5>3
        <5> QED
          BY <5>2, <5>3
      <4>4. Mirrors(asItems, mList)
        BY DEF LauncherInv
      <4>5. SamePins(t, mList)
        BY <4>2, <4>3 DEF SamePins
      <4>6. Mirrors(asItems, t)
        BY <4>4, <4>5, SamePinsMirror
      <4> QED
        BY <3>5, <4>1, <4>6
    <3> QED
      BY <1>3, <1>4, <3>6, <3>8 DEF LauncherInv, SettingUnread
  <2>4. CASE ~mList[i].pinned
    <3>1. mList' = RemoveAt(mList, i) /\ SyncItems
      BY <1>6, <2>1, <2>4 DEF ApplicationRemoved
    <3>2. PICK s : s = mList
      OBVIOUS
    <3>3. /\ s \in Seq(Item) /\ DOMAIN s = DOMAIN mList
          /\ \A k \in DOMAIN mList : k # i => s[k] = mList[k]
          /\ mList' = RemoveAt(s, i) /\ a \notin Rn \ {Dash}
      BY <1>2, <3>1, <3>2
    <3>4. GoodList(mList', Rn, F)
      BY <1>2, <2>2, <3>3, RemovedGood
    <3> QED
      BY <1>3, <1>4, <3>1, <3>4, SyncKeeps
  <2> QED
    BY <2>3, <2>4
<1> QED
  BY <1>5, <1>6

LEMMA FocusKeeps ==
    ASSUME LauncherInv, NEW a, FocusedAppIdChanged(a)
    PROVE  LauncherInv'
<1>1. PICK l, t : l = mList /\ t = mList'
  OBVIOUS
<1>2. GoodList(l, apps, focusedApp) /\ Mirrors(asItems, l)
  BY <1>1 DEF LauncherInv
<1>3. t = FocusOn(l, a)
  BY <1>1 DEF FocusedAppIdChanged, FocusOn
<1>4. GoodList(t, apps, a) /\ SamePins(t, l)
  BY <1>2, <1>3, FocusedGood
<1>5. Mirrors(asItems, t)
  BY <1>2, <1>4, SamePinsMirror
<1>6. /\ focusedApp' = a /\ a \in apps \cup {NoApp}
      /\ SettingUnread /\ UNCHANGED <<asItems, installed, apps>>
  BY DEF FocusedAppIdChanged
<1>7. focusedApp' \in AppIds \cup {NoApp}
  BY <1>6 DEF LauncherInv
<1> QED
  BY <1>1, <1>4, <1>5, <1>6, <1>7 DEF LauncherInv, SettingUnread

LEMMA WrittenKeeps ==
    ASSUME LauncherInv, NEW list \in ForeignLists, SettingWritten(list)
    PROVE  LauncherInv'
<1>1. GoodSetting(list)
  BY ForeignOnce DEF GoodSetting
<1> QED
  BY <1>1 DEF LauncherInv, SettingWritten, Fixed

LEMMA NoticeKeeps ==
    ASSUME LauncherInv, OnSettingsChanged
    PROVE  LauncherInv'
<1>1. /\ notice' \in BOOLEAN /\ mCachedItems' \in Seq(Entries) /\ GoodSetting(items')
      /\ UNCHANGED <<installed, apps, focusedApp>>
  BY DEF LauncherInv, OnSettingsChanged, GoodSetting, Fixed
<1>2. CASE mCachedItems # items
  <2>1. Refresh
    BY <1>2 DEF OnSettingsChanged
  <2>2. GoodList(mList', apps, focusedApp)
    BY <2>1, RefreshGood
  <2>3. Mirrors(asItems', mList')
    BY <2>1, <2>2, SyncMirrors DEF Refresh
  <2> QED
    BY <1>1, <2>2, <2>3 DEF LauncherInv
<1>3. CASE ~(mCachedItems # items)
  <2>1. UNCHANGED <<mList, asItems>>
    BY <1>3 DEF OnSettingsChanged
  <2> QED
    BY <1>1, <2>1 DEF LauncherInv
<1> QED
  BY <1>2, <1>3

LEMMA RestartKeeps ==
    ASSUME LauncherInv, Restart
    PROVE  LauncherInv'
<1>1. PICK ids : ids = StoredApplications(items)
  OBVIOUS
<1>2. ids \in Seq(AppIds) /\ NoneTwice(ids)
  BY <1>1, StoredIds DEF LauncherInv, GoodSetting
<1>3. mList' = Refreshed(<<>>, ids)
  BY <1>1 DEF Restart
<1>4. GoodList(mList', {}, NoApp)
  BY <1>2, <1>3, StartedGood
<1>5. Mirrors(asItems', mList')
  BY <1>4, SyncMirrors DEF Restart
<1>6. /\ apps' = {} /\ focusedApp' = NoApp /\ mCachedItems' \in Seq(Entries) /\ notice' \in BOOLEAN
      /\ UNCHANGED <<items, installed>>
  <2>1. <<>> \in Seq(Entries)
    OBVIOUS
  <2> QED
    BY <2>1 DEF Restart
<1> QED
  BY <1>4, <1>5, <1>6 DEF LauncherInv, GoodSetting

LEMMA LauncherStarts == Init => LauncherInv
<1> SUFFICES ASSUME Init PROVE LauncherInv
  OBVIOUS
<1>1. PICK ids : ids = StoredApplications(items)
  OBVIOUS
<1>2. GoodSetting(items)
  BY ForeignOnce DEF Init, GoodSetting
<1>3. ids \in Seq(AppIds) /\ NoneTwice(ids)
  BY <1>1, <1>2, StoredIds DEF GoodSetting
<1>4. PICK t, copy : t = mList /\ copy = asItems
  OBVIOUS
<1>5. t = Refreshed(<<>>, ids) /\ copy = [i \in DOMAIN t |-> ItemToVariant(t[i])]
  BY <1>1, <1>4 DEF Init
<1>6. GoodList(t, {}, NoApp)
  BY <1>3, <1>5, StartedGood
<1>7. /\ t \in Seq(Item) /\ DOMAIN t = 1..Len(t) /\ Len(t) \in Nat
      /\ \A k \in DOMAIN t : t[k] \in Item
  BY <1>6, SequenceDomain DEF GoodList
<1>8. Mirrors(copy, t)
  <2>1. \A k \in DOMAIN t : /\ copy[k] \in AccountsItem
                            /\ copy[k].id = t[k].appId /\ copy[k].pinned = t[k].pinned
    BY <1>5, <1>7 DEF Item, AccountsItem, ItemToVariant
  <2>2. copy \in Seq(AccountsItem) /\ Len(copy) = Len(t)
    BY <1>5, <1>7, <2>1
  <2> QED
    BY <2>1, <2>2 DEF Mirrors
<1>9. /\ mCachedItems \in Seq(Entries) /\ notice \in BOOLEAN
      /\ installed \subseteq AppIds /\ apps = {} /\ focusedApp = NoApp
  <2>1. <<>> \in Seq(Entries)
    OBVIOUS
  <2> QED
    BY <2>1 DEF Init
<1> QED
  BY <1>2, <1>4, <1>6, <1>8, <1>9 DEF LauncherInv

LEMMA LauncherKeeps == LauncherInv /\ [Next]_vars => LauncherInv'
<1> SUFFICES ASSUME LauncherInv, [Next]_vars PROVE LauncherInv'
  OBVIOUS
<1>1. CASE UNCHANGED vars
  BY <1>1 DEF LauncherInv, vars, launcherVars
<1>2. ASSUME NEW from \in DOMAIN mList, NEW to \in DOMAIN mList, Move(from, to)
      PROVE  LauncherInv'
  BY <1>2, MoveKeeps
<1>3. ASSUME NEW a \in AppIds, PinKnown(a) PROVE LauncherInv'
  BY <1>3, PinKnownKeeps
<1>4. ASSUME NEW a \in AppIds, PinNew(a) PROVE LauncherInv'
  BY <1>4, PinNewKeeps
<1>5. ASSUME NEW a \in AppIds, RequestRemove(a) PROVE LauncherInv'
  BY <1>5, RequestRemoveKeeps
<1>6. ASSUME NEW a \in AppIds, QuickListActionInvoked(a) PROVE LauncherInv'
  BY <1>3, <1>5, <1>6 DEF QuickListActionInvoked
<1>7. ASSUME NEW a \in AppIds, ApplicationAdded(a) PROVE LauncherInv'
  BY <1>7, AddedKeeps
<1>8. ASSUME NEW a \in AppIds, ApplicationRemoved(a) PROVE LauncherInv'
  BY <1>8, RemovedKeeps
<1>9. ASSUME NEW a \in AppIds, DesktopFileComesOrGoes(a) PROVE LauncherInv'
  <2>1. installed' \subseteq AppIds
    BY <1>9 DEF DesktopFileComesOrGoes, LauncherInv
  <2> QED
    BY <1>9, <2>1 DEF DesktopFileComesOrGoes, LauncherInv, launcherVars
<1>10. ASSUME NEW a \in Emblems, CountChanged(a) PROVE LauncherInv'
  BY <1>10, CountKeeps
<1>11. ASSUME NEW a \in Emblems, NEW visible \in BOOLEAN, CountVisibleChanged(a, visible)
       PROVE  LauncherInv'
  BY <1>11, CountVisibleKeeps, LauncherAssumption
<1>12. ASSUME NEW a \in AppIds \cup {NoApp}, FocusedAppIdChanged(a) PROVE LauncherInv'
  BY <1>12, FocusKeeps
<1>13. CASE RefreshCalled
  BY <1>13, RefreshKeeps
<1>14. ASSUME NEW list \in ForeignLists, SettingWritten(list) PROVE LauncherInv'
  BY <1>14, WrittenKeeps
<1>15. CASE OnSettingsChanged
  BY <1>15, NoticeKeeps
<1>16. CASE Restart
  BY <1>16, RestartKeeps
<1> QED
  BY <1>1, <1>2, <1>3, <1>4, <1>5, <1>6, <1>7, <1>8, <1>9, <1>10, <1>11, <1>12, <1>13,
     <1>14, <1>15, <1>16 DEF Next

LEMMA LauncherInvariant == Spec => []LauncherInv
  BY LauncherStarts, LauncherKeeps, PTL DEF Spec

LEMMA InvGivesReasons == LauncherInv => ItemsHaveReasons
<1> SUFFICES ASSUME LauncherInv PROVE ItemsHaveReasons
  OBVIOUS
<1>1. /\ GoodList(mList, apps, focusedApp) /\ Mirrors(asItems, mList) /\ GoodSetting(items)
      /\ mCachedItems \in Seq(Entries) /\ notice \in BOOLEAN
      /\ installed \subseteq AppIds /\ apps \subseteq AppIds /\ focusedApp \in AppIds \cup {NoApp}
  BY DEF LauncherInv
<1>2. /\ mList \in Seq(Item) /\ AppsOnce(mList)
      /\ \A k \in DOMAIN mList : ItemHolds(mList[k], apps, focusedApp)
      /\ \A a \in apps \ {Dash} :
            \E k \in DOMAIN mList : mList[k].appId = a /\ mList[k].running /\ mList[k].recent
  BY <1>1 DEF GoodList
<1>3. TypeOK
  BY <1>1, <1>2 DEF TypeOK, Mirrors, GoodSetting
<1>4. NoAppTwice
  BY <1>2 DEF NoAppTwice, AppsOnce
<1>5. RunningAppsAreShown /\ NoItemWithoutReason /\ FocusFollowsManager
  BY <1>2 DEF RunningAppsAreShown, NoItemWithoutReason, FocusFollowsManager, ItemHolds
<1> QED
  BY <1>3, <1>4, <1>5 DEF ItemsHaveReasons

LEMMA InvKnowsPins == LauncherInv => AccountsKnowsThePins
<1> SUFFICES ASSUME LauncherInv PROVE AccountsKnowsThePins
  OBVIOUS
<1>1. mList \in Seq(Item) /\ Mirrors(asItems, mList)
  BY DEF LauncherInv, GoodList
<1>2. DOMAIN asItems = DOMAIN mList
  BY <1>1, SequenceDomain DEF Mirrors
<1>3. [i \in DOMAIN asItems |-> asItems[i].id] = IdsOf(mList)
  BY <1>1, <1>2 DEF Mirrors, IdsOf
<1>4. {i \in DOMAIN asItems : asItems[i].pinned} = {i \in DOMAIN mList : mList[i].pinned}
  BY <1>1, <1>2 DEF Mirrors
<1> QED
  BY <1>3, <1>4 DEF AccountsKnowsThePins, PinnedIds

-----------------------------------------------------------------------------
(* Pins.                                                                   *)

\* t has the pins of l, in the same order.
PinsAlike(t, l) ==
    /\ \A k \in DOMAIN t : t[k].pinned => \E m \in DOMAIN l : l[m].pinned /\ l[m].appId = t[k].appId
    /\ \A m \in DOMAIN l : l[m].pinned => \E k \in DOMAIN t : t[k].pinned /\ l[m].appId = t[k].appId
    /\ InOrder(t, l)

LEMMA PinsStay ==
    ASSUME NEW t \in Seq(Item), AppsOnce(t), NEW l \in Seq(Item), AppsOnce(l), PinsAlike(t, l)
    PROVE  PinnedIds(t) = PinnedIds(l)
<1> DEFINE K == {i \in DOMAIN t : t[i].pinned}
           L == {i \in DOMAIN l : l[i].pinned}
<1>1. PICK p : p = PinnedIds(t)
  OBVIOUS
<1>2. p \in Seq(AppIds) /\ Picks(p, IdsOf(t), K)
  BY <1>1, PinnedOnce
<1>3. /\ DOMAIN IdsOf(t) = DOMAIN t /\ \A k \in DOMAIN t : IdsOf(t)[k] = t[k].appId
      /\ DOMAIN IdsOf(l) = DOMAIN l /\ \A k \in DOMAIN l : IdsOf(l)[k] = l[k].appId
      /\ IdsOf(l) \in Seq(AppIds) /\ NoneTwice(IdsOf(l))
  BY IdsOfList
<1>4. ASSUME NEW k \in DOMAIN p PROVE \E j \in DOMAIN t : j \in K /\ p[k] = t[j].appId
  BY <1>2, <1>3 DEF Picks
<1>5. ASSUME NEW k \in DOMAIN p PROVE \E m \in DOMAIN IdsOf(l) : m \in L /\ p[k] = IdsOf(l)[m]
  <2>1. PICK j \in DOMAIN t : t[j].pinned /\ p[k] = t[j].appId
    BY <1>4
  <2>2. PICK m \in DOMAIN l : l[m].pinned /\ l[m].appId = t[j].appId
    BY <2>1 DEF PinsAlike
  <2> QED
    BY <1>3, <2>1, <2>2
<1>6. ASSUME NEW m \in DOMAIN IdsOf(l), m \in L PROVE \E k \in DOMAIN p : p[k] = IdsOf(l)[m]
  <2>1. PICK j \in DOMAIN t : t[j].pinned /\ l[m].appId = t[j].appId
    BY <1>6 DEF PinsAlike
  <2>2. PICK k \in DOMAIN p : p[k] = IdsOf(t)[j]
    BY <1>2, <1>3, <2>1 DEF Picks
  <2> QED
    BY <1>3, <2>1, <2>2
<1>7. ASSUME NEW j \in DOMAIN p, NEW k \in DOMAIN p, NEW m \in DOMAIN IdsOf(l), NEW n \in DOMAIN IdsOf(l),
             p[j] = IdsOf(l)[m], p[k] = IdsOf(l)[n], j < k
      PROVE  m < n
  <2>1. PICK o \in DOMAIN t : p[j] = t[o].appId
    BY <1>4
  <2>2. PICK q \in DOMAIN t : p[k] = t[q].appId
    BY <1>4
  <2>3. o < q
    <3>1. \A u, v \in DOMAIN p, w, z \in DOMAIN IdsOf(t) :
             p[u] = IdsOf(t)[w] /\ p[v] = IdsOf(t)[z] /\ u < v => w < z
      BY <1>2 DEF Picks
    <3>2. /\ o \in DOMAIN IdsOf(t) /\ q \in DOMAIN IdsOf(t)
          /\ p[j] = IdsOf(t)[o] /\ p[k] = IdsOf(t)[q]
      BY <1>3, <2>1, <2>2
    <3> QED
      BY <1>7, <3>1, <3>2
  <2>4. t[o].appId = l[m].appId /\ t[q].appId = l[n].appId
    BY <1>3, <1>7, <2>1, <2>2
  <2> QED
    BY <1>3, <2>3, <2>4 DEF PinsAlike, InOrder
<1> HIDE DEF K, L
<1>8. Picks(p, IdsOf(l), L)
  BY <1>5, <1>6, <1>7 DEF Picks
<1>9. p = Kept(IdsOf(l), L)
  BY <1>2, <1>3, <1>8, PicksIsKept
<1> QED
  BY <1>1, <1>9 DEF PinnedIds, L

LEMMA SamePinsStay ==
    ASSUME NEW t \in Seq(Item), NEW l \in Seq(Item), AppsOnce(l), SamePins(t, l)
    PROVE  PinnedIds(t) = PinnedIds(l)
<1>1. DOMAIN t = DOMAIN l /\ \A k \in DOMAIN l : t[k].appId = l[k].appId /\ t[k].pinned = l[k].pinned
  BY DEF SamePins
<1>2. AppsOnce(t)
  BY <1>1 DEF AppsOnce
<1>3. InOrder(t, l)
  <2> SUFFICES ASSUME NEW j \in DOMAIN t, NEW k \in DOMAIN t, NEW m \in DOMAIN l, NEW n \in DOMAIN l,
                      t[j].appId = l[m].appId, t[k].appId = l[n].appId, j < k
               PROVE  m < n
    BY DEF InOrder
  <2>1. j = m /\ k = n
    BY <1>1 DEF AppsOnce
  <2> QED
    BY <2>1
<1>4. PinsAlike(t, l)
  BY <1>1, <1>3 DEF PinsAlike
<1> QED
  BY <1>2, <1>4, PinsStay

LEMMA ReplacedPinsStay ==
    ASSUME NEW l \in Seq(Item), AppsOnce(l), NEW i \in DOMAIN l, NEW x \in Item,
           x.appId = l[i].appId, x.pinned = l[i].pinned, NEW t, t = [l EXCEPT ![i] = x]
    PROVE  PinnedIds(t) = PinnedIds(l)
<1>1. Replaced(t, l, i, x)
  BY ItemReplaced
<1>2. t \in Seq(Item) /\ SamePins(t, l)
  <2>1. ASSUME NEW k \in DOMAIN l PROVE t[k].appId = l[k].appId /\ t[k].pinned = l[k].pinned
    <3>1. t[k] = IF k = i THEN x ELSE l[k]
      BY <1>1 DEF Replaced
    <3> QED
      BY <3>1
  <2> QED
    BY <1>1, <2>1 DEF Replaced, SamePins
<1> QED
  BY <1>2, SamePinsStay

LEMMA AppendedPinsStay ==
    ASSUME NEW l \in Seq(Item), AppsOnce(l), NEW x \in Item, ~Knows(l, x.appId), ~x.pinned,
           NEW t, t = Append(l, x)
    PROVE  PinnedIds(t) = PinnedIds(l)
<1>1. DOMAIN l = 1..Len(l) /\ Len(l) \in Nat
  BY SequenceDomain
<1>2. /\ t \in Seq(Item) /\ DOMAIN t = 1..Len(l) + 1
      /\ \A k \in DOMAIN l : t[k] = l[k]
      /\ t[Len(l) + 1] = x
  BY SequenceAppended
<1>3. \A k \in DOMAIN t : k \in DOMAIN l \/ k = Len(l) + 1
  BY <1>1, <1>2
<1>4. \A k \in DOMAIN l : l[k].appId # x.appId /\ k \in DOMAIN t
  BY <1>1, <1>2 DEF Knows
<1>5. AppsOnce(t)
  BY <1>2, <1>3, <1>4 DEF AppsOnce
<1>6. InOrder(t, l)
  <2> SUFFICES ASSUME NEW j \in DOMAIN t, NEW k \in DOMAIN t, NEW m \in DOMAIN l, NEW n \in DOMAIN l,
                      t[j].appId = l[m].appId, t[k].appId = l[n].appId, j < k
               PROVE  m < n
    BY DEF InOrder
  <2>1. j \in DOMAIN l /\ k \in DOMAIN l
    BY <1>2, <1>3, <1>4
  <2>2. j = m /\ k = n
    BY <1>2, <2>1 DEF AppsOnce
  <2> QED
    BY <2>2
<1>7. ASSUME NEW k \in DOMAIN t, t[k].pinned
      PROVE  \E m \in DOMAIN l : l[m].pinned /\ l[m].appId = t[k].appId
  <2>1. k \in DOMAIN l
    BY <1>2, <1>3, <1>7
  <2> QED
    BY <1>2, <1>7, <2>1
<1>8. ASSUME NEW m \in DOMAIN l, l[m].pinned
      PROVE  \E k \in DOMAIN t : t[k].pinned /\ l[m].appId = t[k].appId
  BY <1>2, <1>4, <1>8
<1>9. PinsAlike(t, l)
  BY <1>6, <1>7, <1>8 DEF PinsAlike
<1> QED
  BY <1>2, <1>5, <1>9, PinsStay

LEMMA RemovedPinsStay ==
    ASSUME NEW l \in Seq(Item), AppsOnce(l), NEW i \in DOMAIN l, ~l[i].pinned,
           NEW s \in Seq(Item), DOMAIN s = DOMAIN l, \A k \in DOMAIN l : k # i => s[k] = l[k],
           NEW t, t = RemoveAt(s, i), AppsOnce(t)
    PROVE  PinnedIds(t) = PinnedIds(l)
<1>1. DOMAIN s = 1..Len(s)
  BY SequenceDomain
<1>2. t \in Seq(Item) /\ OneLess(t, s, i)
  BY <1>1, ElementRemoved
<1>3. PICK old : Leaves(t, s, i, old)
  BY <1>2, OneLessLeaves
<1>4. /\ \A k \in DOMAIN t : old[k] \in DOMAIN l /\ t[k] = l[old[k]]
      /\ \A j, k \in DOMAIN t : j < k => old[j] < old[k]
      /\ \A k \in DOMAIN l : k # i => \E j \in DOMAIN t : old[j] = k
  BY <1>3 DEF Leaves
<1>5. InOrder(t, l)
  <2> SUFFICES ASSUME NEW j \in DOMAIN t, NEW k \in DOMAIN t, NEW m \in DOMAIN l, NEW n \in DOMAIN l,
                      t[j].appId = l[m].appId, t[k].appId = l[n].appId, j < k
               PROVE  m < n
    BY DEF InOrder
  <2>1. old[j] \in DOMAIN l /\ old[k] \in DOMAIN l /\ t[j] = l[old[j]] /\ t[k] = l[old[k]]
    BY <1>4
  <2>2. old[j] = m /\ old[k] = n
    BY <2>1 DEF AppsOnce
  <2> QED
    BY <1>4, <2>2
<1>6. ASSUME NEW k \in DOMAIN t, t[k].pinned
      PROVE  \E m \in DOMAIN l : l[m].pinned /\ l[m].appId = t[k].appId
  <2>1. old[k] \in DOMAIN l /\ t[k] = l[old[k]]
    BY <1>4
  <2> QED
    BY <1>6, <2>1
<1>7. ASSUME NEW m \in DOMAIN l, l[m].pinned
      PROVE  \E k \in DOMAIN t : t[k].pinned /\ l[m].appId = t[k].appId
  <2>1. m # i
    BY <1>7
  <2>2. PICK k \in DOMAIN t : old[k] = m
    BY <1>4, <2>1
  <2>3. t[k] = l[m]
    BY <1>4, <2>2
  <2> QED
    BY <1>7, <2>3
<1>8. PinsAlike(t, l)
  BY <1>5, <1>6, <1>7 DEF PinsAlike
<1> QED
  BY <1>2, <1>8, PinsStay

LEMMA CountVisiblePins ==
    ASSUME LauncherInv, LauncherInv', NEW a \in AppIds, NEW visible \in BOOLEAN,
           CountVisibleChanged(a, visible)
    PROVE  PinnedIds(mList') = PinnedIds(mList)
<1>1. PICK l, t : l = mList /\ t = mList'
  OBVIOUS
<1>2. l \in Seq(Item) /\ AppsOnce(l)
  BY <1>1 DEF LauncherInv, GoodList
<1>0. AppsOnce(t)
  BY <1>1 DEF LauncherInv, GoodList
<1> SUFFICES PinnedIds(t) = PinnedIds(l)
  BY <1>1
<1>3. CASE Knows(l, a)
  <2>1. PICK i, s, x : /\ i = FindApplication(l, a)
                       /\ s = [l EXCEPT ![i].countVisible = visible]
                       /\ x = [l[i] EXCEPT !.countVisible = visible]
    OBVIOUS
  <2>2. i \in DOMAIN l /\ l[i] \in Item
    BY <1>2, <1>3, <2>1, ItemFound, SequenceDomain
  <2>3. x \in Item /\ x.appId = l[i].appId /\ x.pinned = l[i].pinned
    BY <2>1, <2>2 DEF Item
  <2>4. s = [l EXCEPT ![i] = x]
    BY <2>1
  <2>5. t = IF ~visible /\ ~l[i].pinned /\ ~l[i].recent THEN RemoveAt(s, i) ELSE s
    BY <1>1, <1>3, <2>1 DEF CountVisibleChanged, ShowsEmblem
  <2>6. CASE ~visible /\ ~l[i].pinned /\ ~l[i].recent
    <3>1. Replaced(s, l, i, x)
      BY <1>2, <2>2, <2>3, <2>4, ItemReplaced
    <3>2. /\ s \in Seq(Item) /\ DOMAIN s = DOMAIN l /\ \A k \in DOMAIN l : k # i => s[k] = l[k]
      BY <3>1 DEF Replaced
    <3>3. t = RemoveAt(s, i) /\ ~l[i].pinned
      BY <2>5, <2>6
    <3> QED
      BY <1>0, <1>2, <2>2, <3>2, <3>3, RemovedPinsStay
  <2>7. CASE ~(~visible /\ ~l[i].pinned /\ ~l[i].recent)
    <3>1. t = s
      BY <2>5, <2>7
    <3>2. PinnedIds(s) = PinnedIds(l)
      BY <1>2, <2>2, <2>3, <2>4, ReplacedPinsStay
    <3> QED
      BY <3>1, <3>2
  <2> QED
    BY <2>6, <2>7
<1>4. CASE ~Knows(l, a)
  <2>1. PICK x : x = [NewItem(a) EXCEPT !.countVisible = TRUE]
    OBVIOUS
  <2>2. t = IF visible /\ a \in installed THEN Append(l, x) ELSE l
    BY <1>1, <1>4, <2>1 DEF CountVisibleChanged
  <2>3. x \in Item /\ x.appId = a /\ ~x.pinned
    BY <2>1 DEF NewItem, Item
  <2>4. CASE visible /\ a \in installed
    BY <1>2, <1>4, <2>2, <2>3, <2>4, AppendedPinsStay
  <2>5. CASE ~(visible /\ a \in installed)
    BY <2>2, <2>5
  <2> QED
    BY <2>4, <2>5
<1> QED
  BY <1>3, <1>4

LEMMA AddedPins ==
    ASSUME LauncherInv, NEW a \in AppIds, ApplicationAdded(a)
    PROVE  PinnedIds(mList') = PinnedIds(mList)
<1>1. PICK l, t : l = mList /\ t = mList'
  OBVIOUS
<1>2. l \in Seq(Item) /\ AppsOnce(l)
  BY <1>1 DEF LauncherInv, GoodList
<1> SUFFICES PinnedIds(t) = PinnedIds(l)
  BY <1>1
<1>3. CASE a = Dash
  BY <1>1, <1>3 DEF ApplicationAdded
<1>4. CASE a # Dash /\ Knows(l, a)
  <2>1. PICK i, x : /\ i = FindApplication(l, a)
                    /\ x = [l[i] EXCEPT !.running = TRUE, !.recent = TRUE]
    OBVIOUS
  <2>2. i \in DOMAIN l /\ l[i] \in Item
    BY <1>2, <1>4, <2>1, ItemFound, SequenceDomain
  <2>3. x \in Item /\ x.appId = l[i].appId /\ x.pinned = l[i].pinned
    BY <2>1, <2>2 DEF Item
  <2>4. t = [l EXCEPT ![i] = x]
    <3>1. t = [l EXCEPT ![i].running = TRUE, ![i].recent = TRUE]
      BY <1>1, <1>4, <2>1 DEF ApplicationAdded, Running
    <3> QED
      BY <2>1, <2>2, <3>1
  <2> QED
    BY <1>2, <2>2, <2>3, <2>4, ReplacedPinsStay
<1>5. CASE a # Dash /\ ~Knows(l, a)
  <2>1. PICK x : x = [NewItem(a) EXCEPT !.running = TRUE, !.recent = TRUE,
                                        !.focused = (a = focusedApp)]
    OBVIOUS
  <2>2. x \in Item /\ x.appId = a /\ ~x.pinned
    BY <2>1 DEF NewItem, Item
  <2>3. t = Append(l, x)
    BY <1>1, <1>5, <2>1 DEF ApplicationAdded, Running
  <2> QED
    BY <1>2, <1>5, <2>2, <2>3, AppendedPinsStay
<1> QED
  BY <1>3, <1>4, <1>5

LEMMA RemovedPins ==
    ASSUME LauncherInv, LauncherInv', NEW a \in AppIds, ApplicationRemoved(a)
    PROVE  PinnedIds(mList') = PinnedIds(mList)
<1>1. PICK l, t : l = mList /\ t = mList'
  OBVIOUS
<1>2. l \in Seq(Item) /\ AppsOnce(l) /\ AppsOnce(t)
  BY <1>1 DEF LauncherInv, GoodList
<1> SUFFICES PinnedIds(t) = PinnedIds(l)
  BY <1>1
<1>3. CASE ~Knows(l, a)
  BY <1>1, <1>3 DEF ApplicationRemoved
<1>4. CASE Knows(l, a)
  <2>1. PICK i, x : /\ i = FindApplication(l, a)
                    /\ x = [l[i] EXCEPT !.running = FALSE]
    OBVIOUS
  <2>2. i \in DOMAIN l /\ l[i] \in Item
    BY <1>2, <1>4, <2>1, ItemFound, SequenceDomain
  <2>3. x \in Item /\ x.appId = l[i].appId /\ x.pinned = l[i].pinned
    BY <2>1, <2>2 DEF Item
  <2>4. CASE l[i].pinned
    <3>1. t = [l EXCEPT ![i].running = FALSE]
      BY <1>1, <1>4, <2>1, <2>4 DEF ApplicationRemoved
    <3>2. t = [l EXCEPT ![i] = x]
      BY <2>1, <3>1
    <3> QED
      BY <1>2, <2>2, <2>3, <3>2, ReplacedPinsStay
  <2>5. CASE ~l[i].pinned
    <3>1. PICK s : s = l
      OBVIOUS
    <3>2. /\ s \in Seq(Item) /\ DOMAIN s = DOMAIN l /\ \A k \in DOMAIN l : k # i => s[k] = l[k]
          /\ t = RemoveAt(s, i)
      BY <1>1, <1>2, <1>4, <2>1, <2>5, <3>1 DEF ApplicationRemoved
    <3> QED
      BY <1>2, <2>2, <2>5, <3>2, RemovedPinsStay
  <2> QED
    BY <2>4, <2>5
<1> QED
  BY <1>3, <1>4

LEMMA FocusPins ==
    ASSUME LauncherInv, NEW a, FocusedAppIdChanged(a)
    PROVE  PinnedIds(mList') = PinnedIds(mList)
<1>1. PICK l, t : l = mList /\ t = mList'
  OBVIOUS
<1>2. GoodList(l, apps, focusedApp)
  BY <1>1 DEF LauncherInv
<1>3. t = FocusOn(l, a)
  BY <1>1 DEF FocusedAppIdChanged, FocusOn
<1>4. GoodList(t, apps, a) /\ SamePins(t, l)
  BY <1>2, <1>3, FocusedGood
<1>5. PinnedIds(t) = PinnedIds(l)
  BY <1>2, <1>4, SamePinsStay DEF GoodList
<1> QED
  BY <1>1, <1>5

-----------------------------------------------------------------------------
(* What refresh() makes of the pins and of the order.                      *)

\* Who is in the launcher after a refresh: what runs, and what is stored and installed.
StaysIn(a, ids) == a \in apps \cup (installed \cap ToSet(ids))

LEMMA StoredPosition ==
    ASSUME NEW ids \in Seq(AppIds), NEW a
    PROVE  a \in ToSet(ids) <=> \E j \in 1..Len(ids) : ids[j] = a
<1>1. DOMAIN ids = 1..Len(ids)
  BY SequenceDomain
<1> QED
  BY <1>1 DEF ToSet

LEMMA StaysMeans ==
    ASSUME NEW x \in Item, NEW ids
    PROVE  Stays(x, Lost(ids)) <=> StaysIn(x.appId, ids)
<1>1. x.appId \in AppIds
  BY ItemFields
<1> QED
  BY <1>1 DEF Stays, Lost, StaysIn

\* r, of which n items are in front, is what refresh() makes of list through c.
Made(r, n, c, list, ids) ==
    /\ Fronted(r, n, c, ids, Len(ids))
    /\ Clearing(c, list, Lost(ids))
    /\ c \in Seq(Item) /\ AppsOnce(c)

\* An item of the result that is not new is one of list that stays.
LEMMA MadeItems ==
    ASSUME NEW list \in Seq(Item), NEW ids \in Seq(AppIds),
           NEW r, NEW n, NEW c, Made(r, n, c, list, ids), NEW k \in DOMAIN r
    PROVE  \/ \E m \in DOMAIN list : /\ StaysIn(list[m].appId, ids)
                                     /\ r[k] = UnpinnedOf(list[m], Lost(ids))
                                     /\ r[k].appId = list[m].appId
                                     /\ r[k].pinned =>
                                           list[m].appId \in installed \cap ToSet(ids)
           \/ k \in 1..n /\ r[k].appId \in installed
<1>1. /\ FromItems(r, n, c) /\ r \in Seq(Item) /\ n \in 0..Len(r)
      /\ \A m \in DOMAIN list : list[m] \in Item /\ list[m].appId \in AppIds
  BY SequenceDomain, ItemFields DEF Made, Fronted
<1>2. DOMAIN r = 1..Len(r) /\ Len(r) \in Nat
  BY <1>1, SequenceDomain
<1>3. CASE \E m \in DOMAIN c : r[k] = c[m]
  <2>1. PICK m \in DOMAIN list : Stays(list[m], Lost(ids)) /\ r[k] = UnpinnedOf(list[m], Lost(ids))
    BY <1>3 DEF Made, Clearing
  <2>2. StaysIn(list[m].appId, ids) /\ r[k].appId = list[m].appId
    BY <1>1, <2>1, StaysMeans, UnpinnedFields
  <2>3. r[k].pinned => list[m].appId \notin Lost(ids)
    BY <1>1, <2>1, UnpinnedFields
  <2>4. r[k].pinned => list[m].appId \in installed \cap ToSet(ids)
    BY <1>1, <2>3 DEF Lost
  <2> QED
    BY <2>1, <2>2, <2>4
<1>4. CASE k <= n /\ r[k].appId \in installed
  BY <1>1, <1>2, <1>4
<1> QED
  BY <1>1, <1>3, <1>4 DEF FromItems

\* The pins are those of stored applications, in the order in which they are stored.
LEMMA RefreshedPins ==
    ASSUME NEW list \in Seq(Item), AppsOnce(list), NEW ids \in Seq(AppIds), NoneTwice(ids),
           NEW r, r = Refreshed(list, ids)
    PROVE  PinsAreOf(PinnedIds(r), ids)
<1>1. PICK c : c = Cleared(list, ids)
  OBVIOUS
<1>2. /\ Clearing(c, list, Lost(ids)) /\ c \in Seq(Item) /\ AppsOnce(c)
      /\ \E n : Fronted(r, n, c, ids, Len(ids))
  BY <1>1, RefreshedFronts
<1>3. PICK n : Fronted(r, n, c, ids, Len(ids))
  BY <1>2
<1>4. Made(r, n, c, list, ids)
  BY <1>2, <1>3 DEF Made
<1>5. /\ r \in Seq(Item) /\ AppsOnce(r) /\ FrontIs(r, n, c, ids, Len(ids))
      /\ BackIs(r, n, c, ids, Len(ids)) /\ n \in 0..Len(r)
      /\ DOMAIN r = 1..Len(r) /\ Len(r) \in Nat /\ DOMAIN ids = 1..Len(ids)
  BY <1>3, SequenceDomain DEF Fronted
<1>6. ASSUME NEW k \in DOMAIN r, r[k].pinned PROVE k \in 1..n
  <2>1. CASE k \in 1..n
    BY <2>1
  <2>2. CASE \E m \in DOMAIN list : /\ r[k].appId = list[m].appId
                                    /\ list[m].appId \in installed \cap ToSet(ids)
    <3>1. PICK j \in 1..Len(ids) : ids[j] = r[k].appId
      BY <2>2, StoredPosition
    <3>2. k \notin n + 1..Len(r)
      BY <1>5, <3>1 DEF BackIs
    <3> QED
      BY <1>5, <3>2
  <2> QED
    BY <1>4, <1>6, <2>1, <2>2, MadeItems
<1>7. PICK p : p = PinnedIds(r)
  OBVIOUS
<1> DEFINE P == {i \in DOMAIN r : r[i].pinned}
           K == {i \in DOMAIN ids : ids[i] \in ToSet(p)}
<1>8. p \in Seq(AppIds) /\ Picks(p, IdsOf(r), P)
  BY <1>5, <1>7, PinnedOnce
<1>9. DOMAIN IdsOf(r) = DOMAIN r /\ \A k \in DOMAIN r : IdsOf(r)[k] = r[k].appId
  BY <1>5, IdsOfList
<1>10. \A k \in DOMAIN p : \E i \in DOMAIN r : i \in P /\ p[k] = r[i].appId
  BY <1>8, <1>9 DEF Picks
<1>17. ASSUME NEW k \in DOMAIN p, NEW m \in DOMAIN p, NEW i \in DOMAIN r, NEW j \in DOMAIN r,
              p[k] = r[i].appId, p[m] = r[j].appId, k < m
       PROVE  i < j
  <2>1. /\ i \in DOMAIN IdsOf(r) /\ j \in DOMAIN IdsOf(r)
        /\ p[k] = IdsOf(r)[i] /\ p[m] = IdsOf(r)[j]
    BY <1>9, <1>17
  <2> QED
    BY <1>8, <1>17, <2>1 DEF Picks
<1>11. ASSUME NEW k \in DOMAIN p PROVE \E i \in 1..n : p[k] = r[i].appId
  <2>1. PICK i \in DOMAIN r : r[i].pinned /\ p[k] = r[i].appId
    BY <1>10
  <2> QED
    BY <1>6, <2>1
<1>12. ASSUME NEW k \in DOMAIN p PROVE \E i \in DOMAIN ids : i \in K /\ p[k] = ids[i]
  <2>1. PICK i \in 1..n : p[k] = r[i].appId
    BY <1>11
  <2>2. PICK j \in 1..Len(ids) : r[i].appId = ids[j]
    BY <1>5 DEF FrontIs
  <2>3. ids[j] \in ToSet(p)
    BY <2>1, <2>2 DEF ToSet
  <2> QED
    BY <1>5, <2>1, <2>2, <2>3
<1>13. ASSUME NEW i \in DOMAIN ids, i \in K PROVE \E k \in DOMAIN p : p[k] = ids[i]
  BY <1>13 DEF ToSet
<1>14. ASSUME NEW k \in DOMAIN p, NEW m \in DOMAIN p, NEW i \in DOMAIN ids, NEW j \in DOMAIN ids,
              p[k] = ids[i], p[m] = ids[j], k < m
       PROVE  i < j
  <2>1. PICK o \in 1..n : p[k] = r[o].appId
    BY <1>11
  <2>2. PICK q \in 1..n : p[m] = r[q].appId
    BY <1>11
  <2>3. o < q
    <3>1. o \in DOMAIN r /\ q \in DOMAIN r
      BY <1>5
    <3> QED
      BY <1>14, <1>17, <2>1, <2>2, <3>1
  <2>4. i \in 1..Len(ids) /\ j \in 1..Len(ids) /\ r[o].appId = ids[i] /\ r[q].appId = ids[j]
    BY <1>5, <1>14, <2>1, <2>2
  <2> QED
    BY <1>5, <2>3, <2>4 DEF FrontIs
<1> HIDE DEF K, P
<1>15. Picks(p, ids, K)
  BY <1>12, <1>13, <1>14 DEF Picks
<1>16. p = Kept(ids, K)
  BY <1>8, <1>15, PicksIsKept
<1> QED
  BY <1>7, <1>16 DEF PinsAreOf, K

\* The list is the stored applications that have an item, then what else runs.
LEMMA RefreshedOrder ==
    ASSUME NEW list \in Seq(Item), AppsOnce(list), NEW ids \in Seq(AppIds), NoneTwice(ids),
           NEW r, r = Refreshed(list, ids)
    PROVE  IdsOf(r) = RefreshReference(list, ids)
<1>1. PICK c : c = Cleared(list, ids)
  OBVIOUS
<1>2. /\ Clearing(c, list, Lost(ids)) /\ c \in Seq(Item) /\ AppsOnce(c)
      /\ \E n : Fronted(r, n, c, ids, Len(ids))
  BY <1>1, RefreshedFronts
<1>3. PICK n : Fronted(r, n, c, ids, Len(ids))
  BY <1>2
<1>4. Made(r, n, c, list, ids)
  BY <1>2, <1>3 DEF Made
<1>5. /\ r \in Seq(Item) /\ AppsOnce(r) /\ n \in 0..Len(r)
      /\ FrontIs(r, n, c, ids, Len(ids)) /\ BackIs(r, n, c, ids, Len(ids))
      /\ \A m \in DOMAIN c : \E k \in DOMAIN r : r[k] = c[m]
      /\ DOMAIN r = 1..Len(r) /\ Len(r) \in Nat
      /\ DOMAIN ids = 1..Len(ids) /\ Len(ids) \in Nat
      /\ \A m \in DOMAIN list : list[m] \in Item
  BY <1>3, SequenceDomain DEF Fronted
<1>6. PICK s : s = IdsOf(r)
  OBVIOUS
<1>7. /\ s \in Seq(AppIds) /\ Len(s) = Len(r) /\ \A k \in 1..Len(r) : s[k] = r[k].appId
  BY <1>5, <1>6, IdsOfList
<1>8. PICK front, back : front = SubSeq(s, 1, n) /\ back = SubSeq(s, n + 1, Len(s))
  OBVIOUS
<1>9. front \in Seq(AppIds) /\ Len(front) = n /\ \A k \in 1..n : front[k] = s[k]
  BY <1>5, <1>7, <1>8, SequencePrefix
<1>10. /\ back \in Seq(AppIds) /\ Len(back) = Len(s) - n
       /\ \A k \in 1..Len(s) - n : back[k] = s[n + k]
  <2>1. PICK m \in Int : m = n + 1
    BY <1>5
  <2>2. /\ back \in Seq(AppIds) /\ Len(back) = Len(s) - m + 1
        /\ \A k \in 1..Len(s) - m + 1 : back[k] = s[m + k - 1]
    <3>1. back = SubSeq(s, m, Len(s)) /\ 1 <= m /\ m <= Len(s) + 1
      BY <1>5, <1>7, <1>8, <2>1
    <3> QED
      BY <1>7, <3>1, SequenceSuffix
  <2>3. Len(s) - m + 1 = Len(s) - n
    BY <1>5, <1>7, <2>1
  <2>4. \A k \in 1..Len(s) - n : m + k - 1 = n + k
    BY <1>5, <2>1
  <2> QED
    BY <2>2, <2>3, <2>4
<1>11. s = front \o back
  <2>1. PICK t : t = front \o back
    OBVIOUS
  <2>2. t \in Seq(AppIds) /\ Joined(t, front, back)
    BY <1>9, <1>10, <2>1, SequenceJoined
  <2>3. Len(t) = Len(s)
    BY <1>5, <1>7, <1>9, <1>10, <2>2 DEF Joined
  <2>4. ASSUME NEW k \in 1..Len(s) PROVE s[k] = t[k]
    <3>1. CASE k <= n
      <4>1. k \in 1..n
        BY <1>5, <3>1
      <4> QED
        BY <1>9, <2>2, <4>1 DEF Joined
    <3>2. CASE k > n
      <4>1. k - n \in 1..Len(s) - n /\ (k - n) + n = k /\ n + (k - n) = k
        BY <1>5, <1>7, <3>2
      <4>2. t[(k - n) + Len(front)] = back[k - n]
        BY <1>10, <2>2, <4>1 DEF Joined
      <4> QED
        BY <1>9, <1>10, <4>1, <4>2
    <3> QED
      BY <1>5, <1>7, <3>1, <3>2
  <2> QED
    BY <1>7, <2>1, <2>2, <2>3, <2>4, SeqEqual
<1>12. DOMAIN front = 1..n /\ DOMAIN back = 1..Len(s) - n /\ n \in Nat /\ n <= Len(r)
  BY <1>5, <1>9, <1>10, SequenceDomain
<1>13. \A k \in 1..n : front[k] = r[k].appId
  BY <1>5, <1>7, <1>9
<1>14. \A k \in 1..Len(s) - n : n + k \in n + 1..Len(r) /\ back[k] = r[n + k].appId
  BY <1>5, <1>7, <1>10
<1> DEFINE W == {i \in DOMAIN ids :
                    ids[i] \in installed \/ (Knows(list, ids[i]) /\ StaysIn(ids[i], ids))}
           B == {i \in DOMAIN list : /\ StaysIn(list[i].appId, ids)
                                     /\ list[i].appId \notin ToSet(front)}
<1>15. ASSUME NEW k \in DOMAIN front PROVE \E i \in DOMAIN ids : i \in W /\ front[k] = ids[i]
  <2>1. PICK i \in 1..Len(ids) : r[k].appId = ids[i]
    BY <1>5, <1>12 DEF FrontIs
  <2>2. k \in DOMAIN r
    BY <1>5, <1>12
  <2>3. i \in W
    <3>1. \/ r[k].appId \in installed
          \/ \E m \in DOMAIN list : StaysIn(list[m].appId, ids) /\ r[k].appId = list[m].appId
      BY <1>4, <2>2, MadeItems
    <3> QED
      BY <1>5, <2>1, <3>1 DEF Knows
  <2> QED
    BY <1>5, <1>12, <1>13, <2>1, <2>3
<1>16. ASSUME NEW m \in DOMAIN list, StaysIn(list[m].appId, ids)
       PROVE  /\ \E k \in DOMAIN r : r[k].appId = list[m].appId
              /\ Knows(c, list[m].appId)
  <2>1. Stays(list[m], Lost(ids))
    BY <1>5, <1>16, StaysMeans
  <2>2. PICK j \in DOMAIN c : c[j] = UnpinnedOf(list[m], Lost(ids))
    BY <1>2, <2>1 DEF Clearing
  <2>3. c[j].appId = list[m].appId
    BY <1>5, <2>2, UnpinnedFields
  <2>4. PICK k \in DOMAIN r : r[k] = c[j]
    BY <1>5
  <2> QED
    BY <2>3, <2>4 DEF Knows
<1>17. ASSUME NEW i \in DOMAIN ids, i \in W PROVE \E k \in DOMAIN front : front[k] = ids[i]
  <2>1. ids[i] \in installed \/ Knows(c, ids[i])
    <3>1. CASE Knows(list, ids[i]) /\ StaysIn(ids[i], ids)
      <4>1. PICK m \in DOMAIN list : list[m].appId = ids[i]
        BY <3>1 DEF Knows
      <4> QED
        BY <1>16, <3>1, <4>1
    <3> QED
      BY <1>17, <3>1
  <2>2. PICK k \in 1..n : r[k].appId = ids[i]
    BY <1>5, <2>1 DEF FrontIs
  <2> QED
    BY <1>12, <1>13, <2>2
<1>18. ASSUME NEW k \in DOMAIN front, NEW m \in DOMAIN front, NEW i \in DOMAIN ids, NEW j \in DOMAIN ids,
              front[k] = ids[i], front[m] = ids[j], k < m
       PROVE  i < j
  <2>1. /\ k \in 1..n /\ m \in 1..n /\ i \in 1..Len(ids) /\ j \in 1..Len(ids)
        /\ r[k].appId = ids[i] /\ r[m].appId = ids[j]
    BY <1>5, <1>12, <1>13, <1>18
  <2> QED
    BY <1>5, <1>18, <2>1 DEF FrontIs
<1>19. PICK l : l = IdsOf(list)
  OBVIOUS
<1>20. /\ l \in Seq(AppIds) /\ NoneTwice(l) /\ DOMAIN l = DOMAIN list
       /\ \A k \in DOMAIN list : l[k] = list[k].appId
  BY <1>19, IdsOfList
<1>21. ASSUME NEW k \in DOMAIN back PROVE \E i \in DOMAIN l : i \in B /\ back[k] = l[i]
  <2>1. PICK q : q = n + k
    OBVIOUS
  <2>2. q \in n + 1..Len(r) /\ back[k] = r[q].appId /\ q \in DOMAIN r /\ q \notin 1..n
    BY <1>5, <1>12, <1>14, <2>1
  <2>3. PICK m \in DOMAIN list : StaysIn(list[m].appId, ids) /\ r[q].appId = list[m].appId
    BY <1>4, <2>2, MadeItems
  <2>4. list[m].appId \notin ToSet(front)
    <3> SUFFICES ASSUME NEW j \in DOMAIN front, front[j] = list[m].appId PROVE FALSE
      BY DEF ToSet
    <3>1. PICK i \in DOMAIN ids : front[j] = ids[i]
      BY <1>15
    <3> QED
      BY <1>5, <2>2, <2>3, <3>1 DEF BackIs
  <2> QED
    BY <1>20, <2>2, <2>3, <2>4
<1>22. ASSUME NEW i \in DOMAIN l, i \in B PROVE \E k \in DOMAIN back : back[k] = l[i]
  <2>1. i \in DOMAIN list /\ StaysIn(list[i].appId, ids) /\ list[i].appId \notin ToSet(front)
    BY <1>20, <1>22
  <2>2. PICK q \in DOMAIN r : r[q].appId = list[i].appId
    BY <1>16, <2>1
  <2>3. q \notin 1..n
    BY <1>12, <1>13, <2>1, <2>2 DEF ToSet
  <2>4. PICK k \in 1..Len(s) - n : n + k = q
    <3>1. q - n \in 1..Len(s) - n /\ n + (q - n) = q
      BY <1>5, <1>7, <1>12, <2>3
    <3> QED
      BY <3>1
  <2> QED
    BY <1>12, <1>14, <1>20, <2>1, <2>2, <2>4
<1>23. ASSUME NEW k \in DOMAIN back, NEW m \in DOMAIN back, NEW i \in DOMAIN l, NEW j \in DOMAIN l,
              back[k] = l[i], back[m] = l[j], k < m
       PROVE  i < j
  <2>1. PICK o, q : o = n + k /\ q = n + m
    OBVIOUS
  <2>2. /\ o \in n + 1..Len(r) /\ q \in n + 1..Len(r) /\ o < q
        /\ r[o].appId = list[i].appId /\ r[q].appId = list[j].appId
    <3>1. k \in 1..Len(s) - n /\ m \in 1..Len(s) - n /\ n + k < n + m
      BY <1>5, <1>7, <1>12, <1>23
    <3>2. l[i] = list[i].appId /\ l[j] = list[j].appId
      BY <1>20
    <3> QED
      BY <1>14, <1>23, <2>1, <3>1, <3>2
  <2>3. ASSUME NEW u \in n + 1..Len(r) PROVE \E v \in DOMAIN c : r[u] = c[v]
    <3>1. u \in DOMAIN r /\ ~(u <= n)
      BY <1>5, <1>12
    <3> QED
      BY <1>3, <3>1 DEF Fronted, FromItems
  <2>4. PICK v \in DOMAIN c : r[o] = c[v]
    BY <2>2, <2>3
  <2>5. PICK w \in DOMAIN c : r[q] = c[w]
    BY <2>2, <2>3
  <2>6. v < w
    BY <1>5, <2>2, <2>4, <2>5 DEF BackIs
  <2> QED
    BY <1>2, <1>20, <2>2, <2>4, <2>5, <2>6 DEF Clearing, InOrder
<1> HIDE DEF W, B
<1>24. front = Kept(ids, W)
  <2>1. Picks(front, ids, W)
    BY <1>15, <1>17, <1>18 DEF Picks
  <2> QED
    BY <1>9, <2>1, PicksIsKept
<1>25. back = Kept(l, B)
  <2>1. Picks(back, l, B)
    BY <1>21, <1>22, <1>23 DEF Picks
  <2> QED
    BY <1>10, <1>20, <2>1, PicksIsKept
<1>26. RefreshReference(list, ids) = front \o back
  BY <1>19, <1>24, <1>25 DEF RefreshReference, W, B, StaysIn
<1> QED
  BY <1>6, <1>11, <1>26

-----------------------------------------------------------------------------
(* What the steps do to the pins and to the order.                         *)

LEMMA OwnPins ==
    ASSUME NEW p \in Seq(AppIds), NoneTwice(p)
    PROVE  PinsAreOf(p, p)
<1> DEFINE K == {i \in DOMAIN p : p[i] \in ToSet(p)}
<1>1. K = DOMAIN p
  BY DEF ToSet
<1>2. Picks(p, p, DOMAIN p)
  BY DEF Picks, NoneTwice
<1>3. p = Kept(p, DOMAIN p)
  BY <1>2, PicksIsKept
<1> QED
  BY <1>1, <1>3 DEF PinsAreOf

\* A handler that stores the pins stores its own.
LEMMA StoredPins ==
    ASSUME LauncherInv', StoredApplications(items') = PinnedIds(mList')
    PROVE  PinsAreOf(PinnedIds(mList'), StoredApplications(items'))
<1>1. PICK t, p : t = mList' /\ p = PinnedIds(t)
  OBVIOUS
<1>2. t \in Seq(Item) /\ AppsOnce(t)
  BY <1>1 DEF LauncherInv, GoodList
<1>3. p \in Seq(AppIds) /\ NoneTwice(p)
  BY <1>1, <1>2, PinnedOnce
<1>4. PinsAreOf(p, p)
  BY <1>3, OwnPins
<1> QED
  BY <1>1, <1>4

LEMMA RefreshStores ==
    ASSUME LauncherInv, NEW list, list \in Seq(Item), AppsOnce(list),
           mList' = Refreshed(list, StoredApplications(items)), UNCHANGED items
    PROVE  PinsAreOf(PinnedIds(mList'), StoredApplications(items'))
<1>1. PICK ids, t : ids = StoredApplications(items) /\ t = mList'
  OBVIOUS
<1>2. ids \in Seq(AppIds) /\ NoneTwice(ids)
  BY <1>1, StoredIds DEF LauncherInv, GoodSetting
<1>3. t = Refreshed(list, ids)
  BY <1>1
<1>4. PinsAreOf(PinnedIds(t), ids)
  BY <1>2, <1>3, RefreshedPins
<1> QED
  BY <1>1, <1>4

LEMMA PinsStep ==
    ASSUME LauncherInv, LauncherInv', [Next]_vars, PinnedIds(mList') # PinnedIds(mList)
    PROVE  PinsAreOf(PinnedIds(mList'), StoredApplications(items'))
<1> DEFINE Stored == PinsAreOf(PinnedIds(mList'), StoredApplications(items'))
<1> SUFFICES Stored
  OBVIOUS
<1>1. ASSUME mList' = mList PROVE Stored
  BY <1>1
<1>2. /\ mList \in Seq(Item) /\ AppsOnce(mList)
      /\ <<>> \in Seq(Item) /\ AppsOnce(<<>>)
  BY EmptyIsGood DEF LauncherInv, GoodList
<1>3. ASSUME NEW from \in DOMAIN mList, NEW to \in DOMAIN mList, Move(from, to) PROVE Stored
  BY <1>3, MoveKeeps, StoredPins
<1>4. ASSUME NEW a \in AppIds, PinKnown(a) PROVE Stored
  BY <1>4, PinKnownKeeps, StoredPins
<1>5. ASSUME NEW a \in AppIds, PinNew(a) PROVE Stored
  BY <1>5, PinNewKeeps, StoredPins
<1>6. ASSUME NEW a \in AppIds, RequestRemove(a) PROVE Stored
  BY <1>6, RequestRemoveKeeps, StoredPins
<1>7. ASSUME NEW a \in AppIds, QuickListActionInvoked(a) PROVE Stored
  BY <1>4, <1>6, <1>7 DEF QuickListActionInvoked
<1>8. ASSUME NEW a \in AppIds, ApplicationAdded(a) PROVE Stored
  BY <1>8, AddedPins
<1>9. ASSUME NEW a \in AppIds, ApplicationRemoved(a) PROVE Stored
  BY <1>9, RemovedPins
<1>10. ASSUME NEW a \in Emblems, NEW visible \in BOOLEAN, CountVisibleChanged(a, visible) PROVE Stored
  BY <1>10, CountVisiblePins, LauncherAssumption
<1>11. ASSUME NEW a \in AppIds \cup {NoApp}, FocusedAppIdChanged(a) PROVE Stored
  BY <1>11, FocusPins
<1>12. CASE RefreshCalled
  BY <1>2, <1>12, RefreshStores DEF RefreshCalled, Refresh, SettingUnread
<1>13. CASE OnSettingsChanged
  <2>1. CASE mCachedItems # items
    BY <1>2, <1>13, <2>1, RefreshStores DEF OnSettingsChanged, Refresh
  <2>2. CASE ~(mCachedItems # items)
    BY <1>1, <1>13, <2>2 DEF OnSettingsChanged
  <2> QED
    BY <2>1, <2>2
<1>14. CASE Restart
  BY <1>2, <1>14, RefreshStores DEF Restart
<1>15. ASSUME NEW a \in AppIds, DesktopFileComesOrGoes(a) PROVE Stored
  BY <1>1, <1>15 DEF DesktopFileComesOrGoes, launcherVars
<1>16. ASSUME NEW a \in Emblems, CountChanged(a) PROVE Stored
  BY <1>1, <1>16 DEF CountChanged
<1>17. ASSUME NEW list \in ForeignLists, SettingWritten(list) PROVE Stored
  BY <1>1, <1>17 DEF SettingWritten
<1>18. CASE UNCHANGED vars
  BY <1>1, <1>18 DEF vars, launcherVars
<1> HIDE DEF Stored
<1> QED
  BY <1>3, <1>4, <1>5, <1>6, <1>7, <1>8, <1>9, <1>10, <1>11, <1>12, <1>13, <1>14, <1>15,
     <1>16, <1>17, <1>18 DEF Next

LEMMA OrderStep ==
    ASSUME LauncherInv, Refresh
    PROVE  IdsOf(mList') = RefreshReference(mList, StoredApplications(items))
<1>1. PICK ids, l, t : ids = StoredApplications(items) /\ l = mList /\ t = mList'
  OBVIOUS
<1>2. ids \in Seq(AppIds) /\ NoneTwice(ids)
  BY <1>1, StoredIds DEF LauncherInv, GoodSetting
<1>3. l \in Seq(Item) /\ AppsOnce(l)
  BY <1>1 DEF LauncherInv, GoodList
<1>4. t = Refreshed(l, ids)
  BY <1>1 DEF Refresh
<1>5. IdsOf(t) = RefreshReference(l, ids)
  BY <1>2, <1>3, <1>4, RefreshedOrder
<1> QED
  BY <1>1, <1>5

-----------------------------------------------------------------------------
(* Theorems.                                                               *)

\* Each item of the launcher is there for a reason that it shows, no application
\* has two items, and every running one but the dash has an item: whatever the
\* setting, the application manager, D-Bus and the user do, in whatever order.
THEOREM ItemsAlwaysHaveReasons == Spec => []ItemsHaveReasons
  BY LauncherInvariant, InvGivesReasons, PTL

\* What AccountsService was sent last has the pinned items of the launcher, in
\* their order: no handler that pins, unpins, moves or drops one forgets to.
THEOREM AccountsAlwaysKnowsThePins == Spec => []AccountsKnowsThePins
  BY LauncherInvariant, InvKnowsPins, PTL

\* Whenever the pinned items change, by whatever step, the setting has them at that
\* moment, in the order the launcher shows.
THEOREM PinsAlwaysChangeWithTheSetting == Spec => PinsChangeWithTheSetting
<1>1. LauncherInv /\ LauncherInv' /\ [Next]_vars
      => [mList' # mList /\ PinnedIds(mList') # PinnedIds(mList) =>
             PinsAreOf(PinnedIds(mList'), StoredApplications(items'))]_vars
  BY PinsStep
<1> QED
  BY LauncherInvariant, <1>1, PTL DEF Spec, PinsChangeWithTheSetting

\* The two loops of refresh() leave what its comments promise: the stored list first
\* and in its order, and behind it what only a running application holds.
THEOREM RefreshAlwaysOrdersTheList == Spec => RefreshOrdersTheList
<1>1. LauncherInv /\ [Next]_vars
      => [items' = items /\ Refresh =>
             IdsOf(mList') = RefreshReference(mList, StoredApplications(items))]_vars
  BY OrderStep
<1> QED
  BY LauncherInvariant, <1>1, PTL DEF Spec, RefreshOrdersTheList

=============================================================================
