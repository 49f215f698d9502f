----------------------------- MODULE ItemProofs -----------------------------
(***************************************************************************)
(* Theorems about the two items of the scene whose behaviour is in C++.    *)
(* The list of the dash, for any rows, lengths and order of events, waits  *)
(* for an item that nobody makes only after several rows that came at once *)
(* were miscounted.  The directional drag area, for any number of touches  *)
(* and of contacts, moves its part of the shell only with a touch that is  *)
(* its own or promised to it, and hears of the end of every active touch;  *)
(* the properties name the exceptions.                                     *)
(***************************************************************************)
EXTENDS DashListView, DragArea, SelectionProofs, FiniteSetTheorems

(***************************************************************************)
(* The list of the dash.                                                   *)
(***************************************************************************)
ListItems == [row : Rows, head : BOOLEAN, y : Int, height : Int, culled : BOOLEAN]

Animations == {"none", "show", "maximize"}

ListViews(stickies) ==
    [rows : Seq(Rows), jobs : SUBSET Rows, items : Seq(ListItems), first : Int, async : Int,
     contentY : Int, prevY : Int, contentHeight : Int, minY : Int, clipY : Int,
     headerImplicit : Int, headerHeight : Int, headerY : Int, shown : Int,
     sticky : stickies, anim : Animations, animTo : Int,
     dirty : BOOLEAN, polish : BOOLEAN]

\* The sticky header may be any: what section it is of is not told here.
IsListView(v) == v \in ListViews({v.sticky})

\* The geometry changes, and nothing else.
Moves(w, v) ==
    /\ IsListView(w)
    /\ w.rows = v.rows /\ w.jobs = v.jobs /\ w.async = v.async
    /\ w.first = v.first /\ Len(w.items) = Len(v.items)
    /\ w.contentY = v.contentY /\ w.anim = v.anim /\ w.animTo = v.animTo
    /\ w.polish = v.polish
    /\ v.items = <<>> => w.minY \in {v.minY, 0}

LEMMA ListLengths ==
    /\ ItemHeight \in Nat /\ ViewHeight \in Nat /\ CacheBuffer \in Nat
    /\ HeaderHeights \subseteq Nat
  BY ListConstants

LEMMA ListFields ==
    ASSUME NEW v, IsListView(v)
    PROVE  /\ v.rows \in Seq(Rows) /\ v.jobs \in SUBSET Rows /\ v.items \in Seq(ListItems)
           /\ v.first \in Int /\ v.async \in Int /\ v.contentY \in Int /\ v.prevY \in Int
           /\ v.contentHeight \in Int /\ v.minY \in Int /\ v.clipY \in Int
           /\ v.headerImplicit \in Int /\ v.headerHeight \in Int /\ v.headerY \in Int
           /\ v.shown \in Int /\ v.animTo \in Int
           /\ v.anim \in Animations
           /\ v.dirty \in BOOLEAN /\ v.polish \in BOOLEAN
           /\ Len(v.items) \in Nat /\ DOMAIN v.items = 1..Len(v.items)
           /\ Len(v.rows) \in Nat /\ DOMAIN v.rows = 1..Len(v.rows)
           /\ v.items # <<>> <=> Len(v.items) # 0
           /\ v.rows # <<>> <=> Len(v.rows) # 0
           /\ \A k \in DOMAIN v.items : v.items[k] \in ListItems
           /\ \A k \in DOMAIN v.rows : v.rows[k] \in Rows
<1>1. /\ v.rows \in Seq(Rows) /\ v.jobs \in SUBSET Rows /\ v.items \in Seq(ListItems)
      /\ v.first \in Int /\ v.async \in Int /\ v.contentY \in Int /\ v.prevY \in Int
      /\ v.contentHeight \in Int /\ v.minY \in Int /\ v.clipY \in Int
      /\ v.headerImplicit \in Int /\ v.headerHeight \in Int /\ v.headerY \in Int
      /\ v.shown \in Int /\ v.animTo \in Int
      /\ v.anim \in Animations
      /\ v.dirty \in BOOLEAN /\ v.polish \in BOOLEAN
  BY DEF IsListView, ListViews
<1> QED
  BY <1>1, SequenceDomain

LEMMA MovesOn ==
    ASSUME NEW v, NEW w, NEW u, IsListView(v), Moves(w, v), Moves(u, w)
    PROVE  Moves(u, v)
<1>1. w.items = <<>> <=> v.items = <<>>
  <2>1. IsListView(w) /\ Len(w.items) = Len(v.items)
    BY DEF Moves
  <2> QED
    BY <2>1, ListFields
<1> QED
  BY <1>1 DEF Moves

LEMMA MovesNot ==
    ASSUME NEW v, IsListView(v)
    PROVE  Moves(v, v)
  BY DEF Moves

\* Items.
LEMMA ItemSizes ==
    ASSUME NEW item \in ListItems
    PROVE  /\ HeadHeight(item) \in Int /\ Height(item) \in Int
           /\ Top(item) \in Int /\ Bottom(item) \in Int
<1>1. item.head \in BOOLEAN /\ item.y \in Int /\ item.height \in Int
  BY DEF ListItems
<1>2. HeadHeight(item) \in Int
  BY <1>1, ListLengths DEF HeadHeight
<1>3. Height(item) \in Int /\ Top(item) \in Int
  BY <1>1, <1>2 DEF Height, Top
<1> QED
  BY <1>2, <1>3 DEF Bottom

LEMMA ItemIsSet ==
    ASSUME NEW item \in ListItems, NEW y \in Int
    PROVE  SetTop(item, y) \in ListItems
<1>1. PICK h \in Int : h = y + HeadHeight(item)
  BY ItemSizes
<1> QED
  BY <1>1 DEF SetTop, ListItems

LEMMA EndsAreInt ==
    ASSUME NEW items \in Seq(ListItems), NEW y \in Int
    PROVE  \A k \in 0..Len(items) : Ends(items, y)[k] \in Int
<1> DEFINE n == Len(items)
           grow == [k \in 1..n |-> [e \in Int |-> e + Height(items[k])]]
           G == [k \in 0..n |-> Int]
<1>1. n \in Nat /\ DOMAIN items = 1..n
  BY SequenceDomain
<1>2. \A k \in 1..n : Height(items[k]) \in Int
  BY <1>1, SequenceDomain, ItemSizes
<1>3. \A k \in 1..n : grow[k] \in [Int -> Int]
  BY <1>2
<1>4. \A k \in 1..n : k - 1 \in 0..n /\ k \in 0..n /\ k # 0
  BY <1>1
<1>5. \A k \in 1..n : grow[k] \in [G[k - 1] -> G[k]]
  BY <1>3, <1>4
<1>6. 0 \in 0..n /\ y \in G[0]
  BY <1>1
<1> HIDE DEF n, G
<1>7. \E f : f = [i \in 0..n |-> f[i]] /\ Rounds(f, n, y, grow)
  <2> HIDE DEF grow
  <2> QED
    BY <1>1, <1>5, <1>6, GoodLoopRuns, Zenon
<1>8. PICK f : f = [i \in 0..n |-> f[i]] /\ Rounds(f, n, y, grow)
  BY <1>7
<1>9. f[0] = y /\ \A i \in 1..n : f[i] = grow[i][f[i - 1]]
  <2> HIDE DEF grow
  <2> QED
    BY <1>1, <1>8, RoundsAt
<1>10. \A i \in 1..n : f[i - 1] \in G[i - 1] => f[i] \in G[i]
  <2> HIDE DEF grow
  <2> QED
    BY <1>5, <1>9
<1>11. \A i \in 0..n : f[i] \in G[i]
  BY <1>1, <1>6, <1>9, <1>10, LoopStays, Zenon
<1>12. \A i \in 0..n : f[i] \in Int
  BY <1>11 DEF G
<1>13. ASSUME NEW i \in 0..n PROVE f[i] = IF i = 0 THEN y ELSE f[i - 1] + Height(items[i])
  <2>1. CASE i = 0
    BY <1>9, <2>1
  <2>2. CASE i # 0
    <3>1. i \in 1..n /\ i - 1 \in 0..n
      BY <1>1, <2>2
    <3>2. f[i - 1] \in Int /\ f[i] = grow[i][f[i - 1]]
      BY <1>9, <1>12, <3>1
    <3> QED
      BY <2>2, <3>1, <3>2
  <2> QED
    BY <2>1, <2>2
<1>14. f = [k \in 0..n |-> IF k = 0 THEN y ELSE f[k - 1] + Height(items[k])]
  BY <1>8, <1>13
<1> DEFINE end == CHOOSE g : g = [k \in 0..n |-> IF k = 0 THEN y ELSE g[k - 1] + Height(items[k])]
<1>15. end = [k \in 0..n |-> IF k = 0 THEN y ELSE end[k - 1] + Height(items[k])]
  <2> HIDE DEF n
  <2> QED
    BY <1>14, Zenon
<1>16. Ends(items, y) = end
  BY Zenon DEF Ends, n
<1> HIDE DEF end
<1>17. end[0] = y /\ \A i \in 1..n : end[i] = end[i - 1] + Height(items[i])
  BY <1>1, <1>4, <1>15
<1>18. \A i \in 1..n : end[i - 1] \in G[i - 1] => end[i] \in G[i]
  BY <1>2, <1>4, <1>17 DEF G
<1>19. \A i \in 0..n : end[i] \in G[i]
  BY <1>1, <1>6, <1>17, <1>18, LoopStays, Zenon
<1> QED
  BY <1>16, <1>19 DEF G, n

LEMMA ItemReplaced ==
    ASSUME NEW items \in Seq(ListItems), NEW k \in 1..Len(items), NEW item \in ListItems
    PROVE  /\ [items EXCEPT ![k] = item] \in Seq(ListItems)
           /\ Len([items EXCEPT ![k] = item]) = Len(items)
<1>1. Len(items) \in Nat /\ DOMAIN items = 1..Len(items) /\ \A i \in DOMAIN items : items[i] \in ListItems
  BY SequenceDomain
<1> DEFINE t == [items EXCEPT ![k] = item]
<1>2. t = [i \in 1..Len(items) |-> IF i = k THEN item ELSE items[i]]
  BY <1>1
<1>3. t \in [1..Len(items) -> ListItems]
  BY <1>1, <1>2
<1> HIDE DEF t
<1>4. t \in Seq(ListItems) /\ DOMAIN t = 1..Len(items)
  BY <1>1, <1>3, SeqDef
<1>5. Len(t) = Len(items)
  BY <1>1, <1>4, LenProperties
<1> QED
  BY <1>4, <1>5 DEF t

LEMMA NoItemReplaced ==
    ASSUME NEW item
    PROVE  [<<>> EXCEPT ![1] = item] = <<>>
<1>1. DOMAIN <<>> = {}
  OBVIOUS
<1>2. [<<>> EXCEPT ![1] = item] = [i \in {} |-> item]
  BY <1>1
<1>3. <<>> = [i \in {} |-> item]
  BY <1>1
<1> QED
  BY <1>2, <1>3

\* The items change.
LEMMA WithItems ==
    ASSUME NEW v, IsListView(v), NEW items \in Seq(ListItems), Len(items) = Len(v.items)
    PROVE  Moves([v EXCEPT !.items = items], v)
<1> DEFINE w == [v EXCEPT !.items = items]
<1>1. w \in ListViews({v.sticky})
  BY DEF IsListView, ListViews
<1>2. /\ w.sticky = v.sticky /\ w.items = items
      /\ w.rows = v.rows /\ w.jobs = v.jobs /\ w.async = v.async /\ w.first = v.first
      /\ w.contentY = v.contentY /\ w.anim = v.anim /\ w.animTo = v.animTo
      /\ w.polish = v.polish /\ w.minY = v.minY
  BY DEF IsListView, ListViews
<1> HIDE DEF w
<1> QED
  BY <1>1, <1>2 DEF Moves, IsListView, w

LEMMA FirstMoves ==
    ASSUME NEW v, IsListView(v), NEW y, v.items # <<>> => y \in Int
    PROVE  Moves(MoveFirst(v, y), v)
<1> DEFINE items == [v.items EXCEPT ![1] = SetTop(v.items[1], y)]
<1>1. MoveFirst(v, y) = [v EXCEPT !.items = items]
  BY DEF MoveFirst
<1>2. items \in Seq(ListItems) /\ Len(items) = Len(v.items)
  <2>1. CASE v.items = <<>>
    <3>1. items = v.items
      BY <2>1, NoItemReplaced
    <3> QED
      BY <3>1, ListFields
  <2>2. CASE v.items # <<>>
    <3>1. v.items \in Seq(ListItems) /\ 1 \in 1..Len(v.items) /\ v.items[1] \in ListItems
      BY <2>2, ListFields
    <3>2. SetTop(v.items[1], y) \in ListItems
      BY <2>2, <3>1, ItemIsSet
    <3> QED
      BY <3>1, <3>2, ItemReplaced
  <2> QED
    BY <2>1, <2>2
<1> HIDE DEF items
<1> QED
  BY <1>1, <1>2, WithItems

LEMMA FirstTop ==
    ASSUME NEW v, IsListView(v), v.items # <<>>
    PROVE  Top(v.items[1]) \in Int
<1>1. v.items[1] \in ListItems
  BY ListFields
<1> QED
  BY <1>1, ItemSizes

LEMMA FirstShifts ==
    ASSUME NEW v, IsListView(v), NEW d, v.items # <<>> => d \in Int
    PROVE  Moves(ShiftFirst(v, d), v)
<1>1. ASSUME v.items # <<>> PROVE Top(v.items[1]) + d \in Int
  <2>1. v.items[1] \in ListItems
    BY <1>1, ListFields
  <2>2. Top(v.items[1]) \in Int /\ d \in Int
    BY <1>1, <2>1, ItemSizes
  <2> QED
    BY <2>2
<1> QED
  BY <1>1, FirstMoves DEF ShiftFirst

LEMMA ClipMoves ==
    ASSUME NEW v, IsListView(v)
    PROVE  Moves(UpdateClipItem(v), v)
<1>1. PICK y \in Int : y = v.contentY + v.shown
  BY ListFields
<1> DEFINE w == [v EXCEPT !.clipY = y]
<1>2. w \in ListViews({v.sticky})
  BY DEF IsListView, ListViews
<1>3. /\ w.sticky = v.sticky /\ w.items = v.items
      /\ w.rows = v.rows /\ w.jobs = v.jobs /\ w.async = v.async /\ w.first = v.first
      /\ w.contentY = v.contentY /\ w.anim = v.anim /\ w.animTo = v.animTo
      /\ w.polish = v.polish /\ w.minY = v.minY
  BY DEF IsListView, ListViews
<1>4. w = UpdateClipItem(v)
  BY <1>1 DEF UpdateClipItem
<1> HIDE DEF w
<1> QED
  BY <1>2, <1>3, <1>4 DEF Moves, IsListView

LEMMA StartMoves ==
    ASSUME NEW v, IsListView(v)
    PROVE  /\ Moves(AdjustMinYExtent(v), v)
           /\ v.items = <<>> => AdjustMinYExtent(v).minY = 0
<1>1. PICK y \in Int : AdjustMinYExtent(v) = [v EXCEPT !.minY = y] /\ (v.items = <<>> => y = 0)
  <2>1. CASE v.items = <<>>
    <3>1. PICK zero \in Int : zero = 0
      OBVIOUS
    <3>2. AdjustMinYExtent(v) = [v EXCEPT !.minY = zero]
      BY <2>1, <3>1 DEF AdjustMinYExtent
    <3> QED
      BY <3>1, <3>2
  <2>2. CASE v.items # <<>>
    <3> DEFINE before == IF v.first = 0 THEN 0
                         ELSE (v.first * SumHeights(v)) \div Len(v.items)
               y == before - Top(v.items[1]) - v.clipY + v.headerImplicit
    <3>1. SumHeights(v) \in Int
      <4>1. v.items \in Seq(ListItems) /\ Len(v.items) \in 0..Len(v.items)
        BY ListFields
      <4> QED
        BY <4>1, EndsAreInt DEF SumHeights
    <3>2. Len(v.items) \in Nat \ {0} /\ v.first \in Int
      BY <2>2, ListFields
    <3>3. v.first * SumHeights(v) \in Int
      BY <3>1, <3>2
    <3>4. before \in Int
      BY <3>2, <3>3
    <3>5. Top(v.items[1]) \in Int /\ v.clipY \in Int /\ v.headerImplicit \in Int
      BY <2>2, ListFields, ItemSizes
    <3> HIDE DEF before
    <3>6. y \in Int
      BY <3>4, <3>5
    <3>7. AdjustMinYExtent(v) = [v EXCEPT !.minY = y]
      BY <2>2 DEF AdjustMinYExtent, before
    <3> HIDE DEF y
    <3> QED
      BY <2>2, <3>6, <3>7
  <2> QED
    BY <2>1, <2>2
<1> DEFINE w == [v EXCEPT !.minY = y]
<1>2. w \in ListViews({v.sticky})
  BY DEF IsListView, ListViews
<1>3. /\ w.sticky = v.sticky /\ w.items = v.items
      /\ w.rows = v.rows /\ w.jobs = v.jobs /\ w.async = v.async /\ w.first = v.first
      /\ w.contentY = v.contentY /\ w.anim = v.anim /\ w.animTo = v.animTo
      /\ w.polish = v.polish /\ w.minY = y
  BY DEF IsListView, ListViews
<1> HIDE DEF w
<1>4. AdjustMinYExtent(v) = w
  BY <1>1 DEF w
<1> QED
  BY <1>1, <1>2, <1>3, <1>4 DEF Moves, IsListView

LEMMA LaidOut ==
    ASSUME NEW v, IsListView(v)
    PROVE  Moves(Layout(v), v)
<1>1. CASE v.items = <<>>
  <2>1. Layout(v) = v
    BY <1>1 DEF Layout
  <2> QED
    BY <2>1, MovesNot
<1>2. CASE v.items # <<>>
  <2> DEFINE n == Len(v.items)
             from == v.contentY - v.clipY + v.shown
             to == v.contentY + ViewHeight - v.clipY
             end == Ends(v.items, Top(v.items[1]))
             pos(i) == end[i - 1]
             culled(i) == end[i] <= from \/ pos(i) >= to
             seen == {i \in 1..n : ~culled(i)}
             top == CHOOSE i \in seen : \A j \in seen : i <= j
             sticks == from > pos(top) \/ (from = pos(top) /\ ~v.items[top].head)
             items == [i \in 1..n |-> [SetTop(v.items[i], pos(i)) EXCEPT !.culled = culled(i)]]
             sticky == IF seen = {} THEN v.sticky
                       ELSE IF sticks THEN SectionAt(v, v.first + top - 1)
                       ELSE NoSection
  <2>1. Layout(v) = [v EXCEPT !.items = items, !.sticky = sticky]
    BY <1>2 DEF Layout
  <2>2. /\ n \in Nat /\ v.items \in Seq(ListItems) /\ v.items[1] \in ListItems
        /\ \A i \in 1..n : v.items[i] \in ListItems
    BY <1>2, ListFields
  <2>3. \A k \in 0..n : end[k] \in Int
    BY <2>2, ItemSizes, EndsAreInt
  <2>4. ASSUME NEW i \in 1..n
        PROVE  [SetTop(v.items[i], pos(i)) EXCEPT !.culled = culled(i)] \in ListItems
    <3>1. i - 1 \in 0..n
      BY <2>2
    <3>2. pos(i) \in Int
      BY <2>3, <3>1
    <3>3. PICK item \in ListItems : item = SetTop(v.items[i], pos(i))
      BY <2>2, <3>2, ItemIsSet
    <3> HIDE DEF culled, pos
    <3>4. PICK out \in BOOLEAN : out = (culled(i) = TRUE)
      OBVIOUS
    <3>5. culled(i) \in BOOLEAN
      BY DEF culled
    <3>6. out = culled(i)
      BY <3>4, <3>5, Zenon
    <3>7. [item EXCEPT !.culled = out] \in ListItems
      BY DEF ListItems
    <3> QED
      BY <3>3, <3>6, <3>7
  <2>5. items \in [1..n -> ListItems]
    <3> HIDE DEF pos, culled
    <3> QED
      BY <2>4
  <2> HIDE DEF items, sticky
  <2>6. items \in Seq(ListItems) /\ DOMAIN items = 1..n
    BY <2>2, <2>5, SeqDef
  <2>7. Len(items) = Len(v.items)
    BY <2>2, <2>6, LenProperties
  <2> HIDE DEF n
  <2> DEFINE w == [v EXCEPT !.items = items, !.sticky = sticky]
  <2>8. w \in ListViews({sticky})
    BY <2>6 DEF IsListView, ListViews
  <2>9. /\ w.sticky = sticky /\ w.items = items
        /\ w.rows = v.rows /\ w.jobs = v.jobs /\ w.async = v.async /\ w.first = v.first
        /\ w.contentY = v.contentY /\ w.anim = v.anim /\ w.animTo = v.animTo
        /\ w.polish = v.polish /\ w.minY = v.minY
    BY DEF IsListView, ListViews
  <2> HIDE DEF w
  <2>10. Layout(v) = w
    BY <2>1 DEF w
  <2> QED
    BY <2>7, <2>8, <2>9, <2>10 DEF Moves, IsListView
<1> QED
  BY <1>1, <1>2

LEMMA MaxIsInt ==
    ASSUME NEW a \in Int, NEW b \in Int
    PROVE  MaxOf(a, b) \in Int /\ MaxOf(a, b) >= a /\ MaxOf(a, b) >= b
  BY DEF MaxOf

LEMMA BoundIsInt ==
    ASSUME NEW a \in Int, NEW x \in Int, NEW b \in Int
    PROVE  /\ Bound(a, x, b) \in Int
           /\ \A low \in Int : a >= low /\ x >= low /\ b >= low => Bound(a, x, b) >= low
  BY DEF Bound

\* The header takes another height or place.
LEMMA HeaderSet ==
    ASSUME NEW v, IsListView(v), NEW h \in Int, NEW y \in Int, NEW s \in Int
    PROVE  /\ Moves([v EXCEPT !.headerHeight = h], v)
           /\ Moves([v EXCEPT !.headerY = y, !.headerHeight = h], v)
           /\ Moves([v EXCEPT !.headerHeight = h, !.shown = s, !.headerY = y], v)
<1> DEFINE Same(w) ==
        /\ w \in ListViews({v.sticky})
        /\ w.sticky = v.sticky /\ w.items = v.items
        /\ w.rows = v.rows /\ w.jobs = v.jobs /\ w.async = v.async /\ w.first = v.first
        /\ w.contentY = v.contentY /\ w.anim = v.anim /\ w.animTo = v.animTo
        /\ w.polish = v.polish /\ w.minY = v.minY
<1>1. ASSUME NEW w, Same(w) PROVE Moves(w, v)
  BY <1>1 DEF Moves, IsListView
<1>2. Same([v EXCEPT !.headerHeight = h])
  BY DEF IsListView, ListViews
<1>3. Same([v EXCEPT !.headerY = y, !.headerHeight = h])
  BY DEF IsListView, ListViews
<1>4. Same([v EXCEPT !.headerHeight = h, !.shown = s, !.headerY = y])
  BY DEF IsListView, ListViews
<1> HIDE DEF Same
<1> QED
  BY <1>1, <1>2, <1>3, <1>4

LEMMA HeaderSteps ==
    ASSUME NEW v, IsListView(v), NEW diff \in Int, NEW keep
    PROVE  Moves(HeaderStep(v, diff, keep), v)
<1> DEFINE up == v.prevY > v.contentY
           bounded == v.contentY + ViewHeight < v.contentHeight
           notItself == v.contentY + diff >= v.headerY + v.headerImplicit
           maximizes == v.anim = "maximize"
           moved == IF maximizes /\ diff > 0 THEN v.shown - diff ELSE v.shown + diff
           shown == IF v.contentY = -v.minY THEN 0 ELSE Bound(0, moved, v.headerImplicit)
           y == IF shown > 0 THEN v.contentY - v.headerImplicit + shown ELSE -v.minY
           beyond == v.headerImplicit - v.minY - v.contentY
           over == v.contentY < -v.minY
           starts == ~up /\ (v.contentY = -v.minY \/ (v.shown = 0 /\ v.prevY = v.headerY))
           shows == (up /\ bounded /\ notItself /\ ~maximizes) \/ v.shown > 0 \/ keep
<1>1. /\ v.contentY \in Int /\ v.minY \in Int /\ v.shown \in Int /\ v.headerImplicit \in Int
      /\ v.headerY \in Int
  BY ListFields
<1>2. moved \in Int /\ 0 \in Int /\ beyond \in Int /\ -v.minY \in Int
  BY <1>1
<1>3. shown \in Int
  <2> HIDE DEF moved
  <2> QED
    BY <1>1, <1>2, BoundIsInt
<1>4. y \in Int
  <2> HIDE DEF shown
  <2> QED
    BY <1>1, <1>2, <1>3
<1>5. HeaderStep(v, diff, keep) =
        IF over THEN [v EXCEPT !.headerY = v.contentY, !.headerHeight = beyond]
        ELSE IF starts
        THEN [v EXCEPT !.headerHeight = v.headerImplicit, !.shown = 0, !.headerY = -v.minY]
        ELSE IF shows
        THEN [v EXCEPT !.headerHeight = v.headerImplicit, !.shown = shown, !.headerY = y]
        ELSE [v EXCEPT !.headerHeight = v.headerImplicit]
  BY Zenon DEF HeaderStep
<1> HIDE DEF over, starts, shows, shown, y, beyond
<1>6. Moves([v EXCEPT !.headerY = v.contentY, !.headerHeight = beyond], v)
  BY <1>1, <1>2, HeaderSet
<1>7. Moves([v EXCEPT !.headerHeight = v.headerImplicit, !.shown = 0, !.headerY = -v.minY], v)
  BY <1>1, <1>2, HeaderSet, Zenon
<1>8. Moves([v EXCEPT !.headerHeight = v.headerImplicit, !.shown = shown, !.headerY = y], v)
  BY <1>1, <1>3, <1>4, HeaderSet
<1>9. Moves([v EXCEPT !.headerHeight = v.headerImplicit], v)
  BY <1>1, HeaderSet
<1> QED
  BY <1>5, <1>6, <1>7, <1>8, <1>9

LEMMA RoomIsMade ==
    ASSUME NEW v, IsListView(v), NEW w, Moves(w, v), NEW diff \in Int, v.shown \in Int
    PROVE  Moves(MakeRoom(v, w, diff), v)
<1>1. IsListView(w)
  BY DEF Moves
<1>2. v.shown \in Int /\ w.shown \in Int
  BY <1>1, ListFields
<1> DEFINE u == UpdateClipItem(w)
<1>3. Moves(u, w)
  BY <1>1, ClipMoves
<1> HIDE DEF u
<1>4. IsListView(u)
  BY <1>3 DEF Moves
<1> DEFINE a == ShiftFirst(u, -diff)
           b == ShiftFirst(u, diff + v.shown - w.shown)
<1>5. -diff \in Int /\ diff + v.shown - w.shown \in Int
  BY <1>2
<1>6. Moves(a, u) /\ Moves(b, u)
  BY <1>4, <1>5, FirstShifts
<1> HIDE DEF a, b
<1>7. IsListView(a)
  BY <1>6 DEF Moves
<1>8. Moves(AdjustMinYExtent(a), a)
  BY <1>7, StartMoves
<1>9. Moves(a, v) /\ Moves(b, v)
  <2>1. Moves(a, w) /\ Moves(b, w)
    BY <1>1, <1>3, <1>6, MovesOn
  <2> QED
    BY <2>1, MovesOn
<1>10. Moves(AdjustMinYExtent(a), v)
  BY <1>8, <1>9, MovesOn
<1>11. MakeRoom(v, w, diff) \in {w, AdjustMinYExtent(a), b}
  BY DEF MakeRoom, a, b, u
<1> QED
  BY <1>9, <1>10, <1>11

LEMMA HeaderAdjusts ==
    ASSUME NEW v, IsListView(v), NEW diff \in Int, NEW keep
    PROVE  Moves(AdjustHeader(v, diff, keep), v)
<1>1. Moves(HeaderStep(v, diff, keep), v)
  BY HeaderSteps
<1>2. v.shown \in Int
  BY ListFields
<1> QED
  BY <1>1, <1>2, RoomIsMade DEF AdjustHeader

\* The rows are there once, and the requests are for them.
RequestsAreForRows(v) ==
    /\ IsInjective(v.rows)
    /\ v.jobs \subseteq ToSet(v.rows)
    /\ v.async \in -1..Len(v.rows) - 1

FirstIsPlaced(v) ==
    /\ v.items = <<>> => v.first = -1
    /\ v.items # <<>> => v.first >= 0

SoundList(v) == IsListView(v) /\ RequestsAreForRows(v) /\ FirstIsPlaced(v)

\* The delegate model is making the item that the list waits for.
ItemIsMade(v) ==
    v.async # -1 => v.async \in 0..Len(v.rows) - 1 /\ v.rows[v.async + 1] \in v.jobs

\* So it is, but for a request that was miscounted.
RequestRuns(v) == astray \/ ItemIsMade(v)

\* As Moves, but the viewport may move and another frame be asked for.
Stays(w, v) ==
    /\ IsListView(w)
    /\ w.rows = v.rows /\ w.jobs = v.jobs /\ w.async = v.async
    /\ w.first = v.first /\ Len(w.items) = Len(v.items)
    /\ w.anim = v.anim /\ w.animTo = v.animTo
    /\ v.polish => w.polish
    /\ v.items = <<>> => w.minY \in {v.minY, 0}

LEMMA MovesStays ==
    ASSUME NEW v, NEW w, IsListView(v), Moves(w, v)
    PROVE  Stays(w, v) /\ IsListView(w)
  BY DEF Moves, Stays

LEMMA StaysOn ==
    ASSUME NEW v, NEW w, NEW u, IsListView(v), Stays(w, v), Stays(u, w)
    PROVE  Stays(u, v)
<1>1. w.items = <<>> <=> v.items = <<>>
  <2>1. IsListView(w) /\ Len(w.items) = Len(v.items)
    BY DEF Stays
  <2> QED
    BY <2>1, ListFields
<1> QED
  BY <1>1 DEF Stays

LEMMA StaysSound ==
    ASSUME NEW v, NEW w, IsListView(v), Stays(w, v)
    PROVE  /\ IsListView(w)
           /\ w.items = <<>> <=> v.items = <<>>
           /\ FirstIsPlaced(v) => FirstIsPlaced(w)
           /\ SoundList(v) => SoundList(w)
           /\ RequestRuns(v) <=> RequestRuns(w)
<1>1. IsListView(w) /\ Len(w.items) = Len(v.items)
  BY DEF Stays
<1>2. w.items = <<>> <=> v.items = <<>>
  BY <1>1, ListFields
<1>3. FirstIsPlaced(v) => FirstIsPlaced(w)
  BY <1>2 DEF FirstIsPlaced, Stays
<1>4. RequestsAreForRows(v) => RequestsAreForRows(w)
  BY DEF RequestsAreForRows, Stays
<1>5. RequestRuns(v) <=> RequestRuns(w)
  BY DEF RequestRuns, ItemIsMade, Stays
<1> QED
  BY <1>1, <1>2, <1>3, <1>4, <1>5 DEF SoundList

LEMMA ViewportMoves ==
    ASSUME NEW v, IsListView(v), NEW y \in Int, NEW keep
    PROVE  /\ Stays(MoveTo(v, y, keep), v)
           /\ MoveTo(v, y, keep).contentY = y
<1>1. CASE y = v.contentY
  <2>1. MoveTo(v, y, keep) = v
    BY <1>1 DEF MoveTo
  <2> QED
    BY <1>1, <2>1, MovesNot, MovesStays
<1>2. CASE y # v.contentY
  <2> DEFINE a == [v EXCEPT !.contentY = y]
             w == AdjustHeader(a, v.prevY - y, keep)
             b == [w EXCEPT !.prevY = y]
             c == Layout(b)
             d == [c EXCEPT !.polish = TRUE]
  <2>1. MoveTo(v, y, keep) = d
    BY <1>2 DEF MoveTo, ViewportMoved
  <2>2. Stays(a, v) /\ a.contentY = y
    <3>1. a \in ListViews({v.sticky})
      BY DEF IsListView, ListViews
    <3>2. /\ a.sticky = v.sticky /\ a.items = v.items
          /\ a.rows = v.rows /\ a.jobs = v.jobs /\ a.async = v.async /\ a.first = v.first
          /\ a.contentY = y /\ a.anim = v.anim /\ a.animTo = v.animTo
          /\ a.polish = v.polish /\ a.minY = v.minY
      BY DEF IsListView, ListViews
    <3> HIDE DEF a
    <3> QED
      BY <3>1, <3>2 DEF Stays, IsListView
  <2> HIDE DEF a
  <2>3. IsListView(a) /\ v.prevY - y \in Int
    BY <2>2, ListFields DEF Stays
  <2>4. Moves(w, a)
    BY <2>3, HeaderAdjusts
  <2>5. Stays(w, v) /\ w.contentY = y /\ IsListView(w)
    <3>1. Stays(w, a) /\ IsListView(w)
      BY <2>3, <2>4, MovesStays
    <3>2. w.contentY = a.contentY
      BY <2>4 DEF Moves
    <3> QED
      BY <2>2, <3>1, <3>2, StaysOn
  <2> HIDE DEF w
  <2>6. Stays(b, w) /\ b.contentY = w.contentY
    <3>1. b \in ListViews({w.sticky})
      BY <2>5 DEF IsListView, ListViews
    <3>2. /\ b.sticky = w.sticky /\ b.items = w.items
          /\ b.rows = w.rows /\ b.jobs = w.jobs /\ b.async = w.async /\ b.first = w.first
          /\ b.contentY = w.contentY /\ b.anim = w.anim /\ b.animTo = w.animTo
          /\ b.polish = w.polish /\ b.minY = w.minY
      BY <2>5 DEF IsListView, ListViews
    <3> HIDE DEF b
    <3> QED
      BY <3>1, <3>2 DEF Stays, IsListView
  <2>7. IsListView(b)
    BY <2>6 DEF Stays
  <2> HIDE DEF b
  <2>8. Moves(c, b)
    BY <2>7, LaidOut
  <2>9. Stays(c, b) /\ IsListView(c) /\ c.contentY = b.contentY
    BY <2>7, <2>8, MovesStays DEF Moves
  <2> HIDE DEF c
  <2>10. Stays(d, c) /\ d.contentY = c.contentY
    <3>1. PICK yes \in BOOLEAN : yes = TRUE
      OBVIOUS
    <3>2. d = [c EXCEPT !.polish = yes]
      BY <3>1
    <3>3. d \in ListViews({c.sticky})
      BY <2>9, <3>2 DEF IsListView, ListViews
    <3>4. /\ d.sticky = c.sticky /\ d.items = c.items
          /\ d.rows = c.rows /\ d.jobs = c.jobs /\ d.async = c.async /\ d.first = c.first
          /\ d.contentY = c.contentY /\ d.anim = c.anim /\ d.animTo = c.animTo
          /\ d.polish = yes /\ d.minY = c.minY
      BY <2>9, <3>2 DEF IsListView, ListViews
    <3> HIDE DEF d
    <3> QED
      BY <3>1, <3>3, <3>4 DEF Stays, IsListView
  <2>11. Stays(b, v)
    BY <2>5, <2>6, StaysOn
  <2>12. Stays(c, v)
    BY <2>9, <2>11, StaysOn
  <2>13. Stays(d, v)
    BY <2>10, <2>12, StaysOn
  <2> QED
    BY <2>1, <2>5, <2>6, <2>9, <2>10, <2>13
<1> QED
  BY <1>1, <1>2

\* Flags and the heights of the content.
LEMMA FrameAsked ==
    ASSUME NEW v, IsListView(v)
    PROVE  /\ Stays([v EXCEPT !.polish = TRUE, !.dirty = TRUE], v)
           /\ [v EXCEPT !.polish = TRUE, !.dirty = TRUE].polish = TRUE
           /\ [v EXCEPT !.polish = TRUE, !.dirty = TRUE].contentY = v.contentY
           /\ [v EXCEPT !.polish = TRUE, !.dirty = TRUE].minY = v.minY
<1>1. PICK yes \in BOOLEAN : yes = TRUE
  OBVIOUS
<1> DEFINE w == [v EXCEPT !.polish = yes, !.dirty = yes]
<1>2. w \in ListViews({v.sticky})
  BY DEF IsListView, ListViews
<1>3. /\ w.sticky = v.sticky /\ w.items = v.items
      /\ w.rows = v.rows /\ w.jobs = v.jobs /\ w.async = v.async /\ w.first = v.first
      /\ w.contentY = v.contentY /\ w.anim = v.anim /\ w.animTo = v.animTo
      /\ w.polish = yes /\ w.minY = v.minY
  BY DEF IsListView, ListViews
<1>4. w = [v EXCEPT !.polish = TRUE, !.dirty = TRUE]
  BY <1>1
<1> HIDE DEF w
<1>5. Stays(w, v)
  BY <1>1, <1>2, <1>3 DEF Stays, IsListView
<1> QED
  BY <1>1, <1>3, <1>4, <1>5

\* What is known of a view of which one field of the geometry is set.
LEMMA ContentSet ==
    ASSUME NEW v, IsListView(v), NEW h \in Int
    PROVE  /\ Stays([v EXCEPT !.contentHeight = h], v)
           /\ [v EXCEPT !.contentHeight = h].contentY = v.contentY
           /\ v.items # <<>> => Stays([v EXCEPT !.minY = h], v)
           /\ Stays([v EXCEPT !.prevY = h], v)
           /\ Stays([v EXCEPT !.headerY = h], v)
           /\ Stays([v EXCEPT !.shown = h], v)
           /\ Stays([v EXCEPT !.headerImplicit = h], v)
<1> DEFINE Same(w) ==
        /\ w \in ListViews({v.sticky})
        /\ w.sticky = v.sticky /\ w.items = v.items
        /\ w.rows = v.rows /\ w.jobs = v.jobs /\ w.async = v.async /\ w.first = v.first
        /\ w.contentY = v.contentY /\ w.anim = v.anim /\ w.animTo = v.animTo
        /\ w.polish = v.polish
<1>1. ASSUME NEW w, Same(w), v.items = <<>> => w.minY = v.minY PROVE Stays(w, v)
  BY <1>1 DEF Stays, IsListView
<1>2. Same([v EXCEPT !.contentHeight = h]) /\ [v EXCEPT !.contentHeight = h].minY = v.minY
  BY DEF IsListView, ListViews
<1>3. Same([v EXCEPT !.minY = h])
  BY DEF IsListView, ListViews
<1>4. Same([v EXCEPT !.prevY = h]) /\ [v EXCEPT !.prevY = h].minY = v.minY
  BY DEF IsListView, ListViews
<1>5. Same([v EXCEPT !.headerY = h]) /\ [v EXCEPT !.headerY = h].minY = v.minY
  BY DEF IsListView, ListViews
<1>6. Same([v EXCEPT !.shown = h]) /\ [v EXCEPT !.shown = h].minY = v.minY
  BY DEF IsListView, ListViews
<1>7. Same([v EXCEPT !.headerImplicit = h]) /\ [v EXCEPT !.headerImplicit = h].minY = v.minY
  BY DEF IsListView, ListViews
<1>8. [v EXCEPT !.contentHeight = h].contentY = v.contentY
  BY <1>2
<1> HIDE DEF Same
<1> QED
  BY <1>1, <1>2, <1>3, <1>4, <1>5, <1>6, <1>7, <1>8

LEMMA ContentHeightChanges ==
    ASSUME NEW v, IsListView(v), NEW h \in Int, NEW keep
    PROVE  Stays(SetContentHeight(v, h, keep), v)
<1> DEFINE w == [v EXCEPT !.contentHeight = h]
           low == -w.minY
           high == MaxOf(low, h - ViewHeight)
           y == Bound(low, w.contentY, high)
           a == MoveTo(w, y, keep)
           b == IF held THEN w ELSE a
<1>1. Stays(w, v)
  BY ContentSet
<1> HIDE DEF w
<1>2. IsListView(w)
  BY <1>1 DEF Stays
<1>3. y \in Int
  <2>1. w.minY \in Int /\ w.contentY \in Int /\ h - ViewHeight \in Int
    BY <1>2, ListFields, ListLengths
  <2>2. low \in Int
    BY <2>1
  <2> HIDE DEF low
  <2>3. high \in Int
    BY <2>1, <2>2, MaxIsInt
  <2> HIDE DEF high
  <2> QED
    BY <2>1, <2>2, <2>3, BoundIsInt
<1> HIDE DEF y
<1>4. Stays(a, w)
  BY <1>2, <1>3, ViewportMoves
<1> HIDE DEF a
<1>5. Stays(a, v)
  BY <1>1, <1>4, StaysOn
<1>6. Stays(b, v)
  BY <1>1, <1>5
<1> HIDE DEF b
<1>7. IsListView(b)
  BY <1>6 DEF Stays
<1>8. Stays(UpdateClipItem(b), b)
  BY <1>7, ClipMoves, MovesStays
<1>9. Stays(UpdateClipItem(b), v)
  BY <1>6, <1>8, StaysOn
<1>10. Stays(v, v)
  BY MovesNot, MovesStays
<1>11. SetContentHeight(v, h, keep) = IF h = v.contentHeight THEN v ELSE UpdateClipItem(b)
  BY Zenon DEF SetContentHeight, b, a, y, w
<1> QED
  BY <1>9, <1>10, <1>11

LEMMA ContentHeightIsInt ==
    ASSUME NEW v, IsListView(v)
    PROVE  ContentHeight(v) \in Int
<1>1. CASE v.items = <<>>
  BY <1>1, ListFields DEF ContentHeight
<1>2. CASE v.items # <<>>
  <2> DEFINE unknown == Len(v.rows) - (v.first + Len(v.items))
             s == SumHeights(v)
             e == Bottom(Last(v.items))
  <2>1. /\ v.items \in Seq(ListItems) /\ Len(v.items) \in 1..Len(v.items) /\ Len(v.items) \in Nat
        /\ v.items[Len(v.items)] \in ListItems
    BY <1>2, ListFields
  <2>2. s \in Int
    <3>1. Len(v.items) \in 0..Len(v.items)
      BY <2>1
    <3> QED
      BY <2>1, <3>1, EndsAreInt DEF SumHeights
  <2>3. e \in Int
    BY <2>1, ItemSizes DEF Last
  <2>4. unknown \in Int /\ v.clipY \in Int
    BY ListFields
  <2> HIDE DEF unknown, s, e
  <2>5. unknown * s \in Int
    BY <2>2, <2>4
  <2>6. (unknown * s) \div Len(v.items) \in Int
    BY <2>1, <2>5
  <2>7. ContentHeight(v) = e + v.clipY + (unknown * s) \div Len(v.items)
    BY <1>2 DEF ContentHeight, e, s, unknown
  <2> QED
    BY <2>3, <2>4, <2>6, <2>7
<1> QED
  BY <1>1, <1>2

LEMMA ContentIsMeasured ==
    ASSUME NEW v, IsListView(v)
    PROVE  Stays(PolishContentHeight(v), v)
<1>1. PICK height \in Int : height = ContentHeight(v)
  BY ContentHeightIsInt
<1> DEFINE w == IF v.items # <<>> /\ v.first # 0
                THEN [v EXCEPT !.minY = MaxOf(@, ViewHeight - height)] ELSE v
           a == [w EXCEPT !.dirty = FALSE]
           b == AdjustMinYExtent(a)
           keep == v.headerY = v.contentY
           c == SetContentHeight(b, height, keep)
<1>2. Stays(v, v)
  BY MovesNot, MovesStays
<1>3. Stays(w, v)
  <2>1. v.minY \in Int /\ ViewHeight - height \in Int
    BY ListFields, ListLengths
  <2>2. PICK y \in Int : y = MaxOf(v.minY, ViewHeight - height)
    BY <2>1, MaxIsInt
  <2>3. w = IF v.items # <<>> /\ v.first # 0 THEN [v EXCEPT !.minY = y] ELSE v
    BY <2>2
  <2> HIDE DEF w
  <2> QED
    BY <1>2, <2>3, ContentSet
<1> HIDE DEF w
<1>4. IsListView(w)
  BY <1>3 DEF Stays
<1>5. Stays(a, w)
  <2>1. PICK no \in BOOLEAN : no = FALSE
    OBVIOUS
  <2>2. a = [w EXCEPT !.dirty = no]
    BY <2>1
  <2>3. a \in ListViews({w.sticky})
    BY <1>4, <2>2 DEF IsListView, ListViews
  <2>4. /\ a.sticky = w.sticky /\ a.items = w.items
        /\ a.rows = w.rows /\ a.jobs = w.jobs /\ a.async = w.async /\ a.first = w.first
        /\ a.contentY = w.contentY /\ a.anim = w.anim /\ a.animTo = w.animTo
        /\ a.polish = w.polish /\ a.minY = w.minY
    BY <1>4, <2>2 DEF IsListView, ListViews
  <2> HIDE DEF a
  <2> QED
    BY <2>3, <2>4 DEF Stays, IsListView
<1> HIDE DEF a
<1>6. IsListView(a)
  BY <1>5 DEF Stays
<1>7. Stays(b, a) /\ IsListView(b)
  BY <1>6, StartMoves, MovesStays
<1> HIDE DEF b
<1>8. Stays(c, b)
  <2> HIDE DEF keep
  <2> QED
    BY <1>7, ContentHeightChanges
<1>9. Stays(a, v)
  BY <1>3, <1>5, StaysOn
<1>10. Stays(b, v)
  BY <1>7, <1>9, StaysOn
<1>11. Stays(c, v)
  BY <1>8, <1>10, StaysOn
<1>12. PolishContentHeight(v) = IF ~v.dirty THEN v ELSE c
  BY <1>1, Zenon DEF PolishContentHeight, c, b, a, w
<1> QED
  BY <1>2, <1>11, <1>12

LEMMA StartKeepsSticky ==
    ASSUME NEW v, IsListView(v)
    PROVE  AdjustMinYExtent(v).sticky = v.sticky
<1>1. PICK y : AdjustMinYExtent(v) = [v EXCEPT !.minY = y]
  BY DEF AdjustMinYExtent
<1>2. [v EXCEPT !.minY = y].sticky = v.sticky
  BY DEF IsListView, ListViews
<1> QED
  BY <1>1, <1>2

(* Creating items. *)
LEMMA CreatedItem ==
    ASSUME NEW v, IsListView(v), NEW i \in Int, Created(v, i)
    PROVE  i - v.first + 1 \in 1..Len(v.items) /\ ItemAt(v, i) \in ListItems
<1>1. v.first \in Int /\ Len(v.items) \in Nat
  BY ListFields
<1>2. i - v.first + 1 \in 1..Len(v.items)
  BY <1>1 DEF Created
<1>3. v.items[i - v.first + 1] \in ListItems
  <2> DEFINE k == i - v.first + 1
  <2>1. k \in DOMAIN v.items
    BY <1>2, ListFields
  <2> HIDE DEF k
  <2>2. v.items[k] \in ListItems
    BY <2>1, ListFields
  <2> QED
    BY <2>2 DEF k
<1> QED
  BY <1>2, <1>3 DEF ItemAt

LEMMA HeaderIsBoolean ==
    ASSUME NEW v, IsListView(v), NEW i \in Int
    PROVE  GetsHeader(v, i) \in BOOLEAN
<1>1. CASE StealsHeader(v, i)
  <2>1. Created(v, i)
    BY <1>1 DEF StealsHeader
  <2>2. ItemAt(v, i).head \in BOOLEAN
    BY <2>1, CreatedItem DEF ListItems
  <2> QED
    BY <1>1, <2>2 DEF GetsHeader
<1>2. CASE ~StealsHeader(v, i)
  <2>1. StartsSection(v, i) \in BOOLEAN
    BY DEF StartsSection
  <2> QED
    BY <1>2, <2>1 DEF GetsHeader
<1> QED
  BY <1>1, <1>2

LEMMA NewItemIsItem ==
    ASSUME NEW v, IsListView(v), NEW i \in Int, NEW raw \in ListItems
    PROVE  NewItem(v, i, raw) \in ListItems
<1>1. /\ Height(raw) \in Int /\ HeadHeight(raw) \in Int
      /\ v.headerHeight \in Int /\ v.clipY \in Int /\ v.contentY \in Int
  BY ItemSizes, ListFields
<1>2. ASSUME NEW j \in {i - 1, i, i + 1}, Created(v, j)
      PROVE  Bottom(ItemAt(v, j)) \in Int /\ Top(ItemAt(v, j)) \in Int
  <2>1. j \in Int
    OBVIOUS
  <2> QED
    BY <1>2, <2>1, CreatedItem, ItemSizes
<1>3. NewTop(v, i, raw) \in Int
  <2>1. CASE Created(v, i - 1)
    BY <1>2, <2>1 DEF NewTop
  <2>2. CASE ~Created(v, i - 1) /\ Created(v, i)
    <3>1. Top(ItemAt(v, i)) \in Int
      BY <1>2, <2>2
    <3> QED
      BY <1>1, <2>2, <3>1 DEF NewTop
  <2>3. CASE ~Created(v, i - 1) /\ ~Created(v, i) /\ Created(v, i + 1)
    <3>1. Top(ItemAt(v, i + 1)) \in Int
      BY <1>2, <2>3
    <3> QED
      BY <1>1, <2>3, <3>1 DEF NewTop
  <2>4. CASE ~Created(v, i - 1) /\ ~Created(v, i) /\ ~Created(v, i + 1)
    BY <1>1, <2>4 DEF NewTop
  <2> QED
    BY <2>1, <2>2, <2>3, <2>4
<1>4. PICK item \in ListItems : item = SetTop(raw, NewTop(v, i, raw))
  BY <1>3, ItemIsSet
<1>5. PICK out \in BOOLEAN : out <=> \/ Bottom(item) + v.clipY <= v.contentY
                                     \/ Top(item) + v.clipY >= v.contentY + ViewHeight
  OBVIOUS
<1>6. CulledIfUnseen(v, item) = [item EXCEPT !.culled = out]
  BY <1>5 DEF CulledIfUnseen
<1>7. [item EXCEPT !.culled = out] \in ListItems
  BY DEF ListItems
<1> QED
  BY <1>4, <1>6, <1>7 DEF NewItem

\* One header is given or taken.
LEMMA HeadSet ==
    ASSUME NEW v, IsListView(v), NEW k \in 1..Len(v.items), NEW yes \in BOOLEAN
    PROVE  LET w == [v EXCEPT !.items[k].head = yes]
           IN  Stays(w, v) /\ w.sticky = v.sticky
<1> DEFINE item == [v.items[k] EXCEPT !.head = yes]
           items == [v.items EXCEPT ![k] = item]
           w == [v EXCEPT !.items = items]
<1>1. v.items[k] \in ListItems /\ v.items \in Seq(ListItems)
  BY ListFields
<1>2. item \in ListItems
  BY <1>1 DEF ListItems
<1> HIDE DEF item
<1>3. items \in Seq(ListItems) /\ Len(items) = Len(v.items)
  BY <1>1, <1>2, ItemReplaced
<1>4. w = [v EXCEPT !.items[k].head = yes]
  BY DEF item
<1> HIDE DEF items
<1>5. Stays(w, v)
  BY <1>3, WithItems, MovesStays
<1>6. w.sticky = v.sticky
  BY DEF IsListView, ListViews
<1> QED
  BY <1>4, <1>5, <1>6

LEMMA HeaderIsTaken ==
    ASSUME NEW v, IsListView(v), NEW i \in Int
    PROVE  Stays(HeaderTaken(v, i), v) /\ HeaderTaken(v, i).sticky = v.sticky
<1>1. CASE StealsHeader(v, i)
  <2>1. Created(v, i)
    BY <1>1 DEF StealsHeader
  <2>2. PICK k \in 1..Len(v.items) : k = i - v.first + 1
    BY <2>1, CreatedItem
  <2>3. PICK no \in BOOLEAN : no = FALSE
    OBVIOUS
  <2>4. HeaderTaken(v, i) = [v EXCEPT !.items[k].head = no]
    BY <1>1, <2>2, <2>3 DEF HeaderTaken
  <2> QED
    BY <2>4, HeadSet
<1>2. CASE ~StealsHeader(v, i)
  <2>1. HeaderTaken(v, i) = v
    BY <1>2 DEF HeaderTaken
  <2> QED
    BY <2>1, MovesNot, MovesStays
<1> QED
  BY <1>1, <1>2

LEMMA ItemIsAdded ==
    ASSUME NEW v, SoundList(v), NEW i \in 0..Len(v.rows) - 1, ~LostItem(v, i),
           NEW raw \in ListItems, NEW w, w = AddItem(v, i, raw)
    PROVE  /\ SoundList(w)
           /\ w.rows = v.rows /\ w.jobs = v.jobs /\ w.async = v.async /\ w.sticky = v.sticky
           /\ Len(w.items) = Len(v.items) + 1
           /\ Created(w, i)
<1> DEFINE place == IF v.items = <<>> THEN 1 ELSE MaxOf(0, i - v.first) + 1
           before == v.first < 0 \/ i < v.first
<1>1. /\ IsListView(v) /\ v.first \in Int /\ Len(v.items) \in Nat /\ i \in Nat
      /\ v.items # <<>> <=> Len(v.items) # 0
      /\ v.items = <<>> => v.first = -1
      /\ v.items # <<>> => v.first >= 0
      /\ v.items \in Seq(ListItems) /\ v.polish \in BOOLEAN
  BY ListFields DEF SoundList, FirstIsPlaced
<1>2. v.items = <<>> \/ i = 0 \/ Created(v, i - 1) \/ Created(v, i) \/ Created(v, i + 1)
  BY DEF LostItem
<1>3. place \in 1..Len(v.items) + 1
  BY <1>1, <1>2 DEF Created, MaxOf
<1>4. PICK items : items = InsertAt(v.items, place, NewItem(v, i, raw))
  OBVIOUS
<1>5. items \in Seq(ListItems) /\ Len(items) = Len(v.items) + 1
  <2> HIDE DEF place
  <2>1. NewItem(v, i, raw) \in ListItems
    <3>1. IsListView(v) /\ i \in Int
      BY <1>1 DEF SoundList
    <3> QED
      BY <3>1, NewItemIsItem
  <2>2. items \in Seq(ListItems) /\ OneMore(items, v.items, place, NewItem(v, i, raw))
    BY <1>1, <1>3, <1>4, <2>1, ElementInserted
  <2> QED
    BY <2>2 DEF OneMore
<1>6. PICK first \in Int : first = IF before THEN i ELSE v.first
  BY <1>1
<1>7. PICK polish \in BOOLEAN : polish <=> (v.polish \/ before)
  OBVIOUS
<1>8. PICK yes \in BOOLEAN : yes = TRUE
  OBVIOUS
<1> DEFINE a == [v EXCEPT !.items = items, !.first = first, !.polish = polish, !.dirty = yes]
<1>9. w = AdjustMinYExtent(a)
  <2>1. (v.polish \/ before) = polish
    BY <1>7
  <2> HIDE DEF before, place
  <2> QED
    BY <1>4, <1>6, <1>8, <2>1 DEF AddItem, before, place
<1>10. a \in ListViews({v.sticky})
  BY <1>1, <1>5 DEF IsListView, ListViews
<1>11. /\ a.sticky = v.sticky /\ a.items = items
       /\ a.rows = v.rows /\ a.jobs = v.jobs /\ a.async = v.async /\ a.first = first
  BY <1>1 DEF IsListView, ListViews
<1> HIDE DEF a
<1>12. IsListView(a)
  BY <1>10, <1>11 DEF IsListView
<1>13. Stays(w, a) /\ w.sticky = a.sticky
  <2>1. Moves(w, a)
    BY <1>9, <1>12, StartMoves
  <2>2. w.sticky = a.sticky
    BY <1>9, <1>12, StartKeepsSticky
  <2> QED
    BY <1>12, <2>1, <2>2, MovesStays
<1>14. first >= 0 /\ i - first >= 0 /\ i < first + Len(items)
  BY <1>1, <1>2, <1>5, <1>6 DEF Created
<1>15. SoundList(a)
  <2>1. a.items # <<>>
    BY <1>1, <1>5, <1>11, <1>12, ListFields
  <2>2. FirstIsPlaced(a)
    BY <1>11, <1>14, <2>1 DEF FirstIsPlaced
  <2>3. RequestsAreForRows(a)
    BY <1>11 DEF SoundList, RequestsAreForRows
  <2> QED
    BY <1>12, <2>2, <2>3 DEF SoundList
<1>16. SoundList(w)
  BY <1>12, <1>13, <1>15, StaysSound
<1>17. Created(w, i)
  <2>1. w.first = first /\ Len(w.items) = Len(items)
    BY <1>11, <1>13 DEF Stays
  <2> QED
    BY <1>1, <1>14, <2>1 DEF Created
<1> QED
  BY <1>5, <1>11, <1>13, <1>16, <1>17 DEF Stays

\* What creating items does to a view.
Asks(w, v) == SoundList(w) /\ w.rows = v.rows /\ (RequestRuns(v) => RequestRuns(w))

Creates(w, v) == Asks(w, v) /\ w.sticky = v.sticky /\ Len(w.items) >= Len(v.items)

LEMMA CreatedNow ==
    ASSUME NEW v, SoundList(v), NEW i \in 0..Len(v.rows) - 1, NEW w, w = CreateNow(v, i)
    PROVE  /\ SoundList(w)
           /\ w.rows = v.rows /\ w.async = -1 /\ w.sticky = v.sticky
           /\ Len(w.items) >= Len(v.items)
           /\ Len(w.items) # Len(v.items) \/ ~LostItem(v, i) => Created(w, i)
<1> DEFINE row == v.rows[i + 1]
           jobs == v.jobs \ {row}
<1>1. PICK none \in Int : none = -1
  OBVIOUS
<1> DEFINE a == [v EXCEPT !.async = none, !.jobs = jobs]
           b == HeaderTaken(a, i)
           raw == [row |-> row, head |-> GetsHeader(v, i), y |-> 0,
                   height |-> RowHeight(row), culled |-> FALSE]
           c == AddItem(b, i, raw)
<1>2. /\ IsListView(v) /\ Len(v.rows) \in Nat /\ i \in Int /\ v.rows[i + 1] \in Rows
      /\ v.jobs \in SUBSET Rows /\ Len(v.items) \in Nat
  <2>1. IsListView(v) /\ i + 1 \in DOMAIN v.rows
    BY ListFields DEF SoundList
  <2> QED
    BY <2>1, ListFields
<1>3. a \in ListViews({v.sticky})
  BY <1>2 DEF IsListView, ListViews
<1>4. /\ a.sticky = v.sticky /\ a.items = v.items /\ a.rows = v.rows /\ a.first = v.first
      /\ a.async = none /\ a.jobs = jobs
  BY <1>2 DEF IsListView, ListViews
<1>5. w = IF LostItem(v, i) THEN a ELSE c
  <2>1. w = CreateNow(v, i)
    OBVIOUS
  <2> QED
    BY <1>1, <2>1 DEF CreateNow
<1> HIDE DEF a
<1>6. SoundList(a)
  <2>1. RequestsAreForRows(a)
    <3>1. a.jobs \subseteq v.jobs
      BY <1>4
    <3>2. a.async \in -1..Len(a.rows) - 1
      BY <1>1, <1>2, <1>4
    <3> QED
      BY <1>4, <3>1, <3>2 DEF SoundList, RequestsAreForRows
  <2>2. FirstIsPlaced(a)
    BY <1>4 DEF SoundList, FirstIsPlaced
  <2>3. IsListView(a)
    BY <1>3, <1>4 DEF IsListView
  <2> QED
    BY <2>1, <2>2, <2>3 DEF SoundList
<1>7. CASE LostItem(v, i)
  <2>1. w = a
    BY <1>5, <1>7
  <2> QED
    BY <1>1, <1>2, <1>4, <1>6, <1>7, <2>1
<1>8. CASE ~LostItem(v, i)
  <2>1. Stays(b, a) /\ b.sticky = a.sticky
    BY <1>2, <1>6, HeaderIsTaken DEF SoundList
  <2> HIDE DEF b
  <2>2. SoundList(b) /\ b.rows = v.rows /\ b.async = none /\ b.sticky = v.sticky
    BY <1>4, <1>6, <2>1, StaysSound DEF Stays, SoundList
  <2>3. b.first = v.first /\ Len(b.items) = Len(v.items) /\ (b.items = <<>> <=> v.items = <<>>)
    BY <1>4, <1>6, <2>1, StaysSound DEF Stays, SoundList
  <2>4. ~LostItem(b, i)
    BY <1>8, <2>3 DEF LostItem, Created
  <2>5. raw \in ListItems
    <3>1. PICK head \in BOOLEAN : head = GetsHeader(v, i)
      BY <1>2, HeaderIsBoolean
    <3>2. PICK height \in Int : height = RowHeight(row)
      BY ListLengths DEF RowHeight
    <3>3. PICK zero \in Int : zero = 0
      OBVIOUS
    <3>4. PICK no \in BOOLEAN : no = FALSE
      OBVIOUS
    <3>5. PICK r \in Rows : r = row
      BY <1>2
    <3>6. raw = [row |-> r, head |-> head, y |-> zero, height |-> height, culled |-> no]
      BY <3>1, <3>2, <3>3, <3>4, <3>5
    <3>7. [row |-> r, head |-> head, y |-> zero, height |-> height, culled |-> no] \in ListItems
      BY DEF ListItems
    <3> QED
      BY <3>6, <3>7
  <2> HIDE DEF raw
  <2>6. i \in 0..Len(b.rows) - 1
    BY <2>2
  <2>7. /\ SoundList(c) /\ c.rows = b.rows /\ c.async = b.async /\ c.sticky = b.sticky
        /\ Len(c.items) = Len(b.items) + 1 /\ Created(c, i)
    BY <2>2, <2>4, <2>5, <2>6, ItemIsAdded
  <2> HIDE DEF c
  <2>8. w = c
    BY <1>5, <1>8
  <2>9. Len(c.items) >= Len(v.items)
    BY <1>2, <2>3, <2>7
  <2> QED
    BY <1>1, <2>2, <2>7, <2>8, <2>9
<1> QED
  BY <1>7, <1>8

LEMMA CreatedLater ==
    ASSUME NEW v, SoundList(v), NEW i \in 0..Len(v.rows) - 1, NEW w, w = CreateLater(v, i)
    PROVE  Creates(w, v) /\ w.items = v.items
<1>1. IsListView(v) /\ Len(v.items) \in Nat /\ Len(v.rows) \in Nat /\ i \in Int
  BY ListFields DEF SoundList
<1>2. CASE v.async # -1
  <2>1. w = v
    BY <1>2 DEF CreateLater
  <2> QED
    BY <1>1, <2>1 DEF Creates, Asks
<1>3. CASE v.async = -1
  <2>1. PICK row \in Rows : row = v.rows[i + 1] /\ row \in ToSet(v.rows)
    <3>1. i + 1 \in DOMAIN v.rows
      BY <1>1, ListFields
    <3>2. v.rows[i + 1] \in Rows
      BY <1>1, <3>1, ListFields
    <3> QED
      BY <3>1, <3>2 DEF ToSet
  <2> DEFINE jobs == v.jobs \cup {row}
             a == [v EXCEPT !.async = i, !.jobs = jobs]
  <2>2. w = a
    BY <1>3, <2>1 DEF CreateLater
  <2>3. jobs \in SUBSET Rows
    BY <1>1, ListFields
  <2>4. a \in ListViews({v.sticky})
    BY <1>1, <2>3 DEF IsListView, ListViews
  <2>5. /\ a.sticky = v.sticky /\ a.items = v.items /\ a.rows = v.rows /\ a.first = v.first
        /\ a.async = i /\ a.jobs = jobs
    BY <1>1 DEF IsListView, ListViews
  <2> HIDE DEF a
  <2>6. RequestsAreForRows(a)
    <3>1. a.jobs \subseteq ToSet(a.rows)
      BY <2>1, <2>5 DEF SoundList, RequestsAreForRows
    <3>2. a.async \in -1..Len(a.rows) - 1
      BY <1>1, <2>5
    <3> QED
      BY <2>5, <3>1, <3>2 DEF SoundList, RequestsAreForRows
  <2>7. FirstIsPlaced(a)
    BY <2>5 DEF SoundList, FirstIsPlaced
  <2>8. SoundList(a)
    BY <2>4, <2>5, <2>6, <2>7 DEF SoundList, IsListView
  <2>9. RequestRuns(a)
    BY <2>1, <2>5 DEF RequestRuns, ItemIsMade
  <2> QED
    BY <1>1, <2>2, <2>5, <2>8, <2>9 DEF Creates, Asks
<1> QED
  BY <1>2, <1>3

LEMMA ItemIsCreated ==
    ASSUME NEW v, SoundList(v), NEW i \in 0..Len(v.rows) - 1, NEW later,
           NEW w, w = CreateItem(v, i, later)
    PROVE  /\ Creates(w, v)
           /\ Len(w.items) # Len(v.items) => Created(w, i)
           /\ ~later => RequestRuns(w)
<1>1. CASE later
  <2>1. w = CreateLater(v, i)
    BY <1>1 DEF CreateItem
  <2> QED
    BY <1>1, <2>1, CreatedLater
<1>2. CASE ~later
  <2>1. w = CreateNow(v, i)
    BY <1>2 DEF CreateItem
  <2>2. /\ SoundList(w) /\ w.rows = v.rows /\ w.async = -1 /\ w.sticky = v.sticky
        /\ Len(w.items) >= Len(v.items) /\ (Len(w.items) # Len(v.items) => Created(w, i))
    BY <2>1, CreatedNow
  <2>3. RequestRuns(w)
    BY <2>2 DEF RequestRuns, ItemIsMade
  <2> QED
    BY <2>2, <2>3 DEF Creates, Asks
<1> QED
  BY <1>1, <1>2

LEMMA CreatesOn ==
    ASSUME NEW v, NEW w, NEW u, SoundList(v), Creates(w, v), Creates(u, w)
    PROVE  Creates(u, v)
<1>1. Len(v.items) \in Nat /\ Len(w.items) \in Nat /\ Len(u.items) \in Nat
  BY ListFields DEF SoundList, Creates, Asks
<1> QED
  BY <1>1 DEF Creates, Asks

\* The loop that creates items has these.
CreateLoops(v) ==
    [view : {w \in ListViews({v.sticky}) : Creates(w, v)}, pos : Int, over : BOOLEAN]

LEMMA NextIsCreated ==
    ASSUME NEW v, SoundList(v), NEW l \in CreateLoops(v), NEW i \in Int, NEW way \in {1, -1},
           NEW limit \in Int, NEW later, NEW r, r = CreateNext(l, i, way, limit, later)
    PROVE  /\ r \in CreateLoops(v)
           /\ RequestRuns(l.view) => RequestRuns(r.view)
           /\ ~later /\ ~l.over /\ i \in 0..Len(v.rows) - 1
              /\ (IF way = 1 THEN l.pos <= limit ELSE l.pos > limit) => RequestRuns(r.view)
<1> DEFINE u == l.view
           w == CreateItem(u, i, later)
           wanted == /\ ~l.over
                     /\ i \in 0..Len(u.rows) - 1
                     /\ IF way = 1 THEN l.pos <= limit ELSE l.pos > limit
           made == Len(w.items) # Len(u.items)
           pos == IF made THEN l.pos + way * Height(ItemAt(w, i)) ELSE l.pos
<1>1. Creates(u, v) /\ l.pos \in Int /\ l.over \in BOOLEAN
  BY DEF CreateLoops
<1>2. SoundList(u) /\ u.rows = v.rows
  BY <1>1 DEF Creates, Asks
<1>3. r = IF ~wanted THEN [l EXCEPT !.over = TRUE] ELSE [view |-> w, over |-> ~made, pos |-> pos]
  <2>1. r = CreateNext(l, i, way, limit, later)
    OBVIOUS
  <2> QED
    BY <2>1, Zenon DEF CreateNext
<1>4. CASE ~wanted
  <2>1. PICK yes \in BOOLEAN : yes = TRUE
    OBVIOUS
  <2>2. r = [l EXCEPT !.over = yes]
    BY <1>3, <1>4, <2>1
  <2>3. r \in CreateLoops(v) /\ r.view = l.view
    BY <2>2 DEF CreateLoops
  <2> QED
    BY <1>2, <1>4, <2>3
<1>5. CASE wanted
  <2>1. /\ Creates(w, u) /\ (made => Created(w, i)) /\ (~later => RequestRuns(w))
    <3>1. i \in 0..Len(u.rows) - 1
      BY <1>5
    <3> QED
      BY <1>2, <3>1, ItemIsCreated
  <2>2. r = [view |-> w, over |-> ~made, pos |-> pos]
    BY <1>3, <1>5
  <2> HIDE DEF w
  <2>3. Creates(w, v)
    BY <1>1, <2>1, CreatesOn
  <2>4. w \in ListViews({v.sticky})
    BY <2>3 DEF Creates, Asks, SoundList, IsListView
  <2>5. pos \in Int
    <3>1. CASE made
      <4>1. IsListView(w)
        BY <2>3 DEF Creates, Asks, SoundList
      <4>2. Height(ItemAt(w, i)) \in Int
        BY <2>1, <3>1, <4>1, CreatedItem, ItemSizes
      <4>3. way * Height(ItemAt(w, i)) \in Int
        BY <4>2
      <4> QED
        BY <1>1, <3>1, <4>3
    <3>2. CASE ~made
      BY <1>1, <3>2
    <3> QED
      BY <3>1, <3>2
  <2>6. PICK over \in BOOLEAN : over <=> ~made
    OBVIOUS
  <2>7. over = (~made)
    BY <2>6
  <2> HIDE DEF pos, made
  <2>8. r = [view |-> w, over |-> over, pos |-> pos]
    BY <2>2, <2>7
  <2>9. r \in CreateLoops(v) /\ r.view = w
    BY <2>3, <2>4, <2>5, <2>8 DEF CreateLoops
  <2>10. RequestRuns(u) => RequestRuns(w)
    BY <2>1 DEF Creates, Asks
  <2> QED
    BY <2>1, <2>9, <2>10
<1> QED
  BY <1>4, <1>5

LEMMA ItemsAreCreated ==
    ASSUME NEW v, SoundList(v), NEW i \in Int, NEW pos \in Int, NEW way \in {1, -1},
           NEW limit \in Int, NEW later, NEW r, r = CreateItems(v, i, pos, way, limit, later)
    PROVE  /\ Creates(r, v)
           /\ ~later /\ i \in 0..Len(v.rows) - 1
              /\ (IF way = 1 THEN pos <= limit ELSE pos > limit) => RequestRuns(r)
<1> DEFINE n == Len(v.rows)
           L == CreateLoops(v)
           next(l, k) == CreateNext(l, i + way * (k - 1), way, limit, later)
           round == [k \in 1..n |-> [l \in L |-> next(l, k)]]
           starts == /\ ~later /\ i \in 0..n - 1
                     /\ (IF way = 1 THEN pos <= limit ELSE pos > limit)
           G == [k \in 0..n |-> IF k # 0 /\ starts THEN {l \in L : RequestRuns(l.view)} ELSE L]
           H == [k \in 0..n |-> L]
<1>1. PICK no \in BOOLEAN : no = FALSE
  OBVIOUS
<1> DEFINE start == [view |-> v, pos |-> pos, over |-> no]
<1>2. n \in Nat /\ IsListView(v) /\ Len(v.items) \in Nat
  BY ListFields DEF SoundList
<1>3. start \in L
  <2>1. Creates(v, v)
    BY <1>2 DEF Creates, Asks
  <2>2. v \in ListViews({v.sticky})
    BY <1>2 DEF IsListView
  <2> QED
    BY <2>1, <2>2 DEF CreateLoops
<1>4. ASSUME NEW k \in 1..n PROVE i + way * (k - 1) \in Int
  BY <1>2
<1>5. ASSUME NEW k \in 1..n, NEW l \in L
      PROVE  /\ next(l, k) \in L
             /\ RequestRuns(l.view) => RequestRuns(next(l, k).view)
  BY <1>4, NextIsCreated
<1>6. \A k \in 1..n : k - 1 \in 0..n /\ k \in 0..n /\ k # 0
  BY <1>2
<1> HIDE DEF next
<1>7. \A k \in 1..n : round[k] \in [L -> L]
  BY <1>5
<1>8. \A k \in 1..n : round[k] \in [H[k - 1] -> H[k]]
  <2> HIDE DEF round, L
  <2> QED
    BY <1>6, <1>7
<1>9. 0 \in 0..n /\ start \in H[0] /\ start \in G[0]
  <2> HIDE DEF L, start
  <2> QED
    BY <1>2, <1>3
<1>10. ASSUME starts PROVE n # 0 => RequestRuns(next(start, 1).view)
  <2>1. ~later /\ i + way * (1 - 1) = i /\ start.view = v /\ start.pos = pos /\ ~start.over
    BY <1>1, <1>10
  <2>2. i + way * (1 - 1) \in Int
    BY <2>1
  <2> HIDE DEF start
  <2>3. RequestRuns(CreateNext(start, i + way * (1 - 1), way, limit, later).view)
    BY <1>3, <1>10, <2>1, <2>2, NextIsCreated
  <2> QED
    BY <2>3 DEF next
<1> HIDE DEF n, H, start
<1>11. \E f : f = [k \in 0..n |-> f[k]] /\ Rounds(f, n, start, round)
  <2> HIDE DEF round, G, L
  <2> QED
    BY <1>2, <1>8, <1>9, GoodLoopRuns, Zenon
<1>12. PICK f : f = [k \in 0..n |-> f[k]] /\ Rounds(f, n, start, round)
  BY <1>11
<1>13. f[0] = start /\ \A k \in 1..n : f[k] = round[k][f[k - 1]]
  <2> HIDE DEF round, G, L
  <2> QED
    BY <1>2, <1>12, RoundsAt
<1>14. \A k \in 0..n : f[k] \in L
  <2>1. \A k \in 1..n : f[k - 1] \in H[k - 1] => f[k] \in H[k]
    <3> HIDE DEF round
    <3> QED
      BY <1>6, <1>8, <1>13 DEF H
  <2>2. \A k \in 0..n : f[k] \in H[k]
    <3> HIDE DEF round, G, L
    <3> QED
      BY <1>2, <1>9, <1>13, <2>1, LoopStays, Zenon
  <2> QED
    BY <2>2 DEF H
<1>15. \A k \in 1..n : f[k] = next(f[k - 1], k)
  BY <1>6, <1>13, <1>14
<1>16. f = [k \in 0..n |-> IF k = 0 THEN start ELSE next(f[k - 1], k)]
  <2>1. ASSUME NEW k \in 0..n PROVE f[k] = IF k = 0 THEN start ELSE next(f[k - 1], k)
    <3>1. k = 0 \/ k \in 1..n
      BY <1>2
    <3> QED
      BY <1>6, <1>13, <1>15, <3>1
  <2> QED
    BY <1>12, <2>1
<1> DEFINE made == CHOOSE g : g = [k \in 0..n |-> IF k = 0 THEN start ELSE next(g[k - 1], k)]
<1>17. made = [k \in 0..n |-> IF k = 0 THEN start ELSE next(made[k - 1], k)]
  <2> HIDE DEF L
  <2> QED
    BY <1>16, Zenon
<1>18. r = made[n].view
  <2>1. r = CreateItems(v, i, pos, way, limit, later)
    OBVIOUS
  <2>2. start = [view |-> v, pos |-> pos, over |-> FALSE]
    BY <1>1 DEF start
  <2> QED
    BY <2>1, <2>2, Zenon DEF CreateItems, next, n
<1> HIDE DEF made
<1>19. made[0] = start /\ \A k \in 1..n : made[k] = next(made[k - 1], k)
  <2> HIDE DEF L
  <2>1. ASSUME NEW k \in 1..n PROVE made[k] = next(made[k - 1], k)
    BY <1>6, <1>17, Zenon
  <2>2. made[0] = start
    BY <1>9, <1>17, Zenon
  <2> QED
    BY <2>1, <2>2
<1>20. \A k \in 1..n : made[k - 1] \in G[k - 1] => made[k] \in G[k]
  <2> SUFFICES ASSUME NEW k \in 1..n, made[k - 1] \in G[k - 1] PROVE made[k] \in G[k]
    OBVIOUS
  <2>1. k - 1 \in 0..n /\ k \in 0..n /\ k # 0 /\ made[k] = next(made[k - 1], k)
    BY <1>6, <1>19
  <2>2. made[k - 1] \in L
    BY <2>1
  <2>3. made[k] \in L /\ (RequestRuns(made[k - 1].view) => RequestRuns(made[k].view))
    BY <1>5, <2>1, <2>2
  <2>4. ASSUME starts PROVE RequestRuns(made[k].view)
    <3>1. CASE k = 1
      <4>1. k - 1 = 0 /\ n # 0
        BY <1>2, <3>1
      <4>2. made[k] = next(start, 1)
        BY <1>19, <2>1, <3>1, <4>1
      <4> QED
        BY <1>10, <2>4, <4>1, <4>2
    <3>2. CASE k # 1
      <4>1. k - 1 # 0
        BY <3>2
      <4>2. RequestRuns(made[k - 1].view)
        BY <2>1, <2>4, <4>1
      <4> QED
        BY <2>3, <4>2
    <3> QED
      BY <3>1, <3>2
  <2> HIDE DEF L, starts
  <2> QED
    BY <2>1, <2>3, <2>4
<1>21. \A k \in 0..n : made[k] \in G[k]
  <2>1. made[0] \in G[0]
    BY <1>9, <1>19
  <2> HIDE DEF G
  <2> QED
    BY <1>2, <1>20, <2>1, LoopStays, Zenon
<1>22. made[n] \in L /\ (n # 0 /\ starts => RequestRuns(made[n].view))
  <2>1. n \in 0..n
    BY <1>2
  <2> HIDE DEF L, starts
  <2> QED
    BY <1>21, <2>1
<1>23. starts => n # 0
  BY <1>2
<1>24. Creates(r, v)
  BY <1>18, <1>22 DEF CreateLoops
<1> QED
  BY <1>18, <1>22, <1>23, <1>24 DEF n

LEMMA CreatesNone ==
    ASSUME NEW v, SoundList(v)
    PROVE  Creates(v, v) /\ Asks(v, v)
<1>1. Len(v.items) \in Nat
  BY ListFields DEF SoundList
<1> QED
  BY <1>1 DEF Creates, Asks

LEMMA AsksOn ==
    ASSUME NEW v, NEW w, NEW u, Asks(w, v), Asks(u, w)
    PROVE  Asks(u, v)
  BY DEF Asks

\* A view that the delegate model makes nothing for, and has no item.
LEMMA VisibleAppended ==
    ASSUME NEW v, SoundList(v), NEW to \in Int, NEW later
    PROVE  /\ Creates(AppendVisible(v, to, later), v)
           /\ ~later /\ v.items = <<>> /\ v.rows # <<>> /\ to >= 0
                => RequestRuns(AppendVisible(v, to, later))
<1>1. PICK zero \in Int : zero = 0
  OBVIOUS
<1>2. PICK one \in {1, -1} : one = 1
  OBVIOUS
<1>3. IsListView(v)
  BY DEF SoundList
<1>4. CASE v.items = <<>>
  <2>1. AppendVisible(v, to, later) = CreateItems(v, zero, zero, one, to, later)
    BY <1>1, <1>2, <1>4 DEF AppendVisible, AppendItems
  <2>2. v.rows # <<>> => zero \in 0..Len(v.rows) - 1
    BY <1>1, <1>3, ListFields
  <2> QED
    BY <1>1, <1>2, <2>1, <2>2, ItemsAreCreated
<1>5. CASE v.items # <<>>
  <2>1. v.items[Len(v.items)] \in ListItems /\ v.clipY \in Int
    BY <1>3, <1>5, ListFields
  <2>2. PICK pos \in Int : pos = Bottom(Last(v.items)) + v.clipY
    BY <2>1, ItemSizes DEF Last
  <2>3. PICK i \in Int : i = v.first + Len(v.items)
    BY <1>3, ListFields
  <2>4. AppendVisible(v, to, later) = CreateItems(v, i, pos, one, to, later)
    BY <1>2, <1>5, <2>2, <2>3 DEF AppendVisible, AppendItems
  <2> QED
    BY <1>5, <2>4, ItemsAreCreated
<1> QED
  BY <1>4, <1>5

LEMMA VisiblePrepended ==
    ASSUME NEW v, SoundList(v), NEW from \in Int, NEW later
    PROVE  Creates(PrependVisible(v, from, later), v)
<1>1. PICK up \in {1, -1} : up = -1
  OBVIOUS
<1>2. IsListView(v)
  BY DEF SoundList
<1>3. CASE v.items = <<>>
  <2>1. PrependVisible(v, from, later) = v
    BY <1>3 DEF PrependVisible
  <2> QED
    BY <2>1, CreatesNone
<1>4. CASE v.items # <<>>
  <2>1. v.items[1] \in ListItems /\ v.clipY \in Int
    BY <1>2, <1>4, ListFields
  <2>2. PICK pos \in Int : pos = Top(v.items[1]) + v.clipY
    BY <2>1, ItemSizes
  <2>3. PICK i \in Int : i = v.first - 1
    BY <1>2, ListFields
  <2>4. PrependVisible(v, from, later) = CreateItems(v, i, pos, up, from, later)
    BY <1>1, <1>4, <2>2, <2>3 DEF PrependVisible, PrependItems
  <2> QED
    BY <2>4, ItemsAreCreated
<1> QED
  BY <1>3, <1>4

LEMMA VisibleAdded ==
    ASSUME NEW v, SoundList(v), NEW from \in Int, NEW to \in Int, NEW later
    PROVE  /\ Asks(AddVisibleItems(v, from, to, later), v)
           /\ ~later /\ v.items = <<>> /\ v.rows # <<>> /\ to >= 0
                => RequestRuns(AddVisibleItems(v, from, to, later))
<1>1. CASE v.rows = <<>>
  <2>1. AddVisibleItems(v, from, to, later) = v
    BY <1>1 DEF AddVisibleItems
  <2> QED
    BY <1>1, <2>1, CreatesNone
<1>2. CASE v.rows # <<>>
  <2> DEFINE a == AppendVisible(v, to, later)
             b == PrependVisible(a, from, later)
  <2>1. AddVisibleItems(v, from, to, later) = b
    BY <1>2 DEF AddVisibleItems
  <2>2. /\ Asks(a, v)
        /\ ~later /\ v.items = <<>> /\ to >= 0 => RequestRuns(a)
    BY <1>2, VisibleAppended DEF Creates
  <2> HIDE DEF a
  <2>3. Asks(b, a)
    BY <2>2, VisiblePrepended DEF Asks, Creates
  <2> HIDE DEF b
  <2>4. RequestRuns(a) => RequestRuns(b)
    BY <2>3 DEF Asks
  <2> QED
    BY <2>1, <2>2, <2>3, <2>4, AsksOn
<1> QED
  BY <1>1, <1>2

LEMMA InvisibleRemoved ==
    ASSUME NEW v, SoundList(v), NEW from \in Int, NEW to \in Int
    PROVE  Asks(RemoveNonVisibleItems(v, from, to), v)
<1> DEFINE near(item) == Bottom(item) + v.clipY >= from /\ Top(item) + v.clipY <= to
           kept == {i \in DOMAIN v.items : near(v.items[i])}
           least == CHOOSE i \in kept : \A j \in kept : i <= j
           items == Kept(v.items, kept)
<1>1. /\ IsListView(v) /\ v.first \in Int /\ v.items \in Seq(ListItems)
      /\ DOMAIN v.items = 1..Len(v.items) /\ Len(v.items) \in Nat
      /\ v.items # <<>> => v.first >= 0
      /\ v.items # <<>> <=> Len(v.items) # 0
      /\ v.dirty \in BOOLEAN
  BY ListFields DEF SoundList, FirstIsPlaced
<1>2. kept \subseteq DOMAIN v.items /\ kept \in SUBSET Nat
  BY <1>1
<1> HIDE DEF kept
<1>3. kept # {} => least \in kept
  BY <1>2, LeastOf
<1> HIDE DEF least
<1>4. PICK first \in Int : /\ first = IF kept = {} THEN -1 ELSE v.first + least - 1
                           /\ kept = {} => first = -1
                           /\ kept # {} => first >= 0
  <2>1. CASE kept = {}
    <3>1. -1 \in Int
      OBVIOUS
    <3> QED
      BY <2>1, <3>1
  <2>2. CASE kept # {}
    <3>1. least \in Int /\ least >= 1 /\ v.first >= 0
      BY <1>1, <1>2, <1>3, <2>2
    <3>2. v.first + least - 1 \in Int /\ v.first + least - 1 >= 0
      BY <1>1, <3>1
    <3> QED
      BY <2>2, <3>2
  <2> QED
    BY <2>1, <2>2
<1>5. items \in Seq(ListItems) /\ (items = <<>> <=> kept = {})
  <2>1. /\ items \in Seq(ListItems)
        /\ \E g : Selects(g, items, v.items, kept)
    BY <1>1, KeptSelects
  <2> HIDE DEF items
  <2>2. PICK g : Selects(g, items, v.items, kept)
    BY <2>1
  <2>3. items # <<>> <=> DOMAIN items # {}
    <3>1. DOMAIN items = 1..Len(items) /\ Len(items) \in Nat /\ (items # <<>> <=> Len(items) # 0)
      BY <2>1, SequenceDomain
    <3> QED
      BY <3>1
  <2>4. DOMAIN items # {} => kept # {}
    BY <2>2 DEF Selects
  <2>5. kept # {} => DOMAIN items # {}
    BY <1>2, <2>2 DEF Selects
  <2> QED
    BY <2>1, <2>3, <2>4, <2>5
<1> HIDE DEF items
<1>6. PICK dirty \in BOOLEAN : dirty <=> (v.dirty \/ kept # DOMAIN v.items)
  OBVIOUS
<1> DEFINE w == [v EXCEPT !.items = items, !.first = first, !.dirty = dirty]
<1>7. /\ w \in ListViews({v.sticky}) /\ w.sticky = v.sticky
      /\ w.items = items /\ w.first = first /\ w.rows = v.rows
      /\ w.jobs = v.jobs /\ w.async = v.async
  BY <1>1, <1>5 DEF IsListView, ListViews
<1>8. RemoveNonVisibleItems(v, from, to) \in {v, w, AdjustMinYExtent(w)}
  <2> DEFINE f == IF kept = {} THEN -1 ELSE v.first + (CHOOSE i \in kept : \A j \in kept : i <= j) - 1
             d == v.dirty \/ kept # DOMAIN v.items
             u == [v EXCEPT !.items = items, !.first = f, !.dirty = d]
             early == v.contentY < -v.minY \/ v.contentY + ViewHeight > v.contentHeight
  <2>1. d = dirty
    BY <1>6
  <2>2. f = first
    BY <1>4 DEF least
  <2>3. RemoveNonVisibleItems(v, from, to) =
          IF early THEN v ELSE IF f # v.first THEN AdjustMinYExtent(u) ELSE u
    BY Zenon DEF RemoveNonVisibleItems, kept, items
  <2> HIDE DEF f, d, early
  <2>4. u = w
    BY <2>1, <2>2
  <2> HIDE DEF u, w
  <2> QED
    BY <2>3, <2>4
<1> HIDE DEF w
<1>9. SoundList(w) /\ Asks(w, v)
  <2>1. FirstIsPlaced(w)
    BY <1>4, <1>5, <1>7 DEF FirstIsPlaced
  <2>2. RequestsAreForRows(w)
    BY <1>7 DEF SoundList, RequestsAreForRows
  <2>3. SoundList(w)
    BY <1>7, <2>1, <2>2 DEF SoundList, IsListView
  <2> QED
    BY <1>7, <2>3 DEF Asks, RequestRuns, ItemIsMade
<1>10. Asks(AdjustMinYExtent(w), w)
  <2>1. IsListView(w) /\ Stays(AdjustMinYExtent(w), w)
    BY <1>9, StartMoves, MovesStays DEF SoundList
  <2> QED
    BY <1>9, <2>1, StaysSound DEF Asks, Stays
<1>11. Asks(AdjustMinYExtent(w), v)
  BY <1>9, <1>10, AsksOn
<1> QED
  BY <1>8, <1>9, <1>11, CreatesNone

LEMMA ListIsRefilled ==
    ASSUME NEW v, SoundList(v)
    PROVE  /\ Asks(Refill(v), v)
           /\ v.items = <<>> /\ v.rows # <<>> /\ v.contentY >= 0 => RequestRuns(Refill(v))
<1>1. PICK from \in Int : from = v.contentY
  BY ListFields DEF SoundList
<1>2. PICK to \in Int : to = v.contentY + ViewHeight /\ (v.contentY >= 0 => to >= 0)
  <2>1. v.contentY + ViewHeight \in Int /\ (v.contentY >= 0 => v.contentY + ViewHeight >= 0)
    BY ListFields, ListLengths DEF SoundList
  <2> QED
    BY <2>1
<1>3. PICK low \in Int : low = from - CacheBuffer
  BY ListLengths
<1>4. PICK high \in Int : high = to + CacheBuffer
  BY ListLengths
<1>5. PICK no \in BOOLEAN : no = FALSE
  OBVIOUS
<1>6. PICK yes \in BOOLEAN : yes = TRUE
  OBVIOUS
<1> DEFINE a == AddVisibleItems(v, from, to, no)
           b == RemoveNonVisibleItems(a, low, high)
           c == AddVisibleItems(b, low, high, yes)
<1>7. Refill(v) = c
  BY <1>1, <1>2, <1>3, <1>4, <1>5, <1>6 DEF Refill
<1>8. /\ Asks(a, v)
      /\ v.items = <<>> /\ v.rows # <<>> /\ v.contentY >= 0 => RequestRuns(a)
  BY <1>2, <1>5, VisibleAdded
<1> HIDE DEF a
<1>9. Asks(b, a)
  BY <1>8, InvisibleRemoved DEF Asks
<1> HIDE DEF b
<1>10. Asks(c, b)
  BY <1>9, VisibleAdded DEF Asks
<1> HIDE DEF c
<1>11. Asks(c, a)
  BY <1>9, <1>10, AsksOn
<1>12. Asks(c, v)
  BY <1>8, <1>11, AsksOn
<1>13. RequestRuns(a) => RequestRuns(c)
  BY <1>11 DEF Asks
<1> QED
  BY <1>7, <1>8, <1>12, <1>13

LEMMA ListIsPolished ==
    ASSUME NEW v, SoundList(v)
    PROVE  /\ Asks(UpdatePolish(v), v)
           /\ v.items = <<>> /\ v.rows # <<>> /\ v.contentY >= 0 => RequestRuns(UpdatePolish(v))
<1>1. PICK no \in BOOLEAN : no = FALSE
  OBVIOUS
<1> DEFINE a == [v EXCEPT !.polish = no]
           b == Layout(a)
           c == Refill(b)
           d == PolishContentHeight(c)
<1>2. UpdatePolish(v) = d
  BY <1>1 DEF UpdatePolish
<1>3. IsListView(v)
  BY DEF SoundList
<1>4. /\ a \in ListViews({v.sticky})
      /\ a.sticky = v.sticky /\ a.items = v.items
      /\ a.rows = v.rows /\ a.jobs = v.jobs /\ a.async = v.async /\ a.first = v.first
      /\ a.contentY = v.contentY
  BY <1>3 DEF IsListView, ListViews
<1> HIDE DEF a
<1>5. SoundList(a) /\ Asks(a, v)
  <2>1. FirstIsPlaced(a)
    BY <1>4 DEF SoundList, FirstIsPlaced
  <2>2. RequestsAreForRows(a)
    BY <1>4 DEF SoundList, RequestsAreForRows
  <2>3. SoundList(a)
    BY <1>4, <2>1, <2>2 DEF SoundList, IsListView
  <2> QED
    BY <1>4, <2>3 DEF Asks, RequestRuns, ItemIsMade
<1>6. Moves(b, a) /\ IsListView(a)
  BY <1>5, LaidOut DEF SoundList
<1> HIDE DEF b
<1>7. /\ Asks(b, a) /\ b.contentY = a.contentY /\ b.rows = a.rows
      /\ (b.items = <<>> <=> a.items = <<>>)
  <2>1. Stays(b, a)
    BY <1>6, MovesStays
  <2> QED
    BY <1>5, <1>6, <2>1, StaysSound DEF Asks, Stays, Moves
<1>8. /\ Asks(c, b)
      /\ b.items = <<>> /\ b.rows # <<>> /\ b.contentY >= 0 => RequestRuns(c)
  BY <1>7, ListIsRefilled DEF Asks
<1> HIDE DEF c
<1>9. Asks(d, c)
  <2>1. SoundList(c) /\ IsListView(c)
    BY <1>8 DEF Asks, SoundList
  <2>2. Stays(d, c)
    BY <2>1, ContentIsMeasured
  <2> QED
    BY <2>1, <2>2, StaysSound DEF Asks, Stays
<1> HIDE DEF d
<1>10. Asks(d, v)
  <2>1. Asks(b, v)
    BY <1>5, <1>7, AsksOn
  <2>2. Asks(c, v)
    BY <1>8, <2>1, AsksOn
  <2> QED
    BY <1>9, <2>2, AsksOn
<1>11. RequestRuns(c) => RequestRuns(d)
  BY <1>9 DEF Asks
<1> QED
  BY <1>2, <1>4, <1>7, <1>8, <1>10, <1>11

(* The model of rows changes. *)

\* Nothing is created, and the first row would be seen.
NothingCreated(v) ==
    /\ v.items = <<>>
    /\ v.minY = 0
    /\ v.contentY >= 0
    /\ v.anim = "none" \/ v.animTo >= 0

LEMMA NothingStays ==
    ASSUME NEW v, NEW w, IsListView(v), Stays(w, v), w.contentY = v.contentY, NothingCreated(v)
    PROVE  NothingCreated(w)
<1>1. w.items = <<>>
  BY StaysSound DEF NothingCreated
<1> QED
  BY <1>1 DEF Stays, NothingCreated

LEMMA ModelIsUpdated ==
    ASSUME NEW v, NEW w, IsListView(w)
    PROVE  /\ Stays(ModelUpdated(v, w), w)
           /\ ModelUpdated(v, w).contentY = w.contentY
           /\ ModelUpdated(v, w).polish = TRUE
<1> DEFINE u == IF w.first # v.first THEN AdjustMinYExtent(w) ELSE w
           a == Layout(u)
           b == [a EXCEPT !.polish = TRUE, !.dirty = TRUE]
<1>1. Moves(u, w)
  BY StartMoves, MovesNot
<1>2. ModelUpdated(v, w) = b
  BY DEF ModelUpdated
<1> HIDE DEF u
<1>3. IsListView(u)
  BY <1>1 DEF Moves
<1>4. Moves(a, u)
  BY <1>3, LaidOut
<1> HIDE DEF a
<1>5. Moves(a, w) /\ IsListView(a)
  BY <1>1, <1>4, MovesOn DEF Moves
<1>6. Stays(b, a) /\ b.contentY = a.contentY /\ b.polish = TRUE
  BY <1>5, FrameAsked
<1> HIDE DEF b
<1>7. Stays(a, w) /\ a.contentY = w.contentY
  BY <1>5, MovesStays DEF Moves
<1> QED
  BY <1>2, <1>6, <1>7, StaysOn

LEMMA ItemsAreReleased ==
    ASSUME NEW v, IsListView(v), NEW low \in Int, NEW high \in Int,
           1 <= low, low <= high, high <= Len(v.items),
           NEW w, w = ReleaseItems(v, low, high)
    PROVE  IsListView(w) /\ w.rows = v.rows /\ w.jobs = v.jobs /\ w.async = v.async
           /\ w.first = v.first
<1> DEFINE passes == high < Len(v.items) /\ \E k \in low..high : v.items[k].head
           a == IF passes THEN [v EXCEPT !.items[high + 1].head = TRUE] ELSE v
           items == SubSeq(a.items, 1, low - 1) \o SubSeq(a.items, high + 1, Len(a.items))
           b == [a EXCEPT !.items = items]
<1>1. Stays(a, v)
  <2>1. CASE passes
    <3>1. PICK k \in 1..Len(v.items) : k = high + 1
      BY <2>1, ListFields
    <3>2. PICK yes \in BOOLEAN : yes = TRUE
      OBVIOUS
    <3>3. a = [v EXCEPT !.items[k].head = yes]
      BY <2>1, <3>1, <3>2
    <3> HIDE DEF a
    <3> QED
      BY <3>3, HeadSet
  <2>2. CASE ~passes
    BY <2>2, MovesNot, MovesStays
  <2> QED
    BY <2>1, <2>2
<1>2. w = b
  <2>1. w = ReleaseItems(v, low, high)
    OBVIOUS
  <2> QED
    BY <2>1, Zenon DEF ReleaseItems
<1> HIDE DEF a
<1>3. /\ IsListView(a) /\ a.items \in Seq(ListItems) /\ Len(a.items) = Len(v.items)
      /\ Len(a.items) \in Nat
  BY <1>1, ListFields DEF Stays
<1>4. items \in Seq(ListItems)
  <2>1. PICK i \in Int : i = low - 1
    OBVIOUS
  <2>2. PICK j \in Int : j = high + 1
    OBVIOUS
  <2>3. 0 <= i /\ i < j /\ j <= Len(a.items) + 1
    BY <1>3, <2>1, <2>2
  <2>4. SubSeq(a.items, 1, i) \o SubSeq(a.items, j, Len(a.items)) \in Seq(ListItems)
    BY <1>3, <2>3, SequenceCut
  <2> QED
    BY <2>1, <2>2, <2>4
<1> HIDE DEF items
<1>5. /\ b \in ListViews({a.sticky}) /\ b.sticky = a.sticky
      /\ b.rows = a.rows /\ b.jobs = a.jobs /\ b.async = a.async /\ b.first = a.first
  BY <1>3, <1>4 DEF IsListView, ListViews
<1> HIDE DEF b
<1> QED
  BY <1>1, <1>2, <1>5 DEF Stays, IsListView

LEMMA FirstSet ==
    ASSUME NEW v, IsListView(v), NEW i \in Int
    PROVE  LET w == [v EXCEPT !.first = i]
           IN  /\ IsListView(w) /\ w.rows = v.rows /\ w.jobs = v.jobs /\ w.async = v.async
               /\ w.first = i /\ w.items = v.items
<1> DEFINE w == [v EXCEPT !.first = i]
<1>1. /\ w \in ListViews({v.sticky}) /\ w.sticky = v.sticky
      /\ w.rows = v.rows /\ w.jobs = v.jobs /\ w.async = v.async
      /\ w.first = i /\ w.items = v.items
  BY DEF IsListView, ListViews
<1> HIDE DEF w
<1>2. IsListView(w)
  BY <1>1 DEF IsListView
<1> QED
  BY <1>1, <1>2 DEF w

LEMMA AsyncSet ==
    ASSUME NEW v, IsListView(v), NEW i \in Int
    PROVE  LET w == [v EXCEPT !.async = i]
           IN  /\ IsListView(w) /\ w.rows = v.rows /\ w.jobs = v.jobs /\ w.async = i
               /\ w.first = v.first /\ w.items = v.items /\ w.minY = v.minY
               /\ w.contentY = v.contentY /\ w.anim = v.anim /\ w.animTo = v.animTo
<1> DEFINE w == [v EXCEPT !.async = i]
<1>1. /\ w \in ListViews({v.sticky}) /\ w.sticky = v.sticky
      /\ w.rows = v.rows /\ w.jobs = v.jobs /\ w.async = i
      /\ w.first = v.first /\ w.items = v.items /\ w.minY = v.minY
      /\ w.contentY = v.contentY /\ w.anim = v.anim /\ w.animTo = v.animTo
  BY DEF IsListView, ListViews
<1> HIDE DEF w
<1>2. IsListView(w)
  BY <1>1 DEF IsListView
<1> QED
  BY <1>1, <1>2 DEF w

\* What becomes of a view of which count rows from index on are removed.
Removed(w, v, index, count) ==
    /\ IsListView(w) /\ FirstIsPlaced(w)
    /\ w.rows = v.rows /\ w.jobs = v.jobs
    /\ w.async = IF v.async >= index /\ v.async < index + count THEN -1
                 ELSE IF v.async >= index + count THEN v.async - count ELSE v.async
    /\ NothingCreated(v) => NothingCreated(w)

LEMMA RowsAreRemoved ==
    ASSUME NEW v, IsListView(v), FirstIsPlaced(v),
           NEW index \in Nat, NEW count \in Nat \ {0}, NEW w, w = RowsRemoved(v, index, count)
    PROVE  Removed(w, v, index, count)
<1> DEFINE touches == index + count > v.first /\ index < v.first + Len(v.items)
           low == MaxOf(0, index - v.first) + 1
           high == IF index + count > v.first + Len(v.items) THEN Len(v.items)
                   ELSE index + count - v.first
           growDown == \A k \in low..high : v.items[k].culled
           oldTop == Top(v.items[1])
           a == ReleaseItems(v, low, high)
           u == IF growDown THEN AdjustMinYExtent(a)
                ELSE IF index <= v.first /\ a.items # <<>> THEN MoveFirst(a, oldTop)
                ELSE a
           first == IF a.items = <<>> THEN -1 ELSE v.first - MaxOf(0, v.first - index)
           x == IF touches
                THEN [u EXCEPT !.first = IF a.items = <<>> THEN -1
                                         ELSE @ - MaxOf(0, v.first - index)]
                ELSE IF index + count <= v.first THEN [v EXCEPT !.first = @ - count]
                ELSE v
           async(i) == IF i >= index /\ i < index + count THEN -1
                       ELSE IF i >= index + count THEN i - count ELSE i
<1>1. /\ v.first \in Int /\ Len(v.items) \in Nat /\ v.async \in Int
      /\ v.items # <<>> <=> Len(v.items) # 0
      /\ v.items = <<>> => v.first = -1
      /\ v.items # <<>> => v.first >= 0
  BY ListFields DEF FirstIsPlaced
<1>2. w = [x EXCEPT !.async = async(@)]
  <2>1. w = ShiftAsyncRemoved(x, index, count)
    <3>1. w = RowsRemoved(v, index, count)
      OBVIOUS
    <3> QED
      BY <3>1, Zenon DEF RowsRemoved
  <2> HIDE DEF x
  <2> QED
    BY <2>1, Zenon DEF ShiftAsyncRemoved
<1>3. /\ IsListView(x) /\ FirstIsPlaced(x) /\ x.rows = v.rows /\ x.jobs = v.jobs
      /\ x.async = v.async
      /\ NothingCreated(v) => x = v
  <2>1. CASE touches
    <3>1. v.items # <<>> /\ v.first >= 0
      BY <1>1, <2>1
    <3>2. low \in Int /\ high \in Int /\ 1 <= low /\ low <= high /\ high <= Len(v.items)
      BY <1>1, <2>1, <3>1 DEF MaxOf
    <3> HIDE DEF low, high
    <3>3. /\ IsListView(a) /\ a.rows = v.rows /\ a.jobs = v.jobs /\ a.async = v.async
          /\ a.first = v.first
      BY <3>2, ItemsAreReleased
    <3> HIDE DEF a
    <3>4. Stays(u, a)
      <4>1. oldTop \in Int
        BY <3>1, FirstTop
      <4> HIDE DEF oldTop, growDown
      <4>2. Moves(MoveFirst(a, oldTop), a) /\ Moves(AdjustMinYExtent(a), a) /\ Moves(a, a)
        BY <3>3, <4>1, FirstMoves, StartMoves, MovesNot
      <4>3. Moves(u, a)
        BY <4>2
      <4> QED
        BY <3>3, <4>3, MovesStays
    <3> HIDE DEF u
    <3>5. IsListView(u) /\ u.rows = v.rows /\ u.jobs = v.jobs /\ u.async = v.async
          /\ u.first = v.first /\ (u.items = <<>> <=> a.items = <<>>)
      BY <3>3, <3>4, StaysSound DEF Stays
    <3>6. PICK f \in Int : /\ f = first
                           /\ a.items = <<>> => f = -1
                           /\ a.items # <<>> => f >= 0
      <4>1. first \in Int /\ (a.items = <<>> => first = -1) /\ (a.items # <<>> => first >= 0)
        BY <1>1, <3>1 DEF MaxOf
      <4> HIDE DEF first
      <4> QED
        BY <4>1
    <3>7. x = [u EXCEPT !.first = f]
      BY <2>1, <3>5, <3>6
    <3> HIDE DEF x
    <3>8. /\ IsListView(x) /\ x.rows = u.rows /\ x.jobs = u.jobs /\ x.async = u.async
          /\ x.first = f /\ x.items = u.items
      BY <3>5, <3>7, FirstSet
    <3>9. FirstIsPlaced(x)
      BY <3>5, <3>6, <3>8 DEF FirstIsPlaced
    <3>10. ~NothingCreated(v)
      BY <3>1 DEF NothingCreated
    <3> QED
      BY <3>5, <3>8, <3>9, <3>10
  <2>2. CASE ~touches /\ index + count <= v.first
    <3>1. PICK f \in Int : f = v.first - count /\ f >= 0
      BY <1>1, <2>2
    <3>2. x = [v EXCEPT !.first = f]
      BY <2>2, <3>1
    <3> HIDE DEF x
    <3>3. /\ IsListView(x) /\ x.rows = v.rows /\ x.jobs = v.jobs /\ x.async = v.async
          /\ x.first = f /\ x.items = v.items
      BY <3>2, FirstSet
    <3>4. v.items # <<>>
      BY <1>1, <3>1
    <3> QED
      BY <3>1, <3>3, <3>4 DEF FirstIsPlaced, NothingCreated
  <2>3. CASE ~touches /\ ~(index + count <= v.first)
    <3>1. x = v
      BY <2>3
    <3> QED
      BY <3>1
  <2> QED
    BY <2>1, <2>2, <2>3
<1> HIDE DEF x
<1>4. PICK i \in Int : i = async(x.async)
  BY <1>1, <1>3
<1>5. w = [x EXCEPT !.async = i]
  <2> HIDE DEF async
  <2> QED
    BY <1>2, <1>4
<1>6. /\ IsListView(w) /\ w.rows = x.rows /\ w.jobs = x.jobs /\ w.async = i
      /\ w.first = x.first /\ w.items = x.items /\ w.minY = x.minY
      /\ w.contentY = x.contentY /\ w.anim = x.anim /\ w.animTo = x.animTo
  BY <1>3, <1>5, AsyncSet
<1>7. FirstIsPlaced(w)
  BY <1>3, <1>6 DEF FirstIsPlaced
<1>8. NothingCreated(v) => NothingCreated(w)
  BY <1>3, <1>6 DEF NothingCreated
<1>9. w.async = async(v.async)
  BY <1>3, <1>4, <1>6
<1> QED
  BY <1>3, <1>6, <1>7, <1>8, <1>9 DEF Removed

LEMMA ShiftKeepsSticky ==
    ASSUME NEW v, IsListView(v), NEW d
    PROVE  ShiftFirst(v, d).sticky = v.sticky
<1>1. PICK items : ShiftFirst(v, d) = [v EXCEPT !.items = items]
  BY DEF ShiftFirst, MoveFirst
<1>2. [v EXCEPT !.items = items].sticky = v.sticky
  BY DEF IsListView, ListViews
<1> QED
  BY <1>1, <1>2

\* What becomes of a view of which an inserted row gets its item, if it does.
RowsCome(w, v) ==
    /\ SoundList(w) /\ w.rows = v.rows /\ w.sticky = v.sticky
    /\ v.items # <<>> => w.items # <<>>

LEMMA RowGetsItem ==
    ASSUME NEW v, SoundList(v), NEW i \in 0..Len(v.rows) - 1,
           NEW growUp, NEW w, w = InsertRow(v, i, growUp)
    PROVE  RowsCome(w, v) /\ w.async = -1
<1> DEFINE a == CreateItem(v, i, FALSE)
           b == RoomAbove(a, i, growUp)
           heads == /\ Created(b, i + 1)
                    /\ ~ItemAt(b, i + 1).head
                    /\ StartsSection(b, i + 1)
           c == [b EXCEPT !.items[i + 1 - b.first + 1].head = TRUE]
           d == IF ~heads THEN b ELSE IF growUp THEN ShiftFirst(c, -ItemHeight) ELSE c
<1>1. w = d
  <2>1. w = HeaderBelow(b, i, growUp)
    BY DEF InsertRow
  <2> HIDE DEF a, b
  <2> QED
    BY <2>1, Zenon DEF HeaderBelow
<1>2. SoundList(a) /\ a.rows = v.rows /\ a.async = -1 /\ a.sticky = v.sticky
      /\ Len(a.items) >= Len(v.items)
  <2>1. a = CreateNow(v, i)
    BY DEF CreateItem
  <2> HIDE DEF a
  <2> QED
    BY <2>1, CreatedNow
<1> HIDE DEF a
<1>3. i \in Int /\ i + 1 \in Int /\ IsListView(a) /\ IsListView(v)
  BY <1>2 DEF SoundList
<1>4. Stays(b, a) /\ b.sticky = a.sticky
  <2>1. CASE growUp /\ Created(a, i)
    <3>1. Height(ItemAt(a, i)) \in Int
      BY <1>3, <2>1, CreatedItem, ItemSizes
    <3>2. -Height(ItemAt(a, i)) \in Int
      BY <3>1
    <3>3. b = ShiftFirst(a, -Height(ItemAt(a, i)))
      BY <2>1 DEF RoomAbove
    <3> QED
      BY <1>3, <3>2, <3>3, FirstShifts, MovesStays, ShiftKeepsSticky
  <2>2. CASE ~(growUp /\ Created(a, i))
    <3>1. b = a
      BY <2>2 DEF RoomAbove
    <3> QED
      BY <1>3, <3>1, MovesNot, MovesStays
  <2> QED
    BY <2>1, <2>2
<1> HIDE DEF b
<1>5. IsListView(b)
  BY <1>4 DEF Stays
<1>6. ASSUME heads PROVE Stays(c, b) /\ c.sticky = b.sticky
  <2>0. Created(b, i + 1)
    BY <1>6
  <2>1. PICK k \in 1..Len(b.items) : k = i + 1 - b.first + 1
    <3>1. PICK j \in Int : j = i + 1
      BY <1>3
    <3>2. Created(b, j)
      BY <2>0, <3>1
    <3>3. j - b.first + 1 \in 1..Len(b.items)
      BY <1>5, <3>2, CreatedItem
    <3>4. b.first \in Int
      BY <1>5, ListFields
    <3>5. j - b.first + 1 = i + 1 - b.first + 1
      BY <1>3, <3>1, <3>4
    <3> QED
      BY <3>3, <3>5, Zenon
  <2>2. PICK yes \in BOOLEAN : yes = TRUE
    OBVIOUS
  <2>3. c = [b EXCEPT !.items[k].head = yes]
    BY <2>1, <2>2
  <2> HIDE DEF c
  <2> QED
    BY <1>5, <2>3, HeadSet
<1>7. Stays(d, b) /\ d.sticky = b.sticky
  <2>1. CASE heads
    <3>1. Stays(c, b) /\ IsListView(c) /\ c.sticky = b.sticky
      BY <1>6, <2>1 DEF Stays
    <3> HIDE DEF c
    <3>2. -ItemHeight \in Int
      BY ListLengths
    <3>3. Stays(ShiftFirst(c, -ItemHeight), c)
      BY <3>1, <3>2, FirstShifts, MovesStays
    <3>4. Stays(ShiftFirst(c, -ItemHeight), b)
      BY <1>5, <3>1, <3>3, StaysOn
    <3>5. ShiftFirst(c, -ItemHeight).sticky = b.sticky
      BY <3>1, ShiftKeepsSticky
    <3> HIDE DEF heads
    <3> QED
      BY <2>1, <3>1, <3>4, <3>5
  <2>2. CASE ~heads
    <3>1. d = b
      BY <2>2
    <3> QED
      BY <1>5, <3>1, MovesNot, MovesStays
  <2> QED
    BY <2>1, <2>2
<1> HIDE DEF d
<1>8. Stays(d, a)
  BY <1>3, <1>4, <1>7, StaysOn
<1>9. /\ SoundList(d) /\ d.rows = v.rows /\ d.async = -1 /\ d.sticky = v.sticky
      /\ d.items = <<>> <=> a.items = <<>>
  BY <1>2, <1>3, <1>4, <1>7, <1>8, StaysSound DEF Stays
<1>10. v.items # <<>> => a.items # <<>>
  <2>1. PICK m \in Nat : m = Len(v.items) /\ (v.items # <<>> <=> m # 0)
    BY <1>3, ListFields
  <2>2. PICK n \in Nat : n = Len(a.items) /\ (a.items # <<>> <=> n # 0)
    BY <1>3, ListFields
  <2> QED
    BY <1>2, <2>1, <2>2
<1> QED
  BY <1>1, <1>9, <1>10 DEF RowsCome

\* The loop over the inserted rows.
LEMMA RowsGetItems ==
    ASSUME NEW v, SoundList(v), NEW index \in Nat, NEW count \in Nat \ {0},
           index + count <= Len(v.rows), NEW growUp,
           NEW w, w = InsertRows(v, index, count, growUp)
    PROVE  RowsCome(w, v) /\ w.async = -1
<1> DEFINE L == {u \in ListViews({v.sticky}) : RowsCome(u, v)}
           next(u, k) == InsertRow(u, index + count - k, growUp)
           round == [k \in 1..count |-> [u \in L |-> next(u, k)]]
           G == [k \in 0..count |-> IF k = 0 THEN L ELSE {u \in L : u.async = -1}]
           H == [k \in 0..count |-> L]
<1>1. count \in Nat /\ count # 0 /\ Len(v.rows) \in Nat /\ IsListView(v)
  BY ListFields DEF SoundList
<1>2. v \in L
  BY <1>1 DEF IsListView, RowsCome
<1>3. ASSUME NEW k \in 1..count, NEW u \in L
      PROVE  next(u, k) \in L /\ next(u, k).async = -1
  <2>1. PICK i : i = index + count - k
    OBVIOUS
  <2>2. u.rows = v.rows /\ SoundList(u) /\ u.sticky = v.sticky
    BY DEF RowsCome
  <2>3. i \in 0..Len(u.rows) - 1
    <3>1. PICK n \in Nat : n = Len(v.rows)
      BY <1>1
    <3> QED
      BY <1>1, <2>1, <2>2, <3>1
  <2>4. next(u, k) = InsertRow(u, i, growUp)
    BY <2>1
  <2> HIDE DEF next
  <2>5. RowsCome(next(u, k), u) /\ next(u, k).async = -1
    BY <2>2, <2>3, <2>4, RowGetsItem
  <2>6. RowsCome(next(u, k), v)
    BY <2>5 DEF RowsCome
  <2>7. next(u, k) \in ListViews({v.sticky})
    BY <2>6 DEF RowsCome, SoundList, IsListView
  <2> QED
    BY <2>5, <2>6, <2>7
<1>4. \A k \in 1..count : k - 1 \in 0..count /\ k \in 0..count /\ k # 0
  BY <1>1
<1> HIDE DEF next
<1>5. \A k \in 1..count : round[k] \in [L -> L]
  BY <1>3
<1>6. \A k \in 1..count : round[k] \in [H[k - 1] -> H[k]]
  <2> HIDE DEF round, L
  <2> QED
    BY <1>4, <1>5
<1>7. 0 \in 0..count /\ v \in H[0] /\ v \in G[0] /\ count \in 0..count
  <2> HIDE DEF L
  <2> QED
    BY <1>1, <1>2
<1> HIDE DEF H
<1>8. \E f : f = [k \in 0..count |-> f[k]] /\ Rounds(f, count, v, round)
  <2> HIDE DEF round, G, L
  <2> QED
    BY <1>1, <1>6, <1>7, GoodLoopRuns, Zenon
<1>9. PICK f : f = [k \in 0..count |-> f[k]] /\ Rounds(f, count, v, round)
  BY <1>8
<1>10. f[0] = v /\ \A k \in 1..count : f[k] = round[k][f[k - 1]]
  <2>1. Rounds(f, count, v, round)
    BY <1>9
  <2> HIDE DEF round, G, L
  <2> QED
    BY <1>1, <2>1, RoundsAt
<1>11. \A k \in 0..count : f[k] \in L
  <2>1. \A k \in 1..count : f[k - 1] \in H[k - 1] => f[k] \in H[k]
    <3> HIDE DEF round
    <3> QED
      BY <1>4, <1>6, <1>10 DEF H
  <2>2. \A k \in 0..count : f[k] \in H[k]
    <3> HIDE DEF round, G, L
    <3> QED
      BY <1>1, <1>7, <1>10, <2>1, LoopStays, Zenon
  <2> QED
    BY <2>2 DEF H
<1>12. \A k \in 1..count : f[k] = next(f[k - 1], k)
  BY <1>4, <1>10, <1>11
<1>13. f = [k \in 0..count |-> IF k = 0 THEN v ELSE next(f[k - 1], k)]
  <2>1. ASSUME NEW k \in 0..count PROVE f[k] = IF k = 0 THEN v ELSE next(f[k - 1], k)
    <3>1. k = 0 \/ k \in 1..count
      BY <1>1
    <3> QED
      BY <1>4, <1>10, <1>12, <3>1
  <2> QED
    BY <1>9, <2>1
<1> DEFINE after == CHOOSE g : g = [k \in 0..count |-> IF k = 0 THEN v ELSE next(g[k - 1], k)]
<1>14. after = [k \in 0..count |-> IF k = 0 THEN v ELSE next(after[k - 1], k)]
  <2> HIDE DEF L
  <2> QED
    BY <1>13, Zenon
<1>15. w = after[count]
  <2>1. w = InsertRows(v, index, count, growUp)
    OBVIOUS
  <2> QED
    BY <2>1, Zenon DEF InsertRows, next
<1> HIDE DEF after
<1>16. after[0] = v /\ \A k \in 1..count : after[k] = next(after[k - 1], k)
  <2> HIDE DEF L
  <2>1. ASSUME NEW k \in 1..count PROVE after[k] = next(after[k - 1], k)
    BY <1>4, <1>14, Zenon
  <2>2. after[0] = v
    BY <1>7, <1>14, Zenon
  <2> QED
    BY <2>1, <2>2
<1>17. \A k \in 1..count : after[k - 1] \in G[k - 1] => after[k] \in G[k]
  <2> SUFFICES ASSUME NEW k \in 1..count, after[k - 1] \in G[k - 1] PROVE after[k] \in G[k]
    OBVIOUS
  <2>1. k - 1 \in 0..count /\ k \in 0..count /\ k # 0 /\ after[k] = next(after[k - 1], k)
    BY <1>4, <1>16
  <2>2. after[k - 1] \in L
    BY <2>1
  <2>3. after[k] \in L /\ after[k].async = -1
    BY <1>3, <2>1, <2>2
  <2> HIDE DEF L
  <2> QED
    BY <2>1, <2>3
<1>18. \A k \in 0..count : after[k] \in G[k]
  <2>1. after[0] \in G[0]
    BY <1>7, <1>16
  <2> HIDE DEF G
  <2> QED
    BY <1>1, <1>17, <2>1, LoopStays, Zenon
<1>19. after[count] \in L /\ after[count].async = -1
  <2> HIDE DEF L
  <2> QED
    BY <1>1, <1>7, <1>18
<1> QED
  BY <1>15, <1>19

LEMMA RowsAreInserted ==
    ASSUME NEW v, SoundList(v), NEW index \in Nat, NEW count \in Nat \ {0},
           index + count <= Len(v.rows), NEW w, w = RowsInserted(v, index, count)
    PROVE  /\ IsListView(w) /\ FirstIsPlaced(w)
           /\ w.rows = v.rows /\ w.jobs \subseteq ToSet(w.rows)
           /\ \/ w.async = -1
              \/ /\ w.jobs = v.jobs
                 /\ w.async = v.async + Bound(0, v.async - index + 1, count)
           /\ NothingCreated(v) => NothingCreated(w)
<1> DEFINE within == index > v.first /\ index < v.first + Len(v.items)
           onTop  == /\ index = 0 /\ v.first = 0
                     /\ Top(v.items[1]) + v.clipY > v.contentY
           seen   == {k \in DOMAIN v.items : ~v.items[k].culled}
           growUp == /\ ~onTop
                     /\ seen # {}
                     /\ index <= v.first + (CHOOSE k \in seen : \A j \in seen : k <= j) - 1
           oldTop == Top(v.items[1])
           a == InsertRows(v, index, count, growUp)
           b == IF onTop THEN MoveFirst(a, oldTop) ELSE a
           u == AdjustMinYExtent(b)
           x == IF within \/ onTop THEN u
                ELSE IF index <= v.first THEN [v EXCEPT !.first = @ + count]
                ELSE v
           shift(i) == i + Bound(0, i - index + 1, count)
<1>2. w = [x EXCEPT !.async = shift(@)]
  <2>1. w = ShiftAsyncInserted(x, index, count)
    <3>1. w = RowsInserted(v, index, count)
      OBVIOUS
    <3> QED
      BY <3>1, Zenon DEF RowsInserted
  <2> HIDE DEF x
  <2> QED
    BY <2>1, Zenon DEF ShiftAsyncInserted
<1>3. /\ IsListView(v) /\ FirstIsPlaced(v) /\ RequestsAreForRows(v)
      /\ v.first \in Int /\ Len(v.items) \in Nat /\ v.async \in Int /\ index \in Nat
      /\ v.items # <<>> <=> Len(v.items) # 0
      /\ v.items = <<>> => v.first = -1
      /\ v.items # <<>> => v.first >= 0
  BY ListFields DEF SoundList, FirstIsPlaced
<1>4. /\ IsListView(x) /\ FirstIsPlaced(x) /\ x.rows = v.rows /\ x.jobs \subseteq ToSet(v.rows)
      /\ x.async = -1 \/ (x.jobs = v.jobs /\ x.async = v.async)
      /\ NothingCreated(v) => x = v
  <2>1. CASE within \/ onTop
    <3>1. v.items # <<>> /\ v.first >= 0
      BY <1>3, <2>1
    <3> HIDE DEF growUp, onTop, within
    <3>3. RowsCome(a, v) /\ a.async = -1
      <4> HIDE DEF a
      <4>1. a = InsertRows(v, index, count, growUp)
        BY DEF a
      <4> QED
        BY <4>1, RowsGetItems
    <3> HIDE DEF a
    <3>4. SoundList(a) /\ a.rows = v.rows /\ a.async = -1 /\ a.items # <<>> /\ IsListView(a)
      BY <3>1, <3>3 DEF RowsCome, SoundList
    <3>5. Moves(b, a)
      <4>1. oldTop \in Int
        BY <1>3, <3>1, FirstTop
      <4> HIDE DEF oldTop
      <4> QED
        BY <3>4, <4>1, FirstMoves, MovesNot
    <3> HIDE DEF b
    <3>6. IsListView(b)
      BY <3>5 DEF Moves
    <3>7. Moves(u, b)
      BY <3>6, StartMoves
    <3> HIDE DEF u
    <3>8. Stays(u, a)
      BY <3>4, <3>5, <3>7, MovesOn, MovesStays
    <3>9. SoundList(u) /\ u.rows = v.rows /\ u.async = -1
      BY <3>4, <3>8, StaysSound DEF Stays
    <3>10. x = u
      BY <2>1
    <3>11. ~NothingCreated(v)
      BY <3>1 DEF NothingCreated
    <3> QED
      BY <3>9, <3>10, <3>11 DEF SoundList, RequestsAreForRows
  <2>2. CASE ~(within \/ onTop) /\ index <= v.first
    <3>1. PICK f \in Int : f = v.first + count /\ f >= 0
      BY <1>3, <2>2
    <3>2. x = [v EXCEPT !.first = f]
      BY <2>2, <3>1
    <3> HIDE DEF x
    <3>3. /\ IsListView(x) /\ x.rows = v.rows /\ x.jobs = v.jobs /\ x.async = v.async
          /\ x.first = f /\ x.items = v.items
      BY <1>3, <3>2, FirstSet
    <3>4. v.items # <<>>
      BY <1>3, <2>2
    <3> QED
      BY <1>3, <3>1, <3>3, <3>4 DEF FirstIsPlaced, NothingCreated, RequestsAreForRows
  <2>3. CASE ~(within \/ onTop) /\ ~(index <= v.first)
    <3>1. x = v
      BY <2>3
    <3> QED
      BY <1>3, <3>1 DEF RequestsAreForRows
  <2> QED
    BY <2>1, <2>2, <2>3
<1> HIDE DEF x
<1>6. x.async \in Int /\ x.async >= -1
  BY <1>3, <1>4 DEF RequestsAreForRows
<1>7. PICK i \in Int : i = shift(x.async) /\ (x.async = -1 => i = -1)
  <2>1. PICK j \in Int : j = x.async /\ j >= -1
    BY <1>6
  <2>2. shift(j) \in Int /\ (j = -1 => shift(j) = -1)
    BY <1>3 DEF Bound
  <2> QED
    BY <2>1, <2>2
<1>8. w = [x EXCEPT !.async = i]
  BY <1>2, <1>7
<1>9. /\ IsListView(w) /\ w.rows = x.rows /\ w.jobs = x.jobs /\ w.async = i
      /\ w.first = x.first /\ w.items = x.items /\ w.minY = x.minY
      /\ w.contentY = x.contentY /\ w.anim = x.anim /\ w.animTo = x.animTo
  <2>1. IsListView(x)
    BY <1>4
  <2>2. LET y == [x EXCEPT !.async = i]
        IN  /\ IsListView(y) /\ y.rows = x.rows /\ y.jobs = x.jobs /\ y.async = i
            /\ y.first = x.first /\ y.items = x.items /\ y.minY = x.minY
            /\ y.contentY = x.contentY /\ y.anim = x.anim /\ y.animTo = x.animTo
    BY <2>1, AsyncSet, Zenon
  <2> QED
    BY <1>8, <2>2, Zenon
<1>10. FirstIsPlaced(w)
  BY <1>4, <1>9 DEF FirstIsPlaced
<1>11. NothingCreated(v) => NothingCreated(w)
  BY <1>4, <1>9 DEF NothingCreated
<1>12. w.async = -1 \/ (w.jobs = v.jobs /\ w.async = shift(v.async))
  BY <1>4, <1>7, <1>9
<1> HIDE DEF shift
<1> QED
  BY <1>4, <1>9, <1>10, <1>11, <1>12 DEF shift

(* The steps. *)

\* Either the item that the list waits for is being made, or nothing is created, and
\* the frame that was asked for creates the first row at once.
GoodList(v) ==
    /\ SoundList(v)
    /\ RequestRuns(v) \/ (NothingCreated(v) /\ v.polish)

LEMMA GoodStays ==
    ASSUME NEW v, NEW w, GoodList(v), Stays(w, v)
    PROVE  /\ RequestRuns(v) => GoodList(w)
           /\ w.contentY = v.contentY => GoodList(w)
<1>1. IsListView(v)
  BY DEF GoodList, SoundList
<1>2. SoundList(w) /\ (RequestRuns(v) => RequestRuns(w))
  BY <1>1, StaysSound DEF GoodList
<1>3. ASSUME w.contentY = v.contentY, NothingCreated(v), v.polish PROVE NothingCreated(w) /\ w.polish
  BY <1>1, <1>3, NothingStays DEF Stays
<1> QED
  BY <1>2, <1>3 DEF GoodList

LEMMA GoodAsks ==
    ASSUME NEW v, NEW w, RequestRuns(v), Asks(w, v)
    PROVE  GoodList(w) /\ RequestRuns(w)
  BY DEF GoodList, Asks

LEMMA GoodWithItems ==
    ASSUME NEW v, GoodList(v), v.items # <<>> \/ ~v.polish
    PROVE  RequestRuns(v)
  BY DEF GoodList, NothingCreated

LEMMA GoodFields ==
    ASSUME NEW v, GoodList(v)
    PROVE  SoundList(v) /\ IsListView(v) /\ RequestsAreForRows(v) /\ FirstIsPlaced(v)
  BY DEF GoodList, SoundList

LEMMA ListInitGood ==
    ASSUME ListInit
    PROVE  GoodList(view)
<1>1. PICK h \in Int : h = MinHeader
  <2>1. HeaderHeights \in SUBSET Nat /\ HeaderHeights # {}
    BY ListConstants, ListLengths
  <2>2. MinHeader \in HeaderHeights
    BY <2>1, LeastOf DEF MinHeader
  <2> QED
    BY <2>1, <2>2
<1>2. PICK zero \in Int : zero = 0
  OBVIOUS
<1>3. PICK none \in Int : none = -1
  OBVIOUS
<1>4. PICK no \in BOOLEAN : no = FALSE
  OBVIOUS
<1>5. PICK yes \in BOOLEAN : yes = TRUE
  OBVIOUS
<1>6. PICK empty \in Seq(ListItems) : empty = <<>>
  BY EmptySeq
<1>7. PICK still \in Animations : still = "none"
  BY DEF Animations
<1>8. PICK rows \in Seq(Rows) : rows = InitialRows
  BY ListConstants
<1>9. PICK jobs \in SUBSET Rows : jobs = {}
  OBVIOUS
<1>10. PICK v : v = [rows |-> rows, jobs |-> jobs, items |-> empty, first |-> none, async |-> none,
               contentY |-> zero, prevY |-> zero, contentHeight |-> zero, minY |-> zero,
               clipY |-> zero,
               headerImplicit |-> h, headerHeight |-> h, headerY |-> zero,
               shown |-> zero, sticky |-> NoSection, anim |-> still, animTo |-> zero,
               dirty |-> no, polish |-> yes]
  OBVIOUS
<1>11. view = v
  BY <1>1, <1>2, <1>3, <1>4, <1>5, <1>6, <1>7, <1>8, <1>9, <1>10 DEF ListInit
<1>12. /\ v \in ListViews({NoSection}) /\ v.sticky = NoSection
       /\ v.rows = rows /\ v.jobs = jobs /\ v.items = empty /\ v.first = none /\ v.async = none
  BY <1>10 DEF ListViews
<1>13. IsListView(v)
  BY <1>12 DEF IsListView
<1>14. Len(rows) \in Nat
  BY LenProperties
<1>15. RequestsAreForRows(v)
  <2>1. IsInjective(v.rows) /\ v.jobs \subseteq ToSet(v.rows)
    BY <1>8, <1>9, <1>12, ListConstants
  <2>2. v.async \in -1..Len(v.rows) - 1
    BY <1>3, <1>12, <1>14
  <2> QED
    BY <2>1, <2>2 DEF RequestsAreForRows
<1>16. FirstIsPlaced(v)
  BY <1>3, <1>6, <1>12 DEF FirstIsPlaced
<1>17. RequestRuns(v)
  BY <1>3, <1>12 DEF RequestRuns, ItemIsMade
<1> QED
  BY <1>11, <1>13, <1>15, <1>16, <1>17 DEF GoodList, SoundList

LEMMA PolishIsGood ==
    ASSUME GoodList(view), Polish
    PROVE  GoodList(view')
<1>1. PICK v : v = view
  OBVIOUS
<1>2. PICK w : w = UpdatePolish(v)
  OBVIOUS
<1>3. GoodList(v) /\ view' = w
  BY <1>1, <1>2 DEF Polish
<1>4. SoundList(v) /\ IsListView(v) /\ RequestsAreForRows(v)
  BY <1>3, GoodFields
<1>5. /\ Asks(w, v)
      /\ v.items = <<>> /\ v.rows # <<>> /\ v.contentY >= 0 => RequestRuns(w)
  BY <1>2, <1>4, ListIsPolished
<1>6. SoundList(w) /\ w.rows = v.rows /\ (RequestRuns(v) => RequestRuns(w))
  BY <1>5 DEF Asks
<1>7. CASE v.rows = <<>>
  <2>1. Len(w.rows) = 0
    BY <1>6, <1>7
  <2>2. w.async \in -1..-1
    BY <1>6, <2>1 DEF SoundList, RequestsAreForRows
  <2>3. RequestRuns(w)
    BY <2>2 DEF RequestRuns, ItemIsMade
  <2> QED
    BY <1>3, <1>6, <2>3 DEF GoodList
<1>8. CASE v.rows # <<>>
  <2>1. RequestRuns(w)
    BY <1>3, <1>5, <1>6, <1>8 DEF GoodList, NothingCreated
  <2> QED
    BY <1>3, <1>6, <2>1 DEF GoodList
<1> QED
  BY <1>7, <1>8

LEMMA ItemCreatedIsGood ==
    ASSUME GoodList(view), NEW row, ItemCreated(row)
    PROVE  GoodList(view')
<1>1. PICK b : b = view
  OBVIOUS
<1> DEFINE i == CHOOSE k \in 0..Len(b.rows) - 1 : b.rows[k + 1] = row
           jobs == b.jobs \ {row}
           v == [b EXCEPT !.jobs = jobs]
           a == CreateItem(v, i, FALSE)
           c == Refill(a)
<1>2. GoodList(b) /\ row \in b.jobs
  BY <1>1 DEF ItemCreated
<1>3. view' = IF i = v.async THEN c ELSE v
  <2> DEFINE f == CHOOSE k \in 0..Len(view.rows) - 1 : view.rows[k + 1] = row
             u == [view EXCEPT !.jobs = @ \ {row}]
  <2>1. view' = IF f = u.async THEN Refill(CreateItem(u, f, FALSE)) ELSE u
    BY Zenon DEF ItemCreated
  <2>2. f = i /\ u = v
    BY <1>1
  <2> HIDE DEF f, u, i, v
  <2> QED
    BY <2>1, <2>2, Zenon
<1>4. SoundList(b) /\ IsListView(b) /\ RequestsAreForRows(b) /\ FirstIsPlaced(b)
  BY <1>2, GoodFields
<1>5. i \in 0..Len(b.rows) - 1 /\ b.rows[i + 1] = row
  <2>1. row \in ToSet(b.rows)
    BY <1>2, <1>4 DEF RequestsAreForRows
  <2>2. PICK j \in DOMAIN b.rows : b.rows[j] = row
    BY <2>1 DEF ToSet
  <2>3. Len(b.rows) \in Nat /\ DOMAIN b.rows = 1..Len(b.rows)
    BY <1>4, ListFields
  <2>4. j - 1 \in 0..Len(b.rows) - 1 /\ (j - 1) + 1 = j
    BY <2>3
  <2>5. \E k \in 0..Len(b.rows) - 1 : b.rows[k + 1] = row
    BY <2>2, <2>4
  <2> QED
    BY <2>5
<1> HIDE DEF i
<1>6. /\ v \in ListViews({b.sticky}) /\ v.sticky = b.sticky
      /\ v.rows = b.rows /\ v.jobs = jobs /\ v.async = b.async /\ v.first = b.first
      /\ v.items = b.items /\ v.polish = b.polish /\ v.minY = b.minY
      /\ v.contentY = b.contentY /\ v.anim = b.anim /\ v.animTo = b.animTo
  <2>1. jobs \in SUBSET Rows
    BY <1>4, ListFields
  <2> QED
    BY <1>4, <2>1 DEF IsListView, ListViews
<1> HIDE DEF v
<1>7. SoundList(v)
  <2>1. RequestsAreForRows(v)
    BY <1>4, <1>6 DEF RequestsAreForRows
  <2>2. FirstIsPlaced(v)
    BY <1>4, <1>6 DEF FirstIsPlaced
  <2> QED
    BY <1>6, <2>1, <2>2 DEF SoundList, IsListView
<1>8. CASE i = v.async
  <2>1. i \in 0..Len(v.rows) - 1
    BY <1>5, <1>6
  <2>2. SoundList(a) /\ RequestRuns(a)
    BY <1>7, <2>1, ItemIsCreated DEF Creates, Asks
  <2> HIDE DEF a
  <2>3. Asks(c, a)
    BY <2>2, ListIsRefilled
  <2> HIDE DEF c
  <2>4. GoodList(c)
    BY <2>2, <2>3, GoodAsks
  <2> QED
    BY <1>3, <1>8, <2>4
<1>9. CASE i # v.async
  <2>1. ASSUME ItemIsMade(b) PROVE ItemIsMade(v)
    <3> SUFFICES ASSUME v.async # -1
                 PROVE  v.async \in 0..Len(v.rows) - 1 /\ v.rows[v.async + 1] \in v.jobs
      BY DEF ItemIsMade
    <3>1. b.async \in 0..Len(b.rows) - 1 /\ b.rows[b.async + 1] \in b.jobs
      BY <1>6, <2>1 DEF ItemIsMade
    <3>2. Len(b.rows) \in Nat /\ DOMAIN b.rows = 1..Len(b.rows)
      BY <1>4, ListFields
    <3>3. i + 1 \in DOMAIN b.rows /\ b.async + 1 \in DOMAIN b.rows /\ i + 1 # b.async + 1
      BY <1>5, <1>6, <1>9, <3>1, <3>2
    <3>4. b.rows[b.async + 1] # row
      BY <1>4, <1>5, <3>3 DEF RequestsAreForRows, IsInjective
    <3> QED
      BY <1>6, <3>1, <3>4
  <2>2. NothingCreated(b) => NothingCreated(v)
    BY <1>6 DEF NothingCreated
  <2>3. view' = v
    BY <1>3, <1>9
  <2> QED
    BY <1>2, <1>6, <1>7, <2>1, <2>2, <2>3 DEF GoodList, RequestRuns
<1> QED
  BY <1>8, <1>9

LEMMA ModelUpdateIsGood ==
    ASSUME NEW v, NEW w, SoundList(w), RequestRuns(w) \/ NothingCreated(w)
    PROVE  GoodList(ModelUpdated(v, w))
<1> DEFINE u == ModelUpdated(v, w)
<1>1. IsListView(w)
  BY DEF SoundList
<1>2. Stays(u, w) /\ u.contentY = w.contentY /\ u.polish = TRUE
  BY <1>1, ModelIsUpdated
<1> HIDE DEF u
<1>3. SoundList(u) /\ (RequestRuns(w) => RequestRuns(u))
  BY <1>1, <1>2, StaysSound
<1>4. NothingCreated(w) => NothingCreated(u)
  BY <1>1, <1>2, NothingStays
<1>5. GoodList(u)
  BY <1>2, <1>3, <1>4 DEF GoodList
<1> QED
  BY <1>5 DEF u

\* Rows that are new come after position index, each of them once.
RowsAdded(rows, old, index, count) ==
    /\ rows \in Seq(Rows) /\ IsInjective(rows)
    /\ Len(rows) = Len(old) + count /\ DOMAIN rows = 1..Len(old) + count
    /\ \A k \in 1..index : rows[k] = old[k]
    /\ \A k \in index + 1..Len(old) : rows[k + count] = old[k]
    /\ \A k \in index + 1..index + count : rows[k] \notin ToSet(old)

LEMMA NewRowsCome ==
    ASSUME NEW old \in Seq(Rows), IsInjective(old), NEW index \in 0..Len(old),
           NEW count \in Nat, NEW new \in [1..count -> Rows \ ToSet(old)], IsInjective(new),
           NEW rows, rows = SubSeq(old, 1, index) \o new \o SubSeq(old, index + 1, Len(old))
    PROVE  RowsAdded(rows, old, index, count)
<1>1. Len(old) \in Nat /\ DOMAIN old = 1..Len(old) /\ index \in Nat
  BY SequenceDomain
<1>2. PICK n \in Nat : n = Len(old)
  BY <1>1
<1>3. DOMAIN new = 1..count /\ \A k \in 1..count : new[k] \in Rows /\ new[k] \notin ToSet(old)
  OBVIOUS
<1>4. PICK m \in Seq(Rows) : m = new /\ Len(m) = count
  <2>1. new \in [1..count -> Rows]
    BY <1>3
  <2>2. new \in Seq(Rows)
    BY <2>1, SeqDef
  <2>3. Len(new) = count
    BY <1>3, <2>2, LenProperties
  <2> QED
    BY <2>2, <2>3
<1>5. rows = SubSeq(old, 1, index) \o m \o SubSeq(old, index + 1, Len(old))
  BY <1>4
<1>6. rows \in Seq(Rows) /\ Spliced(rows, old, index, m)
  BY <1>5, SequenceSpliced
<1>7. Len(rows) = n + count /\ DOMAIN rows = 1..n + count
  <2>1. Len(rows) = n + count
    BY <1>2, <1>4, <1>6 DEF Spliced
  <2>2. DOMAIN rows = 1..Len(rows)
    BY <1>6, SequenceDomain
  <2> QED
    BY <2>1, <2>2
<1>8. \A k \in 1..index : rows[k] = old[k]
  BY <1>6 DEF Spliced
<1>9. \A k \in index + 1..index + count : k - index \in 1..count /\ rows[k] = new[k - index]
  <2> SUFFICES ASSUME NEW k \in index + 1..index + count
               PROVE  k - index \in 1..count /\ rows[k] = new[k - index]
    OBVIOUS
  <2>1. k \in index + 1..index + Len(m)
    BY <1>4
  <2>2. rows[k] = m[k - index]
    BY <1>6, <2>1 DEF Spliced
  <2>3. k - index \in 1..count
    BY <1>1
  <2> QED
    BY <1>4, <2>2, <2>3
<1>10. \A k \in index + count + 1..n + count : k - count \in index + 1..n /\ rows[k] = old[k - count]
  <2> SUFFICES ASSUME NEW k \in index + count + 1..n + count
               PROVE  k - count \in index + 1..n /\ rows[k] = old[k - count]
    OBVIOUS
  <2>1. k \in index + Len(m) + 1..Len(rows)
    BY <1>4, <1>7
  <2>2. rows[k] = old[k - Len(m)]
    BY <1>6, <2>1 DEF Spliced
  <2>3. k - count \in index + 1..n
    BY <1>1
  <2> QED
    BY <1>4, <2>2, <2>3
<1>11. ASSUME NEW k \in index + 1..n PROVE rows[k + count] = old[k]
  <2>1. k + count \in index + count + 1..n + count /\ (k + count) - count = k
    BY <1>1
  <2> QED
    BY <1>10, <2>1
<1>12. ASSUME NEW k \in index + 1..index + count PROVE rows[k] \notin ToSet(old)
  BY <1>3, <1>9
<1> DEFINE from(k) == IF k <= index THEN k ELSE k - count
           fresh(k) == k \in index + 1..index + count
<1>13. ASSUME NEW k \in DOMAIN rows, ~fresh(k)
       PROVE  /\ from(k) \in DOMAIN old /\ rows[k] = old[from(k)]
              /\ rows[k] \in ToSet(old)
              /\ from(k) <= index <=> k <= index
  <2>1. PICK i \in Nat : i = index /\ i <= n
    BY <1>1, <1>2
  <2>2. k \in 1..i \/ k \in i + count + 1..n + count
    <3>1. k \in 1..n + count /\ ~(k \in i + 1..i + count)
      BY <1>7, <1>13, <2>1
    <3> QED
      BY <2>1, <3>1
  <2>3. CASE k \in 1..i
    <3>1. from(k) = k /\ k \in 1..n /\ k \in 1..index
      BY <2>1, <2>3
    <3>2. from(k) \in DOMAIN old /\ rows[k] = old[from(k)] /\ (from(k) <= index <=> k <= index)
      BY <1>1, <1>2, <1>8, <3>1
    <3> QED
      BY <3>2 DEF ToSet
  <2>4. CASE k \in i + count + 1..n + count
    <3>1. k \in index + count + 1..n + count /\ ~(k <= index)
      BY <2>1, <2>4
    <3>2. from(k) = k - count
      BY <3>1
    <3>3. from(k) \in index + 1..n /\ rows[k] = old[from(k)]
      BY <1>10, <3>1, <3>2
    <3> HIDE DEF from
    <3>4. from(k) \in 1..n /\ ~(from(k) <= index)
      BY <1>1, <3>3
    <3>5. from(k) \in DOMAIN old
      BY <1>1, <1>2, <3>4
    <3> QED
      BY <3>1, <3>3, <3>4, <3>5 DEF ToSet
  <2> QED
    BY <2>2, <2>3, <2>4
<1>14. IsInjective(rows)
  <2> SUFFICES ASSUME NEW k \in DOMAIN rows, NEW j \in DOMAIN rows, rows[k] = rows[j] PROVE k = j
    BY DEF IsInjective
  <2>1. CASE fresh(k) /\ fresh(j)
    <3>1. k - index \in DOMAIN new /\ j - index \in DOMAIN new /\ new[k - index] = new[j - index]
      BY <1>3, <1>9, <2>1
    <3>2. k - index = j - index
      <4> DEFINE a == k - index
                 b == j - index
      <4> HIDE DEF a, b
      <4>1. a \in DOMAIN new /\ b \in DOMAIN new /\ new[a] = new[b]
        BY <3>1 DEF a, b
      <4>2. a = b
        BY <4>1 DEF IsInjective
      <4> QED
        BY <4>2 DEF a, b
    <3> QED
      BY <1>1, <1>7, <3>2
  <2>2. CASE fresh(k) /\ ~fresh(j)
    BY <1>12, <1>13, <2>2
  <2>3. CASE ~fresh(k) /\ fresh(j)
    BY <1>12, <1>13, <2>3
  <2>4. CASE ~fresh(k) /\ ~fresh(j)
    <3>1. /\ from(k) \in DOMAIN old /\ from(j) \in DOMAIN old /\ old[from(k)] = old[from(j)]
          /\ from(k) <= index <=> k <= index
          /\ from(j) <= index <=> j <= index
      BY <1>13, <2>4
    <3>2. from(k) = from(j)
      <4> HIDE DEF from
      <4> QED
        BY <3>1 DEF IsInjective
    <3> QED
      BY <1>1, <1>7, <3>1, <3>2
  <2> QED
    BY <2>1, <2>2, <2>3, <2>4
<1> QED
  BY <1>2, <1>6, <1>7, <1>8, <1>11, <1>12, <1>14 DEF RowsAdded

LEMMA InsertIsGood ==
    ASSUME GoodList(view), NEW index \in 0..Len(view.rows), NEW count \in Nat \ {0},
           InsertRowsInModel(index, count)
    PROVE  SoundList(view') /\ (GoodList(view') \/ InsertedAtAwaited)
<1>1. PICK b : b = view
  OBVIOUS
<1>3. GoodList(b) /\ SoundList(b) /\ IsListView(b) /\ RequestsAreForRows(b) /\ FirstIsPlaced(b)
  BY <1>1, GoodFields
<1>4. Len(b.rows) \in Nat /\ DOMAIN b.rows = 1..Len(b.rows) /\ b.rows \in Seq(Rows) /\ index \in 0..Len(b.rows)
  BY <1>1, <1>3, ListFields
<1> DEFINE fresh == Rows \ ToSet(b.rows)
<1>5. PICK new \in [1..count -> fresh] :
        /\ IsInjective(new)
        /\ view' = ModelUpdated(b, RowsInserted(
                     [b EXCEPT !.rows = SubSeq(b.rows, 1, index) \o new
                                          \o SubSeq(b.rows, index + 1, Len(b.rows))], index, count))
  BY <1>1 DEF InsertRowsInModel
<1>6. PICK n \in Nat : n = Len(b.rows)
  BY <1>4
<1>7. index \in 0..n /\ count \in Nat /\ count # 0 /\ index \in Nat
  BY <1>4, <1>6
<1>8. PICK rows : rows = SubSeq(b.rows, 1, index) \o new \o SubSeq(b.rows, index + 1, Len(b.rows))
  OBVIOUS
<1> DEFINE v == [b EXCEPT !.rows = rows]
           w == RowsInserted(v, index, count)
<1>9. view' = ModelUpdated(b, w)
  BY <1>5, <1>8
<1>10. /\ rows \in Seq(Rows) /\ IsInjective(rows)
       /\ Len(rows) = n + count /\ DOMAIN rows = 1..n + count
       /\ \A k \in 1..index : rows[k] = b.rows[k]
       /\ \A k \in index + 1..n : rows[k + count] = b.rows[k]
       /\ \A k \in index + 1..index + count : rows[k] \notin ToSet(b.rows)
  <2>1. IsInjective(b.rows)
    BY <1>3 DEF RequestsAreForRows
  <2> QED
    <3>1. PICK old \in Seq(Rows) : old = b.rows
      BY <1>4
    <3>2. PICK i \in 0..Len(old) : i = index
      BY <1>4, <3>1
    <3>3. /\ new \in [1..count -> Rows \ ToSet(old)] /\ IsInjective(new) /\ IsInjective(old)
          /\ rows = SubSeq(old, 1, i) \o new \o SubSeq(old, i + 1, Len(old))
      BY <1>5, <1>8, <2>1, <3>1, <3>2
    <3>4. RowsAdded(rows, old, i, count)
      BY <1>7, <3>3, NewRowsCome
    <3> QED
      BY <1>6, <3>1, <3>2, <3>4 DEF RowsAdded
<1>11. /\ v \in ListViews({b.sticky}) /\ v.sticky = b.sticky
       /\ v.rows = rows /\ v.jobs = b.jobs /\ v.async = b.async /\ v.first = b.first
       /\ v.items = b.items /\ v.minY = b.minY
       /\ v.contentY = b.contentY /\ v.anim = b.anim /\ v.animTo = b.animTo
  BY <1>3, <1>10 DEF IsListView, ListViews
<1> HIDE DEF v
<1>12. b.jobs \subseteq ToSet(rows)
  <2> SUFFICES ASSUME NEW row \in b.jobs PROVE row \in ToSet(rows)
    OBVIOUS
  <2>1. PICK k \in 1..n : b.rows[k] = row
    BY <1>3, <1>4, <1>6 DEF RequestsAreForRows, ToSet
  <2>2. PICK j \in DOMAIN rows : rows[j] = row
    <3>1. CASE k <= index
      <4>1. k \in 1..index /\ k \in 1..n + count
        BY <1>7, <3>1
      <4> QED
        BY <1>10, <2>1, <4>1
    <3>2. CASE ~(k <= index)
      <4>1. k \in index + 1..n /\ k + count \in 1..n + count
        BY <1>7, <3>2
      <4> QED
        BY <1>10, <2>1, <4>1
    <3> QED
      BY <3>1, <3>2
  <2> QED
    BY <2>2 DEF ToSet
<1>13. PICK k \in Int : k = b.async /\ k \in -1..n - 1
  BY <1>3, <1>6 DEF RequestsAreForRows
<1>14. SoundList(v)
  <2>1. v.async \in -1..Len(v.rows) - 1
    BY <1>7, <1>10, <1>11, <1>13
  <2>2. RequestsAreForRows(v)
    BY <1>10, <1>11, <1>12, <2>1 DEF RequestsAreForRows
  <2>3. FirstIsPlaced(v)
    BY <1>3, <1>11 DEF FirstIsPlaced
  <2> QED
    BY <1>11, <2>2, <2>3 DEF SoundList, IsListView
<1>15. /\ IsListView(w) /\ FirstIsPlaced(w)
       /\ w.rows = v.rows /\ w.jobs \subseteq ToSet(w.rows)
       /\ \/ w.async = -1
          \/ /\ w.jobs = v.jobs
             /\ w.async = v.async + Bound(0, v.async - index + 1, count)
       /\ NothingCreated(v) => NothingCreated(w)
  <2>1. PICK i \in Nat : i = index
    BY <1>7
  <2>2. PICK c \in Nat \ {0} : c = count
    BY <1>7
  <2>3. i + c <= Len(v.rows)
    BY <1>7, <1>10, <1>11, <2>1, <2>2
  <2>4. w = RowsInserted(v, i, c)
    BY <2>1, <2>2
  <2> HIDE DEF w
  <2> QED
    BY <1>14, <2>1, <2>2, <2>3, <2>4, RowsAreInserted
<1> HIDE DEF w
<1>16. \/ w.async = -1
       \/ /\ w.jobs = b.jobs
          /\ w.async \in 0..n + count - 1
          /\ \/ k < index /\ w.async = k
             \/ k >= index + count - 1 /\ w.async = k + count
             \/ k >= index /\ k < index + count - 1
  <2>1. ASSUME w.async # -1 PROVE w.jobs = b.jobs /\ w.async = k + Bound(0, k - index + 1, count)
    BY <1>11, <1>13, <1>15, <2>1
  <2>2. CASE k < index
    <3>1. Bound(0, k - index + 1, count) = 0
      BY <1>7, <2>2 DEF Bound
    <3>2. w.async # -1 => k + 0 = k /\ k \in 0..n + count - 1
      BY <1>7, <1>13, <2>1, <3>1
    <3> QED
      BY <2>1, <2>2, <3>1, <3>2
  <2>3. CASE k >= index + count - 1
    <3>1. Bound(0, k - index + 1, count) = count
      BY <1>7, <1>13, <2>3 DEF Bound
    <3>2. k + count \in 0..n + count - 1
      BY <1>7, <1>13, <2>3
    <3> QED
      BY <2>1, <2>3, <3>1, <3>2
  <2>4. CASE k >= index /\ k < index + count - 1
    <3>1. Bound(0, k - index + 1, count) = k - index + 1
      BY <1>7, <2>4 DEF Bound
    <3>2. k + (k - index + 1) \in 0..n + count - 1
      BY <1>7, <1>13, <2>4
    <3> QED
      BY <2>1, <2>4, <3>1, <3>2
  <2> QED
    BY <1>7, <1>13, <2>2, <2>3, <2>4
<1>17. SoundList(w)
  <2>1. w.async \in -1..Len(w.rows) - 1
    BY <1>7, <1>10, <1>11, <1>15, <1>16
  <2>2. RequestsAreForRows(w)
    BY <1>10, <1>11, <1>15, <2>1 DEF RequestsAreForRows
  <2> QED
    BY <1>15, <2>2 DEF SoundList
<1>18. view'.rows = rows /\ SoundList(view')
  <2>1. PICK u : u = ModelUpdated(b, w)
    OBVIOUS
  <2>2. Stays(u, w) /\ IsListView(w)
    BY <1>17, <2>1, ModelIsUpdated DEF SoundList
  <2>3. SoundList(u) /\ u.rows = rows
    BY <1>11, <1>15, <1>17, <2>2, StaysSound DEF Stays
  <2> QED
    BY <1>9, <2>1, <2>3
<1>19. ASSUME k >= index, k < index + count - 1 PROVE InsertedAtAwaited
  <2>1. k \in 0..n - 1 /\ count > 1
    BY <1>7, <1>13, <1>19
  <2>2. Len(view'.rows) - Len(view.rows) = count
    BY <1>1, <1>6, <1>7, <1>10, <1>18
  <2>3. view'.rows[k + 1] # view.rows[k + 1]
    <3>1. rows[k + 1] \notin ToSet(b.rows)
      <4>1. k + 1 \in index + 1..index + count
        BY <1>7, <1>13, <1>19
      <4> QED
        BY <1>10, <4>1
    <3>2. b.rows[k + 1] \in ToSet(b.rows)
      <4>1. k + 1 \in DOMAIN b.rows
        BY <1>4, <1>6, <2>1
      <4> QED
        BY <4>1 DEF ToSet
    <3> QED
      BY <1>1, <1>18, <3>1, <3>2
  <2>4. ASSUME NEW j \in 1..k + 2 - count PROVE view'.rows[j] = view.rows[j]
    <3>1. j \in 1..index
      BY <1>7, <1>13, <1>19
    <3> QED
      BY <1>1, <1>10, <1>18, <3>1
  <2>5. view.async = k /\ view.async \in 0..Len(view.rows) - 1
    BY <1>1, <1>6, <1>13, <2>1
  <2> QED
    BY <2>1, <2>2, <2>3, <2>4, <2>5 DEF InsertedAtAwaited
<1>20. ASSUME ItemIsMade(b), w.async # -1, ~(k >= index /\ k < index + count - 1)
       PROVE  ItemIsMade(w)
  <2>1. w.jobs = b.jobs /\ w.async \in 0..n + count - 1
    BY <1>16, <1>20
  <2>2. (k < index /\ w.async = k) \/ (k >= index + count - 1 /\ k >= index /\ w.async = k + count)
    BY <1>7, <1>13, <1>16, <1>20
  <2>3. k # -1
    BY <1>7, <1>20, <2>2
  <2>4. k \in 0..n - 1 /\ b.rows[k + 1] \in b.jobs
    BY <1>6, <1>13, <1>20, <2>3 DEF ItemIsMade
  <2>5. rows[w.async + 1] = b.rows[k + 1]
    <3>1. CASE k < index /\ w.async = k
      <4>1. k + 1 \in 1..index
        BY <1>7, <2>4, <3>1
      <4> QED
        BY <1>10, <3>1, <4>1
    <3>2. CASE k >= index /\ w.async = k + count
      <4>1. k + 1 \in index + 1..n /\ w.async + 1 = k + 1 + count
        BY <1>7, <2>4, <3>2
      <4> QED
        BY <1>10, <4>1
    <3> QED
      BY <2>2, <3>1, <3>2
  <2>6. w.rows = rows /\ w.async \in 0..Len(w.rows) - 1
    BY <1>7, <1>10, <1>11, <1>15, <2>1
  <2> QED
    BY <2>1, <2>4, <2>5, <2>6 DEF ItemIsMade
<1>21. NothingCreated(b) => NothingCreated(w)
  BY <1>11, <1>15 DEF NothingCreated
<1>22. CASE k >= index /\ k < index + count - 1
  BY <1>18, <1>19, <1>22
<1>23. CASE ~(k >= index /\ k < index + count - 1)
  <2>1. ItemIsMade(b) => ItemIsMade(w)
    <3>1. w.async = -1 => ItemIsMade(w)
      BY DEF ItemIsMade
    <3> QED
      BY <1>20, <1>23, <3>1
  <2>2. RequestRuns(w) \/ NothingCreated(w)
    BY <1>3, <1>21, <2>1 DEF GoodList, RequestRuns
  <2>3. GoodList(ModelUpdated(b, w))
    BY <1>17, <2>2, ModelUpdateIsGood
  <2> QED
    BY <1>9, <1>18, <2>3
<1> QED
  BY <1>22, <1>23

LEMMA RemoveIsGood ==
    ASSUME GoodList(view), NEW index \in 0..Len(view.rows), NEW count \in 1..Len(view.rows),
           RemoveRowsFromModel(index, count)
    PROVE  GoodList(view')
<1>1. PICK b : b = view
  OBVIOUS
<1> DEFINE gone == {b.rows[i + 1] : i \in index..index + count - 1}
           rows == SubSeq(b.rows, 1, index) \o SubSeq(b.rows, index + count + 1, Len(b.rows))
           jobs == b.jobs \ gone
           v == [b EXCEPT !.rows = rows, !.jobs = jobs]
           w == RowsRemoved(v, index, count)
<1>2. view' = ModelUpdated(b, w) /\ count \in 1..Len(b.rows) - index
  BY <1>1 DEF RemoveRowsFromModel
<1>3. GoodList(b) /\ SoundList(b) /\ IsListView(b) /\ RequestsAreForRows(b) /\ FirstIsPlaced(b)
  BY <1>1, GoodFields
<1>4. /\ Len(b.rows) \in Nat /\ DOMAIN b.rows = 1..Len(b.rows) /\ b.rows \in Seq(Rows)
      /\ index \in Nat /\ count \in Nat \ {0} /\ index + count <= Len(b.rows)
  BY <1>1, <1>2, <1>3, ListFields
<1>5. /\ rows \in Seq(Rows) /\ Len(rows) = Len(b.rows) - count
      /\ \A k \in 1..index : rows[k] = b.rows[k]
      /\ \A k \in index + 1..Len(rows) : rows[k] = b.rows[k + count]
  <2>1. PICK j \in Int : j = index + count + 1
    BY <1>4
  <2>2. 0 <= index /\ index < j /\ j <= Len(b.rows) + 1 /\ j - index - 1 = count
    BY <1>4, <2>1
  <2>3. rows \in Seq(Rows) /\ Cut(rows, b.rows, index, j)
    BY <1>4, <2>1, <2>2, SequenceCut
  <2> HIDE DEF rows
  <2> QED
    BY <2>2, <2>3 DEF Cut
<1> HIDE DEF rows
<1>6. DOMAIN rows = 1..Len(rows) /\ Len(rows) \in Nat
  BY <1>5, SequenceDomain
<1>7. ASSUME NEW k \in 1..Len(b.rows), k <= index \/ k > index + count
      PROVE  LET m == IF k <= index THEN k ELSE k - count
             IN  m \in DOMAIN rows /\ rows[m] = b.rows[k]
  <2>1. CASE k <= index
    BY <1>4, <1>5, <1>6, <2>1
  <2>2. CASE k > index + count
    <3>1. k - count \in index + 1..Len(rows) /\ (k - count) + count = k /\ ~(k <= index)
      BY <1>4, <1>5, <2>2
    <3> QED
      BY <1>4, <1>5, <1>6, <3>1
  <2> QED
    BY <1>7, <2>1, <2>2
<1>8. ASSUME NEW k \in 1..Len(b.rows), b.rows[k] \notin gone
      PROVE  k <= index \/ k > index + count
  <2> SUFFICES ASSUME k > index, k <= index + count PROVE FALSE
    BY <1>4
  <2>1. k - 1 \in index..index + count - 1 /\ (k - 1) + 1 = k
    BY <1>4
  <2> QED
    BY <1>8, <2>1
<1>9. IsInjective(rows)
  <2> SUFFICES ASSUME NEW k \in DOMAIN rows, NEW m \in DOMAIN rows, rows[k] = rows[m] PROVE k = m
    BY DEF IsInjective
  <2> DEFINE old(j) == IF j <= index THEN j ELSE j + count
  <2>1. ASSUME NEW j \in DOMAIN rows PROVE old(j) \in DOMAIN b.rows /\ rows[j] = b.rows[old(j)]
    <3>1. CASE j <= index
      BY <1>4, <1>5, <1>6, <3>1
    <3>2. CASE j > index
      <4>1. j \in index + 1..Len(rows) /\ old(j) = j + count
        BY <1>4, <1>6, <3>2
      <4>2. PICK n \in Nat : n = Len(b.rows) /\ Len(rows) = n - count
        BY <1>4, <1>5
      <4>3. PICK c \in Nat : c = count
        BY <1>4
      <4>4. j \in Int /\ 1 <= j /\ j <= n - c
        BY <1>4, <4>1, <4>2, <4>3
      <4>5. j + c \in 1..n
        BY <4>4
      <4>6. j + count \in DOMAIN b.rows
        BY <1>4, <4>2, <4>3, <4>5
      <4> QED
        BY <1>5, <4>1, <4>6
    <3> QED
      BY <1>4, <1>6, <3>1, <3>2
  <2>2. b.rows[old(k)] = b.rows[old(m)] /\ old(k) \in DOMAIN b.rows /\ old(m) \in DOMAIN b.rows
    BY <2>1
  <2>3. old(k) = old(m)
    <3> HIDE DEF old
    <3> QED
      BY <1>3, <2>2 DEF RequestsAreForRows, IsInjective
  <2> QED
    BY <1>4, <1>6, <2>3
<1>10. jobs \in SUBSET Rows /\ jobs \subseteq ToSet(rows)
  <2>1. jobs \in SUBSET Rows
    BY <1>3, ListFields
  <2>2. ASSUME NEW row \in jobs PROVE row \in ToSet(rows)
    <3>1. PICK k \in 1..Len(b.rows) : b.rows[k] = row
      BY <1>3, <1>4 DEF RequestsAreForRows, ToSet
    <3>2. k <= index \/ k > index + count
      BY <1>8, <3>1
    <3>3. PICK m \in DOMAIN rows : rows[m] = row
      BY <1>7, <3>1, <3>2
    <3> QED
      BY <3>3 DEF ToSet
  <2> QED
    BY <2>1, <2>2
<1>11. ASSUME NEW k \in 1..Len(b.rows), k <= index \/ k > index + count, b.rows[k] \in b.jobs
       PROVE  b.rows[k] \in jobs
  <2> SUFFICES ASSUME b.rows[k] \in gone PROVE FALSE
    BY <1>11
  <2>1. PICK i \in index..index + count - 1 : b.rows[k] = b.rows[i + 1]
    OBVIOUS
  <2>2. i + 1 \in DOMAIN b.rows /\ k \in DOMAIN b.rows /\ i + 1 # k
    BY <1>4, <1>11
  <2> QED
    BY <1>3, <2>1, <2>2 DEF RequestsAreForRows, IsInjective
<1> HIDE DEF jobs, gone
<1>12. /\ v \in ListViews({b.sticky}) /\ v.sticky = b.sticky
       /\ v.rows = rows /\ v.jobs = jobs /\ v.async = b.async /\ v.first = b.first
       /\ v.items = b.items /\ v.minY = b.minY
       /\ v.contentY = b.contentY /\ v.anim = b.anim /\ v.animTo = b.animTo
  BY <1>3, <1>5, <1>10 DEF IsListView, ListViews
<1> HIDE DEF v
<1>13. IsListView(v) /\ FirstIsPlaced(v)
  BY <1>3, <1>12 DEF IsListView, FirstIsPlaced
<1>14. /\ IsListView(w) /\ FirstIsPlaced(w)
       /\ w.rows = rows /\ w.jobs = jobs
       /\ w.async = IF b.async >= index /\ b.async < index + count THEN -1
                    ELSE IF b.async >= index + count THEN b.async - count ELSE b.async
       /\ NothingCreated(v) => NothingCreated(w)
  <2>1. index \in Nat /\ count \in Nat \ {0} /\ w = RowsRemoved(v, index, count)
    BY <1>4
  <2> HIDE DEF w
  <2>2. /\ IsListView(w) /\ FirstIsPlaced(w)
        /\ w.rows = v.rows /\ w.jobs = v.jobs
        /\ w.async = IF v.async >= index /\ v.async < index + count THEN -1
                     ELSE IF v.async >= index + count THEN v.async - count ELSE v.async
        /\ NothingCreated(v) => NothingCreated(w)
    <3>1. PICK i \in Nat : i = index
      BY <2>1
    <3>2. PICK c \in Nat \ {0} : c = count
      BY <2>1
    <3>3. w = RowsRemoved(v, i, c)
      BY <2>1, <3>1, <3>2
    <3>4. IsListView(v) /\ FirstIsPlaced(v)
      BY <1>13
    <3>5. Removed(w, v, i, c)
      BY <3>3, <3>4, RowsAreRemoved
    <3> QED
      BY <3>1, <3>2, <3>5 DEF Removed
  <2> QED
    BY <1>12, <2>2
<1> HIDE DEF w
<1>15. b.async \in -1..Len(b.rows) - 1
  BY <1>3 DEF RequestsAreForRows
<1>16. SoundList(w)
  <2>1. PICK m \in Nat : m = Len(b.rows)
    BY <1>4
  <2>2. PICK k \in Int : k = b.async /\ k \in -1..m - 1
    BY <1>15, <2>1
  <2>3. Len(w.rows) = m - count
    BY <1>5, <1>14, <2>1
  <2>4. \/ w.async = -1
        \/ w.async = k /\ k < index
        \/ w.async = k - count /\ k >= index + count
    BY <1>4, <1>14, <2>2
  <2>5. w.async \in -1..Len(w.rows) - 1
    <3>1. PICK i \in Nat : i = index
      BY <1>4
    <3>2. PICK c \in Nat : c = count
      BY <1>4
    <3>3. i + c <= m
      BY <1>4, <2>1, <3>1, <3>2
    <3>4. w.async = -1 \/ (w.async = k /\ k < i) \/ (w.async = k - c /\ k >= i + c)
      BY <2>4, <3>1, <3>2
    <3>5. w.async \in -1..m - c - 1
      BY <2>2, <3>3, <3>4
    <3> QED
      BY <2>3, <3>2, <3>5
  <2>6. RequestsAreForRows(w)
    BY <1>9, <1>10, <1>14, <2>5 DEF RequestsAreForRows
  <2> QED
    BY <1>14, <2>6 DEF SoundList
<1>17. ASSUME ItemIsMade(b), w.async # -1 PROVE ItemIsMade(w)
  <2>1. b.async # -1 /\ ~(b.async >= index /\ b.async < index + count)
    BY <1>4, <1>14, <1>15, <1>17
  <2>2. b.async \in 0..Len(b.rows) - 1 /\ b.rows[b.async + 1] \in b.jobs
    BY <1>17, <2>1 DEF ItemIsMade
  <2>3. PICK k \in 1..Len(b.rows) : k = b.async + 1
    BY <1>4, <2>2
  <2>4. k <= index \/ k > index + count
    BY <1>4, <2>1, <2>2, <2>3
  <2>5. b.rows[k] \in jobs
    BY <1>11, <2>2, <2>3, <2>4
  <2> DEFINE m == IF k <= index THEN k ELSE k - count
  <2>6. m \in DOMAIN rows /\ rows[m] = b.rows[k]
    BY <1>7, <2>4
  <2>7. w.async + 1 = m /\ w.async \in 0..Len(rows) - 1
    <3>1. CASE k <= index
      <4>1. b.async < index /\ w.async = b.async
        BY <1>4, <1>14, <2>2, <2>3, <3>1
      <4> QED
        BY <1>4, <1>5, <2>2, <2>3, <3>1, <4>1
    <3>2. CASE k > index + count
      <4>1. b.async >= index + count /\ w.async = b.async - count /\ ~(k <= index)
        BY <1>4, <1>14, <2>2, <2>3, <3>2
      <4>2. m = k - count
        BY <4>1
      <4> HIDE DEF m
      <4>3. w.async + 1 = m
        BY <1>4, <2>2, <2>3, <4>1, <4>2
      <4>4. w.async \in 0..Len(rows) - 1
        <5>1. PICK n \in Nat : n = Len(b.rows)
          BY <1>4
        <5>2. PICK c \in Nat : c = count
          BY <1>4
        <5>3. PICK j \in Int : j = b.async /\ j <= n - 1 /\ j >= c
          BY <1>4, <2>2, <4>1, <5>1, <5>2
        <5>4. w.async = j - c /\ Len(rows) = n - c
          BY <1>5, <4>1, <5>1, <5>2, <5>3
        <5> QED
          BY <5>3, <5>4
      <4> QED
        BY <4>3, <4>4
    <3> QED
      BY <2>4, <3>1, <3>2
  <2> HIDE DEF m
  <2>8. w.rows[w.async + 1] \in w.jobs
    BY <1>14, <2>5, <2>6, <2>7
  <2> QED
    BY <1>14, <2>7, <2>8 DEF ItemIsMade
<1>18. RequestRuns(b) => RequestRuns(w)
  BY <1>17 DEF RequestRuns, ItemIsMade
<1>19. NothingCreated(b) => NothingCreated(w)
  BY <1>12, <1>14 DEF NothingCreated
<1> QED
  BY <1>2, <1>3, <1>16, <1>18, <1>19, ModelUpdateIsGood DEF GoodList

LEMMA ResizeIsGood ==
    ASSUME GoodList(view), NEW k \in DOMAIN view.items, Resize(k)
    PROVE  GoodList(view')
<1>1. PICK b : b = view
  OBVIOUS
<1> DEFINE item == b.items[k]
           diff == IF item.row \in tall THEN -ItemHeight ELSE ItemHeight
           v == [b EXCEPT !.items[k].height = @ + diff]
           above == item.y + item.height + v.clipY <= v.contentY
           a == ShiftFirst(v, -diff)
           c == AdjustMinYExtent(a)
           w == IF above THEN Layout(c) ELSE v
           r == Refill(w)
           u == AdjustMinYExtent(r)
           p == [u EXCEPT !.polish = TRUE, !.dirty = TRUE]
<1>2. view' = p
  BY <1>1, Zenon DEF Resize
<1>3. /\ GoodList(b) /\ SoundList(b) /\ IsListView(b) /\ k \in 1..Len(b.items)
      /\ b.items # <<>> /\ b.items \in Seq(ListItems) /\ item \in ListItems
  <2>1. GoodList(b) /\ SoundList(b) /\ IsListView(b) /\ k \in DOMAIN b.items
    BY <1>1, GoodFields
  <2> QED
    BY <2>1, ListFields
<1>4. RequestRuns(b)
  BY <1>3, GoodWithItems
<1>5. diff \in Int /\ -diff \in Int
  BY ListLengths
<1>6. Moves(v, b)
  <2>1. item.height + diff \in Int
    BY <1>3, <1>5 DEF ListItems
  <2> HIDE DEF diff, item
  <2> DEFINE new == [item EXCEPT !.height = item.height + diff]
  <2>2. new \in ListItems
    BY <1>3, <2>1 DEF ListItems
  <2> DEFINE items == [b.items EXCEPT ![k] = new]
  <2>3. v = [b EXCEPT !.items = items]
    BY DEF item
  <2> HIDE DEF new, v
  <2>4. items \in Seq(ListItems) /\ Len(items) = Len(b.items)
    BY <1>3, <2>2, ItemReplaced
  <2> HIDE DEF items
  <2> QED
    BY <1>3, <2>3, <2>4, WithItems
<1> HIDE DEF v, above
<1>7. IsListView(v)
  BY <1>6 DEF Moves
<1>8. Moves(w, b)
  <2>1. Moves(a, v)
    <3> HIDE DEF diff
    <3> QED
      BY <1>5, <1>7, FirstShifts
  <2> HIDE DEF a
  <2>2. IsListView(a)
    BY <2>1 DEF Moves
  <2>3. Moves(c, a)
    BY <2>2, StartMoves
  <2> HIDE DEF c
  <2>4. IsListView(c) /\ Moves(c, v)
    BY <1>7, <2>1, <2>3, MovesOn DEF Moves
  <2>5. Moves(Layout(c), c)
    BY <2>4, LaidOut
  <2>6. Moves(Layout(c), v)
    BY <1>7, <2>4, <2>5, MovesOn
  <2>7. Moves(Layout(c), b)
    BY <1>3, <1>6, <2>6, MovesOn
  <2> QED
    BY <1>6, <2>7
<1> HIDE DEF w
<1>9. SoundList(w) /\ RequestRuns(w)
  <2>1. Stays(w, b)
    BY <1>3, <1>8, MovesStays
  <2> QED
    BY <1>3, <1>4, <2>1, StaysSound
<1>10. SoundList(r) /\ RequestRuns(r) /\ IsListView(r)
  BY <1>9, ListIsRefilled DEF Asks, SoundList
<1> HIDE DEF r
<1>11. Stays(u, r) /\ IsListView(u)
  BY <1>10, StartMoves, MovesStays
<1> HIDE DEF u
<1>12. Stays(p, u)
  BY <1>11, FrameAsked
<1> HIDE DEF p
<1>13. Stays(p, r)
  BY <1>10, <1>11, <1>12, StaysOn
<1>14. SoundList(p) /\ RequestRuns(p)
  BY <1>10, <1>13, StaysSound
<1> QED
  BY <1>2, <1>14 DEF GoodList

LEMMA ResizeHeaderIsGood ==
    ASSUME GoodList(view), NEW height \in HeaderHeights, ResizeHeader(height)
    PROVE  GoodList(view')
<1>1. PICK b : b = view
  OBVIOUS
<1> DEFINE diff == height - b.headerImplicit
           v == [b EXCEPT !.headerImplicit = height]
           a == AdjustHeader(v, diff, FALSE)
           c == Layout(a)
           p == [c EXCEPT !.polish = TRUE, !.dirty = TRUE]
<1>2. view' = p
  BY <1>1, Zenon DEF ResizeHeader
<1>3. GoodList(b) /\ IsListView(b) /\ height \in Int /\ diff \in Int
  <2>1. GoodList(b) /\ IsListView(b)
    BY <1>1, GoodFields
  <2> QED
    BY <2>1, ListFields, ListLengths
<1>4. Stays(v, b) /\ v.contentY = b.contentY
  <2>1. v.contentY = b.contentY
    BY <1>3 DEF IsListView, ListViews
  <2> QED
    BY <1>3, <2>1, ContentSet
<1> HIDE DEF v, diff
<1>5. IsListView(v)
  BY <1>4 DEF Stays
<1>6. Moves(a, v)
  BY <1>3, <1>5, HeaderAdjusts
<1> HIDE DEF a
<1>7. IsListView(a)
  BY <1>6 DEF Moves
<1>8. Moves(c, a)
  BY <1>7, LaidOut
<1> HIDE DEF c
<1>9. Moves(c, v) /\ IsListView(c)
  BY <1>5, <1>6, <1>8, MovesOn DEF Moves
<1>10. Stays(c, v) /\ c.contentY = v.contentY
  BY <1>5, <1>9, MovesStays DEF Moves
<1>11. Stays(p, c) /\ p.contentY = c.contentY
  BY <1>9, FrameAsked
<1> HIDE DEF p
<1>12. Stays(c, b)
  BY <1>3, <1>4, <1>10, StaysOn
<1>13. Stays(p, b) /\ p.contentY = b.contentY
  BY <1>3, <1>4, <1>10, <1>11, <1>12, StaysOn
<1> QED
  BY <1>2, <1>3, <1>13, GoodStays

\* A view that has items may be moved anywhere.
LEMMA MovedIsGood ==
    ASSUME NEW v, GoodList(v), RequestRuns(v), NEW y \in Int
    PROVE  GoodList(MoveTo(v, y, FALSE)) /\ RequestRuns(MoveTo(v, y, FALSE))
<1>1. IsListView(v)
  BY GoodFields
<1>2. PICK keep : keep = FALSE
  OBVIOUS
<1> DEFINE w == MoveTo(v, y, keep)
<1>3. Stays(w, v)
  BY <1>1, ViewportMoves
<1> HIDE DEF w
<1>4. GoodList(w) /\ RequestRuns(w)
  BY <1>1, <1>3, GoodStays, StaysSound
<1> QED
  BY <1>2, <1>4 DEF w

LEMMA MoveIsGood ==
    ASSUME GoodList(view), NEW by \in Steps, Move(by)
    PROVE  GoodList(view')
<1>1. PICK b : b = view
  OBVIOUS
<1>2. /\ GoodList(b) /\ IsListView(b) /\ RequestRuns(b)
      /\ view' = MoveTo(b, b.contentY + by, FALSE)
  BY <1>1, GoodFields, GoodWithItems DEF Move
<1>3. b.contentY + by \in Int
  <2>1. by \in Int
    BY ListConstants
  <2>2. b.contentY \in Int
    BY <1>2, ListFields
  <2> QED
    BY <2>1, <2>2
<1> QED
  BY <1>2, <1>3, MovedIsGood

LEMMA LetGoIsGood ==
    ASSUME GoodList(view), LetGo
    PROVE  GoodList(view')
<1>1. PICK b : b = view
  OBVIOUS
<1> DEFINE low == -b.minY
           high == MaxOf(low, b.contentHeight - ViewHeight)
           y == Bound(low, b.contentY, high)
<1>2. b.items # <<>> /\ view' = MoveTo(b, y, FALSE)
  BY <1>1, Zenon DEF LetGo
<1>3. GoodList(b) /\ IsListView(b) /\ RequestRuns(b)
  BY <1>1, <1>2, GoodFields, GoodWithItems
<1>4. y \in Int
  <2>1. low \in Int /\ b.contentHeight - ViewHeight \in Int /\ b.contentY \in Int
    BY <1>3, ListFields, ListLengths
  <2> HIDE DEF low
  <2>2. high \in Int
    BY <2>1, MaxIsInt
  <2> HIDE DEF high
  <2> QED
    BY <2>1, <2>2, BoundIsInt
<1> HIDE DEF y
<1> QED
  BY <1>2, <1>3, <1>4, MovedIsGood

LEMMA Animated ==
    ASSUME NEW v, IsListView(v), NEW kind \in Animations, NEW to \in Int,
           NEW w, w = Animate(v, kind, to)
    PROVE  /\ SoundList(v) => SoundList(w)
           /\ RequestRuns(v) => RequestRuns(w)
           /\ NothingCreated(v) /\ to >= 0 => NothingCreated(w)
           /\ w.polish = v.polish
<1>1. w = [v EXCEPT !.anim = kind, !.animTo = to]
  BY DEF Animate
<1>2. /\ w \in ListViews({v.sticky}) /\ w.sticky = v.sticky
      /\ w.rows = v.rows /\ w.jobs = v.jobs /\ w.async = v.async /\ w.first = v.first
      /\ w.items = v.items /\ w.minY = v.minY /\ w.contentY = v.contentY /\ w.animTo = to
      /\ w.polish = v.polish
  <2>1. w \in ListViews({v.sticky})
    BY <1>1 DEF IsListView, ListViews
  <2> QED
    BY <1>1, <2>1 DEF IsListView, ListViews
<1>3. IsListView(w)
  BY <1>2 DEF IsListView
<1>4. RequestsAreForRows(v) => RequestsAreForRows(w)
  BY <1>2 DEF RequestsAreForRows
<1>5. FirstIsPlaced(v) => FirstIsPlaced(w)
  BY <1>2 DEF FirstIsPlaced
<1>6. RequestRuns(v) => RequestRuns(w)
  BY <1>2 DEF RequestRuns, ItemIsMade
<1>7. NothingCreated(v) /\ to >= 0 => NothingCreated(w)
  BY <1>2 DEF NothingCreated
<1> QED
  BY <1>2, <1>3, <1>4, <1>5, <1>6, <1>7 DEF SoundList

LEMMA ShowHeaderIsGood ==
    ASSUME GoodList(view), ShowHeader
    PROVE  GoodList(view')
<1>1. PICK b : b = view
  OBVIOUS
<1> DEFINE to == MaxOf(-b.minY, b.contentY - b.headerHeight + b.shown)
           itself == b.contentY < b.headerY + b.headerHeight
           v == [b EXCEPT !.shown = b.headerY + b.headerHeight - b.contentY]
           u == UpdateClipItem(v)
           a == ShiftFirst(u, -u.shown)
           w == IF ~itself \/ b.shown # 0 THEN b ELSE IF v.items = <<>> THEN v ELSE Layout(a)
           p == Animate(w, "show", to)
<1>2. view' = p
  BY <1>1, Zenon DEF ShowHeader
<1>3. GoodList(b) /\ IsListView(b)
  BY <1>1, GoodFields
<1>4. /\ b.minY \in Int /\ b.contentY \in Int /\ b.headerHeight \in Int /\ b.shown \in Int
      /\ b.headerY \in Int
  BY <1>3, ListFields
<1>5. to \in Int /\ to >= -b.minY
  <2>1. PICK low \in Int : low = -b.minY
    BY <1>4
  <2>2. PICK y \in Int : y = b.contentY - b.headerHeight + b.shown
    BY <1>4
  <2>3. to = MaxOf(low, y)
    BY <2>1, <2>2
  <2> HIDE DEF to
  <2> QED
    BY <2>1, <2>3, MaxIsInt
<1> HIDE DEF to, itself
<1>6. Stays(w, b) /\ w.contentY = b.contentY
  <2>1. PICK s \in Int : s = b.headerY + b.headerHeight - b.contentY
    BY <1>4
  <2>2. v = [b EXCEPT !.shown = s]
    BY <2>1
  <2> HIDE DEF v
  <2>3. Stays(v, b) /\ v.contentY = b.contentY
    <3>1. v.contentY = b.contentY
      BY <1>3, <2>2 DEF IsListView, ListViews
    <3> QED
      BY <1>3, <2>2, <3>1, ContentSet
  <2>4. IsListView(v)
    BY <2>3 DEF Stays
  <2>5. Moves(u, v)
    BY <2>4, ClipMoves
  <2> HIDE DEF u
  <2>6. IsListView(u) /\ -u.shown \in Int
    <3>1. IsListView(u)
      BY <2>5 DEF Moves
    <3> QED
      BY <3>1, ListFields
  <2>7. Moves(a, u)
    BY <2>6, FirstShifts
  <2> HIDE DEF a
  <2>8. Moves(a, v) /\ IsListView(a)
    BY <2>4, <2>5, <2>7, MovesOn DEF Moves
  <2>9. Moves(Layout(a), a)
    BY <2>8, LaidOut
  <2>10. Moves(Layout(a), v)
    BY <2>4, <2>8, <2>9, MovesOn
  <2>11. Stays(Layout(a), v) /\ Layout(a).contentY = v.contentY
    BY <2>4, <2>10, MovesStays DEF Moves
  <2>12. Stays(Layout(a), b)
    BY <1>3, <2>3, <2>11, StaysOn
  <2>13. Stays(b, b)
    BY <1>3, MovesNot, MovesStays
  <2> QED
    BY <2>3, <2>11, <2>12, <2>13
<1> HIDE DEF w
<1>7. IsListView(w) /\ SoundList(w) /\ (RequestRuns(b) => RequestRuns(w))
  BY <1>3, <1>6, StaysSound DEF GoodList
<1>8. /\ SoundList(p)
      /\ RequestRuns(w) => RequestRuns(p)
      /\ NothingCreated(w) /\ to >= 0 => NothingCreated(p)
      /\ p.polish = w.polish
  BY <1>5, <1>7, Animated DEF Animations
<1> HIDE DEF p
<1>9. ASSUME NothingCreated(b), b.polish PROVE NothingCreated(p) /\ p.polish
  <2>1. NothingCreated(w)
    BY <1>3, <1>6, <1>9, NothingStays
  <2>2. to >= 0
    BY <1>4, <1>5, <1>9 DEF NothingCreated
  <2>3. w.polish
    BY <1>6, <1>9 DEF Stays
  <2> QED
    BY <1>8, <2>1, <2>2, <2>3
<1> QED
  BY <1>2, <1>3, <1>7, <1>8, <1>9 DEF GoodList

LEMMA MaximizeIsGood ==
    ASSUME GoodList(view), NEW k \in DOMAIN view.items, NEW more \in {0, ItemHeight},
           MaximizeVisibleArea(k, view.items[k].height + more)
    PROVE  GoodList(view')
<1>1. PICK b : b = view
  OBVIOUS
<1> DEFINE height == b.items[k].height + more
           v == Layout(b)
           p == Maximized(v, k, height)
<1>2. view' = p /\ GoodList(b) /\ IsListView(b) /\ k \in DOMAIN b.items
  BY <1>1, GoodFields DEF MaximizeVisibleArea
<1>3. b.items # <<>> /\ height \in Int
  <2>1. b.items[k] \in ListItems /\ b.items # <<>>
    BY <1>2, ListFields
  <2>2. b.items[k].height \in Int /\ more \in Int
    BY <2>1, ListLengths DEF ListItems
  <2> QED
    BY <2>1, <2>2
<1>4. RequestRuns(b)
  BY <1>2, <1>3, GoodWithItems
<1>5. Moves(v, b)
  BY <1>2, LaidOut
<1> HIDE DEF v, height
<1>6. Stays(v, b)
  BY <1>2, <1>5, MovesStays
<1>7. SoundList(v) /\ RequestRuns(v) /\ IsListView(v)
  BY <1>2, <1>4, <1>6, StaysSound DEF GoodList
<1>8. p = v \/ \E to \in Int : p = Animate(v, "maximize", to)
  <2> DEFINE item == v.items[k]
             full == height + HeadHeight(item)
             y == v.clipY + Top(item)
             real == IF v.sticky # NoSection /\ ~item.head THEN y - ItemHeight ELSE y
             least == y + full - ViewHeight
             one == IF y < least THEN y ELSE least
             other == MaxOf(real, least)
  <2>1. p \in {v, Animate(v, "maximize", one), Animate(v, "maximize", other)}
    BY DEF Maximized
  <2> HIDE DEF p
  <2>2. item \in ListItems
    <3>1. k \in DOMAIN v.items
      <4>1. Len(v.items) = Len(b.items)
        BY <1>6 DEF Stays
      <4> QED
        BY <1>2, <1>7, <4>1, ListFields
    <3> QED
      BY <1>7, <3>1, ListFields
  <2> HIDE DEF item
  <2>3. HeadHeight(item) \in Int /\ Top(item) \in Int /\ v.clipY \in Int
    BY <1>7, <2>2, ItemSizes, ListFields
  <2>4. full \in Int /\ y \in Int
    BY <1>3, <2>3
  <2> HIDE DEF full, y
  <2>5. least \in Int /\ real \in Int
    BY <2>4, ListLengths
  <2> HIDE DEF least, real
  <2>6. one \in Int /\ other \in Int
    BY <2>4, <2>5, MaxIsInt
  <2> QED
    BY <2>1, <2>6
<1> HIDE DEF p
<1>9. CASE p = v
  BY <1>2, <1>7, <1>9 DEF GoodList
<1>10. ASSUME NEW to \in Int, p = Animate(v, "maximize", to) PROVE GoodList(p)
  <2>1. SoundList(p) /\ RequestRuns(p)
    BY <1>7, <1>10, Animated DEF Animations
  <2> QED
    BY <2>1 DEF GoodList
<1> QED
  BY <1>2, <1>8, <1>9, <1>10

LEMMA AnimationIsGood ==
    ASSUME GoodList(view), AnimationStep
    PROVE  GoodList(view')
<1>1. PICK b : b = view
  OBVIOUS
<1> DEFINE y == Bound(b.contentY - ItemHeight, b.animTo, b.contentY + ItemHeight)
           v == MoveTo(b, y, FALSE)
           e == [v EXCEPT !.anim = "none", !.animTo = 0, !.dirty = TRUE, !.polish = TRUE]
<1>2. b.anim # "none" /\ view' = IF y # b.animTo THEN v ELSE e
  BY <1>1, Zenon DEF AnimationStep
<1>3. GoodList(b) /\ IsListView(b)
  BY <1>1, GoodFields
<1>4. y \in Int /\ (NothingCreated(b) => y >= 0)
  <2>1. b.contentY \in Int /\ b.animTo \in Int /\ ItemHeight \in Nat
    BY <1>3, ListFields, ListLengths
  <2>2. NothingCreated(b) => b.contentY >= 0 /\ b.animTo >= 0
    BY <1>2 DEF NothingCreated
  <2> QED
    BY <2>1, <2>2 DEF Bound
<1> HIDE DEF y
<1>5. Stays(v, b) /\ v.contentY = y
  BY <1>3, <1>4, ViewportMoves
<1> HIDE DEF v
<1>6. SoundList(v) /\ IsListView(v) /\ (RequestRuns(b) => RequestRuns(v))
  BY <1>3, <1>5, StaysSound DEF GoodList
<1>7. ASSUME NothingCreated(b), b.polish PROVE NothingCreated(v) /\ v.polish
  <2>1. v.items = <<>>
    BY <1>3, <1>5, <1>7, StaysSound DEF NothingCreated
  <2>2. v.minY = 0 /\ v.polish /\ v.animTo >= 0
    BY <1>2, <1>5, <1>7 DEF NothingCreated, Stays
  <2> QED
    BY <1>4, <1>5, <1>7, <2>1, <2>2 DEF NothingCreated
<1>8. GoodList(v)
  BY <1>3, <1>6, <1>7 DEF GoodList
<1>9. GoodList(e)
  <2>1. PICK yes \in BOOLEAN : yes = TRUE
    OBVIOUS
  <2>2. PICK zero \in Int : zero = 0
    OBVIOUS
  <2>3. PICK a : a = [v EXCEPT !.anim = "none", !.animTo = zero]
    OBVIOUS
  <2>4. a = Animate(v, "none", zero)
    BY <2>3 DEF Animate
  <2>5. /\ SoundList(a) /\ (RequestRuns(v) => RequestRuns(a))
        /\ NothingCreated(v) => NothingCreated(a)
        /\ a.polish = v.polish
    BY <1>6, <2>2, <2>4, Animated DEF Animations
  <2>6. GoodList(a)
    BY <1>8, <2>5 DEF GoodList
  <2> DEFINE d == [a EXCEPT !.polish = TRUE, !.dirty = TRUE]
  <2>7. IsListView(a)
    BY <2>5 DEF SoundList
  <2>8. d = e
    BY <2>2, <2>3, <2>7 DEF IsListView, ListViews
  <2> HIDE DEF e
  <2>9. Stays(d, a) /\ d.contentY = a.contentY
    BY <2>7, FrameAsked
  <2> HIDE DEF d
  <2> QED
    BY <2>6, <2>8, <2>9, GoodStays
<1> QED
  BY <1>2, <1>8, <1>9

\* The list made anew from the first row on has its item.
LEMMA FirstRowIsMade ==
    ASSUME NEW b, SoundList(b), b.rows # <<>>, NEW x,
           x = ForgetPosition(RowsFromFirst(CreateItem(
                   [b EXCEPT !.items = <<>>, !.first = -1, !.clipY = 0], 0, FALSE)))
    PROVE  SoundList(x) /\ RequestRuns(x) /\ x.items # <<>>
<1>1. IsListView(b) /\ RequestsAreForRows(b) /\ Len(b.rows) \in Nat /\ Len(b.rows) # 0
  BY ListFields DEF SoundList
<1>2. PICK none \in Int : none = -1
  OBVIOUS
<1>3. PICK zero \in Int : zero = 0
  OBVIOUS
<1>4. PICK empty \in Seq(ListItems) : empty = <<>>
  BY EmptySeq
<1> DEFINE v == [b EXCEPT !.items = empty, !.first = none, !.clipY = zero]
           c == CreateItem(v, 0, FALSE)
           y == Bottom(c.items[1])
           r == RowsFromFirst(c)
<1>5. x = ForgetPosition(r)
  BY <1>2, <1>3, <1>4
<1>6. /\ v \in ListViews({b.sticky}) /\ v.sticky = b.sticky
      /\ v.rows = b.rows /\ v.jobs = b.jobs /\ v.async = b.async /\ v.first = none
      /\ v.items = empty
  BY <1>1 DEF IsListView, ListViews
<1> HIDE DEF v
<1>7. SoundList(v)
  <2>1. RequestsAreForRows(v)
    BY <1>1, <1>6 DEF RequestsAreForRows
  <2>2. FirstIsPlaced(v)
    BY <1>2, <1>4, <1>6 DEF FirstIsPlaced
  <2> QED
    BY <1>6, <2>1, <2>2 DEF SoundList, IsListView
<1>8. 0 \in 0..Len(v.rows) - 1
  BY <1>1, <1>6
<1>9. SoundList(c) /\ RequestRuns(c)
  <2>1. PICK later \in BOOLEAN : later = FALSE
    OBVIOUS
  <2>2. c = CreateItem(v, zero, later) /\ zero \in 0..Len(v.rows) - 1
    BY <1>3, <1>8, <2>1
  <2> HIDE DEF c
  <2>3. Creates(c, v) /\ RequestRuns(c)
    BY <1>7, <2>1, <2>2, ItemIsCreated
  <2> QED
    BY <2>3 DEF Creates, Asks
<1>10. Created(c, 0)
  <2>1. c = CreateNow(v, 0)
    BY DEF CreateItem
  <2>2. ~LostItem(v, 0)
    BY DEF LostItem
  <2> HIDE DEF c
  <2> QED
    BY <1>7, <1>8, <2>1, <2>2, CreatedNow
<1> HIDE DEF c
<1>11. IsListView(c) /\ Len(c.items) \in Nat /\ Len(c.items) # 0 /\ y \in Int
  <2>1. IsListView(c) /\ FirstIsPlaced(c)
    BY <1>9 DEF SoundList
  <2>2. c.first \in Int /\ Len(c.items) \in Nat /\ (c.items # <<>> <=> Len(c.items) # 0)
    BY <2>1, ListFields
  <2>3. c.items # <<>>
    BY <1>10, <2>1, <2>2 DEF Created, FirstIsPlaced
  <2>4. c.items[1] \in ListItems
    BY <2>1, <2>2, <2>3, ListFields
  <2> QED
    BY <2>1, <2>2, <2>3, <2>4, ItemSizes
<1> HIDE DEF y
<1>12. Creates(r, c) /\ SoundList(r) /\ RequestRuns(r)
  <2>1. PICK limit \in Int : limit = ViewHeight + CacheBuffer
    BY ListLengths
  <2>2. PICK way \in {1, -1} : way = 1
    OBVIOUS
  <2>3. PICK one \in Int : one = 1
    OBVIOUS
  <2>4. PICK later \in BOOLEAN : later = FALSE
    OBVIOUS
  <2>5. r = CreateItems(c, one, y, way, limit, later)
    BY <2>1, <2>2, <2>3, <2>4 DEF RowsFromFirst, AppendItems, y
  <2> HIDE DEF r
  <2>6. Creates(r, c)
    BY <1>9, <1>11, <2>5, ItemsAreCreated
  <2> QED
    BY <1>9, <2>6 DEF Creates, Asks
<1> HIDE DEF r
<1>13. IsListView(r) /\ Len(r.items) \in Nat /\ Len(r.items) # 0
  <2>1. IsListView(r) /\ Len(r.items) >= Len(c.items)
    BY <1>12 DEF Creates, SoundList
  <2>2. Len(r.items) \in Nat
    BY <2>1, ListFields
  <2> QED
    BY <1>11, <2>1, <2>2
<1>14. PICK h \in Int : h = Top(r.items[1]) - r.headerHeight
  <2>1. r.items[1] \in ListItems /\ r.headerHeight \in Int
    BY <1>13, ListFields
  <2>2. Top(r.items[1]) \in Int
    BY <2>1, ItemSizes
  <2> QED
    BY <2>1, <2>2
<1>15. Stays([r EXCEPT !.prevY = h], r)
  BY <1>13, ContentSet
<1>16. Stays(x, r)
  BY <1>5, <1>14, <1>15 DEF ForgetPosition
<1> QED
  BY <1>12, <1>13, <1>16, StaysSound, ListFields

LEMMA PositionIsGood ==
    ASSUME GoodList(view), PositionAtBeginning
    PROVE  GoodList(view')
<1>1. PICK b : b = view
  OBVIOUS
<1> DEFINE made == ForgetPosition(RowsFromFirst(CreateItem(
                       [b EXCEPT !.items = <<>>, !.first = -1, !.clipY = 0], 0, FALSE)))
           x == IF b.first = 0 THEN b ELSE made
           y == Top(x.items[1]) + x.clipY - x.headerHeight
           m == MoveToFirst(x)
           p == HeaderOnTop(m)
<1>2. b.rows # <<>> /\ view' = p
  BY <1>1, Zenon DEF PositionAtBeginning
<1>3. GoodList(b) /\ SoundList(b) /\ FirstIsPlaced(b)
  BY <1>1, GoodFields
<1>4. SoundList(x) /\ RequestRuns(x) /\ x.items # <<>>
  <2>1. CASE b.first = 0
    <3>1. b.items # <<>>
      BY <1>3, <2>1 DEF FirstIsPlaced
    <3>2. RequestRuns(b)
      BY <1>3, <3>1, GoodWithItems
    <3> QED
      BY <1>3, <2>1, <3>1, <3>2
  <2>2. CASE b.first # 0
    <3>1. SoundList(made) /\ RequestRuns(made) /\ made.items # <<>>
      BY <1>2, <1>3, FirstRowIsMade
    <3> HIDE DEF made
    <3> QED
      BY <2>2, <3>1
  <2> QED
    BY <2>1, <2>2
<1> HIDE DEF x
<1>5. y \in Int
  <2>1. IsListView(x)
    BY <1>4 DEF SoundList
  <2>2. x.items[1] \in ListItems /\ x.clipY \in Int /\ x.headerHeight \in Int
    BY <1>4, <2>1, ListFields
  <2>3. Top(x.items[1]) \in Int
    BY <2>2, ItemSizes
  <2> QED
    BY <2>2, <2>3
<1>6. SoundList(m) /\ RequestRuns(m) /\ IsListView(m)
  <2>1. m = MoveTo(x, y, FALSE)
    BY DEF MoveToFirst
  <2> HIDE DEF m, y
  <2>2. GoodList(x)
    BY <1>4 DEF GoodList
  <2>3. GoodList(m) /\ RequestRuns(m)
    BY <1>4, <1>5, <2>1, <2>2, MovedIsGood
  <2> QED
    BY <2>3, GoodFields
<1> HIDE DEF m
<1>7. Stays(p, m)
  <2>1. PICK h \in Int : h = -m.minY
    BY <1>6, ListFields
  <2>2. Stays([m EXCEPT !.headerY = h], m)
    BY <1>6, ContentSet
  <2> QED
    BY <2>1, <2>2 DEF HeaderOnTop
<1> HIDE DEF p
<1>8. SoundList(p) /\ RequestRuns(p)
  BY <1>6, <1>7, StaysSound
<1> QED
  BY <1>2, <1>8 DEF GoodList

LEMMA SetDelegateIsGood ==
    ASSUME GoodList(view), SetDelegate
    PROVE  GoodList(view')
<1>1. PICK b : b = view
  OBVIOUS
<1>2. PICK none \in Int : none = -1
  OBVIOUS
<1>3. PICK empty \in Seq(ListItems) : empty = <<>>
  BY EmptySeq
<1>4. PICK jobs \in SUBSET Rows : jobs = {}
  OBVIOUS
<1>5. PICK zero \in Int : zero = 0
  OBVIOUS
<1>6. PICK yes \in BOOLEAN : yes = TRUE
  OBVIOUS
<1> DEFINE a == [b EXCEPT !.items = empty, !.first = none, !.jobs = jobs]
           e == AdjustMinYExtent(a)
           v == MoveTo(e, zero, FALSE)
           p == [v EXCEPT !.clipY = zero, !.sticky = NoSection, !.dirty = yes, !.polish = yes]
<1>7. view' = p /\ b.anim = "none"
  <2> DEFINE u == AdjustMinYExtent([view EXCEPT !.items = <<>>, !.first = -1, !.jobs = {}])
             w == MoveTo(u, 0, FALSE)
  <2>1. /\ view' = [w EXCEPT !.clipY = 0, !.sticky = NoSection, !.dirty = TRUE, !.polish = TRUE]
        /\ view.anim = "none"
    BY Zenon DEF SetDelegate
  <2>2. u = e
    BY <1>1, <1>2, <1>3, <1>4
  <2> HIDE DEF u, e
  <2>3. w = v
    BY <1>5, <2>2
  <2> HIDE DEF w, v
  <2> QED
    BY <1>1, <1>5, <1>6, <2>1, <2>3
<1>8. GoodList(b) /\ IsListView(b) /\ RequestsAreForRows(b)
  BY <1>1, GoodFields
<1>9. /\ a \in ListViews({b.sticky}) /\ a.sticky = b.sticky
      /\ a.rows = b.rows /\ a.jobs = jobs /\ a.async = b.async /\ a.first = none
      /\ a.items = empty /\ a.anim = b.anim
  BY <1>8 DEF IsListView, ListViews
<1> HIDE DEF a
<1>10. IsListView(a)
  BY <1>9 DEF IsListView
<1>11. SoundList(a)
  <2>1. jobs \subseteq ToSet(a.rows)
    BY <1>4
  <2>2. RequestsAreForRows(a)
    BY <1>8, <1>9, <2>1 DEF RequestsAreForRows
  <2>3. FirstIsPlaced(a)
    BY <1>2, <1>3, <1>9 DEF FirstIsPlaced
  <2> QED
    BY <1>10, <2>2, <2>3 DEF SoundList
<1>12. Moves(e, a) /\ e.minY = 0
  BY <1>3, <1>9, <1>10, StartMoves
<1> HIDE DEF e
<1>13. Stays(e, a) /\ IsListView(e)
  BY <1>10, <1>12, MovesStays
<1>14. e.items = <<>>
  BY <1>3, <1>9, <1>10, <1>13, StaysSound
<1>15. Stays(v, e) /\ v.contentY = zero
  BY <1>13, ViewportMoves
<1> HIDE DEF v
<1>16. Stays(v, a)
  BY <1>10, <1>13, <1>15, StaysOn
<1>17. SoundList(v) /\ IsListView(v) /\ v.items = <<>> /\ v.minY = 0 /\ v.anim = "none"
  <2>1. v.items = <<>> /\ SoundList(v) /\ IsListView(v)
    BY <1>3, <1>9, <1>10, <1>11, <1>16, StaysSound
  <2>2. v.minY = 0
    BY <1>12, <1>14, <1>15 DEF Stays
  <2>3. v.anim = "none"
    BY <1>7, <1>9, <1>16 DEF Stays
  <2> QED
    BY <2>1, <2>2, <2>3
<1>18. /\ p \in ListViews({NoSection}) /\ p.sticky = NoSection
       /\ p.rows = v.rows /\ p.jobs = v.jobs /\ p.async = v.async /\ p.first = v.first
       /\ p.items = v.items /\ p.anim = v.anim /\ p.polish = yes
       /\ p.contentY = v.contentY /\ p.minY = v.minY
  BY <1>17 DEF IsListView, ListViews
<1> HIDE DEF p
<1>19. SoundList(p)
  <2>1. RequestsAreForRows(p)
    BY <1>17, <1>18 DEF SoundList, RequestsAreForRows
  <2>2. FirstIsPlaced(p)
    BY <1>17, <1>18 DEF SoundList, FirstIsPlaced
  <2> QED
    BY <1>18, <2>1, <2>2 DEF SoundList, IsListView
<1>20. NothingCreated(p)
  BY <1>5, <1>15, <1>17, <1>18 DEF NothingCreated
<1> QED
  BY <1>6, <1>7, <1>18, <1>19, <1>20 DEF GoodList

\* Every event keeps the list good, but for the one that is known to miscount.
LEMMA EventIsGood ==
    ASSUME GoodList(view), ListEvent
    PROVE  GoodList(view') \/ (SoundList(view') /\ InsertedAtAwaited)
<1>1. ASSUME NEW row \in Rows, ItemCreated(row) PROVE GoodList(view')
  BY <1>1, ItemCreatedIsGood
<1>2. ASSUME NEW index \in 0..Len(view.rows), NEW count \in InsertCounts,
             InsertRowsInModel(index, count)
      PROVE  GoodList(view') \/ (SoundList(view') /\ InsertedAtAwaited)
  <2>1. count \in Nat \ {0}
    BY ListConstants
  <2> QED
    BY <1>2, <2>1, InsertIsGood
<1>3. ASSUME NEW index \in 0..Len(view.rows), NEW count \in 1..Len(view.rows),
             RemoveRowsFromModel(index, count)
      PROVE  GoodList(view')
  BY <1>3, RemoveIsGood
<1>4. ASSUME NEW k \in DOMAIN view.items, Resize(k) PROVE GoodList(view')
  BY <1>4, ResizeIsGood
<1>5. ASSUME NEW height \in HeaderHeights, ResizeHeader(height) PROVE GoodList(view')
  BY <1>5, ResizeHeaderIsGood
<1>6. ASSUME NEW by \in Steps, Move(by) PROVE GoodList(view')
  BY <1>6, MoveIsGood
<1>7. ASSUME LetGo PROVE GoodList(view')
  BY <1>7, LetGoIsGood
<1>8. ASSUME ShowHeader PROVE GoodList(view')
  BY <1>8, ShowHeaderIsGood
<1>9. ASSUME NEW k \in DOMAIN view.items, NEW more \in {0, ItemHeight},
             MaximizeVisibleArea(k, view.items[k].height + more)
      PROVE  GoodList(view')
  BY <1>9, MaximizeIsGood
<1>10. ASSUME AnimationStep PROVE GoodList(view')
  BY <1>10, AnimationIsGood
<1>11. ASSUME PositionAtBeginning PROVE GoodList(view')
  BY <1>11, PositionIsGood
<1>12. ASSUME SetDelegate PROVE GoodList(view')
  BY <1>12, SetDelegateIsGood
<1> QED
  BY <1>1, <1>2, <1>3, <1>4, <1>5, <1>6, <1>7, <1>8, <1>9, <1>10, <1>11, <1>12, Zenon
  DEF ListEvent

\* Between frames the row the list waits for is one of the model's, and the delegate
\* model is still making its item, whatever the user moves and resizes, whichever rows
\* come and go, in whatever numbers, and however late the items are
\* (m_asyncRequestedIndex of listviewwithpageheader.cpp): only several rows that were
\* inserted at once just in front of the awaited one can have broken it (cpp:1047).
THEOREM RequestIsAlwaysRunning == ListSpec => []RequestIsRunning
<1> DEFINE Good == GoodList(view)
<1>1. ListInit => Good
  BY ListInitGood
<1>2. Good /\ [ListNext]_listVars => Good'
  <2> SUFFICES ASSUME GoodList(view), [ListNext]_listVars PROVE GoodList(view)'
    OBVIOUS
  <2>1. ASSUME UNCHANGED listVars PROVE GoodList(view)'
    BY <2>1 DEF listVars, GoodList, SoundList, IsListView, RequestsAreForRows, FirstIsPlaced,
                RequestRuns, ItemIsMade, NothingCreated
  <2>2. ASSUME ListNext PROVE GoodList(view)'
    <3>1. Polish \/ ListEvent
      BY <2>2, Zenon DEF ListNext
    <3>2. GoodList(view') \/ (SoundList(view') /\ InsertedAtAwaited)
      BY <3>1, PolishIsGood, EventIsGood
    <3>3. SoundList(view)'
      BY <3>2 DEF GoodList, SoundList, IsListView, RequestsAreForRows, FirstIsPlaced
    <3>4. astray' <=> RequestBroken(view)' /\ (astray \/ InsertedAtAwaited)
      BY <2>2, Zenon DEF ListNext, RequestBroken
    <3>5. ~RequestBroken(view)' => ItemIsMade(view)'
      <4>1. view'.async \in -1..Len(view'.rows) - 1
        BY <3>3 DEF SoundList, RequestsAreForRows
      <4> QED
        BY <4>1 DEF RequestBroken, ItemIsMade
    <3>6. \/ astray \/ InsertedAtAwaited
          \/ ItemIsMade(view)'
          \/ NothingCreated(view)' /\ view'.polish
      BY <3>2 DEF GoodList, RequestRuns, ItemIsMade, NothingCreated
    <3> QED
      BY <3>3, <3>4, <3>5, <3>6 DEF GoodList, RequestRuns
  <2> QED
    BY <2>1, <2>2
<1>3. Good => RequestIsRunning
  <2> SUFFICES ASSUME GoodList(view), ~view.polish, RequestBroken(view) PROVE astray
    BY DEF RequestIsRunning
  <2>1. RequestRuns(view)
    BY GoodWithItems
  <2> QED
    BY <2>1 DEF RequestRuns, ItemIsMade, RequestBroken
<1> HIDE DEF Good
<1> QED
  BY <1>1, <1>2, <1>3, PTL DEF ListSpec

-----------------------------------------------------------------------------
(***************************************************************************)
(* The directional drag area.                                              *)
(***************************************************************************)
USE NoTouchAssumption

Contact == [id: TouchIds, recent: BOOLEAN]

Inv == DragIsEntitled /\ EndIsHeard

USE DEF Inv, DragIsEntitled

-----------------------------------------------------------------------------
(* Active touches.                                                         *)

\* The touches that start with an event, in some order.
LEMMA StartedTouches ==
    ASSUME NEW pressed \in SUBSET TouchIds,
           NEW started \in SetToSeqs([id: pressed, recent: {TRUE}])
    PROVE  /\ started \in Seq(Contact)
           /\ \A k \in DOMAIN started : started[k].id \in pressed
<1> DEFINE S == [id: pressed, recent: {TRUE}]
<1>1. IsFiniteSet(pressed)
  BY TouchIdsAssumption, FS_Subset
<1>2. IsFiniteSet(S)
  <2> DEFINE f == [id \in pressed |-> [id |-> id, recent |-> TRUE]]
  <2>1. f \in [pressed -> S]
    OBVIOUS
  <2>2. ASSUME NEW e \in S PROVE e.id \in pressed /\ f[e.id] = e
    OBVIOUS
  <2>3. f \in Surjection(pressed, S)
    BY <2>1, <2>2 DEF Surjection
  <2> QED
    BY <1>1, <2>3, FS_Surjection
<1>3. Cardinality(S) \in Nat
  BY <1>2, FS_CardinalityType
<1>4. started \in [1..Cardinality(S) -> S]
  BY DEF SetToSeqs
<1>5. S \subseteq Contact
  BY DEF Contact
<1>6. PICK n \in Nat : started \in [1..n -> S]
  BY <1>3, <1>4, Zenon
<1> HIDE DEF S
<1>7. started \in Seq(Contact)
  BY <1>5, <1>6
<1>8. ASSUME NEW k \in DOMAIN started PROVE started[k].id \in pressed
  <2>1. started[k] \in S
    BY <1>6
  <2> QED
    BY <2>1 DEF S
<1> QED
  BY <1>7, <1>8

\* update() adds what is pressed, and leaves out what has ended.
LEMMA UpdateActive ==
    ASSUME activeTouches \in Seq(Contact), NEW pressed \in SUBSET TouchIds, NEW ended,
           Update(pressed, ended)
    PROVE  /\ activeTouches' \in Seq(Contact)
           /\ Active' \subseteq (Active \cup pressed) \ ended
<1>1. PICK started \in SetToSeqs([id: pressed, recent: {TRUE}]) :
          activeTouches' = Kept(activeTouches \o started,
              {k \in DOMAIN (activeTouches \o started) :
                  (activeTouches \o started)[k].id \notin ended})
  BY DEF Update
<1>2. /\ started \in Seq(Contact)
      /\ \A k \in DOMAIN started : started[k].id \in pressed
  BY StartedTouches
<1> DEFINE known == activeTouches \o started
           K == {k \in DOMAIN known : known[k].id \notin ended}
<1>3. known \in Seq(Contact)
  BY <1>2, ConcatProperties
<1>4. ASSUME NEW k \in DOMAIN known PROVE known[k].id \in Active \cup pressed
  <2>1. /\ DOMAIN activeTouches = 1..Len(activeTouches) /\ Len(activeTouches) \in Nat
        /\ DOMAIN started = 1..Len(started) /\ Len(started) \in Nat
        /\ DOMAIN known = 1..Len(known) /\ Len(known) \in Nat
    BY <1>2, <1>3, SequenceDomain
  <2>2. /\ Len(known) = Len(activeTouches) + Len(started)
        /\ \A i \in 1..Len(known) :
              known[i] = IF i <= Len(activeTouches) THEN activeTouches[i]
                         ELSE started[i - Len(activeTouches)]
    BY <1>2, ConcatProperties
  <2>3. CASE k \in DOMAIN activeTouches
    BY <2>1, <2>2, <2>3 DEF Active
  <2>4. CASE k \notin DOMAIN activeTouches
    <3>1. k - Len(activeTouches) \in DOMAIN started
      BY <2>1, <2>2, <2>4
    <3> QED
      BY <1>2, <2>1, <2>2, <2>4, <3>1
  <2> QED
    BY <2>3, <2>4
<1>5. activeTouches' = Kept(known, K)
  BY <1>1
<1> HIDE DEF known
<1>6. /\ Kept(known, K) \in Seq(Contact)
      /\ \E g : Selects(g, Kept(known, K), known, K)
  BY <1>3, KeptSelects
<1>7. ASSUME NEW k \in DOMAIN activeTouches'
      PROVE  activeTouches'[k].id \in (Active \cup pressed) \ ended
  <2>1. PICK g : Selects(g, activeTouches', known, K)
    BY <1>5, <1>6
  <2>2. g[k] \in K /\ activeTouches'[k] = known[g[k]]
    BY <2>1 DEF Selects
  <2> QED
    BY <1>4, <2>2
<1> QED
  BY <1>5, <1>6, <1>7 DEF Active

-----------------------------------------------------------------------------
(* The steps.  Each keeps every part of the invariant.                     *)

LEMMA TimePassesKeeps ==
    ASSUME Inv, TimePasses
    PROVE  Inv'
<1>1. activeTouches' \in Seq(Contact) /\ Active' = Active
  <2>1. PICK k \in DOMAIN activeTouches :
            activeTouches' = [activeTouches EXCEPT ![k].recent = FALSE]
    BY DEF TimePasses
  <2>2. activeTouches \in Seq(Contact)
    BY DEF TypeOK, Contact
  <2>3. DOMAIN activeTouches = 1..Len(activeTouches) /\ Len(activeTouches) \in Nat
    BY <2>2, SequenceDomain
  <2>4. activeTouches[k] \in Contact
    BY <2>2, SequenceDomain
  <2> DEFINE e == [activeTouches[k] EXCEPT !.recent = FALSE]
  <2>5. e \in Contact /\ e.id = activeTouches[k].id
    BY <2>4 DEF Contact
  <2>6. activeTouches' = [activeTouches EXCEPT ![k] = e]
    BY <2>1
  <2> HIDE DEF e
  <2>7. activeTouches' \in Seq(Contact)
    BY <2>2, <2>5, <2>6, ExceptSeq
  <2>8. /\ DOMAIN activeTouches' = DOMAIN activeTouches
        /\ \A j \in DOMAIN activeTouches : activeTouches'[j].id = activeTouches[j].id
    BY <2>5, <2>6
  <2> QED
    BY <2>7, <2>8 DEF Active
<1> USE DEF TimePasses, areaVars, registryVars, windowVars
<1>2. TypeOK'
  BY <1>1 DEF TypeOK, Contact, Waiting
<1>3. ContactsKnown'
  BY <1>1 DEF ContactsKnown
<1>4. DisabledLetsGo'
  BY <1>1 DEF DisabledLetsGo
<1>5. ReleaseReaches'
  BY <1>1 DEF ReleaseReaches
<1>6. EndIsOnItsWay'
  BY <1>1 DEF EndIsOnItsWay
<1>7. UndecidedIsCandidate'
  BY <1>1 DEF UndecidedIsCandidate
<1>8. DraggingIsEntitled'
  BY <1>1 DEF DraggingIsEntitled
<1>9. DragEndsWithTouch'
  BY <1>1 DEF DragEndsWithTouch
<1>10. EndIsHeard'
  BY <1>1 DEF EndIsHeard
<1> QED
  BY <1>2, <1>3, <1>4, <1>5, <1>6, <1>7, <1>8, <1>9, <1>10

\* A touch event enters the registry's filter.
LEMMA NewTouchEventKeeps ==
    ASSUME Inv, NEW pressed \in SUBSET TouchIds, NEW ended \in SUBSET TouchIds, NewTouchEvent(pressed, ended)
    PROVE  Inv'
<1>1. activeTouches' = activeTouches /\ Active' = Active
  BY DEF Active, NewTouchEvent, areaVars, Fresh
<1> USE DEF NewTouchEvent, Fresh, areaVars
<1>2. TypeOK'
  BY <1>1 DEF TypeOK, Contact, Waiting
<1>3. ContactsKnown'
  BY <1>1 DEF ContactsKnown
<1>4. DisabledLetsGo'
  BY <1>1 DEF DisabledLetsGo
<1>5. ReleaseReaches'
  BY <1>1 DEF ContactsKnown, ReleaseReaches
<1>6. EndIsOnItsWay'
  BY <1>1 DEF EndIsOnItsWay, UndecidedIsCandidate, EndIsHeard
<1>7. UndecidedIsCandidate'
  BY <1>1 DEF UndecidedIsCandidate
<1>8. DraggingIsEntitled'
  BY <1>1 DEF DraggingIsEntitled
<1>9. DragEndsWithTouch'
  BY <1>1 DEF DragEndsWithTouch
<1>10. EndIsHeard'
  BY <1>1 DEF EndIsHeard
<1> QED
  BY <1>2, <1>3, <1>4, <1>5, <1>6, <1>7, <1>8, <1>9, <1>10

\* The area hears of touches it does not own.
LEMMA HearsNothingNewKeeps ==
    ASSUME Inv, HearsNothingNew
    PROVE  Inv'
<1>1. /\ activeTouches' \in Seq(Contact)
      /\ Active' \subseteq (Active \cup {}) \ (told \cap released)
  <2>1. activeTouches \in Seq(Contact)
    BY DEF TypeOK, Contact
  <2>2. Update({}, told \cap released)
    BY DEF HearsNothingNew, HearsUnownedTouches
  <2> QED
    BY <2>1, <2>2, UpdateActive
<1> USE DEF HearsNothingNew, HearsUnownedTouches
<1>2. TypeOK'
  BY <1>1 DEF TypeOK, Contact, Waiting
<1>3. ContactsKnown'
  BY <1>1 DEF ContactsKnown
<1>4. DisabledLetsGo'
  BY <1>1 DEF DisabledLetsGo
<1>5. ReleaseReaches'
  BY <1>1 DEF ReleaseReaches
<1>6. EndIsOnItsWay'
  BY <1>1 DEF EndIsOnItsWay
<1>7. UndecidedIsCandidate'
  BY <1>1 DEF UndecidedIsCandidate
<1>8. DraggingIsEntitled'
  BY <1>1 DEF DraggingIsEntitled
<1>9. DragEndsWithTouch'
  BY <1>1 DEF DragEndsWithTouch
<1>10. EndIsHeard'
  BY <1>1 DEF EndIsHeard
<1> QED
  BY <1>2, <1>3, <1>4, <1>5, <1>6, <1>7, <1>8, <1>9, <1>10

LEMMA HearsReleaseKeeps ==
    ASSUME Inv, HearsRelease
    PROVE  Inv'
<1>1. /\ activeTouches' \in Seq(Contact)
      /\ Active' \subseteq (Active \cup {}) \ (told \cap released)
  <2>1. activeTouches \in Seq(Contact)
    BY DEF TypeOK, Contact
  <2>2. Update({}, told \cap released)
    BY DEF HearsRelease, HearsUnownedTouches, Claims
  <2> QED
    BY <2>1, <2>2, UpdateActive
<1> USE DEF HearsRelease, HearsUnownedTouches, Claims
<1>2. TypeOK'
  BY <1>1 DEF TypeOK, Contact, Waiting
<1>3. ContactsKnown'
  BY <1>1 DEF ContactsKnown, UndecidedIsCandidate
<1>4. DisabledLetsGo'
  BY <1>1 DEF DisabledLetsGo
<1>5. ReleaseReaches'
  BY <1>1 DEF ReleaseReaches
<1>6. EndIsOnItsWay'
  BY <1>1 DEF EndIsOnItsWay
<1>7. UndecidedIsCandidate'
  BY <1>1 DEF UndecidedIsCandidate
<1>8. DraggingIsEntitled'
  BY <1>1 DEF DraggingIsEntitled
<1>9. DragEndsWithTouch'
  BY <1>1 DEF DragEndsWithTouch
<1>10. EndIsHeard'
  BY <1>1 DEF EndIsOnItsWay, EndIsHeard
<1> QED
  BY <1>2, <1>3, <1>4, <1>5, <1>6, <1>7, <1>8, <1>9, <1>10

LEMMA HearsWrongMoveKeeps ==
    ASSUME Inv, HearsWrongMove
    PROVE  Inv'
<1>1. /\ activeTouches' \in Seq(Contact)
      /\ Active' \subseteq (Active \cup {}) \ (told \cap released)
  <2>1. activeTouches \in Seq(Contact)
    BY DEF TypeOK, Contact
  <2>2. Update({}, told \cap released)
    BY DEF HearsWrongMove, HearsUnownedTouches, GiveUp, Claims
  <2> QED
    BY <2>1, <2>2, UpdateActive
<1> USE DEF HearsWrongMove, HearsUnownedTouches, GiveUp, Claims
<1>2. TypeOK'
  BY <1>1 DEF TypeOK, ContactsKnown, Contact, Waiting
<1>3. ContactsKnown'
  BY <1>1 DEF ContactsKnown, UndecidedIsCandidate
<1>4. DisabledLetsGo'
  BY <1>1 DEF DisabledLetsGo
<1>5. ReleaseReaches'
  BY <1>1 DEF ReleaseReaches
<1>6. EndIsOnItsWay'
  BY <1>1 DEF EndIsOnItsWay
<1>7. UndecidedIsCandidate'
  BY <1>1 DEF UndecidedIsCandidate
<1>8. DraggingIsEntitled'
  BY <1>1 DEF DraggingIsEntitled
<1>9. DragEndsWithTouch'
  BY <1>1 DEF DragEndsWithTouch
<1>10. EndIsHeard'
  BY <1>1 DEF EndIsHeard
<1> QED
  BY <1>2, <1>3, <1>4, <1>5, <1>6, <1>7, <1>8, <1>9, <1>10

LEMMA HearsMoveKeeps ==
    ASSUME Inv, HearsMove
    PROVE  Inv'
<1>1. /\ activeTouches' \in Seq(Contact)
      /\ Active' \subseteq (Active \cup {}) \ (told \cap released)
  <2>1. activeTouches \in Seq(Contact)
    BY DEF TypeOK, Contact
  <2>2. Update({}, told \cap released)
    BY DEF HearsMove, HearsUnownedTouches
  <2> QED
    BY <2>1, <2>2, UpdateActive
<1> USE DEF HearsMove, HearsUnownedTouches
<1>2. TypeOK'
  BY <1>1 DEF TypeOK, Contact, Waiting
<1>3. ContactsKnown'
  BY <1>1 DEF ContactsKnown
<1>4. DisabledLetsGo'
  BY <1>1 DEF DisabledLetsGo
<1>5. ReleaseReaches'
  BY <1>1 DEF ReleaseReaches
<1>6. EndIsOnItsWay'
  BY <1>1 DEF ContactsKnown, EndIsOnItsWay
<1>7. UndecidedIsCandidate'
  BY <1>1 DEF UndecidedIsCandidate
<1>8. DraggingIsEntitled'
  BY <1>1 DEF DraggingIsEntitled
<1>9. DragEndsWithTouch'
  BY <1>1 DEF DragEndsWithTouch
<1>10. EndIsHeard'
  BY <1>1 DEF EndIsHeard
<1> QED
  BY <1>2, <1>3, <1>4, <1>5, <1>6, <1>7, <1>8, <1>9, <1>10

LEMMA HearsDragKeeps ==
    ASSUME Inv, HearsDrag
    PROVE  Inv'
<1>1. /\ activeTouches' \in Seq(Contact)
      /\ Active' \subseteq (Active \cup {}) \ (told \cap released)
  <2>1. activeTouches \in Seq(Contact)
    BY DEF TypeOK, Contact
  <2>2. Update({}, told \cap released)
    BY DEF HearsDrag, HearsUnownedTouches, Request, Claims
  <2> QED
    BY <2>1, <2>2, UpdateActive
<1> USE DEF HearsDrag, HearsUnownedTouches, Request, Claims
<1>2. TypeOK'
  BY <1>1 DEF TypeOK, Contact, Waiting
<1>3. ContactsKnown'
  BY <1>1 DEF TypeOK, ContactsKnown, UndecidedIsCandidate, Contact, Waiting
<1>4. DisabledLetsGo'
  BY <1>1 DEF DisabledLetsGo
<1>5. ReleaseReaches'
  BY <1>1 DEF TypeOK, ContactsKnown, ReleaseReaches, Contact, Waiting
<1>6. EndIsOnItsWay'
  BY <1>1 DEF EndIsOnItsWay
<1>7. UndecidedIsCandidate'
  BY <1>1 DEF UndecidedIsCandidate
<1>8. DraggingIsEntitled'
  BY <1>1 DEF TypeOK, DraggingIsEntitled, Contact, Waiting
<1>9. DragEndsWithTouch'
  BY <1>1 DEF DragEndsWithTouch
<1>10. EndIsHeard'
  BY <1>1 DEF TypeOK, EndIsHeard, Contact, Waiting
<1> QED
  BY <1>2, <1>3, <1>4, <1>5, <1>6, <1>7, <1>8, <1>9, <1>10

\* The registry frees what has ended.
LEMMA FilterDoneKeeps ==
    ASSUME Inv, FilterDone
    PROVE  Inv'
<1>1. PICK freed \in SUBSET (infos \ down) :
          /\ \A id \in infos \ down : claim[id] = "Owner" => id \in freed
          /\ \A id \in freed : claim[id] \notin Waiting
          /\ Forgets(freed)
  BY DEF FilterDone
<1>2. /\ claim' = [id \in TouchIds |-> IF id \in freed THEN "None" ELSE claim[id]]
      /\ timed' = timed \ freed /\ watched' = watched \ freed /\ infos' = infos \ freed
  BY <1>1 DEF Forgets
<1>3. /\ step = "heard" /\ step' = "window"
      /\ dropped' = dropped \cup {id \in released \ grabbed : claim[id] = "Requested"}
      /\ UNCHANGED <<status, touchId, activeTouches, able, immediate, down, grabbed,
                     landed, released, told>>
      /\ Active' = Active
  BY DEF FilterDone, areaVars, Active
<1>4. TypeOK'
  BY <1>1, <1>2, <1>3 DEF TypeOK, Contact, Waiting
<1>5. ContactsKnown'
  BY <1>1, <1>2, <1>3 DEF TypeOK, Contact, Waiting, ContactsKnown
<1>6. DisabledLetsGo'
  BY <1>1, <1>2, <1>3 DEF TypeOK, Contact, Waiting, DisabledLetsGo
<1>7. ReleaseReaches'
  BY <1>1, <1>2, <1>3 DEF TypeOK, Contact, Waiting, ContactsKnown, ReleaseReaches
<1>8. EndIsOnItsWay'
  BY <1>1, <1>2, <1>3 DEF TypeOK, Contact, Waiting, EndIsOnItsWay
<1>9. UndecidedIsCandidate'
  BY <1>1, <1>2, <1>3 DEF TypeOK, Contact, Waiting, UndecidedIsCandidate, EndIsOnItsWay
<1>10. DraggingIsEntitled'
  BY <1>1, <1>2, <1>3 DEF TypeOK, Contact, Waiting, DraggingIsEntitled, ReleaseReaches
<1>11. DragEndsWithTouch'
  BY <1>1, <1>2, <1>3 DEF TypeOK, Contact, Waiting, DragEndsWithTouch, ReleaseReaches
<1>12. EndIsHeard'
  BY <1>1, <1>2, <1>3 DEF TypeOK, Contact, Waiting, ContactsKnown, EndIsHeard, EndIsOnItsWay
<1> QED
  BY <1>4, <1>5, <1>6, <1>7, <1>8, <1>9, <1>10, <1>11, <1>12

\* Another item's call frees a touch between events.
LEMMA FreedLaterKeeps ==
    ASSUME Inv, NEW gone \in TouchIds, FreedLater(gone)
    PROVE  Inv'
<1>1. gone \in infos \ down /\ claim[gone] \notin Waiting
  BY DEF FreedLater
<1>2. /\ claim' = [id \in TouchIds |-> IF id \in {gone} THEN "None" ELSE claim[id]]
      /\ timed' = timed \ {gone} /\ watched' = watched \ {gone} /\ infos' = infos \ {gone}
  BY DEF FreedLater, Forgets
<1>3. /\ step = "idle"
      /\ UNCHANGED <<status, touchId, activeTouches, able, immediate, down, grabbed,
                     dropped, landed, released, step, told>>
      /\ Active' = Active
  BY DEF FreedLater, areaVars, windowVars, Active
<1>4. TypeOK'
  BY <1>1, <1>2, <1>3 DEF TypeOK, Contact, Waiting
<1>5. ContactsKnown'
  BY <1>1, <1>2, <1>3 DEF TypeOK, Contact, Waiting, ContactsKnown
<1>6. DisabledLetsGo'
  BY <1>1, <1>2, <1>3 DEF TypeOK, Contact, Waiting, DisabledLetsGo
<1>7. ReleaseReaches'
  BY <1>1, <1>2, <1>3 DEF TypeOK, Contact, Waiting, ContactsKnown, ReleaseReaches
<1>8. EndIsOnItsWay'
  BY <1>1, <1>2, <1>3 DEF TypeOK, Contact, Waiting, EndIsOnItsWay
<1>9. UndecidedIsCandidate'
  BY <1>1, <1>2, <1>3 DEF TypeOK, Contact, Waiting, UndecidedIsCandidate, EndIsOnItsWay
<1>10. DraggingIsEntitled'
  BY <1>1, <1>2, <1>3 DEF DragEndsWithTouch, TypeOK, Contact, Waiting, DraggingIsEntitled, ReleaseReaches
<1>11. DragEndsWithTouch'
  BY <1>1, <1>2, <1>3 DEF TypeOK, Contact, Waiting, DragEndsWithTouch, ReleaseReaches
<1>12. EndIsHeard'
  BY <1>1, <1>2, <1>3 DEF TypeOK, Contact, Waiting, ContactsKnown, EndIsHeard, EndIsOnItsWay
<1> QED
  BY <1>4, <1>5, <1>6, <1>7, <1>8, <1>9, <1>10, <1>11, <1>12

\* QQuickWindow delivers the event.
LEMMA DeliversNothingKeeps ==
    ASSUME Inv, DeliversNothing
    PROVE  Inv'
<1>1. activeTouches' = activeTouches /\ Active' = Active
  BY DEF Active, DeliversNothing, areaVars, Points
<1> USE DEF DeliversNothing, Points, areaVars, registryVars
<1>2. TypeOK'
  BY <1>1 DEF TypeOK, Contact, Waiting
<1>3. ContactsKnown'
  BY <1>1 DEF ContactsKnown
<1>4. DisabledLetsGo'
  BY <1>1 DEF DisabledLetsGo
<1>5. ReleaseReaches'
  BY <1>1 DEF DisabledLetsGo, ReleaseReaches
<1>6. EndIsOnItsWay'
  BY <1>1 DEF EndIsOnItsWay
<1>7. UndecidedIsCandidate'
  BY <1>1 DEF UndecidedIsCandidate
<1>8. DraggingIsEntitled'
  BY <1>1 DEF DisabledLetsGo, ReleaseReaches, DraggingIsEntitled
<1>9. DragEndsWithTouch'
  BY <1>1 DEF DisabledLetsGo, ReleaseReaches, DragEndsWithTouch
<1>10. EndIsHeard'
  BY <1>1 DEF TypeOK, ContactsKnown, DisabledLetsGo, EndIsOnItsWay, EndIsHeard,
          Contact, Waiting
<1> QED
  BY <1>2, <1>3, <1>4, <1>5, <1>6, <1>7, <1>8, <1>9, <1>10

LEMMA TouchEventAbsentKeeps ==
    ASSUME Inv, TouchEventAbsent
    PROVE  Inv'
<1>1. /\ activeTouches' \in Seq(Contact)
      /\ Active' \subseteq (Active \cup {}) \ (Points({}) \cap released)
  <2>1. activeTouches \in Seq(Contact)
    BY DEF TypeOK, Contact
  <2>2. Update({}, Points({}) \cap released)
    BY DEF TouchEventAbsent, Delivers, Points
  <2> QED
    BY <2>1, <2>2, UpdateActive
<1> USE DEF TouchEventAbsent, Delivers, Points
<1>2. TypeOK'
  BY <1>1 DEF TypeOK, Contact, Waiting
<1>3. ContactsKnown'
  BY <1>1 DEF ContactsKnown
<1>4. DisabledLetsGo'
  BY <1>1 DEF DisabledLetsGo
<1>5. ReleaseReaches'
  BY <1>1 DEF ReleaseReaches
<1>6. EndIsOnItsWay'
  BY <1>1 DEF EndIsOnItsWay
<1>7. UndecidedIsCandidate'
  BY <1>1 DEF UndecidedIsCandidate
<1>8. DraggingIsEntitled'
  BY <1>1 DEF DraggingIsEntitled
<1>9. DragEndsWithTouch'
  BY <1>1 DEF DragEndsWithTouch
<1>10. EndIsHeard'
  BY <1>1 DEF EndIsOnItsWay, EndIsHeard
<1> QED
  BY <1>2, <1>3, <1>4, <1>5, <1>6, <1>7, <1>8, <1>9, <1>10

LEMMA TouchEventComposedKeeps ==
    ASSUME Inv, NEW hit \in SUBSET TouchIds, TouchEventComposed(hit)
    PROVE  Inv'
<1>1. /\ activeTouches' \in Seq(Contact)
      /\ Active' \subseteq (Active \cup hit) \ (Points(hit) \cap released)
  <2>1. activeTouches \in Seq(Contact)
    BY DEF TypeOK, Contact
  <2>2. Update(hit, Points(hit) \cap released)
    BY DEF TouchEventComposed, Delivers, Points
  <2> QED
    BY <2>1, <2>2, UpdateActive DEF Points
<1> USE DEF TouchEventComposed, Delivers, Points
<1>2. TypeOK'
  BY <1>1 DEF TypeOK, ContactsKnown, Contact, Waiting
<1>3. ContactsKnown'
  BY <1>1 DEF ContactsKnown
<1>4. DisabledLetsGo'
  BY <1>1 DEF DisabledLetsGo
<1>5. ReleaseReaches'
  BY <1>1 DEF ReleaseReaches
<1>6. EndIsOnItsWay'
  BY <1>1 DEF EndIsOnItsWay
<1>7. UndecidedIsCandidate'
  BY <1>1 DEF UndecidedIsCandidate
<1>8. DraggingIsEntitled'
  BY <1>1 DEF DraggingIsEntitled
<1>9. DragEndsWithTouch'
  BY <1>1 DEF DragEndsWithTouch
<1>10. EndIsHeard'
  BY <1>1 DEF ContactsKnown, EndIsOnItsWay, EndIsHeard
<1> QED
  BY <1>2, <1>3, <1>4, <1>5, <1>6, <1>7, <1>8, <1>9, <1>10

LEMMA TouchEventUndecidedKeeps ==
    ASSUME Inv, NEW hit \in SUBSET TouchIds, TouchEventUndecided(hit)
    PROVE  Inv'
<1>1. /\ activeTouches' \in Seq(Contact)
      /\ Active' \subseteq (Active \cup hit) \ (Points(hit) \cap released)
  <2>1. activeTouches \in Seq(Contact)
    BY DEF TypeOK, Contact
  <2>2. Update(hit, Points(hit) \cap released)
    BY DEF TouchEventUndecided, Delivers, Points, Claims
  <2> QED
    BY <2>1, <2>2, UpdateActive DEF Points
<1> USE DEF TouchEventUndecided, Claims, Delivers, Points
<1>2. TypeOK'
  BY <1>1 DEF TypeOK, ContactsKnown, UndecidedIsCandidate, Contact, Waiting
<1>3. ContactsKnown'
  BY <1>1 DEF TypeOK, ContactsKnown, UndecidedIsCandidate, Contact, Waiting
<1>4. DisabledLetsGo'
  BY <1>1 DEF DisabledLetsGo
<1>5. ReleaseReaches'
  BY <1>1 DEF ReleaseReaches
<1>6. EndIsOnItsWay'
  BY <1>1 DEF EndIsOnItsWay
<1>7. UndecidedIsCandidate'
  BY <1>1 DEF UndecidedIsCandidate
<1>8. DraggingIsEntitled'
  BY <1>1 DEF DraggingIsEntitled
<1>9. DragEndsWithTouch'
  BY <1>1 DEF DragEndsWithTouch
<1>10. EndIsHeard'
  BY <1>1 DEF TypeOK, ContactsKnown, EndIsOnItsWay, EndIsHeard, Contact, Waiting
<1> QED
  BY <1>2, <1>3, <1>4, <1>5, <1>6, <1>7, <1>8, <1>9, <1>10

LEMMA TouchEventRecognizedKeeps ==
    ASSUME Inv, NEW hit \in SUBSET TouchIds, TouchEventRecognized(hit)
    PROVE  Inv'
<1>1. /\ activeTouches' \in Seq(Contact)
      /\ Active' \subseteq (Active \cup hit) \ (Points(hit) \cap released)
  <2>1. activeTouches \in Seq(Contact)
    BY DEF TypeOK, Contact
  <2>2. Update(hit, Points(hit) \cap released)
    BY DEF TouchEventRecognized, Delivers, Points, EndsWith
  <2> QED
    BY <2>1, <2>2, UpdateActive DEF Points
<1> USE DEF TouchEventRecognized, Delivers, EndsWith, Points
<1>2. TypeOK'
  BY <1>1 DEF TypeOK, Contact, Waiting
<1>3. ContactsKnown'
  BY <1>1 DEF ContactsKnown
<1>4. DisabledLetsGo'
  BY <1>1 DEF DisabledLetsGo
<1>5. ReleaseReaches'
  BY <1>1 DEF ReleaseReaches
<1>6. EndIsOnItsWay'
  BY <1>1 DEF EndIsOnItsWay
<1>7. UndecidedIsCandidate'
  BY <1>1 DEF UndecidedIsCandidate
<1>8. DraggingIsEntitled'
  BY <1>1 DEF ReleaseReaches, DraggingIsEntitled
<1>9. DragEndsWithTouch'
  BY <1>1 DEF ContactsKnown, DragEndsWithTouch
<1>10. EndIsHeard'
  BY <1>1 DEF ContactsKnown, EndIsOnItsWay, EndIsHeard
<1> QED
  BY <1>2, <1>3, <1>4, <1>5, <1>6, <1>7, <1>8, <1>9, <1>10

LEMMA TouchEventCandidateKeeps ==
    ASSUME Inv, NEW id \in TouchIds, TouchEventCandidate(id)
    PROVE  Inv'
<1>1. /\ activeTouches' \in Seq(Contact)
      /\ Active' \subseteq (Active \cup {id}) \ (Points({id}) \cap released)
  <2>1. activeTouches \in Seq(Contact)
    BY DEF TypeOK, Contact
  <2>2. Update({id}, Points({id}) \cap released)
    BY DEF TouchEventCandidate, Delivers, Points, Claims
  <2>3. {id} \in SUBSET TouchIds
    OBVIOUS
  <2> QED
    BY <2>1, <2>2, <2>3, UpdateActive DEF Points
<1> USE DEF TouchEventCandidate, Claims, Delivers, Points
<1>2. TypeOK'
  BY <1>1 DEF TypeOK, Contact, Waiting
<1>3. ContactsKnown'
  BY <1>1 DEF ContactsKnown
<1>4. DisabledLetsGo'
  BY <1>1 DEF DisabledLetsGo
<1>5. ReleaseReaches'
  BY <1>1 DEF ReleaseReaches
<1>6. EndIsOnItsWay'
  BY <1>1 DEF ContactsKnown, EndIsOnItsWay
<1>7. UndecidedIsCandidate'
  BY <1>1 DEF TypeOK, ContactsKnown, UndecidedIsCandidate, Contact, Waiting
<1>8. DraggingIsEntitled'
  BY <1>1 DEF DraggingIsEntitled
<1>9. DragEndsWithTouch'
  BY <1>1 DEF DragEndsWithTouch
<1>10. EndIsHeard'
  BY <1>1 DEF TypeOK, ContactsKnown, EndIsOnItsWay, EndIsHeard, Contact, Waiting
<1> QED
  BY <1>2, <1>3, <1>4, <1>5, <1>6, <1>7, <1>8, <1>9, <1>10

LEMMA TouchEventImmediateKeeps ==
    ASSUME Inv, NEW id \in TouchIds, TouchEventImmediate(id)
    PROVE  Inv'
<1>1. /\ activeTouches' \in Seq(Contact)
      /\ Active' \subseteq (Active \cup {id}) \ (Points({id}) \cap released)
  <2>1. activeTouches \in Seq(Contact)
    BY DEF TypeOK, Contact
  <2>2. Update({id}, Points({id}) \cap released)
    BY DEF TouchEventImmediate, Delivers, Points, Claims
  <2>3. {id} \in SUBSET TouchIds
    OBVIOUS
  <2> QED
    BY <2>1, <2>2, <2>3, UpdateActive DEF Points
<1> USE DEF TouchEventImmediate, Claims, Delivers, Points
<1>2. TypeOK'
  BY <1>1 DEF TypeOK, Contact, Waiting
<1>3. ContactsKnown'
  BY <1>1 DEF ContactsKnown
<1>4. DisabledLetsGo'
  BY <1>1 DEF DisabledLetsGo
<1>5. ReleaseReaches'
  BY <1>1 DEF TypeOK, ContactsKnown, ReleaseReaches, Contact, Waiting
<1>6. EndIsOnItsWay'
  BY <1>1 DEF EndIsOnItsWay
<1>7. UndecidedIsCandidate'
  BY <1>1 DEF UndecidedIsCandidate
<1>8. DraggingIsEntitled'
  BY <1>1 DEF TypeOK, DraggingIsEntitled, Contact, Waiting
<1>9. DragEndsWithTouch'
  BY <1>1 DEF ContactsKnown, DragEndsWithTouch
<1>10. EndIsHeard'
  BY <1>1 DEF ContactsKnown, EndIsOnItsWay, EndIsHeard
<1> QED
  BY <1>2, <1>3, <1>4, <1>5, <1>6, <1>7, <1>8, <1>9, <1>10

\* The registry answers, or takes a touch away.
LEMMA GainsKeeps ==
    ASSUME Inv, NEW id \in TouchIds, Gains(id)
    PROVE  Inv'
<1>1. activeTouches' = activeTouches /\ Active' = Active
  BY DEF Active, Gains, areaVars, MayAnswer, Claims
<1> USE DEF Gains, Claims, MayAnswer, areaVars
<1>2. TypeOK'
  BY <1>1 DEF TypeOK, Contact, Waiting
<1>3. ContactsKnown'
  BY <1>1 DEF ContactsKnown
<1>4. DisabledLetsGo'
  BY <1>1 DEF DisabledLetsGo
<1>5. ReleaseReaches'
  BY <1>1 DEF ReleaseReaches
<1>6. EndIsOnItsWay'
  BY <1>1 DEF EndIsOnItsWay
<1>7. UndecidedIsCandidate'
  BY <1>1 DEF UndecidedIsCandidate
<1>8. DraggingIsEntitled'
  BY <1>1 DEF DraggingIsEntitled
<1>9. DragEndsWithTouch'
  BY <1>1 DEF DragEndsWithTouch
<1>10. EndIsHeard'
  BY <1>1 DEF EndIsHeard
<1> QED
  BY <1>2, <1>3, <1>4, <1>5, <1>6, <1>7, <1>8, <1>9, <1>10

LEMMA LosesTouchKeeps ==
    ASSUME Inv, NEW id \in TouchIds, LosesTouch(id)
    PROVE  Inv'
<1>1. activeTouches' = activeTouches /\ Active' = Active
  BY DEF Active, LosesTouch, areaVars, MayAnswer, Claims, Loses
<1> USE DEF LosesTouch, Claims, MayAnswer, Loses, Waiting
<1>2. TypeOK'
  BY <1>1 DEF TypeOK, Contact
<1>3. ContactsKnown'
  BY <1>1 DEF TypeOK, ContactsKnown, Contact
<1>4. DisabledLetsGo'
  BY <1>1 DEF DisabledLetsGo
<1>5. ReleaseReaches'
  BY <1>1 DEF ReleaseReaches
<1>6. EndIsOnItsWay'
  BY <1>1 DEF ContactsKnown, TypeOK, EndIsOnItsWay
<1>7. UndecidedIsCandidate'
  BY <1>1 DEF UndecidedIsCandidate
<1>8. DraggingIsEntitled'
  BY <1>1 DEF DraggingIsEntitled
<1>9. DragEndsWithTouch'
  BY <1>1 DEF DragEndsWithTouch
<1>10. EndIsHeard'
  BY <1>1 DEF ContactsKnown, EndIsHeard
<1> QED
  BY <1>2, <1>3, <1>4, <1>5, <1>6, <1>7, <1>8, <1>9, <1>10

LEMMA LosesTouchAgainKeeps ==
    ASSUME Inv, NEW id \in TouchIds, LosesTouchAgain(id)
    PROVE  Inv'
<1>1. activeTouches' = activeTouches /\ Active' = Active
  BY DEF Active, LosesTouchAgain, areaVars, Loses
<1> USE DEF LosesTouchAgain, Loses
<1>2. TypeOK'
  BY <1>1 DEF TypeOK, Contact, Waiting
<1>3. ContactsKnown'
  BY <1>1 DEF ContactsKnown
<1>4. DisabledLetsGo'
  BY <1>1 DEF DisabledLetsGo
<1>5. ReleaseReaches'
  BY <1>1 DEF ReleaseReaches
<1>6. EndIsOnItsWay'
  BY <1>1 DEF EndIsOnItsWay
<1>7. UndecidedIsCandidate'
  BY <1>1 DEF UndecidedIsCandidate
<1>8. DraggingIsEntitled'
  BY <1>1 DEF DraggingIsEntitled
<1>9. DragEndsWithTouch'
  BY <1>1 DEF DragEndsWithTouch
<1>10. EndIsHeard'
  BY <1>1 DEF ContactsKnown, EndIsHeard
<1> QED
  BY <1>2, <1>3, <1>4, <1>5, <1>6, <1>7, <1>8, <1>9, <1>10

\* The recognition timer and the properties of the area.
LEMMA RejectGestureKeeps ==
    ASSUME Inv, RejectGesture
    PROVE  Inv'
<1>1. activeTouches' = activeTouches /\ Active' = Active
  BY DEF Active, RejectGesture, areaVars, GiveUp, Claims
<1> USE DEF RejectGesture, GiveUp, windowVars, Claims
<1>2. TypeOK'
  BY <1>1 DEF TypeOK, UndecidedIsCandidate, Contact, Waiting
<1>3. ContactsKnown'
  BY <1>1 DEF ContactsKnown, UndecidedIsCandidate
<1>4. DisabledLetsGo'
  BY <1>1 DEF DisabledLetsGo
<1>5. ReleaseReaches'
  BY <1>1 DEF ReleaseReaches
<1>6. EndIsOnItsWay'
  BY <1>1 DEF EndIsOnItsWay
<1>7. UndecidedIsCandidate'
  BY <1>1 DEF UndecidedIsCandidate
<1>8. DraggingIsEntitled'
  BY <1>1 DEF DraggingIsEntitled
<1>9. DragEndsWithTouch'
  BY <1>1 DEF DragEndsWithTouch
<1>10. EndIsHeard'
  BY <1>1 DEF EndIsHeard
<1> QED
  BY <1>2, <1>3, <1>4, <1>5, <1>6, <1>7, <1>8, <1>9, <1>10

LEMMA DisableKeeps ==
    ASSUME Inv, Disable
    PROVE  Inv'
<1>1. activeTouches' = activeTouches /\ Active' = Active
  BY DEF Active, Disable, areaVars, GiveUp, Claims
<1> USE DEF Disable, GiveUp, Claims
<1>2. TypeOK'
  BY <1>1 DEF TypeOK, UndecidedIsCandidate, Contact, Waiting
<1>3. ContactsKnown'
  BY <1>1 DEF TypeOK, ContactsKnown, UndecidedIsCandidate, Contact, Waiting
<1>4. DisabledLetsGo'
  BY <1>1 DEF TypeOK, DisabledLetsGo, Contact, Waiting
<1>5. ReleaseReaches'
  BY <1>1 DEF ReleaseReaches
<1>6. EndIsOnItsWay'
  BY <1>1 DEF EndIsOnItsWay
<1>7. UndecidedIsCandidate'
  BY <1>1 DEF UndecidedIsCandidate
<1>8. DraggingIsEntitled'
  BY <1>1 DEF DraggingIsEntitled
<1>9. DragEndsWithTouch'
  BY <1>1 DEF DragEndsWithTouch
<1>10. EndIsHeard'
  BY <1>1 DEF TypeOK, EndIsHeard, Contact, Waiting
<1> QED
  BY <1>2, <1>3, <1>4, <1>5, <1>6, <1>7, <1>8, <1>9, <1>10

LEMMA EnableKeeps ==
    ASSUME Inv, Enable
    PROVE  Inv'
<1>1. activeTouches' = activeTouches /\ Active' = Active
  BY DEF Active, Enable, areaVars
<1> USE DEF Enable, registryVars, windowVars
<1>2. TypeOK'
  BY <1>1 DEF TypeOK, Contact, Waiting
<1>3. ContactsKnown'
  BY <1>1 DEF ContactsKnown
<1>4. DisabledLetsGo'
  BY <1>1 DEF DisabledLetsGo
<1>5. ReleaseReaches'
  BY <1>1 DEF ReleaseReaches
<1>6. EndIsOnItsWay'
  BY <1>1 DEF EndIsOnItsWay
<1>7. UndecidedIsCandidate'
  BY <1>1 DEF UndecidedIsCandidate
<1>8. DraggingIsEntitled'
  BY <1>1 DEF DraggingIsEntitled
<1>9. DragEndsWithTouch'
  BY <1>1 DEF DragEndsWithTouch
<1>10. EndIsHeard'
  BY <1>1 DEF EndIsHeard
<1> QED
  BY <1>2, <1>3, <1>4, <1>5, <1>6, <1>7, <1>8, <1>9, <1>10

LEMMA SetImmediateRecognitionKeeps ==
    ASSUME Inv, SetImmediateRecognition
    PROVE  Inv'
<1>1. activeTouches' = activeTouches /\ Active' = Active
  BY DEF Active, SetImmediateRecognition, areaVars
<1> USE DEF SetImmediateRecognition, registryVars, windowVars
<1>2. TypeOK'
  BY <1>1 DEF TypeOK, Contact, Waiting
<1>3. ContactsKnown'
  BY <1>1 DEF ContactsKnown
<1>4. DisabledLetsGo'
  BY <1>1 DEF DisabledLetsGo
<1>5. ReleaseReaches'
  BY <1>1 DEF ReleaseReaches
<1>6. EndIsOnItsWay'
  BY <1>1 DEF EndIsOnItsWay
<1>7. UndecidedIsCandidate'
  BY <1>1 DEF UndecidedIsCandidate
<1>8. DraggingIsEntitled'
  BY <1>1 DEF DraggingIsEntitled
<1>9. DragEndsWithTouch'
  BY <1>1 DEF DragEndsWithTouch
<1>10. EndIsHeard'
  BY <1>1 DEF EndIsHeard
<1> QED
  BY <1>2, <1>3, <1>4, <1>5, <1>6, <1>7, <1>8, <1>9, <1>10

\* A stuttering step changes nothing the invariant speaks of.
LEMMA StutterKeeps ==
    ASSUME Inv, UNCHANGED vars
    PROVE  Inv'
<1>1. /\ Active' = Active
      /\ UNCHANGED <<status, touchId, activeTouches, able, immediate, claim, timed, watched,
                     infos, down, grabbed, dropped, landed, released, step, told>>
  BY DEF vars, areaVars, registryVars, windowVars, Active
<1> QED
  BY <1>1 DEF TypeOK, ContactsKnown, DisabledLetsGo, ReleaseReaches, EndIsOnItsWay,
              UndecidedIsCandidate, DraggingIsEntitled, DragEndsWithTouch, EndIsHeard

LEMMA InitialInv == Init => Inv
<1> SUFFICES ASSUME Init PROVE Inv
  OBVIOUS
<1>1. activeTouches \in Seq(Contact) /\ Active = {}
  <2>1. activeTouches = <<>>
    BY DEF Init
  <2>2. DOMAIN activeTouches = {}
    BY <2>1
  <2>3. activeTouches \in Seq(Contact)
    BY <2>1, EmptySeq
  <2> QED
    BY <2>2, <2>3 DEF Active
<1> QED
  BY <1>1 DEF Init, TypeOK, Contact, Waiting, ContactsKnown, DisabledLetsGo, ReleaseReaches,
              EndIsOnItsWay, UndecidedIsCandidate, DraggingIsEntitled, DragEndsWithTouch,
              EndIsHeard

LEMMA NextKeeps == Inv /\ [Next]_vars => Inv'
<1> SUFFICES ASSUME Inv, [Next]_vars PROVE Inv'
  OBVIOUS
<1> HIDE DEF Inv
<1>0. landed \subseteq TouchIds /\ down \subseteq TouchIds
  BY DEF Inv, TypeOK
<1>1. CASE TimePasses
  BY <1>1, TimePassesKeeps
<1>2. ASSUME NEW pressed \in SUBSET (TouchIds \ infos), NEW ended \in SUBSET down,
             NewTouchEvent(pressed, ended)
      PROVE  Inv'
  BY <1>0, <1>2, NewTouchEventKeeps
<1>3. CASE HearsNothingNew
  BY <1>3, HearsNothingNewKeeps
<1>4. CASE HearsRelease
  BY <1>4, HearsReleaseKeeps
<1>5. CASE HearsWrongMove
  BY <1>5, HearsWrongMoveKeeps
<1>6. CASE HearsMove
  BY <1>6, HearsMoveKeeps
<1>7. CASE HearsDrag
  BY <1>7, HearsDragKeeps
<1>8. CASE FilterDone \/ \E id \in TouchIds : FreedLater(id)
  BY <1>8, FilterDoneKeeps, FreedLaterKeeps
<1>9. CASE DeliversNothing
  BY <1>9, DeliversNothingKeeps
<1>10. CASE TouchEventAbsent
  BY <1>10, TouchEventAbsentKeeps
<1>11. CASE RejectGesture
  BY <1>11, RejectGestureKeeps
<1>12. CASE Disable
  BY <1>12, DisableKeeps
<1>13. CASE Enable
  BY <1>13, EnableKeeps
<1>14. CASE SetImmediateRecognition
  BY <1>14, SetImmediateRecognitionKeeps
<1>15. ASSUME NEW hit \in SUBSET landed,
             TouchEventComposed(hit) \/ TouchEventUndecided(hit) \/ TouchEventRecognized(hit)
      PROVE  Inv'
  BY <1>0, <1>15, TouchEventComposedKeeps, TouchEventUndecidedKeeps, TouchEventRecognizedKeeps
<1>16. ASSUME NEW id \in landed, TouchEventCandidate(id) \/ TouchEventImmediate(id)
      PROVE  Inv'
  BY <1>0, <1>16, TouchEventCandidateKeeps, TouchEventImmediateKeeps
<1>17. ASSUME NEW id \in TouchIds, Gains(id) \/ LosesTouch(id) \/ LosesTouchAgain(id)
      PROVE  Inv'
  BY <1>17, GainsKeeps, LosesTouchKeeps, LosesTouchAgainKeeps
<1>18. CASE UNCHANGED vars
  BY <1>18, StutterKeeps
<1> QED
  BY <1>1, <1>2, <1>3, <1>4, <1>5, <1>6, <1>7, <1>8, <1>9, <1>10, <1>11, <1>12,
     <1>13, <1>14, <1>15, <1>16, <1>17, <1>18 DEF Next

-----------------------------------------------------------------------------
(* What is proved.                                                         *)

\* The drag area moves its part of the shell only with a touch that it owns or that
\* is promised to it, recognises only as a candidate the registry knows, and its drag
\* ends with the touch, whatever the fingers do, the registry answers and in whatever
\* order, and whenever it is disabled (DirectionalDragArea::touchOwnershipEvent(),
\* unownedTouchEvent(), touchEvent(), giveUpIfDisabledOrInvisible()).
THEOREM DragEntitled == Spec => []DragIsEntitled
<1>1. Inv => DragIsEntitled
  OBVIOUS
<1> HIDE DEF Inv, DragIsEntitled
<1> QED
  BY <1>1, InitialInv, NextKeeps, PTL DEF Spec

\* For every active touch that it need not lose track of the area watches, has or asks
\* for what tells it of the end, and between events no touch is active that has left
\* the screen (ActiveTouchesInfo::update(), addTouchWatcher()).
THEOREM EndHeard == Spec => []EndIsHeard
<1>1. Inv => EndIsHeard
  OBVIOUS
<1> HIDE DEF Inv
<1> QED
  BY <1>1, InitialInv, NextKeeps, PTL DEF Spec

=============================================================================
