---------------------------- MODULE DashListView ----------------------------
(***************************************************************************)
(* ListViewWithPageHeader, the list of the dash: a flickable that creates  *)
(* the items of the rows in and around its viewport, keeps the header of   *)
(* the page and the headers of the sections, and holds the viewport still  *)
(* while rows come, go and change outside of it.  The model of rows and    *)
(* the delegate model, which creates items at once or later, are external. *)
(*                                                                         *)
(* The whole object is the record view; a C++ method is an operator from   *)
(* a view to a view, so that a handler calls what the code calls in the    *)
(* order the code does.  Lengths are integers, and the averages that        *)
(* estimate what is not created are rounded down.  Where the rows are      *)
(* moved with no item to show, the code leaves the item they live in       *)
(* behind; Move and LetGo wait for an item.                                *)
(***************************************************************************)
EXTENDS Integers, Sequences, FiniteSets, SequencesExt, Selection

CONSTANTS
    Rows,            \* every row the model may ever hold
    Section,         \* the value of sectionProperty: Rows -> Sections
    InitialRows,     \* what the model holds at first
    NoSection,       \* the sticky section header is not shown
    ItemHeight,      \* height of an item and of a section header
    HeaderHeights,   \* implicit heights of the page header
    Expandable,      \* rows whose delegate may expand
    ViewHeight,
    CacheBuffer,
    Steps,           \* lengths by which the user moves the list
    InsertCounts,    \* numbers of rows inserted at once
    MaxY,            \* bound: the list is not moved beyond
    MaxMinY,         \* bound: no event after its start moved beyond
    MaxEvents        \* bound: events between two frames

ASSUME ListConstants ==
    /\ Section \in [Rows -> STRING \cup Int]
    /\ InitialRows \in Seq(Rows) /\ IsInjective(InitialRows)
    /\ HeaderHeights # {}
    /\ HeaderHeights \cup {ItemHeight, ViewHeight, MaxY, MaxMinY, MaxEvents} \subseteq Nat \ {0}
    /\ Expandable \subseteq Rows
    /\ CacheBuffer \in Nat
    /\ Steps \subseteq Int
    /\ InsertCounts \subseteq Nat \ {0}

VARIABLES
    view,        \* the object, with the rows and the item requests of its model
    tall,        \* the rows whose delegate is expanded
    held,        \* the user holds the list: Flickable does not move it
    events,      \* how many steps there were since the last frame
    astray       \* history: the request was miscounted, see InsertedAtAwaited

listVars == <<view, tall, held, events, astray>>

RowHeight(row) == IF row \in tall THEN 2 * ItemHeight ELSE ItemHeight

(***************************************************************************)
(* A ListItem: the item's own y and height, a section header above it or   *)
(* not, and whether it is culled.                                          *)
(***************************************************************************)
HeadHeight(item) == IF item.head THEN ItemHeight ELSE 0
Height(item) == item.height + HeadHeight(item)
Top(item) == item.y - HeadHeight(item)
Bottom(item) == Top(item) + Height(item)
SetTop(item, y) == [item EXCEPT !.y = y + HeadHeight(item)]

MaxOf(a, b) == IF a > b THEN a ELSE b
Bound(low, x, high) == IF x < low THEN low ELSE IF x > high THEN high ELSE x

\* Where the first k items end when they stand one below the other from y on.
Ends(items, y) ==
    LET end[k \in 0..Len(items)] == IF k = 0 THEN y ELSE end[k - 1] + Height(items[k])
    IN  end

SumHeights(v) == Ends(v.items, 0)[Len(v.items)]

SectionAt(v, i) == Section[v.rows[i + 1]]
Created(v, i) == i >= v.first /\ i < v.first + Len(v.items)
ItemAt(v, i) == v.items[i - v.first + 1]
MoveFirst(v, y) == [v EXCEPT !.items[1] = SetTop(@, y)]
ShiftFirst(v, d) == MoveFirst(v, Top(v.items[1]) + d)

\* updateClipItem(): the rows live in an item below the header shown on top.
UpdateClipItem(v) == [v EXCEPT !.clipY = v.contentY + v.shown]

\* The start of the list is estimated from the average of what is created.
AdjustMinYExtent(v) ==
    IF v.items = <<>> THEN [v EXCEPT !.minY = 0]
    ELSE LET before == IF v.first = 0 THEN 0
                       ELSE (v.first * SumHeights(v)) \div Len(v.items)
         IN  [v EXCEPT !.minY = before - Top(v.items[1]) - v.clipY + v.headerImplicit]

\* layout(): one below the other from the first one on; what is outside the
\* viewport is culled, and the section at the top sticks to it.
Layout(v) ==
    IF v.items = <<>> THEN v
    ELSE LET n    == Len(v.items)
             from == v.contentY - v.clipY + v.shown
             to   == v.contentY + ViewHeight - v.clipY
             end  == Ends(v.items, Top(v.items[1]))
             pos(i) == end[i - 1]
             culled(i) == end[i] <= from \/ pos(i) >= to
             seen == {i \in 1..n : ~culled(i)}
             top  == CHOOSE i \in seen : \A j \in seen : i <= j
             sticks == from > pos(top) \/ (from = pos(top) /\ ~v.items[top].head)
         IN  [v EXCEPT
               !.items = [i \in 1..n |-> [SetTop(v.items[i], pos(i)) EXCEPT !.culled = culled(i)]],
               !.sticky = IF seen = {} THEN @
                          ELSE IF sticks THEN SectionAt(v, v.first + top - 1)
                          ELSE NoSection]

-----------------------------------------------------------------------------
(***************************************************************************)
(* Creating and releasing items.                                           *)
(***************************************************************************)
StartsSection(v, i) == i = 0 \/ SectionAt(v, i - 1) # SectionAt(v, i)

\* getSectionItem(): the new row takes the header over from the row that is
\* still at its place in the list of items.
StealsHeader(v, i) ==
    /\ StartsSection(v, i)
    /\ i + 1 < Len(v.rows)
    /\ SectionAt(v, i) = SectionAt(v, i + 1)
    /\ Created(v, i)

GetsHeader(v, i) ==
    IF StealsHeader(v, i) THEN ItemAt(v, i).head ELSE StartsSection(v, i)

NewTop(v, i, raw) ==
    IF Created(v, i - 1) THEN Bottom(ItemAt(v, i - 1))
    ELSE IF Created(v, i) THEN Top(ItemAt(v, i)) - Height(raw)
    ELSE IF Created(v, i + 1) THEN Top(ItemAt(v, i + 1)) - Height(raw)
    ELSE IF i = 0 THEN v.headerHeight - v.clipY
    ELSE 0 - HeadHeight(raw)

CulledIfUnseen(v, item) ==
    [item EXCEPT !.culled = \/ Bottom(item) + v.clipY <= v.contentY
                            \/ Top(item) + v.clipY >= v.contentY + ViewHeight]

\* The item of row i, once its header was taken from another.
NewItem(v, i, raw) == CulledIfUnseen(v, SetTop(raw, NewTop(v, i, raw)))

\* An item that came too late to have a neighbour, and is not the first.
LostItem(v, i) ==
    /\ \A j \in {i - 1, i, i + 1} : ~Created(v, j)
    /\ i # 0
    /\ v.items # <<>>

HeaderTaken(v, i) ==
    IF StealsHeader(v, i) THEN [v EXCEPT !.items[i - v.first + 1].head = FALSE] ELSE v

AddItem(v, i, raw) ==
    LET place  == IF v.items = <<>> THEN 1 ELSE MaxOf(0, i - v.first) + 1
        before == v.first < 0 \/ i < v.first
    IN  AdjustMinYExtent([v EXCEPT !.items = InsertAt(@, place, NewItem(v, i, raw)),
                                   !.first = IF before THEN i ELSE @,
                                   !.polish = @ \/ before,
                                   !.dirty = TRUE])

CreateNow(v, i) ==
    LET w == [v EXCEPT !.async = -1, !.jobs = @ \ {v.rows[i + 1]}]
    IN  IF LostItem(v, i) THEN w
        ELSE AddItem(HeaderTaken(w, i), i,
                     [row |-> v.rows[i + 1], head |-> GetsHeader(v, i), y |-> 0,
                      height |-> RowHeight(v.rows[i + 1]), culled |-> FALSE])

CreateLater(v, i) ==
    IF v.async # -1 THEN v ELSE [v EXCEPT !.async = i, !.jobs = @ \cup {v.rows[i + 1]}]

CreateItem(v, i, later) == IF later THEN CreateLater(v, i) ELSE CreateNow(v, i)

\* A round of the loops of addVisibleItems(), down (step is 1) or up (-1): they
\* end at the last row, beyond the limit, or at an item that is not there yet.
CreateNext(l, i, step, limit, later) ==
    LET v == l.view
        w == CreateItem(v, i, later)
        wanted == /\ ~l.over
                  /\ i \in 0..Len(v.rows) - 1
                  /\ IF step = 1 THEN l.pos <= limit ELSE l.pos > limit
        made   == Len(w.items) # Len(v.items)
    IN  IF ~wanted THEN [l EXCEPT !.over = TRUE]
        ELSE [view |-> w, over |-> ~made,
              pos  |-> IF made THEN l.pos + step * Height(ItemAt(w, i)) ELSE l.pos]

CreateItems(v, i, pos, step, limit, later) ==
    LET made[n \in 0..Len(v.rows)] ==
            IF n = 0 THEN [view |-> v, pos |-> pos, over |-> FALSE]
            ELSE CreateNext(made[n - 1], i + step * (n - 1), step, limit, later)
    IN  made[Len(v.rows)].view

AppendItems(v, i, pos, to, later) == CreateItems(v, i, pos, 1, to, later)
PrependItems(v, i, pos, from, later) == CreateItems(v, i, pos, -1, from, later)

AppendVisible(v, to, later) ==
    IF v.items = <<>> THEN AppendItems(v, 0, 0, to, later)
    ELSE AppendItems(v, v.first + Len(v.items), Bottom(Last(v.items)) + v.clipY, to, later)

PrependVisible(v, from, later) ==
    IF v.items = <<>> THEN v
    ELSE PrependItems(v, v.first - 1, Top(v.items[1]) + v.clipY, from, later)

AddVisibleItems(v, from, to, later) ==
    IF v.rows = <<>> THEN v ELSE PrependVisible(AppendVisible(v, to, later), from, later)

RemoveNonVisibleItems(v, from, to) ==
    LET near(item) == Bottom(item) + v.clipY >= from /\ Top(item) + v.clipY <= to
        kept  == {i \in DOMAIN v.items : near(v.items[i])}
        first == IF kept = {} THEN -1
                 ELSE v.first + (CHOOSE i \in kept : \A j \in kept : i <= j) - 1
        w     == [v EXCEPT !.items = Kept(@, kept), !.first = first,
                           !.dirty = @ \/ kept # DOMAIN v.items]
    IN  IF v.contentY < -v.minY \/ v.contentY + ViewHeight > v.contentHeight THEN v
        ELSE IF first # v.first THEN AdjustMinYExtent(w) ELSE w

\* A mutant: the viewport is filled downwards only.
RefillDown(v) ==
    LET to == v.contentY + ViewHeight
    IN  AppendVisible(RemoveNonVisibleItems(v, v.contentY - CacheBuffer, to + CacheBuffer), to, FALSE)

Refill(v) ==
    LET from == v.contentY
        to   == v.contentY + ViewHeight
        a    == AddVisibleItems(v, from, to, FALSE)
        b    == RemoveNonVisibleItems(a, from - CacheBuffer, to + CacheBuffer)
    IN  AddVisibleItems(b, from - CacheBuffer, to + CacheBuffer, TRUE)

-----------------------------------------------------------------------------
(***************************************************************************)
(* Moving the viewport.  keep stands for m_inContentHeightKeepHeaderShown. *)
(***************************************************************************)
HeaderStep(v, diff, keep) ==
    LET up        == v.prevY > v.contentY
        bounded   == v.contentY + ViewHeight < v.contentHeight
        notItself == v.contentY + diff >= v.headerY + v.headerImplicit
        maximizes == v.anim = "maximize"
        moved     == IF maximizes /\ diff > 0 THEN v.shown - diff ELSE v.shown + diff
        shown     == IF v.contentY = -v.minY THEN 0 ELSE Bound(0, moved, v.headerImplicit)
    IN  IF v.contentY < -v.minY
        THEN [v EXCEPT !.headerY = v.contentY,
                       !.headerHeight = v.headerImplicit - v.minY - v.contentY]
        ELSE IF ~up /\ (v.contentY = -v.minY \/ (v.shown = 0 /\ v.prevY = v.headerY))
        THEN [v EXCEPT !.headerHeight = v.headerImplicit, !.shown = 0, !.headerY = -v.minY]
        ELSE IF (up /\ bounded /\ notItself /\ ~maximizes) \/ v.shown > 0 \/ keep
        THEN [v EXCEPT !.headerHeight = v.headerImplicit, !.shown = shown,
                       !.headerY = IF shown > 0 THEN v.contentY - v.headerImplicit + shown
                                   ELSE -v.minY]
        ELSE [v EXCEPT !.headerHeight = v.headerImplicit]

\* The rows make room for what the header has gained in the step to w.
MakeRoom(v, w, diff) ==
    IF v.items = <<>> THEN w
    ELSE IF v.anim = "show" THEN AdjustMinYExtent(ShiftFirst(UpdateClipItem(w), -diff))
    ELSE ShiftFirst(UpdateClipItem(w), diff + v.shown - w.shown)

AdjustHeader(v, diff, keep) == MakeRoom(v, HeaderStep(v, diff, keep), diff)

ViewportMoved(v, y, keep) ==
    LET w == AdjustHeader([v EXCEPT !.contentY = y], v.prevY - y, keep)
    IN  [Layout([w EXCEPT !.prevY = y]) EXCEPT !.polish = TRUE]

MoveTo(v, y, keep) == IF y = v.contentY THEN v ELSE ViewportMoved(v, y, keep)

\* Flickable::setContentHeight() moves the content back within its bounds
\* unless the user holds it; then updateClipItem() hears of the change.
SetContentHeight(v, height, keep) ==
    LET w    == [v EXCEPT !.contentHeight = height]
        low  == -w.minY
        high == MaxOf(low, height - ViewHeight)
    IN  IF height = v.contentHeight THEN v
        ELSE UpdateClipItem(IF held THEN w ELSE MoveTo(w, Bound(low, w.contentY, high), keep))

ContentHeight(v) ==
    LET unknown == Len(v.rows) - (v.first + Len(v.items))
    IN  IF v.items = <<>> THEN v.headerHeight
        ELSE Bottom(Last(v.items)) + v.clipY + (unknown * SumHeights(v)) \div Len(v.items)

PolishContentHeight(v) ==
    LET height == ContentHeight(v)
        w == IF v.items # <<>> /\ v.first # 0
             THEN [v EXCEPT !.minY = MaxOf(@, ViewHeight - height)] ELSE v
    IN  IF ~v.dirty THEN v
        ELSE SetContentHeight(AdjustMinYExtent([w EXCEPT !.dirty = FALSE]), height,
                              v.headerY = v.contentY)

\* updatePolish(), which the scene graph calls when polish() was asked for.
UpdatePolish(v) == PolishContentHeight(Refill(Layout([v EXCEPT !.polish = FALSE])))

-----------------------------------------------------------------------------
(***************************************************************************)
(* The model of rows changes: onModelUpdated(), called after the change.   *)
(***************************************************************************)
\* Releases the items from the low-th to the high-th, the last one first; a section
\* header is passed down to a row that has none.
ReleaseItems(v, low, high) ==
    LET passes == high < Len(v.items) /\ \E k \in low..high : v.items[k].head
        w == IF passes THEN [v EXCEPT !.items[high + 1].head = TRUE] ELSE v
    IN  [w EXCEPT !.items = SubSeq(@, 1, low - 1) \o SubSeq(@, high + 1, Len(@))]

\* A mutant: an outstanding request keeps its number.
AsyncKeepsItsIndex(v, index, count) ==
    [v EXCEPT !.async = IF @ >= index /\ @ < index + count THEN -1 ELSE @]

ShiftAsyncRemoved(v, index, count) ==
    [v EXCEPT !.async = IF @ >= index /\ @ < index + count THEN -1
                        ELSE IF @ >= index + count THEN @ - count ELSE @]

\* A mutant: rows removed above the first item do not count.
RowsRemovedWithin(v, index, count) ==
    LET touches == index + count > v.first /\ index < v.first + Len(v.items)
        low  == MaxOf(0, index - v.first) + 1
        high == IF index + count > v.first + Len(v.items) THEN Len(v.items)
                ELSE index + count - v.first
        w    == ReleaseItems(v, low, high)
    IN  ShiftAsyncRemoved(
          IF touches THEN AdjustMinYExtent([w EXCEPT !.first = IF w.items = <<>> THEN -1 ELSE @])
          ELSE v, index, count)

RowsRemoved(v, index, count) ==
    LET touches == index + count > v.first /\ index < v.first + Len(v.items)
        low  == MaxOf(0, index - v.first) + 1
        high == IF index + count > v.first + Len(v.items) THEN Len(v.items)
                ELSE index + count - v.first
        growDown == \A k \in low..high : v.items[k].culled
        oldTop == Top(v.items[1])
        w == ReleaseItems(v, low, high)
        u == IF growDown THEN AdjustMinYExtent(w)
             ELSE IF index <= v.first /\ w.items # <<>> THEN MoveFirst(w, oldTop)
             ELSE w
        x == IF touches
             THEN [u EXCEPT !.first = IF w.items = <<>> THEN -1
                                      ELSE @ - MaxOf(0, v.first - index)]
             ELSE IF index + count <= v.first THEN [v EXCEPT !.first = @ - count]
             ELSE v
    IN  ShiftAsyncRemoved(x, index, count)

\* One row of an insertion: its item, the header of the row below, and the
\* shift of the first item that keeps the viewport.  (Of three rows or more the last
\* may get no item, LostItem, and the code does not look.)
RoomAbove(v, i, growUp) ==
    IF growUp /\ Created(v, i) THEN ShiftFirst(v, -Height(ItemAt(v, i))) ELSE v

HeaderBelow(v, i, growUp) ==
    LET heads == /\ Created(v, i + 1)
                 /\ ~ItemAt(v, i + 1).head
                 /\ StartsSection(v, i + 1)
        w == [v EXCEPT !.items[i + 1 - v.first + 1].head = TRUE]
    IN  IF ~heads THEN v ELSE IF growUp THEN ShiftFirst(w, -ItemHeight) ELSE w

InsertRow(v, i, growUp) ==
    HeaderBelow(RoomAbove(CreateItem(v, i, FALSE), i, growUp), i, growUp)

\* The rows of an insertion, the last one first.
InsertRows(v, index, count, growUp) ==
    LET after[n \in 0..count] ==
            IF n = 0 THEN v ELSE InsertRow(after[n - 1], index + count - n, growUp)
    IN  after[count]

\* The loop goes down from the last inserted row and counts those that are not behind
\* the awaited one: of several rows inserted at that one it counts too few.
ShiftAsyncInserted(v, index, count) ==
    [v EXCEPT !.async = @ + Bound(0, @ - index + 1, count)]

\* A mutant: what is inserted grows downwards, wherever it is.
RowsInsertedDown(v, index, count) ==
    LET within == index > v.first /\ index < v.first + Len(v.items)
        x == IF within THEN AdjustMinYExtent(InsertRows(v, index, count, FALSE))
             ELSE IF index <= v.first THEN [v EXCEPT !.first = @ + count]
             ELSE v
    IN  ShiftAsyncInserted(x, index, count)

RowsInserted(v, index, count) ==
    LET within == index > v.first /\ index < v.first + Len(v.items)
        onTop  == /\ index = 0 /\ v.first = 0
                  /\ Top(v.items[1]) + v.clipY > v.contentY
        seen   == {k \in DOMAIN v.items : ~v.items[k].culled}
        growUp == /\ ~onTop
                  /\ seen # {}
                  /\ index <= v.first + (CHOOSE k \in seen : \A j \in seen : k <= j) - 1
        oldTop == Top(v.items[1])
        w == InsertRows(v, index, count, growUp)
        u == AdjustMinYExtent(IF onTop THEN MoveFirst(w, oldTop) ELSE w)
        x == IF within \/ onTop THEN u
             ELSE IF index <= v.first THEN [v EXCEPT !.first = @ + count]
             ELSE v
    IN  ShiftAsyncInserted(x, index, count)

ModelUpdated(v, w) ==
    LET u == IF w.first # v.first THEN AdjustMinYExtent(w) ELSE w
    IN  [Layout(u) EXCEPT !.polish = TRUE, !.dirty = TRUE]

-----------------------------------------------------------------------------
(***************************************************************************)
(* The steps.                                                              *)
(***************************************************************************)
MinHeader == CHOOSE h \in HeaderHeights : \A g \in HeaderHeights : h <= g

ListInit ==
    /\ view = [rows |-> InitialRows, jobs |-> {}, items |-> <<>>, first |-> -1, async |-> -1,
               contentY |-> 0, prevY |-> 0, contentHeight |-> 0, minY |-> 0, clipY |-> 0,
               headerImplicit |-> MinHeader, headerHeight |-> MinHeader, headerY |-> 0,
               shown |-> 0, sticky |-> NoSection, anim |-> "none", animTo |-> 0,
               dirty |-> FALSE, polish |-> TRUE]
    /\ tall = {}
    /\ held = FALSE
    /\ events = 0
    /\ astray = FALSE

Polish ==
    /\ view.polish
    /\ view' = UpdatePolish(view)
    /\ UNCHANGED <<tall, held>>

\* The delegate model has made the item of a row: itemCreated().
ItemCreated(row) ==
    /\ row \in view.jobs
    /\ LET i == CHOOSE k \in 0..Len(view.rows) - 1 : view.rows[k + 1] = row
           v == [view EXCEPT !.jobs = @ \ {row}]
       IN  view' = IF i = v.async THEN Refill(CreateItem(v, i, FALSE)) ELSE v
    /\ UNCHANGED <<tall, held>>

\* The model names its rows in any order, so any unused one will do.
InsertRowsInModel(index, count) ==
    LET fresh == Rows \ ToSet(view.rows) IN
    /\ index \in 0..Len(view.rows)
    /\ \E new \in [1..count -> fresh] :
         LET rows == SubSeq(view.rows, 1, index) \o new
                       \o SubSeq(view.rows, index + 1, Len(view.rows))
         IN  /\ IsInjective(new)
             /\ view' = ModelUpdated(view, RowsInserted([view EXCEPT !.rows = rows], index, count))
    /\ UNCHANGED <<tall, held>>

RemoveRowsFromModel(index, count) ==
    LET gone == {view.rows[i + 1] : i \in index..index + count - 1}
        rows == SubSeq(view.rows, 1, index) \o SubSeq(view.rows, index + count + 1, Len(view.rows))
        v    == [view EXCEPT !.rows = rows, !.jobs = @ \ gone]
    IN  /\ count \in 1..Len(view.rows) - index
        /\ view' = ModelUpdated(view, RowsRemoved(v, index, count))
        /\ tall' = tall \ gone
        /\ UNCHANGED held

\* A delegate of a created item grows or shrinks: itemGeometryChanged().
Resize(k) ==
    LET item  == view.items[k]
        diff  == IF item.row \in tall THEN -ItemHeight ELSE ItemHeight
        v     == [view EXCEPT !.items[k].height = @ + diff]
        above == item.y + item.height + v.clipY <= v.contentY
        w     == IF above THEN Layout(AdjustMinYExtent(ShiftFirst(v, -diff))) ELSE v
        u     == AdjustMinYExtent(Refill(w))
    IN  /\ item.row \in Expandable
        /\ tall' = IF diff > 0 THEN tall \cup {item.row} ELSE tall \ {item.row}
        /\ view' = [u EXCEPT !.polish = TRUE, !.dirty = TRUE]
        /\ UNCHANGED held

\* The header's implicit height changes: itemImplicitHeightChanged().
ResizeHeader(height) ==
    LET diff == height - view.headerImplicit
        v    == AdjustHeader([view EXCEPT !.headerImplicit = height], diff, FALSE)
    IN  /\ diff # 0
        /\ view' = [Layout(v) EXCEPT !.polish = TRUE, !.dirty = TRUE]
        /\ UNCHANGED <<tall, held>>

\* The user holds the list and moves it, beyond its ends as well; let go, it
\* comes back between them (Flickable).
Move(step) ==
    LET y == view.contentY + step IN
    /\ view.anim = "none"
    /\ view.items # <<>>
    /\ y \in -MaxY..MaxY
    /\ y >= -view.minY - ItemHeight
    /\ y <= MaxOf(-view.minY, view.contentHeight - ViewHeight) + ItemHeight
    /\ view' = MoveTo(view, y, FALSE)
    /\ held' = TRUE
    /\ UNCHANGED tall

LetGo ==
    LET low == -view.minY
        high == MaxOf(low, view.contentHeight - ViewHeight)
    IN  /\ held
        /\ view.items # <<>>
        /\ held' = FALSE
        /\ view' = MoveTo(view, Bound(low, view.contentY, high), FALSE)
        /\ UNCHANGED tall

Animate(v, kind, to) == [v EXCEPT !.anim = kind, !.animTo = to]

ShowHeader ==
    LET to     == MaxOf(-view.minY, view.contentY - view.headerHeight + view.shown)
        itself == view.contentY < view.headerY + view.headerHeight
        v == [view EXCEPT !.shown = view.headerY + view.headerHeight - view.contentY]
        u == UpdateClipItem(v)
        w == IF ~itself \/ view.shown # 0 THEN view
             ELSE IF v.items = <<>> THEN v
             ELSE Layout(ShiftFirst(u, -u.shown))
    IN  /\ ~held
        /\ to # view.contentY
        /\ view' = Animate(w, "show", to)
        /\ UNCHANGED <<tall, held>>

Maximized(v, k, height) ==
    LET item == v.items[k]
        full == height + HeadHeight(item)
        y    == v.clipY + Top(item)
        head == v.sticky # NoSection \/ \E j \in DOMAIN v.items : v.items[j].head
        up   == y > v.contentY /\ y + full > v.contentY + ViewHeight
        down == /\ y + full < v.contentY + ViewHeight
                /\ y < v.contentY \/ (~item.head /\ y - ItemHeight < v.contentY)
        real == IF v.sticky # NoSection /\ ~item.head THEN y - ItemHeight ELSE y
        least == y + full - ViewHeight
    IN  IF up THEN Animate(v, "maximize", IF y < least THEN y ELSE least)
        ELSE IF down THEN Animate(v, "maximize", MaxOf(real, least))
        ELSE v

MaximizeVisibleArea(k, height) ==
    /\ ~held
    /\ view.items[k].row \in Expandable
    /\ view' = Maximized(Layout(view), k, height)
    /\ UNCHANGED <<tall, held>>

\* The animation of contentY goes on, or ends: contentYAnimationRunningChanged().
AnimationStep ==
    LET y == Bound(view.contentY - ItemHeight, view.animTo, view.contentY + ItemHeight)
        v == MoveTo(view, y, FALSE)
    IN  /\ view.anim # "none"
        /\ view' = IF y # view.animTo THEN v
                   ELSE [v EXCEPT !.anim = "none", !.animTo = 0, !.dirty = TRUE, !.polish = TRUE]
        /\ UNCHANGED <<tall, held>>

\* positionAtBeginning(): the items are made anew from the first row on.
RowsFromFirst(v) ==
    AppendItems(v, 1, Bottom(v.items[1]), ViewHeight + CacheBuffer, FALSE)
ForgetPosition(v) == [v EXCEPT !.prevY = Top(v.items[1]) - v.headerHeight]
MoveToFirst(v) == MoveTo(v, Top(v.items[1]) + v.clipY - v.headerHeight, FALSE)
HeaderOnTop(v) == [v EXCEPT !.headerY = -v.minY]

PositionAtBeginning ==
    LET empty == [view EXCEPT !.items = <<>>, !.first = -1, !.clipY = 0]
    IN  /\ view.rows # <<>>
        /\ ~held /\ view.anim = "none"
        /\ view' = HeaderOnTop(MoveToFirst(
              IF view.first = 0 THEN view
              ELSE ForgetPosition(RowsFromFirst(CreateItem(empty, 0, FALSE)))))
        /\ UNCHANGED <<tall, held>>

\* Another delegate: every item goes, and so do the requests.
SetDelegate ==
    LET empty == AdjustMinYExtent([view EXCEPT !.items = <<>>, !.first = -1, !.jobs = {}])
        v == MoveTo(empty, 0, FALSE)
    IN  /\ view.items # <<>>
        /\ view.anim = "none"
        /\ view' = [v EXCEPT !.clipY = 0, !.sticky = NoSection, !.dirty = TRUE, !.polish = TRUE]
        /\ UNCHANGED <<tall, held>>

ListEvent ==
    \/ \E row \in Rows : ItemCreated(row)
    \/ \E index \in 0..Len(view.rows), count \in InsertCounts : InsertRowsInModel(index, count)
    \/ \E index \in 0..Len(view.rows), count \in 1..Len(view.rows) : RemoveRowsFromModel(index, count)
    \/ \E k \in DOMAIN view.items : Resize(k)
    \/ \E height \in HeaderHeights : ResizeHeader(height)
    \/ \E step \in Steps : Move(step)
    \/ LetGo
    \/ ShowHeader
    \/ \E k \in DOMAIN view.items, more \in {0, ItemHeight} :
          MaximizeVisibleArea(k, view.items[k].height + more)
    \/ AnimationStep
    \/ PositionAtBeginning
    \/ SetDelegate

\* The item the view waits for is not one that the delegate model is making.
RequestBroken(v) ==
    v.async # -1 /\ ~(v.async < Len(v.rows) /\ v.rows[v.async + 1] \in v.jobs)

\* Several rows come at once, in front of the awaited one but too close to it for all
\* of them to be counted (ShiftAsyncInserted).
InsertedAtAwaited ==
    LET count == Len(view'.rows) - Len(view.rows)
        same(k) == view'.rows[k] = view.rows[k]
    IN  /\ count > 1
        /\ view.async \in 0..Len(view.rows) - 1
        /\ ~same(view.async + 1)
        /\ \A k \in 1..view.async + 2 - count : same(k)

ListNext ==
    /\ \/ Polish /\ events' = 0
       \/ /\ events < MaxEvents
          /\ view.minY \in -MaxMinY..MaxMinY /\ view.contentY \in -MaxY..MaxY
          /\ ListEvent
          /\ events' = IF view'.polish THEN events + 1 ELSE 0
    /\ astray' = (RequestBroken(view') /\ (astray \/ InsertedAtAwaited))

ListSpec == ListInit /\ [][ListNext]_listVars

-----------------------------------------------------------------------------
(***************************************************************************)
(* Properties.                                                             *)
(***************************************************************************)
\* The items are those of consecutive rows, from m_firstVisibleIndex on.
InOrder(v) ==
    \A k \in DOMAIN v.items : /\ v.first + k <= Len(v.rows)
                              /\ v.items[k].row = v.rows[v.first + k]

\* "The first item in m_visibleItems has the m_firstVisibleIndex in the model",
\* and the others follow it (listviewwithpageheader.cpp:44).  The code breaks
\* this, as the run dash_list_order shows.
RowsInOrder == view.items # <<>> => InOrder(view)

\* The item of the first row comes when the row below it has none: createItem()
\* takes it for an item of an empty list.
LateFirst == view.async = 0 /\ view.first > 1

\* Several rows that come at once between created ones: the last of them is put behind
\* rows that it stands in front of (listviewwithpageheader.cpp:1018).
SeveralWithin == Len(view'.rows) > Len(view.rows) + 1 /\ Len(view'.items) > Len(view.items)

\* But for these two cases, whatever the user, the animations, the late items and the
\* model do, the items stay those of consecutive rows: m_firstVisibleIndex is
\* corrected for every row that comes or goes above.
OrderIsKept ==
    [][InOrder(view) /\ ~LateFirst /\ ~SeveralWithin => InOrder(view')]_listVars

\* Between frames, the one item the view waits for is the item of an existing row that
\* the delegate model is still making; else no item would be asked for ever again
\* (m_asyncRequestedIndex is shifted as rows come and go).  The exception: several rows
\* were inserted at once just in front of the awaited one, and the view waits for one
\* that nobody makes (listviewwithpageheader.cpp:1047).
RequestIsRunning ==
    ~view.polish /\ RequestBroken(view) => astray

\* The items stand one below the other with no gap, and no row that would be
\* seen is without an item.
Filled(v) ==
    /\ \A k \in 1..Len(v.items) - 1 : Top(v.items[k + 1]) = Bottom(v.items[k])
    /\ v.rows # <<>> /\ v.async = -1 /\ v.contentY >= -v.minY =>
        /\ v.items # <<>>
        /\ \/ v.first + Len(v.items) = Len(v.rows)
           \/ Bottom(Last(v.items)) + v.clipY > v.contentY + ViewHeight
        /\ \/ v.first = 0
           \/ Top(v.items[1]) + v.clipY <= v.contentY

\* The item the rows live in is where updateClipItem() puts it.
ClipInPlace == view.clipY = view.contentY + view.shown

\* Every frame ends with the viewport filled, and no step spoils it without
\* asking for another frame (refill() and layout() reach everything).
ViewportStaysFilled ==
    [][/\ view.polish \/ Filled(view)
       /\ ClipInPlace
       /\ InOrder(view)
       /\ ~view'.polish
       => Filled(view')]_listVars

SeenItems(v) ==
    {item \in ToSet(v.items) : /\ Bottom(item) + v.clipY > v.contentY + v.shown
                               /\ Top(item) + v.clipY < v.contentY + ViewHeight}
SeenRows(v) == {item.row : item \in SeenItems(v)}
Places(v, items) == {[row |-> item.row, y |-> item.y + v.clipY - v.contentY] : item \in items}

\* The model changed, but nothing that is seen came, left or changed its header.
ChangesUnseen ==
    /\ SeenRows(view) \subseteq ToSet(view'.rows)
    /\ SeenRows(view') \subseteq ToSet(view.rows)
    /\ \A item \in SeenItems(view), k \in DOMAIN view'.items :
          view'.items[k].row = item.row => view'.items[k].head = item.head

\* A frame was drawn, and nothing moves.
AtRest ==
    /\ ~view.polish
    /\ view.anim = "none"
    /\ view.contentY >= -view.minY
    /\ ClipInPlace
    /\ view.shown <= view.headerImplicit

StandsStill ==
    AtRest /\ ChangesUnseen /\ InOrder(view) /\ InOrder(view') =>
        Places(view, SeenItems(view)) \subseteq Places(view', ToSet(view'.items))

\* A row that is inserted out of sight moves nothing the user sees: what is
\* created above it grows upwards (growUp in onModelUpdated()).
InsertKeepsViewport == [][Len(view'.rows) > Len(view.rows) => StandsStill]_listVars

=============================================================================
