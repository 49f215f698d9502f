------------------------------ MODULE DashViews ------------------------------
(***************************************************************************)
(* AbstractDashView and the three layouts of the dash made with it:        *)
(* VerticalJournal (rows go to the column that ends first), Horizontal-    *)
(* Journal (rows of one height that wrap) and OrganicGrid (modules of six  *)
(* rows).  A view creates the items in and around the part of it that is   *)
(* shown; what scrolls far away is released and comes back later, at the   *)
(* place it had.  Rows are only appended and removed at the end of the     *)
(* model.  The delegate model, which creates items at once or later, is    *)
(* external, and so is the page that scrolls the view.                     *)
(***************************************************************************)
EXTENDS Integers, Sequences, FiniteSets, SequencesExt

CONSTANTS
    Layouts,      \* which of "vertical", "horizontal", "organic" are looked at
    MostRows,     \* bound: rows in the model of each layout
    RowSizes,     \* heights (vertical) or widths (horizontal) of a delegate
    ViewWidths,   \* columns, width or modules per row of each layout
    RowSpacing, ColumnSpacing,
    ShownTops,    \* how far the page may be scrolled
    ShownHeight,
    Buffer

VARIABLE dash    \* the view, with the rows of its model

LowerOf(a, b) == IF a < b THEN a ELSE b
Greatest(S) == CHOOSE x \in S : \A y \in S : y <= x
Least(S) == CHOOSE x \in S : \A y \in S : x <= y

NRows(v) == Len(v.sizes)
SizeOf(v, i) == v.sizes[i + 1]
Items(v) == v.lanes[1]
IsLane(v, k) == v.lanes[k] # <<>>
Place(row, x, y) == [row |-> row, x |-> x, y |-> y]

-----------------------------------------------------------------------------
(***************************************************************************)
(* OrganicGrid: a module holds four small items and two big ones, of the   *)
(* sizes 1x1 and 2x2.                                                       *)
(***************************************************************************)
Small == 1
Big == 2
ModuleHeight == Small + RowSpacing + Big
ModuleWidth == 2 * Small + 2 * ColumnSpacing + Big
OrganicSize(i) == IF i % 6 \in {2, 4} THEN Big ELSE Small

PositionForIndex(v, i) ==
    LET perRow == v.columns * 6
        m == i % 6
        down == CASE m = 2 -> Small + RowSpacing
                  [] m \in {3, 5} -> Big + RowSpacing
                  [] OTHER -> 0
        right == CASE m = 1 -> Small + ColumnSpacing
                   [] m = 3 -> Big + ColumnSpacing
                   [] m = 4 -> 2 * (Small + ColumnSpacing)
                   [] m = 5 -> Big + Small + 2 * ColumnSpacing
                   [] OTHER -> 0
    IN  Place(i, (ModuleWidth + ColumnSpacing) * ((i % perRow) \div 6) + right,
                 (ModuleHeight + RowSpacing) * (i \div perRow) + down)

ModuleTop(v, i) == PositionForIndex(v, (i \div 6) * 6).y
ModuleBottom(v, i) == PositionForIndex(v, (i \div 6) * 6 + 5).y + Small

HeightOf(v, item) == CASE v.layout = "vertical" -> SizeOf(v, item.row)
                       [] v.layout = "horizontal" -> 1
                       [] v.layout = "organic" -> OrganicSize(item.row)
End(v, item) == item.y + HeightOf(v, item)

-----------------------------------------------------------------------------
(***************************************************************************)
(* findBottomModelIndexToAdd() and findTopModelIndexToAdd(): the next row  *)
(* to create at either end, and where it would be.                          *)
(***************************************************************************)
VerticalBottom(v) ==
    LET lanes == {k \in DOMAIN v.lanes : IsLane(v, k)}
        next(y, lane) == IF lane = <<>> THEN 0
                         ELSE LowerOf(y, End(v, Last(lane)) + RowSpacing)
    IN  [index |-> Greatest({0} \cup {Last(v.lanes[k]).row + 1 : k \in lanes}),
         y |-> FoldLeft(next, 1000, v.lanes)]

\* Mutant of HomeBefore: the search begins one row too far up.
HomeFurther(v, i, k) ==
    Greatest({-1} \cup {j \in DOMAIN v.map : j < i /\ v.map[j] = k})

\* Up from the topmost item, to the last row before it that history puts into
\* its column: -1 if there is none.
HomeBefore(v, i, k) ==
    Greatest({-1} \cup {j \in DOMAIN v.map : j <= i /\ v.map[j] = k})

TopLane(v) ==
    LET lanes == {k \in DOMAIN v.lanes : IsLane(v, k)}
        top   == Greatest({Head(v.lanes[k]).y : k \in lanes})
    IN  Least({k \in lanes : Head(v.lanes[k]).y = top})

VerticalTop(v) ==
    IF \A k \in DOMAIN v.lanes : v.lanes[k] = <<>> THEN [index |-> -1, y |-> 0]
    ELSE LET k == TopLane(v)
             i == Head(v.lanes[k]).row - 1
         IN  [index |-> IF i > 0 THEN HomeBefore(v, i, k) ELSE i,
              y |-> Head(v.lanes[k]).y - RowSpacing]

HorizontalBottom(v) ==
    LET i == v.first + Len(Items(v)) IN
    IF Items(v) = <<>> THEN [index |-> 0, y |-> 0]
    ELSE [index |-> i,
          y |-> Last(Items(v)).y + IF i - 1 \in DOMAIN v.map THEN 1 + RowSpacing ELSE 0]

HorizontalTop(v) ==
    LET i == v.first - 1 IN
    IF Items(v) = <<>> THEN [index |-> -1, y |-> 0]
    ELSE [index |-> i,
          y |-> Head(Items(v)).y - IF i \in DOMAIN v.map THEN 1 + RowSpacing ELSE 0]

OrganicBottom(v) ==
    LET i == v.first + Len(Items(v)) IN
    IF Items(v) = <<>> THEN [index |-> 0, y |-> 0] ELSE [index |-> i, y |-> ModuleTop(v, i)]

\* The code gives row 0 of an empty view at 0 as well; nothing is above it.
OrganicTop(v) ==
    LET i == v.first - 1 IN
    IF Items(v) = <<>> THEN [index |-> 0, y |-> 0]
    ELSE [index |-> i, y |-> IF i < 0 THEN 0 ELSE ModuleBottom(v, i)]

NextBottom(v) == CASE v.layout = "vertical" -> VerticalBottom(v)
                   [] v.layout = "horizontal" -> HorizontalBottom(v)
                   [] v.layout = "organic" -> OrganicBottom(v)
NextTop(v) == CASE v.layout = "vertical" -> VerticalTop(v)
                [] v.layout = "horizontal" -> HorizontalTop(v)
                [] v.layout = "organic" -> OrganicTop(v)

-----------------------------------------------------------------------------
(***************************************************************************)
(* addItemToView()                                                         *)
(***************************************************************************)
Extend(map, i, x) == [j \in DOMAIN map \cup {i} |-> IF j = i THEN x ELSE map[j]]
Without(map, i) == [j \in DOMAIN map \ {i} |-> map[j]]

\* The column that ends first takes the row, unless it has later rows: then
\* the row comes back on top of the column it was in.
VerticalAdd(v, i) ==
    LET ends == [k \in DOMAIN v.lanes |-> IF IsLane(v, k) THEN End(v, Last(v.lanes[k]))
                                          ELSE -RowSpacing]
        low  == Least({ends[k] : k \in DOMAIN ends})
        k    == Least({j \in DOMAIN ends : ends[j] = low})
        home == v.map[i]
        top  == Head(v.lanes[home]).y
    IN  IF ~IsLane(v, k) \/ Last(v.lanes[k]).row < i
        THEN [v EXCEPT !.lanes[k] = Append(@, Place(i, (k - 1) * (1 + ColumnSpacing),
                                                    low + RowSpacing)),
                       !.map = Extend(@, i, k)]
        ELSE [v EXCEPT !.lanes[home] = <<Place(i, (home - 1) * (1 + ColumnSpacing),
                                               top - RowSpacing - SizeOf(v, i))>> \o @]

HorizontalAdd(v, i) ==
    LET last  == Last(Items(v))
        right == last.x + SizeOf(v, last.row) + ColumnSpacing
        fits  == right + SizeOf(v, i) <= v.width
        head  == Head(Items(v))
        back  == IF i \in DOMAIN v.map THEN Place(i, v.map[i], head.y - RowSpacing - 1)
                 ELSE Place(i, head.x - ColumnSpacing - SizeOf(v, i), head.y)
    IN  CASE Items(v) = <<>> -> [v EXCEPT !.lanes = << <<Place(i, 0, 0)>> >>, !.first = 0]
          [] Items(v) # <<>> /\ i = v.first + Len(Items(v)) ->
               IF fits THEN [v EXCEPT !.lanes[1] = Append(@, Place(i, right, last.y))]
               ELSE [v EXCEPT !.lanes[1] = Append(@, Place(i, 0, last.y + 1 + RowSpacing)),
                              !.map = Extend(@, i - 1, last.x)]
          [] Items(v) # <<>> /\ i = v.first - 1 ->
               [v EXCEPT !.lanes[1] = <<back>> \o @, !.first = i]
          [] OTHER -> v

OrganicAdd(v, i) ==
    CASE i = v.first + Len(Items(v)) ->
           [v EXCEPT !.lanes[1] = Append(@, PositionForIndex(v, i))]
      [] i = v.first - 1 ->
           [v EXCEPT !.lanes[1] = <<PositionForIndex(v, i)>> \o @, !.first = i]
      [] i \notin {v.first - 1, v.first + Len(Items(v))} /\ i = 0 ->
           [v EXCEPT !.lanes[1] = Append(@, PositionForIndex(v, i)), !.first = 0]
      [] OTHER -> v

AddItemToView(v, i) == CASE v.layout = "vertical" -> VerticalAdd(v, i)
                         [] v.layout = "horizontal" -> HorizontalAdd(v, i)
                         [] v.layout = "organic" -> OrganicAdd(v, i)

-----------------------------------------------------------------------------
(***************************************************************************)
(* removeNonVisibleItems(), cleanupExistingItems(), doRelayout().           *)
(***************************************************************************)
Firstless(v) == IF v.layout # "vertical" /\ Items(v) = <<>> THEN [v EXCEPT !.first = -1] ELSE v

\* What is removed from a lane: items before the one at which the loop from the
\* top stops, and after the one at which the loop from the bottom does.
KeptFrom(v, lane, from) ==
    LET above(item) == IF v.layout = "organic" THEN ModuleBottom(v, item.row) < from
                       ELSE End(v, item) < from
        stops == {i \in DOMAIN lane : ~above(lane[i])}
    IN  IF stops = {} THEN Len(lane) + 1 ELSE Least(stops)

KeptTo(v, lane, to) ==
    LET below(item) == IF v.layout = "organic" THEN ModuleTop(v, item.row) > to
                       ELSE item.y > to
    IN  Greatest({0} \cup {i \in DOMAIN lane : ~below(lane[i])})

RemoveFarItems(v, from, to) ==
    LET a(k) == KeptFrom(v, v.lanes[k], from)
        b(k) == KeptTo(v, v.lanes[k], to)
        forgets == IF v.layout # "horizontal" THEN {}
                   ELSE {Items(v)[i].row : i \in {j \in DOMAIN Items(v) : j > b(1) /\ j >= a(1)}}
    IN  Firstless([v EXCEPT
          !.lanes = [k \in DOMAIN @ |-> SubSeq(@[k], a(k), b(k))],
          !.map = [i \in DOMAIN @ \ forgets |-> @[i]],
          !.first = IF v.layout = "vertical" THEN @ ELSE @ + a(1) - 1])

Emptied(v) ==
    [v EXCEPT !.lanes = [k \in DOMAIN @ |-> <<>>], !.map = <<>>,
              !.first = -1, !.dirty = TRUE]

\* Without row 0 the rows cannot be laid out again, and go; those of the
\* organic grid can.
Relayout(v) ==
    LET has(i) == \E k \in DOMAIN v.lanes : \E item \in ToSet(v.lanes[k]) : item.row = i
        rows  == SelectSeq([i \in 1..NRows(v) |-> i - 1], has)
        lanes == IF v.layout = "vertical" THEN [k \in 1..v.width |-> <<>>] ELSE << <<>> >>
        empty == [v EXCEPT !.lanes = lanes, !.map = <<>>, !.columns = v.width,
                           !.first = IF v.layout = "organic" THEN @ ELSE -1]
    IN  IF rows = <<>> THEN empty
        ELSE IF v.layout # "organic" /\ rows[1] # 0 THEN empty
        ELSE FoldLeft(AddItemToView, empty, rows)

-----------------------------------------------------------------------------
(***************************************************************************)
(* AbstractDashView                                                        *)
(***************************************************************************)
AddNow(v, i) == AddItemToView([v EXCEPT !.async = -1, !.jobs = @ \ {i}], i)
Request(v, i) == [v EXCEPT !.async = i, !.jobs = @ \cup {i}]

RECURSIVE FillDown(_, _)
FillDown(v, to) ==
    LET p == NextBottom(v) IN
    IF p.index >= NRows(v) \/ p.y > to THEN v ELSE FillDown(AddNow(v, p.index), to)

RECURSIVE FillUp(_, _)
FillUp(v, from) ==
    LET p == NextTop(v) IN
    IF p.index < 0 \/ p.y <= from THEN v ELSE FillUp(AddNow(v, p.index), from)

\* An asynchronous creation gives no item, which ends the loop it is in.
AddAhead(v, from, to) ==
    LET bottom == NextBottom(v)
        top    == NextTop(v)
    IN  CASE v.async # -1 -> v
          [] v.async = -1 /\ bottom.index < NRows(v) /\ bottom.y <= to -> Request(v, bottom.index)
          [] v.async = -1 /\ ~(bottom.index < NRows(v) /\ bottom.y <= to)
               /\ top.index >= 0 /\ top.y > from -> Request(v, top.index)
          [] OTHER -> v

\* polish() and the height are asked for again when items came or went.
Touched(v, w) ==
    LET changed == w.lanes # v.lanes
    IN  [w EXCEPT !.polish = @ \/ changed, !.dirty = @ \/ changed]

FillDownwards(v) ==
    IF NRows(v) = 0 THEN v ELSE Touched(v, FillDown(v, v.shown + ShownHeight))
FillUpwards(v) == IF NRows(v) = 0 THEN v ELSE Touched(v, FillUp(v, v.shown))
RemoveFar(v) ==
    Touched(v, RemoveFarItems(v, v.shown - Buffer, v.shown + ShownHeight + Buffer))
FillAhead(v) ==
    IF NRows(v) = 0 THEN v ELSE AddAhead(v, v.shown - Buffer, v.shown + ShownHeight + Buffer)

\* Mutant of RefillView: filling up forgets what scrolled away at the top.
RefillsDownOnly(v) == RemoveFar(FillDownwards(v))

RefillView(v) == FillAhead(RemoveFar(FillUpwards(FillDownwards(v))))

\* calculateImplicitHeight(): what is not created is expected to be as high as
\* the rest; the organic grid knows.
OrganicHeight(v) ==
    LET full   == NRows(v) \div (v.columns * 6)
        height == IF full = 0 THEN 0 ELSE full * ModuleHeight + RowSpacing * (full - 1)
        rest   == NRows(v) - full * v.columns * 6
    IN  height + CASE rest = 0 -> 0
                   [] rest \in {1, 2} -> Small + RowSpacing
                   [] OTHER -> RowSpacing + ModuleHeight

ImplicitHeight(v) ==
    LET items  == UNION {ToSet(v.lanes[k]) : k \in DOMAIN v.lanes}
        bottom == Greatest({0} \cup {End(v, item) : item \in items})
        known  == Greatest({item.row + 1 : item \in items})
    IN  CASE v.layout = "organic" -> OrganicHeight(v)
          [] v.layout # "organic" /\ items = {} -> 0
          [] v.layout # "organic" /\ items # {} -> (bottom * NRows(v)) \div known

Measured(v) == IF v.dirty THEN [v EXCEPT !.height = ImplicitHeight(v), !.dirty = FALSE] ELSE v

PolishView ==
    LET v == [dash EXCEPT !.polish = FALSE]
        w == IF v.relayout THEN [Relayout(v) EXCEPT !.relayout = FALSE, !.dirty = TRUE] ELSE v
    IN  /\ dash.polish
        /\ dash' = Measured(RefillView(w))

\* An item that was asked for is ready: itemCreated().
DashItemCreated(i) ==
    /\ i \in dash.jobs
    /\ dash' = IF i = dash.async THEN [AddNow(dash, i) EXCEPT !.polish = TRUE, !.dirty = TRUE]
               ELSE [dash EXCEPT !.jobs = @ \ {i}]

\* The display margins follow the page.
ScrollView(top) ==
    /\ top # dash.shown
    /\ dash' = [dash EXCEPT !.shown = top, !.polish = TRUE]

SetViewWidth(width) ==
    /\ width # dash.width
    /\ dash' = [dash EXCEPT !.width = width, !.relayout = TRUE, !.polish = TRUE]

\* onModelUpdated()
AppendRow(size) ==
    /\ NRows(dash) < MostRows[dash.layout]
    /\ dash' = [dash EXCEPT !.sizes = Append(@, size), !.polish = TRUE]

\* processModelRemoves(): the row is the last of its lane, if it is created.
ReleaseRow(v, i) ==
    LET holds(k) == IsLane(v, k) /\ Last(v.lanes[k]).row = i
    IN  Firstless([v EXCEPT
          !.lanes = [k \in DOMAIN @ |-> IF holds(k) THEN Front(@[k]) ELSE @[k]],
          !.map = IF v.layout = "horizontal" /\ holds(1) THEN Without(@, i) ELSE @,
          !.dirty = @ \/ v.layout = "organic" \/ ~(\E k \in DOMAIN v.lanes : holds(k))])

RemoveLastRow ==
    LET i == NRows(dash) - 1 IN
    /\ i >= 0
    /\ dash' = [ReleaseRow(dash, i) EXCEPT !.sizes = Front(@), !.jobs = @ \ {i}, !.polish = TRUE]

\* The model is reset, or the view gets another model or delegate:
\* cleanupExistingItems().  m_asyncRequestedIndex stays as it is.
ResetRows(size) ==
    /\ NRows(dash) > 0
    /\ dash' = [Emptied(dash) EXCEPT !.sizes = <<size>>, !.jobs = {}, !.polish = TRUE]

DashViewInit ==
    \E layout \in Layouts :
      \E width \in ViewWidths[layout] :
        dash = [layout |-> layout, sizes |-> <<>>, width |-> width, columns |-> width,
                lanes |-> IF layout = "vertical" THEN [k \in 1..width |-> <<>>] ELSE << <<>> >>,
                map |-> <<>>, first |-> -1, async |-> -1, jobs |-> {},
                shown |-> 0, height |-> 0, dirty |-> FALSE, relayout |-> TRUE, polish |-> TRUE]

\* Rows of the organic grid have the sizes of the grid.
SizesIn(layout) == IF layout = "organic" THEN {1} ELSE RowSizes

DashViewNext ==
    \/ PolishView
    \/ \E i \in dash.jobs : DashItemCreated(i)
    \/ \E top \in ShownTops : ScrollView(top)
    \/ \E width \in ViewWidths[dash.layout] : SetViewWidth(width)
    \/ \E size \in SizesIn(dash.layout) : AppendRow(size)
    \/ RemoveLastRow
    \/ \E size \in SizesIn(dash.layout) : ResetRows(size)

-----------------------------------------------------------------------------
(***************************************************************************)
(* Properties.                                                             *)
(***************************************************************************)
\* Where every row is when all of them are created in order.
FreshLanes(v) ==
    FoldLeft(AddItemToView, Emptied(v), [i \in 1..NRows(v) |-> i - 1]).lanes

LaidOut(v) ==
    \A k \in DOMAIN v.lanes : ToSet(v.lanes[k]) \subseteq ToSet(FreshLanes(v)[k])

\* Rows are where they would be if the view had never been scrolled.
AtHome(v) == v.relayout \/ LaidOut(v)

\* An item arrives that is no longer next to the created ones.
ArrivesLate(v) == v.async # -1 /\ v.async \notin {NextBottom(v).index, NextTop(v).index}

\* A column of the journal has nothing that is near the rows of another.
Ragged(v) ==
    /\ v.layout = "vertical"
    /\ \E k, j \in DOMAIN v.lanes :
         IsLane(v, j) /\ (~IsLane(v, k) \/ Last(v.lanes[k]).row < Head(v.lanes[j]).row)

\* A row was replaced by a narrower one, and the line it ended is still known.
StaleLine(v) ==
    /\ v.layout = "horizontal"
    /\ ~v.relayout
    /\ \E i \in DOMAIN v.map : i + 1 < NRows(v) /\ FreshLanes(v)[1][i + 1].y = FreshLanes(v)[1][i + 2].y

\* The rows to lay out again begin with row 0 but miss others.
Holed(v) ==
    LET rows == UNION {{item.row : item \in ToSet(v.lanes[k])} : k \in DOMAIN v.lanes} IN
    /\ v.layout = "vertical" /\ v.relayout
    /\ 0 \in rows /\ \E i \in rows : ~(0..i \subseteq rows)

Disturbed(v) == ArrivesLate(v) \/ Ragged(v) \/ StaleLine(v) \/ Holed(v)

\* Unless it was disturbed, a view keeps its rows where they would be if they had
\* all been created in order, whatever is scrolled away, comes back, arrives
\* late, is appended, removed or laid out again
\* (AbstractDashView::refill, addItemToView and doRelayout of the layouts).
RowsStayHome == [][AtHome(dash) /\ ~Disturbed(dash) => AtHome(dash')]_dash

Seen(v, item) == item.y < v.shown + ShownHeight /\ End(v, item) > v.shown

\* When a view has nothing left to do, every row of which a part is shown has an
\* item (AbstractDashView::refill and addVisibleItems).
ShownRowsCreated ==
    ~dash.polish /\ dash.async = -1 /\ ~Disturbed(dash) => \A k \in DOMAIN dash.lanes :
        {item \in ToSet(FreshLanes(dash)[k]) : Seen(dash, item)} \subseteq ToSet(dash.lanes[k])

\* The page gives a view that has nothing left to do the room of its items: none
\* ends below the height the view asks for (setImplicitHeightDirty,
\* calculateImplicitHeight).
ItemsFitTheHeight ==
    ~dash.polish => \A k \in DOMAIN dash.lanes : \A item \in ToSet(dash.lanes[k]) :
        End(dash, item) <= dash.height

\* Nothing is missing in the part that is shown, and no item ends outside the view.
DashPageFilled == ShownRowsCreated /\ ItemsFitTheHeight

==============================================================================
