----------------------------- MODULE ProxyModels -----------------------------
(***************************************************************************)
(* The list models of Utils: QVariantListModel as the source, and on top   *)
(* of it QLimitProxyModelQML, which shows the first rows only and turns    *)
(* the source's signals into those of a shorter list.  shownRows is what a *)
(* view that follows the proxy's signals, and reads nothing else, shows.   *)
(***************************************************************************)
EXTENDS Integers, Sequences, SequencesExt

CONSTANTS Values, MaxSource, Limits, NoLimit, Blank

ASSUME ProxyAssumption == MaxSource \in Nat /\ Limits \ {NoLimit} \subseteq Nat

VARIABLES source, limit, shownRows

proxyVars == <<source, limit, shownRows>>

\* rowCount() of the proxy, and the rows it has.
Limited(rows, lim) == IF lim = NoLimit \/ Len(rows) <= lim THEN rows ELSE SubSeq(rows, 1, lim)

(***************************************************************************)
(* What a view does with the signals of the proxy: first..last are rows    *)
(* counted from 0, and there are none if last < first.                     *)
(***************************************************************************)
Nothing == [first |-> 0, last |-> -1]
Span(first, last) == [first |-> first, last |-> last]

OnRemoved(rows, s) == SubSeq(rows, 1, s.first) \o SubSeq(rows, s.last + 2, Len(rows))
OnInserted(rows, s, now) ==
    SubSeq(rows, 1, s.first) \o SubSeq(now, s.first + 1, s.last + 1)
      \o SubSeq(rows, s.first + 1, Len(rows))
OnChanged(rows, s, now) ==
    [i \in DOMAIN rows |-> IF i - 1 \in s.first..s.last THEN now[i] ELSE rows[i]]

\* The limit hides the end of the list, so now is long enough for each signal.
Follow(rows, removed, inserted, changed, now) ==
    LET a == IF removed = Nothing THEN rows ELSE OnRemoved(rows, removed)
        b == IF inserted = Nothing THEN a ELSE OnInserted(a, inserted, now)
    IN  OnChanged(b, changed, now)

-----------------------------------------------------------------------------
\* Mutant of InsertionSpans: the rows are cut off at the limit, and those they push
\* beyond it are forgotten.
InsertionSpansCut(start, count) ==
    LET last == IF limit = NoLimit \/ start + count <= limit THEN start + count - 1
                ELSE limit - 1
    IN  [inserted |-> IF limit # NoLimit /\ limit <= start THEN Nothing ELSE Span(start, last),
         changed |-> Nothing]

\* sourceRowsAboutToBeInserted(), sourceRowsInserted(): count rows came at start.
InsertionSpans(start, count) ==
    LET have == Len(source)
        new  == limit - have
    IN  CASE limit = NoLimit \/ (start < limit /\ have + count <= limit) ->
               [inserted |-> Span(start, start + count - 1), changed |-> Nothing]
          [] limit # NoLimit /\ start < limit /\ have >= limit ->
               [inserted |-> Nothing, changed |-> Span(start, limit - 1)]
          [] limit # NoLimit /\ start < limit /\ have < limit /\ have + count > limit ->
               [inserted |-> Span(start, start + new - 1), changed |-> Span(start + new, limit - 1)]
          [] OTHER -> [inserted |-> Nothing, changed |-> Nothing]

\* sourceRowsAboutToBeRemoved(), sourceRowsRemoved()
RemovalSpans(start, count) ==
    LET have == Len(source)
        gone == limit - (have - count)
    IN  CASE limit = NoLimit \/ (start < limit /\ have <= limit) ->
               [removed |-> Span(start, start + count - 1), changed |-> Nothing]
          [] limit # NoLimit /\ start < limit /\ have > limit /\ have - count >= limit ->
               [removed |-> Nothing, changed |-> Span(start, limit - 1)]
          [] limit # NoLimit /\ start < limit /\ have > limit /\ have - count < limit ->
               [removed |-> Span(limit - gone, limit - 1), changed |-> Span(start, limit - gone - 1)]
          [] OTHER -> [removed |-> Nothing, changed |-> Nothing]

\* insertRows() and removeRows() of the source
RowsWith(start, count) ==
    SubSeq(source, 1, start) \o [i \in 1..count |-> Blank] \o SubSeq(source, start + 1, Len(source))
RowsWithout(start, count) ==
    SubSeq(source, 1, start) \o SubSeq(source, start + count + 1, Len(source))

InsertSourceRows(start, count) ==
    LET rows  == RowsWith(start, count)
        spans == InsertionSpans(start, count)
    IN  /\ start \in 0..Len(source)
        /\ source' = rows
        /\ shownRows' = Follow(shownRows, Nothing, spans.inserted, spans.changed, Limited(rows, limit))
        /\ UNCHANGED limit

RemoveSourceRows(start, count) ==
    LET rows  == RowsWithout(start, count)
        spans == RemovalSpans(start, count)
    IN  /\ start + count <= Len(source)
        /\ source' = rows
        /\ shownRows' = Follow(shownRows, spans.removed, Nothing, spans.changed, Limited(rows, limit))
        /\ UNCHANGED limit

\* dataChanged() of the source reaches the view through QIdentityProxyModel.
SetSourceRow(row, value) ==
    /\ source' = [source EXCEPT ![row + 1] = value]
    /\ shownRows' = OnChanged(shownRows, Span(row, row), source')
    /\ UNCHANGED limit

\* A list of another length resets the model.
SetVariantList(rows) ==
    /\ source' = rows
    /\ shownRows' = IF Len(rows) = Len(source)
                    THEN OnChanged(shownRows, Span(0, Len(rows) - 1), rows)
                    ELSE Limited(rows, limit)
    /\ UNCHANGED limit

\* setLimit()
LimitSpans(lim) ==
    LET old == Len(Limited(source, limit))
        all == Len(source)
        removes == [removed |-> Span(lim, old - 1), inserted |-> Nothing]
        inserts(to) == [removed |-> Nothing, inserted |-> Span(limit, to - 1)]
    IN  CASE limit = NoLimit /\ lim < old -> removes
          [] limit # NoLimit /\ lim = NoLimit /\ limit < all -> inserts(all)
          [] limit # NoLimit /\ lim # NoLimit /\ lim > limit /\ all > limit -> inserts(IF lim < all THEN lim ELSE all)
          [] limit # NoLimit /\ lim # NoLimit /\ lim < limit /\ lim < old -> removes
          [] OTHER -> [removed |-> Nothing, inserted |-> Nothing]

SetLimit(lim) ==
    LET spans == LimitSpans(lim) IN
    /\ lim # limit
    /\ limit' = lim
    /\ shownRows' = Follow(shownRows, spans.removed, spans.inserted, Nothing, Limited(source, lim))
    /\ UNCHANGED source

ProxyInit == source = <<>> /\ limit = NoLimit /\ shownRows = <<>>

ProxyNext ==
    \/ \E start \in 0..Len(source), count \in 1..MaxSource - Len(source) : InsertSourceRows(start, count)
    \/ \E start \in 0..Len(source), count \in 1..Len(source) : RemoveSourceRows(start, count)
    \/ \E row \in 0..Len(source) - 1, value \in Values : SetSourceRow(row, value)
    \/ \E rows \in BoundedSeq(Values, MaxSource) : SetVariantList(rows)
    \/ \E lim \in Limits : SetLimit(lim)

ProxySpec == ProxyInit /\ [][ProxyNext]_proxyVars

-----------------------------------------------------------------------------
\* Whatever the source and the limit do, and however rows cross the limit, a
\* view that follows the signals of the proxy shows exactly its rows.
ViewFollowsProxy == shownRows = Limited(source, limit)

==============================================================================
