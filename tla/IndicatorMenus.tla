--------------------------- MODULE IndicatorMenus ---------------------------
(***************************************************************************)
(* The menus of the indicators, which come from other processes:           *)
(* UnityMenuModelStack (the submenus one has gone into), and ModelAction-  *)
(* RootState and ActionRootState, which follow the state that an indicator *)
(* shows in the panel.  The menu models and action groups of libqmenumodel *)
(* are external: rows come and go, models are reset, actions appear,       *)
(* change and vanish.                                                       *)
(***************************************************************************)
EXTENDS Integers, Sequences, FiniteSets, SequencesExt

CONSTANTS
    Menus,            \* menu models
    NoMenu,
    MostMenuRows,         \* bound: rows of a menu
    MostDepth,        \* bound: entries of the stack
    States, NoState   \* states of an action

VARIABLES
    menuStack,   \* a stack, with the rows of the menus
    rootState    \* ModelActionRootState and ActionRootState

-----------------------------------------------------------------------------
(***************************************************************************)
(* UnityMenuModelStack.  Rows are numbered as they are made, so that one   *)
(* can tell which row a submenu was entered through.                        *)
(***************************************************************************)
StackInit ==
    menuStack = [entries |-> <<>>, rows |-> [m \in Menus |-> <<>>]]

TailMenu(entries) == IF entries = <<>> THEN NoMenu ELSE Last(entries).menu

\* An entry follows the rows of the menu below it.
PushEntry(entries, menu, index, row) ==
    Append(entries, [menu |-> menu, parent |-> TailMenu(entries), index |-> index,
                     linked |-> TailMenu(entries) # NoMenu, row |-> row])

SetHead(menu) ==
    /\ menu # IF menuStack.entries = <<>> THEN NoMenu ELSE Head(menuStack.entries).menu
    /\ menuStack' = [menuStack EXCEPT !.entries = PushEntry(<<>>, menu, 0, 0)]

\* QML enters the submenu of a row.
PushMenu(menu, index) ==
    LET tail == TailMenu(menuStack.entries) IN
    /\ tail # NoMenu
    /\ index < Len(menuStack.rows[tail])
    /\ Len(menuStack.entries) < MostDepth
    /\ menuStack' = [menuStack EXCEPT
         !.entries = PushEntry(@, menu, index, menuStack.rows[tail][index + 1])]

PopMenu ==
    /\ menuStack.entries # <<>>
    /\ menuStack' = [menuStack EXCEPT !.entries = Front(@)]

\* onRemove(): an entry goes with all that are above it.
RemovedFrom(entries, gone) ==
    IF gone = {} THEN entries
    ELSE SubSeq(entries, 1, (CHOOSE i \in gone : \A j \in gone : i <= j) - 1)

FollowsRowsOf(e, menu) == e.linked /\ e.parent = menu

\* Mutant of MovedDown: a row inserted right where the entry is does not move it.
MovedDownAfter(e, start, n) == IF start < e.index THEN [e EXCEPT !.index = @ + n] ELSE e

MovedDown(e, start, n) == IF start <= e.index THEN [e EXCEPT !.index = @ + n] ELSE e

NewRow(menu) ==
    CHOOSE r \in 1..2 * MostMenuRows + MostDepth :
        /\ r \notin ToSet(menuStack.rows[menu])
        /\ \A e \in ToSet(menuStack.entries) : e.row # r

MenuRowInserted(menu, start) ==
    /\ Len(menuStack.rows[menu]) < MostMenuRows
    /\ start <= Len(menuStack.rows[menu])
    /\ menuStack' = [menuStack EXCEPT
         !.rows[menu] = InsertAt(@, start + 1, NewRow(menu)),
         !.entries = [i \in DOMAIN @ |-> IF FollowsRowsOf(@[i], menu) THEN MovedDown(@[i], start, 1)
                                         ELSE @[i]]]

MenuRowsRemoved(menu, start, n) ==
    LET entries == menuStack.entries
        gone == {i \in DOMAIN entries : FollowsRowsOf(entries[i], menu)
                                          /\ entries[i].index \in start..start + n - 1}
        moved(e) == IF FollowsRowsOf(e, menu) /\ e.index >= start + n
                    THEN [e EXCEPT !.index = @ - n] ELSE e
    IN  /\ n > 0 /\ start + n <= Len(menuStack.rows[menu])
        /\ menuStack' = [menuStack EXCEPT
             !.rows[menu] = SubSeq(@, 1, start) \o SubSeq(@, start + n + 1, Len(@)),
             !.entries = RemovedFrom([i \in DOMAIN @ |-> moved(@[i])], gone)]

MenuReset(menu) ==
    LET gone == {i \in DOMAIN menuStack.entries : FollowsRowsOf(menuStack.entries[i], menu)} IN
    menuStack' = [menuStack EXCEPT !.rows[menu] = <<>>, !.entries = RemovedFrom(@, gone)]

StackNext ==
    \/ \E menu \in Menus \cup {NoMenu} : SetHead(menu)
    \/ \E menu \in Menus, index \in 0..MostMenuRows - 1 : PushMenu(menu, index)
    \/ PopMenu
    \/ \E menu \in Menus, start \in 0..MostMenuRows : MenuRowInserted(menu, start)
    \/ \E menu \in Menus, start \in 0..MostMenuRows - 1, n \in 1..MostMenuRows :
          MenuRowsRemoved(menu, start, n)
    \/ \E menu \in Menus : MenuReset(menu)

StackSpec == StackInit /\ [][StackNext]_menuStack

-----------------------------------------------------------------------------
(***************************************************************************)
(* ModelActionRootState (the state of row 0 of a menu) and ActionRootState *)
(* (the state of a named action of a group).                                *)
(***************************************************************************)
RootInit ==
    rootState = [menu |-> FALSE, rows |-> <<>>, state |-> NoState,
                 group |-> FALSE, connected |-> FALSE, named |-> FALSE,
                 action |-> NoState, actionState |-> NoState]

\* A menu that is empty for a moment leaves what is shown.
UpdateMenuState(v) ==
    CASE v.menu /\ v.rows # <<>> -> [v EXCEPT !.state = Head(v.rows)]
      [] ~v.menu -> [v EXCEPT !.state = NoState]
      [] OTHER -> v

SetMenu ==
    rootState' = UpdateMenuState([rootState EXCEPT !.menu = ~@])

OnModelRowsRemoved(v, start) == IF start = 0 THEN UpdateMenuState(v) ELSE v
OnModelRowsAdded(v, start) == IF start = 0 THEN UpdateMenuState(v) ELSE v
OnModelDataChanged(v, row) == IF row = 0 THEN UpdateMenuState(v) ELSE v

RootRowAdded(start, s) ==
    LET v == [rootState EXCEPT !.rows = InsertAt(@, start + 1, s)] IN
    /\ Len(rootState.rows) < MostMenuRows /\ start <= Len(rootState.rows)
    /\ rootState' = IF v.menu THEN OnModelRowsAdded(v, start) ELSE v

RootRowRemoved(start) ==
    LET v == [rootState EXCEPT !.rows = RemoveAt(@, start + 1)] IN
    /\ start < Len(rootState.rows)
    /\ rootState' = IF v.menu THEN OnModelRowsRemoved(v, start) ELSE v

RootRowChanged(row, s) ==
    LET v == [rootState EXCEPT !.rows[row + 1] = s] IN
    /\ row < Len(rootState.rows)
    /\ rootState' = IF v.menu THEN OnModelDataChanged(v, row) ELSE v

MenuDestroyed ==
    /\ rootState.menu
    /\ rootState' = [rootState EXCEPT !.menu = FALSE, !.state = NoState]

ActionValid(v) == v.group /\ v.connected /\ v.named /\ v.action # NoState

UpdateActionState(v) ==
    [v EXCEPT !.actionState = IF ActionValid(v) THEN v.action ELSE NoState]

SetActionGroup ==
    rootState' = UpdateActionState([rootState EXCEPT !.group = ~@])
SetActionName ==
    rootState' = UpdateActionState([rootState EXCEPT !.named = ~@])

\* The group connects or loses its service, the action appears, changes or
\* vanishes: signals of the group, to whom has it.
ToldByGroup(v) == IF v.group THEN UpdateActionState(v) ELSE v

GroupStatusChanged == rootState' = ToldByGroup([rootState EXCEPT !.connected = ~@])
ActionChanged(s) ==
    /\ s # rootState.action
    /\ rootState' = ToldByGroup([rootState EXCEPT !.action = s])

RootNext ==
    \/ SetMenu
    \/ \E start \in 0..MostMenuRows, s \in States : RootRowAdded(start, s)
    \/ \E start \in 0..MostMenuRows - 1 : RootRowRemoved(start)
    \/ \E row \in 0..MostMenuRows - 1, s \in States : RootRowChanged(row, s)
    \/ MenuDestroyed
    \/ SetActionGroup
    \/ SetActionName
    \/ GroupStatusChanged
    \/ \E s \in States \cup {NoState} : ActionChanged(s)

RootSpec == RootInit /\ [][RootNext]_rootState

-----------------------------------------------------------------------------
(***************************************************************************)
(* Properties.                                                             *)
(***************************************************************************)
\* Whatever happens to the menus one has gone through, each submenu on the stack is
\* the one of the row it was entered through, which still exists
\* (UnityMenuModelEntry, UnityMenuModelStack::onRemove).
StackFollowsRows ==
    \A i \in DOMAIN menuStack.entries :
        LET e == menuStack.entries[i] IN
        e.linked => /\ i > 1 /\ e.parent = menuStack.entries[i - 1].menu
                    /\ e.index < Len(menuStack.rows[e.parent])
                    /\ menuStack.rows[e.parent][e.index + 1] = e.row

\* What the panel shows of an indicator is what its first row or its action says
\* now, or, while its menu is empty, what it said last; nothing is shown of an
\* indicator that went away (updateActionState of either class).
ShownStateIsCurrent ==
    /\ rootState.menu /\ rootState.rows # <<>> => rootState.state = Head(rootState.rows)
    /\ ~rootState.menu => rootState.state = NoState
    /\ rootState.actionState = IF ActionValid(rootState) THEN rootState.action ELSE NoState

\* Neither what is open nor what is shown outlives the rows it came from.
ShownMenusAreCurrent == StackFollowsRows /\ ShownStateIsCurrent

==============================================================================
