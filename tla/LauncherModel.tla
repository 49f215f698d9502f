---------------------------- MODULE LauncherModel ----------------------------
(***************************************************************************)
(* The launcher of the session: plugins/Unity/Launcher.  One list of items *)
(* is merged from four sources that know nothing of each other: the stored *)
(* list of pinned applications in GSettings, the applications that run,    *)
(* the emblems that applications set over D-Bus, and the user, who pins,   *)
(* unpins and drags.  Every change is copied to AccountsService, where the *)
(* greeter finds it.                                                       *)
(*                                                                         *)
(* QGSettings tells of a change later, whoever made it; GSettings swallows *)
(* the notice when the list is the one it wrote or forwarded last.  Names, *)
(* icons, counts, progress and alerting are data no property looks at.     *)
(***************************************************************************)
EXTENDS Naturals, Sequences, SequencesExt, FiniteSets, Selection

CONSTANTS
    AppIds,
    Dash,           \* unity8-dash, which never gets an item by running
    NoApp,          \* no application is focused
    Removable,      \* applications whose desktop file may come and go
    Emblems,        \* applications that set an emblem over D-Bus (a bound)
    ForeignLists    \* what others write to the setting (a bound)

Forms == {"appid", "application", "other"}      \* how an entry is written
Entries == [form: Forms, app: AppIds]

ASSUME LauncherAssumption ==
    /\ Dash \in AppIds /\ NoApp \notin AppIds
    /\ Removable \subseteq AppIds /\ Emblems \subseteq AppIds
    /\ ForeignLists \subseteq Seq(Entries)
    /\ \A list \in ForeignLists : \A i, j \in DOMAIN list :   \* names none twice
           i # j /\ list[i].app = list[j].app => "other" \in {list[i].form, list[j].form}

VARIABLES
    mList,          \* LauncherModel::m_list
    items,          \* the setting "items", as it is stored
    mCachedItems,   \* GSettings::m_cachedItems
    notice,         \* QGSettings has a change to tell of
    asItems,        \* LauncherItems, as last sent to AccountsService
    installed,      \* applications with a valid desktop file
    apps,           \* rows of the application manager
    focusedApp      \* its focusedApplicationId

launcherVars == <<mList, items, mCachedItems, asItems>>
vars == <<launcherVars, notice, installed, apps, focusedApp>>

Item == [appId: AppIds, pinned: BOOLEAN, running: BOOLEAN, recent: BOOLEAN,
         countVisible: BOOLEAN, focused: BOOLEAN]
AccountsItem == [id: AppIds, pinned: BOOLEAN, running: BOOLEAN, countVisible: BOOLEAN]

TypeOK ==
    /\ mList \in Seq(Item)
    /\ items \in Seq(Entries)
    /\ mCachedItems \in Seq(Entries)
    /\ notice \in BOOLEAN
    /\ asItems \in Seq(AccountsItem)
    /\ installed \subseteq AppIds
    /\ apps \subseteq AppIds
    /\ focusedApp \in AppIds \cup {NoApp}

-----------------------------------------------------------------------------
(* The list. *)

IdsOf(list) == [i \in DOMAIN list |-> list[i].appId]
PinnedIds(list) == Kept(IdsOf(list), {i \in DOMAIN list : list[i].pinned})
Knows(list, a) == \E i \in DOMAIN list : list[i].appId = a

FindApplication(list, a) ==
    CHOOSE i \in DOMAIN list : /\ list[i].appId = a
                               /\ \A j \in 1 .. i - 1 : list[j].appId # a

NewItem(a) == [appId |-> a, pinned |-> FALSE, running |-> FALSE, recent |-> FALSE,
               countVisible |-> FALSE, focused |-> FALSE]

\* QList::move
MoveItem(list, from, to) == InsertAt(RemoveAt(list, from), to, list[from])

\* A running application keeps its item and loses the pin, another one goes.
Unpin(list, a) ==
    IF ~Knows(list, a) THEN list
    ELSE LET i == FindApplication(list, a)
         IN  IF a \in apps THEN [list EXCEPT ![i].pinned = FALSE] ELSE RemoveAt(list, i)

-----------------------------------------------------------------------------
(* The setting and the copy in AccountsService. *)

\* Both ways of writing an application are understood, other entries are not.
StoredApplications(list) ==
    Kept([i \in DOMAIN list |-> list[i].app], {i \in DOMAIN list : list[i].form # "other"})

Written(ids) == [i \in DOMAIN ids |-> [form |-> "appid", app |-> ids[i]]]

ItemToVariant(x) == [id |-> x.appId, pinned |-> x.pinned, running |-> x.running,
                     countVisible |-> x.countVisible]

SyncItems == asItems' = [i \in DOMAIN mList' |-> ItemToVariant(mList'[i])]

\* Mutant: the setting is written and the copy forgotten.
StoreAppListOnly ==
    /\ items' = Written(PinnedIds(mList'))
    /\ mCachedItems' = items'
    /\ notice' = TRUE
    /\ UNCHANGED asItems

StoreAppList ==
    /\ items' = Written(PinnedIds(mList'))
    /\ mCachedItems' = items'
    /\ notice' = TRUE
    /\ SyncItems

SettingUnread == UNCHANGED <<items, mCachedItems, notice>>

-----------------------------------------------------------------------------
(* refresh(): drop what is not stored, then put what is stored in front. *)

\* Mutant: only the desktop file is asked for.
UnwantedUninstalled(list, ids) ==
    Kept(IdsOf(list), {i \in DOMAIN list : list[i].appId \notin installed})

Unwanted(list, ids) ==
    Kept(IdsOf(list), {i \in DOMAIN list : list[i].appId \notin installed \cap ToSet(ids)})

\* First loop: what is not to stay is unpinned.
Cleared(list, ids) ==
    LET unwanted == Unwanted(list, ids)
        left[i \in 0..Len(unwanted)] ==
            IF i = 0 THEN list ELSE Unpin(left[i - 1], unwanted[i])
    IN  left[Len(unwanted)]

\* Mutant: an item that is there already stays where it is.
PlaceEntryUnmoved(done, a) ==
    LET added == done.added + 1
    IN  IF Knows(done.list, a) THEN [done EXCEPT !.added = added]
        ELSE IF a \in installed
        THEN [list |-> InsertAt(done.list, added, [NewItem(a) EXCEPT !.pinned = TRUE]),
              added |-> added]
        ELSE done

\* One round of the second loop; added counts the entries that have an item.
PlaceEntry(done, a) ==
    LET added == done.added + 1
    IN  IF Knows(done.list, a)
        THEN [list |-> MoveItem(done.list, FindApplication(done.list, a), added), added |-> added]
        ELSE IF a \in installed
        THEN [list |-> InsertAt(done.list, added, [NewItem(a) EXCEPT !.pinned = TRUE]),
              added |-> added]
        ELSE done

Refreshed(list, ids) ==
    LET placed[i \in 0..Len(ids)] ==
            IF i = 0 THEN [list |-> Cleared(list, ids), added |-> 0]
            ELSE PlaceEntry(placed[i - 1], ids[i])
    IN  placed[Len(ids)].list

Refresh ==
    /\ mList' = Refreshed(mList, StoredApplications(items))
    /\ SyncItems

-----------------------------------------------------------------------------
(* The user. *)

Fixed == UNCHANGED <<installed, apps, focusedApp>>

\* move() pins an item that was not, and stores the list.
Moves(list, from, to) == [MoveItem(list, from, to) EXCEPT ![to].pinned = TRUE]

Move(from, to) ==
    /\ from \in DOMAIN mList /\ to \in DOMAIN mList /\ from # to
    /\ mList' = Moves(mList, from, to)
    /\ StoreAppList
    /\ Fixed

PinKnown(a) ==
    /\ Knows(mList, a)
    /\ mList' = [mList EXCEPT ![FindApplication(mList, a)].pinned = TRUE]
    /\ StoreAppList
    /\ Fixed

\* Only an application with a desktop file can be pinned before it has an item.
\* (No caller names an index, so the item comes last.)
PinNew(a) ==
    /\ ~Knows(mList, a) /\ a \in installed
    /\ mList' = Append(mList, [NewItem(a) EXCEPT !.pinned = TRUE])
    /\ StoreAppList
    /\ Fixed

RequestRemove(a) ==
    /\ mList' = Unpin(mList, a)
    /\ StoreAppList
    /\ Fixed

\* The pin_item entry of an item's quick list.
QuickListActionInvoked(a) ==
    /\ Knows(mList, a)
    /\ IF mList[FindApplication(mList, a)].pinned THEN RequestRemove(a) ELSE PinKnown(a)

-----------------------------------------------------------------------------
(* D-Bus: emblems, and Refresh, which the package installer calls. *)

\* Mutant: the item stays when its emblem is hidden.
ShowsEmblemOnly(a, visible) ==
    [mList EXCEPT ![FindApplication(mList, a)].countVisible = visible]

\* An emblem that is hidden takes the item along that nothing else holds.
ShowsEmblem(a, visible) ==
    LET i == FindApplication(mList, a)
        shown == [mList EXCEPT ![i].countVisible = visible]
    IN  IF ~visible /\ ~mList[i].pinned /\ ~mList[i].recent THEN RemoveAt(shown, i) ELSE shown

CountVisibleChanged(a, visible) ==
    /\ IF Knows(mList, a)
       THEN /\ visible # mList[FindApplication(mList, a)].countVisible
            /\ mList' = ShowsEmblem(a, visible)
       ELSE mList' = IF visible /\ a \in installed
                     THEN Append(mList, [NewItem(a) EXCEPT !.countVisible = TRUE])
                     ELSE mList
    /\ SyncItems
    /\ SettingUnread /\ Fixed

\* The count is data, but its arrival brings the copy up to date.
CountChanged(a) ==
    /\ Knows(mList, a)
    /\ UNCHANGED mList
    /\ SyncItems
    /\ SettingUnread /\ Fixed

RefreshCalled == Refresh /\ SettingUnread /\ Fixed

-----------------------------------------------------------------------------
(* The application manager. *)

Running(list, a) ==
    IF Knows(list, a)
    THEN LET i == FindApplication(list, a)
         IN  [list EXCEPT ![i].running = TRUE, ![i].recent = TRUE]
    ELSE Append(list, [NewItem(a) EXCEPT !.running = TRUE, !.recent = TRUE,
                                         !.focused = (a = focusedApp)])

ApplicationAdded(a) ==
    /\ a \notin apps
    /\ apps' = apps \cup {a}
    /\ IF a = Dash THEN UNCHANGED <<mList, asItems>>
       ELSE mList' = Running(mList, a) /\ SyncItems
    /\ SettingUnread /\ UNCHANGED <<installed, focusedApp>>

\* An item that is not pinned goes; that a pinned one stopped is not copied.
ApplicationRemoved(a) ==
    /\ a \in apps
    /\ apps' = apps \ {a}
    /\ IF ~Knows(mList, a) THEN UNCHANGED <<mList, asItems>>
       ELSE LET i == FindApplication(mList, a)
            IN  IF mList[i].pinned
                THEN mList' = [mList EXCEPT ![i].running = FALSE] /\ UNCHANGED asItems
                ELSE mList' = RemoveAt(mList, i) /\ SyncItems
    /\ SettingUnread /\ UNCHANGED <<installed, focusedApp>>

FocusedAppIdChanged(a) ==
    /\ a \in apps \cup {NoApp} /\ a # focusedApp
    /\ focusedApp' = a
    /\ mList' = [i \in DOMAIN mList |-> [mList[i] EXCEPT !.focused = (mList[i].appId = a)]]
    /\ SettingUnread /\ UNCHANGED <<asItems, installed, apps>>

-----------------------------------------------------------------------------
(* The setting changes, and GSettings hears of it. *)

SettingWritten(list) ==
    /\ list # items
    /\ items' = list
    /\ notice' = TRUE
    /\ UNCHANGED <<mList, mCachedItems, asItems>> /\ Fixed

OnSettingsChanged ==
    /\ notice
    /\ notice' = FALSE
    /\ mCachedItems' = items
    /\ IF mCachedItems # items THEN Refresh ELSE UNCHANGED <<mList, asItems>>
    /\ UNCHANGED items /\ Fixed

DesktopFileComesOrGoes(a) ==
    /\ a \in Removable
    /\ installed' = IF a \in installed THEN installed \ {a} ELSE installed \cup {a}
    /\ UNCHANGED <<launcherVars, notice, apps, focusedApp>>

\* The shell ends, and its applications with it; only the setting stays.
Restart ==
    /\ apps' = {} /\ focusedApp' = NoApp
    /\ mCachedItems' = <<>> /\ notice' = FALSE
    /\ mList' = Refreshed(<<>>, StoredApplications(items))
    /\ SyncItems
    /\ UNCHANGED <<items, installed>>

-----------------------------------------------------------------------------

Init ==
    /\ items \in ForeignLists
    /\ mCachedItems = <<>> /\ notice = FALSE
    /\ installed = AppIds
    /\ apps = {} /\ focusedApp = NoApp
    /\ mList = Refreshed(<<>>, StoredApplications(items))
    /\ asItems = [i \in DOMAIN mList |-> ItemToVariant(mList[i])]

Next ==
    \/ \E from, to \in DOMAIN mList : Move(from, to)
    \/ \E a \in AppIds :
        \/ PinKnown(a)
        \/ PinNew(a)
        \/ RequestRemove(a)
        \/ QuickListActionInvoked(a)
        \/ ApplicationAdded(a)
        \/ ApplicationRemoved(a)
        \/ DesktopFileComesOrGoes(a)
    \/ \E a \in Emblems : CountChanged(a) \/ \E visible \in BOOLEAN : CountVisibleChanged(a, visible)
    \/ \E a \in AppIds \cup {NoApp} : FocusedAppIdChanged(a)
    \/ RefreshCalled
    \/ \E list \in ForeignLists : SettingWritten(list)
    \/ OnSettingsChanged
    \/ Restart

Spec == Init /\ [][Next]_vars

-----------------------------------------------------------------------------
(* Properties. *)

\* No application has two items, whichever of the four sources asks for one
\* first and whatever order the others follow in: every handler looks an
\* application up by its first item and would leave the second one behind.
NoAppTwice ==
    \A i, j \in DOMAIN mList : mList[i].appId = mList[j].appId => i = j

\* An item is shown as running exactly when its application runs, and every
\* application that runs, the dash apart, has one: refresh() and requestRemove()
\* take items away without looking at running().
RunningAppsAreShown ==
    /\ \A i \in DOMAIN mList : mList[i].running => mList[i].appId \in apps
    /\ \A a \in apps \ {Dash} :
        \E i \in DOMAIN mList : mList[i].appId = a /\ mList[i].running /\ mList[i].recent

\* Nothing stays in the launcher that is not pinned, does not run and shows no
\* emblem: an item is dropped by whoever lets go of it last.  recent() stays set
\* when a pinned application ends, so hiding an emblem may not rely on it alone.
NoItemWithoutReason ==
    \A i \in DOMAIN mList :
        mList[i].pinned \/ mList[i].appId \in apps \/ mList[i].countVisible

PinsAreOf(pinned, ids) == pinned = Kept(ids, {i \in DOMAIN ids : ids[i] \in ToSet(pinned)})

\* Whenever the pinned items change, by whatever step, they are stored at that
\* moment and in the order the launcher shows: no handler changes them without
\* writing the setting, and refresh() leaves none that the setting has not.
PinsChangeWithTheSetting ==
    [][mList' # mList /\ PinnedIds(mList') # PinnedIds(mList) =>
        PinsAreOf(PinnedIds(mList'), StoredApplications(items'))]_vars

\* What AccountsService was sent last has the pinned items of the launcher, in
\* their order: no handler that pins, unpins, moves or drops one forgets to.
AccountsKnowsThePins ==
    PinnedIds(mList) =
        Kept([i \in DOMAIN asItems |-> asItems[i].id], {i \in DOMAIN asItems : asItems[i].pinned})

\* An item is focused only while its application is: at most one at a time.
FocusFollowsManager ==
    \A i \in DOMAIN mList : mList[i].focused => mList[i].appId = focusedApp

\* refresh() against what its comments promise: the items of the stored list
\* first and in its order, those without a desktop file and without an item
\* skipped, and behind them what only a running application holds.
RefreshReference(list, ids) ==
    LET stays(a) == a \in apps \cup (installed \cap ToSet(ids))
        wanted == Kept(ids, {i \in DOMAIN ids :
                                ids[i] \in installed \/ (Knows(list, ids[i]) /\ stays(ids[i]))})
        rest == Kept(IdsOf(list), {i \in DOMAIN list : /\ stays(list[i].appId)
                                                       /\ list[i].appId \notin ToSet(wanted)})
    IN  wanted \o rest

RefreshOrdersTheList ==
    [][items' = items /\ Refresh =>
        IdsOf(mList') = RefreshReference(mList, StoredApplications(items))]_vars

\* After refresh(), which "brings the Launcher into sync with the settings
\* backend", every stored application that has an item is pinned.
StoredAppsArePinned ==
    ~notice =>
        \A i \in DOMAIN mList :
            mList[i].appId \in ToSet(StoredApplications(items)) => mList[i].pinned

\* Each item is there for a reason, which it shows: it is pinned, runs or has an
\* emblem; no application has two, and every running one but the dash has one.
ItemsHaveReasons ==
    /\ TypeOK /\ NoAppTwice
    /\ RunningAppsAreShown /\ NoItemWithoutReason /\ FocusFollowsManager


=============================================================================
