--------------------------- MODULE GreeterLauncher ---------------------------
(***************************************************************************)
(* The launcher of the greeter, plugins/Greeter/Unity/Launcher, beside the *)
(* AccountsService cache of the same process: it shows the pinned items of *)
(* the chosen user's session, as that session left them in AccountsService *)
(* (LauncherModel.tla, SyncItems).  Both listen to the same connection and *)
(* change user together, but this one reads while it handles the signal.   *)
(***************************************************************************)
EXTENDS AccountsService, Selection

CONSTANTS
    AppIds,
    SessionLists    \* what sessions write (a bound); see LauncherModel!SyncItems

AccountsItem == [id: AppIds, pinned: BOOLEAN, running: BOOLEAN]

ASSUME ListsAssumption ==
    /\ SessionLists \subseteq Seq(AccountsItem)
    /\ \A list \in SessionLists :
           \A i, j \in DOMAIN list : list[i].id = list[j].id => i = j

VARIABLES
    sessionItems,   \* the daemon: LauncherItems of every user
    gList,          \* LauncherModel::m_list
    onlyPinned      \* m_onlyPinned

launcherVars == <<sessionItems, gList, onlyPinned>>
vars == <<accountsVars, launcherVars>>

Item == [appId: AppIds, running: BOOLEAN]

TypeOK ==
    /\ AccountsTypeOK
    /\ sessionItems \in [Users -> SessionLists]
    /\ gList \in Seq(Item)
    /\ onlyPinned \in BOOLEAN

-----------------------------------------------------------------------------
(* refresh() *)

ToItem(x) == [appId |-> x.id, running |-> x.running]
Shown(items, only) == Kept(items, {i \in DOMAIN items : ~only \/ items[i].pinned})

Named(list, shown) ==
    Kept(list, {k \in DOMAIN list : \E i \in DOMAIN shown : shown[i].id = list[k].appId})

\* Mutant: an item that stays is not updated.
UpdatedNot(list, shown) == Named(list, shown)

\* First loop: what is no longer shown goes, the rest is updated in its place.
Updated(list, shown) ==
    LET kept == Named(list, shown)
    IN  [k \in DOMAIN kept |->
            ToItem(shown[CHOOSE i \in DOMAIN shown : shown[i].id = kept[k].appId])]

\* Second loop: the i-th item shown goes to the i-th place.
Place(list, i, x) ==
    IF \E k \in DOMAIN list : list[k].appId = x.id
    THEN LET k == CHOOSE k \in DOMAIN list : list[k].appId = x.id
         IN  InsertAt(RemoveAt(list, k), i, list[k])
    ELSE InsertAt(list, i, ToItem(x))

Refreshed(list, items, only) ==
    LET shown == Shown(items, only)
        placed[i \in 0..Len(shown)] ==
            IF i = 0 THEN Updated(list, shown) ELSE Place(placed[i - 1], i, shown[i])
    IN  placed[Len(shown)]

-----------------------------------------------------------------------------

\* The session sends its list whenever it changes.
SessionSyncs(u, list) ==
    /\ list # sessionItems[u]
    /\ UnderWay + 2 <= MaxMessages
    /\ sessionItems' = [sessionItems EXCEPT ![u] = list]
    /\ toClient' = toClient \o Announced(u, LauncherItems)
    /\ UNCHANGED <<stored, clientVars, toDaemon, gList, onlyPinned>>

PropertiesChanged ==
    /\ OnPropertiesChanged
    /\ gList' = IF Head(toClient).user = m_user /\ Head(toClient).prop = LauncherItems
                THEN Refreshed(gList, sessionItems[m_user], onlyPinned)
                ELSE gList
    /\ UNCHANGED <<sessionItems, onlyPinned>>

\* The greeter shows another user: the cache first, then the launcher.
SelectUser(u) ==
    /\ SetUser(u)
    /\ gList' = Refreshed(gList, sessionItems[u], onlyPinned)
    /\ UNCHANGED <<sessionItems, onlyPinned>>

SetOnlyPinned(only) ==
    /\ only # onlyPinned
    /\ onlyPinned' = only
    /\ gList' = Refreshed(gList, sessionItems[m_user], only)
    /\ UNCHANGED <<accountsVars, sessionItems>>

CacheSteps ==
    /\ \/ DaemonAnswers \/ ReplyArrives \/ OnMaybeChanged
       \/ \E u \in Users, p \in Props, v \in Values : OtherWrites(u, p, v)
       \/ \E p \in Settable, v \in Values : SetProperty(p, v)
    /\ UNCHANGED launcherVars

Init ==
    /\ AccountsInit
    /\ sessionItems \in [Users -> SessionLists]
    /\ onlyPinned = TRUE
    /\ gList = Refreshed(<<>>, sessionItems[m_user], TRUE)

Next ==
    \/ CacheSteps
    \/ \E u \in Users, list \in SessionLists : SessionSyncs(u, list)
    \/ PropertiesChanged
    \/ \E u \in Users : SelectUser(u)
    \/ \E only \in BOOLEAN : SetOnlyPinned(only)

Spec == Init /\ [][Next]_vars

-----------------------------------------------------------------------------

\* When no signal about it is under way, the greeter shows exactly the items of
\* its user's session that it is to show, in their order and with their state:
\* whatever was listed before, for whichever user.
GreeterShowsTheSession ==
    (\A i \in DOMAIN toClient : toClient[i].kind = "PropertiesChanged"
                                => toClient[i].prop # LauncherItems \/ toClient[i].user # m_user) =>
        LET shown == Shown(sessionItems[m_user], onlyPinned)
        IN  gList = [i \in DOMAIN shown |-> ToItem(shown[i])]

\* The same, in states of the right types: what is shown was really sent.
GreeterShowsSentItems == TypeOK /\ GreeterShowsTheSession


=============================================================================
