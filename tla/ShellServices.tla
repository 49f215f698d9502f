---------------------------- MODULE ShellServices ----------------------------
(***************************************************************************)
(* Services of the shell's process: WindowStateStorage, which saves the    *)
(* geometry of windows on the thread pool; AbstractDBusServiceMonitor and  *)
(* DashCommunicator, whose thread calls the dash over D-Bus; the screens   *)
(* of ShellApplication.  SQLite, the bus, the display server and Qt's      *)
(* event loop and thread pool are external.                                 *)
(***************************************************************************)
EXTENDS Integers, Sequences, FiniteSets, SequencesExt, Selection

CONSTANTS
    Windows, Geometries, NoGeometry,
    MostQueries,      \* bound: saves that have not been carried out
    MostCalls,        \* bound: calls and signals that have not arrived
    Screens,
    MostNotices       \* bound: secondary windows

VARIABLES
    storage,          \* WindowStateStorage
    dashLink,         \* DashCommunicator and the monitor of its thread
    screens           \* ShellApplication

-----------------------------------------------------------------------------
(***************************************************************************)
(* WindowStateStorage.  Queries run on the thread pool, one at a time and  *)
(* in any order.  asked is what was saved last; unsure has the windows     *)
(* that were saved again before that was done, or whose save failed.       *)
(***************************************************************************)
StorageInit ==
    \E rows \in [Windows -> Geometries \cup {NoGeometry}] :
        storage = [open |-> TRUE, rows |-> rows, queued |-> {}, asyncQueries |-> {},
                   asked |-> rows, unsure |-> {}]

\* Mutant of Remembered: the destructor does not know of the query.
RememberedNot(queries, q) == queries

Remembered(queries, q) == queries \cup {q}

SaveGeometry(window, rect) ==
    \E n \in 1..MostQueries :
        LET q == [window |-> window, rect |-> rect, n |-> n] IN
        /\ storage.open
        /\ \A p \in storage.queued \cup storage.asyncQueries : p.n # n
        /\ storage' = [storage EXCEPT
             !.asked[window] = rect,
             !.queued = @ \cup {q},
             !.asyncQueries = Remembered(@, q),
             !.unsure = IF \E p \in storage.queued : p.window = window THEN @ \cup {window} ELSE @]

\* On a thread of the pool; nothing is written once the database is closed.
ExecuteAsyncQuery(q, ok) ==
    /\ storage' = [storage EXCEPT
         !.queued = @ \ {q},
         !.rows[q.window] = IF storage.open /\ ok THEN q.rect ELSE @,
         !.unsure = IF storage.open /\ ~ok THEN @ \cup {q.window} ELSE @]

QueryFinished(q) ==
    /\ storage.open /\ q \notin storage.queued
    /\ storage' = [storage EXCEPT !.asyncQueries = @ \ {q}]

\* ~WindowStateStorage() waits for the queries it knows of.
CloseStorage ==
    /\ storage.open /\ storage.asyncQueries \cap storage.queued = {}
    /\ storage' = [storage EXCEPT !.open = FALSE]

\* getGeometry()
GeometryOf(window, default) ==
    IF storage.rows[window] = NoGeometry THEN default ELSE storage.rows[window]

StorageNext ==
    \/ \E window \in Windows, rect \in Geometries : SaveGeometry(window, rect)
    \/ \E q \in storage.queued, ok \in BOOLEAN : ExecuteAsyncQuery(q, ok)
    \/ \E q \in storage.asyncQueries : QueryFinished(q)
    \/ CloseStorage

StorageSpec == StorageInit /\ [][StorageNext]_storage

-----------------------------------------------------------------------------
(***************************************************************************)
(* DashCommunicator.  Its thread makes the connection: a watcher of the    *)
(* dash's name first, then a question whether the name is taken.           *)
(***************************************************************************)
DashLinkInit ==
    \E registered \in BOOLEAN :
        dashLink = [registered |-> registered, thread |-> "starting", signals |-> <<>>,
                    answered |-> TRUE, interface |-> FALSE, created |-> FALSE,
                    calls |-> <<>>, onBus |-> <<>>]

WatchService ==
    /\ dashLink.thread = "starting"
    /\ dashLink' = [dashLink EXCEPT !.thread = "watching"]

OnServiceRegistered(d) == [d EXCEPT !.interface = TRUE]

\* Mutant of OnServiceUnregistered: the interface stays, for the next dash.
OnServiceGoneKeeps(d) == d

OnServiceUnregistered(d) == [d EXCEPT !.interface = FALSE]

\* The end of the constructor, and m_created.
ConnectIfRegistered(answers) ==
    LET d == [dashLink EXCEPT !.thread = "up", !.created = TRUE, !.answered = answers] IN
    /\ dashLink.thread = "watching"
    /\ dashLink' = IF answers /\ dashLink.registered THEN OnServiceRegistered(d) ELSE d

NameSignals == IF dashLink.thread = "starting" THEN dashLink.signals
               ELSE Append(dashLink.signals, ~dashLink.registered)

\* The dash starts, or goes; the bus tells those who watch its name.
DashComesOrGoes ==
    /\ Len(dashLink.signals) < MostCalls
    /\ dashLink' = [dashLink EXCEPT !.registered = ~@, !.signals = NameSignals,
                                    !.onBus = IF dashLink.registered THEN <<>> ELSE @]

NameSignalArrives ==
    LET d == [dashLink EXCEPT !.signals = Tail(@), !.answered = TRUE] IN
    /\ dashLink.thread = "up" /\ dashLink.signals # <<>>
    /\ dashLink' = IF Head(dashLink.signals) THEN OnServiceRegistered(d) ELSE OnServiceUnregistered(d)

\* setCurrentScope(), in the GUI thread; then in the thread of the connection.
SetCurrentScope(index) ==
    /\ Len(dashLink.calls) < MostCalls
    /\ dashLink' = [dashLink EXCEPT !.calls = IF dashLink.created THEN Append(@, index) ELSE @]

ConnectionSetCurrentScope ==
    /\ dashLink.calls # <<>> /\ Len(dashLink.onBus) < MostCalls
    /\ dashLink' = [dashLink EXCEPT
         !.calls = Tail(@),
         !.onBus = IF dashLink.interface /\ dashLink.registered
                   THEN Append(@, Head(dashLink.calls)) ELSE @]

DashTakesCall ==
    /\ dashLink.onBus # <<>>
    /\ dashLink' = [dashLink EXCEPT !.onBus = Tail(@)]

DashLinkNext ==
    \/ WatchService
    \/ \E answers \in BOOLEAN : ConnectIfRegistered(answers)
    \/ DashComesOrGoes
    \/ NameSignalArrives
    \/ \E index \in 0..1 : SetCurrentScope(index)
    \/ ConnectionSetCurrentScope
    \/ DashTakesCall

DashLinkSpec == DashLinkInit /\ [][DashLinkNext]_dashLink

-----------------------------------------------------------------------------
(***************************************************************************)
(* The screens, of which the shell supports two: it takes the second one   *)
(* and shows a notice on the first.  notices are the secondary windows     *)
(* there are, of which the shell knows the last.  A window whose screen    *)
(* goes is moved to the first by Qt.                                        *)
(***************************************************************************)
Docked(v, list) ==
    [v EXCEPT !.shellView = list[2], !.deviceName = "desktop", !.secondary = TRUE,
              !.notices = Append(@, list[1])]

Starting(list) ==
    [list |-> list, shellView |-> Head(list), deviceName |-> "own", secondary |-> FALSE,
     notices |-> <<>>, asserted |-> TRUE, firstWent |-> FALSE]

ScreensInit ==
    \/ \E s \in Screens : screens = Starting(<<s>>)
    \/ \E s, t \in Screens : s # t /\ screens = Docked(Starting(<<s, t>>), <<s, t>>)

OnScreenAdded(s) ==
    LET list == Append(screens.list, s)
        v == [screens EXCEPT !.list = list]
    IN  /\ s \notin ToSet(screens.list) /\ Len(list) <= 2
        /\ Len(screens.notices) < MostNotices
        /\ screens' = IF Len(list) = 2 THEN Docked(v, list) ELSE v

\* Mutant of Undocked: the notice stays.
UndockedKeeping(v) == [v EXCEPT !.shellView = Head(v.list), !.deviceName = "own", !.secondary = FALSE]

\* delete m_secondaryWindow; the screen that goes is still in the list.
Undocked(v) ==
    [v EXCEPT !.shellView = Head(v.list), !.deviceName = "own", !.secondary = FALSE,
              !.notices = IF v.secondary THEN Front(@) ELSE @]

OnScreenAboutToBeRemoved(s) ==
    LET first == Head(screens.list)
        rest == Kept(screens.list, {i \in DOMAIN screens.list : screens.list[i] # s})
        mine == s = screens.shellView
        v == [screens EXCEPT !.asserted = @ /\ (mine => first # s /\ screens.secondary),
                             !.firstWent = @ \/ s = first]
        w == IF mine THEN Undocked(v) ELSE v
    IN  /\ Len(screens.list) = 2 /\ s \in ToSet(screens.list)
        /\ screens' = [w EXCEPT !.list = rest,
                                !.notices = [i \in DOMAIN @ |-> IF @[i] = s THEN Head(rest) ELSE @[i]]]

ScreensNext ==
    \/ \E s \in Screens : OnScreenAdded(s)
    \/ \E s \in Screens : OnScreenAboutToBeRemoved(s)

ScreensSpec == ScreensInit /\ [][ScreensNext]_screens

-----------------------------------------------------------------------------
(***************************************************************************)
(* Properties.                                                             *)
(***************************************************************************)
\* What was saved last for a window is what it gets when it comes back, after the
\* shell has ended too, if it was saved once at a time and SQLite did as it was told
\* (saveGeometry, executeAsyncQuery, the destructor).
GeometryKept ==
    \A window \in Windows :
        /\ window \notin storage.unsure
        /\ storage.open => \A q \in storage.queued : q.window # window
        => GeometryOf(window, NoGeometry) = storage.asked[window]

\* The dash can be called just when it is there, whenever it comes and goes while the
\* thread starts and later, once the bus has told (AbstractDBusServiceMonitor).
MonitorSeesService ==
    dashLink.thread = "up" /\ dashLink.signals = <<>> /\ dashLink.answered =>
        dashLink.interface = dashLink.registered

\* With two screens the shell is on a screen there is and its assertions hold; as
\* long as the first stays, just the first shows the notice (onScreenAdded,
\* onScreenAboutToBeRemoved).
ScreensServed ==
    /\ screens.asserted /\ screens.shellView \in ToSet(screens.list)
    /\ ~screens.firstWent =>
         screens.notices = IF Len(screens.list) = 2 THEN <<Head(screens.list)>> ELSE <<>>

==============================================================================
