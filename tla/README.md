# Unity 8: verification development

Unity 8 is the graphical shell of Ubuntu Touch and of the Unity 8 desktop: a QML
program with C++ plugins.  It runs as one process with one GUI thread (plus a few
pool threads), draws every application's windows, and talks to LightDM/PAM,
AccountsService, logind, the indicator services and the application manager.

This directory holds TLA+ models of the parts whose behaviour depends on the order
of events, the properties that make those parts correct, the TLC configurations
that check them on small instances, and TLAPS proofs of some of them for every
value of the constants.

## 1. Inventory

The order is by how much the rest of the shell depends on the component and by how
hard its behaviour is to test.

| component | state | operations | talks to | what is hard |
|---|---|---|---|---|
| **touch registry** (`libs/UbuntuGestures/TouchRegistry`, `Pool`, `CandidateInactivityTimer`) | a pool of touch infos (id, ended, ordered candidates with a state and a timer, watchers), the dispatch-loop flag | `update` (event filter), add/remove candidate, request ownership, add watcher, timer rejection, pruning on `destroyed()` | every gesture item, by `TouchOwnershipEvent` and `UnownedTouchEvent` sent synchronously | re-entrancy from handlers, arrival order, timers, destroyed items, slot reuse |
| **directional drag area** (`plugins/Ubuntu/Gestures/DirectionalDragArea`) | status WaitingForTouch/Undecided/Recognized, the followed touch, the active touches with start times | touch, unowned touch and ownership events, enable/disable, timers | registry; launcher, panel, stages and tutorial above it | composition window, losing a touch that is no longer the followed one |
| **touch gate and dispatcher** (`TouchGate`, `TouchDispatcher`) | stored events, ownership per touch; delivery status, emulated mouse touch | touch and ownership events, reset, target change | registry below, the application's surface item above | events held while ownership is pending, id reuse, several touches |
| **PAM conversations** (`plugins/IntegratedLightDM`) | the conversation's handle, its future, promised answers, threads; authenticated, authenticationUser | `start`, `respond`, `cancelPam`, `finishPam`, `handlePrompt`, D-Bus `SetActiveEntry` | PAM in a pool thread by blocking queued signals; `Greeter.qml` | nested event loop, cancelled threads, late prompts and results |
| **greeter view** (`qml/Greeter`) | current user, waiting, locked, shown, delay after failures | select, prompt, respond, complete, show, hide | PAM layer, AccountsService, shell | `waiting` disables the whole shell |
| **launcher model** (`plugins/Unity/Launcher`) | item list with pinned/recent/running/count | pin, unpin, move, refresh, application added/removed, D-Bus properties | GSettings, AccountsService, application manager, D-Bus | list merges from four sources |
| **AccountsService client** (`plugins/AccountsService`) | cached properties of one user | setters, asynchronous refresh, user change | D-Bus service | late replies, user switch |
| **session service** (`plugins/Unity/Session`) with the orientation lock | active flag, inhibitor, idle hint, screensaver timer, saved orientation | lock, prompt lock, logout requests, logind signals | logind, GSettings, shell | signals with and without values, replies under way |
| **indicators** (`plugins/Unity/Indicators`) | loaded indicators by directory, the sorted list, menu stacks, content activation, root states | directory scans, load, unload, activate content in waves, push and pop menus | file system, menu models of other processes | directory priority, timers, menus that reset while they are shown |
| **dash list view** (`plugins/Dash/listviewwithpageheader`) | the items created for a window of rows, one item requested, the header, the sections, estimates of the content | scrolling, model changes, items that expand, late items | delegate model, QML scopes | index arithmetic under insert and remove, items that arrive late |
| **dash layouts** (`plugins/Dash/abstractdashview` and three layouts) | the items in and around the part shown, where released rows were | refill, relayout, append, remove | delegate model | rows that come back must come back to their place |
| **window state storage** | queries under way, the database | save, read, destruction | thread pool, SQLite | two saves of a window at once |
| **home key watcher**, **input watcher**, **mouse-touch adaptor** | key, touch and timer flags; pressed touches of a target | event filters | Qt's event delivery | flags that only some events reset |
| **input info** (`plugins/Utils`, udev) | the devices listed | monitor, scan, add, remove | udev | a device both scanned and reported |
| **Utils models** | filters and limits over other models | the source's signals | QML views | signals translated for a shorter list |
| **dash link and screens** (`plugins/Unity/DashCommunicator`, `src/*Application`) | whether the dash is on the bus; the windows | start, call, screens that come and go | D-Bus, display server | the dash comes while the thread starts |
| **shell and stages** (`qml/Shell.qml`, `qml/Stages`, `qml/Rotation`) | shown greeter, focus, side stage, rotation | power key, calls, app focus, rotation | all of the above | bindings spread over files |
| others (cursor, shortcuts, lights, power, screen grabber, platform, payments, downloads, session broadcast, wizard, notifications) | little | one call each | devices or D-Bus | little |

### How the components interact

*Touch.* `QQuickWindow` delivers every `QTouchEvent` to items; the registry is an
event filter in front of it and sees the event first.  An item that sees a press
becomes a candidate (`addCandidateOwnerForTouch`, `requestTouchOwnership`); the
registry sends the touch's later points to undecided candidates and watchers, and
tells the candidates who owns it.  All of this is synchronous and re-entrant: an
item calls the registry from the handler of an event the registry sends it.

*Authentication.* `Greeter.qml` asks the plugin to authenticate; `GreeterImpl`
starts a PAM thread, which posts prompts and a result to the GUI thread; the answers
go back through promises.  Starting another conversation cancels the running one
inside a nested event loop.  D-Bus clients may select users at any time.

*Settings and state.* The launcher model, greeter and session share data only
through AccountsService, GSettings and D-Bus, each with a local cache.

*Lists.*  The dash's views show the rows of QML models through a delegate model that
makes items at once or hands them over later; each view keeps its own account of which
rows those items are, and corrects it with every signal of the model.

### What makes each part correct

- registry: one owner per touch, decided in arrival order; every candidate gets an
  answer; registry and items agree; no touch info is lost in the pool or leaks.
- touch gate: its target sees only owned touches, in order, as a well-formed stream;
  nothing is stored for ever.
- drag area: it owns what it drags, and stops when the finger leaves.
- PAM: an answer only reaches the conversation on screen; `isAuthenticated` speaks of
  the user it names; a handle is not freed under its thread; cancelling ends.
- greeter: input is taken away only while PAM is at work, and always given back.
- launcher: no duplicates, the stored list is the pinned items, in order.
- AccountsService: the cache shows the current user's last value.
- indicators: the panel lists what there are files of, once and in order; every menu gets
  its content; no menu stays open when the row it was entered through is gone.
- dash list view and layouts: what is shown is filled, with consecutive rows, each where it
  would be had nothing been scrolled away.
- models: a view that follows the signals shows the rows.
- session, devices, input: what was read before a change that was told is not kept.
- window storage: what was saved last is what is read, after a restart too.

The hard spots, line by line, are the `hazards` of `PROJECT.json`.

## 2. Plan

Modules are written in the order of what depends on them.

| step | modules | what they say | |
|---|---|---|---|
| 1 | `TouchRegistry` (+ `TouchRegistryProofs`) | who owns a touch; proofs for every set of items and touches | done |
| 2 | `PamGreeter` | PAM threads, nested `start()`, the greeter's input lock | done |
| 3 | `TouchGate`, `DragArea` | the registry's two users, against what it promises | done |
| 4 | `TouchOwnership` | what the registry promises; the registry implements it | checked; its steps proved |
| 5 | `LauncherModel`; `AccountsService`, `GreeterLauncher` | the launcher's list, and the greeter's copy of it beside the cache of a user's properties | done |
| 6 | `Indicators`, `IndicatorMenus`, `Session` | directory priority, activation in waves, menu stacks; logind's properties | done |
| 7 | `DashListView`, `DashViews`, `ProxyModels` | rows and items under insert, remove, scroll and late creation | done, but for what section 7 lists |
| 8 | `ShellServices`, `InputDevices` | window storage, dash link, screens; devices, home key, input watcher | done |
| 9 | greeter view (failed-login delay, locked app), stages, shell QML | what the process composes | left |

`MCShellParts` puts the parts of steps 6 to 8 that share nothing side by side for one run.

Proofs in the order of their worth: the registry's safety, that each of its steps is one of
`TouchOwnership`, and `ArrivalOrder`; the gate, the drag area and the greeter; the services
that follow something outside of the shell; the greeter's cache and its copy of the launcher's
list; the launcher's list itself, with what is stored and copied of it; the devices, the home
key and the watched target; the indicators and the search of the activator.  These are done
(section 6).

## 3. The modules and the code

`PROJECT.json` maps every definition to its lines.  An action is one handler that
the event loop, or an item, calls; what the handler does at its end (announce,
prune, free a slot) is part of it.

### TouchRegistry

| in the module | in the code |
|---|---|
| `slots`, `lastUsed` | `Pool<TouchInfo>::m_slots`, `m_lastUsedIndex` (one up, so 0 is an empty pool) |
| `connections` | the `destroyed()` connections of `addCandidateOwnerForTouch` and `requestTouchOwnership` |
| `inDispatchLoop`, `toDispatch` | `m_inDispatchLoop`, and the hash of what is left to deliver |
| `view` | what an item can know: the last thing it asked for or was told |
| `events` | the events the last step sent, synchronously |
| `PressTouch`, `UpdateTouches`, `DispatchPointsToItem`, `EndUpdate` | `update()`: the event filter, one turn of the dispatch loop at a time, because handlers run in between |
| `PressDelivered` | `QQuickWindow` has offered the press to everybody under it |
| `AddCandidateOwnerForTouch`, `RequestOwnershipOnPress`, `RequestTouchOwnership`, `RemoveCandidateOwnerForTouch`, `AddTouchWatcher` | the calls of the items, as they use them |
| `RejectCandidateOwnerForTouch` | the inactivity timer's slot |
| `DestroyItem` | `~QObject`: QPointers become null, then `pruneNullCandidatesForTouch` runs for the connections that are left |

Items call the registry in the middle of its dispatch loop, from the handlers of the
events it sends, and it is this re-entrancy that the model keeps: the loop is a
sequence of steps, and a request or removal may come between two of them.
An item sees a press once, an id is used again once nobody waits for an
answer about it (Mir numbers touches one after the other), and a destroyed item
is deleted from the event loop.

### PamGreeter

`conv` is the thread of each conversation (queued, running, blocked in a queued
signal, waiting for an answer, ended), `mailbox` the events posted to the GUI
thread, `futures` the promised answers, `cancelling` the stack of `start()` calls
that are processing events until their thread ends.  `ResumeStart` is the return
from `cancelPam()`, with the check for a nested start (`Bails`), which looks at the handle and
so misses one that has already ended; `overridden` is a history variable that says that an
outer start went on like this for another user.  `waiting`, `stage` and
`currentUser` are `Greeter.qml`'s; `Select` is all of `selectUser()`, through the
view's reset and the plugin's `authenticate()` to `start()`.  `RequestWithoutView`
is the same call when the view is not loaded: it throws half-way.

### TouchGate

`ownership` is `m_touchInfoMap`; `storedEvents` the events held back; `TouchEvent`
is `touchEvent()`; `TouchGained`/`TouchLost` the answer, which starts
`dispatchFullyOwnedEvents()`, whose turns are `DispatchFullyOwnedEvent` and
`DispatchDone`.  The dispatcher decides with the press whether the target gets
touches, a mouse or nothing; `SetTargetItem`, `TargetChanges`, `Disable` (which
resets) and `Enable` come between the events.  The registry's part, `pending` and
`gained`, is its promise: it answers each request once.

### DragArea

A touch event has three stages (`step`): the registry's filter sends the unowned
touches (`HearsRelease`, `HearsWrongMove`, `HearsDrag`, ...), then frees what has
ended and is owned or no longer wanted (`FilterDone`), then the window delivers presses and grabbed touches (`TouchEvent...`).
`claim`, `timed`, `watched` and `infos` are what the registry has of the area,
`grabbed` what the window will send it.  The rest of a touch's queue is open: other candidates
may keep an info of a touch that has ended until later (`FreedLater`), and the answer may come
with the release or after it (`Gains`, `LosesTouch`).  `activeTouches` carries only whether a touch
is recent, which is what the composition window asks.  A drag may be recognised at
any move: the geometry is left open, so the properties hold for every recogniser.

### LauncherModel

`mList` is `m_list`; `items` the stored setting, `mCachedItems` the list GSettings wrote
or forwarded last, and `notice` that QGSettings has a change to tell of (changes told
together count once).  `Move`, `PinKnown`, `PinNew`, `RequestRemove` and
`QuickListActionInvoked` are the user's, `CountVisibleChanged`, `CountChanged` and
`RefreshCalled` come over D-Bus, `ApplicationAdded`, `ApplicationRemoved` and
`FocusedAppIdChanged` from the application manager, `OnSettingsChanged` from QGSettings.
`Refreshed` is `refresh()`: the loop that drops (`Cleared`), then the loop that puts the
stored applications in front (`PlaceEntry` in each round), as recursive functions.  `asItems` is what the last `syncItems()` sent.  dconf,
the package manager and the application manager's rows are external: `SettingWritten`,
`DesktopFileComesOrGoes` and `apps`.  `Restart` ends the shell: the setting stays, the
list is built anew from it.

### AccountsService and GreeterLauncher

The greeter's process has two readers of AccountsService that change user together.
`AccountsService` is the cache: `cache` the members of `AccountsService`, `known` the
adaptor's interfaces, `ignoreNext` its flag.  `toDaemon` and `toClient` are the two
directions of the D-Bus connection, each in order.  `SetProperty` (a call that waits) and
`SetUser` (reads that wait) have the daemon answer everything sent before, while the
answers stay undelivered until the event loop runs.  `strayed` is a history variable: the
properties whose last applied answer was one for an earlier user; `CacheCatchesUp` excepts
them, so that the property is about everything else that could go wrong.
`GreeterLauncher` extends it with the list the greeter shows, `gList`, which its own
`PropertiesChanged`, `SelectUser` and `SetOnlyPinned` merge by `refresh()`: `Updated` is its first
loop, `placed` in `Refreshed` its second.  The lists
sessions write are what `LauncherModel`'s `SyncItems` sends: no application twice, which
is a part of `ItemsHaveReasons` there and an assumption here.

### TouchOwnership

What the registry promises, without pool, queues or dispatch loop: `belief` is what each
item has been told of each touch, `present` who lives.  An item comes to a touch (`Come`),
asks for it (`Ask`), gives it up (`GiveUp`), runs out of time (`TimeOut`) or leaves
(`Leave`); a touch that nobody undecided keeps from those who asked is settled in that same
step.  `TouchRegistry` maps its state by `BeliefOf` over `view`, and `ImplementsOwnership`
says that it implements the whole specification, `TimeOut`'s fairness included.  The
promise is weaker once an item has died: a touch may then be settled twice, or in favour of
an item that is gone, which `Reopen`, `Winners` and `Settled` say.  `TouchGate` and `DragArea` rely on the same promise.

### DashListView

The C++ object is the record `view`, and each of its methods an operator from a view to a
view, so that a handler calls what the code calls in its order: `Polish` is
`updatePolish()`, with `Refill`, `Layout` and `PolishContentHeight`; `ItemCreated`, `Resize`,
`ResizeHeader` and `ModelUpdated` (over `RowsRemoved` and `RowsInserted`) are the callbacks;
`Move`, `LetGo`, `ShowHeader`, `MaximizeVisibleArea`, `AnimationStep`, `PositionAtBeginning`
and `SetDelegate` what the user and QML do.  `view.rows` is the model and `view.jobs` what the
delegate model still makes; both are external, and so is `held`, the finger.  Once a frame
is due, at most `MaxEvents` events come before it.  `astray` is a history variable: the awaited
index was miscounted when several rows came at once (`InsertedAtAwaited`), and it ends when the
list awaits nothing or something that is being made.  Lengths are integers, averages are
rounded down, and an animation moves by one item's height at a time.

### DashViews

`AbstractDashView`'s `refill()`, requests, releases and late items, with the three layouts'
`findBottomModelIndexToAdd` (`NextBottom`), `findTopModelIndexToAdd` (`NextTop`), `addItemToView`,
`cleanupExistingItems` (`Emptied`) and `doRelayout` (`Relayout`); `dash.layout` picks one.  What a layout remembers of rows it has
released is kept as the code does, so that the property can ask whether a row returns to
its place.  `Disturbed` names the states from which the code is known to put rows
elsewhere (section 4).

### ProxyModels

`source` is `QVariantListModel`, `limit` and the signal handlers `QLimitProxyModelQML`.
`shownRows` is a view that knows nothing but the signals: it removes, inserts and reads
what it is told to.

### Indicators and IndicatorMenus

`indicators` holds the files on disk, the directory watchers' notices, what the manager has
loaded and the rows of `IndicatorsModel`; `LoadDir` is the manager's loop, from
`StartVerify` to `EndVerify`.  `activator` is `MenuContentActivator`: which menus have content, the
base of its search and the timer; `SearchNext` is a turn of the loop of
`findNextInactiveDelta()`, and `Search` as many turns as it can take, which is a theorem.  `menuStack` is `UnityMenuModelStack` with the rows it
hangs on; `rootState` both root states over one action of another process.

### Session

`session` has logind's `Active`, the signals on the wire, with the value or only the name of
what changed, the asynchronous read, the screensaver timer and the idle hint;
`orientation` the lock of `OrientationLock` with the orientation `OrientedShell` saves.

### InputDevices

`devices` is udev: plugged devices, monitor messages, the scan in its thread's steps, the
list and the rows QML has of it.  The scan takes nodes named like event devices
(`EventPaths`), the monitor every node but those named input (`InputPaths`), so a mouse0 is listed
only when it arrives later; the history fields `early` and `reported` say when a device
arrived.  A listed device has a number, as the code compares objects in one place and paths
in another.  `homeKey` has the key, the touches and the timer
in ticks; `watcher` the touches of one target at a time, made of a mouse or not.

### ShellServices

`storage` is `WindowStateStorage`: queries that the pool runs one at a time, as the mutex
has it, and in any order; `asked` and `unsure` are history fields.  `dashLink` is the connection's thread with the
service monitor; `screens` the windows of `ShellApplication`.

### MCShellParts

Fourteen parts that share no variable.  Their product would only multiply states, so a
behaviour is one of a single part: `part` picks it in the initial state and the others
keep one of their initial states.  Each property speaks of one or two parts.

## 4. What the runs check

| run | question | instance | result |
|---|---|---|---|
| `registry_safety` | who owns what, what everybody was told, is the pool searchable, who comes first | 2 items (one destroyable, one watcher), 2 touches, 3 slots | holds |
| `registry_liveness` | does the registry implement `TouchOwnership`, is everybody answered | 2 items (one destroyable), 2 touches, 2 slots | holds |
| `registry_null_candidate` | is there never a null candidate, as an assertion says | 2 items, 2 touches | violated |
| `greeter` | do answers, handles, users and the input lock stay consistent | 2 users, 2 handles, 2 prompts, 1 nested start | holds |
| `gate` | what the target is sent, and what is held back | 3 touches, 2 stored events | holds |
| `drag` | what the area claims, drags with and hears the end of | 3 touches | holds |
| `launcher` | what is listed, stored and copied, whoever changes it | 3 applications, 2 foreign lists | holds |
| `launcher_stored_not_pinned` | does `refresh()` pin what is stored, as its comment says | same | violated |
| `greeter_launcher` | what the greeter shows of a user, and what its cache holds, once all has arrived | 2 users, 2 properties, 4 messages | holds |
| `dash_list` | is every frame filled, with the rows in their order, and is the viewport still when rows come above it | 4 rows, one or two inserted at a time, 2 sections, a viewport of 2 rows | holds |
| `dash_list_order` | do the items follow each other as a comment says, whatever arrives late | 3 rows, one at a time, the same viewport | violated |
| `shell_parts` | does what each of fourteen parts shows or keeps follow its sources | each part's own bounds | holds |

What the properties are about is said where they are defined, at the end of each
module.  The violated ones state what a comment, an assertion or a test says of the
program; each is a finding in `PROJECT.json`:

- **A null candidate.**  `removeCandidateHelper` disconnects *all* connections of the
  item, so the destruction of an item that gave one touch up is not noticed for its
  other touches.  A null candidate that had asked for a touch even wins it: all others are
  told that they lost it, and nobody owns it (`TouchOwnership` allows for that, `Winners`).  One
  that had not decided is in front for good: its timer finds nobody to remove, and those behind
  it wait for ever, which is the exception of `EveryCandidateAnswered` (`NullAhead`).
- **A stored application that is not pinned.**  `refresh()` only moves the item of an
  application that is added to the setting while it runs.
- **A list with a row missing.**  `createItem()` refuses a late item that has no neighbour,
  but not if it is row 0's: a row inserted meanwhile just before the first created one is
  then missing between them, and every later index is one too low.

### Flaws met while modelling, without a run of their own

The models do what the code does in these cases, where they reach them, and the properties
of the passing runs are stated so that they hold beside them: the exceptions are named in
the property's comment, kept in a history field, or listed in `Disturbed`.

- *Drag area.*  On a loss it watches the touch it follows instead of the one it lost
  (`DirectionalDragArea.cpp:240`).  Losing does not stop a candidate's inactivity timer, whose
  second loss of an older touch can make the area name a touch that is gone, a `qFatal`.  The
  registry keeps the info of an ended touch as long as its queue has candidates and no owner
  (`TouchRegistry.cpp:154`): behind another area that is still undecided, one that has requested
  the touch drags on after the release, until another touch lands on it or it loses this one.
  A touch taken at once (`immediateRecognition`) may be lost with the event that releases it;
  the area begins to watch it too late, and never forgets it.
- *Greeter.*  An outer `start()` bails out, by its comment, if another one was called while it
  was cancelling (`GreeterPrivate.cpp:72-76`).  It looks at the handle only: if the nested
  conversation is already over it goes on for its own, older user, while `authenticationUser` is the
  newer one and may be authenticated.  `ConversationIsOne` holds after nested starts but for
  this one (`overridden`), and but for what clients are told of the user by the outer start, which
  tells them whether it bails out or not.  `d.waiting` is set before a call that throws while no view is
  loaded (`Greeter.qml:132`), and the shell stops taking input.
- *Dash list view.*  A culled row that is removed makes the viewport jump
  (`listviewwithpageheader.cpp:979`).  The loop that moves `m_asyncRequestedIndex` for inserted
  rows goes down (`:1047-1052`): of more rows at once than there are from the first of them
  to the awaited one it counts some only, and the list then waits for an item it does not recognise when it comes.
  `RequestIsRunning` excepts just these insertions (`astray`).  Several rows inserted within the
  created range are created in the wrong order (`:1018-1020`), and from three on `createItem()`
  may meet a null neighbour; behaviours end there (`StillInOrder`).
- *Dash layouts.*  A vertical journal may take rows back to another column, and a relayout
  may leave a hole; a horizontal journal uses a stale first-row record and the top row's
  height; a late item is taken although it does not continue what is shown;
  `m_asyncRequestedIndex` outlives `cleanupExistingItems()`; the implicit height is not
  computed again for rows appended out of sight.
- *Indicators.*  When of two files of one name the one in use goes, the indicator is lost; a
  file that is overwritten is not read again; an unloaded directory keeps its watcher; `stop()`
  has its test inverted (`menucontentactivator.cpp:111`); a new profile does not sort the list
  again; `load()` clears without signals.  `SharedUnityMenuModel` does not pass its setters on.
- *Session.*  A session that is not active when the shell starts never starts the timer.
- *Input.*  An event device that comes between monitoring and scanning is listed twice, and one
  of the two stays when it goes.  The scan lists nodes whose name contains event
  (`qinputdeviceinfo_linux.cpp:97`), the monitor all whose name does not contain input (`:207`):
  a mouse0 or js0 is listed when it is plugged in later, not when it was there at the start.  The input watcher and the home key watcher ignore
  `TouchCancel`; any key marks the home key as pressed (`HomeKeyWatcher.cpp:70`).
- *Services.*  The service monitor asks the session bus whatever bus it is made for.  When
  the first screen goes, the window that takes its place keeps the notice.

### Bounds, and why they are enough

*Registry.*  Ownership of a touch is decided between one head of the queue and those
behind it; two items per touch give every order of two arrivals, decisions, removals
and timeouts.  Two touches are needed for slots to be vacated out of order and for one item to
be in two queues, so that it can give one touch up and be destroyed with the other; with
`MaxSlots = 3` both ids can be in the pool again before the first infos are freed.  The run
with fairness has two slots: null candidates may hold both, and then no more touches land.
Three items, with somebody in the middle of a queue, are left to the theorems of section 6, which
need no bound.

*Greeter.*  Two handles are what the code can hold: the running conversation and the
one being cancelled.  `MaxNesting = 1` allows a start inside a start; deeper nesting
repeats it.  Two prompts are a password and a second factor.

*Gate.*  Three touches: one dispatched, one owned and stored, one undecided.
`MaxStored = 2` lets an event wait behind another; when the store is full an event
that would have to be stored does not happen, while those that are dispatched still do.

*Drag area.*  Three touches: the followed one, an older one, and one that lands to
spoil the composition.  What the rest of the registry does is not bounded: every answer it
may give is a choice in each state.

*Launcher.*  Three applications, one of them the dash, give every order of two items and
every merge of two lists of different order.  One of them can be uninstalled and shows an
emblem, which is where the reasons to keep an item overlap.  The foreign lists have both
orders, both forms of an entry and one nobody understands.

*Greeter launcher.*  Two users are an earlier and a new one; one property of each kind,
announced differently; two values tell a stale one.  Four messages are a change with its
two signals behind another one's, so that answers, signals and a user switch can overlap
in any order.  The session lists differ in order, pins and running state.

*Dash list view.*  Four rows, a viewport of two: rows are out of sight, above and
below, and with two sections and a row that doubles its height each border (of the viewport,
the cache, a section, the header of one or two rows' height) falls on and between rows.  The
list starts with two rows, so that insertion of one and of two rows at every index, the awaited
one's included, removal at every index and an empty list occur.  `MaxY` and `MaxMinY` bound how far
it is scrolled and how far its top drifts; one event before a frame that is due suffices for a late
item to meet a change of the model, as requests outlast frames.  `StillInOrder` ends a behaviour after
`dash_list_order`'s flaw, or several rows created in the wrong order.  `FewAtOnce` counts the rows
beyond the third together with an expanded row, the higher header and a running animation: of
these not more than fit are followed at once, and what leads there is still checked.
Rows of one section that do not expand are interchangeable.

*Shell parts.*  Layouts: four rows (eight in the organic grid, two more than a module), of
one or two columns, a part shown of two rows with a buffer of one, so that a row can be
released on either side and return.  Behaviours end after the first disturbed state, whose
successors are still checked.  Proxy: sources of up to four rows, limits on either side.
Indicators: four files, one name in two directories, two profiles that order them
differently; four menus give both sides of the search.  Menus: two, two rows, depth three.
Session: two messages under way, so that one overtakes a read.  Devices: two event devices, a mouse0 and an
input0: nodes that both filters let through, one that only the monitor's does and one that neither
does; three entries, which is one listed twice.  Storage: two windows, two geometries, two queries.  Dash link:
two calls or signals.  Screens: three, and three secondary windows.

Deadlock checking is off where the system may stop: nobody has to touch the screen or
log in; a pool full of null candidates takes no touch; a closed storage or a session without
logind does nothing more, and of the parts with messages the bounds stop some.  `Symmetry` is used in runs without liveness only;
`WithoutEvents` drops a variable no action reads, and the action property is still
evaluated on every step.

## 5. Fairness

- The event loop finishes what it starts: weak fairness of the turns of the dispatch
  loop, of `EndUpdate`, `PressDelivered`, of the gate's loop, of `HandleEvent` and of
  the end of an animation.
- Timers are served on each pass of the loop, so a stream of touch updates cannot starve
  one: strong fairness of `RejectCandidateOwnerForTouch`.
- Threads of the pool and PAM make progress (weak fairness of `ThreadStep`); a PAM module
  that hangs for ever is outside the model, and would hang the nested event loop.
- The gate assumes that the registry answers (strong fairness of the answers), which is
  what `EveryCandidateAnswered` shows of the registry, unless a null candidate is in front
  (section 4): `TouchForgotten` is a promise for touches without one.
- `TouchOwnership` promises that whoever keeps the others waiting runs out of time (weak
  fairness of `TimeOut`); the registry keeps that by the strong fairness of its timer.
- No user, client or device ever has to act.  `InputReturns` therefore excepts clients
  that select users again and again, which starts the conversation over each time.

## 6. What is proved

The theorems hold for every value of the constants that satisfies the assumptions their
modules declare: any set of items, touches, users, handles, windows and screens, any number
of slots, stored events, prompts, nested calls, queries and signals.  The bounds of section 4
are the runs' only.  The assumptions say that a null (`NoItem`, `NoTouch`, `NoHandle`,
`NoUser`) is not one of the real ones, that bounds are numbers, and for the drag area that
the touches are finitely many, for the AccountsService cache that its built-in properties are, for
the indicators that files and directories are and that directories are numbered by their
priority, for the dash list that its first rows are all different and that the header has a
height, and that no list a session sends names an application twice (section 3), nor one that is written to
the launcher's setting (section 7).

| theorem | says |
|---|---|
| **`TouchRegistryProofs`** | |
| `TypeCorrect` | `TypeOK` is an invariant |
| `PoolStaysTight` | `PoolTight`: no info is lost in the pool, an id is held twice only while the update lasts that brings its second touch |
| `OwnershipInvariant` | the inductive invariant `PoolInv /\ OwnershipInv` |
| `OwnershipIsExclusive` | `ExclusiveOwnership`: two items never both believe they own a touch |
| `NobodyForgotten` | `NoCandidateForgotten`: who waits is queued and found, for an unowned touch |
| `QueueKnowsOutcome` | `OutcomeKnown`: the registry and the items agree on the outcome |
| `QueuesKeepTheirOrder` | the inductive invariant `LivingInv /\ ArrivalInv`: queues hold living items in the order in which they came |
| `FirstComesFirst` | `ArrivalOrder`: an item gains a touch only when no earlier one is left |
| `StepsImplementOwnership` | every step is one of `TouchOwnership`, or none |
| **`TouchGateProofs`** | |
| `GateHoldsBackRightly` | `HeldBackRightly`: only owned touches pass, nothing is left out or held without need |
| `StreamStaysWellFormed` | `StreamWellFormed`: the target sees a stream as a window delivers it |
| **`ItemProofs`** | |
| `RequestIsAlwaysRunning` | `RequestIsRunning`: the dash list waits for an item that nobody makes only after a miscounted insertion of several rows |
| `DragEntitled` | `DragIsEntitled`: the drag area drags with a touch that is its own or promised, and to its end, unless it still waits for its request then |
| `EndHeard` | `EndIsHeard`: it hears of the end of every active touch, but for those its comment names |
| **`PamGreeterProofs`** | |
| `OneConversation` | `ConversationIsOne`: answers, outcome and waiting are of one conversation, at any depth of nested starts, but for an outer one that goes on for an older user |
| `AnswersStay` | `AnswersStayInConversation` |
| `HandleOutlives` | `HandleOutlivesThread`: no handle is freed under its thread |
| **`GreeterLauncherProofs`** | |
| `CacheIsCurrent` | `CacheCatchesUp`: the cache has what the daemon keeps, once nothing is under way |
| `GreeterFollowsSession` | `GreeterShowsSentItems`: the greeter lists what its user's session sent |
| **`LauncherProofs`** | |
| `ItemsAlwaysHaveReasons` | `ItemsHaveReasons`: no application has two items, every running one has one, and no item is there without a reason |
| `AccountsAlwaysKnowsThePins` | `AccountsKnowsThePins`: AccountsService was sent the pinned items in their order |
| `PinsAlwaysChangeWithTheSetting` | `PinsChangeWithTheSetting`: pins change together with the setting |
| `RefreshAlwaysOrdersTheList` | `RefreshOrdersTheList`: `refresh()` puts the stored list in front, in its order |
| **`ShellPartsProofs`** | |
| `GeometryComesBack` | `GeometryKept`: what was saved last is what is read |
| `DashIsSeen` | `MonitorSeesService`: the dash can be called just when it is there |
| `EveryScreenServed` | `ScreensServed`: the shell is on a screen there is |
| `SessionIsFollowed` | `SessionFollowed`: the session's state and the orientation are those outside |
| `MenusStayCurrent` | `ShownMenusAreCurrent`: menus on the stack are of rows that exist |
| `ViewShowsTheProxy` | `ViewFollowsProxy`: a view that applies the limit proxy's signals has the proxy's rows |
| `DevicesAreListedAlways` | `DevicesAreListed`: QML lists the devices the two filters let through, whatever comes and goes during the scan |
| `InputIsReadAlways` | `InputIsRead`: the home key is tapped, and a target pressed, only by what the user does |
| `IndicatorsFollowFilesAlways` | `IndicatorsFollowFiles`: the panel lists the indicators there are files of, each once |
| `IndicatorsStaySortedAlways` | `IndicatorsStaySorted`: a sorted list of indicators stays sorted |
| `NoMenuIsLeftOut` | `NoMenuLeftOut`: the activator takes a nearest menu, and ends when there is none; its search ends (`SearchIsOver`) |

None of the properties is inductive by itself, or it became so by what was added to it.  The
invariants the proofs are built on are stated in the components' modules where a property
needs them, and in the proof modules otherwise.

*Registry: the pool.*  `PoolInv` distinguishes the *stale* infos, those an earlier touch with
the same id left behind, from the *current* ones: there is one current info per id, stale
ones are owned or empty and exist in the dispatch loop only, and at that time nobody believes
anything of the id.  So whatever id an item names, the search finds the current info
(`FoundIsCurrent`).

*Registry: ownership.*  `Agree(v, info)` relates one queue to what the items believe: a queued
item is queued once and believes what it asked for, or knows the outcome; who waits is queued;
who owns is the head.  `ExclusiveOwnership` alone says nothing of why the *next* head may be
told of a gain: that needs "whoever believes to be the owner is at the head", which survives a
removal because an owner never gives a touch up and an item that is destroyed forgets what
it had.  `AllUndecided` says that nobody has decided while the press is being delivered,
which is why a late-coming interim owner at the head is really the first.  The lemmas
`AgreeWith`, `AgreeDeciding`, `AgreeWithout`, `AgreeOrphaned` and `AgreePruned` are one
each for the ways a queue changes, `OneTouch` lifts a change of one touch to the whole
state, and there is one lemma per call.

*Registry: the refinement.*  What `TouchOwnership` allows depends on who is alive, so
`LivingInv` says that a queue has dead candidates only once an item has been destroyed, and
that until then everybody in the queue of an unowned touch believes what he asked for
(`AsAsked`).  A call about one touch is a `Call`: it changes one queue (`With`, `Without`,
`Deciding`) and the beliefs about that touch, and then resolves it or not.  `Answered` shows
that a resolution is one of the `Outcomes`, `NothingToSettle` that without one nothing
had to be settled; `OutcomeCall` puts them together, `ArrivalCall` and `HeadCameFirst` give
the order of arrival for the same calls.  One lemma per action then says what it `Proceeds`
as.  The attempt found a case nobody had listed: a candidate that is null but had asked may
win (section 4), which `TouchOwnership` had not allowed.

*Gate.*  `Inv` says of the stored events what a window's events would say: each goes on where
those before it stopped (`StoredGoOn`), starting from what has been dispatched.  It splits at
any position, which is what dispatching the oldest (`DispatchFullyOwnedEvent`) and dropping a
lost touch from all of them (`TouchLost`) need.  With the map true to the registry
(`MapFollowsRegistry`) it gives `HeldBackRightly`, with `TargetKnowsAll` the stream.

*Drag area.*  `DragIsEntitled` is inductive together with `EndIsHeard`: the end of a touch
reaches the area by the registry when it is a candidate or a watcher, and by the window when
it has the grab, and the three stages of an event hand over from one to the other
(`ReleaseReaches`, `EndIsOnItsWay`).  A touch for which the registry may still answer when it
has ended is in `dropped` from the step on that ends its event, if the area had requested it and
the window does not send it its release.

*The list of the dash.*  `RequestIsRunning` speaks of the states between frames only, and it is
not inductive: another delegate takes every request away and leaves the index of the awaited row
as it was.  `GoodList` says what is then true: nothing is created, the list starts at its top,
nothing moves it away and a frame is due (`NothingCreated`), and that frame creates row 0 at
once, which forgets the awaited row (`ListIsPolished`).  Otherwise the request runs, or it was miscounted and nothing
has repaired that (`RequestRuns`).  With it goes `SoundList`: the rows are there once, what is being made is of
rows of the model, the index is one of theirs or none, and the first visible index is -1 just
when there is no item.  Most of what the list does changes lengths only, and `Moves`
and `Stays` say so of each method, from the header's step up to a whole frame; `Asks` and
`Creates` say what creating does, in a loop whose rounds are `CreateNext`.  What are
left are the changes of the model.  `RowsAreRemoved` and `RowsAreInserted` show that the index
still names the row it named before; rows that come together get their items in a loop
(`RowGetsItem`, `RowsGetItems`), which may run into the awaited row, and the count goes
wrong for exactly the insertions that `InsertedAtAwaited` describes (`InsertIsGood`).

*Greeter.*  `ConversationIsOne` is inductive: `HandlesInUse` says what every frame of
`start()` and the handle refer to, `MessagesAreTrue` that a message in the event queue is of a
thread that waits for it.  A prompt of a cancelled conversation is the hard case: its thread
is still blocked, and its handle is not `pamHandle`, nor can it become so before the thread ends.
The clauses about the user hold after nested starts because each sets `authenticationUser` before
it cancels: only an outer one that goes on can be for another user, which `overridden` records.

*Services.*  Each follows a source by messages in order, and its invariant is about the
queue: what is last on the way is what holds outside (`RowsFollow`, `SignalsAreTrue`,
`WireIsTrue`), and before the watch nothing is on the way.  `StackInv` says of a menu stack that each
entry's row is where the entry believes it is, whatever rows were inserted and removed.
For the limit proxy there is one lemma per handler: each shows that the spans it announces,
applied in their order to the rows below the limit before, give those below the limit
after (`Shows`); a removal that lets rows move up from behind the limit, and an insertion that pushes
rows out, announce two.

*The greeter's user data.*  `CacheInv` speaks of every position of the queue to the client.  The
two signals of a custom property are neighbours in it (`Paired`), so the flag that skips the
second one skips no other (`Notice` says which signals count).  An answer in the queue is what is
stored, or a notice of that property comes behind it (`RepliesTrue`), and a property of the cache is
right, asked for, or on its way (`CatchingUp`).  The queue changes in two ways only, and
`GrowsTrue`, `GrowsComing`, `ShrinksTrue` and `ShrinksComing` carry the three parts over them; a
write changes what is stored and appends its notice in one step (`WriteAnnounced`).  For the
launcher `ShowsInv` adds that its list is what is to be shown, or a signal is on its way.  That
`refresh()` gets there is a loop invariant, `Placed`: after the i-th round the first i places
are the first i items to be shown, no application is there twice, and everything behind is still to
be placed.  It holds whatever was listed before, which is why switching users is safe.

*The launcher.*  `LauncherInv` strengthens `ItemsHaveReasons` in two places.  An item that is
recent and not pinned runs: hiding an emblem keeps an item that is recent, and
`applicationRemoved()` leaves the flag set on a pinned one, so `NoItemWithoutReason` depends on
nobody unpinning an item that has stopped and leaving it in the list.  The setting names no
application twice (`GoodSetting`; assumed of what others write, shown of what the launcher
writes): the second loop of `refresh()` would otherwise pull an item
out of the part that is done.  A handler that changes one item, adds one or takes one out is an instance of
one lemma about such changes; `refresh()` needs a loop invariant for each loop.  `Clearing` says
what is left when some of the unwanted are unpinned; `Fronted` divides the list after a
round of the second loop into a front, which is the stored applications met so far in
their order, and a back, which has the rest in the order they had.  At the end of the
loop the front and the back together have exactly the ids of `RefreshReference`: two
sequences without repetitions that have the same entries in the same order are one
(`PicksIsKept`).  `AccountsKnowsThePins` is `Mirrors`: the copy is, position by position, the list.

*Indicators.*  What the panel shows depends on files that change behind its back, so
`PanelFollows` allows for a notice that is still to come: data is of a file that is there or its
directory is to be read again, and a file that is the only one of its name is in the data or its
directory is to be read again.  `PanelOK` adds that the rows are those of the data, each once.
`LoadDir` takes a panel of which nothing is known of that directory to one that agrees
with it, and leaves what came from another directory (`DirIn`); that is a loop over the files
(`FilesIn`) between marking and sweeping (`VerifyStarted`, `EndVerifyEnds`), itself in a loop over the
directories (`DirsIn`).  For the order, `RowFor` is shown to be behind exactly the rows of a
higher position only if the list is in order, which is why the theorem has that premise.

*The activator's search.*  Offsets have an order, 0, 1, -1, 2, -2 and so on, and a turn goes
up in it, by one or, over a side that has come to its end, by two; so what it has passed has
content or is out of range (`SearchGood`).  That gives the nearest one.  That the search ends
is `SearchGoesOn`: after i turns it is at the i-th offset at least, and beyond the number of menus
both ends are reached in two turns.  The code starts at the offset it found last, not at 0, so
the invariant of the activator is that nothing before that offset is left out while the timer
runs (`ActivatorGood`).

*Devices and input.*  `DevicesInv` says of each path that the last of udev's messages about it is
true of what is plugged (`LastIsTrue`), and that without one the list is right (`Settled`).  A device that was
scanned and reported is in the list twice and the removal loop, which goes on behind the row
it took, leaves one: that takes an event device with a message from before the scan
(`FirstIsNew`, `Alternate`), and the invariant says that such a one is in `early`.  The scan, the removal and the
placing of rows are loop invariants.

*Lists.*  `SelectSeq` takes an operator, about which the provers find no fact, so the loops
that leave entries of a list out are `Selection`'s `Kept`, with a set of positions for the
test; `SelectionProofs` proves what it returns by induction over the length, written out as
a least counterexample (`LeastOf`).  A loop that changes a list in each round is a recursive
function, which `LoopRuns` shows to exist; what a move or an insertion does to a list are
`ElementMoved` and `ElementInserted`, `OneMore`, `OneLess` and `Pulled` carry a selection
over them, and `Picks` describes one by its order alone.

### Only model-checked

- Everything under fairness: `EveryCandidateAnswered`, `TouchForgotten`, `InputReturns`,
  `CancelledThreadEnds`, and the fairness half of `ImplementsOwnership` (that the registry's
  timer gives `TimeOut` weak fairness): the prover handles neither `ENABLED` nor the rules of
  fairness.
- `DashViews`, which is recursive as the code's loops are: recursive operators are out of the
  prover's reach, and that they fill a page is induction over data.  So `DashPageFilled` and
  `RowsStayHome` stay with TLC.
- Of `DashListView`, the three properties of its steps (`OrderIsKept`, `ViewportStaysFilled` and
  `InsertKeepsViewport`).  They speak of where items are, and so need that items stay one below
  the other through every estimate of the content; the theorem about requests does not.

## 7. What is not modelled

Coordinates, velocities and the geometry of gestures; kinds of emulated mouse events;
rendering, animation curves and layout; message texts; pure D-Bus pass-throughs and
device wrappers (each listed in `PROJECT.json` with its reason).  Shell, stages, panel and
the other QML are bindings and view state machines around Qt Mir's surfaces and application
manager, which are not in the repository: a model of them would be mostly external.
`TouchCancel` carries no touch points and ends no info.  In the drag area, two cases are excepted from
`EndIsHeard` and named in its comment: touches the area had, or had requested, when it was
disabled, and a touch it loses while it follows another.

In the launcher: counts, progress and alerting, the index a drag started with, names and
icons.  A stored list names an application once: with duplicates `refresh()` would move an
item past the end of the list.  That `GSettings` swallows a change back to the list it
knows, and any change to an empty list after a start, is in the model; no property says
that a change always reaches the launcher, because it does not.  In the AccountsService
client: failed reads and the conversions of single properties.

In the dash list view: a change of model or header while rows are shown (lines 1124-1148),
several rows created in the wrong order beyond the step that does it (1018-1020), moved rows, a
section that is named twice, and the clip of an item that is not there (595-596).  In the
layouts: moved rows, width changes of single rows, and the relayout of the organic grid when rows
are appended (the property holds without it).

In the PAM layer: the conversation function deletes its data after the first round
(`GreeterPrivate.cpp:182`), so a module that asks in several rounds reads freed memory; the
model has one round.  In the greeter view: failed logins are
counted by incrementing a cached value (`Greeter.qml:406`), and the delay and factory reset
that follow are not modelled.  The gate's ids do not come back while it holds a touch's end
back (`TouchGate.cpp:62`): Mir numbers touches one after the other.  The launcher's drag uses
an index taken when it began (`LauncherPanel.qml:334`); views are not modelled.

In the indicators: parsing of files and states, bus names of shared menu models.  In the
session: one-line forwards to logind and its `Can...` queries.  In the devices: what a
device is capable of, and the destruction of a watched target, which goes together with its
watcher in `SurfaceContainer.qml`.  In the screens: a third one, and the last one going.
