-------------------------- MODULE ShellPartsProofs --------------------------
(***************************************************************************)
(* Theorems about the services of the shell's process that follow          *)
(* something outside of it: the geometries in the database, the dash on    *)
(* the bus, the screens, logind and the rotation lock, the rows of menus   *)
(* and of lists, the input devices and the home key, the indicators of the *)
(* panel and the contents of their menus.  They hold for any number of     *)
(* windows, screens, saves, calls, signals, rows, devices, files and menus.*)
(***************************************************************************)
EXTENDS ShellServices, Session, IndicatorMenus, ProxyModels, InputDevices, Indicators,
        SelectionProofs, FiniteSetTheorems

-----------------------------------------------------------------------------
\* A queue from which the first is taken ends as before.
LEMMA TailEnds ==
    ASSUME NEW A, NEW s \in Seq(A), s # <<>>
    PROVE  /\ Tail(s) = <<>> => s[Len(s)] = Head(s)
           /\ Tail(s) # <<>> => Tail(s)[Len(Tail(s))] = s[Len(s)]
<1>1. PICK t : t = Tail(s)
  OBVIOUS
<1>2. /\ Head(s) = s[1] /\ t \in Seq(A) /\ Len(s) \in Nat /\ Len(s) # 0
      /\ Len(t) = Len(s) - 1 /\ \A k \in 1..Len(t) : t[k] = s[k + 1]
  BY <1>1, SequenceDomain, SequenceTail, HeadTailProperties
<1>3. Len(t) \in Nat /\ (t # <<>> <=> Len(t) # 0)
  BY <1>2, SequenceDomain
<1>4. CASE t = <<>>
  BY <1>1, <1>2, <1>3, <1>4
<1>5. CASE t # <<>>
  <2>1. Len(t) \in 1..Len(t) /\ Len(t) + 1 = Len(s)
    BY <1>2, <1>3, <1>5
  <2> QED
    BY <1>1, <1>2, <1>5, <2>1
<1> QED
  BY <1>1, <1>4, <1>5

(***************************************************************************)
(* WindowStateStorage.                                                     *)
(***************************************************************************)
StoredRows == [Windows -> Geometries \cup {NoGeometry}]
Queries == [window : Windows, rect : Geometries, n : Nat]

StorageTypeOK ==
    storage \in [open : BOOLEAN, rows : StoredRows, queued : SUBSET Queries,
                 asyncQueries : SUBSET Queries, asked : StoredRows, unsure : SUBSET Windows]

\* The destructor has known of every save.
NoneLeftBehind ==
    /\ storage.open => storage.queued \subseteq storage.asyncQueries
    /\ ~storage.open => storage.queued = {}

\* A window that is saved once at a time has one query, for what it asked.
OneQuery ==
    \A q \in storage.queued : q.window \notin storage.unsure =>
        /\ q.rect = storage.asked[q.window]
        /\ \A p \in storage.queued : p.window = q.window => p = q

RowsFollow ==
    \A w \in Windows :
        /\ w \notin storage.unsure
        /\ \A q \in storage.queued : q.window # w
        => storage.rows[w] = storage.asked[w]

StorageInv == StorageTypeOK /\ NoneLeftBehind /\ OneQuery /\ RowsFollow

LEMMA StorageStarts == StorageInit => StorageInv
  BY DEF StorageInit, StorageInv, StorageTypeOK, NoneLeftBehind, OneQuery, RowsFollow, StoredRows

LEMMA SaveGeometryKeeps ==
    ASSUME StorageInv, NEW window \in Windows, NEW rect \in Geometries,
           SaveGeometry(window, rect)
    PROVE  StorageInv'
<1>1. PICK n \in 1..MostQueries :
          LET q == [window |-> window, rect |-> rect, n |-> n] IN
          /\ storage.open
          /\ \A p \in storage.queued \cup storage.asyncQueries : p.n # n
          /\ storage' = [storage EXCEPT
               !.asked[window] = rect,
               !.queued = @ \cup {q},
               !.asyncQueries = Remembered(@, q),
               !.unsure = IF \E p \in storage.queued : p.window = window THEN @ \cup {window} ELSE @]
  BY DEF SaveGeometry
<1> DEFINE q == [window |-> window, rect |-> rect, n |-> n]
<1>2. q \in Queries /\ q.window = window /\ q.rect = rect
  BY DEF Queries
<1>3. /\ StorageTypeOK' /\ storage'.open /\ storage'.rows = storage.rows
      /\ storage'.asked = [storage.asked EXCEPT ![window] = rect]
      /\ storage'.queued = storage.queued \cup {q}
      /\ storage'.asyncQueries = storage.asyncQueries \cup {q}
      /\ storage'.unsure = IF \E p \in storage.queued : p.window = window
                           THEN storage.unsure \cup {window} ELSE storage.unsure
  BY <1>1, <1>2 DEF StorageInv, StorageTypeOK, StoredRows, Remembered
<1> HIDE DEF q
<1>4. storage.queued \subseteq Queries /\ storage.asked \in StoredRows
  BY DEF StorageInv, StorageTypeOK
<1>5. NoneLeftBehind'
  BY <1>1, <1>3 DEF StorageInv, NoneLeftBehind
<1>6. OneQuery'
  BY <1>2, <1>3, <1>4 DEF StorageInv, OneQuery, StoredRows, Queries
<1>7. RowsFollow'
  BY <1>2, <1>3, <1>4 DEF StorageInv, RowsFollow, StoredRows
<1> QED
  BY <1>3, <1>5, <1>6, <1>7 DEF StorageInv

LEMMA ExecuteAsyncQueryKeeps ==
    ASSUME StorageInv, NEW q \in storage.queued, NEW ok \in BOOLEAN, ExecuteAsyncQuery(q, ok)
    PROVE  StorageInv'
<1>1. /\ q \in Queries /\ q.window \in Windows /\ q.rect \in Geometries
      /\ storage.open /\ storage.queued \subseteq Queries
  BY DEF StorageInv, StorageTypeOK, NoneLeftBehind, Queries
<1>2. /\ StorageTypeOK' /\ storage'.open
      /\ storage'.asked = storage.asked /\ storage'.asyncQueries = storage.asyncQueries
      /\ storage'.queued = storage.queued \ {q}
      /\ storage'.rows = [storage.rows EXCEPT ![q.window] = IF ok THEN q.rect ELSE @]
      /\ storage'.unsure = IF ok THEN storage.unsure ELSE storage.unsure \cup {q.window}
  BY <1>1 DEF StorageInv, StorageTypeOK, ExecuteAsyncQuery, StoredRows
<1>3. storage.rows \in StoredRows
  BY DEF StorageInv, StorageTypeOK
<1>4. NoneLeftBehind'
  BY <1>2 DEF StorageInv, NoneLeftBehind
<1>5. OneQuery'
  BY <1>2 DEF StorageInv, OneQuery
<1>6. RowsFollow'
  BY <1>1, <1>2, <1>3 DEF StorageInv, OneQuery, RowsFollow, StoredRows
<1> QED
  BY <1>2, <1>4, <1>5, <1>6 DEF StorageInv

LEMMA StorageKept == StorageInv /\ [StorageNext]_storage => StorageInv'
<1> SUFFICES ASSUME StorageInv, [StorageNext]_storage PROVE StorageInv'
  OBVIOUS
<1>1. CASE storage' = storage
  BY <1>1 DEF StorageInv, StorageTypeOK, NoneLeftBehind, OneQuery, RowsFollow
<1>2. CASE \E window \in Windows, rect \in Geometries : SaveGeometry(window, rect)
  BY <1>2, SaveGeometryKeeps
<1>3. CASE \E q \in storage.queued, ok \in BOOLEAN : ExecuteAsyncQuery(q, ok)
  BY <1>3, ExecuteAsyncQueryKeeps
<1>4. CASE \E q \in storage.asyncQueries : QueryFinished(q)
  BY <1>4 DEF QueryFinished, StorageInv, StorageTypeOK, NoneLeftBehind, OneQuery, RowsFollow
<1>5. CASE CloseStorage
  BY <1>5 DEF CloseStorage, StorageInv, StorageTypeOK, NoneLeftBehind, OneQuery, RowsFollow
<1> QED
  BY <1>1, <1>2, <1>3, <1>4, <1>5 DEF StorageNext

\* A window gets back what was saved last for it, also after the shell has ended,
\* if it was saved once at a time and SQLite did not fail: the destructor waits for
\* every query (saveGeometry(), executeAsyncQuery(), ~WindowStateStorage()).
THEOREM GeometryComesBack == StorageSpec => []GeometryKept
<1>1. StorageInv => GeometryKept
  BY DEF StorageInv, NoneLeftBehind, RowsFollow, GeometryKept, GeometryOf
<1> QED
  BY <1>1, StorageStarts, StorageKept, PTL DEF StorageSpec

-----------------------------------------------------------------------------
(***************************************************************************)
(* DashCommunicator and the monitor of its thread.                         *)
(***************************************************************************)
DashLinkTypeOK ==
    dashLink \in [registered : BOOLEAN, thread : {"starting", "watching", "up"},
                  signals : Seq(BOOLEAN), answered : BOOLEAN, interface : BOOLEAN,
                  created : BOOLEAN, calls : Seq(0..1), onBus : Seq(0..1)]

\* The signals on their way end with what holds of the dash.
SignalsAreTrue ==
    dashLink.signals # <<>> => dashLink.signals[Len(dashLink.signals)] = dashLink.registered

NotCalledYet ==
    /\ dashLink.thread = "starting" => dashLink.signals = <<>>
    /\ dashLink.thread # "up" => ~dashLink.interface

DashLinkInv == DashLinkTypeOK /\ SignalsAreTrue /\ NotCalledYet /\ MonitorSeesService

USE DEF DashLinkInv

LEMMA DashLinkStarts == DashLinkInit => DashLinkInv
  BY DEF DashLinkInit, DashLinkTypeOK, SignalsAreTrue, NotCalledYet, MonitorSeesService

LEMMA DashComesOrGoesKeeps ==
    ASSUME DashLinkInv, DashComesOrGoes
    PROVE  DashLinkInv'
<1>1. /\ dashLink.signals \in Seq(BOOLEAN) /\ dashLink.registered \in BOOLEAN
      /\ dashLink'.signals = NameSignals
      /\ dashLink'.registered = ~dashLink.registered
      /\ dashLink'.thread = dashLink.thread /\ dashLink'.answered = dashLink.answered
      /\ dashLink'.interface = dashLink.interface
  BY DEF DashComesOrGoes, DashLinkTypeOK
<1>2. /\ Append(dashLink.signals, ~dashLink.registered) \in Seq(BOOLEAN)
      /\ Append(dashLink.signals, ~dashLink.registered) # <<>>
      /\ LET s == Append(dashLink.signals, ~dashLink.registered) IN s[Len(s)] = ~dashLink.registered
  BY <1>1, SequenceAppended, SequenceDomain
<1>3. NameSignals \in Seq(BOOLEAN)
  BY <1>1, <1>2 DEF NameSignals
<1>4. <<>> \in Seq(0..1)
  OBVIOUS
<1>5. DashLinkTypeOK'
  BY <1>3, <1>4 DEF DashLinkTypeOK, DashComesOrGoes
<1>6. SignalsAreTrue' /\ NotCalledYet' /\ MonitorSeesService'
  BY <1>1, <1>2 DEF NameSignals, SignalsAreTrue, NotCalledYet, MonitorSeesService
<1> QED
  BY <1>5, <1>6

LEMMA NameSignalArrivesKeeps ==
    ASSUME DashLinkInv, NameSignalArrives
    PROVE  DashLinkInv'
<1> DEFINE s == dashLink.signals
<1>1. s \in Seq(BOOLEAN) /\ s # <<>> /\ dashLink.registered \in BOOLEAN
  BY DEF NameSignalArrives, DashLinkTypeOK
<1>2. /\ Head(s) = s[1] /\ Head(s) \in BOOLEAN /\ Tail(s) \in Seq(BOOLEAN)
      /\ Tail(s) = <<>> => s[Len(s)] = Head(s)
      /\ Tail(s) # <<>> => Tail(s)[Len(Tail(s))] = s[Len(s)]
  BY <1>1, TailEnds, SequenceTail
<1>3. /\ dashLink'.signals = Tail(s) /\ dashLink'.registered = dashLink.registered
      /\ dashLink'.thread = "up" /\ dashLink'.interface = Head(s)
  BY <1>1, <1>2 DEF NameSignalArrives, OnServiceRegistered, OnServiceUnregistered, DashLinkTypeOK
<1>4. DashLinkTypeOK'
  BY <1>1, <1>2 DEF NameSignalArrives, OnServiceRegistered, OnServiceUnregistered, DashLinkTypeOK
<1> HIDE DEF s
<1>5. SignalsAreTrue' /\ NotCalledYet' /\ MonitorSeesService'
  BY <1>1, <1>2, <1>3 DEF s, SignalsAreTrue, NotCalledYet, MonitorSeesService
<1> QED
  BY <1>4, <1>5

LEMMA CallsKeep ==
    ASSUME DashLinkInv, NEW index \in 0..1,
           SetCurrentScope(index) \/ ConnectionSetCurrentScope \/ DashTakesCall
    PROVE  DashLinkInv'
<1>1. dashLink.calls \in Seq(0..1) /\ dashLink.onBus \in Seq(0..1)
  BY DEF DashLinkTypeOK
<1>2. CASE SetCurrentScope(index)
  <2>1. Append(dashLink.calls, index) \in Seq(0..1)
    BY <1>1, SequenceAppended
  <2> QED
    BY <1>2, <2>1 DEF SetCurrentScope, DashLinkTypeOK, SignalsAreTrue, NotCalledYet,
                      MonitorSeesService
<1>3. CASE ConnectionSetCurrentScope
  <2>1. dashLink.calls # <<>>
    BY <1>3 DEF ConnectionSetCurrentScope
  <2>2. Tail(dashLink.calls) \in Seq(0..1) /\ Head(dashLink.calls) \in 0..1
    BY <1>1, <2>1, SequenceTail
  <2>3. Append(dashLink.onBus, Head(dashLink.calls)) \in Seq(0..1)
    BY <1>1, <2>2, SequenceAppended
  <2> QED
    BY <1>1, <1>3, <2>2, <2>3 DEF ConnectionSetCurrentScope, DashLinkTypeOK, SignalsAreTrue,
                                  NotCalledYet, MonitorSeesService
<1>4. CASE DashTakesCall
  <2>1. dashLink.onBus # <<>>
    BY <1>4 DEF DashTakesCall
  <2>2. Tail(dashLink.onBus) \in Seq(0..1)
    BY <1>1, <2>1, SequenceTail
  <2> QED
    BY <1>4, <2>2 DEF DashTakesCall, DashLinkTypeOK, SignalsAreTrue, NotCalledYet,
                      MonitorSeesService
<1> QED
  BY <1>2, <1>3, <1>4

LEMMA DashLinkKept == DashLinkInv /\ [DashLinkNext]_dashLink => DashLinkInv'
<1> SUFFICES ASSUME DashLinkInv, [DashLinkNext]_dashLink PROVE DashLinkInv'
  OBVIOUS
<1>1. CASE dashLink' = dashLink
  BY <1>1 DEF DashLinkTypeOK, SignalsAreTrue, NotCalledYet, MonitorSeesService
<1>2. CASE WatchService
  BY <1>2 DEF WatchService, DashLinkTypeOK, SignalsAreTrue, NotCalledYet, MonitorSeesService
<1>3. ASSUME NEW answers \in BOOLEAN, ConnectIfRegistered(answers) PROVE DashLinkInv'
  BY <1>3 DEF ConnectIfRegistered, OnServiceRegistered, DashLinkTypeOK, SignalsAreTrue,
              NotCalledYet, MonitorSeesService
<1>4. CASE DashComesOrGoes
  BY <1>4, DashComesOrGoesKeeps
<1>5. CASE NameSignalArrives
  BY <1>5, NameSignalArrivesKeeps
<1>6. ASSUME NEW index \in 0..1, SetCurrentScope(index) PROVE DashLinkInv'
  BY <1>6, CallsKeep
<1>7. CASE ConnectionSetCurrentScope \/ DashTakesCall
  <2>1. 0 \in 0..1
    OBVIOUS
  <2> QED
    BY <1>7, <2>1, CallsKeep
<1> QED
  BY <1>1, <1>2, <1>3, <1>4, <1>5, <1>6, <1>7 DEF DashLinkNext

\* The dash can be called just when it is on the bus, whenever it comes and goes while
\* the thread starts and later, once the bus has told: the watch comes before the
\* question (AbstractDBusServiceMonitor).
THEOREM DashIsSeen == DashLinkSpec => []MonitorSeesService
<1>1. DashLinkInv => MonitorSeesService
  OBVIOUS
<1> HIDE DEF DashLinkInv
<1> QED
  BY <1>1, DashLinkStarts, DashLinkKept, PTL DEF DashLinkSpec

-----------------------------------------------------------------------------
(***************************************************************************)
(* The screens.                                                            *)
(***************************************************************************)
HIDE DEF DashLinkInv

HasFields(v) ==
    DOMAIN v = {"list", "shellView", "deviceName", "secondary", "notices", "asserted", "firstWent"}

\* Alone on the one screen, or docked on the second of two.
Alone(a) ==
    /\ a \in Screens /\ screens.list = <<a>> /\ screens.shellView = a
    /\ ~screens.firstWent => ~screens.secondary /\ screens.notices = <<>>

DockedTo(a, b) ==
    /\ a \in Screens /\ b \in Screens /\ a # b
    /\ screens.list = <<a, b>> /\ screens.shellView = b /\ screens.secondary
    /\ ~screens.firstWent => screens.notices = <<a>>

ScreensInv ==
    /\ HasFields(screens) /\ screens.asserted = TRUE
    /\ screens.secondary \in BOOLEAN /\ screens.firstWent \in BOOLEAN
    /\ \E a, b \in Screens : Alone(a) \/ DockedTo(a, b)

LEMMA TwoKept ==
    ASSUME NEW a, NEW b, NEW s, a # b, s \in {a, b}
    PROVE  Kept(<<a, b>>, {i \in DOMAIN <<a, b>> : <<a, b>>[i] # s})
             = IF s = a THEN <<b>> ELSE <<a>>
<1> DEFINE l == <<a, b>>
           K == {i \in DOMAIN l : l[i] # s}
           t == Kept(l, K)
<1>1. l \in Seq({a, b}) /\ DOMAIN l = {1, 2} /\ l[1] = a /\ l[2] = b
  OBVIOUS
<1>2. PICK g : Selects(g, t, l, K)
  BY <1>1, KeptSelects
<1>3. t \in Seq({a, b})
  BY <1>1, KeptSelects
<1>4. \A i \in {1, 2} : i \in K <=> l[i] # s
  BY <1>1
<1> HIDE DEF t, l, K
<1>5. /\ Len(t) \in Nat /\ DOMAIN t = 1..Len(t)
      /\ g \in [1..Len(t) -> {1, 2} \cap K]
      /\ \A j, k \in 1..Len(t) : j < k => g[j] < g[k]
      /\ \A i \in {1, 2} \cap K : \E k \in 1..Len(t) : g[k] = i
      /\ \A k \in 1..Len(t) : t[k] = l[g[k]]
  BY <1>1, <1>2, <1>3, SequenceDomain DEF Selects
<1>6. PICK m \in {1, 2} : {1, 2} \cap K = {m} /\ l[m] # s
  BY <1>1, <1>4
<1>7. Len(t) = 1
  BY <1>5, <1>6
<1>8. t[1] = l[m]
  BY <1>5, <1>6, <1>7
<1>9. t = <<l[m]>>
  BY <1>3, <1>7, <1>8, SequenceDomain
<1>10. t = IF s = a THEN <<b>> ELSE <<a>>
  BY <1>1, <1>6, <1>9
<1> QED
  BY <1>10 DEF t, l, K

LEMMA DockedFields ==
    ASSUME NEW v, NEW list, HasFields(v), NEW w, w = Docked(v, list)
    PROVE  /\ HasFields(w) /\ w.list = v.list /\ w.shellView = list[2] /\ w.secondary = TRUE
           /\ w.notices = Append(v.notices, list[1])
           /\ w.asserted = v.asserted /\ w.firstWent = v.firstWent
  BY DEF HasFields, Docked

\* Lists of at most two entries.
LEMMA ListOfNone == ASSUME NEW l, l = <<>>, NEW a PROVE Append(l, a) = <<a>>
<1>1. Append(<<>>, a) = <<a>>
  OBVIOUS
<1> QED
  BY <1>1, Zenon

LEMMA OneAppended == ASSUME NEW a, NEW s PROVE Append(<<a>>, s) = <<a, s>>
<1> DEFINE l == <<a>>
           t == Append(l, s)
           u == <<a, s>>
<1>1. /\ l \in Seq({a, s}) /\ Len(l) = 1 /\ l[1] = a
      /\ s \in {a, s} /\ 1 \in DOMAIN l
  OBVIOUS
<1>2. u \in Seq({a, s}) /\ Len(u) = 2 /\ u[1] = a /\ u[2] = s
  OBVIOUS
<1> HIDE DEF l, u
<1>3. t \in Seq({a, s}) /\ Len(t) = 2 /\ t[1] = a /\ t[2] = s
  <2>1. /\ t \in Seq({a, s}) /\ Len(t) = Len(l) + 1 /\ t[Len(l) + 1] = s
        /\ \A k \in DOMAIN l : t[k] = l[k]
    BY <1>1, SequenceAppended
  <2> QED
    BY <1>1, <2>1
<1> HIDE DEF t
<1>4. t = u
  BY <1>2, <1>3, SeqEqual
<1> QED
  BY <1>4 DEF l, t, u

LEMMA ListOfOne ==
    ASSUME NEW l, NEW a, l = <<a>>
    PROVE  /\ Len(l) = 1 /\ Head(l) = a /\ ToSet(l) = {a} /\ Front(l) = <<>>
           /\ \A s : Append(l, s) = <<a, s>>
<1>1. Len(<<a>>) = 1 /\ Head(<<a>>) = a
  OBVIOUS
<1>2. ToSet(<<a>>) = {a}
  BY DEF ToSet
<1>3. Front(<<a>>) = <<>>
  BY DEF Front
<1> QED
  BY <1>1, <1>2, <1>3, OneAppended, Zenon

LEMMA ListOfTwo ==
    ASSUME NEW l, NEW a, NEW b, l = <<a, b>>
    PROVE  /\ Len(l) = 2 /\ Head(l) = a /\ l[1] = a /\ l[2] = b /\ ToSet(l) = {a, b}
           /\ \A s : Len(Append(l, s)) = 3
<1>1. /\ Len(<<a, b>>) = 2 /\ Head(<<a, b>>) = a /\ <<a, b>>[1] = a /\ <<a, b>>[2] = b
      /\ \A s : Len(Append(<<a, b>>, s)) = 3
  OBVIOUS
<1>2. ToSet(<<a, b>>) = {a, b}
  BY DEF ToSet
<1> QED
  BY <1>1, <1>2, Zenon

LEMMA ScreensStart == ScreensInit => ScreensInv
<1> SUFFICES ASSUME ScreensInit PROVE ScreensInv
  OBVIOUS
<1>1. CASE \E s \in Screens : screens = Starting(<<s>>)
  BY <1>1 DEF Starting, ScreensInv, HasFields, Alone
<1>2. CASE \E s, t \in Screens : s # t /\ screens = Docked(Starting(<<s, t>>), <<s, t>>)
  <2>1. PICK s \in Screens, t \in Screens :
             s # t /\ screens = Docked(Starting(<<s, t>>), <<s, t>>)
    BY <1>2
  <2> DEFINE v == Starting(<<s, t>>)
  <2>2. /\ HasFields(v) /\ v.list = <<s, t>> /\ v.notices = <<>>
        /\ v.asserted = TRUE /\ v.firstWent = FALSE
    BY DEF HasFields, Starting
  <2> HIDE DEF v
  <2>3. /\ HasFields(screens) /\ screens.list = <<s, t>> /\ screens.shellView = t
        /\ screens.secondary = TRUE /\ screens.notices = <<s>>
        /\ screens.asserted = TRUE /\ screens.firstWent = FALSE
    <3>1. Append(<<>>, s) = <<s>> /\ <<s, t>>[1] = s /\ <<s, t>>[2] = t
      OBVIOUS
    <3>2. screens = Docked(v, <<s, t>>)
      BY <2>1 DEF v
    <3> DEFINE l == <<s, t>>
    <3>3. l[1] = s /\ l[2] = t /\ screens = Docked(v, l)
      BY <3>1, <3>2
    <3> HIDE DEF l
    <3>4. /\ HasFields(screens) /\ screens.list = v.list /\ screens.shellView = t
          /\ screens.secondary = TRUE /\ screens.notices = Append(v.notices, s)
          /\ screens.asserted = v.asserted /\ screens.firstWent = v.firstWent
      BY <2>2, <3>3, DockedFields, ZenonT(40)
    <3> QED
      BY <2>2, <3>1, <3>4
  <2> QED
    BY <2>1, <2>3 DEF ScreensInv, DockedTo
<1> QED
  BY <1>1, <1>2 DEF ScreensInit

LEMMA ScreenAddedKeeps ==
    ASSUME ScreensInv, NEW s \in Screens, OnScreenAdded(s)
    PROVE  ScreensInv'
<1>1. PICK a \in Screens, b \in Screens : Alone(a) \/ DockedTo(a, b)
  BY DEF ScreensInv
<1>2. ~DockedTo(a, b)
  <2> SUFFICES ASSUME DockedTo(a, b) PROVE FALSE
    OBVIOUS
  <2>1. Len(Append(screens.list, s)) = 3
    BY ListOfTwo DEF DockedTo
  <2> QED
    BY <2>1 DEF OnScreenAdded
<1>3. Alone(a) /\ screens.list = <<a>>
  BY <1>1, <1>2 DEF Alone
<1>4. a # s
  <2>1. s \notin ToSet(screens.list)
    BY DEF OnScreenAdded
  <2> QED
    BY <1>3, <2>1, ListOfOne
<1> DEFINE v == [screens EXCEPT !.list = <<a, s>>]
<1>5. screens' = Docked(v, <<a, s>>)
  <2>1. Append(screens.list, s) = <<a, s>> /\ Len(Append(screens.list, s)) = 2
    BY <1>3, ListOfOne, ListOfTwo
  <2> QED
    BY <2>1, Zenon DEF OnScreenAdded
<1>6. /\ HasFields(v) /\ v.list = <<a, s>> /\ v.notices = screens.notices
      /\ v.asserted = TRUE /\ v.firstWent = screens.firstWent
  BY DEF ScreensInv, HasFields
<1> HIDE DEF v
<1>7. /\ HasFields(screens') /\ screens'.list = <<a, s>> /\ screens'.shellView = s
      /\ screens'.secondary = TRUE /\ screens'.notices = Append(screens.notices, a)
      /\ screens'.asserted = TRUE /\ screens'.firstWent = screens.firstWent
  <2> DEFINE l == <<a, s>>
  <2>1. l[1] = a /\ l[2] = s
    BY ListOfTwo
  <2>2. screens' = Docked(v, l)
    BY <1>5
  <2> HIDE DEF l
  <2>3. PICK w : w = screens'
    OBVIOUS
  <2>4. /\ HasFields(w) /\ w.list = v.list /\ w.shellView = l[2] /\ w.secondary = TRUE
        /\ w.notices = Append(v.notices, l[1])
        /\ w.asserted = v.asserted /\ w.firstWent = v.firstWent
    <3>1. HasFields(v) /\ w = Docked(v, l)
      BY <1>6, <2>2, <2>3
    <3> QED
      BY <3>1, DockedFields, ZenonT(40)
  <2> QED
    BY <1>6, <2>1, <2>3, <2>4
<1>8. ~screens.firstWent => Append(screens.notices, a) = <<a>>
  BY <1>3, ListOfNone DEF Alone
<1>9. DockedTo(a, s)'
  BY <1>4, <1>7, <1>8 DEF DockedTo
<1> QED
  BY <1>7, <1>9 DEF ScreensInv

LEMMA ScreenRemovedKeeps ==
    ASSUME ScreensInv, NEW s \in Screens, OnScreenAboutToBeRemoved(s)
    PROVE  ScreensInv'
<1>1. PICK a \in Screens, b \in Screens : Alone(a) \/ DockedTo(a, b)
  BY DEF ScreensInv
<1>2. DockedTo(a, b) /\ s \in {a, b}
  <2>1. DockedTo(a, b)
    BY <1>1, ListOfOne DEF OnScreenAboutToBeRemoved, Alone
  <2>2. s \in ToSet(screens.list)
    BY DEF OnScreenAboutToBeRemoved
  <2> QED
    BY <2>1, <2>2, ListOfTwo DEF DockedTo
<1> DEFINE rest == Kept(screens.list, {i \in DOMAIN screens.list : screens.list[i] # s})
           mine == s = screens.shellView
           v == [screens EXCEPT
                   !.asserted = @ /\ (mine => Head(screens.list) # s /\ screens.secondary),
                   !.firstWent = @ \/ s = Head(screens.list)]
           w == IF mine THEN Undocked(v) ELSE v
<1>3. rest = IF s = a THEN <<b>> ELSE <<a>>
  BY <1>2, TwoKept DEF DockedTo
<1>4. screens' = [w EXCEPT
         !.list = rest,
         !.notices = [i \in DOMAIN @ |-> IF @[i] = s THEN Head(rest) ELSE @[i]]]
  BY DEF OnScreenAboutToBeRemoved
<1>5. Head(screens.list) = a /\ screens.shellView = b /\ a # b /\ screens.secondary
  BY <1>2 DEF DockedTo
<1>6. /\ HasFields(v) /\ v.list = screens.list /\ v.shellView = b
      /\ v.secondary = screens.secondary /\ v.notices = screens.notices
      /\ v.asserted = TRUE /\ v.firstWent = (screens.firstWent \/ s = a)
  BY <1>5 DEF ScreensInv, HasFields
<1> HIDE DEF v
<1>7. CASE s = a
  <2>1. w = v
    BY <1>5, <1>7
  <2>2. HasFields(w)
    BY <1>6, <2>1
  <2> HIDE DEF w
  <2>3. /\ HasFields(screens') /\ screens'.list = rest /\ screens'.shellView = w.shellView
        /\ screens'.firstWent = w.firstWent /\ screens'.secondary = w.secondary
        /\ screens'.asserted = w.asserted
    BY <1>4, <2>2 DEF HasFields
  <2>4. Alone(b)'
    BY <1>3, <1>6, <1>7, <2>1, <2>3 DEF Alone
  <2> QED
    BY <1>6, <1>7, <2>1, <2>3, <2>4 DEF ScreensInv
<1>8. CASE s = b
  <2>1. w = Undocked(v)
    BY <1>5, <1>8
  <2>2. /\ HasFields(w) /\ w.shellView = a /\ w.secondary = FALSE
        /\ w.notices = Front(screens.notices)
        /\ w.asserted = TRUE /\ w.firstWent = screens.firstWent
    BY <1>5, <1>6, <1>8, <2>1 DEF Undocked, HasFields, ScreensInv
  <2> HIDE DEF w
  <2>3. /\ HasFields(screens') /\ screens'.list = rest /\ screens'.shellView = w.shellView
        /\ screens'.firstWent = w.firstWent /\ screens'.secondary = w.secondary
        /\ screens'.asserted = w.asserted
        /\ screens'.notices = [i \in DOMAIN w.notices |->
                                 IF w.notices[i] = s THEN Head(rest) ELSE w.notices[i]]
    BY <1>4, <2>2 DEF HasFields
  <2>4. ~screens.firstWent => w.notices = <<>>
    BY <1>2, <2>2, ListOfOne DEF DockedTo
  <2>5. ~screens.firstWent => screens'.notices = <<>>
    BY <2>3, <2>4
  <2>6. Alone(a)'
    BY <1>3, <1>5, <1>8, <2>2, <2>3, <2>5 DEF Alone
  <2> QED
    BY <2>2, <2>3, <2>6 DEF ScreensInv
<1> QED
  BY <1>2, <1>7, <1>8

LEMMA ScreensKept == ScreensInv /\ [ScreensNext]_screens => ScreensInv'
<1> SUFFICES ASSUME ScreensInv, [ScreensNext]_screens PROVE ScreensInv'
  OBVIOUS
<1>1. CASE screens' = screens
  BY <1>1 DEF ScreensInv, HasFields, Alone, DockedTo
<1>2. CASE ScreensNext
  BY <1>2, ScreenAddedKeeps, ScreenRemovedKeeps DEF ScreensNext
<1> QED
  BY <1>1, <1>2

\* With two screens the shell is on one there is, what it asserts when one goes holds,
\* and as long as the first stays just the first shows the notice (onScreenAdded(),
\* onScreenAboutToBeRemoved()).
THEOREM EveryScreenServed == ScreensSpec => []ScreensServed
<1>1. ScreensInv => ScreensServed
  <2> SUFFICES ASSUME ScreensInv PROVE ScreensServed
    OBVIOUS
  <2>1. PICK a \in Screens, b \in Screens : Alone(a) \/ DockedTo(a, b)
    BY DEF ScreensInv
  <2>2. CASE Alone(a)
    <3>1. Len(screens.list) = 1 /\ a \in ToSet(screens.list)
      BY <2>2, ListOfOne DEF Alone
    <3> QED
      BY <2>2, <3>1 DEF ScreensInv, ScreensServed, Alone
  <2>3. CASE DockedTo(a, b)
    <3>1. Len(screens.list) = 2 /\ b \in ToSet(screens.list) /\ Head(screens.list) = a
      BY <2>3, ListOfTwo DEF DockedTo
    <3> QED
      BY <2>3, <3>1 DEF ScreensInv, ScreensServed, DockedTo
  <2> QED
    BY <2>1, <2>2, <2>3
<1> QED
  BY <1>1, ScreensStart, ScreensKept, PTL DEF ScreensSpec

-----------------------------------------------------------------------------
(***************************************************************************)
(* DBusUnitySessionService.                                                *)
(***************************************************************************)
Signals == [valued : BOOLEAN, active : BOOLEAN]

SessionTypeOK ==
    /\ DOMAIN session = {"step", "logindActive", "wire", "isSessionActive", "answered", "told",
                         "timer", "idleHint", "inhibited", "calls", "emitted"}
    /\ session.step \in {"init", "check", "up", "unlinked"}
    /\ session.logindActive \in BOOLEAN /\ session.isSessionActive \in BOOLEAN
    /\ session.answered \in BOOLEAN /\ session.timer \in BOOLEAN
    /\ session.wire \in Seq(Signals)

\* The signals on their way end with what logind has.
WireIsTrue ==
    session.wire # <<>> => session.wire[Len(session.wire)].active = session.logindActive

\* Nothing is heard before the watch, and nobody told before the first answer.
HeardAfterWatch ==
    /\ session.step \in {"init", "unlinked"} => session.wire = <<>>
    /\ session.step \in {"init", "check"} => session.told = {}

\* Who was told was told what the service holds.
ToldWhatIsHeld ==
    session.told # {} => /\ session.told = {~session.isSessionActive}
                         /\ session.timer = ~session.isSessionActive

HeldIsCurrent ==
    session.step = "up" /\ session.wire = <<>> /\ session.answered =>
        session.isSessionActive = session.logindActive

SessionInv == SessionTypeOK /\ WireIsTrue /\ HeardAfterWatch /\ ToldWhatIsHeld /\ HeldIsCurrent

LEMMA SessionStarts == SessionInit => SessionInv
  BY DEF SessionInit, SessionInv, SessionTypeOK, WireIsTrue, HeardAfterWatch, ToldWhatIsHeld,
         HeldIsCurrent

LEMMA HeldKept ==
    ASSUME SessionInv, DOMAIN session' = DOMAIN session,
           session'.step = session.step, session'.logindActive = session.logindActive,
           session'.wire = session.wire, session'.isSessionActive = session.isSessionActive,
           session'.answered = session.answered, session'.told = session.told,
           session'.timer = session.timer
    PROVE  SessionInv'
  BY DEF SessionInv, SessionTypeOK, WireIsTrue, HeardAfterWatch, ToldWhatIsHeld, HeldIsCurrent

LEMMA StartKeeps ==
    ASSUME SessionInv, NEW linked \in BOOLEAN, NEW answer \in BOOLEAN,
           InitSession(linked, answer) \/ CheckAtStart(answer)
    PROVE  SessionInv'
<1>1. CASE InitSession(linked, answer)
  <2>1. /\ DOMAIN session' = DOMAIN session
        /\ session'.step \in {"check", "unlinked"} /\ session.step = "init"
        /\ session'.logindActive = session.logindActive /\ session'.wire = session.wire
        /\ session'.isSessionActive = session.isSessionActive
        /\ session'.answered = session.answered /\ session'.told = session.told
        /\ session'.timer = session.timer
    BY <1>1 DEF InitSession, Inhibit, SessionInv, SessionTypeOK
  <2> QED
    BY <2>1 DEF SessionInv, SessionTypeOK, WireIsTrue, HeardAfterWatch, ToldWhatIsHeld,
                HeldIsCurrent
<1>2. CASE CheckAtStart(answer)
  <2>1. /\ DOMAIN session' = DOMAIN session
        /\ session'.step = "up" /\ session.step = "check"
        /\ session'.logindActive = session.logindActive /\ session'.wire = session.wire
        /\ session'.answered = answer /\ session'.told = session.told
        /\ session'.isSessionActive = IF answer THEN session.logindActive
                                      ELSE session.isSessionActive
        /\ session'.timer = session.timer
    BY <1>2 DEF CheckAtStart, CheckActive, SessionInv, SessionTypeOK
  <2> QED
    BY <2>1 DEF SessionInv, SessionTypeOK, WireIsTrue, HeardAfterWatch, ToldWhatIsHeld,
                HeldIsCurrent
<1> QED
  BY <1>1, <1>2

LEMMA LogindChangesKeeps ==
    ASSUME SessionInv, NEW signal, LogindChanges(signal)
    PROVE  SessionInv'
<1> DEFINE m == [valued |-> signal = "valued", active |-> ~session.logindActive]
           w == Append(session.wire, m)
<1>1. /\ session.wire \in Seq(Signals) /\ m \in Signals /\ m.active = ~session.logindActive
      /\ session.logindActive \in BOOLEAN
  BY DEF SessionInv, SessionTypeOK, Signals
<1>2. /\ DOMAIN session' = DOMAIN session
      /\ session'.logindActive = ~session.logindActive
      /\ session'.wire = IF session.step \in {"check", "up"} THEN w ELSE session.wire
      /\ session'.isSessionActive = session.isSessionActive
      /\ session'.answered = session.answered /\ session'.told = session.told
      /\ session'.timer = session.timer /\ session'.step = session.step
  BY DEF LogindChanges, SessionInv, SessionTypeOK
<1> HIDE DEF m
<1>3. w \in Seq(Signals) /\ w # <<>> /\ w[Len(w)] = m
  <2>1. /\ Len(session.wire) \in Nat /\ w \in Seq(Signals) /\ Len(w) = Len(session.wire) + 1
        /\ w[Len(session.wire) + 1] = m
    BY <1>1, SequenceAppended, SequenceDomain
  <2> HIDE DEF w
  <2> QED
    BY <2>1, SequenceDomain
<1> HIDE DEF w
<1>4. CASE session.step \in {"check", "up"}
  <2>1. session'.wire = w /\ session.step \notin {"init", "unlinked"}
    BY <1>2, <1>4
  <2>2. SessionTypeOK'
    BY <1>1, <1>2, <1>3, <2>1 DEF SessionInv, SessionTypeOK
  <2>3. WireIsTrue'
    BY <1>1, <1>2, <1>3, <2>1 DEF WireIsTrue
  <2>4. HeardAfterWatch' /\ ToldWhatIsHeld' /\ HeldIsCurrent'
    BY <1>2, <1>3, <2>1 DEF SessionInv, HeardAfterWatch, ToldWhatIsHeld, HeldIsCurrent
  <2> QED
    BY <2>2, <2>3, <2>4 DEF SessionInv
<1>5. CASE session.step \in {"init", "unlinked"}
  BY <1>1, <1>2, <1>5 DEF SessionInv, SessionTypeOK, WireIsTrue, HeardAfterWatch,
                          ToldWhatIsHeld, HeldIsCurrent
<1> QED
  BY <1>4, <1>5 DEF SessionInv, SessionTypeOK

LEMMA PropertiesChangedKeeps ==
    ASSUME SessionInv, NEW answers \in BOOLEAN, OnPropertiesChanged(answers)
    PROVE  SessionInv'
<1> DEFINE w == session.wire
           m == Head(w)
           r == Tail(w)
<1>1. w \in Seq(Signals) /\ w # <<>> /\ session.step = "up"
  BY DEF SessionInv, SessionTypeOK, OnPropertiesChanged
<1>2. /\ m \in Signals /\ r \in Seq(Signals)
      /\ r = <<>> => w[Len(w)] = m
      /\ r # <<>> => r[Len(r)] = w[Len(w)]
  BY <1>1, SequenceTail, TailEnds
<1>3. m.valued \in BOOLEAN /\ m.active \in BOOLEAN
  BY <1>2 DEF Signals
<1> DEFINE v == [session EXCEPT !.wire = r]
           s == NewValue(v, m, answers)
<1>4. session' = SetIdleHint([s EXCEPT !.told = {~s.isSessionActive},
                                       !.timer = ~s.isSessionActive], ~s.isSessionActive)
  BY DEF OnPropertiesChanged
<1> HIDE DEF m, r
<1>5. /\ DOMAIN s = DOMAIN session
      /\ s.step = session.step /\ s.logindActive = session.logindActive /\ s.wire = r
      /\ m.valued => s.isSessionActive = m.active /\ s.answered = TRUE
      /\ ~m.valued => /\ s.answered = answers
                      /\ s.isSessionActive = IF answers THEN session.logindActive
                                             ELSE session.isSessionActive
  BY <1>3 DEF NewValue, CheckActive, SessionInv, SessionTypeOK
<1> HIDE DEF s
<1>6. /\ DOMAIN session' = DOMAIN session
      /\ session'.step = "up" /\ session'.logindActive = session.logindActive
      /\ session'.wire = r /\ session'.answered = s.answered
      /\ session'.isSessionActive = s.isSessionActive
      /\ session'.told = {~s.isSessionActive}
      /\ session'.timer = ~s.isSessionActive
  BY <1>1, <1>4, <1>5 DEF SetIdleHint, SessionInv, SessionTypeOK
<1>7. s.isSessionActive \in BOOLEAN /\ s.answered \in BOOLEAN
  BY <1>3, <1>5 DEF SessionInv, SessionTypeOK
<1>8. SessionTypeOK'
  BY <1>2, <1>6, <1>7 DEF SessionInv, SessionTypeOK
<1>9. w[Len(w)].active = session.logindActive
  BY <1>1 DEF SessionInv, WireIsTrue
<1>10. WireIsTrue'
  BY <1>2, <1>6, <1>9 DEF WireIsTrue
<1>11. HeardAfterWatch' /\ ToldWhatIsHeld'
  BY <1>6 DEF HeardAfterWatch, ToldWhatIsHeld
<1>12. HeldIsCurrent'
  <2> SUFFICES ASSUME r = <<>>, s.answered PROVE s.isSessionActive = session.logindActive
    BY <1>6 DEF HeldIsCurrent
  <2> QED
    BY <1>2, <1>3, <1>5, <1>9
<1> QED
  BY <1>8, <1>10, <1>11, <1>12 DEF SessionInv

LEMMA SessionKept == SessionInv /\ [SessionNext]_session => SessionInv'
<1> SUFFICES ASSUME SessionInv, [SessionNext]_session PROVE SessionInv'
  OBVIOUS
<1>1. CASE session' = session
  BY <1>1, HeldKept
<1>2. ASSUME NEW linked \in BOOLEAN, NEW answer \in BOOLEAN,
             InitSession(linked, answer) \/ CheckAtStart(answer)
      PROVE  SessionInv'
  BY <1>2, StartKeeps
<1>3. ASSUME NEW answers \in BOOLEAN, OnPropertiesChanged(answers) PROVE SessionInv'
  BY <1>3, PropertiesChangedKeeps
<1>4. ASSUME NEW signal, LogindChanges(signal) PROVE SessionInv'
  BY <1>4, LogindChangesKeeps
<1>5. ASSUME NEW granted \in BOOLEAN, OnResuming(granted) \/ UnityCallArrives(granted)
      PROVE  SessionInv'
  <2>1. /\ DOMAIN session' = DOMAIN session /\ session'.step = session.step
        /\ session'.logindActive = session.logindActive /\ session'.wire = session.wire
        /\ session'.isSessionActive = session.isSessionActive
        /\ session'.answered = session.answered /\ session'.told = session.told
        /\ session'.timer = session.timer
    BY <1>5 DEF OnResuming, UnityCallArrives, Inhibit, SessionInv, SessionTypeOK
  <2> QED
    BY <2>1, HeldKept
<1>6. CASE SimulateUserActivity
  <2>1. /\ DOMAIN session' = DOMAIN session /\ session'.step = session.step
        /\ session'.logindActive = session.logindActive /\ session'.wire = session.wire
        /\ session'.isSessionActive = session.isSessionActive
        /\ session'.answered = session.answered /\ session'.told = session.told
        /\ session'.timer = session.timer
    BY <1>6 DEF SimulateUserActivity, SetIdleHint, SessionInv, SessionTypeOK
  <2> QED
    BY <2>1, HeldKept
<1>7. ASSUME NEW method, PerformAsyncUnityCall(method) PROVE SessionInv'
  <2>1. /\ DOMAIN session' = DOMAIN session /\ session'.step = session.step
        /\ session'.logindActive = session.logindActive /\ session'.wire = session.wire
        /\ session'.isSessionActive = session.isSessionActive
        /\ session'.answered = session.answered /\ session'.told = session.told
        /\ session'.timer = session.timer
    BY <1>7 DEF PerformAsyncUnityCall, SessionInv, SessionTypeOK
  <2> QED
    BY <2>1, HeldKept
<1> QED
  BY <1>1, <1>2, <1>3, <1>4, <1>5, <1>6, <1>7 DEF SessionNext

-----------------------------------------------------------------------------
(***************************************************************************)
(* OrientationLock and OrientedShell.                                      *)
(***************************************************************************)
OrientationInv ==
    /\ DOMAIN orientation = {"ready", "setting", "signalled", "enabled", "saved", "physical", "shown"}
    /\ orientation.ready \in BOOLEAN /\ orientation.setting \in BOOLEAN
    /\ orientation.signalled \in BOOLEAN /\ orientation.enabled \in BOOLEAN
    /\ ~orientation.signalled => orientation.enabled = orientation.setting
    /\ OrientationHeld

LEMMA OrientationStarts == OrientationInit => OrientationInv
  BY DEF OrientationInit, OrientationInv, OrientationHeld

LEMMA OrientationKept == OrientationInv /\ [OrientationNext]_orientation => OrientationInv'
<1> SUFFICES ASSUME OrientationInv, [OrientationNext]_orientation PROVE OrientationInv'
  OBVIOUS
<1>1. CASE orientation' = orientation
  BY <1>1 DEF OrientationInv, OrientationHeld
<1>2. ASSUME NEW saved, OrientedShellCompleted(saved) PROVE OrientationInv'
  BY <1>2 DEF OrientedShellCompleted, OrientationInv, OrientationHeld
<1>3. CASE RotationLockSet
  BY <1>3 DEF RotationLockSet, OrientationInv, OrientationHeld
<1>4. ASSUME NEW o, OnPhysicalOrientationChanged(o) PROVE OrientationInv'
  BY <1>4 DEF OnPhysicalOrientationChanged, OrientationInv, OrientationHeld
<1>5. CASE OnEnabledChanged
  BY <1>5 DEF OnEnabledChanged, OnOrientationLockedChanged, OrientationInv, OrientationHeld
<1> QED
  BY <1>1, <1>2, <1>3, <1>4, <1>5 DEF OrientationNext

\* Once logind's signals have arrived the session service and the screensavers know
\* whether the session is active, however it changes while the service starts, and
\* while the rotation is locked the shell keeps the orientation that is saved
\* (checkActive(), onPropertiesChanged(), onEnabledChanged(), OrientedShell.qml).
THEOREM SessionIsFollowed ==
    SessionSpec /\ OrientationSpec => []SessionFollowed
<1>1. SessionInv /\ OrientationInv => SessionFollowed
  BY DEF SessionInv, SessionTypeOK, ToldWhatIsHeld, HeldIsCurrent, OrientationInv,
         SessionFollowed, SessionActiveKnown, ScreensaverCounts
<1> QED
  BY <1>1, SessionStarts, SessionKept, OrientationStarts, OrientationKept, PTL
     DEF SessionSpec, OrientationSpec

-----------------------------------------------------------------------------
(***************************************************************************)
(* ModelActionRootState and ActionRootState.                               *)
(***************************************************************************)
\* Putting one in at position i.
Inserted(t, s, i, e) ==
    /\ Len(t) = Len(s) + 1 /\ t[i] = e
    /\ \A k \in 1..i - 1 : t[k] = s[k]
    /\ \A k \in i..Len(s) : t[k + 1] = s[k]

LEMMA SequenceInserted ==
    ASSUME NEW A, NEW s \in Seq(A), NEW e \in A, NEW i \in Int, 1 <= i, i <= Len(s) + 1
    PROVE  InsertAt(s, i, e) \in Seq(A) /\ Inserted(InsertAt(s, i, e), s, i, e)
<1> DEFINE a == SubSeq(s, 1, i - 1)
           b == SubSeq(s, i, Len(s))
           c == <<e>>
           d == a \o c
           t == d \o b
<1>1. Len(s) \in Nat
  BY SequenceDomain
<1>2. a \in Seq(A) /\ Len(a) = i - 1 /\ \A k \in 1..i - 1 : a[k] = s[k]
  BY <1>1, SequencePrefix
<1>3. /\ b \in Seq(A) /\ Len(b) = Len(s) - i + 1
      /\ \A k \in 1..Len(s) - i + 1 : b[k] = s[i + k - 1]
  BY <1>1, SequenceSuffix
<1>4. c \in Seq(A) /\ Len(c) = 1 /\ c[1] = e
  OBVIOUS
<1>5. t = InsertAt(s, i, e)
  BY DEF InsertAt
<1> HIDE DEF a, b, c
<1>6. d \in Seq(A) /\ Joined(d, a, c)
  BY <1>2, <1>4, SequenceJoined, Zenon
<1> HIDE DEF d
<1>7. t \in Seq(A) /\ Joined(t, d, b)
  BY <1>3, <1>6, SequenceJoined, Zenon
<1> HIDE DEF t
<1>8. Len(d) = i /\ d[i] = e /\ \A k \in 1..i - 1 : d[k] = s[k]
  <2>1. 1 \in 1..Len(c) /\ 1 + Len(a) = i
    BY <1>2, <1>4
  <2> QED
    BY <1>2, <1>4, <1>6, <2>1 DEF Joined
<1>9. Len(t) = Len(s) + 1 /\ t[i] = e /\ \A k \in 1..i - 1 : t[k] = s[k]
  BY <1>1, <1>3, <1>7, <1>8 DEF Joined
<1>10. ASSUME NEW k \in i..Len(s) PROVE t[k + 1] = s[k]
  <2>1. PICK m \in Int : m = k - i + 1
    BY <1>1
  <2>2. m \in 1..Len(b) /\ m + Len(d) = k + 1 /\ i + m - 1 = k
    BY <1>1, <1>3, <1>8, <2>1
  <2>3. t[m + Len(d)] = b[m]
    BY <1>7, <2>2 DEF Joined
  <2>4. b[m] = s[i + m - 1]
    BY <1>3, <2>2
  <2> QED
    BY <2>2, <2>3, <2>4
<1> QED
  BY <1>5, <1>7, <1>9, <1>10 DEF Inserted

RootInv ==
    /\ DOMAIN rootState = {"menu", "rows", "state", "group", "connected", "named", "action",
                           "actionState"}
    /\ rootState.rows \in Seq(States)
    /\ rootState.menu \in BOOLEAN /\ rootState.group \in BOOLEAN
    /\ rootState.connected \in BOOLEAN /\ rootState.named \in BOOLEAN
    /\ ShownStateIsCurrent

LEMMA RootStarts == RootInit => RootInv
  BY DEF RootInit, RootInv, ShownStateIsCurrent, ActionValid

\* A change of the rows that leaves the rest as it is and is followed by an update of
\* the state, or that the menu's first row does not notice.
LEMMA RowsKeep ==
    ASSUME RootInv, NEW rows \in Seq(States), NEW told \in BOOLEAN,
           ~told => rows = <<>> \/ Head(rows) = rootState.state \/ ~rootState.menu,
           NEW v, v = [rootState EXCEPT !.rows = rows],
           rootState' = IF told THEN UpdateMenuState(v) ELSE v
    PROVE  RootInv'
<1>1. /\ DOMAIN v = DOMAIN rootState /\ v.rows = rows /\ v.menu = rootState.menu
      /\ v.group = rootState.group /\ v.connected = rootState.connected
      /\ v.named = rootState.named /\ v.action = rootState.action
      /\ v.actionState = rootState.actionState /\ v.state = rootState.state
  BY DEF RootInv
<1>2. /\ DOMAIN rootState' = DOMAIN rootState /\ rootState'.rows = rows
      /\ rootState'.menu = rootState.menu
      /\ rootState'.group = rootState.group /\ rootState'.connected = rootState.connected
      /\ rootState'.named = rootState.named /\ rootState'.action = rootState.action
      /\ rootState'.actionState = rootState.actionState
      /\ rootState'.state =
           IF told /\ v.menu /\ rows # <<>> THEN Head(rows)
           ELSE IF told /\ ~v.menu THEN NoState ELSE rootState.state
  BY <1>1 DEF RootInv, UpdateMenuState
<1> QED
  BY <1>1, <1>2 DEF RootInv, ShownStateIsCurrent, ActionValid

LEMMA RowAddedKeeps ==
    ASSUME RootInv, NEW start \in Nat, NEW s \in States, RootRowAdded(start, s)
    PROVE  RootInv'
<1> DEFINE rows == InsertAt(rootState.rows, start + 1, s)
           v == [rootState EXCEPT !.rows = rows]
           told == rootState.menu /\ start = 0
<1>1. rootState.rows \in Seq(States) /\ rootState.menu \in BOOLEAN /\ start <= Len(rootState.rows)
  BY DEF RootInv, RootRowAdded
<1>2. Len(rootState.rows) \in Nat
  BY <1>1, SequenceDomain
<1>3. /\ rows \in Seq(States)
      /\ \A k \in 1..start : rows[k] = rootState.rows[k]
      /\ Len(rows) = Len(rootState.rows) + 1
  <2>1. start + 1 \in Int /\ 1 <= start + 1 /\ start + 1 <= Len(rootState.rows) + 1
        /\ (start + 1) - 1 = start
    BY <1>1, <1>2
  <2>2. rows \in Seq(States) /\ Inserted(rows, rootState.rows, start + 1, s)
    BY <1>1, <2>1, SequenceInserted
  <2> HIDE DEF rows
  <2> QED
    BY <2>1, <2>2 DEF Inserted
<1>4. ASSUME start # 0 PROVE rootState.rows # <<>> /\ Head(rows) = Head(rootState.rows)
  <2>1. 1 \in 1..start /\ Len(rootState.rows) # 0
    BY <1>1, <1>2, <1>4
  <2>2. rows # <<>> /\ rootState.rows # <<>>
    BY <1>1, <1>2, <1>3, <2>1, SequenceDomain
  <2>3. Head(rows) = rows[1] /\ Head(rootState.rows) = rootState.rows[1]
    BY <1>1, <1>3, <2>2, SequenceTail
  <2> QED
    BY <1>3, <2>1, <2>2, <2>3
<1>5. ~told => rows = <<>> \/ Head(rows) = rootState.state \/ ~rootState.menu
  BY <1>4 DEF RootInv, ShownStateIsCurrent
<1>6. rootState' = IF told THEN UpdateMenuState(v) ELSE v
  BY DEF RootRowAdded, OnModelRowsAdded, RootInv
<1>7. told \in BOOLEAN
  OBVIOUS
<1> HIDE DEF rows, told
<1> QED
  BY <1>3, <1>5, <1>6, <1>7, RowsKeep

LEMMA RowRemovedKeeps ==
    ASSUME RootInv, NEW start \in Nat, RootRowRemoved(start)
    PROVE  RootInv'
<1> DEFINE rows == RemoveAt(rootState.rows, start + 1)
           v == [rootState EXCEPT !.rows = rows]
           told == rootState.menu /\ start = 0
<1>1. rootState.rows \in Seq(States) /\ rootState.menu \in BOOLEAN /\ start < Len(rootState.rows)
  BY DEF RootInv, RootRowRemoved
<1>2. Len(rootState.rows) \in Nat
  BY <1>1, SequenceDomain
<1>3. rows = SubSeq(rootState.rows, 1, (start + 1) - 1)
               \o SubSeq(rootState.rows, start + 1 + 1, Len(rootState.rows))
  BY DEF RemoveAt
<1>9. rootState' = IF told THEN UpdateMenuState(v) ELSE v
  BY DEF RootRowRemoved, OnModelRowsRemoved, RootInv
<1> HIDE DEF rows
<1>4. /\ rows \in Seq(States)
      /\ \A k \in 1..start : rows[k] = rootState.rows[k]
      /\ Len(rows) = Len(rootState.rows) - 1
  <2> DEFINE i == (start + 1) - 1
             j == start + 1 + 1
  <2>1. /\ i \in Int /\ j \in Int /\ 0 <= i /\ i < j /\ j <= Len(rootState.rows) + 1
        /\ i = start /\ j - i - 1 = 1
    BY <1>1, <1>2
  <2>2. rows = SubSeq(rootState.rows, 1, i) \o SubSeq(rootState.rows, j, Len(rootState.rows))
    BY <1>3
  <2> HIDE DEF i, j
  <2>3. rows \in Seq(States) /\ Cut(rows, rootState.rows, i, j)
    BY <1>1, <2>1, <2>2, SequenceCut, Zenon
  <2> QED
    BY <2>1, <2>3 DEF Cut
<1>5. ASSUME start # 0 PROVE rootState.rows # <<>> /\ Head(rows) = Head(rootState.rows)
  <2>1. 1 \in 1..start /\ Len(rootState.rows) # 0 /\ Len(rows) # 0
    BY <1>1, <1>2, <1>4, <1>5
  <2>2. rows # <<>> /\ rootState.rows # <<>>
    BY <1>1, <1>2, <1>4, <2>1, SequenceDomain
  <2>3. Head(rows) = rows[1] /\ Head(rootState.rows) = rootState.rows[1]
    BY <1>1, <1>4, <2>2, SequenceTail
  <2> QED
    BY <1>4, <2>1, <2>2, <2>3
<1>6. ~told => rows = <<>> \/ Head(rows) = rootState.state \/ ~rootState.menu
  BY <1>5 DEF RootInv, ShownStateIsCurrent
<1>7. told \in BOOLEAN
  OBVIOUS
<1> HIDE DEF told
<1> QED
  BY <1>4, <1>6, <1>7, <1>9, RowsKeep

LEMMA RowChangedKeeps ==
    ASSUME RootInv, NEW row \in Nat, NEW s \in States, RootRowChanged(row, s)
    PROVE  RootInv'
<1> DEFINE rows == [rootState.rows EXCEPT ![row + 1] = s]
           v == [rootState EXCEPT !.rows = rows]
           told == rootState.menu /\ row = 0
<1>1. rootState.rows \in Seq(States) /\ rootState.menu \in BOOLEAN /\ row < Len(rootState.rows)
  BY DEF RootInv, RootRowChanged
<1>2. Len(rootState.rows) \in Nat /\ rootState.rows # <<>>
  BY <1>1, SequenceDomain
<1>3. rows \in Seq(States) /\ (row # 0 => rows[1] = rootState.rows[1])
  BY <1>1, <1>2, ExceptSeq
<1>4. ASSUME row # 0, rows # <<>> PROVE Head(rows) = Head(rootState.rows)
  BY <1>1, <1>2, <1>3, <1>4, SequenceTail
<1>5. ~told => rows = <<>> \/ Head(rows) = rootState.state \/ ~rootState.menu
  BY <1>2, <1>4 DEF RootInv, ShownStateIsCurrent
<1>6. rootState' = IF told THEN UpdateMenuState(v) ELSE v
  BY DEF RootRowChanged, OnModelDataChanged, RootInv
<1>7. told \in BOOLEAN
  OBVIOUS
<1> HIDE DEF rows, told
<1> QED
  BY <1>3, <1>5, <1>6, <1>7, RowsKeep

LEMMA RootKept == RootInv /\ [RootNext]_rootState => RootInv'
<1> SUFFICES ASSUME RootInv, [RootNext]_rootState PROVE RootInv'
  OBVIOUS
<1>1. CASE rootState' = rootState
  BY <1>1 DEF RootInv, ShownStateIsCurrent, ActionValid
<1>2. CASE SetMenu \/ MenuDestroyed
  BY <1>2 DEF SetMenu, MenuDestroyed, UpdateMenuState, RootInv, ShownStateIsCurrent, ActionValid
<1>3. CASE SetActionGroup \/ SetActionName
  BY <1>3 DEF SetActionGroup, SetActionName, UpdateActionState, RootInv, ShownStateIsCurrent,
              ActionValid
<1>4. ASSUME NEW s, GroupStatusChanged \/ ActionChanged(s) PROVE RootInv'
  BY <1>4 DEF GroupStatusChanged, ActionChanged, ToldByGroup, UpdateActionState, RootInv,
              ShownStateIsCurrent, ActionValid
<1>5. ASSUME NEW start \in Nat, NEW s \in States, RootRowAdded(start, s) PROVE RootInv'
  BY <1>5, RowAddedKeeps
<1>6. ASSUME NEW start \in Nat, RootRowRemoved(start) PROVE RootInv'
  BY <1>6, RowRemovedKeeps
<1>7. ASSUME NEW row \in Nat, NEW s \in States, RootRowChanged(row, s) PROVE RootInv'
  BY <1>7, RowChangedKeeps
<1> QED
  BY <1>1, <1>2, <1>3, <1>4, <1>5, <1>6, <1>7 DEF RootNext

-----------------------------------------------------------------------------
(***************************************************************************)
(* UnityMenuModelStack.                                                    *)
(***************************************************************************)
Entries(R) ==
    [menu : Menus \cup {NoMenu}, parent : Menus \cup {NoMenu}, index : Nat,
     linked : BOOLEAN, row : R]

\* R is what the rows are numbered with; the numbers are not looked at.
StackTypeOK(R) == menuStack \in [entries : Seq(Entries(R)), rows : [Menus -> Seq(R)]]

\* An entry is at the row, of the menu below it, that it was entered through.
EntryFollows(entries, rows, i) ==
    entries[i].linked =>
        /\ i > 1 /\ entries[i].parent = entries[i - 1].menu
        /\ entries[i].parent # NoMenu
        /\ entries[i].index < Len(rows[entries[i].parent])
        /\ rows[entries[i].parent][entries[i].index + 1] = entries[i].row

StackInv ==
    /\ \E R : 0 \in R /\ StackTypeOK(R)
    /\ \A i \in DOMAIN menuStack.entries : EntryFollows(menuStack.entries, menuStack.rows, i)

LEMMA StackStarts == StackInit => StackInv
<1> SUFFICES ASSUME StackInit PROVE StackInv
  OBVIOUS
<1>1. <<>> \in Seq({0}) /\ <<>> \in Seq(Entries({0}))
  OBVIOUS
<1>2. StackTypeOK({0})
  BY <1>1 DEF StackInit, StackTypeOK
<1> QED
  BY <1>2 DEF StackInit, StackInv

LEMMA RemovedPrefix ==
    ASSUME NEW S, NEW es \in Seq(S), NEW gone \in SUBSET (DOMAIN es)
    PROVE  LET r == RemovedFrom(es, gone) IN
           /\ r \in Seq(S) /\ Len(r) <= Len(es)
           /\ \A k \in 1..Len(r) : r[k] = es[k] /\ k \notin gone
<1>1. Len(es) \in Nat /\ DOMAIN es = 1..Len(es)
  BY SequenceDomain
<1>2. CASE gone = {}
  BY <1>1, <1>2 DEF RemovedFrom
<1>3. CASE gone # {}
  <2> DEFINE m == CHOOSE i \in gone : \A j \in gone : i <= j
             n == m - 1
             r == SubSeq(es, 1, n)
  <2>1. gone \in SUBSET Nat
    BY <1>1
  <2>2. m \in gone /\ \A j \in gone : m <= j
    BY <1>3, <2>1, LeastOf
  <2>3. RemovedFrom(es, gone) = r
    BY <1>3 DEF RemovedFrom
  <2> HIDE DEF m
  <2>4. n \in Int /\ 0 <= n /\ n < Len(es)
    BY <1>1, <2>2
  <2> HIDE DEF n
  <2>5. r \in Seq(S) /\ Len(r) = n /\ \A k \in 1..n : r[k] = es[k]
    BY <1>1, <2>4, SequencePrefix
  <2> HIDE DEF r
  <2>6. \A k \in 1..n : k \notin gone
    BY <1>1, <2>2, <2>4 DEF n
  <2> QED
    BY <2>3, <2>4, <2>5, <2>6
<1> QED
  BY <1>2, <1>3

LEMMA StackTypes ==
    ASSUME NEW R, StackTypeOK(R)
    PROVE  /\ menuStack.entries \in Seq(Entries(R)) /\ menuStack.rows \in [Menus -> Seq(R)]
           /\ Len(menuStack.entries) \in Nat
           /\ DOMAIN menuStack.entries = 1..Len(menuStack.entries)
           /\ \A i \in DOMAIN menuStack.entries : menuStack.entries[i] \in Entries(R)
           /\ TailMenu(menuStack.entries) \in Menus \cup {NoMenu}
<1>1. menuStack.entries \in Seq(Entries(R)) /\ menuStack.rows \in [Menus -> Seq(R)]
  BY DEF StackTypeOK
<1>2. /\ Len(menuStack.entries) \in Nat
      /\ DOMAIN menuStack.entries = 1..Len(menuStack.entries)
      /\ \A i \in DOMAIN menuStack.entries : menuStack.entries[i] \in Entries(R)
      /\ menuStack.entries # <<>> => Len(menuStack.entries) # 0
  BY <1>1, SequenceDomain
<1>3. TailMenu(menuStack.entries) \in Menus \cup {NoMenu}
  <2>1. CASE menuStack.entries = <<>>
    BY <2>1 DEF TailMenu
  <2>2. CASE menuStack.entries # <<>>
    <3>1. Len(menuStack.entries) \in DOMAIN menuStack.entries
      BY <1>2, <2>2
    <3>2. menuStack.entries[Len(menuStack.entries)] \in Entries(R)
      BY <1>2, <3>1
    <3> QED
      BY <2>2, <3>2 DEF TailMenu, Last, Entries
  <2> QED
    BY <2>1, <2>2
<1> QED
  BY <1>1, <1>2, <1>3

\* Any numbers may be used for new rows.
LEMMA MoreRowNumbers ==
    ASSUME NEW R, StackTypeOK(R), NEW r
    PROVE  StackTypeOK(R \cup {r})
<1> DEFINE Q == R \cup {r}
<1>1. /\ menuStack.entries \in Seq(Entries(R)) /\ menuStack.rows \in [Menus -> Seq(R)]
      /\ menuStack = [entries |-> menuStack.entries, rows |-> menuStack.rows]
  BY DEF StackTypeOK
<1>2. R \subseteq Q
  OBVIOUS
<1> HIDE DEF Q
<1>3. Entries(R) \subseteq Entries(Q)
  BY <1>2 DEF Entries
<1>4. ASSUME NEW A, NEW B, A \subseteq B, NEW s \in Seq(A) PROVE s \in Seq(B)
  <2>1. s \in [1..Len(s) -> A] /\ Len(s) \in Nat
    BY <1>4, LenProperties
  <2>2. s \in [1..Len(s) -> B]
    BY <1>4, <2>1
  <2> QED
    BY <2>1, <2>2
<1>5. menuStack.entries \in Seq(Entries(Q))
  BY <1>1, <1>3, <1>4
<1>6. menuStack.rows \in [Menus -> Seq(Q)]
  BY <1>1, <1>2, <1>4
<1> QED
  BY <1>1, <1>5, <1>6 DEF StackTypeOK, Q

\* Entries that stay, with the menus they had, follow if the indices are right.
LEMMA StillFollow ==
    ASSUME NEW R, 0 \in R, StackTypeOK(R), StackInv,
           menuStack'.entries \in Seq(Entries(R)), menuStack'.rows \in [Menus -> Seq(R)],
           menuStack' = [entries |-> menuStack'.entries, rows |-> menuStack'.rows],
           Len(menuStack'.entries) <= Len(menuStack.entries),
           \A i \in 1..Len(menuStack'.entries) :
               /\ menuStack'.entries[i].menu = menuStack.entries[i].menu
               /\ menuStack'.entries[i].parent = menuStack.entries[i].parent
               /\ menuStack'.entries[i].linked = menuStack.entries[i].linked
               /\ menuStack'.entries[i].row = menuStack.entries[i].row
               /\ menuStack.entries[i].linked =>
                    LET e == menuStack'.entries[i] IN
                    /\ e.index < Len(menuStack'.rows[e.parent])
                    /\ menuStack'.rows[e.parent][e.index + 1] = e.row
    PROVE  StackInv'
<1>1. StackTypeOK(R)'
  BY DEF StackTypeOK
<1>2. /\ Len(menuStack.entries) \in Nat /\ Len(menuStack'.entries) \in Nat
      /\ DOMAIN menuStack.entries = 1..Len(menuStack.entries)
      /\ DOMAIN menuStack'.entries = 1..Len(menuStack'.entries)
  BY SequenceDomain, StackTypes
<1>3. ASSUME NEW i \in 1..Len(menuStack'.entries)
      PROVE  EntryFollows(menuStack'.entries, menuStack'.rows, i)
  <2> SUFFICES ASSUME menuStack'.entries[i].linked
               PROVE  EntryFollows(menuStack'.entries, menuStack'.rows, i)
    BY DEF EntryFollows
  <2>1. i \in 1..Len(menuStack.entries) /\ menuStack.entries[i].linked
    BY <1>2
  <2>2. /\ i > 1 /\ menuStack.entries[i].parent = menuStack.entries[i - 1].menu
        /\ menuStack.entries[i].parent # NoMenu
    BY <1>2, <2>1 DEF StackInv, EntryFollows
  <2>3. i - 1 \in 1..Len(menuStack'.entries)
    BY <1>2, <2>2
  <2>4. menuStack'.entries[i].parent = menuStack'.entries[i - 1].menu
    BY <2>2, <2>3
  <2> QED
    BY <2>1, <2>2, <2>4 DEF EntryFollows
<1> QED
  BY <1>1, <1>2, <1>3 DEF StackInv

LEMMA SetHeadKeeps ==
    ASSUME StackInv, NEW menu \in Menus \cup {NoMenu}, SetHead(menu)
    PROVE  StackInv'
<1>1. PICK R : 0 \in R /\ StackTypeOK(R)
  BY DEF StackInv
<1> DEFINE e == [menu |-> menu, parent |-> NoMenu, index |-> 0, linked |-> FALSE, row |-> 0]
           es == Append(<<>>, e)
<1>2. PushEntry(<<>>, menu, 0, 0) = es
  BY DEF PushEntry, TailMenu
<1>3. e \in Entries(R) /\ ~e.linked
  BY <1>1 DEF Entries
<1> HIDE DEF e
<1>4. es \in Seq(Entries(R)) /\ Len(es) = 1 /\ es[1] = e /\ DOMAIN es = 1..1
  <2>1. <<>> \in Seq(Entries(R)) /\ Len(<<>>) = 0
    OBVIOUS
  <2> QED
    BY <1>3, <2>1, ListOfNone, SequenceAppended
<1> HIDE DEF es
<1>5. menuStack' = [menuStack EXCEPT !.entries = es]
  BY <1>2 DEF SetHead
<1>6. StackTypeOK(R)' /\ menuStack'.entries = es
  BY <1>1, <1>4, <1>5 DEF StackTypeOK
<1>7. \A i \in DOMAIN es : EntryFollows(es, menuStack'.rows, i)
  BY <1>3, <1>4 DEF EntryFollows
<1> QED
  BY <1>1, <1>6, <1>7 DEF StackInv

LEMMA PushMenuKeeps ==
    ASSUME StackInv, NEW menu \in Menus, NEW index \in Nat, PushMenu(menu, index)
    PROVE  StackInv'
<1>1. PICK R : 0 \in R /\ StackTypeOK(R)
  BY DEF StackInv
<1> DEFINE es == menuStack.entries
           tail == TailMenu(es)
           row == menuStack.rows[tail][index + 1]
           e == [menu |-> menu, parent |-> tail, index |-> index, linked |-> tail # NoMenu,
                 row |-> row]
           new == Append(es, e)
<1>2. /\ tail # NoMenu /\ tail \in Menus /\ index < Len(menuStack.rows[tail])
      /\ menuStack' = [menuStack EXCEPT !.entries = new]
  BY <1>1, StackTypes DEF PushMenu, PushEntry
<1>3. /\ es \in Seq(Entries(R)) /\ Len(es) \in Nat /\ DOMAIN es = 1..Len(es)
      /\ menuStack.rows \in [Menus -> Seq(R)]
  BY <1>1, StackTypes
<1>4. row \in R
  <2>1. menuStack.rows[tail] \in Seq(R)
    BY <1>2, <1>3
  <2>2. index + 1 \in DOMAIN menuStack.rows[tail]
    BY <1>2, <2>1, SequenceDomain
  <2> QED
    BY <2>1, <2>2, SequenceDomain
<1>5. es # <<>> /\ tail = es[Len(es)].menu /\ Len(es) > 0
  <2>1. es # <<>> /\ tail = es[Len(es)].menu
    BY <1>2 DEF TailMenu, Last
  <2> QED
    BY <1>3, <2>1, SequenceDomain
<1>6. /\ e \in Entries(R) /\ e.linked /\ e.parent = tail /\ e.index = index /\ e.row = row
  BY <1>2, <1>4 DEF Entries
<1> HIDE DEF e
<1>7. /\ new \in Seq(Entries(R)) /\ Len(new) = Len(es) + 1 /\ DOMAIN new = 1..(Len(es) + 1)
      /\ \A k \in DOMAIN es : new[k] = es[k]
      /\ new[Len(es) + 1] = e
  BY <1>3, <1>6, SequenceAppended
<1> HIDE DEF new
<1>8. StackTypeOK(R)' /\ menuStack'.entries = new /\ menuStack'.rows = menuStack.rows
  BY <1>1, <1>2, <1>7 DEF StackTypeOK
<1>9. ASSUME NEW i \in DOMAIN new PROVE EntryFollows(new, menuStack.rows, i)
  <2>1. CASE i \in DOMAIN es
    <3>1. EntryFollows(es, menuStack.rows, i)
      BY <2>1 DEF StackInv
    <3>2. i > 1 => i - 1 \in DOMAIN es
      BY <1>3, <2>1
    <3> QED
      BY <1>7, <2>1, <3>1, <3>2 DEF EntryFollows
  <2>2. CASE i = Len(es) + 1
    <3> HIDE DEF es, tail, row
    <3>1. new[i] = e /\ i > 1 /\ i - 1 = Len(es) /\ Len(es) \in DOMAIN es
      BY <1>3, <1>5, <1>7, <2>2
    <3>2. new[i - 1].menu = tail
      BY <1>5, <1>7, <3>1
    <3>3. index + 1 = e.index + 1 /\ menuStack.rows[tail][e.index + 1] = row
      BY <1>6 DEF row
    <3> QED
      BY <1>2, <1>6, <3>1, <3>2, <3>3 DEF EntryFollows
  <2> QED
    BY <1>3, <1>7, <2>1, <2>2
<1> QED
  BY <1>1, <1>8, <1>9 DEF StackInv

LEMMA LinkedIndex ==
    ASSUME NEW R, StackTypeOK(R), StackInv, NEW i \in 1..Len(menuStack.entries),
           menuStack.entries[i].linked
    PROVE  LET e == menuStack.entries[i] IN
           /\ e.parent \in Menus /\ e.index \in Nat
           /\ menuStack.rows[e.parent] \in Seq(R) /\ Len(menuStack.rows[e.parent]) \in Nat
           /\ e.index < Len(menuStack.rows[e.parent])
           /\ menuStack.rows[e.parent][e.index + 1] = e.row
<1> DEFINE e == menuStack.entries[i]
<1>1. e \in Entries(R) /\ EntryFollows(menuStack.entries, menuStack.rows, i)
  BY StackTypes DEF StackInv
<1>2. /\ e.parent # NoMenu /\ e.index < Len(menuStack.rows[e.parent])
      /\ menuStack.rows[e.parent][e.index + 1] = e.row
  BY <1>1 DEF EntryFollows
<1>3. e.parent \in Menus /\ e.index \in Nat
  BY <1>1, <1>2 DEF Entries
<1>4. menuStack.rows[e.parent] \in Seq(R)
  BY <1>3, StackTypes
<1> QED
  BY <1>2, <1>3, <1>4, SequenceDomain

LEMMA PopMenuKeeps ==
    ASSUME StackInv, PopMenu
    PROVE  StackInv'
<1>1. PICK R : 0 \in R /\ StackTypeOK(R)
  BY DEF StackInv
<1> DEFINE es == menuStack.entries
           n == Len(es) - 1
           new == SubSeq(es, 1, n)
<1>2. es # <<>> /\ menuStack' = [menuStack EXCEPT !.entries = new]
  BY DEF PopMenu, Front
<1>3. es \in Seq(Entries(R)) /\ Len(es) \in Nat /\ menuStack.rows \in [Menus -> Seq(R)]
  BY <1>1, StackTypes
<1>4. n \in Int /\ 0 <= n /\ n <= Len(es)
  BY <1>2, <1>3, SequenceDomain
<1> HIDE DEF n
<1>5. new \in Seq(Entries(R)) /\ Len(new) = n /\ \A k \in 1..n : new[k] = es[k]
  BY <1>3, <1>4, SequencePrefix
<1> HIDE DEF new
<1>6. /\ menuStack'.entries = new /\ menuStack'.rows = menuStack.rows
      /\ menuStack' = [entries |-> menuStack'.entries, rows |-> menuStack'.rows]
  BY <1>1, <1>2, <1>5 DEF StackTypeOK
<1>7. ASSUME NEW i \in 1..Len(new)
      PROVE  /\ new[i] = es[i]
             /\ es[i].linked => /\ es[i].index < Len(menuStack.rows[es[i].parent])
                                /\ menuStack.rows[es[i].parent][es[i].index + 1] = es[i].row
  <2>1. i \in 1..Len(es) /\ i \in 1..n
    BY <1>3, <1>4, <1>5
  <2> QED
    BY <1>1, <1>5, <2>1, LinkedIndex
<1> QED
  BY <1>1, <1>3, <1>4, <1>5, <1>6, <1>7, StillFollow

LEMMA MenuResetKeeps ==
    ASSUME StackInv, NEW menu \in Menus, MenuReset(menu)
    PROVE  StackInv'
<1>1. PICK R : 0 \in R /\ StackTypeOK(R)
  BY DEF StackInv
<1> DEFINE es == menuStack.entries
           gone == {i \in DOMAIN es : FollowsRowsOf(es[i], menu)}
           new == RemovedFrom(es, gone)
           rows == [menuStack.rows EXCEPT ![menu] = <<>>]
<1>2. menuStack' = [menuStack EXCEPT !.rows = rows, !.entries = new]
  BY <1>1 DEF MenuReset, StackTypeOK
<1>3. /\ es \in Seq(Entries(R)) /\ Len(es) \in Nat /\ DOMAIN es = 1..Len(es)
      /\ menuStack.rows \in [Menus -> Seq(R)]
  BY <1>1, StackTypes
<1>4. /\ new \in Seq(Entries(R)) /\ Len(new) <= Len(es)
      /\ \A k \in 1..Len(new) : new[k] = es[k] /\ k \notin gone
  BY <1>3, RemovedPrefix, SMTT(40)
<1>5. rows \in [Menus -> Seq(R)] /\ \A m \in Menus : m # menu => rows[m] = menuStack.rows[m]
  <2>1. <<>> \in Seq(R)
    OBVIOUS
  <2> QED
    BY <1>3, <2>1
<1> HIDE DEF new, rows
<1>6. /\ menuStack'.entries = new /\ menuStack'.rows = rows
      /\ menuStack' = [entries |-> menuStack'.entries, rows |-> menuStack'.rows]
  BY <1>1, <1>2, <1>4, <1>5 DEF StackTypeOK
<1>7. ASSUME NEW i \in 1..Len(new)
      PROVE  /\ new[i] = es[i]
             /\ es[i].linked => /\ es[i].index < Len(rows[es[i].parent])
                                /\ rows[es[i].parent][es[i].index + 1] = es[i].row
  <2>1. i \in 1..Len(es) /\ i \notin gone /\ new[i] = es[i]
    <3>1. Len(new) \in Nat
      BY <1>4, SequenceDomain
    <3> QED
      BY <1>3, <1>4, <3>1
  <2>2. ASSUME es[i].linked
        PROVE  rows[es[i].parent] = menuStack.rows[es[i].parent]
    <3>1. es[i].parent # menu
      BY <1>3, <2>1, <2>2 DEF FollowsRowsOf
    <3>2. es[i].parent \in Menus
      BY <1>1, <2>1, <2>2, LinkedIndex
    <3> QED
      BY <1>5, <3>1, <3>2
  <2> QED
    BY <1>1, <2>1, <2>2, LinkedIndex
<1> QED
  BY <1>1, <1>4, <1>5, <1>6, <1>7, StillFollow

LEMMA MenuRowInsertedKeeps ==
    ASSUME StackInv, NEW menu \in Menus, NEW start \in Nat, MenuRowInserted(menu, start)
    PROVE  StackInv'
<1> DEFINE r == NewRow(menu)
<1>1. PICK R : 0 \in R /\ StackTypeOK(R) /\ r \in R
  <2>1. PICK Q : 0 \in Q /\ StackTypeOK(Q)
    BY DEF StackInv
  <2>2. StackTypeOK(Q \cup {r})
    BY <2>1, MoreRowNumbers
  <2> QED
    BY <2>1, <2>2
<1> DEFINE es == menuStack.entries
           old == menuStack.rows[menu]
           moved(e) == IF FollowsRowsOf(e, menu) THEN MovedDown(e, start, 1) ELSE e
           new == [i \in DOMAIN es |-> moved(es[i])]
           list == InsertAt(old, start + 1, r)
           rows == [menuStack.rows EXCEPT ![menu] = list]
<1>2. menuStack' = [menuStack EXCEPT !.rows = rows, !.entries = new] /\ start <= Len(old)
  BY <1>1 DEF MenuRowInserted, StackTypeOK
<1>3. /\ es \in Seq(Entries(R)) /\ Len(es) \in Nat /\ DOMAIN es = 1..Len(es)
      /\ \A i \in DOMAIN es : es[i] \in Entries(R)
      /\ menuStack.rows \in [Menus -> Seq(R)]
  BY <1>1, StackTypes
<1>4. old \in Seq(R) /\ Len(old) \in Nat
  BY <1>3, SequenceDomain
<1>5. list \in Seq(R) /\ Inserted(list, old, start + 1, r)
  <2>1. start + 1 \in Int /\ 1 <= start + 1 /\ start + 1 <= Len(old) + 1
    BY <1>2, <1>4
  <2> HIDE DEF r, old
  <2> QED
    BY <1>1, <1>4, <2>1, SequenceInserted
<1> HIDE DEF list, r
<1>6. /\ rows \in [Menus -> Seq(R)] /\ rows[menu] = list
      /\ \A m \in Menus : m # menu => rows[m] = menuStack.rows[m]
  BY <1>3, <1>5
<1>7. ASSUME NEW i \in DOMAIN es
      PROVE  LET e == es[i] IN
             /\ moved(e) \in Entries(R)
             /\ moved(e).menu = e.menu /\ moved(e).parent = e.parent
             /\ moved(e).linked = e.linked /\ moved(e).row = e.row
             /\ moved(e).index = IF FollowsRowsOf(e, menu) /\ start <= e.index
                                 THEN e.index + 1 ELSE e.index
  <2>1. es[i] \in Entries(R)
    BY <1>3
  <2> QED
    BY <2>1 DEF MovedDown, Entries
<1>8. /\ new \in Seq(Entries(R)) /\ Len(new) = Len(es)
      /\ \A i \in 1..Len(es) : new[i] = moved(es[i])
  <2>1. new \in [1..Len(es) -> Entries(R)]
    BY <1>3, <1>7
  <2> QED
    BY <1>3, <2>1
<1> HIDE DEF new, rows, moved
<1>9. /\ menuStack'.entries = new /\ menuStack'.rows = rows
      /\ menuStack' = [entries |-> menuStack'.entries, rows |-> menuStack'.rows]
  BY <1>1, <1>2, <1>6, <1>8 DEF StackTypeOK
<1>10. ASSUME NEW i \in 1..Len(es), es[i].linked
       PROVE  /\ new[i].index < Len(rows[es[i].parent])
              /\ rows[es[i].parent][new[i].index + 1] = es[i].row
  <2>1. PICK e : e = es[i]
    OBVIOUS
  <2>2. /\ e.parent \in Menus /\ e.index \in Nat
        /\ e.index < Len(menuStack.rows[e.parent])
        /\ menuStack.rows[e.parent][e.index + 1] = e.row
    BY <1>1, <1>10, <2>1, LinkedIndex
  <2>3. new[i].index = IF FollowsRowsOf(e, menu) /\ start <= e.index
                       THEN e.index + 1 ELSE e.index
    BY <1>3, <1>7, <1>8, <2>1
  <2>4. CASE e.parent # menu
    BY <1>6, <2>1, <2>2, <2>3, <2>4 DEF FollowsRowsOf
  <2>5. CASE e.parent = menu
    <3>1. FollowsRowsOf(e, menu) /\ rows[e.parent] = list
      BY <1>6, <1>10, <2>1, <2>5 DEF FollowsRowsOf
    <3>2. e.index < Len(old) /\ old[e.index + 1] = e.row
      BY <2>2, <2>5
    <3> HIDE DEF old
    <3>3. Len(list) = Len(old) + 1
      BY <1>5 DEF Inserted
    <3>4. CASE start <= e.index
      <4>1. e.index + 1 \in start + 1..Len(old) /\ new[i].index = e.index + 1
        BY <1>4, <2>2, <2>3, <3>1, <3>2, <3>4
      <4>2. list[(e.index + 1) + 1] = old[e.index + 1]
        BY <1>5, <4>1 DEF Inserted
      <4> QED
        BY <1>4, <2>1, <2>2, <3>1, <3>2, <3>3, <4>1, <4>2
    <3>5. CASE e.index < start
      <4>1. e.index + 1 \in 1..(start + 1) - 1 /\ new[i].index = e.index
        BY <2>2, <2>3, <3>5
      <4>2. list[e.index + 1] = old[e.index + 1]
        BY <1>5, <4>1 DEF Inserted
      <4> QED
        BY <1>4, <2>1, <2>2, <3>1, <3>2, <3>3, <4>1, <4>2
    <3> QED
      BY <2>2, <3>4, <3>5
  <2> QED
    BY <2>4, <2>5
<1>11. ASSUME NEW i \in 1..Len(new)
       PROVE  /\ new[i].menu = es[i].menu /\ new[i].parent = es[i].parent
              /\ new[i].linked = es[i].linked /\ new[i].row = es[i].row
  BY <1>3, <1>7, <1>8
<1>12. ASSUME NEW i \in 1..Len(new), es[i].linked
       PROVE  /\ new[i].index < Len(rows[new[i].parent])
              /\ rows[new[i].parent][new[i].index + 1] = new[i].row
  BY <1>8, <1>10, <1>11, <1>12
<1> HIDE DEF es
<1> QED
  BY <1>1, <1>6, <1>8, <1>9, <1>11, <1>12, StillFollow DEF es

LEMMA MenuRowsRemovedKeeps ==
    ASSUME StackInv, NEW menu \in Menus, NEW start \in Nat, NEW n \in Nat,
           MenuRowsRemoved(menu, start, n)
    PROVE  StackInv'
<1>1. PICK R : 0 \in R /\ StackTypeOK(R)
  BY DEF StackInv
<1> DEFINE es == menuStack.entries
           old == menuStack.rows[menu]
           gone == {i \in DOMAIN es : FollowsRowsOf(es[i], menu)
                                        /\ es[i].index \in start..start + n - 1}
           moved(e) == IF FollowsRowsOf(e, menu) /\ e.index >= start + n
                       THEN [e EXCEPT !.index = @ - n] ELSE e
           all == [i \in DOMAIN es |-> moved(es[i])]
           new == RemovedFrom(all, gone)
           list == SubSeq(old, 1, start) \o SubSeq(old, start + n + 1, Len(old))
           rows == [menuStack.rows EXCEPT ![menu] = list]
<1>2. /\ menuStack' = [menuStack EXCEPT !.rows = rows, !.entries = new]
      /\ n > 0 /\ start + n <= Len(old)
  BY <1>1 DEF MenuRowsRemoved, StackTypeOK
<1>3. /\ es \in Seq(Entries(R)) /\ Len(es) \in Nat /\ DOMAIN es = 1..Len(es)
      /\ \A i \in DOMAIN es : es[i] \in Entries(R)
      /\ menuStack.rows \in [Menus -> Seq(R)]
  BY <1>1, StackTypes
<1>4. old \in Seq(R) /\ Len(old) \in Nat
  BY <1>3, SequenceDomain
<1>5. list \in Seq(R) /\ Cut(list, old, start, start + n + 1)
  <2>1. /\ start \in Int /\ start + n + 1 \in Int /\ 0 <= start /\ start < start + n + 1
        /\ start + n + 1 <= Len(old) + 1
    BY <1>2, <1>4
  <2> HIDE DEF old
  <2> QED
    BY <1>4, <2>1, SequenceCut
<1> HIDE DEF list
<1>6. /\ rows \in [Menus -> Seq(R)] /\ rows[menu] = list
      /\ \A m \in Menus : m # menu => rows[m] = menuStack.rows[m]
  BY <1>3, <1>5
<1>7. ASSUME NEW i \in DOMAIN es
      PROVE  LET e == es[i] IN
             /\ moved(e) \in Entries(R)
             /\ moved(e).menu = e.menu /\ moved(e).parent = e.parent
             /\ moved(e).linked = e.linked /\ moved(e).row = e.row
             /\ moved(e).index = IF FollowsRowsOf(e, menu) /\ e.index >= start + n
                                 THEN e.index - n ELSE e.index
  <2>1. es[i] \in Entries(R)
    BY <1>3
  <2>2. es[i].index \in Nat /\ (es[i].index >= start + n => es[i].index - n \in Nat)
    BY <2>1 DEF Entries
  <2> QED
    BY <2>1, <2>2 DEF Entries
<1>8. /\ all \in Seq(Entries(R)) /\ Len(all) = Len(es) /\ DOMAIN all = DOMAIN es
      /\ \A i \in 1..Len(es) : all[i] = moved(es[i])
  <2>1. all \in [1..Len(es) -> Entries(R)]
    BY <1>3, <1>7
  <2> QED
    BY <1>3, <2>1
<1>9. gone \in SUBSET (DOMAIN all)
  BY <1>8
<1> HIDE DEF all, gone, moved
<1>10. /\ new \in Seq(Entries(R)) /\ Len(new) <= Len(es)
       /\ \A k \in 1..Len(new) : new[k] = all[k] /\ k \notin gone
  BY <1>8, <1>9, RemovedPrefix
<1> HIDE DEF new, rows
<1>11. /\ menuStack'.entries = new /\ menuStack'.rows = rows
       /\ menuStack' = [entries |-> menuStack'.entries, rows |-> menuStack'.rows]
  BY <1>1, <1>2, <1>6, <1>10 DEF StackTypeOK
<1>12. ASSUME NEW i \in 1..Len(new)
       PROVE  /\ i \in 1..Len(es) /\ i \notin gone /\ new[i] = moved(es[i])
              /\ new[i].menu = es[i].menu /\ new[i].parent = es[i].parent
              /\ new[i].linked = es[i].linked /\ new[i].row = es[i].row
              /\ new[i].index = IF FollowsRowsOf(es[i], menu) /\ es[i].index >= start + n
                                THEN es[i].index - n ELSE es[i].index
  <2>1. i \in 1..Len(es)
    <3>1. Len(new) \in Nat
      BY <1>10, SequenceDomain
    <3> QED
      BY <1>3, <1>10, <3>1
  <2>2. i \notin gone /\ new[i] = moved(es[i])
    BY <1>8, <1>10, <2>1
  <2> QED
    BY <1>3, <1>7, <2>1, <2>2
<1>13. ASSUME NEW i \in 1..Len(new), es[i].linked
       PROVE  /\ new[i].index < Len(rows[new[i].parent])
              /\ rows[new[i].parent][new[i].index + 1] = new[i].row
  <2>1. PICK e : e = es[i]
    OBVIOUS
  <2>2. /\ e.parent \in Menus /\ e.index \in Nat
        /\ e.index < Len(menuStack.rows[e.parent])
        /\ menuStack.rows[e.parent][e.index + 1] = e.row
    BY <1>1, <1>12, <1>13, <2>1, LinkedIndex
  <2>3. /\ new[i].index = IF FollowsRowsOf(e, menu) /\ e.index >= start + n
                          THEN e.index - n ELSE e.index
        /\ new[i].parent = e.parent /\ new[i].row = e.row
    BY <1>12, <2>1
  <2>4. CASE e.parent # menu
    BY <1>6, <2>2, <2>3, <2>4 DEF FollowsRowsOf
  <2>5. CASE e.parent = menu
    <3>1. FollowsRowsOf(e, menu) /\ rows[e.parent] = list
      BY <1>6, <1>13, <2>1, <2>5 DEF FollowsRowsOf
    <3>2. e.index < Len(old) /\ old[e.index + 1] = e.row
      BY <2>2, <2>5
    <3>3. e.index \notin start..start + n - 1
      BY <1>3, <1>12, <2>1, <3>1 DEF gone
    <3> HIDE DEF old, es
    <3>4. Len(list) = Len(old) - n
      <4>1. start + n + 1 - start - 1 = n
        OBVIOUS
      <4> QED
        BY <1>4, <1>5 DEF Cut
    <3>5. CASE e.index >= start + n
      <4>1. PICK k \in Int : k = e.index - n + 1
        BY <2>2
      <4>2. /\ new[i].index + 1 = k /\ k \in start + 1..Len(list)
            /\ k + ((start + n + 1) - start - 1) = e.index + 1
        <5>1. new[i].index = e.index - n
          BY <2>3, <3>1, <3>5
        <5>2. e.index \in Nat /\ e.index < Len(old)
          BY <2>2, <3>2
        <5> QED
          <6>1. n \in Nat /\ start \in Nat /\ Len(old) \in Nat /\ (start + n + 1) - start - 1 = n
            BY <1>4
          <6>2. PICK x \in Nat, o \in Nat : x = e.index /\ o = Len(old)
            BY <5>2, <6>1
          <6>3. new[i].index = x - n /\ k = x - n + 1 /\ Len(list) = o - n /\ x < o /\ x >= start + n
            BY <3>4, <3>5, <4>1, <5>1, <5>2, <6>2
          <6>4. k >= start + 1 /\ k <= o - n
            BY <6>1, <6>2, <6>3
          <6>5. k + n = x + 1 /\ (x - n) + 1 = k
            BY <6>1, <6>2, <6>3
          <6> QED
            BY <6>1, <6>2, <6>3, <6>4, <6>5
      <4>3. list[k] = old[e.index + 1]
        BY <1>5, <4>2 DEF Cut
      <4>4. new[i].index < Len(list)
        BY <1>4, <2>2, <2>3, <3>1, <3>2, <3>4, <3>5
      <4> QED
        BY <2>2, <2>3, <2>5, <3>1, <3>2, <4>2, <4>3, <4>4
    <3>6. CASE e.index < start
      <4>1. e.index + 1 \in 1..start /\ new[i].index = e.index
        BY <2>2, <2>3, <3>6
      <4>2. list[e.index + 1] = old[e.index + 1]
        BY <1>5, <4>1 DEF Cut
      <4>3. e.index < Len(list)
        BY <1>2, <1>4, <2>2, <3>4, <3>6
      <4> QED
        BY <2>2, <2>3, <2>5, <3>1, <3>2, <4>1, <4>2, <4>3
    <3> QED
      BY <2>2, <3>3, <3>5, <3>6
  <2> QED
    BY <2>4, <2>5
<1> HIDE DEF es
<1> QED
  BY <1>1, <1>6, <1>10, <1>11, <1>12, <1>13, StillFollow DEF es

LEMMA StackKept == StackInv /\ [StackNext]_menuStack => StackInv'
<1> SUFFICES ASSUME StackInv, [StackNext]_menuStack PROVE StackInv'
  OBVIOUS
<1>1. CASE menuStack' = menuStack
  BY <1>1 DEF StackInv, StackTypeOK, EntryFollows
<1>2. ASSUME NEW menu \in Menus \cup {NoMenu}, SetHead(menu) PROVE StackInv'
  BY <1>2, SetHeadKeeps
<1>3. ASSUME NEW menu \in Menus, NEW index \in Nat, PushMenu(menu, index) PROVE StackInv'
  BY <1>3, PushMenuKeeps
<1>4. CASE PopMenu
  BY <1>4, PopMenuKeeps
<1>5. ASSUME NEW menu \in Menus, NEW start \in Nat, MenuRowInserted(menu, start) PROVE StackInv'
  BY <1>5, MenuRowInsertedKeeps
<1>6. ASSUME NEW menu \in Menus, NEW start \in Nat, NEW n \in Nat,
             MenuRowsRemoved(menu, start, n)
      PROVE  StackInv'
  BY <1>6, MenuRowsRemovedKeeps
<1>7. ASSUME NEW menu \in Menus, MenuReset(menu) PROVE StackInv'
  BY <1>7, MenuResetKeeps
<1> QED
  BY <1>1, <1>2, <1>3, <1>4, <1>5, <1>6, <1>7 DEF StackNext

\* Whatever rows come and go below, a submenu on the stack is the one of the row it was
\* entered through, which exists; what the panel shows of an indicator is what its first
\* row or its action says now (UnityMenuModelEntry, UnityMenuModelStack::onRemove(),
\* updateActionState() of either root state).
THEOREM MenusStayCurrent == StackSpec /\ RootSpec => []ShownMenusAreCurrent
<1>1. StackInv /\ RootInv => ShownMenusAreCurrent
  BY DEF StackInv, EntryFollows, RootInv, ShownMenusAreCurrent, StackFollowsRows
<1> QED
  BY <1>1, StackStarts, StackKept, RootStarts, RootKept, PTL DEF StackSpec, RootSpec

-----------------------------------------------------------------------------
(***************************************************************************)
(* QLimitProxyModelQML and a view that follows it.                         *)
(***************************************************************************)
\* How many rows the proxy has, and that they are the first ones.
Count(rows, lim) == IF lim = NoLimit \/ Len(rows) <= lim THEN Len(rows) ELSE lim

Shows(t, rows, lim) ==
    /\ Len(t) = Count(rows, lim)
    /\ \A k \in 1..Len(t) : t[k] = rows[k]

LEMMA LimitedShows ==
    ASSUME NEW A, NEW rows \in Seq(A), NEW lim \in Nat \cup {NoLimit}
    PROVE  /\ Limited(rows, lim) \in Seq(A) /\ Shows(Limited(rows, lim), rows, lim)
           /\ Count(rows, lim) \in 0..Len(rows)
           /\ \A t \in Seq(A) : Shows(t, rows, lim) => t = Limited(rows, lim)
<1> DEFINE l == Limited(rows, lim)
<1>1. Len(rows) \in Nat
  BY SequenceDomain
<1>2. l \in Seq(A) /\ Shows(l, rows, lim)
  <2>1. CASE lim = NoLimit \/ Len(rows) <= lim
    BY <2>1 DEF Limited, Shows, Count
  <2>2. CASE ~(lim = NoLimit \/ Len(rows) <= lim)
    <3>1. lim \in Int /\ 0 <= lim /\ lim <= Len(rows) /\ l = SubSeq(rows, 1, lim)
      BY <1>1, <2>2 DEF Limited
    <3>2. l \in Seq(A) /\ Len(l) = lim /\ \A k \in 1..lim : l[k] = rows[k]
      BY <3>1, SequencePrefix
    <3> QED
      BY <2>2, <3>2 DEF Shows, Count
  <2> QED
    BY <2>1, <2>2
<1>3. ASSUME NEW t \in Seq(A), Shows(t, rows, lim) PROVE t = l
  <2>1. Len(t) = Len(l) /\ \A k \in 1..Len(t) : t[k] = l[k]
    BY <1>2, <1>3 DEF Shows
  <2> HIDE DEF l
  <2> QED
    BY <1>2, <2>1, SeqEqual
<1>4. Count(rows, lim) \in 0..Len(rows)
  BY <1>1 DEF Count
<1> QED
  BY <1>2, <1>3, <1>4

\* What a view does with each of the signals.
LEMMA RemovedRows ==
    ASSUME NEW A, NEW rows \in Seq(A), NEW first \in Nat, NEW last \in Nat,
           first <= last, last < Len(rows)
    PROVE  LET t == OnRemoved(rows, Span(first, last))
           IN  t \in Seq(A) /\ Cut(t, rows, first, last + 2)
<1>1. Len(rows) \in Nat
  BY SequenceDomain
<1>2. first \in Int /\ last + 2 \in Int /\ 0 <= first /\ first < last + 2 /\ last + 2 <= Len(rows) + 1
  BY <1>1
<1> QED
  BY <1>2, SequenceCut DEF OnRemoved, Span

Inserting(t, rows, first, last, now) ==
    /\ Len(t) = Len(rows) + (last - first + 1)
    /\ \A k \in 1..first : t[k] = rows[k]
    /\ \A k \in first + 1..last + 1 : t[k] = now[k]
    /\ \A k \in last + 2..Len(t) : t[k] = rows[k - (last - first + 1)]

LEMMA InsertedRows ==
    ASSUME NEW A, NEW rows \in Seq(A), NEW now \in Seq(A),
           NEW first \in 0..Len(rows), NEW last \in Nat, first <= last, last < Len(now)
    PROVE  LET t == OnInserted(rows, Span(first, last), now)
           IN  t \in Seq(A) /\ Inserting(t, rows, first, last, now)
<1> DEFINE m == SubSeq(now, first + 1, last + 1)
           t == SubSeq(rows, 1, first) \o m \o SubSeq(rows, first + 1, Len(rows))
<1>1. Len(rows) \in Nat /\ Len(now) \in Nat /\ first \in Nat
  BY SequenceDomain
<1>2. t = OnInserted(rows, Span(first, last), now)
  BY DEF OnInserted, Span
<1>3. /\ m \in Seq(A) /\ Len(m) = last - first + 1
      /\ \A k \in 1..Len(m) : m[k] = now[k + first]
  <2>1. \A k \in first + 1..last + 1 : now[k] \in A
    BY <1>1, SequenceDomain
  <2>2. /\ m \in Seq(A)
        /\ Len(m) = IF first + 1 <= last + 1 THEN (last + 1) - (first + 1) + 1 ELSE 0
        /\ \A k \in 1..(last + 1) - (first + 1) + 1 : m[k] = now[(first + 1) + k - 1]
    BY <1>1, <2>1, SubSeqProperties
  <2>3. Len(m) = last - first + 1 /\ (last + 1) - (first + 1) + 1 = last - first + 1
    BY <1>1, <2>2
  <2>4. ASSUME NEW k \in 1..Len(m) PROVE m[k] = now[k + first]
    <3>1. (first + 1) + k - 1 = k + first
      BY <1>1, <2>3
    <3> QED
      BY <2>2, <2>3, <3>1
  <2> QED
    BY <2>2, <2>3, <2>4
<1> HIDE DEF m
<1>4. t \in Seq(A) /\ Spliced(t, rows, first, m)
  BY <1>3, SequenceSpliced, Zenon
<1> HIDE DEF t
<1>5. Len(t) = Len(rows) + (last - first + 1) /\ first + Len(m) = last + 1
  BY <1>1, <1>3, <1>4 DEF Spliced
<1>6. ASSUME NEW k \in first + 1..last + 1 PROVE t[k] = now[k]
  <2>1. PICK j \in 1..Len(m) : j = k - first
    BY <1>1, <1>3
  <2>2. t[k] = m[j] /\ j + first = k
    BY <1>1, <1>4, <1>5, <2>1 DEF Spliced
  <2> QED
    BY <1>3, <2>2
<1>7. ASSUME NEW k \in last + 2..Len(t) PROVE t[k] = rows[k - (last - first + 1)]
  <2>1. k \in first + Len(m) + 1..Len(t)
    BY <1>1, <1>5
  <2> QED
    BY <1>3, <1>4, <2>1 DEF Spliced
<1> QED
  BY <1>2, <1>4, <1>5, <1>6, <1>7 DEF Spliced, Inserting

Changing(t, rows, first, last, now) ==
    /\ Len(t) = Len(rows)
    /\ \A k \in 1..Len(t) : t[k] = IF first < k /\ k <= last + 1 THEN now[k] ELSE rows[k]

LEMMA ChangedRows ==
    ASSUME NEW A, NEW rows \in Seq(A), NEW now \in Seq(A), NEW first \in Int, NEW last \in Int,
           0 <= first, last < Len(now) \/ Len(rows) <= Len(now)
    PROVE  LET t == OnChanged(rows, Span(first, last), now)
           IN  t \in Seq(A) /\ Changing(t, rows, first, last, now)
<1> DEFINE t == OnChanged(rows, Span(first, last), now)
<1>1. /\ Len(rows) \in Nat /\ DOMAIN rows = 1..Len(rows) /\ \A k \in DOMAIN rows : rows[k] \in A
      /\ Len(now) \in Nat /\ \A k \in 1..Len(now) : now[k] \in A
  BY SequenceDomain
<1>2. t = [k \in 1..Len(rows) |-> IF k - 1 \in first..last THEN now[k] ELSE rows[k]]
  BY <1>1 DEF OnChanged, Span
<1> HIDE DEF t
<1>3. ASSUME NEW k \in 1..Len(rows)
      PROVE  /\ t[k] = IF first < k /\ k <= last + 1 THEN now[k] ELSE rows[k]
             /\ t[k] \in A
  <2>1. k - 1 \in first..last <=> first < k /\ k <= last + 1
    BY <1>1
  <2>2. t[k] = IF first < k /\ k <= last + 1 THEN now[k] ELSE rows[k]
    BY <1>2, <2>1
  <2>3. first < k /\ k <= last + 1 => k \in 1..Len(now)
    BY <1>1
  <2> QED
    BY <1>1, <2>2, <2>3
<1>4. t \in Seq(A) /\ Len(t) = Len(rows)
  BY <1>1, <1>2, <1>3, LenProperties
<1> QED
  BY <1>3, <1>4 DEF t, Changing

ProxyRows == Values \cup {Blank}

ProxyInv ==
    /\ source \in Seq(ProxyRows) /\ limit \in Nat \cup {NoLimit}
    /\ ViewFollowsProxy

\* What a step has to show of the rows the view has after it.
LEMMA ProxyKept ==
    ASSUME NEW rows \in Seq(ProxyRows), source' = rows,
           NEW lim \in Nat \cup {NoLimit}, limit' = lim,
           shownRows' \in Seq(ProxyRows), Shows(shownRows', rows, lim)
    PROVE  ProxyInv'
  BY LimitedShows DEF ProxyInv, ViewFollowsProxy

LEMMA ProxyShows ==
    ASSUME ProxyInv
    PROVE  /\ Len(source) \in Nat /\ shownRows \in Seq(ProxyRows)
           /\ Shows(shownRows, source, limit)
           /\ Count(source, limit) \in 0..Len(source)
  BY LimitedShows, SequenceDomain DEF ProxyInv, ViewFollowsProxy

LEMMA NoSpans ==
    /\ \A f, l \in Nat : Span(f, l) # Nothing
    /\ Nothing = Span(0, -1)
<1>1. ASSUME NEW f \in Nat, NEW l \in Nat PROVE Span(f, l).last = l /\ Nothing.last = -1
  BY DEF Span, Nothing
<1>2. ASSUME NEW f \in Nat, NEW l \in Nat PROVE Span(f, l) # Nothing
  <2>1. l # -1
    OBVIOUS
  <2> QED
    BY <1>1, <2>1
<1> QED
  BY <1>2 DEF Span, Nothing

LEMMA InsertSourceRowsKeeps ==
    ASSUME ProxyInv, NEW start \in Nat, NEW count \in Nat \ {0}, InsertSourceRows(start, count)
    PROVE  ProxyInv'
<1> DEFINE rows == RowsWith(start, count)
           n == Len(source)
           now == Limited(rows, limit)
           blanks == [i \in 1..count |-> Blank]
<1>1. /\ n \in Nat /\ shownRows \in Seq(ProxyRows) /\ Shows(shownRows, source, limit)
      /\ source \in Seq(ProxyRows) /\ limit \in Nat \cup {NoLimit} /\ start \in 0..n
  BY ProxyShows DEF ProxyInv, InsertSourceRows
<1>2. /\ rows \in Seq(ProxyRows) /\ Len(rows) = n + count
      /\ \A k \in 1..start : rows[k] = source[k]
      /\ \A k \in start + count + 1..n + count : rows[k] = source[k - count]
  <2>1. blanks \in Seq(ProxyRows) /\ Len(blanks) = count
    BY LenProperties DEF ProxyRows
  <2>2. rows \in Seq(ProxyRows) /\ Spliced(rows, source, start, blanks)
    BY <1>1, <2>1, SequenceSpliced, Zenon DEF RowsWith
  <2> QED
    BY <1>1, <2>1, <2>2 DEF Spliced
<1>3. /\ now \in Seq(ProxyRows) /\ Len(now) = Count(rows, limit)
      /\ \A k \in 1..Len(now) : now[k] = rows[k]
  <2>1. now \in Seq(ProxyRows) /\ Shows(now, rows, limit)
    BY <1>1, <1>2, LimitedShows
  <2> QED
    BY <2>1 DEF Shows
<1>4. /\ source' = rows /\ limit' = limit
      /\ shownRows' = Follow(shownRows, Nothing, InsertionSpans(start, count).inserted,
                             InsertionSpans(start, count).changed, now)
  BY DEF InsertSourceRows
<1> SUFFICES shownRows' \in Seq(ProxyRows) /\ Shows(shownRows', rows, limit)
  BY <1>1, <1>2, <1>4, ProxyKept
<1> HIDE DEF rows, now, blanks
<1>5. CASE limit = NoLimit \/ (start < limit /\ n + count <= limit)
  <2>1. /\ InsertionSpans(start, count).inserted = Span(start, start + count - 1)
        /\ InsertionSpans(start, count).changed = Nothing
    BY <1>1, <1>5 DEF InsertionSpans
  <2> DEFINE b == OnInserted(shownRows, Span(start, start + count - 1), now)
  <2>2. Len(shownRows) = n /\ Len(now) = n + count
    BY <1>1, <1>2, <1>3, <1>5 DEF Shows, Count
  <2>3. /\ b \in Seq(ProxyRows) /\ Len(b) = n + count
        /\ \A k \in 1..n + count : b[k] = rows[k]
    <3>1. start \in 0..Len(shownRows) /\ start + count - 1 \in Nat /\ start <= start + count - 1
          /\ start + count - 1 < Len(now)
      BY <1>1, <2>2
    <3>0. b \in Seq(ProxyRows) /\ Inserting(b, shownRows, start, start + count - 1, now)
      BY <1>1, <1>3, <3>1, InsertedRows, Zenon
    <3> HIDE DEF b
    <3>2. /\ Len(b) = Len(shownRows) + ((start + count - 1) - start + 1)
          /\ \A k \in 1..start : b[k] = shownRows[k]
          /\ \A k \in start + 1..(start + count - 1) + 1 : b[k] = now[k]
          /\ \A k \in (start + count - 1) + 2..Len(b) :
                b[k] = shownRows[k - ((start + count - 1) - start + 1)]
      BY <3>0 DEF Inserting
    <3>3. Len(b) = n + count /\ (start + count - 1) - start + 1 = count
      <4>1. n \in Nat /\ count \in Nat /\ start \in Nat
        BY <1>1
      <4>2. (start + count - 1) - start + 1 = count
        BY <4>1
      <4> QED
        BY <2>2, <3>2, <4>2
    <3>4. ASSUME NEW k \in 1..n + count PROVE b[k] = rows[k]
      <4>1. CASE k <= start
        BY <1>1, <1>2, <2>2, <3>2, <4>1 DEF Shows
      <4>2. CASE start < k /\ k <= start + count
        BY <1>1, <1>3, <2>2, <3>2, <4>2
      <4>3. CASE start + count < k
        <5>1. k - count \in 1..n /\ k \in (start + count - 1) + 2..Len(b)
          BY <1>1, <3>3, <4>3
        <5>2. b[k] = shownRows[k - count]
          BY <3>2, <3>3, <5>1
        <5>3. shownRows[k - count] = source[k - count]
          BY <1>1, <2>2, <5>1 DEF Shows
        <5>4. rows[k] = source[k - count]
          BY <1>1, <1>2, <4>3
        <5> QED
          BY <5>2, <5>3, <5>4
      <4> QED
        BY <1>1, <4>1, <4>2, <4>3
    <3> QED
      BY <3>0, <3>3, <3>4
  <2>4. shownRows' = OnChanged(b, Span(0, -1), now)
    <3>1. start + count - 1 \in Nat
      OBVIOUS
    <3> QED
      BY <1>4, <2>1, <3>1, NoSpans DEF Follow
  <2> HIDE DEF b
  <2>5. /\ shownRows' \in Seq(ProxyRows) /\ Len(shownRows') = n + count
        /\ \A k \in 1..n + count : shownRows'[k] = b[k]
    <3>1. 0 \in Int /\ -1 \in Int /\ 0 <= 0 /\ Len(b) <= Len(now)
      BY <1>1, <2>2, <2>3
    <3>2. shownRows' \in Seq(ProxyRows) /\ Changing(shownRows', b, 0, -1, now)
      BY <1>3, <2>3, <2>4, <3>1, ChangedRows, Zenon
    <3> QED
      BY <1>1, <2>3, <3>2 DEF Changing
  <2> QED
    BY <1>2, <1>3, <2>2, <2>3, <2>5 DEF Shows
<1>6. CASE limit # NoLimit /\ start < limit /\ n >= limit
  <2>1. /\ InsertionSpans(start, count).inserted = Nothing
        /\ InsertionSpans(start, count).changed = Span(start, limit - 1)
    BY <1>1, <1>6 DEF InsertionSpans
  <2>2. limit \in Nat /\ Len(shownRows) = limit /\ Len(now) = limit
    BY <1>1, <1>2, <1>3, <1>6 DEF Shows, Count
  <2>3. shownRows' = OnChanged(shownRows, Span(start, limit - 1), now)
    BY <1>4, <2>1 DEF Follow
  <2>4. /\ shownRows' \in Seq(ProxyRows) /\ Len(shownRows') = limit
        /\ \A k \in 1..limit : shownRows'[k] = IF start < k THEN now[k] ELSE shownRows[k]
    <3>1. start \in Int /\ limit - 1 \in Int /\ 0 <= start /\ Len(shownRows) <= Len(now)
      BY <1>1, <2>2
    <3>2. shownRows' \in Seq(ProxyRows) /\ Changing(shownRows', shownRows, start, limit - 1, now)
      BY <1>1, <1>3, <2>3, <3>1, ChangedRows, Zenon
    <3> QED
      BY <1>1, <2>2, <3>2 DEF Changing
  <2>5. ASSUME NEW k \in 1..limit PROVE shownRows'[k] = rows[k]
    BY <1>1, <1>2, <1>3, <2>2, <2>4 DEF Shows
  <2> QED
    BY <1>3, <2>2, <2>4, <2>5 DEF Shows
<1>7. CASE limit # NoLimit /\ start < limit /\ n < limit /\ n + count > limit
  <2> DEFINE end == start + (limit - n) - 1
             b == OnInserted(shownRows, Span(start, end), now)
  <2>1. /\ InsertionSpans(start, count).inserted = Span(start, end)
        /\ InsertionSpans(start, count).changed = Span(start + (limit - n), limit - 1)
    BY <1>1, <1>7 DEF InsertionSpans
  <2>2. limit \in Nat /\ Len(shownRows) = n /\ Len(now) = limit
    BY <1>1, <1>2, <1>3, <1>7 DEF Shows, Count
  <2>3. end \in Nat /\ start <= end /\ end < Len(now) /\ end - start + 1 = limit - n
    BY <1>1, <1>7, <2>2
  <2>4. /\ b \in Seq(ProxyRows) /\ Len(b) = limit
        /\ \A k \in 1..start : b[k] = shownRows[k]
        /\ \A k \in start + 1..end + 1 : b[k] = now[k]
    <3>1. start \in 0..Len(shownRows)
      BY <1>1, <2>2
    <3>2. b \in Seq(ProxyRows) /\ Inserting(b, shownRows, start, end, now)
      BY <1>1, <1>3, <2>3, <3>1, InsertedRows, Zenon
    <3> QED
      BY <1>1, <2>2, <2>3, <3>2 DEF Inserting
  <2>5. shownRows' = OnChanged(b, Span(start + (limit - n), limit - 1), now)
    BY <1>4, <2>1, <2>3, NoSpans DEF Follow
  <2> HIDE DEF b
  <2>6. /\ shownRows' \in Seq(ProxyRows) /\ Len(shownRows') = limit
        /\ \A k \in 1..limit : shownRows'[k] = IF start + (limit - n) < k THEN now[k] ELSE b[k]
    <3>1. /\ start + (limit - n) \in Int /\ limit - 1 \in Int /\ 0 <= start + (limit - n)
          /\ Len(b) <= Len(now)
      BY <1>1, <1>7, <2>2, <2>4
    <3>2. /\ shownRows' \in Seq(ProxyRows)
          /\ Changing(shownRows', b, start + (limit - n), limit - 1, now)
      BY <1>3, <2>4, <2>5, <3>1, ChangedRows, Zenon
    <3> QED
      BY <1>1, <2>2, <2>4, <3>2 DEF Changing
  <2>7. ASSUME NEW k \in 1..limit PROVE shownRows'[k] = rows[k]
    <3>1. CASE k <= start
      <4>1. k \in 1..start /\ k \in 1..Len(shownRows) /\ ~(start + (limit - n) < k)
        BY <1>1, <1>7, <2>2, <3>1
      <4>2. shownRows[k] = source[k]
        BY <1>1, <4>1 DEF Shows
      <4>3. shownRows'[k] = b[k] /\ b[k] = shownRows[k]
        BY <2>4, <2>6, <4>1
      <4> QED
        BY <1>2, <4>1, <4>2, <4>3
    <3>2. CASE start < k
      <4>1. k \in 1..Len(now) /\ k \in 1..limit
        BY <2>2
      <4>2. now[k] = rows[k]
        BY <1>3, <4>1
      <4>3. ~(start + (limit - n) < k) => k \in start + 1..end + 1
        BY <1>1, <2>2, <3>2
      <4>4. ~(start + (limit - n) < k) => b[k] = now[k]
        BY <2>4, <4>3
      <4> QED
        BY <2>6, <4>1, <4>2, <4>4
    <3> QED
      BY <1>1, <3>1, <3>2
  <2> QED
    BY <1>3, <2>2, <2>6, <2>7 DEF Shows
<1>8. CASE limit # NoLimit /\ start >= limit
  <2>1. /\ InsertionSpans(start, count).inserted = Nothing
        /\ InsertionSpans(start, count).changed = Nothing
    BY <1>1, <1>8 DEF InsertionSpans
  <2>2. limit \in Nat /\ Len(shownRows) = limit /\ Len(now) = limit
    BY <1>1, <1>2, <1>3, <1>8 DEF Shows, Count
  <2>3. shownRows' = OnChanged(shownRows, Span(0, -1), now)
    BY <1>4, <2>1, NoSpans DEF Follow
  <2>4. /\ shownRows' \in Seq(ProxyRows) /\ Len(shownRows') = limit
        /\ \A k \in 1..limit : shownRows'[k] = shownRows[k]
    <3>1. 0 \in Int /\ -1 \in Int /\ 0 <= 0 /\ Len(shownRows) <= Len(now)
      BY <2>2
    <3>2. shownRows' \in Seq(ProxyRows) /\ Changing(shownRows', shownRows, 0, -1, now)
      BY <1>1, <1>3, <2>3, <3>1, ChangedRows, Zenon
    <3> QED
      BY <2>2, <3>2 DEF Changing
  <2>5. ASSUME NEW k \in 1..limit PROVE shownRows'[k] = rows[k]
    <3>1. k \in 1..start /\ k \in 1..Len(shownRows)
      BY <1>1, <1>8, <2>2
    <3>2. shownRows[k] = source[k]
      BY <1>1, <3>1 DEF Shows
    <3> QED
      BY <1>2, <2>4, <3>1, <3>2
  <2> QED
    BY <1>3, <2>2, <2>4, <2>5 DEF Shows
<1> QED
  BY <1>1, <1>5, <1>6, <1>7, <1>8

LEMMA RemoveSourceRowsKeeps ==
    ASSUME ProxyInv, NEW start \in Nat, NEW count \in Nat \ {0}, RemoveSourceRows(start, count)
    PROVE  ProxyInv'
<1> DEFINE rows == RowsWithout(start, count)
           n == Len(source)
           now == Limited(rows, limit)
<1>1. /\ n \in Nat /\ shownRows \in Seq(ProxyRows) /\ Shows(shownRows, source, limit)
      /\ source \in Seq(ProxyRows) /\ limit \in Nat \cup {NoLimit} /\ start + count <= n
      /\ n - count \in Nat
  BY ProxyShows DEF ProxyInv, RemoveSourceRows
<1>2. /\ rows \in Seq(ProxyRows) /\ Len(rows) = n - count
      /\ \A k \in 1..start : rows[k] = source[k]
      /\ \A k \in start + 1..n - count : rows[k] = source[k + count]
  <2>1. start \in Int /\ start + count + 1 \in Int /\ 0 <= start /\ start < start + count + 1
        /\ start + count + 1 <= Len(source) + 1
    BY <1>1
  <2>2. rows \in Seq(ProxyRows) /\ Cut(rows, source, start, start + count + 1)
    BY <1>1, <2>1, SequenceCut, Zenon DEF RowsWithout
  <2>3. (start + count + 1) - start - 1 = count
    BY <1>1
  <2> QED
    BY <1>1, <2>2, <2>3 DEF Cut
<1>3. /\ now \in Seq(ProxyRows) /\ Len(now) = Count(rows, limit)
      /\ \A k \in 1..Len(now) : now[k] = rows[k]
  <2>1. now \in Seq(ProxyRows) /\ Shows(now, rows, limit)
    BY <1>1, <1>2, LimitedShows
  <2> QED
    BY <2>1 DEF Shows
<1>4. /\ source' = rows /\ limit' = limit
      /\ shownRows' = Follow(shownRows, RemovalSpans(start, count).removed, Nothing,
                             RemovalSpans(start, count).changed, now)
  BY DEF RemoveSourceRows
<1> SUFFICES shownRows' \in Seq(ProxyRows) /\ Shows(shownRows', rows, limit)
  BY <1>1, <1>2, <1>4, ProxyKept
<1> HIDE DEF rows, now
<1>5. CASE limit = NoLimit \/ (start < limit /\ n <= limit)
  <2> DEFINE end == start + count - 1
             b == OnRemoved(shownRows, Span(start, end))
  <2>1. RemovalSpans(start, count).removed = Span(start, end)
        /\ RemovalSpans(start, count).changed = Nothing
    BY <1>1, <1>5 DEF RemovalSpans
  <2>2. Len(shownRows) = n /\ Len(now) = n - count
    BY <1>1, <1>2, <1>3, <1>5 DEF Shows, Count
  <2>3. end \in Nat /\ start <= end /\ end < Len(shownRows) /\ (end + 2) - start - 1 = count
    BY <1>1, <2>2
  <2>4. /\ b \in Seq(ProxyRows) /\ Len(b) = n - count
        /\ \A k \in 1..n - count : b[k] = rows[k]
    <3>1. b \in Seq(ProxyRows) /\ Cut(b, shownRows, start, end + 2)
      BY <1>1, <2>3, RemovedRows, Zenon
    <3> HIDE DEF b, end
    <3>2. Len(b) = n - count
      BY <1>1, <2>2, <2>3, <3>1 DEF Cut
    <3>3. ASSUME NEW k \in 1..n - count PROVE b[k] = rows[k]
      <4>1. CASE k <= start
        BY <1>1, <1>2, <2>2, <3>1, <4>1 DEF Shows, Cut
      <4>2. CASE start < k
        <5>0. k \in start + 1..Len(b) /\ k + ((end + 2) - start - 1) = k + count
          BY <1>1, <2>3, <3>2, <4>2
        <5>1. b[k] = shownRows[k + count]
          BY <3>1, <5>0 DEF Cut
        <5>2. shownRows[k + count] = source[k + count]
          BY <1>1, <2>2 DEF Shows
        <5>3. rows[k] = source[k + count]
          BY <1>1, <1>2, <4>2
        <5> QED
          BY <5>1, <5>2, <5>3
      <4> QED
        BY <4>1, <4>2
    <3> QED
      BY <3>1, <3>2, <3>3
  <2>5. shownRows' = OnChanged(b, Span(0, -1), now)
    BY <1>4, <2>1, <2>3, NoSpans DEF Follow
  <2> HIDE DEF b
  <2>6. /\ shownRows' \in Seq(ProxyRows) /\ Len(shownRows') = n - count
        /\ \A k \in 1..n - count : shownRows'[k] = b[k]
    <3>1. 0 \in Int /\ -1 \in Int /\ 0 <= 0 /\ Len(b) <= Len(now)
      BY <1>1, <2>2, <2>4
    <3>2. shownRows' \in Seq(ProxyRows) /\ Changing(shownRows', b, 0, -1, now)
      BY <1>3, <2>4, <2>5, <3>1, ChangedRows, Zenon
    <3> QED
      BY <1>1, <2>4, <3>2 DEF Changing
  <2> QED
    BY <1>3, <2>2, <2>4, <2>6 DEF Shows
<1>6. CASE limit # NoLimit /\ start < limit /\ n > limit /\ n - count >= limit
  <2>1. /\ RemovalSpans(start, count).removed = Nothing
        /\ RemovalSpans(start, count).changed = Span(start, limit - 1)
    BY <1>1, <1>6 DEF RemovalSpans
  <2>2. limit \in Nat /\ Len(shownRows) = limit /\ Len(now) = limit
    <3>1. limit \in Nat /\ Count(source, limit) = limit
      BY <1>1, <1>6 DEF Count
    <3>2. Len(rows) \in Nat /\ Len(rows) >= limit
      BY <1>1, <1>2, <1>6, <3>1
    <3>3. Count(rows, limit) = limit
      BY <1>6, <3>1, <3>2 DEF Count
    <3> QED
      BY <1>1, <1>3, <3>1, <3>3 DEF Shows
  <2>3. shownRows' = OnChanged(shownRows, Span(start, limit - 1), now)
    BY <1>4, <2>1 DEF Follow
  <2>4. /\ shownRows' \in Seq(ProxyRows) /\ Len(shownRows') = limit
        /\ \A k \in 1..limit : shownRows'[k] = IF start < k THEN now[k] ELSE shownRows[k]
    <3>1. start \in Int /\ limit - 1 \in Int /\ 0 <= start /\ Len(shownRows) <= Len(now)
      BY <1>1, <2>2
    <3>2. shownRows' \in Seq(ProxyRows) /\ Changing(shownRows', shownRows, start, limit - 1, now)
      BY <1>1, <1>3, <2>3, <3>1, ChangedRows, Zenon
    <3> QED
      BY <1>1, <2>2, <3>2 DEF Changing
  <2>5. ASSUME NEW k \in 1..limit PROVE shownRows'[k] = rows[k]
    BY <1>1, <1>2, <1>3, <2>2, <2>4 DEF Shows
  <2> QED
    BY <1>3, <2>2, <2>4, <2>5 DEF Shows
<1>7. CASE limit # NoLimit /\ start < limit /\ n > limit /\ n - count < limit
  <2> DEFINE gone == limit - (n - count)
             b == OnRemoved(shownRows, Span(limit - gone, limit - 1))
  <2>1. /\ RemovalSpans(start, count).removed = Span(limit - gone, limit - 1)
        /\ RemovalSpans(start, count).changed = Span(start, limit - gone - 1)
    BY <1>1, <1>7 DEF RemovalSpans
  <2>2. limit \in Nat /\ Len(shownRows) = limit /\ Len(now) = n - count
    BY <1>1, <1>2, <1>3, <1>7 DEF Shows, Count
  <2>3. /\ limit - gone \in Nat /\ limit - 1 \in Nat /\ limit - gone <= limit - 1
        /\ limit - 1 < Len(shownRows) /\ limit - gone = n - count
    BY <1>1, <1>7, <2>2
  <2>4. /\ b \in Seq(ProxyRows) /\ Len(b) = n - count
        /\ \A k \in 1..n - count : b[k] = shownRows[k]
    <3>1. b \in Seq(ProxyRows) /\ Cut(b, shownRows, limit - gone, (limit - 1) + 2)
      BY <1>1, <2>3, RemovedRows, Zenon
    <3>2. Len(shownRows) - (((limit - 1) + 2) - (limit - gone) - 1) = n - count
      BY <1>1, <2>2
    <3> QED
      BY <2>3, <3>1, <3>2 DEF Cut
  <2>5. shownRows' = OnChanged(b, Span(start, limit - gone - 1), now)
    BY <1>4, <2>1, <2>3, NoSpans DEF Follow
  <2> HIDE DEF b
  <2>6. /\ shownRows' \in Seq(ProxyRows) /\ Len(shownRows') = n - count
        /\ \A k \in 1..n - count : shownRows'[k] = IF start < k THEN now[k] ELSE b[k]
    <3>1. start \in Int /\ limit - gone - 1 \in Int /\ 0 <= start /\ Len(b) <= Len(now)
      BY <1>1, <2>2, <2>3, <2>4
    <3>2. shownRows' \in Seq(ProxyRows) /\ Changing(shownRows', b, start, limit - gone - 1, now)
      BY <1>3, <2>4, <2>5, <3>1, ChangedRows, Zenon
    <3>3. (limit - gone - 1) + 1 = n - count
      BY <1>1, <2>2
    <3>4. /\ Len(shownRows') = Len(b)
          /\ \A k \in 1..Len(shownRows') :
                shownRows'[k] = IF start < k /\ k <= (limit - gone - 1) + 1 THEN now[k] ELSE b[k]
      BY <3>2 DEF Changing
    <3>5. \A k \in 1..n - count : k <= n - count
      BY <1>1
    <3> HIDE DEF n, gone
    <3> QED
      BY <2>4, <3>2, <3>3, <3>4, <3>5
  <2>7. ASSUME NEW k \in 1..n - count PROVE shownRows'[k] = rows[k]
    <3>1. CASE k <= start
      <4>1. k \in 1..start /\ k \in 1..Len(shownRows)
        BY <1>1, <1>7, <2>2, <3>1
      <4>2. shownRows[k] = source[k]
        BY <1>1, <4>1 DEF Shows
      <4> QED
        BY <1>1, <1>2, <2>4, <2>6, <3>1, <4>1, <4>2
    <3>2. CASE start < k
      BY <1>1, <1>3, <2>2, <2>6, <3>2
    <3> QED
      BY <1>1, <3>1, <3>2
  <2> QED
    BY <1>3, <2>2, <2>6, <2>7 DEF Shows
<1>8. CASE limit # NoLimit /\ start >= limit
  <2>1. /\ RemovalSpans(start, count).removed = Nothing
        /\ RemovalSpans(start, count).changed = Nothing
    BY <1>1, <1>8 DEF RemovalSpans
  <2>2. limit \in Nat /\ Len(shownRows) = limit /\ Len(now) = limit
    <3>1. limit \in Nat /\ Count(source, limit) = limit
      BY <1>1, <1>8 DEF Count
    <3>2. Len(rows) \in Nat /\ Len(rows) >= limit
      BY <1>1, <1>2, <1>8, <3>1
    <3>3. Count(rows, limit) = limit
      BY <1>8, <3>1, <3>2 DEF Count
    <3> QED
      BY <1>1, <1>3, <3>1, <3>3 DEF Shows
  <2>3. shownRows' = OnChanged(shownRows, Span(0, -1), now)
    BY <1>4, <2>1, NoSpans DEF Follow
  <2>4. /\ shownRows' \in Seq(ProxyRows) /\ Len(shownRows') = limit
        /\ \A k \in 1..limit : shownRows'[k] = shownRows[k]
    <3>1. 0 \in Int /\ -1 \in Int /\ 0 <= 0 /\ Len(shownRows) <= Len(now)
      BY <2>2
    <3>2. shownRows' \in Seq(ProxyRows) /\ Changing(shownRows', shownRows, 0, -1, now)
      BY <1>1, <1>3, <2>3, <3>1, ChangedRows, Zenon
    <3> QED
      BY <2>2, <3>2 DEF Changing
  <2>5. ASSUME NEW k \in 1..limit PROVE shownRows'[k] = rows[k]
    <3>1. k \in 1..start /\ k \in 1..Len(shownRows)
      BY <1>1, <1>8, <2>2
    <3>2. shownRows[k] = source[k]
      BY <1>1, <3>1 DEF Shows
    <3> QED
      BY <1>2, <2>4, <3>1, <3>2
  <2> QED
    BY <1>3, <2>2, <2>4, <2>5 DEF Shows
<1> QED
  BY <1>1, <1>5, <1>6, <1>7, <1>8

LEMMA SetSourceRowKeeps ==
    ASSUME ProxyInv, NEW row \in 0..Len(source) - 1, NEW value \in Values,
           SetSourceRow(row, value)
    PROVE  ProxyInv'
<1> DEFINE rows == [source EXCEPT ![row + 1] = value]
<1>1. /\ Len(source) \in Nat /\ shownRows \in Seq(ProxyRows) /\ Shows(shownRows, source, limit)
      /\ source \in Seq(ProxyRows) /\ limit \in Nat \cup {NoLimit}
      /\ Count(source, limit) \in 0..Len(source)
  BY ProxyShows DEF ProxyInv
<1>2. value \in ProxyRows
  BY DEF ProxyRows
<1>3. /\ rows \in Seq(ProxyRows) /\ Len(rows) = Len(source)
      /\ \A k \in 1..Len(source) : rows[k] = IF k = row + 1 THEN value ELSE source[k]
  BY <1>1, <1>2, ExceptSeq
<1>4. source' = rows /\ limit' = limit /\ shownRows' = OnChanged(shownRows, Span(row, row), rows)
  BY DEF SetSourceRow
<1> HIDE DEF rows
<1>5. shownRows' \in Seq(ProxyRows) /\ Changing(shownRows', shownRows, row, row, rows)
  <2>1. row \in Int /\ 0 <= row /\ row < Len(rows)
    BY <1>1, <1>3
  <2> QED
    BY <1>1, <1>3, <1>4, <2>1, ChangedRows, Zenon
<1>6. Shows(shownRows', rows, limit)
  <2>1. Len(shownRows) = Count(source, limit) /\ \A k \in 1..Len(shownRows) : shownRows[k] = source[k]
    BY <1>1 DEF Shows
  <2>2. /\ Len(shownRows') = Len(shownRows)
        /\ \A k \in 1..Len(shownRows') :
              shownRows'[k] = IF row < k /\ k <= row + 1 THEN rows[k] ELSE shownRows[k]
    BY <1>5 DEF Changing
  <2>3. Count(rows, limit) = Count(source, limit)
    BY <1>3 DEF Count
  <2>4. ASSUME NEW k \in 1..Len(shownRows') PROVE shownRows'[k] = rows[k]
    BY <1>1, <1>3, <2>1, <2>2
  <2> QED
    BY <2>1, <2>2, <2>3, <2>4 DEF Shows
<1> QED
  BY <1>1, <1>3, <1>4, <1>5, <1>6, ProxyKept

LEMMA SetVariantListKeeps ==
    ASSUME ProxyInv, NEW rows \in Seq(ProxyRows), SetVariantList(rows)
    PROVE  ProxyInv'
<1>1. /\ Len(source) \in Nat /\ shownRows \in Seq(ProxyRows) /\ Shows(shownRows, source, limit)
      /\ limit \in Nat \cup {NoLimit} /\ Count(source, limit) \in 0..Len(source)
      /\ Len(rows) \in Nat
  BY ProxyShows, SequenceDomain DEF ProxyInv
<1>2. source' = rows /\ limit' = limit
  BY DEF SetVariantList
<1>3. CASE Len(rows) = Len(source)
  <2>1. shownRows' = OnChanged(shownRows, Span(0, Len(rows) - 1), rows)
    BY <1>3 DEF SetVariantList
  <2>2. Len(shownRows) = Count(rows, limit)
    BY <1>1, <1>3 DEF Shows, Count
  <2>3. shownRows' \in Seq(ProxyRows) /\ Changing(shownRows', shownRows, 0, Len(rows) - 1, rows)
    <3>1. 0 \in Int /\ Len(rows) - 1 \in Int /\ 0 <= 0 /\ Len(rows) - 1 < Len(rows)
      BY <1>1
    <3> QED
      BY <1>1, <2>1, <3>1, ChangedRows, Zenon
  <2>4. Shows(shownRows', rows, limit)
    BY <1>1, <1>3, <2>2, <2>3 DEF Shows, Changing
  <2> QED
    BY <1>1, <1>2, <2>3, <2>4, ProxyKept
<1>4. CASE Len(rows) # Len(source)
  <2>1. shownRows' = Limited(rows, limit)
    BY <1>4 DEF SetVariantList
  <2> QED
    BY <1>1, <1>2, <2>1, LimitedShows DEF ProxyInv, ViewFollowsProxy
<1> QED
  BY <1>3, <1>4

LEMMA SetLimitKeeps ==
    ASSUME ProxyInv, NEW lim \in Limits, SetLimit(lim)
    PROVE  ProxyInv'
<1> DEFINE n == Len(source)
           now == Limited(source, lim)
           old == Len(Limited(source, limit))
<1>1. /\ n \in Nat /\ shownRows \in Seq(ProxyRows) /\ Shows(shownRows, source, limit)
      /\ source \in Seq(ProxyRows) /\ limit \in Nat \cup {NoLimit}
      /\ lim \in Nat \cup {NoLimit} /\ lim # limit
      /\ source' = source /\ limit' = lim
  BY ProxyShows, ProxyAssumption DEF ProxyInv, SetLimit
<1>2. /\ now \in Seq(ProxyRows) /\ Len(now) = Count(source, lim)
      /\ \A k \in 1..Len(now) : now[k] = source[k]
  <2>1. now \in Seq(ProxyRows) /\ Shows(now, source, lim)
    BY <1>1, LimitedShows
  <2> QED
    BY <2>1 DEF Shows
<1>3. old = Len(shownRows) /\ Len(shownRows) = Count(source, limit)
  BY <1>1 DEF ProxyInv, ViewFollowsProxy, Shows
<1>4. shownRows' = Follow(shownRows, LimitSpans(lim).removed, LimitSpans(lim).inserted, Nothing, now)
  BY DEF SetLimit
<1> SUFFICES shownRows' \in Seq(ProxyRows) /\ Shows(shownRows', source, lim)
  BY <1>1, ProxyKept
<1>5. LimitSpans(lim) =
        CASE limit = NoLimit /\ lim < old ->
               [removed |-> Span(lim, old - 1), inserted |-> Nothing]
          [] limit # NoLimit /\ lim = NoLimit /\ limit < n ->
               [removed |-> Nothing, inserted |-> Span(limit, n - 1)]
          [] limit # NoLimit /\ lim # NoLimit /\ lim > limit /\ n > limit ->
               [removed |-> Nothing, inserted |-> Span(limit, (IF lim < n THEN lim ELSE n) - 1)]
          [] limit # NoLimit /\ lim # NoLimit /\ lim < limit /\ lim < old ->
               [removed |-> Span(lim, old - 1), inserted |-> Nothing]
          [] OTHER -> [removed |-> Nothing, inserted |-> Nothing]
  BY DEF LimitSpans
<1> HIDE DEF now, old
\* The rest of a step that leaves the view with rows b.
<1>6. ASSUME NEW b \in Seq(ProxyRows), shownRows' = OnChanged(b, Span(0, -1), now),
             Len(b) = Count(source, lim), \A k \in 1..Len(b) : b[k] = source[k]
      PROVE  shownRows' \in Seq(ProxyRows) /\ Shows(shownRows', source, lim)
  <2>1. Len(b) \in Nat
    BY SequenceDomain
  <2>2. 0 \in Int /\ -1 \in Int /\ 0 <= 0 /\ Len(b) <= Len(now)
    BY <1>2, <1>6, <2>1
  <2>3. shownRows' \in Seq(ProxyRows) /\ Changing(shownRows', b, 0, -1, now)
    BY <1>2, <1>6, <2>2, ChangedRows, Zenon
  <2> QED
    BY <1>6, <2>1, <2>3 DEF Changing, Shows
<1>7. CASE (limit = NoLimit \/ lim < limit) /\ lim # NoLimit /\ lim < old
  <2> DEFINE b == OnRemoved(shownRows, Span(lim, old - 1))
  <2>1. lim \in Nat /\ old \in Nat /\ limit \in Nat \cup {NoLimit}
    BY <1>1, <1>3, <1>7, SequenceDomain
  <2>2. LimitSpans(lim) = [removed |-> Span(lim, old - 1), inserted |-> Nothing]
    BY <1>1, <1>5, <1>7, <2>1
  <2>3. lim <= old - 1 /\ old - 1 < Len(shownRows) /\ old - 1 \in Nat
    BY <1>3, <1>7, <2>1
  <2>4. b \in Seq(ProxyRows) /\ Cut(b, shownRows, lim, (old - 1) + 2)
    BY <1>1, <2>1, <2>3, RemovedRows, Zenon
  <2>5. shownRows' = OnChanged(b, Span(0, -1), now)
    BY <1>4, <2>1, <2>2, <2>3, NoSpans DEF Follow
  <2> HIDE DEF b
  <2>6. Len(b) = lim /\ \A k \in 1..lim : b[k] = shownRows[k]
    <3>1. Len(shownRows) - (((old - 1) + 2) - lim - 1) = lim
      BY <1>3, <2>1
    <3> QED
      BY <2>4, <3>1 DEF Cut
  <2>7. Count(source, lim) = lim /\ Len(shownRows) >= lim
    BY <1>1, <1>3, <1>7, <2>1 DEF Count
  <2>8. \A k \in 1..Len(b) : b[k] = source[k]
    BY <1>1, <2>1, <2>6, <2>7 DEF Shows
  <2> QED
    BY <1>6, <2>4, <2>5, <2>6, <2>7, <2>8
<1>8. CASE limit # NoLimit /\ limit < n /\ (lim = NoLimit \/ lim > limit)
  <2> DEFINE to == IF lim # NoLimit /\ lim < n THEN lim ELSE n
             b == OnInserted(shownRows, Span(limit, to - 1), now)
  <2>1. limit \in Nat /\ to \in Nat /\ limit < to /\ to <= n
    BY <1>1, <1>8
  <2>2. LimitSpans(lim) = [removed |-> Nothing, inserted |-> Span(limit, to - 1)]
    BY <1>1, <1>5, <1>8
  <2>3. Len(shownRows) = limit /\ Len(now) = to /\ Count(source, lim) = to
    BY <1>1, <1>2, <1>3, <1>8 DEF Count
  <2> HIDE DEF to
  <2>4. limit \in 0..Len(shownRows) /\ to - 1 \in Nat /\ limit <= to - 1 /\ to - 1 < Len(now)
        /\ (to - 1) - limit + 1 = to - limit
    BY <2>1, <2>3
  <2>5. b \in Seq(ProxyRows) /\ Inserting(b, shownRows, limit, to - 1, now)
    BY <1>1, <1>2, <2>4, InsertedRows, Zenon
  <2>6. shownRows' = OnChanged(b, Span(0, -1), now)
    BY <1>4, <2>1, <2>2, <2>4, NoSpans DEF Follow
  <2> HIDE DEF b
  <2>7. /\ Len(b) = to
        /\ \A k \in 1..limit : b[k] = shownRows[k]
        /\ \A k \in limit + 1..to : b[k] = now[k]
    <3>1. Len(shownRows) + ((to - 1) - limit + 1) = to /\ (to - 1) + 1 = to
      BY <2>1, <2>3, <2>4
    <3> QED
      BY <2>5, <3>1 DEF Inserting
  <2>8. \A k \in 1..Len(b) : b[k] = source[k]
    BY <1>1, <1>2, <2>1, <2>3, <2>7 DEF Shows
  <2> QED
    BY <1>6, <2>3, <2>5, <2>6, <2>7, <2>8
<1>9. CASE Count(source, lim) = old /\ ~(limit = NoLimit /\ lim < old)
           /\ ~(limit # NoLimit /\ lim = NoLimit /\ limit < n)
           /\ ~(limit # NoLimit /\ lim # NoLimit /\ lim > limit /\ n > limit)
           /\ ~(limit # NoLimit /\ lim # NoLimit /\ lim < limit /\ lim < old)
  <2>1. LimitSpans(lim) = [removed |-> Nothing, inserted |-> Nothing]
    BY <1>5, <1>9
  <2>2. shownRows' = OnChanged(shownRows, Span(0, -1), now)
    BY <1>4, <2>1, NoSpans DEF Follow
  <2> QED
    BY <1>1, <1>3, <1>6, <1>9, <2>2 DEF Shows
<1> QED
  BY <1>1, <1>3, <1>7, <1>8, <1>9 DEF Count

LEMMA ProxyStarts == ProxyInit => ProxyInv
<1>1. <<>> \in Seq(ProxyRows) /\ Len(<<>>) = 0
  OBVIOUS
<1> QED
  BY <1>1, EmptySeq DEF ProxyInit, ProxyInv, ViewFollowsProxy, Limited

LEMMA ProxyFollows == ProxyInv /\ [ProxyNext]_proxyVars => ProxyInv'
<1> SUFFICES ASSUME ProxyInv, [ProxyNext]_proxyVars PROVE ProxyInv'
  OBVIOUS
<1>1. CASE UNCHANGED proxyVars
  BY <1>1 DEF proxyVars, ProxyInv, ViewFollowsProxy
<1>2. ASSUME NEW start \in 0..Len(source), NEW count \in 1..MaxSource - Len(source),
             InsertSourceRows(start, count)
      PROVE  ProxyInv'
  <2>1. start \in Nat /\ count \in Nat \ {0}
    BY ProxyAssumption, ProxyShows
  <2> QED
    BY <1>2, <2>1, InsertSourceRowsKeeps
<1>3. ASSUME NEW start \in 0..Len(source), NEW count \in 1..Len(source),
             RemoveSourceRows(start, count)
      PROVE  ProxyInv'
  <2>1. start \in Nat /\ count \in Nat \ {0}
    BY ProxyShows
  <2> QED
    BY <1>3, <2>1, RemoveSourceRowsKeeps
<1>4. ASSUME NEW row \in 0..Len(source) - 1, NEW value \in Values, SetSourceRow(row, value)
      PROVE  ProxyInv'
  BY <1>4, SetSourceRowKeeps
<1>5. ASSUME NEW rows \in BoundedSeq(Values, MaxSource), SetVariantList(rows) PROVE ProxyInv'
  <2>1. PICK m \in 0..MaxSource : rows \in [1..m -> Values]
    BY DEF BoundedSeq, SeqOf
  <2>2. m \in Nat
    BY ProxyAssumption
  <2>3. rows \in Seq(Values)
    BY <2>1, <2>2, SeqDef
  <2>4. rows \in Seq(ProxyRows)
    BY <2>3, <2>1, <2>2, LenProperties DEF ProxyRows
  <2> QED
    BY <1>5, <2>4, SetVariantListKeeps
<1>6. ASSUME NEW lim \in Limits, SetLimit(lim) PROVE ProxyInv'
  BY <1>6, SetLimitKeeps
<1> QED
  BY <1>1, <1>2, <1>3, <1>4, <1>5, <1>6 DEF ProxyNext

\* Whatever rows come, go and change in the source, and whatever the limit is set to, a
\* view that follows the proxy's signals shows exactly its rows: rows that cross the limit
\* are told as removed, inserted or changed (sourceRowsAboutToBeInserted(),
\* sourceRowsAboutToBeRemoved(), setLimit() of QLimitProxyModelQML).
THEOREM ViewShowsTheProxy == ProxySpec => []ViewFollowsProxy
<1>1. ProxyInv => ViewFollowsProxy
  BY DEF ProxyInv
<1> QED
  BY <1>1, ProxyStarts, ProxyFollows, PTL DEF ProxySpec

-----------------------------------------------------------------------------
(***************************************************************************)
(* HomeKeyWatcher.                                                         *)
(***************************************************************************)
HomeKeyTypeOK ==
    homeKey \in [beingTouched : BOOLEAN, pressed : BOOLEAN, sinceTouched : Nat,
                 timer : -1..Quiet, superDown : BOOLEAN, quietTap : BOOLEAN,
                 activated : BOOLEAN]

\* While the activation timer runs, the tap was quiet from before it began.
TimerOfQuietTap ==
    homeKey.timer # -1 =>
        ~homeKey.beingTouched /\ homeKey.sinceTouched >= Quiet /\ homeKey.quietTap

\* The key that the user holds is known to be pressed.
PressIsKnown == homeKey.superDown => homeKey.pressed

HomeKeyInv == HomeKeyTypeOK /\ TimerOfQuietTap /\ PressIsKnown /\ HomeKeyAlone

LEMMA HomeKeyStep ==
    ASSUME HomeKeyInv, HomeKeyNext
    PROVE  HomeKeyInv'
<1> USE InputAssumption
<1>0. HomeKeyTypeOK /\ TimerOfQuietTap /\ PressIsKnown /\ HomeKeyAlone
  BY DEF HomeKeyInv
<1>1. CASE Tick
  <2>0. PICK a, b : /\ a = IF homeKey.sinceTouched > Quiet THEN homeKey.sinceTouched
                                ELSE homeKey.sinceTouched + 1
                    /\ b = IF homeKey.timer \in 0..Quiet - 1 THEN homeKey.timer + 1
                                ELSE homeKey.timer
    OBVIOUS
  <2>3. homeKey' = [homeKey EXCEPT !.sinceTouched = a, !.timer = b, !.activated = FALSE]
    BY <1>1, <2>0 DEF Tick
  <2>4. a \in Nat /\ b \in -1..Quiet
    BY <1>0, <2>0 DEF HomeKeyTypeOK
  <2>1. HomeKeyTypeOK'
    BY <1>0, <2>3, <2>4 DEF HomeKeyTypeOK
  <2>2. TimerOfQuietTap' /\ PressIsKnown' /\ HomeKeyAlone'
    BY <1>0, <1>1 DEF Tick, HomeKeyTypeOK, TimerOfQuietTap, PressIsKnown, HomeKeyAlone
  <2> QED
    BY <2>1, <2>2 DEF HomeKeyInv
<1>2. ASSUME NEW super \in BOOLEAN, NEW autoRepeat \in BOOLEAN, KeyPressed(super, autoRepeat)
      PROVE  HomeKeyInv'
  <2>0. PICK a, b, c :
          /\ a = IF super /\ ~autoRepeat /\ StartsActivation(homeKey) THEN 0 ELSE homeKey.timer
          /\ b = (homeKey.superDown \/ super)
          /\ c = IF super /\ ~autoRepeat
                THEN ~homeKey.beingTouched /\ homeKey.sinceTouched >= Quiet ELSE homeKey.quietTap
    OBVIOUS
  <2>4. homeKey' = [homeKey EXCEPT !.pressed = TRUE, !.activated = FALSE, !.timer = a,
                                   !.superDown = b, !.quietTap = c]
    BY <1>2, <2>0 DEF KeyPressed
  <2>5. a \in -1..Quiet /\ b \in BOOLEAN /\ c \in BOOLEAN
    BY <1>0, <2>0 DEF HomeKeyTypeOK
  <2>1. HomeKeyTypeOK'
    BY <1>0, <2>4, <2>5 DEF HomeKeyTypeOK
  <2>2. TimerOfQuietTap'
    BY <1>0, <1>2 DEF KeyPressed, StartsActivation, HomeKeyTypeOK, TimerOfQuietTap
  <2>3. PressIsKnown' /\ HomeKeyAlone'
    BY <1>0, <1>2 DEF KeyPressed, HomeKeyTypeOK, PressIsKnown, HomeKeyAlone
  <2> QED
    BY <2>1, <2>2, <2>3 DEF HomeKeyInv
<1>3. ASSUME NEW super \in BOOLEAN, KeyReleased(super)
      PROVE  HomeKeyInv'
  BY <1>3 DEF KeyReleased,
       HomeKeyInv, HomeKeyTypeOK, TimerOfQuietTap, PressIsKnown, HomeKeyAlone
<1>4. CASE WindowTouchBegin
  <2>0. -1 \in -1..Quiet
    OBVIOUS
  <2>1. HomeKeyTypeOK'
    BY <1>0, <1>4, <2>0 DEF WindowTouchBegin, HomeKeyTypeOK
  <2>2. TimerOfQuietTap' /\ PressIsKnown' /\ HomeKeyAlone'
    BY <1>0, <1>4 DEF WindowTouchBegin, HomeKeyTypeOK, TimerOfQuietTap, PressIsKnown, HomeKeyAlone
  <2> QED
    BY <2>1, <2>2 DEF HomeKeyInv
<1>5. CASE WindowTouchEnd
  BY <1>5 DEF WindowTouchEnd,
       HomeKeyInv, HomeKeyTypeOK, TimerOfQuietTap, PressIsKnown, HomeKeyAlone
<1>6. CASE EmitActivatedIfNoTouchesAround
  <2>0. PICK a : a = (~homeKey.pressed /\ ~homeKey.beingTouched /\ homeKey.sinceTouched > Quiet)
    OBVIOUS
  <2>4. homeKey' = [homeKey EXCEPT !.timer = -1, !.activated = a]
    BY <1>6, <2>0 DEF EmitActivatedIfNoTouchesAround
  <2>5. a \in BOOLEAN /\ -1 \in -1..Quiet
    BY <2>0
  <2>1. HomeKeyTypeOK'
    BY <1>0, <2>4, <2>5 DEF HomeKeyTypeOK
  <2>2. TimerOfQuietTap' /\ PressIsKnown'
    BY <1>0, <1>6 DEF EmitActivatedIfNoTouchesAround, HomeKeyTypeOK, TimerOfQuietTap, PressIsKnown
  <2>3. HomeKeyAlone'
    BY <1>0, <1>6 DEF EmitActivatedIfNoTouchesAround, HomeKeyTypeOK, TimerOfQuietTap, PressIsKnown,
                      HomeKeyAlone
  <2> QED
    BY <2>1, <2>2, <2>3 DEF HomeKeyInv
<1> QED
  BY <1>1, <1>2, <1>3, <1>4, <1>5, <1>6 DEF HomeKeyNext

(***************************************************************************)
(* InputWatcher.                                                           *)
(***************************************************************************)
WatcherTypeOK ==
    watcher \in [target : Targets \cup {NoTarget}, mousePressed : BOOLEAN,
                 touchPressed : BOOLEAN, adapted : BOOLEAN, leftButtonIsPressed : BOOLEAN,
                 touchOn : Targets \cup {NoTarget}, mouseOn : Targets \cup {NoTarget},
                 cancelled : BOOLEAN]

\* What counts as pressed is there.
PressedIsThere ==
    watcher.mousePressed \/ watcher.touchPressed => watcher.target # NoTarget

\* A button that is adapted is a finger, as long as it is down.
ButtonIsFinger ==
    watcher.adapted => (watcher.leftButtonIsPressed <=> watcher.touchOn # NoTarget)

WatcherInv == WatcherTypeOK /\ PressedIsThere /\ ButtonIsFinger /\ PressIsHeld

LEMMA WatcherStep ==
    ASSUME WatcherInv, WatcherNext
    PROVE  WatcherInv'
<1> USE InputAssumption
<1>1. ASSUME NEW t \in Targets \cup {NoTarget}, SetTarget(t)
      PROVE  WatcherInv'
  BY <1>1 DEF SetTarget, WatcherInv, WatcherTypeOK, PressedIsThere, ButtonIsFinger, PressIsHeld
<1>2. ASSUME NEW t \in Targets, TouchTarget(t)
      PROVE  WatcherInv'
  BY <1>2 DEF TouchTarget, TouchBegins,
       WatcherInv, WatcherTypeOK, PressedIsThere, ButtonIsFinger, PressIsHeld
<1>3. CASE ReleaseTouch
  BY <1>3 DEF ReleaseTouch, TouchEnds,
       WatcherInv, WatcherTypeOK, PressedIsThere, ButtonIsFinger, PressIsHeld
<1>4. CASE CancelTouch
  BY <1>4 DEF CancelTouch,
       WatcherInv, WatcherTypeOK, PressedIsThere, ButtonIsFinger, PressIsHeld
<1>5. ASSUME NEW t \in Targets, NEW left \in BOOLEAN, HandleButtonPress(t, left)
      PROVE  WatcherInv'
  BY <1>5 DEF HandleButtonPress, TouchBegins, MouseBegins,
       WatcherInv, WatcherTypeOK, PressedIsThere, ButtonIsFinger, PressIsHeld
<1>6. ASSUME NEW left \in BOOLEAN, HandleButtonRelease(left)
      PROVE  WatcherInv'
  BY <1>6 DEF HandleButtonRelease, TouchEnds, MouseEnds,
       WatcherInv, WatcherTypeOK, PressedIsThere, ButtonIsFinger, PressIsHeld
<1> QED
  BY <1>1, <1>2, <1>3, <1>4, <1>5, <1>6 DEF WatcherNext

\* The home key counts as tapped only when it was tapped alone, and the target as
\* pressed only while something is down on it, whatever else is touched, pressed,
\* repeated, cancelled or watched in between (HomeKeyWatcher, InputWatcher,
\* MouseTouchAdaptor).
THEOREM InputIsReadAlways ==
    HomeKeySpec /\ WatcherSpec => []InputIsRead
<1> USE InputAssumption
<1>1. HomeKeyInit => HomeKeyInv
  BY DEF HomeKeyInit, HomeKeyInv, HomeKeyTypeOK, TimerOfQuietTap, PressIsKnown, HomeKeyAlone
<1>2. HomeKeyInv /\ [HomeKeyNext]_homeKey => HomeKeyInv'
  <2>1. HomeKeyInv /\ UNCHANGED homeKey => HomeKeyInv'
    BY DEF HomeKeyInv, HomeKeyTypeOK, TimerOfQuietTap, PressIsKnown, HomeKeyAlone
  <2> QED
    BY <2>1, HomeKeyStep
<1>3. WatcherInit => WatcherInv
  BY DEF WatcherInit, WatcherInv, WatcherTypeOK, PressedIsThere, ButtonIsFinger, PressIsHeld
<1>4. WatcherInv /\ [WatcherNext]_watcher => WatcherInv'
  <2>1. WatcherInv /\ UNCHANGED watcher => WatcherInv'
    BY DEF WatcherInv, WatcherTypeOK, PressedIsThere, ButtonIsFinger, PressIsHeld
  <2> QED
    BY <2>1, WatcherStep
<1>5. HomeKeyInv /\ WatcherInv => InputIsRead
  BY DEF HomeKeyInv, WatcherInv, InputIsRead
<1> QED
  BY <1>1, <1>2, <1>3, <1>4, <1>5, PTL DEF HomeKeySpec, WatcherSpec

(***************************************************************************)
(* QInputDeviceInfo.                                                       *)
(***************************************************************************)
Device == [path : DevicePaths, n : Nat]
DeviceMessage == [path : DevicePaths, add : BOOLEAN]

Shown == [list : Seq(Device), shown : Seq(Device)]

\* A view that has been told of the first i rows of newDevices shows what the list has.
Told(v, newDevices, i) ==
    /\ v \in Shown /\ v.shown = v.list
    /\ i <= Len(v.list)
    /\ \A k \in 1..i : v.list[k] = newDevices[k]

LEMMA PlacedTells ==
    ASSUME NEW new \in Seq(Device), NoneTwice(new), NEW i \in 1..Len(new), NEW v,
           Told(v, new, i - 1)
    PROVE  Told(Placed(v, new, i), new, i)
<1>1. PICK l : l = v.list
  OBVIOUS
<1>2. PICK device : device = new[i]
  OBVIOUS
<1>3. PICK w : w = Placed(v, new, i)
  OBVIOUS
<1>4. /\ Len(new) \in Nat /\ DOMAIN new = 1..Len(new) /\ i \in Nat /\ device \in Device
      /\ \A k, m \in 1..Len(new) : new[k] = new[m] => k = m
  BY <1>2, SequenceDomain DEF NoneTwice
<1>5. /\ l \in Seq(Device) /\ v = [list |-> l, shown |-> l]
      /\ i - 1 <= Len(l) /\ \A k \in 1..i - 1 : l[k] = new[k]
  BY <1>1 DEF Told, Shown
<1>6. Len(l) \in Nat /\ DOMAIN l = 1..Len(l)
  BY <1>5, SequenceDomain
<1>7. Contains(l, device) <=> \E j \in 1..Len(l) : l[j] = device
  BY DEF Contains
<1>8. CASE ~Contains(l, device)
  <2>1. PICK t : t = InsertAt(l, i, device)
    OBVIOUS
  <2>2. w = [list |-> t, shown |-> t]
    BY <1>2, <1>3, <1>5, <1>8, <2>1 DEF Placed
  <2>3. i \in 1..Len(l) + 1
    BY <1>4, <1>5, <1>6
  <2>4. t \in Seq(Device) /\ OneMore(t, l, i, device)
    BY <1>4, <1>5, <2>1, <2>3, ElementInserted
  <2>5. ASSUME NEW k \in 1..i PROVE t[k] = new[k]
    <3>1. k \in 1..Len(l) + 1 /\ (k < i \/ k = i)
      BY <1>4, <1>6, <2>3
    <3>2. k < i => k \in 1..i - 1
      BY <1>4
    <3> QED
      BY <1>2, <1>4, <1>5, <2>4, <3>1, <3>2 DEF OneMore
  <2>6. i <= Len(t)
    BY <1>4, <1>6, <2>3, <2>4 DEF OneMore
  <2> QED
    BY <1>3, <2>2, <2>4, <2>5, <2>6 DEF Told, Shown
<1>9. CASE Contains(l, device)
  <2>1. PICK j : j = RowOf(l, device)
    OBVIOUS
  <2>2. j \in 1..Len(l) /\ l[j] = device
    BY <1>6, <1>7, <1>9, <2>1 DEF RowOf
  <2>3. i <= j
    <3>1. SUFFICES ASSUME j < i PROVE FALSE
      BY <1>4, <1>6, <2>2
    <3>2. j \in 1..i - 1 /\ j \in 1..Len(new) /\ i \in 1..Len(new)
      BY <1>4, <1>6, <2>2, <3>1
    <3>3. new[j] = new[i]
      BY <1>2, <1>5, <2>2, <3>2
    <3> QED
      BY <1>4, <3>1, <3>2, <3>3
  <2>4. CASE j = i
    <3>1. w = [v EXCEPT !.shown[i] = device]
      BY <1>2, <1>3, <1>1, <1>9, <2>1, <2>4 DEF Placed
    <3>2. [l EXCEPT ![i] = device] = l
      BY <1>5, <1>6, <2>2, <2>4
    <3>3. w = v
      BY <1>5, <3>1, <3>2
    <3>4. ASSUME NEW k \in 1..i PROVE l[k] = new[k]
      <4>1. k \in 1..i - 1 \/ k = i
        BY <1>4
      <4> QED
        BY <1>2, <1>5, <2>2, <2>4, <4>1
    <3> QED
      BY <1>3, <1>5, <1>6, <2>2, <2>4, <3>3, <3>4 DEF Told, Shown
  <2>5. CASE j # i
    <3>1. PICK t : t = InsertAt(RemoveAt(l, j), i, l[j])
      OBVIOUS
    <3>2. w = [list |-> t, shown |-> t]
      BY <1>1, <1>2, <1>3, <1>5, <1>9, <2>1, <2>2, <2>5, <3>1 DEF Placed
    <3>3. i \in 1..j
      BY <1>4, <2>3
    <3>4. t \in Seq(Device) /\ Pulled(t, l, j, i)
      BY <1>5, <2>2, <3>1, <3>3, ElementPulled
    <3>5. i \in 1..Len(l)
      BY <1>4, <1>6, <2>2, <2>3
    <3>6. ASSUME NEW k \in 1..i PROVE t[k] = new[k]
      <4>1. k \in 1..Len(l) /\ (k < i \/ k = i)
        BY <1>4, <1>6, <3>5
      <4>2. k < i => k \in 1..i - 1
        BY <1>4
      <4> QED
        BY <1>2, <1>4, <1>5, <2>2, <3>4, <4>1, <4>2 DEF Pulled
    <3>7. i <= Len(t)
      BY <3>4, <3>5 DEF Pulled
    <3> QED
      BY <1>3, <3>2, <3>4, <3>6, <3>7 DEF Told, Shown
  <2> QED
    BY <2>4, <2>5
<1> QED
  BY <1>8, <1>9

\* The first n of a list which begins as s does, s having n elements.
LEMMA PrefixIs ==
    ASSUME NEW A, NEW s \in Seq(A), NEW t \in Seq(A), Len(s) <= Len(t),
           \A k \in 1..Len(s) : t[k] = s[k]
    PROVE  SubSeq(t, 1, Len(s)) = s
<1>1. PICK n : n = Len(s)
  OBVIOUS
<1>2. n \in Nat /\ n \in Int /\ 0 <= n /\ n <= Len(t)
  BY <1>1, SequenceDomain
<1>3. PICK r : r = SubSeq(t, 1, n)
  OBVIOUS
<1>4. r \in Seq(A) /\ Len(r) = n /\ \A k \in 1..n : r[k] = t[k]
  BY <1>2, <1>3, SequencePrefix
<1> QED
  BY <1>1, <1>3, <1>4, SeqEqual

DeviceRecord ==
    [plugged : SUBSET DevicePaths, step : {"created", "monitoring", "ready"},
     messages : Seq(DeviceMessage), deviceList : Seq(Device),
     early : SUBSET DevicePaths, reported : SUBSET DevicePaths,
     inputDevices : Seq(Device), shown : Seq(Device)]

\* The loop of updateDeviceList().
ShowLoop(f, start, new) ==
    f = [i \in 0..Len(new) |-> IF i = 0 THEN start ELSE Placed(f[i - 1], new, i)]

LEMMA ShowLoopEnds ==
    ASSUME NEW new \in Seq(Device), NoneTwice(new), NEW start, Told(start, new, 0),
           NEW shown, shown = CHOOSE f : ShowLoop(f, start, new)
    PROVE  Told(shown[Len(new)], new, Len(new))
<1> DEFINE n == Len(new)
           G == [i \in 0..n |-> {v \in Shown : Told(v, new, i)}]
           step == [i \in 1..n |-> [v \in G[i - 1] |-> Placed(v, new, i)]]
<1>1. n \in Nat
  BY SequenceDomain
<1>2. \A i \in 0..n : \A v : v \in G[i] <=> Told(v, new, i)
  BY DEF Told
<1>3. ASSUME NEW i \in 1..n, NEW v, Told(v, new, i - 1)
      PROVE  Told(Placed(v, new, i), new, i)
  BY <1>3, PlacedTells
<1> HIDE DEF n, G
<1>4. ASSUME NEW i \in 1..n PROVE step[i] \in [G[i - 1] -> G[i]]
  <2>1. i \in 0..n /\ i - 1 \in 0..n
    BY <1>1
  <2>2. \A v \in G[i - 1] : Placed(v, new, i) \in G[i]
    BY <1>2, <1>3, <2>1
  <2> QED
    BY <2>2
<1>5. start \in G[0]
  BY <1>1, <1>2
<1>6. ASSUME NEW i \in 1..n, NEW v \in G[i - 1] PROVE step[i][v] = Placed(v, new, i)
  <2>1. step[i] = [w \in G[i - 1] |-> Placed(w, new, i)]
    OBVIOUS
  <2> QED
    BY <2>1
<1> HIDE DEF step
<1>7. PICK f : f = [i \in 0..n |-> f[i]] /\ Rounds(f, n, start, step)
  BY <1>1, <1>4, <1>5, GoodLoopRuns
<1>8. f[0] = start /\ \A i \in 1..n : f[i] = step[i][f[i - 1]]
  <2> HIDE DEF n
  <2> QED
    BY <1>1, <1>7, RoundsAt
<1>9. \A i \in 0..n : f[i] \in G[i]
  <2>1. f[0] \in G[0]
    BY <1>5, <1>8
  <2>2. \A i \in 1..n : f[i - 1] \in G[i - 1] => f[i] \in G[i]
    BY <1>4, <1>8
  <2> QED
    BY <1>1, <2>1, <2>2, LoopStays
<1>10. ASSUME NEW i \in 0..n PROVE f[i] = IF i = 0 THEN start ELSE Placed(f[i - 1], new, i)
  <2>1. i # 0 => i \in 1..n /\ i - 1 \in 0..n
    BY <1>1
  <2> QED
    BY <1>6, <1>8, <1>9, <2>1
<1>11. f = [i \in 0..n |-> IF i = 0 THEN start ELSE Placed(f[i - 1], new, i)]
  BY <1>7, <1>10
<1>12. ShowLoop(f, start, new)
  BY <1>11 DEF ShowLoop, n
<1>13. ShowLoop(shown, start, new)
  BY <1>12
<1>14. \A i \in 0..n : shown[i] = IF i = 0 THEN start ELSE Placed(shown[i - 1], new, i)
  BY <1>13 DEF ShowLoop, n
<1>15. \A i \in 0..n : shown[i] \in G[i]
  <2>1. shown[0] \in G[0]
    BY <1>1, <1>5, <1>14
  <2>2. ASSUME NEW i \in 1..n, shown[i - 1] \in G[i - 1] PROVE shown[i] \in G[i]
    <3>1. i \in 0..n /\ i - 1 \in 0..n /\ i # 0
      BY <1>1
    <3> QED
      BY <1>2, <1>3, <1>14, <2>2, <3>1
  <2> QED
    BY <1>1, <2>1, <2>2, LoopStays
<1>16. n \in 0..n
  BY <1>1
<1> QED
  BY <1>2, <1>15, <1>16 DEF n

\* However rows were added and removed, updateDeviceList() makes the list what it should be.
LEMMA UpdateShows ==
    ASSUME NEW d \in DeviceRecord, d.inputDevices = d.shown, NoneTwice(d.deviceList)
    PROVE  UpdateDeviceList(d) =
               [d EXCEPT !.inputDevices = d.deviceList, !.shown = d.deviceList]
<1>1. PICK new : new = d.deviceList
  OBVIOUS
<1>2. PICK start : start = [list |-> d.inputDevices, shown |-> d.shown]
  OBVIOUS
<1>3. new \in Seq(Device) /\ d.inputDevices \in Seq(Device)
  BY <1>1 DEF DeviceRecord
<1>4. Told(start, new, 0)
  <2>1. Len(d.inputDevices) \in Nat
    BY <1>3, SequenceDomain
  <2> QED
    BY <1>2, <1>3, <2>1 DEF Told, Shown
<1>5. PICK shown : shown = CHOOSE f : ShowLoop(f, start, new)
  OBVIOUS
<1>6. PICK v : v = shown[Len(new)]
  OBVIOUS
<1>7. UpdateDeviceList(d) = [d EXCEPT !.inputDevices = SubSeq(v.list, 1, Len(new)),
                                      !.shown = SubSeq(v.shown, 1, Len(new))]
  BY <1>1, <1>2, <1>5, <1>6, Zenon DEF UpdateDeviceList, ShowLoop
<1>8. Told(v, new, Len(new))
  BY <1>1, <1>3, <1>4, <1>5, <1>6, ShowLoopEnds
<1>9. SubSeq(v.list, 1, Len(new)) = new /\ SubSeq(v.shown, 1, Len(new)) = new
  <2>1. v.list \in Seq(Device) /\ v.shown = v.list
    BY <1>8 DEF Told, Shown
  <2>2. SubSeq(v.list, 1, Len(new)) = new
    BY <1>3, <1>8, <2>1, PrefixIs DEF Told
  <2> QED
    BY <2>1, <2>2
<1> QED
  BY <1>1, <1>7, <1>9

\* Some device of the path is listed.
Listed(d, path) == \E i \in DOMAIN d.deviceList : d.deviceList[i].path = path

\* What QML is shown is the list, and a path is only there twice if it was found twice.
ListedWell(d) ==
    /\ d \in DeviceRecord
    /\ d.inputDevices = d.deviceList /\ d.shown = d.deviceList
    /\ NoneTwice(d.deviceList)
    /\ \A i, j \in DOMAIN d.deviceList :
          d.deviceList[i].path = d.deviceList[j].path /\ i # j => d.deviceList[i].path \in Twice(d)

\* The last message under way about a path says what became of it.
LastIsTrue(d, path) ==
    \A k \in DOMAIN d.messages :
        /\ d.messages[k].path = path
        /\ \A m \in DOMAIN d.messages : m > k => d.messages[m].path # path
        => /\ d.messages[k].add <=> path \in d.plugged
           /\ d.messages[k].add => path \in d.reported

\* The messages about a path tell in turn that it comes and that it goes,
Alternate(d, path) ==
    \A k, m \in DOMAIN d.messages :
        /\ k < m /\ d.messages[k].path = path /\ d.messages[m].path = path
        /\ \A o \in DOMAIN d.messages : k < o /\ o < m => d.messages[o].path # path
        => (d.messages[k].add <=> ~d.messages[m].add)

\* and the first of them does not tell that one comes that is listed.
FirstIsNew(d, path) ==
    \A k \in DOMAIN d.messages :
        /\ d.messages[k].path = path /\ d.messages[k].add
        /\ \A m \in DOMAIN d.messages : m < k => d.messages[m].path # path
        => ~Listed(d, path) \/ path \in Twice(d)

Unmentioned(d, path) == \A k \in DOMAIN d.messages : d.messages[k].path # path

\* A path without a message under way is listed if it can be.
Settled(d, path) ==
    Unmentioned(d, path) =>
        IF d.step = "ready"
        THEN /\ path \in Listable(d) => Listed(d, path)
             /\ Listed(d, path) => path \in Listable(d) \cup Twice(d)
        ELSE path \notin d.reported

PathInv(d, path) ==
    /\ LastIsTrue(d, path)
    /\ Alternate(d, path)
    /\ FirstIsNew(d, path)
    /\ Settled(d, path)
    /\ Listed(d, path) => path \notin InputPaths

DevicesInv ==
    /\ ListedWell(devices)
    /\ devices.step = "created" => devices.messages = <<>>
    /\ devices.step # "ready" => devices.deviceList = <<>>
    /\ devices.step # "ready" =>
          \A k \in DOMAIN devices.messages :
              devices.messages[k].add => devices.messages[k].path \in devices.early
    /\ \A path \in DevicePaths : PathInv(devices, path)

\* A number that no listed device of the path has.
LEMMA FreeNumber ==
    ASSUME NEW list \in Seq(Device), NEW path
    PROVE  \E k \in 1..Len(list) + 1 : ~Contains(list, [path |-> path, n |-> k])
<1> DEFINE S == 1..Len(list) + 1
           T == 1..Len(list)
           at == [k \in S |-> CHOOSE i \in T : list[i] = [path |-> path, n |-> k]]
<1>1. Len(list) \in Nat
  BY SequenceDomain
<1>2. SUFFICES ASSUME \A k \in S : Contains(list, [path |-> path, n |-> k]) PROVE FALSE
  OBVIOUS
<1>3. \A k \in S : at[k] \in T /\ list[at[k]] = [path |-> path, n |-> k]
  BY <1>2 DEF Contains
<1>4. at \in [S -> T]
  BY <1>3
<1>5. IsFiniteSet(S) /\ IsFiniteSet(T) /\ Cardinality(T) < Cardinality(S)
  <2>1. /\ IsFiniteSet(S) /\ IsFiniteSet(T)
        /\ Cardinality(S) = IF 1 > Len(list) + 1 THEN 0 ELSE (Len(list) + 1) - 1 + 1
        /\ Cardinality(T) = IF 1 > Len(list) THEN 0 ELSE Len(list) - 1 + 1
    BY <1>1, FS_Interval
  <2> QED
    BY <1>1, <2>1
<1> HIDE DEF at, S, T
<1>6. PICK k, m \in S : k # m /\ at[k] = at[m]
  BY <1>4, <1>5, FS_PigeonHole
<1>7. [path |-> path, n |-> k] = [path |-> path, n |-> m]
  BY <1>3, <1>6
<1>8. [path |-> path, n |-> k].n = [path |-> path, n |-> m].n
  BY <1>7
<1> QED
  BY <1>6, <1>8

\* Apart from the lists, a list operation leaves what it works on as it was.
SameElse(e, d) ==
    /\ e.plugged = d.plugged /\ e.step = d.step /\ e.messages = d.messages
    /\ e.early = d.early /\ e.reported = d.reported

LEMMA AddDeviceLists ==
    ASSUME NEW d, ListedWell(d), NEW path \in DevicePaths, NEW e, e = AddDevice(d, path),
           Listed(d, path) => path \in Twice(d)
    PROVE  /\ ListedWell(e) /\ SameElse(e, d)
           /\ Len(e.deviceList) = Len(d.deviceList) + 1
           /\ \A p \in DevicePaths : Listed(e, p) <=> Listed(d, p) \/ p = path
<1>1. PICK l : l = d.deviceList
  OBVIOUS
<1>2. PICK n : n = CHOOSE k \in 1..Len(l) + 1 : ~Contains(l, [path |-> path, n |-> k])
  OBVIOUS
<1>3. PICK tw : tw = Twice(d)
  OBVIOUS
<1>4. PICK device : device = [path |-> path, n |-> n]
  OBVIOUS
<1>5. PICK t : t = Append(l, device)
  OBVIOUS
<1>6. /\ l \in Seq(Device) /\ d \in DeviceRecord
      /\ d.inputDevices = l /\ d.shown = l
      /\ Len(l) \in Nat /\ DOMAIN l = 1..Len(l)
      /\ \A i, j \in 1..Len(l) : l[i] = l[j] => i = j
      /\ \A i, j \in 1..Len(l) : l[i].path = l[j].path /\ i # j => l[i].path \in tw
  <2>1. /\ l \in Seq(Device) /\ d \in DeviceRecord
        /\ d.inputDevices = l /\ d.shown = l
    BY <1>1 DEF ListedWell, DeviceRecord
  <2>2. Len(l) \in Nat /\ DOMAIN l = 1..Len(l)
    BY <2>1, SequenceDomain
  <2> QED
    BY <1>1, <1>3, <2>1, <2>2 DEF ListedWell, NoneTwice
<1>7. n \in 1..Len(l) + 1 /\ ~Contains(l, device)
  BY <1>2, <1>4, <1>6, FreeNumber
<1>8. device \in Device /\ device.path = path /\ \A i \in 1..Len(l) : l[i] # device
  BY <1>4, <1>6, <1>7 DEF Device, Contains
<1>9. /\ t \in Seq(Device) /\ Len(t) = Len(l) + 1 /\ DOMAIN t = 1..Len(l) + 1
      /\ \A k \in 1..Len(l) : t[k] = l[k]
      /\ t[Len(l) + 1] = device
  BY <1>5, <1>6, <1>8, SequenceAppended
<1>10. PICK c : c = [d EXCEPT !.deviceList = t]
  OBVIOUS
<1>11. e = UpdateDeviceList(c)
  BY <1>1, <1>2, <1>4, <1>5, <1>10 DEF AddDevice
<1>12. NoneTwice(t)
  <2>1. ASSUME NEW i \in 1..Len(l) + 1, NEW j \in 1..Len(l) + 1, t[i] = t[j] PROVE i = j
    <3>1. \A k \in 1..Len(l) + 1 : k \in 1..Len(l) \/ k = Len(l) + 1
      BY <1>6
    <3>2. (i \in 1..Len(l) \/ i = Len(l) + 1) /\ (j \in 1..Len(l) \/ j = Len(l) + 1)
      BY <3>1
    <3> QED
      BY <1>6, <1>8, <1>9, <2>1, <3>2
  <2> QED
    BY <1>9, <2>1 DEF NoneTwice
<1>14. c \in DeviceRecord /\ c.inputDevices = c.shown
  BY <1>6, <1>9, <1>10 DEF DeviceRecord
<1>15. c.deviceList = t /\ SameElse(c, d)
  BY <1>6, <1>10 DEF DeviceRecord, SameElse
<1>16. e = [c EXCEPT !.inputDevices = t, !.shown = t]
  BY <1>11, <1>12, <1>14, <1>15, UpdateShows
<1>17. /\ e \in DeviceRecord /\ e.deviceList = t /\ e.inputDevices = t /\ e.shown = t
       /\ SameElse(e, d)
  BY <1>9, <1>14, <1>15, <1>16 DEF DeviceRecord, SameElse
<1>18. Listed(d, path) <=> \E i \in 1..Len(l) : l[i].path = path
  BY <1>1, <1>6 DEF Listed
<1>19. Listed(d, path) => path \in tw
  BY <1>3
<1>20. ASSUME NEW i \in 1..Len(l) + 1, NEW j \in 1..Len(l) + 1, t[i].path = t[j].path, i # j
       PROVE  t[i].path \in tw
  <2>1. \A k \in 1..Len(l) + 1 : k \in 1..Len(l) \/ k = Len(l) + 1
    BY <1>6
  <2>2. CASE i \in 1..Len(l) /\ j \in 1..Len(l)
    BY <1>6, <1>9, <1>20, <2>2
  <2>3. CASE i = Len(l) + 1 /\ j \in 1..Len(l)
    BY <1>8, <1>9, <1>18, <1>19, <1>20, <2>3
  <2>4. CASE i \in 1..Len(l) /\ j = Len(l) + 1
    BY <1>8, <1>9, <1>18, <1>19, <1>20, <2>4
  <2> QED
    BY <1>20, <2>1, <2>2, <2>3, <2>4
<1>21. ASSUME NEW p \in DevicePaths PROVE Listed(e, p) <=> Listed(d, p) \/ p = path
  <2>1. Listed(e, p) <=> \E k \in 1..Len(l) + 1 : t[k].path = p
    BY <1>9, <1>17 DEF Listed
  <2>2. Listed(d, p) <=> \E k \in 1..Len(l) : l[k].path = p
    BY <1>1, <1>6 DEF Listed
  <2>3. \A k \in 1..Len(l) + 1 : k \in 1..Len(l) \/ k = Len(l) + 1
    BY <1>6
  <2>4. Len(l) + 1 \in 1..Len(l) + 1 /\ \A k \in 1..Len(l) : k \in 1..Len(l) + 1
    BY <1>6
  <2> QED
    BY <1>8, <1>9, <2>1, <2>2, <2>3, <2>4
<1> QED
  <2>1. Twice(e) = tw
    BY <1>3, <1>17 DEF SameElse, Twice
  <2> QED
    BY <1>1, <1>9, <1>12, <1>17, <1>20, <1>21, <2>1 DEF ListedWell

\* One round of removeDevice().
RemovedAt(v, i, path) ==
    IF i \in DOMAIN v.deviceList /\ v.deviceList[i].path = path
    THEN UpdateDeviceList([v EXCEPT !.deviceList = RemoveAt(@, i)])
    ELSE v

\* v is d without some devices of the path, and without it if it was not there twice;
\* up to the i-th device, rounds have looked at.
LessOf(v, d, path, i) ==
    /\ ListedWell(v) /\ SameElse(v, d)
    /\ \A p \in DevicePaths : p # path => (Listed(v, p) <=> Listed(d, p))
    /\ \/ path \in Twice(d)
       \/ ~Listed(v, path)
       \/ v = d /\ \A k \in DOMAIN d.deviceList : k <= i => d.deviceList[k].path # path

LEMMA RemovedAtLists ==
    ASSUME NEW v, ListedWell(v), NEW path \in DevicePaths, NEW i \in DOMAIN v.deviceList,
           v.deviceList[i].path = path, NEW w, w = RemovedAt(v, i, path)
    PROVE  /\ ListedWell(w) /\ SameElse(w, v)
           /\ \A p \in DevicePaths : p # path => (Listed(w, p) <=> Listed(v, p))
           /\ path \in Twice(v) \/ ~Listed(w, path)
<1>1. PICK l : l = v.deviceList
  OBVIOUS
<1>2. PICK t : t = RemoveAt(l, i)
  OBVIOUS
<1>3. PICK c : c = [v EXCEPT !.deviceList = t]
  OBVIOUS
<1>4. /\ l \in Seq(Device) /\ v \in DeviceRecord /\ v.inputDevices = l /\ v.shown = l
      /\ Len(l) \in Nat /\ DOMAIN l = 1..Len(l) /\ i \in 1..Len(l) /\ l[i].path = path
      /\ \A j, k \in 1..Len(l) : l[j] = l[k] => j = k
      /\ \A j, k \in 1..Len(l) : l[j].path = l[k].path /\ j # k => l[j].path \in Twice(v)
  <2>1. l \in Seq(Device) /\ v \in DeviceRecord /\ v.inputDevices = l /\ v.shown = l
    BY <1>1 DEF ListedWell, DeviceRecord
  <2>2. Len(l) \in Nat /\ DOMAIN l = 1..Len(l)
    BY <2>1, SequenceDomain
  <2> QED
    BY <1>1, <2>1, <2>2 DEF ListedWell, NoneTwice
<1>5. w = UpdateDeviceList(c)
  BY <1>1, <1>2, <1>3 DEF RemovedAt
<1>6. /\ t \in Seq(Device) /\ Len(t) = Len(l) - 1 /\ DOMAIN t = 1..Len(l) - 1
      /\ \A k \in 1..Len(l) - 1 : t[k] = l[IF k < i THEN k ELSE k + 1]
  <2>1. t \in Seq(Device) /\ OneLess(t, l, i)
    BY <1>2, <1>4, ElementRemoved
  <2>2. DOMAIN t = 1..Len(t)
    BY <2>1, SequenceDomain
  <2> QED
    BY <2>1, <2>2 DEF OneLess
<1> DEFINE from(k) == IF k < i THEN k ELSE k + 1
<1>7. \A k \in 1..Len(l) - 1 : from(k) \in 1..Len(l) /\ from(k) # i /\ t[k] = l[from(k)]
  BY <1>4, <1>6
<1>8. \A j, k \in 1..Len(l) - 1 : from(j) = from(k) => j = k
  BY <1>4
<1>9. \A k \in 1..Len(l) : k # i => \E j \in 1..Len(l) - 1 : from(j) = k
  <2> SUFFICES ASSUME NEW k \in 1..Len(l), k # i PROVE \E j \in 1..Len(l) - 1 : from(j) = k
    OBVIOUS
  <2>1. CASE k < i
    BY <1>4, <2>1
  <2>2. CASE i < k
    <3>1. k - 1 \in 1..Len(l) - 1 /\ from(k - 1) = k
      BY <1>4, <2>2
    <3> QED
      BY <3>1
  <2> QED
    BY <1>4, <2>1, <2>2
<1> HIDE DEF from
<1>10. NoneTwice(t)
  <2>1. ASSUME NEW j \in 1..Len(l) - 1, NEW k \in 1..Len(l) - 1, t[j] = t[k] PROVE j = k
    BY <1>4, <1>7, <1>8, <2>1
  <2> QED
    BY <1>6, <2>1 DEF NoneTwice
<1>11. c \in DeviceRecord /\ c.inputDevices = c.shown
  BY <1>3, <1>4, <1>6 DEF DeviceRecord
<1>12. c.deviceList = t /\ SameElse(c, v)
  BY <1>3, <1>4 DEF DeviceRecord, SameElse
<1>13. w = [c EXCEPT !.inputDevices = t, !.shown = t]
  BY <1>5, <1>10, <1>11, <1>12, UpdateShows
<1>14. /\ w \in DeviceRecord /\ w.deviceList = t /\ w.inputDevices = t /\ w.shown = t
       /\ SameElse(w, v) /\ Twice(w) = Twice(v)
  BY <1>6, <1>11, <1>12, <1>13 DEF DeviceRecord, SameElse, Twice
<1>15. ASSUME NEW j \in 1..Len(l) - 1, NEW k \in 1..Len(l) - 1, t[j].path = t[k].path, j # k
       PROVE  t[j].path \in Twice(v)
  BY <1>4, <1>7, <1>8, <1>15
<1>16. ListedWell(w)
  BY <1>6, <1>10, <1>14, <1>15 DEF ListedWell
<1>17. ASSUME NEW p
       PROVE  /\ Listed(w, p) <=> \E k \in 1..Len(l) - 1 : t[k].path = p
              /\ Listed(v, p) <=> \E k \in 1..Len(l) : l[k].path = p
  BY <1>1, <1>4, <1>6, <1>14 DEF Listed
<1>18. ASSUME NEW p \in DevicePaths, p # path PROVE Listed(w, p) <=> Listed(v, p)
  <2>1. ASSUME NEW k \in 1..Len(l) - 1, t[k].path = p PROVE \E j \in 1..Len(l) : l[j].path = p
    BY <1>7, <2>1
  <2>2. ASSUME NEW k \in 1..Len(l), l[k].path = p PROVE \E j \in 1..Len(l) - 1 : t[j].path = p
    <3>1. PICK j \in 1..Len(l) - 1 : from(j) = k
      BY <1>4, <1>9, <1>18, <2>2
    <3>2. t[j] = l[k]
      BY <1>7, <3>1
    <3> QED
      BY <2>2, <3>2
  <2> QED
    BY <1>17, <2>1, <2>2
<1>19. path \in Twice(v) \/ ~Listed(w, path)
  <2> SUFFICES ASSUME Listed(w, path) PROVE path \in Twice(v)
    OBVIOUS
  <2>1. PICK k \in 1..Len(l) - 1 : t[k].path = path
    BY <1>17
  <2> QED
    BY <1>4, <1>7, <2>1
<1> QED
  BY <1>14, <1>16, <1>18, <1>19

LEMMA LessOfRound ==
    ASSUME NEW d, NEW path \in DevicePaths, NEW i \in Nat \ {0}, NEW v, LessOf(v, d, path, i - 1)
    PROVE  LessOf(RemovedAt(v, i, path), d, path, i)
<1>1. PICK w : w = RemovedAt(v, i, path)
  OBVIOUS
<1>2. CASE i \in DOMAIN v.deviceList /\ v.deviceList[i].path = path
  <2>1. /\ ListedWell(w) /\ SameElse(w, v)
        /\ \A p \in DevicePaths : p # path => (Listed(w, p) <=> Listed(v, p))
        /\ path \in Twice(v) \/ ~Listed(w, path)
    BY <1>1, <1>2, RemovedAtLists DEF LessOf
  <2>2. /\ SameElse(v, d) /\ Twice(v) = Twice(d)
        /\ \A p \in DevicePaths : p # path => (Listed(v, p) <=> Listed(d, p))
    BY DEF LessOf, SameElse, Twice
  <2>3. SameElse(w, d)
    BY <2>1, <2>2 DEF SameElse
  <2>4. \A p \in DevicePaths : p # path => (Listed(w, p) <=> Listed(d, p))
    BY <2>1, <2>2
  <2>5. LessOf(w, d, path, i)
    BY <2>1, <2>2, <2>3, <2>4 DEF LessOf
  <2> QED
    BY <1>1, <2>5
<1>3. CASE ~(i \in DOMAIN v.deviceList /\ v.deviceList[i].path = path)
  <2>1. w = v
    BY <1>1, <1>3 DEF RemovedAt
  <2>2. DOMAIN v.deviceList \subseteq Nat
    <3>1. v.deviceList \in Seq(Device)
      BY DEF LessOf, ListedWell, DeviceRecord
    <3> QED
      BY <3>1, SequenceDomain
  <2>3. \A k \in Nat : k <= i => k <= i - 1 \/ k = i
    OBVIOUS
  <2>4. ASSUME v = d, \A k \in DOMAIN d.deviceList : k <= i - 1 => d.deviceList[k].path # path
        PROVE  \A k \in DOMAIN d.deviceList : k <= i => d.deviceList[k].path # path
    BY <1>3, <2>2, <2>3, <2>4
  <2>5. LessOf(v, d, path, i)
    BY <2>4 DEF LessOf
  <2> QED
    BY <1>1, <2>1, <2>5
<1> QED
  BY <1>2, <1>3

\* The loop of removeDevice().
RemoveLoop(f, d, path) ==
    f = [i \in 0..Len(d.deviceList) |-> IF i = 0 THEN d ELSE RemovedAt(f[i - 1], i, path)]

\* removeDevice() takes what it was asked to, unless it is there twice.
LEMMA RemoveDeviceLists ==
    ASSUME NEW d, ListedWell(d), NEW path \in DevicePaths, NEW e, e = RemoveDevice(d, path)
    PROVE  /\ ListedWell(e) /\ SameElse(e, d)
           /\ \A p \in DevicePaths : p # path => (Listed(e, p) <=> Listed(d, p))
           /\ path \in Twice(d) \/ ~Listed(e, path)
<1> DEFINE n == Len(d.deviceList)
           G == [i \in 0..n |-> {v \in DeviceRecord : LessOf(v, d, path, i)}]
           step == [i \in 1..n |-> [v \in G[i - 1] |-> RemovedAt(v, i, path)]]
           left == CHOOSE f : RemoveLoop(f, d, path)
<1>1. d.deviceList \in Seq(Device) /\ n \in Nat /\ DOMAIN d.deviceList = 1..n
  <2>1. d.deviceList \in Seq(Device)
    BY DEF ListedWell, DeviceRecord
  <2> QED
    BY <2>1, SequenceDomain
<1>2. \A i \in 0..n : \A v : v \in G[i] <=> LessOf(v, d, path, i)
  BY DEF LessOf, ListedWell
<1>3. e = left[n]
  BY Zenon DEF RemoveDevice, RemoveLoop, RemovedAt
<1> HIDE DEF left, G
<1>4. ASSUME NEW i \in 1..n, NEW v, LessOf(v, d, path, i - 1)
      PROVE  LessOf(RemovedAt(v, i, path), d, path, i)
  <2>1. i \in Nat \ {0}
    OBVIOUS
  <2> QED
    BY <1>4, <2>1, LessOfRound
<1> HIDE DEF n
<1>5. ASSUME NEW i \in 1..n PROVE step[i] \in [G[i - 1] -> G[i]]
  <2>1. i \in 0..n /\ i - 1 \in 0..n
    BY <1>1
  <2>2. \A v \in G[i - 1] : RemovedAt(v, i, path) \in G[i]
    BY <1>2, <1>4, <2>1
  <2> QED
    BY <2>2
<1>6. d \in G[0]
  <2>1. LessOf(d, d, path, 0)
    BY <1>1 DEF LessOf, SameElse
  <2> QED
    BY <1>1, <1>2, <2>1
<1>7. ASSUME NEW i \in 1..n, NEW v \in G[i - 1] PROVE step[i][v] = RemovedAt(v, i, path)
  <2>1. step[i] = [w \in G[i - 1] |-> RemovedAt(w, i, path)]
    OBVIOUS
  <2> QED
    BY <2>1
<1> HIDE DEF step
<1>8. PICK f : f = [i \in 0..n |-> f[i]] /\ Rounds(f, n, d, step)
  BY <1>1, <1>5, <1>6, GoodLoopRuns
<1>9. f[0] = d /\ \A i \in 1..n : f[i] = step[i][f[i - 1]]
  <2> HIDE DEF n
  <2> QED
    BY <1>1, <1>8, RoundsAt
<1>10. \A i \in 0..n : f[i] \in G[i]
  <2>1. f[0] \in G[0]
    BY <1>6, <1>9
  <2>2. \A i \in 1..n : f[i - 1] \in G[i - 1] => f[i] \in G[i]
    BY <1>5, <1>9
  <2> QED
    BY <1>1, <2>1, <2>2, LoopStays
<1>11. ASSUME NEW i \in 0..n PROVE f[i] = IF i = 0 THEN d ELSE RemovedAt(f[i - 1], i, path)
  <2>1. i # 0 => i \in 1..n /\ i - 1 \in 0..n
    BY <1>1
  <2> QED
    BY <1>7, <1>9, <1>10, <2>1
<1>12. f = [i \in 0..n |-> IF i = 0 THEN d ELSE RemovedAt(f[i - 1], i, path)]
  BY <1>8, <1>11
<1>13. RemoveLoop(f, d, path)
  BY <1>12 DEF RemoveLoop, n
<1>14. RemoveLoop(left, d, path)
  BY <1>13 DEF left
<1>15. \A i \in 0..n : left[i] = IF i = 0 THEN d ELSE RemovedAt(left[i - 1], i, path)
  BY <1>14 DEF RemoveLoop, n
<1>16. \A i \in 0..n : left[i] \in G[i]
  <2>1. left[0] \in G[0]
    BY <1>1, <1>6, <1>15
  <2>2. ASSUME NEW i \in 1..n, left[i - 1] \in G[i - 1] PROVE left[i] \in G[i]
    <3>1. i \in 0..n /\ i - 1 \in 0..n /\ i # 0
      BY <1>1
    <3> QED
      BY <1>2, <1>4, <1>15, <2>2, <3>1
  <2> QED
    BY <1>1, <2>1, <2>2, LoopStays
<1>17. LessOf(e, d, path, n)
  BY <1>1, <1>2, <1>3, <1>16
<1>18. path \in Twice(d) \/ ~Listed(e, path)
  <2> SUFFICES ASSUME e = d, \A k \in DOMAIN d.deviceList : k <= n => d.deviceList[k].path # path
               PROVE  ~Listed(e, path)
    BY <1>17 DEF LessOf
  <2> QED
    BY <1>1 DEF Listed
<1> QED
  BY <1>17, <1>18 DEF LessOf

\* v lists the first i devices of the scan, and no other.
ScannedTo(v, d, order, i) ==
    /\ ListedWell(v) /\ SameElse(v, d)
    /\ \A p \in DevicePaths : Listed(v, p) <=> \E k \in 1..i : order[k] = p

\* The loop of the scan.
ScanLoop(f, d, order) ==
    f = [i \in 0..Len(order) |-> IF i = 0 THEN d ELSE AddDevice(f[i - 1], order[i])]

LEMMA ScannedRound ==
    ASSUME NEW d, NEW order \in Seq(DevicePaths), NoneTwice(order),
           NEW i \in 1..Len(order), NEW v, ScannedTo(v, d, order, i - 1)
    PROVE  ScannedTo(AddDevice(v, order[i]), d, order, i)
<1>1. PICK w : w = AddDevice(v, order[i])
  OBVIOUS
<1>2. PICK path \in DevicePaths : path = order[i]
  BY SequenceDomain
<1>3. DOMAIN order = 1..Len(order) /\ Len(order) \in Nat
  BY SequenceDomain
<1>4. /\ ListedWell(v) /\ SameElse(v, d)
      /\ \A p \in DevicePaths : Listed(v, p) <=> \E k \in 1..i - 1 : order[k] = p
  BY DEF ScannedTo
<1>5. ~Listed(v, path)
  <2>1. \A k \in 1..i - 1 : k \in 1..Len(order) /\ k # i
    BY <1>3
  <2>2. \A k \in 1..i - 1 : order[k] # path
    BY <1>2, <1>3, <2>1 DEF NoneTwice
  <2> QED
    BY <1>4, <2>2
<1>6. /\ ListedWell(w) /\ SameElse(w, v)
      /\ \A p \in DevicePaths : Listed(w, p) <=> Listed(v, p) \/ p = path
  <2>1. ListedWell(v) /\ w = AddDevice(v, path) /\ ~Listed(v, path)
    BY <1>1, <1>2, <1>4, <1>5
  <2> QED
    BY <2>1, AddDeviceLists, Zenon
<1>7. \A k \in 1..i : k \in 1..i - 1 \/ k = i
  BY <1>3
<1>8. i \in 1..i /\ \A k \in 1..i - 1 : k \in 1..i
  BY <1>3
<1>9. ASSUME NEW p \in DevicePaths PROVE Listed(w, p) <=> \E k \in 1..i : order[k] = p
  <2>1. Listed(w, p) <=> (\E k \in 1..i - 1 : order[k] = p) \/ p = path
    BY <1>4, <1>6
  <2> QED
    BY <1>2, <1>7, <1>8, <2>1
<1>10. SameElse(w, d)
  BY <1>4, <1>6 DEF SameElse
<1>11. ScannedTo(w, d, order, i)
  BY <1>6, <1>9, <1>10 DEF ScannedTo
<1> QED
  BY <1>1, <1>11

LEMMA ScannedLists ==
    ASSUME NEW d, ListedWell(d), d.deviceList = <<>>, NEW order \in Seq(DevicePaths),
           NoneTwice(order)
    PROVE  ScannedTo(Scanned(d, order), d, order, Len(order))
<1> DEFINE n == Len(order)
           G == [i \in 0..n |-> {v \in DeviceRecord : ScannedTo(v, d, order, i)}]
           step == [i \in 1..n |-> [v \in G[i - 1] |-> AddDevice(v, order[i])]]
           found == CHOOSE f : ScanLoop(f, d, order)
<1>1. n \in Nat
  BY SequenceDomain
<1>2. \A i \in 0..n : \A v : v \in G[i] <=> ScannedTo(v, d, order, i)
  BY DEF ScannedTo, ListedWell
<1>3. Scanned(d, order) = found[n]
  BY Zenon DEF Scanned, ScanLoop
<1> HIDE DEF found, G
<1>4. ASSUME NEW i \in 1..n, NEW v, ScannedTo(v, d, order, i - 1)
      PROVE  ScannedTo(AddDevice(v, order[i]), d, order, i)
  BY <1>4, ScannedRound
<1> HIDE DEF n
<1>5. ASSUME NEW i \in 1..n PROVE step[i] \in [G[i - 1] -> G[i]]
  <2>1. i \in 0..n /\ i - 1 \in 0..n
    BY <1>1
  <2>2. \A v \in G[i - 1] : AddDevice(v, order[i]) \in G[i]
    BY <1>2, <1>4, <2>1
  <2> QED
    BY <2>2
<1>6. d \in G[0]
  <2>1. \A p : ~Listed(d, p)
    BY DEF Listed
  <2>2. ScannedTo(d, d, order, 0)
    BY <2>1 DEF ScannedTo, SameElse
  <2> QED
    BY <1>1, <1>2, <2>2
<1>7. ASSUME NEW i \in 1..n, NEW v \in G[i - 1] PROVE step[i][v] = AddDevice(v, order[i])
  <2>1. step[i] = [w \in G[i - 1] |-> AddDevice(w, order[i])]
    OBVIOUS
  <2> QED
    BY <2>1
<1> HIDE DEF step
<1>8. PICK f : f = [i \in 0..n |-> f[i]] /\ Rounds(f, n, d, step)
  BY <1>1, <1>5, <1>6, GoodLoopRuns
<1>9. f[0] = d /\ \A i \in 1..n : f[i] = step[i][f[i - 1]]
  BY <1>1, <1>8 DEF Rounds
<1>10. \A i \in 0..n : f[i] \in G[i]
  <2>1. f[0] \in G[0]
    BY <1>6, <1>9
  <2>2. \A i \in 1..n : f[i - 1] \in G[i - 1] => f[i] \in G[i]
    BY <1>5, <1>9
  <2> QED
    BY <1>1, <2>1, <2>2, LoopStays
<1>11. ASSUME NEW i \in 0..n PROVE f[i] = IF i = 0 THEN d ELSE AddDevice(f[i - 1], order[i])
  <2>1. i # 0 => i \in 1..n /\ i - 1 \in 0..n
    BY <1>1
  <2> QED
    BY <1>7, <1>9, <1>10, <2>1
<1>12. f = [i \in 0..n |-> IF i = 0 THEN d ELSE AddDevice(f[i - 1], order[i])]
  BY <1>8, <1>11
<1>13. ScanLoop(f, d, order)
  BY <1>12 DEF ScanLoop, n
<1>14. ScanLoop(found, d, order)
  BY <1>13 DEF found
<1>15. \A i \in 0..n : found[i] = IF i = 0 THEN d ELSE AddDevice(found[i - 1], order[i])
  BY <1>14 DEF ScanLoop, n
<1>16. \A i \in 0..n : found[i] \in G[i]
  <2>1. found[0] \in G[0]
    BY <1>1, <1>6, <1>15
  <2>2. ASSUME NEW i \in 1..n, found[i - 1] \in G[i - 1] PROVE found[i] \in G[i]
    <3>1. i \in 0..n /\ i - 1 \in 0..n /\ i # 0
      BY <1>1
    <3> QED
      BY <1>2, <1>4, <1>15, <2>2, <3>1
  <2> QED
    BY <1>1, <2>1, <2>2, LoopStays
<1> QED
  BY <1>1, <1>2, <1>3, <1>16 DEF n

LEMMA ScanUdevKeeps ==
    ASSUME DevicesInv, NEW order \in SetToSeqs(devices.plugged \cap EventPaths), ScanUdev(order)
    PROVE  DevicesInv'
<1> USE InputAssumption
<1>1. PICK d : d = devices
  OBVIOUS
<1>2. PICK e : e = devices'
  OBVIOUS
<1>3. PICK v : v = Scanned(d, order)
  OBVIOUS
<1>4. PICK there : there = d.plugged \cap EventPaths
  OBVIOUS
<1>5. /\ ListedWell(d) /\ d.step = "monitoring" /\ d.deviceList = <<>>
      /\ d \in DeviceRecord /\ there \in SUBSET DevicePaths
      /\ \A path \in DevicePaths : PathInv(d, path)
      /\ \A k \in DOMAIN d.messages : d.messages[k].add => d.messages[k].path \in d.early
  BY <1>1, <1>4 DEF DevicesInv, ScanUdev, ListedWell, DeviceRecord
<1>6. order \in Seq(DevicePaths) /\ NoneTwice(order) /\ ToSet(order) = there
  <2>1. Cardinality(there) \in Nat
    BY <1>5, FS_Subset, FS_CardinalityType
  <2>2. /\ order \in [1..Cardinality(there) -> there]
        /\ \A i, j \in 1..Cardinality(there) : i # j => order[i] # order[j]
    BY <1>1, <1>4 DEF SetToSeqs
  <2>3. order \in [1..Cardinality(there) -> DevicePaths]
    BY <1>5, <2>2
  <2>4. order \in Seq(DevicePaths)
    BY <2>1, <2>3
  <2>5. NoneTwice(order)
    BY <2>2 DEF NoneTwice
  <2> QED
    BY <1>1, <1>4, <2>4, <2>5 DEF ScanUdev
<1>7. ScannedTo(v, d, order, Len(order))
  BY <1>3, <1>5, <1>6, ScannedLists
<1>8. /\ ListedWell(v) /\ SameElse(v, d)
      /\ \A p \in DevicePaths : Listed(v, p) <=> p \in there
  <2>1. DOMAIN order = 1..Len(order)
    BY <1>6, SequenceDomain
  <2>2. \A p : p \in there <=> \E k \in 1..Len(order) : order[k] = p
    BY <1>6, <2>1 DEF ToSet
  <2> QED
    BY <1>7, <2>2 DEF ScannedTo
<1>9. PICK c : c = [v EXCEPT !.step = "ready"]
  OBVIOUS
<1>10. /\ v \in DeviceRecord /\ v.inputDevices = v.deviceList /\ v.shown = v.deviceList
       /\ NoneTwice(v.deviceList)
  BY <1>8 DEF ListedWell
<1>11. c \in DeviceRecord
  BY <1>9, <1>10 DEF DeviceRecord
<1>12. /\ c.inputDevices = c.shown /\ c.deviceList = v.deviceList /\ c.step = "ready"
       /\ c.plugged = v.plugged /\ c.messages = v.messages
       /\ c.early = v.early /\ c.reported = v.reported
       /\ c.inputDevices = c.deviceList /\ c.shown = c.deviceList
  BY <1>9, <1>10 DEF DeviceRecord
<1>13. e = [c EXCEPT !.inputDevices = c.deviceList, !.shown = c.deviceList]
  <2>1. e = UpdateDeviceList(c)
    BY <1>1, <1>2, <1>3, <1>9 DEF ScanUdev
  <2> QED
    BY <1>10, <1>11, <1>12, <2>1, UpdateShows
<1>14. e = c
  BY <1>11, <1>12, <1>13 DEF DeviceRecord
<1>15. /\ e.messages = d.messages /\ e.plugged = d.plugged /\ e.reported = d.reported
       /\ Twice(e) = Twice(d) /\ Twice(v) = Twice(d) /\ e.step = "ready"
       /\ \A p \in DevicePaths : Listed(e, p) <=> p \in there
  <2>1. \A p \in DevicePaths : Listed(e, p) <=> Listed(v, p)
    BY <1>12, <1>14 DEF Listed
  <2> QED
    BY <1>8, <1>12, <1>14, <2>1 DEF SameElse, Twice
<1>16. ListedWell(e)
  BY <1>8, <1>11, <1>12, <1>14, <1>15 DEF ListedWell
<1>17. ASSUME NEW path \in DevicePaths PROVE PathInv(e, path)
  <2>1. LastIsTrue(d, path) /\ Alternate(d, path) /\ Settled(d, path)
    BY <1>5 DEF PathInv
  <2>2. LastIsTrue(e, path) /\ Alternate(e, path)
    BY <1>15, <2>1 DEF LastIsTrue, Alternate
  <2>3. FirstIsNew(e, path)
    BY <1>4, <1>5, <1>15 DEF FirstIsNew, Twice
  <2>4. Unmentioned(e, path) => path \notin d.reported
    BY <1>5, <1>15, <2>1 DEF Settled, Unmentioned
  <2>5. Settled(e, path)
    BY <1>4, <1>15, <2>4 DEF Settled, Listable
  <2>6. Listed(e, path) => path \notin InputPaths
    BY <1>4, <1>15
  <2> QED
    BY <2>2, <2>3, <2>5, <2>6 DEF PathInv
<1> QED
  BY <1>2, <1>15, <1>16, <1>17 DEF DevicesInv

LEMMA PlugDeviceKeeps ==
    ASSUME DevicesInv, NEW path \in DevicePaths, PlugDevice(path)
    PROVE  DevicesInv'
<1>1. PICK d : d = devices
  OBVIOUS
<1>2. PICK e : e = devices'
  OBVIOUS
<1>3. PICK plugged : plugged = IF path \notin d.plugged THEN d.plugged \cup {path}
                               ELSE d.plugged \ {path}
  OBVIOUS
<1>4. PICK m : m = [path |-> path, add |-> path \notin d.plugged]
  OBVIOUS
<1>5. PICK messages : messages = IF d.step # "created" THEN Append(d.messages, m) ELSE d.messages
  OBVIOUS
<1>6. PICK reported : reported = IF path \notin d.plugged /\ d.step # "created"
                                 THEN d.reported \cup {path} ELSE d.reported \ {path}
  OBVIOUS
<1>7. PICK early : early = IF path \notin d.plugged /\ d.step = "monitoring"
                           THEN d.early \cup {path} ELSE d.early
  OBVIOUS
<1>8. /\ ListedWell(d) /\ (d.step = "created" => d.messages = <<>>)
      /\ (d.step # "ready" => d.deviceList = <<>>)
      /\ d.step # "ready" =>
            \A k \in DOMAIN d.messages : d.messages[k].add => d.messages[k].path \in d.early
      /\ d \in DeviceRecord /\ d.messages \in Seq(DeviceMessage)
      /\ d.plugged \in SUBSET DevicePaths
      /\ d.early \in SUBSET DevicePaths /\ d.reported \in SUBSET DevicePaths
      /\ d.step \in {"created", "monitoring", "ready"}
      /\ \A p \in DevicePaths : PathInv(d, p)
  BY <1>1 DEF DevicesInv, ListedWell, DeviceRecord
<1>9. e = [d EXCEPT !.plugged = plugged, !.messages = messages, !.reported = reported,
                    !.early = early]
  BY <1>1, <1>2, <1>3, <1>4, <1>5, <1>6, <1>7 DEF PlugDevice
<1>10. m \in DeviceMessage /\ m.path = path /\ (m.add <=> path \in plugged)
       /\ (m.add <=> path \notin d.plugged)
  BY <1>3, <1>4 DEF DeviceMessage
<1>11. /\ plugged \in SUBSET DevicePaths /\ reported \in SUBSET DevicePaths
       /\ early \in SUBSET DevicePaths /\ d.early \subseteq early
  BY <1>3, <1>6, <1>7, <1>8
<1>12. messages \in Seq(DeviceMessage)
  BY <1>5, <1>8, <1>10, SequenceAppended
<1>13. /\ e \in DeviceRecord /\ e.messages = messages /\ e.plugged = plugged
       /\ e.reported = reported /\ e.early = early
       /\ e.step = d.step /\ e.deviceList = d.deviceList
       /\ e.inputDevices = d.inputDevices /\ e.shown = d.shown
  BY <1>8, <1>9, <1>11, <1>12 DEF DeviceRecord
<1>14. /\ Twice(d) \subseteq Twice(e)
       /\ \A p : Listed(e, p) <=> Listed(d, p)
  BY <1>11, <1>13 DEF Twice, Listed
<1>15. ListedWell(e)
  BY <1>8, <1>13, <1>14 DEF ListedWell
<1>16. CASE d.step = "created"
  <2>1. messages = <<>> /\ d.messages = <<>> /\ reported \subseteq d.reported
    BY <1>5, <1>6, <1>8, <1>16
  <2>2. ASSUME NEW p \in DevicePaths PROVE PathInv(e, p)
    <3>1. Settled(d, p) /\ (Listed(d, p) => p \notin InputPaths)
      BY <1>8 DEF PathInv
    <3>2. p \notin d.reported
      BY <1>16, <2>1, <3>1 DEF Settled, Unmentioned
    <3>3. Settled(e, p)
      BY <1>13, <1>16, <2>1, <3>2 DEF Settled
    <3>4. LastIsTrue(e, p) /\ Alternate(e, p) /\ FirstIsNew(e, p)
      BY <1>13, <2>1 DEF LastIsTrue, Alternate, FirstIsNew
    <3> QED
      BY <1>14, <3>1, <3>3, <3>4 DEF PathInv
  <2> QED
    BY <1>2, <1>8, <1>13, <1>15, <1>16, <2>1, <2>2 DEF DevicesInv
<1>17. CASE d.step # "created"
  <2>1. /\ DOMAIN messages = 1..Len(d.messages) + 1
        /\ \A k \in 1..Len(d.messages) : messages[k] = d.messages[k]
        /\ messages[Len(d.messages) + 1] = m
        /\ DOMAIN d.messages = 1..Len(d.messages) /\ Len(d.messages) \in Nat
    BY <1>5, <1>8, <1>10, <1>17, SequenceAppended, SequenceDomain
  <2> DEFINE n == Len(d.messages)
  <2>2. n + 1 \in 1..n + 1 /\ \A k \in 1..n + 1 : k \in 1..n \/ k = n + 1
    BY <2>1
  <2>3. \A k \in 1..n : k \in 1..n + 1 /\ n + 1 > k /\ k < n + 1 /\ ~(k > n + 1)
    BY <2>1
  <2>4. /\ DOMAIN messages = 1..n + 1 /\ DOMAIN d.messages = 1..n
        /\ \A k \in 1..n : messages[k] = d.messages[k]
        /\ messages[n + 1] = m
    BY <2>1
  <2>5. \A k \in 1..n + 1 : k < n + 1 => k \in 1..n
    BY <2>1
  <2> HIDE DEF n
  <2>6. ASSUME NEW p \in DevicePaths PROVE Alternate(e, p)
    <3> SUFFICES ASSUME NEW k \in 1..n + 1, NEW o \in 1..n + 1, k < o,
                        messages[k].path = p, messages[o].path = p,
                        \A q \in 1..n + 1 : k < q /\ q < o => messages[q].path # p
                 PROVE  messages[k].add <=> ~messages[o].add
      BY <1>13, <2>4 DEF Alternate
    <3>1. LastIsTrue(d, p) /\ Alternate(d, p)
      BY <1>8 DEF PathInv
    <3>2. k \in 1..n
      BY <2>1, <2>5 DEF n
    <3>3. CASE o \in 1..n
      <4>1. \A q \in 1..n : k < q /\ q < o => d.messages[q].path # p
        BY <2>3, <2>4
      <4> QED
        BY <2>4, <3>1, <3>2, <3>3, <4>1 DEF Alternate
    <3>4. CASE o = n + 1
      <4>1. \A q \in 1..n : q > k => k < q /\ q < o
        BY <2>1, <3>2, <3>4 DEF n
      <4>2. \A q \in 1..n : q > k => d.messages[q].path # p
        BY <2>3, <2>4, <4>1
      <4>3. p = path /\ messages[o] = m
        BY <1>10, <2>4, <3>4
      <4>4. d.messages[k].add <=> p \in d.plugged
        BY <2>4, <3>1, <3>2, <4>2 DEF LastIsTrue
      <4> QED
        BY <1>10, <2>4, <3>2, <4>3, <4>4
    <3> QED
      BY <2>2, <3>3, <3>4
  <2>7. ASSUME NEW p \in DevicePaths PROVE FirstIsNew(e, p)
    <3> SUFFICES ASSUME NEW k \in 1..n + 1, messages[k].path = p, messages[k].add,
                        \A q \in 1..n + 1 : q < k => messages[q].path # p
                 PROVE  ~Listed(d, p) \/ p \in Twice(e)
      BY <1>13, <1>14, <2>4 DEF FirstIsNew
    <3>1. FirstIsNew(d, p) /\ Settled(d, p)
      BY <1>8 DEF PathInv
    <3>2. CASE k \in 1..n
      <4>1. \A q \in 1..n : q < k => d.messages[q].path # p
        BY <2>3, <2>4
      <4> QED
        BY <1>14, <2>4, <3>1, <3>2, <4>1 DEF FirstIsNew
    <3>3. CASE k = n + 1
      <4>1. \A q \in 1..n : d.messages[q].path # p
        BY <2>3, <2>4, <3>3
      <4>2. Unmentioned(d, p)
        BY <2>4, <4>1 DEF Unmentioned
      <4>3. p = path /\ p \notin d.plugged
        BY <1>10, <2>4, <3>3
      <4>4. CASE d.step = "ready"
        BY <1>14, <3>1, <4>2, <4>3, <4>4 DEF Settled, Listable
      <4>5. CASE d.step # "ready"
        <5>1. ~Listed(d, p)
          BY <1>8, <4>5 DEF Listed
        <5> QED
          BY <5>1
      <4> QED
        BY <4>4, <4>5
    <3> QED
      BY <2>2, <3>2, <3>3
  <2>8. ASSUME NEW p \in DevicePaths PROVE LastIsTrue(e, p) /\ Settled(e, p)
    <3>1. CASE p = path
      <4>1. ASSUME NEW k \in 1..n + 1, \A o \in 1..n + 1 : o > k => messages[o].path # p
            PROVE  k = n + 1
        BY <1>10, <2>2, <2>3, <2>4, <3>1, <4>1
      <4>2. m.add => path \in reported
        BY <1>6, <1>10, <1>17
      <4>3. LastIsTrue(e, p)
        BY <1>10, <1>13, <2>4, <3>1, <4>1, <4>2 DEF LastIsTrue
      <4>4. ~Unmentioned(e, p)
        BY <1>10, <1>13, <2>2, <2>4, <3>1 DEF Unmentioned
      <4> QED
        BY <4>3, <4>4 DEF Settled
    <3>2. CASE p # path
      <4>1. /\ p \in plugged <=> p \in d.plugged
            /\ p \in reported <=> p \in d.reported
            /\ p \in early <=> p \in d.early
        BY <1>3, <1>6, <1>7, <3>2
      <4>2. LastIsTrue(d, p) /\ Settled(d, p)
        BY <1>8 DEF PathInv
      <4>3. messages[n + 1].path # p
        BY <1>10, <2>4, <3>2
      <4>4. ASSUME NEW k \in 1..n + 1, messages[k].path = p,
                   \A o \in 1..n + 1 : o > k => messages[o].path # p
            PROVE  (messages[k].add <=> p \in plugged) /\ (messages[k].add => p \in reported)
        <5>1. k \in 1..n
          BY <2>2, <4>3, <4>4
        <5>2. d.messages[k].path = p /\ \A o \in 1..n : o > k => d.messages[o].path # p
          BY <2>3, <2>4, <4>4, <5>1
        <5>3. (d.messages[k].add <=> p \in d.plugged) /\ (d.messages[k].add => p \in d.reported)
          BY <2>4, <4>2, <5>1, <5>2 DEF LastIsTrue
        <5> QED
          BY <2>4, <4>1, <5>1, <5>3
      <4>5. LastIsTrue(e, p)
        BY <1>13, <2>4, <4>4 DEF LastIsTrue
      <4>6. Unmentioned(e, p) => Unmentioned(d, p)
        BY <1>13, <2>3, <2>4 DEF Unmentioned
      <4>7. (p \in Listable(e) <=> p \in Listable(d)) /\ (p \in Twice(e) <=> p \in Twice(d))
        BY <1>13, <4>1 DEF Listable, Twice
      <4>8. Settled(e, p)
        BY <1>13, <1>14, <4>1, <4>2, <4>6, <4>7 DEF Settled
      <4> QED
        BY <4>5, <4>8
    <3> QED
      BY <3>1, <3>2
  <2>9. ASSUME NEW p \in DevicePaths PROVE PathInv(e, p)
    BY <1>8, <1>14, <2>6, <2>7, <2>8 DEF PathInv
  <2>10. ASSUME d.step # "ready", NEW k \in 1..n + 1, messages[k].add
         PROVE  messages[k].path \in early
    <3>1. CASE k \in 1..n
      BY <1>8, <1>11, <2>4, <2>10, <3>1
    <3>2. CASE k = n + 1
      BY <1>7, <1>8, <1>10, <1>17, <2>4, <2>10, <3>2
    <3> QED
      BY <2>2, <3>1, <3>2
  <2> QED
    BY <1>2, <1>8, <1>13, <1>15, <1>17, <2>4, <2>9, <2>10 DEF DevicesInv
<1> QED
  BY <1>16, <1>17

LEMMA OnUDevChangesKeeps ==
    ASSUME DevicesInv, OnUDevChanges
    PROVE  DevicesInv'
<1>1. PICK b : b = devices
  OBVIOUS
<1>2. PICK e : e = devices'
  OBVIOUS
<1>3. PICK m : m = Head(b.messages)
  OBVIOUS
<1>4. PICK rest : rest = Tail(b.messages)
  OBVIOUS
<1>5. PICK d : d = [b EXCEPT !.messages = rest]
  OBVIOUS
<1>6. /\ b.step = "ready" /\ b.messages # <<>>
      /\ e = IF m.path \in InputPaths THEN d
             ELSE IF m.add THEN AddDevice(d, m.path) ELSE RemoveDevice(d, m.path)
  BY <1>1, <1>2, <1>3, <1>4, <1>5 DEF OnUDevChanges
<1>7. /\ ListedWell(b) /\ b \in DeviceRecord /\ b.messages \in Seq(DeviceMessage)
      /\ \A p \in DevicePaths : PathInv(b, p)
  BY <1>1 DEF DevicesInv, ListedWell, DeviceRecord
<1>8. /\ m = b.messages[1] /\ m \in DeviceMessage /\ rest \in Seq(DeviceMessage)
      /\ 1 \in DOMAIN b.messages
      /\ \A k \in DOMAIN rest : k + 1 \in DOMAIN b.messages /\ rest[k] = b.messages[k + 1]
      /\ \A k \in DOMAIN b.messages : k # 1 => k - 1 \in DOMAIN rest /\ rest[k - 1] = b.messages[k]
      /\ DOMAIN rest \subseteq Nat /\ DOMAIN b.messages \subseteq Nat
  <2>1. /\ DOMAIN b.messages = 1..Len(b.messages) /\ DOMAIN rest = 1..Len(rest)
    BY <1>4, <1>6, <1>7, SequenceTail, SequenceDomain
  <2> QED
    BY <1>3, <1>4, <1>6, <1>7, <2>1, SequenceTail
<1>9. m.path \in DevicePaths /\ m.add \in BOOLEAN
  BY <1>8 DEF DeviceMessage
<1>10. /\ d \in DeviceRecord /\ d.messages = rest /\ d.plugged = b.plugged /\ d.step = b.step
       /\ d.deviceList = b.deviceList /\ d.inputDevices = b.inputDevices
       /\ d.shown = b.shown /\ d.early = b.early /\ d.reported = b.reported
       /\ Twice(d) = Twice(b)
  BY <1>5, <1>7, <1>8 DEF DeviceRecord, Twice
<1>11. ListedWell(d)
  BY <1>7, <1>10 DEF ListedWell
<1>12. \A p : Listed(d, p) <=> Listed(b, p)
  BY <1>10 DEF Listed
<1>13. ~(m.path \in InputPaths) /\ m.add => ~Listed(d, m.path) \/ m.path \in Twice(d)
  <2>1. FirstIsNew(b, m.path) /\ \A k \in DOMAIN b.messages : ~(k < 1)
    BY <1>7, <1>8, <1>9 DEF PathInv
  <2> QED
    BY <1>8, <1>10, <1>12, <2>1 DEF FirstIsNew
<1>14. /\ ListedWell(e) /\ SameElse(e, d)
       /\ \A p \in DevicePaths : p # m.path => (Listed(e, p) <=> Listed(d, p))
       /\ IF m.path \in InputPaths THEN ~Listed(e, m.path)
          ELSE IF m.add THEN Listed(e, m.path)
          ELSE m.path \in Twice(d) \/ ~Listed(e, m.path)
  <2>1. CASE m.path \notin InputPaths /\ m.add
    <3>1. PICK path \in DevicePaths : path = m.path
      BY <1>9
    <3>2. e = AddDevice(d, path)
      BY <1>6, <2>1, <3>1
    <3>3. Listed(d, path) => path \in Twice(d)
      BY <1>13, <2>1, <3>1
    <3>4. /\ ListedWell(e) /\ SameElse(e, d)
          /\ \A p \in DevicePaths : Listed(e, p) <=> Listed(d, p) \/ p = path
      BY <1>11, <3>2, <3>3, AddDeviceLists
    <3> QED
      BY <2>1, <3>1, <3>4
  <2>2. CASE m.path \notin InputPaths /\ ~m.add
    <3>1. e = RemoveDevice(d, m.path)
      BY <1>6, <2>2
    <3>2. /\ ListedWell(e) /\ SameElse(e, d)
          /\ \A p \in DevicePaths : p # m.path => (Listed(e, p) <=> Listed(d, p))
          /\ m.path \in Twice(d) \/ ~Listed(e, m.path)
      BY <1>9, <1>11, <3>1, RemoveDeviceLists
    <3> QED
      BY <2>2, <3>2
  <2>3. CASE m.path \in InputPaths
    <3>1. e = d
      BY <1>6, <2>3
    <3>2. ~Listed(b, m.path)
      BY <1>7, <1>9, <2>3 DEF PathInv
    <3> QED
      BY <1>11, <1>12, <2>3, <3>1, <3>2 DEF SameElse
  <2> QED
    BY <2>1, <2>2, <2>3
<1>15. /\ e.messages = rest /\ e.plugged = b.plugged /\ e.step = "ready"
       /\ e.reported = b.reported /\ Twice(e) = Twice(b) /\ Listable(e) = Listable(b)
       /\ \A p \in DevicePaths : p # m.path => (Listed(e, p) <=> Listed(b, p))
  BY <1>6, <1>10, <1>12, <1>14 DEF SameElse, Twice, Listable
<1>16. ASSUME NEW p \in DevicePaths PROVE LastIsTrue(e, p)
  <2>1. ASSUME NEW k \in DOMAIN rest, rest[k].path = p,
               \A o \in DOMAIN rest : o > k => rest[o].path # p
        PROVE  (rest[k].add <=> p \in b.plugged) /\ (rest[k].add => p \in b.reported)
    <3>1. k + 1 \in DOMAIN b.messages /\ b.messages[k + 1] = rest[k] /\ k \in Nat
      BY <1>8
    <3>2. ASSUME NEW o \in DOMAIN b.messages, o > k + 1 PROVE b.messages[o].path # p
      <4>1. o # 1 /\ o - 1 > k /\ o - 1 \in DOMAIN rest /\ b.messages[o] = rest[o - 1]
        BY <1>8, <3>1, <3>2
      <4> QED
        BY <2>1, <4>1
    <3>3. LastIsTrue(b, p)
      BY <1>7 DEF PathInv
    <3> QED
      BY <2>1, <3>1, <3>2, <3>3 DEF LastIsTrue
  <2> QED
    BY <1>15, <2>1 DEF LastIsTrue
<1>17. ASSUME NEW p \in DevicePaths PROVE Alternate(e, p)
  <2> SUFFICES ASSUME NEW k \in DOMAIN rest, NEW o \in DOMAIN rest, k < o,
                      rest[k].path = p, rest[o].path = p,
                      \A q \in DOMAIN rest : k < q /\ q < o => rest[q].path # p
               PROVE  rest[k].add <=> ~rest[o].add
    BY <1>15 DEF Alternate
  <2>1. /\ k + 1 \in DOMAIN b.messages /\ b.messages[k + 1] = rest[k] /\ k \in Nat
        /\ o + 1 \in DOMAIN b.messages /\ b.messages[o + 1] = rest[o] /\ o \in Nat
    BY <1>8
  <2>2. ASSUME NEW q \in DOMAIN b.messages, k + 1 < q, q < o + 1 PROVE b.messages[q].path # p
    <3>1. /\ q # 1 /\ k < q - 1 /\ q - 1 < o /\ q - 1 \in DOMAIN rest
          /\ b.messages[q] = rest[q - 1]
      BY <1>8, <2>1, <2>2
    <3> QED
      BY <3>1
  <2>3. Alternate(b, p) /\ k + 1 < o + 1
    BY <1>7, <2>1 DEF PathInv
  <2> QED
    BY <2>1, <2>2, <2>3 DEF Alternate
<1>18. ASSUME NEW p \in DevicePaths PROVE FirstIsNew(e, p)
  <2> SUFFICES ASSUME NEW k \in DOMAIN rest, rest[k].path = p, rest[k].add,
                      \A q \in DOMAIN rest : q < k => rest[q].path # p
               PROVE  ~Listed(e, p) \/ p \in Twice(b)
    BY <1>15 DEF FirstIsNew
  <2>1. /\ k + 1 \in DOMAIN b.messages /\ b.messages[k + 1] = rest[k] /\ k \in Nat
        /\ 1 < k + 1
    <3>1. k \in 1..Len(rest) /\ Len(rest) \in Nat
      BY <1>8, SequenceDomain
    <3> QED
      BY <1>8, <3>1
  <2>2. ASSUME NEW q \in DOMAIN b.messages, q # 1, q < k + 1 PROVE b.messages[q].path # p
    <3>1. q - 1 < k /\ q - 1 \in DOMAIN rest /\ b.messages[q] = rest[q - 1]
      BY <1>8, <2>1, <2>2
    <3> QED
      BY <3>1
  <2>3. CASE p = m.path
    <3>1. \A q \in DOMAIN b.messages : 1 < q /\ q < k + 1 => b.messages[q].path # p
      BY <1>8, <2>2
    <3>2. Alternate(b, p) /\ 1 \in DOMAIN b.messages /\ b.messages[1] = m
      BY <1>7, <1>8 DEF PathInv
    <3>3. ~m.add
      BY <2>1, <2>3, <3>1, <3>2 DEF Alternate
    <3> QED
      BY <1>10, <1>14, <2>3, <3>3
  <2>4. CASE p # m.path
    <3>1. \A q \in DOMAIN b.messages : q < k + 1 => b.messages[q].path # p
      BY <1>8, <2>2, <2>4
    <3>2. FirstIsNew(b, p)
      BY <1>7 DEF PathInv
    <3> QED
      BY <1>15, <2>1, <2>4, <3>1, <3>2 DEF FirstIsNew
  <2> QED
    BY <2>3, <2>4
<1>19. ASSUME NEW p \in DevicePaths PROVE Settled(e, p)
  <2> SUFFICES ASSUME Unmentioned(e, p)
               PROVE  /\ p \in Listable(b) => Listed(e, p)
                      /\ Listed(e, p) => p \in Listable(b) \cup Twice(b)
    BY <1>15 DEF Settled
  <2>1. \A k \in DOMAIN rest : rest[k].path # p
    BY <1>15 DEF Unmentioned
  <2>2. \A k \in DOMAIN b.messages : k # 1 => b.messages[k].path # p
    BY <1>8, <2>1
  <2>3. CASE p = m.path
    <3>1. \A o \in DOMAIN b.messages : o > 1 => b.messages[o].path # p
      BY <2>2
    <3>2. LastIsTrue(b, p)
      BY <1>7 DEF PathInv
    <3>3. (m.add <=> p \in b.plugged) /\ (m.add => p \in b.reported)
      BY <1>8, <2>3, <3>1, <3>2 DEF LastIsTrue
    <3>4. CASE p \in InputPaths
      BY <1>14, <2>3, <3>4, InputAssumption DEF Listable
    <3>5. CASE p \notin InputPaths
      BY <1>10, <1>14, <2>3, <3>3, <3>5 DEF Listable
    <3> QED
      BY <3>4, <3>5
  <2>4. CASE p # m.path
    <3>1. Unmentioned(b, p)
      BY <1>8, <2>2, <2>4 DEF Unmentioned
    <3>2. Settled(b, p)
      BY <1>7 DEF PathInv
    <3>3. /\ p \in Listable(b) => Listed(b, p)
          /\ Listed(b, p) => p \in Listable(b) \cup Twice(b)
      BY <1>6, <3>1, <3>2 DEF Settled
    <3> QED
      BY <1>15, <2>4, <3>3
  <2> QED
    BY <2>3, <2>4
<1>20. ASSUME NEW p \in DevicePaths, Listed(e, p) PROVE p \notin InputPaths
  <2>1. Listed(b, p) => p \notin InputPaths
    BY <1>7 DEF PathInv
  <2> QED
    BY <1>14, <1>15, <1>20, <2>1
<1>21. \A p \in DevicePaths : PathInv(e, p)
  BY <1>16, <1>17, <1>18, <1>19, <1>20 DEF PathInv
<1> QED
  BY <1>2, <1>14, <1>15, <1>21 DEF DevicesInv

LEMMA DevicesStep ==
    ASSUME DevicesInv, DevicesNext
    PROVE  DevicesInv'
<1>1. CASE MonitorUdev
  <2>1. PICK d : d = devices
    OBVIOUS
  <2>2. PICK e : e = devices'
    OBVIOUS
  <2>3. ListedWell(d) /\ d \in DeviceRecord /\ d.step = "created" /\ d.deviceList = <<>>
        /\ d.messages = <<>> /\ \A p \in DevicePaths : PathInv(d, p)
    BY <1>1, <2>1 DEF DevicesInv, MonitorUdev, ListedWell
  <2>4. e = [d EXCEPT !.step = "monitoring"]
    BY <1>1, <2>1, <2>2 DEF MonitorUdev
  <2>5. /\ e \in DeviceRecord /\ e.messages = d.messages /\ e.plugged = d.plugged
        /\ e.step = "monitoring" /\ e.deviceList = d.deviceList
        /\ e.inputDevices = d.inputDevices /\ e.shown = d.shown /\ e.reported = d.reported
        /\ Twice(e) = Twice(d)
    BY <2>3, <2>4 DEF DeviceRecord, Twice
  <2>6. ListedWell(e)
    BY <2>3, <2>5 DEF ListedWell
  <2>7. ASSUME NEW p \in DevicePaths PROVE PathInv(e, p)
    <3>1. Settled(d, p)
      BY <2>3 DEF PathInv
    <3>2. Settled(e, p)
      BY <2>3, <2>5, <3>1 DEF Settled, Unmentioned
    <3>3. LastIsTrue(e, p) /\ Alternate(e, p) /\ FirstIsNew(e, p) /\ ~Listed(e, p)
      BY <2>3, <2>5 DEF LastIsTrue, Alternate, FirstIsNew, Listed
    <3> QED
      BY <3>2, <3>3 DEF PathInv
  <2> QED
    BY <2>2, <2>3, <2>5, <2>6, <2>7 DEF DevicesInv
<1>2. ASSUME NEW order \in SetToSeqs(devices.plugged \cap EventPaths), ScanUdev(order)
      PROVE  DevicesInv'
  BY <1>2, ScanUdevKeeps
<1>3. ASSUME NEW path \in DevicePaths, PlugDevice(path)
      PROVE  DevicesInv'
  BY <1>3, PlugDeviceKeeps
<1>4. CASE OnUDevChanges
  BY <1>4, OnUDevChangesKeeps
<1> QED
  BY <1>1, <1>2, <1>3, <1>4 DEF DevicesNext

\* However many devices come and go before udev is monitored, while the devices are
\* scanned and while its messages are under way, QML is shown the rows of the list, each
\* path once, and with the messages read they are the devices that can be listed; only an
\* event device that arrived between monitoring and scanning may be there twice or stay
\* behind (init, updateDeviceList, addDevice, removeDevice, onUDevChanges).
THEOREM DevicesAreListedAlways ==
    DevicesSpec => []DevicesAreListed
<1>1. DevicesInit => DevicesInv
  <2> SUFFICES ASSUME NEW plugged \in SUBSET DevicePaths,
                      devices = [plugged |-> plugged, step |-> "created", messages |-> <<>>,
                                 deviceList |-> <<>>, early |-> {}, reported |-> {},
                                 inputDevices |-> <<>>, shown |-> <<>>]
               PROVE  DevicesInv
    BY DEF DevicesInit
  <2>1. /\ devices.deviceList = <<>> /\ devices.messages = <<>> /\ devices.step = "created"
        /\ devices.inputDevices = <<>> /\ devices.shown = <<>> /\ devices.reported = {}
    OBVIOUS
  <2>2. <<>> \in Seq(Device) /\ <<>> \in Seq(DeviceMessage)
    OBVIOUS
  <2>3. devices \in DeviceRecord
    BY <2>2 DEF DeviceRecord
  <2>4. ListedWell(devices)
    BY <2>1, <2>3 DEF ListedWell, NoneTwice
  <2>5. \A p \in DevicePaths : PathInv(devices, p)
    BY <2>1 DEF PathInv, LastIsTrue, Alternate, FirstIsNew, Settled, Listed
  <2>6. \A k \in DOMAIN devices.messages :
            devices.messages[k].add => devices.messages[k].path \in devices.early
    BY <2>1
  <2> QED
    BY <2>1, <2>4, <2>5, <2>6, Zenon DEF DevicesInv
<1>2. DevicesInv /\ [DevicesNext]_devices => DevicesInv'
  <2>1. DevicesInv /\ UNCHANGED devices => DevicesInv'
    BY DEF DevicesInv
  <2> QED
    BY <2>1, DevicesStep
<1>3. DevicesInv => DevicesAreListed
  <2> SUFFICES ASSUME DevicesInv PROVE DevicesAreListed
    OBVIOUS
  <2>1. PICK d : d = devices
    OBVIOUS
  <2>2. /\ d.inputDevices = d.deviceList /\ d.shown = d.deviceList
        /\ d.plugged \in SUBSET DevicePaths /\ d.deviceList \in Seq(Device)
        /\ \A p \in DevicePaths : Settled(d, p)
        /\ \A i, j \in DOMAIN d.deviceList :
              d.deviceList[i].path = d.deviceList[j].path /\ i # j =>
                  d.deviceList[i].path \in Twice(d)
    BY <2>1 DEF DevicesInv, ListedWell, DeviceRecord, PathInv
  <2>3. ASSUME d.step = "ready", d.messages = <<>>,
               NEW paths, paths = {device.path : device \in ToSet(d.deviceList)}
        PROVE  Listable(d) \subseteq paths /\ paths \subseteq Listable(d) \cup Twice(d)
    <3>1. \A p : p \in paths <=> Listed(d, p)
      BY <2>3 DEF Listed, ToSet
    <3>2. paths \subseteq DevicePaths
      <4>0. \A k \in DOMAIN d.deviceList : d.deviceList[k] \in Device
        BY <2>2, SequenceDomain
      <4>1. \A k \in DOMAIN d.deviceList : d.deviceList[k].path \in DevicePaths
        BY <4>0 DEF Device
      <4> QED
        BY <3>1, <4>1 DEF Listed
    <3>3. \A p : Unmentioned(d, p)
      BY <2>3 DEF Unmentioned
    <3>4. Listable(d) \subseteq DevicePaths
      BY <2>2 DEF Listable
    <3> QED
      BY <2>2, <2>3, <3>1, <3>2, <3>3, <3>4 DEF Settled
  <2> QED
    BY <2>1, <2>2, <2>3 DEF DevicesAreListed
<1> QED
  BY <1>1, <1>2, <1>3, PTL DEF DevicesSpec

-----------------------------------------------------------------------------
(***************************************************************************)
(* IndicatorsManager and IndicatorsModel.                                  *)
(***************************************************************************)
Names == NamesOf(IndicatorFiles)
IndicatorRow == {[name |-> f[2], from |-> f[1]] : f \in IndicatorFiles}
IndicatorData == [dir : Directories, read : Directories, verified : BOOLEAN]

PanelRecord ==
    [disk : SUBSET IndicatorFiles, changed : SUBSET Directories, watching : BOOLEAN,
     loaded : BOOLEAN, data : UNION {[S -> IndicatorData] : S \in SUBSET Names},
     rows : Seq(IndicatorRow), profile : Profiles]

OnceNamed(rows) == \A i, j \in DOMAIN rows : rows[i].name = rows[j].name => i = j

\* The rows are those of the data, each once, and the data is of files there may be.
PanelOK(v) ==
    /\ v \in PanelRecord
    /\ OnceNamed(v.rows)
    /\ RowNames(v) = DOMAIN v.data
    /\ \A n \in DOMAIN v.data : /\ <<v.data[n].dir, n>> \in IndicatorFiles
                                /\ <<v.data[n].read, n>> \in IndicatorFiles

\* All but the data and the rows.
SameSources(w, v) ==
    /\ w.disk = v.disk /\ w.changed = v.changed /\ w.watching = v.watching
    /\ w.loaded = v.loaded /\ w.profile = v.profile

\* Positions a walk goes through from the first one are counted by the last.
LEMMA WalkIsCounted ==
    ASSUME NEW n \in Nat, NEW S \in SUBSET (1..n), \A i \in S : \A j \in 1..i : j \in S
    PROVE  \E k \in 0..n : S = 1..k /\ Cardinality(S) = k
<1> DEFINE T == {i \in Nat : i \in 1..n + 1 /\ i \notin S}
           first == CHOOSE i \in T : \A j \in T : i <= j
<1>1. T \in SUBSET Nat /\ n + 1 \in T
  OBVIOUS
<1>2. first \in T /\ \A j \in T : first <= j
  <2>1. T # {}
    BY <1>1
  <2> QED
    BY <1>1, <2>1, LeastOf
<1> HIDE DEF first
<1>3. first \in 1..n + 1 /\ first \notin S /\ \A j \in 1..n + 1 : j \notin S => first <= j
  BY <1>2
<1>4. PICK k \in 0..n : first = k + 1
  <2>1. first - 1 \in 0..n
    BY <1>3
  <2> QED
    BY <1>3, <2>1
<1>5. ASSUME NEW i \in S PROVE i \in 1..k
  <2>1. i \in 1..n
    OBVIOUS
  <2>2. ~(first <= i)
    BY <1>3, <2>1
  <2> QED
    BY <1>3, <1>4, <2>1, <2>2
<1>6. ASSUME NEW i \in 1..k PROVE i \in S
  BY <1>3, <1>4
<1>7. S = 1..k
  BY <1>5, <1>6
<1>8. Cardinality(1..k) = k
  <2>1. Cardinality(1..k) = IF 1 > k THEN 0 ELSE k - 1 + 1
    BY FS_Interval
  <2> QED
    BY <2>1
<1> QED
  BY <1>7, <1>8

LEMMA PositionIsInt ==
    ASSUME NEW v \in PanelRecord, NEW row \in IndicatorRow
    PROVE  Position(v, row) \in Int
<1>1. PICK f \in IndicatorFiles : row = [name |-> f[2], from |-> f[1]]
  BY DEF IndicatorRow
<1>2. f = <<f[1], f[2]>>
  BY IndicatorAssumption
<1>3. <<row.from, row.name>> \in IndicatorFiles
  BY <1>1, <1>2
<1>4. v.profile \in Profiles
  BY DEF PanelRecord
<1>5. PositionIn[<<row.from, row.name>>] \in [Profiles -> Int]
  BY <1>3, IndicatorAssumption
<1> QED
  BY <1>4, <1>5 DEF Position

\* onIndicatorLoaded() puts the row behind the ones of a higher position.
LEMMA RowForWalks ==
    ASSUME NEW v \in PanelRecord, NEW row \in IndicatorRow
    PROVE  \E k \in 0..Len(v.rows) :
             /\ RowFor(v, row) = k + 1
             /\ \A j \in 1..k : Position(v, row) < Position(v, v.rows[j])
             /\ k < Len(v.rows) => ~(Position(v, row) < Position(v, v.rows[k + 1]))
<1> DEFINE n == Len(v.rows)
           S == {i \in DOMAIN v.rows :
                    \A j \in 1..i : Position(v, row) < Position(v, v.rows[j])}
<1>1. n \in Nat /\ DOMAIN v.rows = 1..n
  <2>1. v.rows \in Seq(IndicatorRow)
    BY DEF PanelRecord
  <2> QED
    BY <2>1, SequenceDomain
<1>2. RowFor(v, row) = Cardinality(S) + 1
  BY DEF RowFor
<1> HIDE DEF n
<1>3. S \in SUBSET (1..n) /\ \A i \in S : \A j \in 1..i : j \in S
  <2>1. S \in SUBSET (1..n)
    BY <1>1
  <2>2. ASSUME NEW i \in S, NEW j \in 1..i PROVE j \in S
    <3>1. j \in DOMAIN v.rows /\ \A o \in 1..j : o \in 1..i
      BY <1>1
    <3> QED
      BY <3>1
  <2> QED
    BY <2>1, <2>2
<1>4. PICK k \in 0..n : S = 1..k /\ Cardinality(S) = k
  <2> HIDE DEF S
  <2> QED
    BY <1>1, <1>3, WalkIsCounted
<1>5. ASSUME NEW j \in 1..k PROVE Position(v, row) < Position(v, v.rows[j])
  <2>1. j \in S /\ j \in 1..j
    BY <1>4
  <2> QED
    BY <2>1
<1>6. ASSUME k < n, Position(v, row) < Position(v, v.rows[k + 1]) PROVE FALSE
  <2>1. k + 1 \in DOMAIN v.rows /\ \A j \in 1..k + 1 : j \in 1..k \/ j = k + 1
    BY <1>1, <1>6
  <2>2. k + 1 \in S
    BY <1>5, <1>6, <2>1
  <2> QED
    BY <1>4, <2>2
<1> QED
  BY <1>2, <1>4, <1>5, <1>6 DEF n

LEMMA IndicatorShown ==
    ASSUME NEW v \in PanelRecord, OnceNamed(v.rows), NEW name \in DOMAIN v.data,
           <<v.data[name].read, name>> \in IndicatorFiles,
           NEW w, w = ShowIndicator(v, name)
    PROVE  /\ w \in PanelRecord /\ OnceNamed(w.rows) /\ SameSources(w, v) /\ w.data = v.data
           /\ RowNames(w) = RowNames(v) \cup {name}
           /\ InPositionOrder(v) => InPositionOrder(w)
<1>1. CASE name \in RowNames(v)
  <2>1. w = v
    BY <1>1 DEF ShowIndicator
  <2> QED
    BY <1>1, <2>1 DEF SameSources
<1>2. CASE name \notin RowNames(v)
  <2>1. PICK row : row = [name |-> name, from |-> v.data[name].read]
    OBVIOUS
  <2>2. row \in IndicatorRow /\ row.name = name
    <3>1. PICK f \in IndicatorFiles : f = <<v.data[name].read, name>>
      OBVIOUS
    <3> QED
      BY <2>1, <3>1 DEF IndicatorRow
  <2>3. PICK l : l = v.rows
    OBVIOUS
  <2>4. l \in Seq(IndicatorRow) /\ Len(l) \in Nat /\ DOMAIN l = 1..Len(l)
        /\ \A j \in 1..Len(l) : l[j] \in IndicatorRow
    <3>1. l \in Seq(IndicatorRow)
      BY <2>3 DEF PanelRecord
    <3> QED
      BY <3>1, SequenceDomain
  <2>5. PICK k \in 0..Len(l) :
           /\ RowFor(v, row) = k + 1
           /\ \A j \in 1..k : Position(v, row) < Position(v, l[j])
           /\ k < Len(l) => ~(Position(v, row) < Position(v, l[k + 1]))
    BY <2>2, <2>3, RowForWalks
  <2>6. PICK t : t = InsertAt(l, k + 1, row)
    OBVIOUS
  <2>7. w = [v EXCEPT !.rows = t]
    BY <1>2, <2>1, <2>3, <2>5, <2>6 DEF ShowIndicator
  <2>8. t \in Seq(IndicatorRow) /\ OneMore(t, l, k + 1, row)
    <3>1. k + 1 \in 1..Len(l) + 1
      BY <2>4
    <3> QED
      BY <2>2, <2>4, <2>6, <3>1, ElementInserted
  <2>9. /\ Len(t) = Len(l) + 1 /\ DOMAIN t = 1..Len(l) + 1
        /\ \A m \in 1..Len(l) + 1 :
             t[m] = IF m < k + 1 THEN l[m] ELSE IF m = k + 1 THEN row ELSE l[m - 1]
    BY <2>8, SequenceDomain DEF OneMore
  <2>10. w \in PanelRecord /\ w.rows = t /\ w.data = v.data /\ SameSources(w, v)
    BY <2>7, <2>8 DEF PanelRecord, SameSources
  <2> DEFINE at(m) == IF m < k + 1 THEN m ELSE m - 1
  <2>11. \A m \in 1..Len(l) + 1 : m # k + 1 => at(m) \in 1..Len(l) /\ t[m] = l[at(m)]
    BY <2>4, <2>9
  <2>12. t[k + 1] = row /\ k + 1 \in 1..Len(l) + 1
    BY <2>4, <2>9
  <2>13. \A m, o \in 1..Len(l) + 1 :
            /\ m # k + 1 /\ o # k + 1 /\ at(m) = at(o) => m = o
            /\ m # k + 1 /\ o # k + 1 /\ m < o => at(m) < at(o)
    BY <2>4
  <2>14. \A j \in 1..Len(l) : \E m \in 1..Len(l) + 1 : m # k + 1 /\ at(m) = j
    <3> SUFFICES ASSUME NEW j \in 1..Len(l)
                 PROVE  \E m \in 1..Len(l) + 1 : m # k + 1 /\ at(m) = j
      OBVIOUS
    <3>1. CASE j < k + 1
      <4>1. j \in 1..Len(l) + 1 /\ j # k + 1 /\ at(j) = j
        BY <2>4, <3>1
      <4> QED
        BY <4>1
    <3>2. CASE ~(j < k + 1)
      <4>1. j + 1 \in 1..Len(l) + 1 /\ j + 1 # k + 1 /\ at(j + 1) = j
        BY <2>4, <3>2
      <4> QED
        BY <4>1
    <3> QED
      BY <3>1, <3>2
  <2>15. \A m \in 1..Len(l) + 1 : m # k + 1 => (m < k + 1 => at(m) \in 1..k)
                                             /\ (m > k + 1 => at(m) \in k + 1..Len(l))
    BY <2>4
  <2> HIDE DEF at
  <2>16. \A j \in 1..Len(l) : l[j].name # name
    BY <1>2, <2>3, <2>4 DEF RowNames
  <2>17. OnceNamed(t)
    <3>1. ASSUME NEW i \in 1..Len(l) + 1, NEW j \in 1..Len(l) + 1, t[i].name = t[j].name
          PROVE  i = j
      <4>1. CASE i = k + 1 /\ j # k + 1
        BY <2>2, <2>11, <2>12, <2>16, <3>1, <4>1
      <4>2. CASE i # k + 1 /\ j = k + 1
        BY <2>2, <2>11, <2>12, <2>16, <3>1, <4>2
      <4>3. CASE i # k + 1 /\ j # k + 1
        <5>1. at(i) \in DOMAIN l /\ at(j) \in DOMAIN l /\ l[at(i)].name = l[at(j)].name
          BY <2>4, <2>11, <3>1, <4>3
        <5>2. at(i) = at(j)
          BY <2>3, <5>1 DEF OnceNamed
        <5> QED
          BY <2>13, <4>3, <5>2
      <4> QED
        BY <4>1, <4>2, <4>3
    <3> QED
      BY <2>9, <3>1 DEF OnceNamed
  <2>18. RowNames(w) = RowNames(v) \cup {name}
    <3>1. \A n : n \in RowNames(w) <=> \E m \in 1..Len(l) + 1 : n = t[m].name
      BY <2>9, <2>10 DEF RowNames
    <3>2. \A n : n \in RowNames(v) <=> \E j \in 1..Len(l) : n = l[j].name
      BY <2>3, <2>4 DEF RowNames
    <3>3. \A j \in 1..Len(l) : \E m \in 1..Len(l) + 1 : t[m] = l[j]
      BY <2>11, <2>14
    <3>4. \A m \in 1..Len(l) + 1 : t[m] = row \/ \E j \in 1..Len(l) : t[m] = l[j]
      BY <2>11, <2>12
    <3>5. ASSUME NEW n PROVE n \in RowNames(w) <=> n \in RowNames(v) \/ n = name
      <4>1. n \in RowNames(w) => n \in RowNames(v) \/ n = name
        BY <2>2, <3>1, <3>2, <3>4
      <4>2. n \in RowNames(v) => n \in RowNames(w)
        BY <3>1, <3>2, <3>3
      <4>3. name \in RowNames(w)
        BY <2>2, <2>12, <3>1
      <4> QED
        BY <4>1, <4>2, <4>3
    <3> QED
      BY <3>5
  <2>19. ASSUME InPositionOrder(v) PROVE InPositionOrder(w)
    <3>1. \A r : Position(w, r) = Position(v, r)
      BY <2>10 DEF Position, SameSources
    <3>2. \A i, j \in 1..Len(l) : i < j => Position(v, l[i]) >= Position(v, l[j])
      BY <2>3, <2>4, <2>19 DEF InPositionOrder
    <3>3. \A r \in IndicatorRow : Position(v, r) \in Int
      BY PositionIsInt
    <3>4. \A j \in k + 1..Len(l) : Position(v, row) >= Position(v, l[j])
      <4> SUFFICES ASSUME NEW j \in k + 1..Len(l)
                   PROVE  Position(v, row) >= Position(v, l[j])
        OBVIOUS
      <4>1. /\ k + 1 \in 1..Len(l) /\ j \in 1..Len(l) /\ k < Len(l)
            /\ (k + 1 < j \/ k + 1 = j)
        BY <2>4
      <4>2. Position(v, row) >= Position(v, l[k + 1])
        BY <2>2, <2>4, <2>5, <3>3, <4>1
      <4>3. Position(v, l[k + 1]) >= Position(v, l[j])
        <5>1. Position(v, l[j]) \in Int
          BY <2>4, <3>3, <4>1
        <5> QED
          BY <3>2, <4>1, <5>1
      <4> QED
        BY <2>2, <2>4, <3>3, <4>1, <4>2, <4>3
    <3>5. ASSUME NEW i \in 1..Len(l) + 1, NEW j \in 1..Len(l) + 1, i < j
          PROVE  Position(v, t[i]) >= Position(v, t[j])
      <4>1. CASE i = k + 1
        <5>1. j # k + 1 /\ j > k + 1
          BY <3>5, <4>1
        <5>2. at(j) \in k + 1..Len(l) /\ t[j] = l[at(j)]
          BY <2>11, <2>15, <5>1
        <5> QED
          BY <2>12, <3>4, <4>1, <5>2
      <4>2. CASE j = k + 1
        <5>1. i # k + 1 /\ i < k + 1
          BY <3>5, <4>2
        <5>2. at(i) \in 1..k /\ at(i) \in 1..Len(l) /\ t[i] = l[at(i)]
          BY <2>11, <2>15, <5>1
        <5>3. Position(v, row) < Position(v, l[at(i)])
          BY <2>5, <5>2
        <5>4. Position(v, row) \in Int /\ Position(v, l[at(i)]) \in Int
          BY <2>2, <2>4, <3>3, <5>2
        <5> QED
          BY <2>12, <4>2, <5>2, <5>3, <5>4
      <4>3. CASE i # k + 1 /\ j # k + 1
        BY <2>11, <2>13, <3>2, <3>5, <4>3
      <4> QED
        BY <4>1, <4>2, <4>3
    <3> QED
      BY <2>9, <2>10, <3>1, <3>5 DEF InPositionOrder
  <2> QED
    BY <2>10, <2>17, <2>18, <2>19
<1> QED
  BY <1>1, <1>2

\* What LoadFile makes of the data of a panel.
FileIn(w, v, d, name) ==
    /\ DOMAIN w.data = DOMAIN v.data \cup {name}
    /\ \A n \in DOMAIN v.data : n # name => w.data[n] = v.data[n]
    /\ w.data[name].verified
    /\ w.data[name].dir = IF name \in DOMAIN v.data /\ ~(d < v.data[name].dir)
                          THEN v.data[name].dir ELSE d

\* A record of the panel with other data.
LEMMA PanelWithData ==
    ASSUME NEW v \in PanelRecord, NEW S \in SUBSET Names, NEW data \in [S -> IndicatorData],
           NEW w, w = [v EXCEPT !.data = data]
    PROVE  /\ w \in PanelRecord /\ w.data = data /\ w.rows = v.rows /\ SameSources(w, v)
           /\ RowNames(w) = RowNames(v)
           /\ InPositionOrder(v) => InPositionOrder(w)
<1>1. data \in UNION {[T -> IndicatorData] : T \in SUBSET Names}
  OBVIOUS
<1>2. w \in PanelRecord /\ w.data = data /\ w.rows = v.rows /\ SameSources(w, v)
  BY <1>1 DEF PanelRecord, SameSources
<1>3. RowNames(w) = RowNames(v)
  BY <1>2 DEF RowNames
<1>4. \A r : Position(w, r) = Position(v, r)
  BY <1>2 DEF Position, SameSources
<1>5. InPositionOrder(v) => InPositionOrder(w)
  BY <1>2, <1>4 DEF InPositionOrder
<1> QED
  BY <1>2, <1>3, <1>5

LEMMA PanelData ==
    ASSUME NEW v \in PanelRecord
    PROVE  /\ DOMAIN v.data \in SUBSET Names
           /\ v.data \in [DOMAIN v.data -> IndicatorData]
           /\ \A n \in DOMAIN v.data : v.data[n] \in IndicatorData
<1>1. PICK S \in SUBSET Names : v.data \in [S -> IndicatorData]
  BY DEF PanelRecord
<1> QED
  BY <1>1

LEMMA FileLoaded ==
    ASSUME NEW v, PanelOK(v), NEW d \in Directories, NEW name, <<d, name>> \in IndicatorFiles,
           NEW w, w = LoadFile(v, d, name)
    PROVE  /\ PanelOK(w) /\ SameSources(w, v) /\ FileIn(w, v, d, name)
           /\ InPositionOrder(v) => InPositionOrder(w)
<1> DEFINE new == [dir |-> d, read |-> d, verified |-> TRUE]
<1>1. /\ v \in PanelRecord /\ OnceNamed(v.rows) /\ RowNames(v) = DOMAIN v.data
      /\ \A n \in DOMAIN v.data : /\ <<v.data[n].dir, n>> \in IndicatorFiles
                                  /\ <<v.data[n].read, n>> \in IndicatorFiles
  BY DEF PanelOK
<1>2. PICK data : data = v.data
  OBVIOUS
<1>3. DOMAIN data \in SUBSET Names /\ data \in [DOMAIN data -> IndicatorData]
  BY <1>1, <1>2, PanelData
<1>4. name \in Names
  <2>1. PICK f \in IndicatorFiles : f = <<d, name>>
    OBVIOUS
  <2> QED
    BY <2>1 DEF Names, NamesOf
<1>5. CASE name \notin DOMAIN data
  <2>1. PICK more : more = [n \in DOMAIN data \cup {name} |-> IF n = name THEN new ELSE data[n]]
    OBVIOUS
  <2>2. PICK u : u = [v EXCEPT !.data = more]
    OBVIOUS
  <2>3. w = ShowIndicator(u, name)
    BY <1>2, <1>5, <2>1, <2>2 DEF LoadFile
  <2>4. DOMAIN data \cup {name} \in SUBSET Names
    BY <1>3, <1>4
  <2>5. new \in IndicatorData
    BY DEF IndicatorData
  <2>6. more \in [DOMAIN data \cup {name} -> IndicatorData]
    BY <1>3, <2>1, <2>5
  <2>7. /\ u \in PanelRecord /\ u.data = more /\ u.rows = v.rows /\ SameSources(u, v)
        /\ RowNames(u) = RowNames(v)
        /\ InPositionOrder(v) => InPositionOrder(u)
    BY <1>1, <2>2, <2>4, <2>6, PanelWithData
  <2>8. /\ name \in DOMAIN u.data /\ u.data[name].read = d /\ u.data[name].dir = d
        /\ u.data[name].verified
        /\ \A n \in DOMAIN data : u.data[n] = data[n]
        /\ DOMAIN u.data = DOMAIN data \cup {name}
    BY <1>5, <2>1, <2>7
  <2>9. OnceNamed(u.rows)
    BY <1>1, <2>7
  <2>10. /\ w \in PanelRecord /\ OnceNamed(w.rows) /\ SameSources(w, u) /\ w.data = u.data
         /\ RowNames(w) = RowNames(u) \cup {name}
         /\ InPositionOrder(u) => InPositionOrder(w)
    BY <2>3, <2>7, <2>8, <2>9, IndicatorShown
  <2>11. PanelOK(w)
    <3>1. ASSUME NEW n \in DOMAIN w.data
          PROVE  <<w.data[n].dir, n>> \in IndicatorFiles /\ <<w.data[n].read, n>> \in IndicatorFiles
      BY <1>1, <1>2, <2>8, <2>10
    <3> QED
      BY <1>1, <1>2, <2>7, <2>8, <2>10, <3>1 DEF PanelOK
  <2>12. FileIn(w, v, d, name)
    BY <1>2, <1>5, <2>8, <2>10 DEF FileIn
  <2> QED
    BY <2>7, <2>10, <2>11, <2>12 DEF SameSources
<1>6. CASE name \in DOMAIN data
  <2>1. PICK b \in BOOLEAN : b <=> d < data[name].dir
    OBVIOUS
  <2>2. PICK datum : datum = [data[name] EXCEPT !.verified = TRUE,
                                                !.dir = IF b THEN d ELSE data[name].dir]
    OBVIOUS
  <2>3. data[name] \in IndicatorData
    BY <1>3, <1>6
  <2>4. /\ datum \in IndicatorData /\ datum.verified /\ datum.read = data[name].read
        /\ datum.dir = IF b THEN d ELSE data[name].dir
    BY <2>2, <2>3 DEF IndicatorData
  <2>5. PICK more : more = [data EXCEPT ![name] = datum]
    OBVIOUS
  <2>6. PICK u : u = [v EXCEPT !.data = more]
    OBVIOUS
  <2>7. w = IF b THEN ShowIndicator(u, name) ELSE u
    <3>1. CASE b
      <4>1. [v EXCEPT !.data[name].verified = TRUE, !.data[name].dir = d] = u
        BY <1>1, <1>2, <1>3, <1>6, <2>2, <2>3, <2>5, <2>6, <3>1 DEF PanelRecord, IndicatorData
      <4> QED
        BY <1>2, <1>6, <2>1, <3>1, <4>1 DEF LoadFile
    <3>2. CASE ~b
      <4>1. [v EXCEPT !.data[name].verified = TRUE] = u
        <5>1. datum = [data[name] EXCEPT !.verified = TRUE]
          BY <2>2, <2>3, <3>2 DEF IndicatorData
        <5> QED
          BY <1>1, <1>2, <1>3, <1>6, <2>5, <2>6, <5>1 DEF PanelRecord
      <4> QED
        BY <1>2, <1>6, <2>1, <3>2, <4>1 DEF LoadFile
    <3> QED
      BY <3>1, <3>2
  <2>8. more \in [DOMAIN data -> IndicatorData] /\ more[name] = datum
        /\ \A n \in DOMAIN data : n # name => more[n] = data[n]
    BY <1>3, <1>6, <2>4, <2>5
  <2>9. /\ u \in PanelRecord /\ u.data = more /\ u.rows = v.rows /\ SameSources(u, v)
        /\ RowNames(u) = RowNames(v)
        /\ InPositionOrder(v) => InPositionOrder(u)
    BY <1>1, <1>3, <2>6, <2>8, PanelWithData
  <2>10. /\ name \in DOMAIN u.data /\ u.data[name] = datum /\ DOMAIN u.data = DOMAIN data
         /\ \A n \in DOMAIN data : n # name => u.data[n] = data[n]
    BY <1>6, <2>8, <2>9
  <2>11. <<u.data[name].read, name>> \in IndicatorFiles /\ OnceNamed(u.rows)
    BY <1>1, <1>2, <1>6, <2>4, <2>9, <2>10
  <2>12. /\ w \in PanelRecord /\ OnceNamed(w.rows) /\ SameSources(w, u) /\ w.data = u.data
         /\ RowNames(w) = RowNames(u)
         /\ InPositionOrder(u) => InPositionOrder(w)
    <3>1. CASE b
      <4>1. w = ShowIndicator(u, name)
        BY <2>7, <3>1
      <4>2. /\ w \in PanelRecord /\ OnceNamed(w.rows) /\ SameSources(w, u) /\ w.data = u.data
            /\ RowNames(w) = RowNames(u) \cup {name}
            /\ InPositionOrder(u) => InPositionOrder(w)
        BY <2>9, <2>10, <2>11, <4>1, IndicatorShown
      <4>3. name \in RowNames(u)
        BY <1>1, <1>2, <1>6, <2>9
      <4> QED
        BY <4>2, <4>3
    <3>2. CASE ~b
      BY <2>7, <2>9, <2>11, <3>2 DEF SameSources
    <3> QED
      BY <3>1, <3>2
  <2>13. PanelOK(w)
    <3>1. ASSUME NEW n \in DOMAIN w.data
          PROVE  <<w.data[n].dir, n>> \in IndicatorFiles /\ <<w.data[n].read, n>> \in IndicatorFiles
      BY <1>1, <1>2, <2>4, <2>10, <2>12
    <3> QED
      BY <1>1, <1>2, <2>9, <2>10, <2>12, <3>1 DEF PanelOK
  <2>14. FileIn(w, v, d, name)
    BY <1>2, <1>6, <2>1, <2>4, <2>10, <2>12 DEF FileIn
  <2> QED
    BY <2>9, <2>12, <2>13, <2>14 DEF SameSources
<1> QED
  BY <1>5, <1>6

\* A set listed in some order.
LEMMA SetIsListed ==
    ASSUME NEW S, IsFiniteSet(S), NEW s, s = SetToSeq(S)
    PROVE  /\ s \in Seq(S) /\ Len(s) \in Nat /\ DOMAIN s = 1..Len(s)
           /\ \A k \in 1..Len(s) : s[k] \in S
           /\ \A x \in S : \E k \in 1..Len(s) : s[k] = x
<1> DEFINE c == Cardinality(S)
<1>1. c \in Nat /\ ExistsBijection(1..c, S)
  BY FS_CardinalityType
<1>2. Cardinality(1..c) = c /\ IsFiniteSet(1..c)
  <2>1. IsFiniteSet(1..c) /\ Cardinality(1..c) = IF 1 > c THEN 0 ELSE c - 1 + 1
    BY <1>1, FS_Interval
  <2> QED
    BY <1>1, <2>1
<1> HIDE DEF c
<1>3. s = CHOOSE f \in [1..c -> S] : IsInjective(f)
  BY DEF SetToSeq, c
<1>4. s \in [1..c -> S] /\ IsInjective(s)
  <2>1. PICK g : g \in Bijection(1..c, S)
    BY <1>1 DEF ExistsBijection
  <2>2. g \in [1..c -> S] /\ IsInjective(g)
    BY <2>1 DEF Bijection, Injection
  <2> QED
    BY <1>3, <2>2
<1>5. s \in Injection(1..c, S)
  BY <1>4 DEF Injection
<1>6. s \in Surjection(1..c, S)
  BY <1>2, <1>5, FS_Injection DEF c
<1>7. s \in Seq(S) /\ Len(s) = c
  BY <1>1, <1>4
<1> QED
  BY <1>1, <1>4, <1>6, <1>7 DEF Surjection

\* What StartVerify makes of a panel.
VerifyStarted(u, v, d) ==
    /\ PanelOK(u) /\ SameSources(u, v) /\ (InPositionOrder(v) => InPositionOrder(u))
    /\ DOMAIN u.data = DOMAIN v.data
    /\ \A n \in DOMAIN v.data : /\ u.data[n].dir = v.data[n].dir
                                /\ v.data[n].dir = d => ~u.data[n].verified

LEMMA StartVerifyStarts ==
    ASSUME NEW v, PanelOK(v), NEW d, NEW u, u = StartVerify(v, d)
    PROVE  VerifyStarted(u, v, d)
<1>1. /\ v \in PanelRecord /\ OnceNamed(v.rows) /\ RowNames(v) = DOMAIN v.data
      /\ \A n \in DOMAIN v.data : /\ <<v.data[n].dir, n>> \in IndicatorFiles
                                  /\ <<v.data[n].read, n>> \in IndicatorFiles
  BY DEF PanelOK
<1>2. PICK data : data = v.data
  OBVIOUS
<1>3. DOMAIN data \in SUBSET Names /\ \A n \in DOMAIN data : data[n] \in IndicatorData
  BY <1>1, <1>2, PanelData
<1>4. PICK more : more = [n \in DOMAIN data |->
                             IF data[n].dir = d THEN [data[n] EXCEPT !.verified = FALSE]
                             ELSE data[n]]
  OBVIOUS
<1>5. u = [v EXCEPT !.data = more]
  BY <1>2, <1>4 DEF StartVerify
<1>6. ASSUME NEW n \in DOMAIN data
      PROVE  /\ more[n] \in IndicatorData /\ more[n].dir = data[n].dir
             /\ more[n].read = data[n].read /\ (data[n].dir = d => ~more[n].verified)
  BY <1>3, <1>4 DEF IndicatorData
<1>7. more \in [DOMAIN data -> IndicatorData]
  BY <1>4, <1>6
<1>8. /\ u \in PanelRecord /\ u.data = more /\ u.rows = v.rows /\ SameSources(u, v)
      /\ RowNames(u) = RowNames(v)
      /\ InPositionOrder(v) => InPositionOrder(u)
  BY <1>1, <1>3, <1>5, <1>7, PanelWithData
<1>9. DOMAIN u.data = DOMAIN data
  BY <1>7, <1>8
<1>10. PanelOK(u)
  BY <1>1, <1>2, <1>6, <1>8, <1>9 DEF PanelOK
<1> QED
  BY <1>2, <1>6, <1>8, <1>9, <1>10 DEF VerifyStarted

\* w is u with the first i files of the directory d loaded.
FilesIn(w, u, d, files, i) ==
    /\ PanelOK(w) /\ SameSources(w, u) /\ (InPositionOrder(u) => InPositionOrder(w))
    /\ \A n : n \in DOMAIN w.data <=> n \in DOMAIN u.data \/ \E k \in 1..i : files[k][2] = n
    /\ \A n \in DOMAIN w.data :
         /\ w.data[n].dir # d => n \in DOMAIN u.data /\ w.data[n].dir = u.data[n].dir
         /\ w.data[n].dir = d => (w.data[n].verified <=> \E k \in 1..i : files[k][2] = n)
         /\ w.data[n].dir = d => \/ n \in DOMAIN u.data /\ u.data[n].dir = d
                                 \/ \E k \in 1..i : files[k][2] = n

LEMMA FilesInRound ==
    ASSUME NEW u, NEW d \in Directories, NEW files \in Seq(IndicatorFiles),
           \A k \in 1..Len(files) : files[k][1] = d,
           NEW i \in 1..Len(files), NEW v, FilesIn(v, u, d, files, i - 1)
    PROVE  FilesIn(LoadFile(v, d, files[i][2]), u, d, files, i)
<1>1. PICK name : name = files[i][2]
  OBVIOUS
<1>2. PICK w : w = LoadFile(v, d, name)
  OBVIOUS
<1>3. <<d, name>> \in IndicatorFiles
  <2>1. files[i] \in IndicatorFiles
    BY SequenceDomain
  <2>2. files[i] = <<d, name>>
    BY <1>1, <2>1, IndicatorAssumption
  <2> QED
    BY <2>1, <2>2
<1>4. /\ PanelOK(v) /\ SameSources(v, u) /\ (InPositionOrder(u) => InPositionOrder(v))
      /\ \A n : n \in DOMAIN v.data <=> n \in DOMAIN u.data \/ \E k \in 1..i - 1 : files[k][2] = n
      /\ \A n \in DOMAIN v.data :
           /\ v.data[n].dir # d => n \in DOMAIN u.data /\ v.data[n].dir = u.data[n].dir
           /\ v.data[n].dir = d => (v.data[n].verified <=> \E k \in 1..i - 1 : files[k][2] = n)
           /\ v.data[n].dir = d => \/ n \in DOMAIN u.data /\ u.data[n].dir = d
                                   \/ \E k \in 1..i - 1 : files[k][2] = n
  BY DEF FilesIn
<1>5. /\ PanelOK(w) /\ SameSources(w, v) /\ FileIn(w, v, d, name)
      /\ InPositionOrder(v) => InPositionOrder(w)
  BY <1>2, <1>3, <1>4, FileLoaded
<1>6. Len(files) \in Nat
  BY SequenceDomain
<1>7. \A n : (\E k \in 1..i : files[k][2] = n) <=> n = name \/ \E k \in 1..i - 1 : files[k][2] = n
  <2>1. \A k \in 1..i : k \in 1..i - 1 \/ k = i
    BY <1>6
  <2>2. i \in 1..i /\ \A k \in 1..i - 1 : k \in 1..i
    BY <1>6
  <2> QED
    BY <1>1, <2>1, <2>2
<1>8. \A n : n \in DOMAIN w.data <=> n \in DOMAIN u.data \/ \E k \in 1..i : files[k][2] = n
  <2>1. \A n : n \in DOMAIN w.data <=> n \in DOMAIN v.data \/ n = name
    BY <1>5 DEF FileIn
  <2> QED
    BY <1>4, <1>7, <2>1
<1>9. ASSUME NEW n \in DOMAIN w.data
      PROVE  /\ w.data[n].dir # d => n \in DOMAIN u.data /\ w.data[n].dir = u.data[n].dir
             /\ w.data[n].dir = d => (w.data[n].verified <=> \E k \in 1..i : files[k][2] = n)
             /\ w.data[n].dir = d => \/ n \in DOMAIN u.data /\ u.data[n].dir = d
                                     \/ \E k \in 1..i : files[k][2] = n
  <2>1. CASE n = name
    <3>1. \E k \in 1..i : files[k][2] = n
      BY <1>7, <2>1
    <3>2. w.data[n].verified
      BY <1>5, <2>1 DEF FileIn
    <3>3. w.data[n].dir # d => n \in DOMAIN v.data /\ w.data[n].dir = v.data[n].dir
      BY <1>5, <2>1 DEF FileIn
    <3> QED
      BY <1>4, <3>1, <3>2, <3>3
  <2>2. CASE n # name
    <3>1. n \in DOMAIN v.data /\ w.data[n] = v.data[n]
      BY <1>5, <2>2 DEF FileIn
    <3>2. (\E k \in 1..i : files[k][2] = n) <=> \E k \in 1..i - 1 : files[k][2] = n
      BY <1>7, <2>2
    <3> QED
      BY <1>4, <3>1, <3>2
  <2> QED
    BY <2>1, <2>2
<1>10. SameSources(w, u) /\ (InPositionOrder(u) => InPositionOrder(w))
  BY <1>4, <1>5 DEF SameSources
<1>11. FilesIn(w, u, d, files, i)
  BY <1>5, <1>8, <1>9, <1>10 DEF FilesIn
<1> QED
  BY <1>1, <1>2, <1>11

\* The loop of loadDir().
FilesLoop(f, u, d, files) ==
    f = [i \in 0..Len(files) |-> IF i = 0 THEN u ELSE LoadFile(f[i - 1], d, files[i][2])]

LEMMA FilesAreLoaded ==
    ASSUME NEW v, NEW d \in Directories, NEW u, VerifyStarted(u, v, d),
           NEW files \in Seq(IndicatorFiles), \A k \in 1..Len(files) : files[k][1] = d
    PROVE  FilesIn(LoadFiles(u, d, files), u, d, files, Len(files))
<1> DEFINE n == Len(files)
           G == [i \in 0..n |-> {w \in PanelRecord : FilesIn(w, u, d, files, i)}]
           step == [i \in 1..n |-> [w \in G[i - 1] |-> LoadFile(w, d, files[i][2])]]
           upTo == CHOOSE f : FilesLoop(f, u, d, files)
<1>1. n \in Nat
  BY SequenceDomain
<1>2. \A i \in 0..n : \A w : w \in G[i] <=> FilesIn(w, u, d, files, i)
  BY DEF FilesIn, PanelOK
<1>3. LoadFiles(u, d, files) = upTo[n]
  BY Zenon DEF LoadFiles, FilesLoop
<1> HIDE DEF upTo, G
<1>4. ASSUME NEW i \in 1..n, NEW w, FilesIn(w, u, d, files, i - 1)
      PROVE  FilesIn(LoadFile(w, d, files[i][2]), u, d, files, i)
  BY <1>4, FilesInRound
<1> HIDE DEF n
<1>5. ASSUME NEW i \in 1..n PROVE step[i] \in [G[i - 1] -> G[i]]
  <2>1. i \in 0..n /\ i - 1 \in 0..n
    BY <1>1
  <2>2. \A w \in G[i - 1] : LoadFile(w, d, files[i][2]) \in G[i]
    BY <1>2, <1>4, <2>1
  <2> QED
    BY <2>2
<1>6. u \in G[0]
  <2>0. \A k \in 1..0 : FALSE
    OBVIOUS
  <2>3. ASSUME NEW m \in DOMAIN u.data, u.data[m].dir = d PROVE ~u.data[m].verified
    <3>1. m \in DOMAIN v.data
      BY DEF VerifyStarted
    <3>2. u.data[m].dir = v.data[m].dir /\ (v.data[m].dir = d => ~u.data[m].verified)
      BY <3>1 DEF VerifyStarted
    <3> QED
      BY <2>3, <3>2
  <2>4. PanelOK(u)
    BY DEF VerifyStarted
  <2>5. SameSources(u, u)
    BY DEF SameSources
  <2>1. FilesIn(u, u, d, files, 0)
    BY <2>0, <2>3, <2>4, <2>5 DEF FilesIn
  <2> QED
    BY <1>1, <1>2, <2>1
<1>7. ASSUME NEW i \in 1..n, NEW w \in G[i - 1] PROVE step[i][w] = LoadFile(w, d, files[i][2])
  <2>1. step[i] = [x \in G[i - 1] |-> LoadFile(x, d, files[i][2])]
    OBVIOUS
  <2> QED
    BY <2>1
<1> HIDE DEF step
<1>8. PICK f : f = [i \in 0..n |-> f[i]] /\ Rounds(f, n, u, step)
  BY <1>1, <1>5, <1>6, GoodLoopRuns
<1>9. f[0] = u /\ \A i \in 1..n : f[i] = step[i][f[i - 1]]
  <2> HIDE DEF n
  <2> QED
    BY <1>1, <1>8, RoundsAt
<1>10. \A i \in 0..n : f[i] \in G[i]
  <2>1. f[0] \in G[0]
    BY <1>6, <1>9
  <2>2. \A i \in 1..n : f[i - 1] \in G[i - 1] => f[i] \in G[i]
    BY <1>5, <1>9
  <2> QED
    BY <1>1, <2>1, <2>2, LoopStays
<1>11. ASSUME NEW i \in 0..n
       PROVE  f[i] = IF i = 0 THEN u ELSE LoadFile(f[i - 1], d, files[i][2])
  <2>1. i # 0 => i \in 1..n /\ i - 1 \in 0..n
    BY <1>1
  <2> QED
    BY <1>7, <1>9, <1>10, <2>1
<1>12. f = [i \in 0..n |-> IF i = 0 THEN u ELSE LoadFile(f[i - 1], d, files[i][2])]
  BY <1>8, <1>11
<1>13. FilesLoop(f, u, d, files)
  BY <1>12 DEF FilesLoop, n
<1>14. FilesLoop(upTo, u, d, files)
  BY <1>13 DEF upTo
<1>15. \A i \in 0..n : upTo[i] = IF i = 0 THEN u ELSE LoadFile(upTo[i - 1], d, files[i][2])
  BY <1>14 DEF FilesLoop, n
<1>16. \A i \in 0..n : upTo[i] \in G[i]
  <2>1. upTo[0] \in G[0]
    BY <1>1, <1>6, <1>15
  <2>2. ASSUME NEW i \in 1..n, upTo[i - 1] \in G[i - 1] PROVE upTo[i] \in G[i]
    <3>1. i \in 0..n /\ i - 1 \in 0..n /\ i # 0
      BY <1>1
    <3> QED
      BY <1>2, <1>4, <1>15, <2>2, <3>1
  <2> QED
    BY <1>1, <2>1, <2>2, LoopStays
<1> QED
  BY <1>1, <1>2, <1>3, <1>16 DEF n

\* What EndVerify makes of a panel.
LEMMA EndVerifyEnds ==
    ASSUME NEW v, PanelOK(v), NEW d, NEW w, w = EndVerify(v, d)
    PROVE  /\ PanelOK(w) /\ SameSources(w, v) /\ (InPositionOrder(v) => InPositionOrder(w))
           /\ \A n : n \in DOMAIN w.data <=>
                        n \in DOMAIN v.data /\ (v.data[n].dir = d => v.data[n].verified)
           /\ \A n \in DOMAIN w.data : w.data[n] = v.data[n]
<1> DEFINE gone == {n \in DOMAIN v.data : v.data[n].dir = d /\ ~v.data[n].verified}
           S == DOMAIN v.data \ gone
           data == [n \in S |-> v.data[n]]
           K == {i \in DOMAIN v.rows : v.rows[i].name \notin gone}
<1>1. /\ v \in PanelRecord /\ OnceNamed(v.rows) /\ RowNames(v) = DOMAIN v.data
      /\ \A n \in DOMAIN v.data : /\ <<v.data[n].dir, n>> \in IndicatorFiles
                                  /\ <<v.data[n].read, n>> \in IndicatorFiles
  BY DEF PanelOK
<1>2. PICK u : u = [v EXCEPT !.data = data]
  OBVIOUS
<1>3. PICK rows : rows = Kept(v.rows, K)
  OBVIOUS
<1>4. S \in SUBSET Names /\ data \in [S -> IndicatorData]
  <2>1. DOMAIN v.data \in SUBSET Names /\ \A n \in DOMAIN v.data : v.data[n] \in IndicatorData
    BY <1>1, PanelData
  <2> QED
    BY <2>1
<1>5. \A n : n \in S <=> n \in DOMAIN v.data /\ (v.data[n].dir = d => v.data[n].verified)
  OBVIOUS
<1>6. \A n \in S : data[n] = v.data[n]
  OBVIOUS
<1>7. w = HideIndicators(u, gone)
  BY <1>2 DEF EndVerify
<1>8. \A n : n \in DOMAIN v.data => (n \in S <=> n \notin gone)
  OBVIOUS
<1>9. /\ u \in PanelRecord /\ u.data = data /\ u.rows = v.rows /\ SameSources(u, v)
      /\ RowNames(u) = RowNames(v)
      /\ InPositionOrder(v) => InPositionOrder(u)
  <2> HIDE DEF S, data
  <2> QED
    BY <1>1, <1>2, <1>4, PanelWithData
<1>10. w = [u EXCEPT !.rows = rows]
  BY <1>3, <1>7, <1>9 DEF HideIndicators
<1>11. \A i \in DOMAIN v.rows : i \in K <=> v.rows[i].name \notin gone
  OBVIOUS
<1>12. DOMAIN data = S
  OBVIOUS
<1> HIDE DEF gone, S, data, K
<1>13. v.rows \in Seq(IndicatorRow)
  BY <1>1 DEF PanelRecord
<1>14. rows \in Seq(IndicatorRow) /\ \E g : Selects(g, rows, v.rows, K)
  BY <1>3, <1>13, KeptSelects
<1>15. PICK g : Selects(g, rows, v.rows, K)
  BY <1>14
<1>16. /\ \A j \in DOMAIN rows : g[j] \in DOMAIN v.rows /\ g[j] \in K /\ rows[j] = v.rows[g[j]]
       /\ \A j, k \in DOMAIN rows : j < k => g[j] < g[k]
       /\ \A i \in DOMAIN v.rows : i \in K => \E k \in DOMAIN rows : g[k] = i
  BY <1>15 DEF Selects
<1>17. w \in PanelRecord /\ w.rows = rows /\ w.data = data /\ SameSources(w, v)
  BY <1>9, <1>10, <1>14 DEF PanelRecord, SameSources
<1>18. /\ DOMAIN rows = 1..Len(rows) /\ Len(rows) \in Nat
       /\ DOMAIN v.rows = 1..Len(v.rows) /\ Len(v.rows) \in Nat
  BY <1>13, <1>14, SequenceDomain
<1>19. OnceNamed(rows)
  <2>1. ASSUME NEW j \in DOMAIN rows, NEW k \in DOMAIN rows, rows[j].name = rows[k].name, j < k
        PROVE  FALSE
    <3>1. g[j] = g[k]
      BY <1>1, <1>16, <2>1 DEF OnceNamed
    <3>2. g[j] < g[k] /\ g[j] \in Nat
      BY <1>16, <1>18, <2>1
    <3> QED
      BY <3>1, <3>2
  <2> QED
    BY <1>18, <2>1 DEF OnceNamed
<1>20. RowNames(w) = S
  <2>1. ASSUME NEW n PROVE n \in RowNames(w) => n \in S
    <3> SUFFICES ASSUME NEW j \in DOMAIN rows, n = rows[j].name PROVE n \in S
      BY <1>17 DEF RowNames
    <3>1. n \in RowNames(v) /\ n \notin gone
      BY <1>11, <1>16 DEF RowNames
    <3> QED
      BY <1>1, <1>8, <3>1
  <2>2. ASSUME NEW n \in S PROVE n \in RowNames(w)
    <3>1. n \in DOMAIN v.data
      BY <1>5
    <3>2. PICK i \in DOMAIN v.rows : n = v.rows[i].name
      BY <1>1, <3>1 DEF RowNames
    <3>3. i \in K
      BY <1>8, <1>11, <3>1, <3>2
    <3>4. PICK k \in DOMAIN rows : g[k] = i
      BY <1>16, <3>3
    <3> QED
      BY <1>16, <1>17, <3>2, <3>4 DEF RowNames
  <2> QED
    BY <2>1, <2>2
<1>21. ASSUME InPositionOrder(v) PROVE InPositionOrder(w)
  <2>1. \A r : Position(w, r) = Position(v, r)
    BY <1>17 DEF Position, SameSources
  <2>2. ASSUME NEW j \in DOMAIN rows, NEW k \in DOMAIN rows, j < k
        PROVE  Position(v, rows[j]) >= Position(v, rows[k])
    <3>1. g[j] < g[k] /\ g[j] \in DOMAIN v.rows /\ g[k] \in DOMAIN v.rows
      BY <1>16, <2>2
    <3> QED
      BY <1>16, <1>21, <3>1 DEF InPositionOrder
  <2> QED
    BY <1>17, <2>1, <2>2 DEF InPositionOrder
<1>22. PanelOK(w)
  BY <1>1, <1>5, <1>6, <1>12, <1>17, <1>19, <1>20 DEF PanelOK
<1> QED
  BY <1>5, <1>6, <1>12, <1>17, <1>21, <1>22

\* What loadDir() makes of a panel: the files of the directory are in, and what was
\* in from another directory is.
DirIn(w, v, d) ==
    /\ PanelOK(w) /\ SameSources(w, v) /\ (InPositionOrder(v) => InPositionOrder(w))
    /\ \A n \in DOMAIN w.data :
          \/ w.data[n].dir = d /\ <<d, n>> \in v.disk
          \/ w.data[n].dir # d /\ n \in DOMAIN v.data /\ w.data[n].dir = v.data[n].dir
    /\ \A n : <<d, n>> \in v.disk => n \in DOMAIN w.data
    /\ \A n \in DOMAIN v.data : v.data[n].dir # d => n \in DOMAIN w.data

LEMMA DirIsLoaded ==
    ASSUME NEW v, PanelOK(v), NEW d \in Directories
    PROVE  DirIn(LoadDir(v, d), v, d)
<1> DEFINE S == {f \in v.disk : f[1] = d}
<1>1. PICK u : u = StartVerify(v, d)
  OBVIOUS
<1>2. PICK files : files = SetToSeq(S)
  OBVIOUS
<1>3. PICK x : x = LoadFiles(u, d, files)
  OBVIOUS
<1>4. PICK w : w = EndVerify(x, d)
  OBVIOUS
<1>5. v.disk \in SUBSET IndicatorFiles
  BY DEF PanelOK, PanelRecord
<1>6. VerifyStarted(u, v, d)
  BY <1>1, StartVerifyStarts
<1>7. u.disk = v.disk
  BY <1>6 DEF VerifyStarted, SameSources
<1>8. LoadDir(v, d) = w
  BY <1>1, <1>2, <1>3, <1>4, <1>7 DEF LoadDir
<1>9. S \in SUBSET IndicatorFiles /\ IsFiniteSet(S)
  <2>1. S \in SUBSET IndicatorFiles
    BY <1>5
  <2> QED
    BY <2>1, IndicatorAssumption, FS_Subset
<1>10. \A n : <<d, n>> \in v.disk <=> <<d, n>> \in S
  OBVIOUS
<1>11. \A f \in S : f[1] = d /\ f \in v.disk /\ f = <<d, f[2]>>
  BY <1>5, IndicatorAssumption
<1> HIDE DEF S
<1>12. /\ files \in Seq(S) /\ Len(files) \in Nat
       /\ \A k \in 1..Len(files) : files[k] \in S
       /\ \A f \in S : \E k \in 1..Len(files) : files[k] = f
  BY <1>2, <1>9, SetIsListed
<1>13. files \in Seq(IndicatorFiles)
  BY <1>9, <1>12
<1>14. \A k \in 1..Len(files) : files[k][1] = d
  BY <1>11, <1>12
<1>15. FilesIn(x, u, d, files, Len(files))
  BY <1>3, <1>6, <1>13, <1>14, FilesAreLoaded
<1>16. \A n : (\E k \in 1..Len(files) : files[k][2] = n) <=> <<d, n>> \in v.disk
  <2>1. ASSUME NEW n, NEW k \in 1..Len(files), files[k][2] = n PROVE <<d, n>> \in v.disk
    BY <1>11, <1>12, <2>1
  <2>2. ASSUME NEW n, <<d, n>> \in v.disk PROVE \E k \in 1..Len(files) : files[k][2] = n
    <3>1. PICK k \in 1..Len(files) : files[k] = <<d, n>>
      BY <1>10, <1>12, <2>2
    <3> QED
      BY <3>1
  <2> QED
    BY <2>1, <2>2
<1>17. /\ PanelOK(x) /\ SameSources(x, u) /\ (InPositionOrder(u) => InPositionOrder(x))
       /\ \A n : n \in DOMAIN x.data <=> n \in DOMAIN u.data \/ <<d, n>> \in v.disk
       /\ \A n \in DOMAIN x.data :
            /\ x.data[n].dir # d => n \in DOMAIN u.data /\ x.data[n].dir = u.data[n].dir
            /\ x.data[n].dir = d => (x.data[n].verified <=> <<d, n>> \in v.disk)
            /\ x.data[n].dir = d => \/ n \in DOMAIN u.data /\ u.data[n].dir = d
                                    \/ <<d, n>> \in v.disk
  BY <1>15, <1>16 DEF FilesIn
<1>18. /\ PanelOK(w) /\ SameSources(w, x) /\ (InPositionOrder(x) => InPositionOrder(w))
       /\ \A n : n \in DOMAIN w.data <=>
                    n \in DOMAIN x.data /\ (x.data[n].dir = d => x.data[n].verified)
       /\ \A n \in DOMAIN w.data : w.data[n] = x.data[n]
  BY <1>4, <1>17, EndVerifyEnds
<1>19. /\ SameSources(u, v) /\ (InPositionOrder(v) => InPositionOrder(u))
       /\ DOMAIN u.data = DOMAIN v.data
       /\ \A n \in DOMAIN v.data : u.data[n].dir = v.data[n].dir
  BY <1>6 DEF VerifyStarted
<1>20. ASSUME NEW n \in DOMAIN w.data
       PROVE  \/ w.data[n].dir = d /\ <<d, n>> \in v.disk
              \/ w.data[n].dir # d /\ n \in DOMAIN v.data /\ w.data[n].dir = v.data[n].dir
  BY <1>17, <1>18, <1>19
<1>21. \A n : <<d, n>> \in v.disk => n \in DOMAIN w.data
  BY <1>17, <1>18
<1>22. ASSUME NEW n \in DOMAIN v.data, v.data[n].dir # d PROVE n \in DOMAIN w.data
  <2>1. n \in DOMAIN x.data
    BY <1>17, <1>19
  <2>2. x.data[n].dir = d => <<d, n>> \in v.disk
    BY <1>17, <1>19, <1>22, <2>1
  <2> QED
    BY <1>17, <1>18, <2>1, <2>2
<1>23. SameSources(w, v) /\ (InPositionOrder(v) => InPositionOrder(w))
  BY <1>17, <1>18, <1>19 DEF SameSources
<1>24. DirIn(w, v, d)
  BY <1>18, <1>20, <1>21, <1>22, <1>23 DEF DirIn
<1> QED
  BY <1>8, <1>24

\* A panel with other sources but the data and rows of another one.
LEMMA SamePanel ==
    ASSUME NEW v, PanelOK(v), NEW w \in PanelRecord, w.data = v.data, w.rows = v.rows
    PROVE  PanelOK(w) /\ (w.profile = v.profile /\ InPositionOrder(v) => InPositionOrder(w))
<1>1. RowNames(w) = RowNames(v)
  BY DEF RowNames
<1>2. PanelOK(w)
  BY <1>1 DEF PanelOK
<1>3. ASSUME w.profile = v.profile PROVE \A r : Position(w, r) = Position(v, r)
  BY <1>3 DEF Position
<1> QED
  BY <1>2, <1>3 DEF InPositionOrder

\* The directory of data is a home of its name.
LEMMA DatumIsHome ==
    ASSUME NEW v, PanelOK(v), NEW n \in DOMAIN v.data
    PROVE  v.data[n].dir \in HomesOf(n)
<1>1. PICK f \in IndicatorFiles : f = <<v.data[n].dir, n>>
  BY DEF PanelOK
<1> QED
  BY <1>1 DEF HomesOf

\* The panel has read its directories, up to the i-th.
DirsIn(w, v, i) ==
    /\ PanelOK(w) /\ SameSources(w, v) /\ InPositionOrder(w)
    /\ \A n \in DOMAIN w.data : <<w.data[n].dir, n>> \in v.disk
    /\ \A n : \A e \in 1..i : <<e, n>> \in v.disk /\ HomesOf(n) = {e} => n \in DOMAIN w.data

LEMMA DirsInRound ==
    ASSUME NEW v, NEW d \in Directories, NEW w, DirsIn(w, v, d - 1)
    PROVE  DirsIn(LoadDir(w, d), v, d)
<1>1. PICK x : x = LoadDir(w, d)
  OBVIOUS
<1>2. /\ PanelOK(w) /\ SameSources(w, v) /\ InPositionOrder(w)
      /\ \A n \in DOMAIN w.data : <<w.data[n].dir, n>> \in v.disk
      /\ \A n : \A e \in 1..d - 1 : <<e, n>> \in v.disk /\ HomesOf(n) = {e} => n \in DOMAIN w.data
  BY DEF DirsIn
<1>3. DirIn(x, w, d)
  BY <1>1, <1>2, DirIsLoaded
<1>4. /\ PanelOK(x) /\ SameSources(x, v) /\ InPositionOrder(x)
  BY <1>2, <1>3 DEF DirIn, SameSources
<1>5. w.disk = v.disk
  BY <1>2 DEF SameSources
<1>6. ASSUME NEW n \in DOMAIN x.data PROVE <<x.data[n].dir, n>> \in v.disk
  <2>1. \/ x.data[n].dir = d /\ <<d, n>> \in w.disk
        \/ x.data[n].dir # d /\ n \in DOMAIN w.data /\ x.data[n].dir = w.data[n].dir
    BY <1>3 DEF DirIn
  <2> QED
    BY <1>2, <1>5, <2>1
<1>7. ASSUME NEW n, NEW e \in 1..d, <<e, n>> \in v.disk, HomesOf(n) = {e}
      PROVE  n \in DOMAIN x.data
  <2>1. CASE e = d
    BY <1>3, <1>5, <1>7, <2>1 DEF DirIn
  <2>2. CASE e # d
    <3>1. d \in Nat
      <4>1. Cardinality(Directories) \in Nat /\ Directories = 1..Cardinality(Directories)
        BY IndicatorAssumption, FS_CardinalityType
      <4> QED
        BY <4>1
    <3>2. e \in 1..d - 1
      BY <2>2, <3>1
    <3>3. n \in DOMAIN w.data
      BY <1>2, <1>7, <3>2
    <3>4. w.data[n].dir \in HomesOf(n)
      BY <1>2, <3>3, DatumIsHome
    <3> QED
      BY <1>3, <1>7, <2>2, <3>3, <3>4 DEF DirIn
  <2> QED
    BY <2>1, <2>2
<1>8. DirsIn(x, v, d)
  BY <1>4, <1>6, <1>7 DEF DirsIn
<1> QED
  BY <1>1, <1>8

\* The loop of load().
DirsLoop(f, v) ==
    f = [d \in 0..Cardinality(Directories) |-> IF d = 0 THEN v ELSE LoadDir(f[d - 1], d)]

LEMMA DirsAreLoaded ==
    ASSUME NEW v, PanelOK(v), v.rows = <<>>, v.data = <<>>
    PROVE  DirsIn(LoadDirs(v), v, Cardinality(Directories))
<1> DEFINE m == Cardinality(Directories)
           G == [i \in 0..m |-> {w \in PanelRecord : DirsIn(w, v, i)}]
           step == [i \in 1..m |-> [w \in G[i - 1] |-> LoadDir(w, i)]]
           upTo == CHOOSE f : DirsLoop(f, v)
<1>1. m \in Nat /\ Directories = 1..m
  BY IndicatorAssumption, FS_CardinalityType
<1>2. \A i \in 0..m : \A w : w \in G[i] <=> DirsIn(w, v, i)
  BY DEF DirsIn, PanelOK
<1>3. LoadDirs(v) = upTo[m]
  BY Zenon DEF LoadDirs, DirsLoop
<1> HIDE DEF upTo, G, m
<1>4. ASSUME NEW i \in 1..m, NEW w, DirsIn(w, v, i - 1)
      PROVE  DirsIn(LoadDir(w, i), v, i)
  BY <1>1, <1>4, DirsInRound
<1>5. ASSUME NEW i \in 1..m PROVE step[i] \in [G[i - 1] -> G[i]]
  <2>1. i \in 0..m /\ i - 1 \in 0..m
    BY <1>1
  <2>2. \A w \in G[i - 1] : LoadDir(w, i) \in G[i]
    BY <1>2, <1>4, <2>1
  <2> QED
    BY <2>2
<1>6. v \in G[0]
  <2>1. DOMAIN v.data = {} /\ DOMAIN v.rows = {} /\ \A e \in 1..0 : FALSE
    OBVIOUS
  <2>2. InPositionOrder(v) /\ SameSources(v, v)
    BY <2>1 DEF InPositionOrder, SameSources
  <2>3. DirsIn(v, v, 0)
    BY <2>1, <2>2 DEF DirsIn
  <2> QED
    BY <1>1, <1>2, <2>3
<1>7. ASSUME NEW i \in 1..m, NEW w \in G[i - 1] PROVE step[i][w] = LoadDir(w, i)
  <2>1. step[i] = [x \in G[i - 1] |-> LoadDir(x, i)]
    OBVIOUS
  <2> QED
    BY <2>1
<1> HIDE DEF step
<1>8. PICK f : f = [i \in 0..m |-> f[i]] /\ Rounds(f, m, v, step)
  BY <1>1, <1>5, <1>6, GoodLoopRuns
<1>9. f[0] = v /\ \A i \in 1..m : f[i] = step[i][f[i - 1]]
  BY <1>1, <1>8, RoundsAt
<1>10. \A i \in 0..m : f[i] \in G[i]
  <2>1. f[0] \in G[0]
    BY <1>6, <1>9
  <2>2. \A i \in 1..m : f[i - 1] \in G[i - 1] => f[i] \in G[i]
    BY <1>5, <1>9
  <2> QED
    BY <1>1, <2>1, <2>2, LoopStays
<1>11. ASSUME NEW i \in 0..m PROVE f[i] = IF i = 0 THEN v ELSE LoadDir(f[i - 1], i)
  <2>1. i # 0 => i \in 1..m /\ i - 1 \in 0..m
    BY <1>1
  <2> QED
    BY <1>7, <1>9, <1>10, <2>1
<1>12. f = [i \in 0..m |-> IF i = 0 THEN v ELSE LoadDir(f[i - 1], i)]
  BY <1>8, <1>11
<1>13. DirsLoop(f, v)
  BY <1>12 DEF DirsLoop, m
<1>14. DirsLoop(upTo, v)
  BY <1>13 DEF upTo
<1>15. \A i \in 0..m : upTo[i] = IF i = 0 THEN v ELSE LoadDir(upTo[i - 1], i)
  BY <1>14 DEF DirsLoop, m
<1>16. \A i \in 0..m : upTo[i] \in G[i]
  <2>1. upTo[0] \in G[0]
    BY <1>1, <1>6, <1>15
  <2>2. ASSUME NEW i \in 1..m, upTo[i - 1] \in G[i - 1] PROVE upTo[i] \in G[i]
    <3>1. i \in 0..m /\ i - 1 \in 0..m /\ i # 0
      BY <1>1
    <3> QED
      BY <1>2, <1>4, <1>15, <2>2, <3>1
  <2> QED
    BY <1>1, <2>1, <2>2, LoopStays
<1> QED
  BY <1>1, <1>2, <1>3, <1>16 DEF m

\* Data is of a file that is there, unless its directory is to be read again; and a
\* file that is the only one of its name is in, unless its directory is to be read.
PanelFollows(v) ==
    /\ v.loaded => v.watching
    /\ ~v.watching => v.changed = {} /\ DOMAIN v.data = {}
    /\ \A n \in DOMAIN v.data : <<v.data[n].dir, n>> \in v.disk \/ v.data[n].dir \in v.changed
    /\ v.loaded =>
         \A n : \A d : <<d, n>> \in v.disk /\ HomesOf(n) = {d} =>
                          d \in v.changed \/ n \in DOMAIN v.data

PanelInv == PanelOK(indicators) /\ PanelFollows(indicators)

StaysSorted ==
    InPositionOrder(indicators) /\ indicators'.profile = indicators.profile
        => InPositionOrder(indicators')

LEMMA EmptyPanel ==
    ASSUME NEW v, PanelOK(v), NEW w, w = UnloadAll(v)
    PROVE  /\ PanelOK(w) /\ InPositionOrder(w) /\ w.rows = <<>> /\ w.data = <<>> /\ ~w.loaded
           /\ w.disk = v.disk /\ w.changed = v.changed /\ w.watching = v.watching
           /\ w.profile = v.profile
<1>1. v \in PanelRecord
  BY DEF PanelOK
<1>2. w = [v EXCEPT !.rows = <<>>, !.data = <<>>, !.loaded = FALSE]
  BY DEF UnloadAll
<1>3. <<>> \in Seq(IndicatorRow) /\ <<>> \in [{} -> IndicatorData] /\ DOMAIN <<>> = {}
  OBVIOUS
<1>4. <<>> \in UNION {[S -> IndicatorData] : S \in SUBSET Names}
  BY <1>3
<1>5. /\ w \in PanelRecord /\ w.rows = <<>> /\ w.data = <<>> /\ w.loaded = FALSE
      /\ w.disk = v.disk /\ w.changed = v.changed /\ w.watching = v.watching
      /\ w.profile = v.profile
  BY <1>1, <1>2, <1>3, <1>4 DEF PanelRecord
<1>6. DOMAIN w.rows = {} /\ DOMAIN w.data = {}
  BY <1>3, <1>5
<1>7. PanelOK(w) /\ InPositionOrder(w)
  BY <1>5, <1>6 DEF PanelOK, OnceNamed, RowNames, InPositionOrder
<1> QED
  BY <1>5, <1>7

LEMMA LoadKeepsPanel ==
    ASSUME PanelInv, LoadIndicators
    PROVE  PanelInv' /\ StaysSorted
<1>1. PICK v : v = indicators
  OBVIOUS
<1>2. PICK u : u = UnloadAll(v)
  OBVIOUS
<1>3. PICK x : x = LoadDirs(u)
  OBVIOUS
<1>4. PICK w : w = indicators'
  OBVIOUS
<1>5. PanelOK(v) /\ PanelFollows(v)
  BY <1>1 DEF PanelInv
<1>6. PanelOK(u) /\ u.rows = <<>> /\ u.data = <<>> /\ u.disk = v.disk
  BY <1>2, <1>5, EmptyPanel
<1>7. DirsIn(x, u, Cardinality(Directories))
  BY <1>3, <1>6, DirsAreLoaded
<1>8. w = [x EXCEPT !.loaded = TRUE, !.watching = TRUE, !.changed = {}]
  BY <1>1, <1>2, <1>3, <1>4 DEF LoadIndicators
<1>9. /\ PanelOK(x) /\ x \in PanelRecord /\ x.disk = v.disk /\ InPositionOrder(x)
      /\ \A n \in DOMAIN x.data : <<x.data[n].dir, n>> \in v.disk
      /\ \A n : \A e \in Directories : <<e, n>> \in v.disk /\ HomesOf(n) = {e} => n \in DOMAIN x.data
  BY <1>6, <1>7, IndicatorAssumption DEF DirsIn, PanelOK, SameSources
<1>10. /\ w \in PanelRecord /\ w.loaded /\ w.watching /\ w.changed = {} /\ w.disk = v.disk
       /\ w.data = x.data /\ w.rows = x.rows /\ w.profile = x.profile
  BY <1>8, <1>9 DEF PanelRecord
<1>11. PanelOK(w) /\ InPositionOrder(w)
  BY <1>9, <1>10, SamePanel
<1>12. \A n : \A d : <<d, n>> \in w.disk => d \in Directories
  BY <1>10, IndicatorAssumption DEF PanelRecord
<1>13. PanelFollows(w)
  BY <1>9, <1>10, <1>12 DEF PanelFollows
<1> QED
  BY <1>4, <1>11, <1>13 DEF PanelInv, StaysSorted

LEMMA UnloadKeepsPanel ==
    ASSUME PanelInv, UnloadIndicators
    PROVE  PanelInv' /\ StaysSorted
<1>1. PICK v : v = indicators
  OBVIOUS
<1>2. PICK w : w = indicators'
  OBVIOUS
<1>3. PanelOK(v) /\ PanelFollows(v) /\ w = UnloadAll(v)
  BY <1>1, <1>2 DEF PanelInv, UnloadIndicators
<1>4. /\ PanelOK(w) /\ InPositionOrder(w) /\ w.data = <<>> /\ ~w.loaded
      /\ w.changed = v.changed /\ w.watching = v.watching
  BY <1>3, EmptyPanel
<1>5. DOMAIN w.data = {}
  BY <1>4
<1>6. PanelFollows(w)
  BY <1>3, <1>4, <1>5 DEF PanelFollows
<1> QED
  BY <1>2, <1>4, <1>6 DEF PanelInv, StaysSorted

LEMMA ChangeKeepsPanel ==
    ASSUME PanelInv, NEW f \in IndicatorFiles, ChangeFile(f)
    PROVE  PanelInv' /\ StaysSorted
<1>1. PICK v : v = indicators
  OBVIOUS
<1>2. PICK w : w = indicators'
  OBVIOUS
<1>3. PanelOK(v) /\ PanelFollows(v) /\ v \in PanelRecord
  BY <1>1 DEF PanelInv, PanelOK
<1>4. PICK disk : disk = IF f \in v.disk THEN v.disk \ {f} ELSE v.disk \cup {f}
  OBVIOUS
<1>5. PICK changed : changed = IF v.watching THEN v.changed \cup {f[1]} ELSE v.changed
  OBVIOUS
<1>6. w = [v EXCEPT !.disk = disk, !.changed = changed]
  <2>1. w = [v EXCEPT !.disk = disk,
                      !.changed = IF v.watching THEN v.changed \cup {f[1]} ELSE v.changed]
    BY <1>1, <1>2, <1>4 DEF ChangeFile
  <2> QED
    BY <1>5, <2>1
<1>7. f[1] \in Directories
  BY IndicatorAssumption
<1>8. disk \in SUBSET IndicatorFiles /\ changed \in SUBSET Directories
  BY <1>3, <1>4, <1>5, <1>7 DEF PanelRecord
<1>9. /\ w \in PanelRecord /\ w.disk = disk /\ w.changed = changed /\ w.watching = v.watching
      /\ w.loaded = v.loaded /\ w.data = v.data /\ w.rows = v.rows /\ w.profile = v.profile
  BY <1>3, <1>6, <1>8 DEF PanelRecord
<1>10. PanelOK(w) /\ (InPositionOrder(v) => InPositionOrder(w))
  BY <1>3, <1>9, SamePanel
<1>11. \A d, n : (<<d, n>> \in disk <=> <<d, n>> \in v.disk) \/ d = f[1]
  BY <1>4
<1>12. \A d : d \in v.changed => d \in changed
  BY <1>5
<1>13. CASE v.watching
  <2>1. \A d : d = f[1] => d \in changed
    BY <1>5, <1>13
  <2>2. PanelFollows(w)
    BY <1>3, <1>9, <1>11, <1>12, <1>13, <2>1 DEF PanelFollows
  <2> QED
    BY <1>1, <1>2, <1>10, <2>2 DEF PanelInv, StaysSorted
<1>14. CASE ~v.watching
  <2>1. PanelFollows(w)
    BY <1>3, <1>5, <1>9, <1>14 DEF PanelFollows
  <2> QED
    BY <1>1, <1>2, <1>10, <2>1 DEF PanelInv, StaysSorted
<1> QED
  BY <1>13, <1>14

LEMMA DirectoryKeepsPanel ==
    ASSUME PanelInv, NEW d \in Directories, OnDirectoryChanged(d)
    PROVE  PanelInv' /\ StaysSorted
<1>1. PICK v : v = indicators
  OBVIOUS
<1>2. PICK w : w = indicators'
  OBVIOUS
<1>3. PICK x : x = LoadDir(v, d)
  OBVIOUS
<1>4. PanelOK(v) /\ PanelFollows(v) /\ v \in PanelRecord /\ d \in v.changed
  BY <1>1 DEF PanelInv, PanelOK, OnDirectoryChanged
<1>5. w = [x EXCEPT !.changed = @ \ {d}]
  BY <1>1, <1>2, <1>3 DEF OnDirectoryChanged
<1>6. DirIn(x, v, d)
  BY <1>3, <1>4, DirIsLoaded
<1>7. PanelOK(x) /\ x \in PanelRecord /\ SameSources(x, v) /\ (InPositionOrder(v) => InPositionOrder(x))
  BY <1>6 DEF DirIn, PanelOK
<1>8. /\ w \in PanelRecord /\ w.changed = v.changed \ {d} /\ w.disk = v.disk
      /\ w.watching = v.watching /\ w.loaded = v.loaded
      /\ w.data = x.data /\ w.rows = x.rows /\ w.profile = x.profile
  BY <1>5, <1>7 DEF PanelRecord, SameSources
<1>9. PanelOK(w) /\ (InPositionOrder(v) => InPositionOrder(w))
  BY <1>7, <1>8, SamePanel
<1>10. v.watching
  BY <1>4 DEF PanelFollows
<1>11. ASSUME NEW n \in DOMAIN w.data
       PROVE  <<w.data[n].dir, n>> \in w.disk \/ w.data[n].dir \in w.changed
  <2>1. CASE w.data[n].dir = d /\ <<d, n>> \in v.disk
    BY <1>8, <2>1
  <2>2. CASE w.data[n].dir # d /\ n \in DOMAIN v.data /\ w.data[n].dir = v.data[n].dir
    <3>1. <<v.data[n].dir, n>> \in v.disk \/ v.data[n].dir \in v.changed
      BY <1>4, <2>2 DEF PanelFollows
    <3> QED
      BY <1>8, <2>2, <3>1
  <2> QED
    BY <1>6, <1>8, <2>1, <2>2 DEF DirIn
<1>12. ASSUME w.loaded, NEW n, NEW e, <<e, n>> \in w.disk, HomesOf(n) = {e}
       PROVE  e \in w.changed \/ n \in DOMAIN w.data
  <2>1. CASE e = d
    BY <1>6, <1>8, <1>12, <2>1 DEF DirIn
  <2>2. CASE e # d
    <3>1. e \in v.changed \/ n \in DOMAIN v.data
      BY <1>4, <1>8, <1>12 DEF PanelFollows
    <3>2. n \in DOMAIN v.data => v.data[n].dir = e
      BY <1>4, <1>12, DatumIsHome
    <3> QED
      BY <1>6, <1>8, <2>2, <3>1, <3>2 DEF DirIn
  <2> QED
    BY <2>1, <2>2
<1>13. PanelFollows(w)
  <2>1. v.loaded => v.watching
    BY <1>10
  <2> QED
    BY <1>8, <1>10, <1>11, <1>12 DEF PanelFollows
<1> QED
  BY <1>1, <1>2, <1>9, <1>13 DEF PanelInv, StaysSorted

LEMMA ProfileKeepsPanel ==
    ASSUME PanelInv, NEW profile \in Profiles, SetProfile(profile)
    PROVE  PanelInv' /\ StaysSorted
<1>1. PICK v : v = indicators
  OBVIOUS
<1>2. PICK w : w = indicators'
  OBVIOUS
<1>3. PanelOK(v) /\ PanelFollows(v) /\ v \in PanelRecord
  BY <1>1 DEF PanelInv, PanelOK
<1>4. w = [v EXCEPT !.profile = profile] /\ profile # v.profile
  BY <1>1, <1>2 DEF SetProfile
<1>5. /\ w \in PanelRecord /\ w.profile = profile /\ w.disk = v.disk /\ w.changed = v.changed
      /\ w.watching = v.watching /\ w.loaded = v.loaded /\ w.data = v.data /\ w.rows = v.rows
  BY <1>3, <1>4 DEF PanelRecord
<1>6. PanelOK(w)
  BY <1>3, <1>5, SamePanel
<1>7. PanelFollows(w)
  BY <1>3, <1>5 DEF PanelFollows
<1> QED
  BY <1>1, <1>2, <1>4, <1>5, <1>6, <1>7 DEF PanelInv, StaysSorted

LEMMA PanelStarts == IndicatorsInit => PanelInv
<1> SUFFICES ASSUME IndicatorsInit PROVE PanelInv
  OBVIOUS
<1>1. PICK disk \in SUBSET IndicatorFiles, profile \in Profiles :
        indicators = [disk |-> disk, changed |-> {}, watching |-> FALSE, loaded |-> FALSE,
                      data |-> <<>>, rows |-> <<>>, profile |-> profile]
  BY DEF IndicatorsInit
<1>2. PICK v : v = indicators
  OBVIOUS
<1>3. <<>> \in Seq(IndicatorRow) /\ <<>> \in [{} -> IndicatorData] /\ DOMAIN <<>> = {}
  OBVIOUS
<1>4. <<>> \in UNION {[S -> IndicatorData] : S \in SUBSET Names}
  BY <1>3
<1>5. /\ v \in PanelRecord /\ v.rows = <<>> /\ v.data = <<>> /\ ~v.loaded /\ ~v.watching
      /\ v.changed = {}
  BY <1>1, <1>2, <1>3, <1>4 DEF PanelRecord
<1>6. DOMAIN v.rows = {} /\ DOMAIN v.data = {}
  BY <1>3, <1>5
<1>7. PanelOK(v)
  BY <1>5, <1>6 DEF PanelOK, OnceNamed, RowNames
<1>8. PanelFollows(v)
  BY <1>5, <1>6 DEF PanelFollows
<1> QED
  BY <1>2, <1>7, <1>8 DEF PanelInv

LEMMA PanelStays == PanelInv /\ [IndicatorsNext]_indicators => PanelInv' /\ [StaysSorted]_indicators
<1> SUFFICES ASSUME PanelInv, [IndicatorsNext]_indicators
             PROVE  PanelInv' /\ [StaysSorted]_indicators
  OBVIOUS
<1>1. CASE LoadIndicators
  BY <1>1, LoadKeepsPanel
<1>2. CASE UnloadIndicators
  BY <1>2, UnloadKeepsPanel
<1>3. ASSUME NEW f \in IndicatorFiles, ChangeFile(f) PROVE PanelInv' /\ StaysSorted
  BY <1>3, ChangeKeepsPanel
<1>4. ASSUME NEW d \in Directories, OnDirectoryChanged(d) PROVE PanelInv' /\ StaysSorted
  BY <1>4, DirectoryKeepsPanel
<1>5. ASSUME NEW profile \in Profiles, SetProfile(profile) PROVE PanelInv' /\ StaysSorted
  BY <1>5, ProfileKeepsPanel
<1>6. CASE UNCHANGED indicators
  BY <1>6 DEF PanelInv
<1> QED
  BY <1>1, <1>2, <1>3, <1>4, <1>5, <1>6 DEF IndicatorsNext

\* StoredRows of different names are as many as their names.
LEMMA NamesAreCounted ==
    ASSUME NEW v, PanelOK(v)
    PROVE  Cardinality(RowNames(v)) = Len(v.rows)
<1> DEFINE n == Len(v.rows)
           name == [i \in 1..n |-> v.rows[i].name]
<1>1. n \in Nat /\ DOMAIN v.rows = 1..n
  <2>1. v.rows \in Seq(IndicatorRow)
    BY DEF PanelOK, PanelRecord
  <2> QED
    BY <2>1, SequenceDomain
<1>2. \A i, j \in 1..n : v.rows[i].name = v.rows[j].name => i = j
  BY <1>1 DEF PanelOK, OnceNamed
<1> HIDE DEF n
<1>3. /\ name \in [1..n -> RowNames(v)]
      /\ \A i, j \in 1..n : name[i] = name[j] => i = j
      /\ \A x \in RowNames(v) : \E i \in 1..n : name[i] = x
  BY <1>1, <1>2 DEF RowNames
<1>4. name \in Bijection(1..n, RowNames(v))
  <2> HIDE DEF name
  <2> QED
    BY <1>3 DEF Bijection, Injection, Surjection, IsInjective
<1>5. ExistsBijection(1..n, RowNames(v))
  BY <1>4 DEF ExistsBijection
<1>6. Cardinality(RowNames(v)) = n
  BY <1>1, <1>5, FS_CountingElements
<1> QED
  BY <1>6 DEF n

LEMMA PanelIsFollowed == PanelInv => IndicatorsFollowFiles
<1> SUFFICES ASSUME PanelInv, indicators.loaded, indicators.changed = {}
             PROVE  /\ Cardinality(RowNames(indicators)) = Len(indicators.rows)
                    /\ RowNames(indicators) \subseteq NamesOf(indicators.disk)
                    /\ \A name \in NamesOf(indicators.disk) :
                         Cardinality(HomesOf(name)) = 1 => name \in RowNames(indicators)
  BY DEF IndicatorsFollowFiles
<1>1. PICK v : v = indicators
  OBVIOUS
<1>2. PanelOK(v) /\ PanelFollows(v) /\ v.loaded /\ v.changed = {}
  BY <1>1 DEF PanelInv
<1>3. RowNames(v) = DOMAIN v.data /\ v.disk \in SUBSET IndicatorFiles
  BY <1>2 DEF PanelOK, PanelRecord
<1>4. ASSUME NEW name \in RowNames(v) PROVE name \in NamesOf(v.disk)
  <2>1. <<v.data[name].dir, name>> \in v.disk
    BY <1>2, <1>3, <1>4 DEF PanelFollows
  <2>2. PICK f : f = <<v.data[name].dir, name>>
    OBVIOUS
  <2>3. f \in v.disk /\ f[2] = name
    BY <2>1, <2>2
  <2> QED
    BY <2>3 DEF NamesOf
<1>5. ASSUME NEW name \in NamesOf(v.disk), Cardinality(HomesOf(name)) = 1
      PROVE  name \in RowNames(v)
  <2>1. PICK f \in v.disk : f[2] = name
    BY DEF NamesOf
  <2>2. f \in IndicatorFiles /\ f = <<f[1], name>>
    BY <1>3, <2>1, IndicatorAssumption
  <2>3. IsFiniteSet(HomesOf(name))
    <3>1. HomesOf(name) \in SUBSET Directories
      BY IndicatorAssumption DEF HomesOf
    <3> QED
      BY <3>1, IndicatorAssumption, FS_Subset
  <2>4. PICK d : HomesOf(name) = {d}
    BY <1>5, <2>3, FS_Singleton
  <2>5. f[1] \in HomesOf(name)
    BY <2>1, <2>2 DEF HomesOf
  <2>6. HomesOf(name) = {f[1]} /\ <<f[1], name>> \in v.disk
    BY <2>1, <2>2, <2>4, <2>5
  <2> QED
    BY <1>2, <1>3, <2>6 DEF PanelFollows
<1>6. Cardinality(RowNames(v)) = Len(v.rows)
  BY <1>2, NamesAreCounted
<1> QED
  BY <1>1, <1>4, <1>5, <1>6

\* Once the directories have been read after a change the panel lists the indicators
\* there are files of, each once (IndicatorsManager::loadDir, startVerify, endVerify).
THEOREM IndicatorsFollowFilesAlways == IndicatorsSpec => []IndicatorsFollowFiles
<1>1. PanelInv /\ [IndicatorsNext]_indicators => PanelInv'
  BY PanelStays
<1>2. IndicatorsSpec => []PanelInv
  BY PanelStarts, <1>1, PTL DEF IndicatorsSpec
<1> QED
  BY <1>2, PanelIsFollowed, PTL

\* A list of indicators that is in the order of the positions stays so while the
\* profile does (IndicatorsModel::onIndicatorLoaded).
THEOREM IndicatorsStaySortedAlways == IndicatorsSpec => IndicatorsStaySorted
<1>1. PanelInv /\ [IndicatorsNext]_indicators => PanelInv'
  BY PanelStays
<1>2. PanelInv /\ [IndicatorsNext]_indicators
        => [InPositionOrder(indicators) /\ indicators'.profile = indicators.profile
              => InPositionOrder(indicators')]_indicators
  BY PanelStays DEF StaysSorted
<1> QED
  BY PanelStarts, <1>1, <1>2, PTL DEF IndicatorsSpec, IndicatorsStaySorted

(***************************************************************************)
(* MenuContentActivator                                                    *)
(***************************************************************************)
ActivatorRecord ==
    [base : Nat, count : Nat, delta : Int, active : SUBSET Int,
     running : BOOLEAN, timer : BOOLEAN]

SearchRecord ==
    [delta : Int, topReached : BOOLEAN, bottomReached : BOOLEAN, found : BOOLEAN]

\* The place of an offset in the search: 0, 1, -1, 2, -2, ...
SearchOrder(d) == IF d > 0 THEN 2 * d - 1 ELSE 0 - 2 * d

IsShown(a, d) == a.base + d >= 0 /\ a.base + d < a.count

\* All menus the search passes on its way to an offset have their content.
ActiveBefore(a, d) ==
    \A e \in Int : SearchOrder(e) < SearchOrder(d) /\ IsShown(a, e) => a.base + e \in a.active

ActiveUpTo(a, d) ==
    \A e \in Int : SearchOrder(e) <= SearchOrder(d) /\ IsShown(a, e) => a.base + e \in a.active

\* What holds of a search that has left nothing out.
SearchGood(a, s) ==
    /\ s \in SearchRecord
    /\ s.topReached => \A e \in Int : e >= s.delta /\ e >= 0 - s.delta => a.base + e >= a.count
    /\ s.bottomReached => \A e \in Int : e <= s.delta /\ e <= 0 - s.delta => a.base + e < 0
    /\ s.found => IsShown(a, s.delta) /\ a.base + s.delta \notin a.active /\ ActiveBefore(a, s.delta)
    /\ ~s.found => ActiveUpTo(a, s.delta)

\* What holds of a search that is not over after i turns.
SearchGoesOn(a, s, i) ==
    /\ SearchOrder(s.delta) >= i /\ i <= 2 * a.count
    /\ i > 0 => /\ s.delta > 0 /\ a.base + s.delta >= a.count => s.topReached
                /\ s.delta < 0 /\ a.base + s.delta < 0 => s.bottomReached
                /\ s.delta # 0

SearchIn(a, s, i) == SearchGood(a, s) /\ (~IsSearchOver(s) => SearchGoesOn(a, s, i))

LEMMA OrderIsOwn ==
    ASSUME NEW e \in Int, NEW d \in Int
    PROVE  /\ SearchOrder(e) = SearchOrder(d) => e = d
           /\ SearchOrder(e) <= SearchOrder(d) /\ e # d => SearchOrder(e) < SearchOrder(d)
<1>1. ASSUME SearchOrder(e) = SearchOrder(d) PROVE e = d
  <2>1. CASE e > 0
    <3>1. SearchOrder(d) = 2 * e - 1
      BY <1>1, <2>1 DEF SearchOrder
    <3>2. CASE d > 0
      BY <3>1, <3>2 DEF SearchOrder
    <3>3. CASE d <= 0
      BY <3>1, <3>3 DEF SearchOrder
    <3> QED
      BY <3>2, <3>3
  <2>2. CASE e <= 0
    <3>1. SearchOrder(d) = 0 - 2 * e
      BY <1>1, <2>2 DEF SearchOrder
    <3>2. CASE d > 0
      BY <3>1, <3>2 DEF SearchOrder
    <3>3. CASE d <= 0
      <4>1. SearchOrder(d) = 0 - 2 * d
        BY <3>3 DEF SearchOrder
      <4> QED
        BY <3>1, <4>1
    <3> QED
      BY <3>2, <3>3
  <2> QED
    BY <2>1, <2>2
<1>2. SearchOrder(e) \in Int /\ SearchOrder(d) \in Int
  BY DEF SearchOrder
<1> QED
  BY <1>1, <1>2

\* The offset of a turn, and what the turn passes over is not shown.
LEMMA TurnGoesOn ==
    ASSUME NEW a \in ActivatorRecord, a.base < a.count, NEW s, SearchGood(a, s), ~IsSearchOver(s),
           NEW w, w = SearchNext(a, s)
    PROVE  /\ w \in SearchRecord /\ SearchOrder(w.delta) > SearchOrder(s.delta)
           /\ \A e \in Int : SearchOrder(s.delta) < SearchOrder(e) /\ SearchOrder(e) < SearchOrder(w.delta)
                                => ~IsShown(a, e)
           /\ w.delta # 0 /\ (w.delta > s.delta \/ w.delta < s.delta)
           /\ w.topReached <=> s.topReached \/ (w.delta > 0 /\ a.base + w.delta >= a.count)
           /\ w.bottomReached <=> s.bottomReached \/ (w.delta < 0 /\ a.base + w.delta < 0)
           /\ w.found <=> IsShown(a, w.delta) /\ a.base + w.delta \notin a.active
           /\ s.delta > 0 /\ ~s.bottomReached => w.delta = 0 - s.delta
           /\ s.delta > 0 /\ s.bottomReached => w.delta = s.delta + 1
           /\ s.delta < 0 /\ s.topReached => w.delta = s.delta - 1
           /\ s.delta < 0 /\ ~s.topReached => w.delta = 1 - s.delta
           /\ s.delta = 0 => w.delta = 1
<1> DEFINE turned == CASE s.delta > 0 /\ s.bottomReached -> -s.delta
                       [] s.delta < 0 /\ s.topReached -> -s.delta + 1
                       [] OTHER -> s.delta
           next   == IF turned > 0 THEN -turned ELSE -turned + 1
           below  == turned > 0 /\ a.base + next < 0
           above  == turned <= 0 /\ a.base + next >= a.count
<1>1. /\ a.base \in Nat /\ a.count \in Nat /\ a.active \in SUBSET Int
      /\ s \in SearchRecord /\ s.delta \in Int
      /\ s.topReached \in BOOLEAN /\ s.bottomReached \in BOOLEAN
  BY DEF ActivatorRecord, SearchGood, SearchRecord
<1>2. PICK t : t = turned
  OBVIOUS
<1>3. PICK n : n = next
  OBVIOUS
<1>4. PICK b \in BOOLEAN : b <=> below
  OBVIOUS
<1>5. PICK c \in BOOLEAN : c <=> above
  OBVIOUS
<1>6. w = [delta |-> n, topReached |-> s.topReached \/ c, bottomReached |-> s.bottomReached \/ b,
           found |-> ~b /\ ~c /\ ~(a.base + n \in a.active)]
  <2>1. w = [delta |-> next,
             topReached |-> s.topReached \/ above, bottomReached |-> s.bottomReached \/ below,
             found |-> ~below /\ ~above /\ ~(a.base + next \in a.active)]
    BY Zenon DEF SearchNext, IsMenuContentActive
  <2>2. n = next /\ (b <=> below) /\ (c <=> above)
    BY <1>3, <1>4, <1>5
  <2> HIDE DEF next, below, above
  <2> QED
    BY <2>1, <2>2
<1>7. t \in Int /\ t = IF s.delta > 0 /\ s.bottomReached THEN 0 - s.delta
                       ELSE IF s.delta < 0 /\ s.topReached THEN 1 - s.delta ELSE s.delta
  BY <1>1, <1>2
<1>8. n \in Int /\ n = IF t > 0 THEN 0 - t ELSE 1 - t
  BY <1>2, <1>3, <1>7
<1>9. (b <=> t > 0 /\ a.base + n < 0) /\ (c <=> t <= 0 /\ a.base + n >= a.count)
  BY <1>2, <1>3, <1>4, <1>5
<1> HIDE DEF turned, next, below, above
<1>10. /\ w.delta = n /\ (w.topReached <=> s.topReached \/ c)
       /\ (w.bottomReached <=> s.bottomReached \/ b)
       /\ (w.found <=> ~b /\ ~c /\ ~(a.base + n \in a.active))
       /\ w \in SearchRecord
  <2> DEFINE top == s.topReached \/ c
             bottom == s.bottomReached \/ b
             found == ~b /\ ~c /\ ~(a.base + n \in a.active)
  <2>1. top \in BOOLEAN /\ bottom \in BOOLEAN /\ found \in BOOLEAN
    OBVIOUS
  <2>2. w = [delta |-> n, topReached |-> top, bottomReached |-> bottom, found |-> found]
    BY <1>6
  <2>3. /\ top <=> s.topReached \/ c
        /\ bottom <=> s.bottomReached \/ b
        /\ found <=> ~b /\ ~c /\ ~(a.base + n \in a.active)
    OBVIOUS
  <2> HIDE DEF top, bottom, found
  <2>4. /\ w.delta = n /\ w.topReached = top /\ w.bottomReached = bottom /\ w.found = found
    BY <2>2
  <2>5. w \in SearchRecord
    BY <1>8, <2>1, <2>2 DEF SearchRecord
  <2> QED
    BY <2>3, <2>4, <2>5
<1>11. /\ s.delta > 0 /\ ~s.bottomReached => n = 0 - s.delta
       /\ s.delta > 0 /\ s.bottomReached => n = s.delta + 1
       /\ s.delta < 0 /\ s.topReached => n = s.delta - 1
       /\ s.delta < 0 /\ ~s.topReached => n = 1 - s.delta
       /\ s.delta = 0 => n = 1
  BY <1>1, <1>7, <1>8
<1>12. n # 0 /\ (t > 0 <=> n < 0) /\ (n > s.delta \/ n < s.delta)
  BY <1>1, <1>7, <1>8
<1>13. SearchOrder(n) > SearchOrder(s.delta)
  BY <1>1, <1>7, <1>8 DEF SearchOrder
<1>14. ASSUME NEW e \in Int, SearchOrder(s.delta) < SearchOrder(e), SearchOrder(e) < SearchOrder(n)
       PROVE  ~IsShown(a, e)
  <2>1. CASE s.delta > 0 /\ s.bottomReached
    <3>1. n = s.delta + 1 /\ e = 0 - s.delta
      BY <1>1, <1>11, <1>14, <2>1 DEF SearchOrder
    <3>2. a.base + e < 0
      BY <1>1, <2>1, <3>1 DEF SearchGood
    <3> QED
      BY <3>2, <1>1 DEF IsShown
  <2>2. CASE s.delta < 0 /\ s.topReached
    <3>1. n = s.delta - 1 /\ e = 1 - s.delta
      BY <1>1, <1>11, <1>14, <2>2 DEF SearchOrder
    <3>2. a.base + e >= a.count
      BY <1>1, <2>2, <3>1 DEF SearchGood
    <3> QED
      BY <3>2, <1>1 DEF IsShown
  <2>3. CASE ~(s.delta > 0 /\ s.bottomReached) /\ ~(s.delta < 0 /\ s.topReached)
    <3>1. SearchOrder(n) = SearchOrder(s.delta) + 1
      BY <1>1, <1>11, <2>3 DEF SearchOrder
    <3>2. SearchOrder(e) \in Int /\ SearchOrder(s.delta) \in Int
      BY <1>1 DEF SearchOrder
    <3> QED
      BY <1>14, <3>1, <3>2
  <2> QED
    BY <2>1, <2>2, <2>3
<1>15. ~b /\ ~c <=> IsShown(a, n)
  <2>1. CASE t > 0
    BY <1>1, <1>7, <1>8, <1>9, <2>1 DEF IsShown
  <2>2. CASE t <= 0
    BY <1>1, <1>7, <1>8, <1>9, <2>2 DEF IsShown
  <2> QED
    BY <1>7, <2>1, <2>2
<1>16. (b <=> n < 0 /\ a.base + n < 0) /\ (c <=> n > 0 /\ a.base + n >= a.count)
  <2>1. CASE t > 0
    BY <1>1, <1>7, <1>8, <1>9, <2>1
  <2>2. CASE t <= 0
    BY <1>1, <1>7, <1>8, <1>9, <2>2
  <2> QED
    BY <1>7, <2>1, <2>2
<1> QED
  BY <1>10, <1>11, <1>12, <1>13, <1>14, <1>15, <1>16

LEMMA SearchInRound ==
    ASSUME NEW a \in ActivatorRecord, a.base < a.count, NEW i \in Nat, i > 0,
           NEW s, SearchIn(a, s, i - 1), ~IsSearchOver(s)
    PROVE  SearchIn(a, SearchNext(a, s), i)
<1>1. PICK w : w = SearchNext(a, s)
  OBVIOUS
<1>2. /\ a.base \in Nat /\ a.count \in Nat /\ s \in SearchRecord /\ s.delta \in Int
      /\ SearchGood(a, s) /\ SearchGoesOn(a, s, i - 1) /\ ~s.found
      /\ ~(s.topReached /\ s.bottomReached)
  BY DEF ActivatorRecord, SearchIn, SearchGood, SearchRecord, IsSearchOver
<1>3. /\ w \in SearchRecord /\ SearchOrder(w.delta) > SearchOrder(s.delta)
      /\ \A e \in Int : SearchOrder(s.delta) < SearchOrder(e) /\ SearchOrder(e) < SearchOrder(w.delta)
                           => ~IsShown(a, e)
      /\ w.delta # 0
      /\ w.topReached <=> s.topReached \/ (w.delta > 0 /\ a.base + w.delta >= a.count)
      /\ w.bottomReached <=> s.bottomReached \/ (w.delta < 0 /\ a.base + w.delta < 0)
      /\ w.found <=> IsShown(a, w.delta) /\ a.base + w.delta \notin a.active
  BY <1>1, <1>2, TurnGoesOn
<1>4. /\ s.delta > 0 /\ ~s.bottomReached => w.delta = 0 - s.delta
      /\ s.delta > 0 /\ s.bottomReached => w.delta = s.delta + 1
      /\ s.delta < 0 /\ s.topReached => w.delta = s.delta - 1
      /\ s.delta < 0 /\ ~s.topReached => w.delta = 1 - s.delta
      /\ s.delta = 0 => w.delta = 1
  BY <1>1, <1>2, TurnGoesOn
<1>5. w.delta \in Int
  BY <1>3 DEF SearchRecord
<1>6. \A e \in Int : SearchOrder(e) \in Nat
  BY DEF SearchOrder
<1>7. ActiveUpTo(a, s.delta)
  BY <1>2 DEF SearchGood
<1>8. ActiveBefore(a, w.delta)
  <2>1. ASSUME NEW e \in Int, SearchOrder(e) < SearchOrder(w.delta), IsShown(a, e)
        PROVE  a.base + e \in a.active
    <3>1. ~(SearchOrder(s.delta) < SearchOrder(e))
      BY <1>3, <2>1
    <3>2. SearchOrder(e) <= SearchOrder(s.delta)
      BY <1>2, <1>6, <3>1
    <3> QED
      BY <1>7, <2>1, <3>2 DEF ActiveUpTo
  <2> QED
    BY <2>1 DEF ActiveBefore
<1>9. ASSUME NEW e \in Int, SearchOrder(e) = SearchOrder(w.delta) PROVE e = w.delta
  BY <1>5, <1>9, OrderIsOwn
<1>10. ~w.found => ActiveUpTo(a, w.delta)
  <2>1. ASSUME ~w.found, NEW e \in Int, SearchOrder(e) <= SearchOrder(w.delta), IsShown(a, e)
        PROVE  a.base + e \in a.active
    <3>1. CASE SearchOrder(e) = SearchOrder(w.delta)
      BY <1>3, <1>9, <2>1, <3>1
    <3>2. CASE SearchOrder(e) # SearchOrder(w.delta)
      <4>1. SearchOrder(e) < SearchOrder(w.delta)
        BY <1>5, <1>6, <2>1, <3>2
      <4> QED
        BY <1>8, <2>1, <4>1 DEF ActiveBefore
    <3> QED
      BY <3>1, <3>2
  <2> QED
    BY <2>1 DEF ActiveUpTo
<1>11. ASSUME w.topReached, NEW e \in Int, e >= w.delta, e >= 0 - w.delta
       PROVE  a.base + e >= a.count
  <2>1. CASE s.topReached
    <3>1. e >= s.delta /\ e >= 0 - s.delta
      BY <1>2, <1>4, <1>5, <1>11
    <3> QED
      BY <1>2, <2>1, <3>1 DEF SearchGood
  <2>2. CASE w.delta > 0 /\ a.base + w.delta >= a.count
    BY <1>2, <1>5, <1>11, <2>2
  <2> QED
    BY <1>3, <1>11, <2>1, <2>2
<1>12. ASSUME w.bottomReached, NEW e \in Int, e <= w.delta, e <= 0 - w.delta
       PROVE  a.base + e < 0
  <2>1. CASE s.bottomReached
    <3>1. e <= s.delta /\ e <= 0 - s.delta
      BY <1>2, <1>4, <1>5, <1>12
    <3> QED
      BY <1>2, <2>1, <3>1 DEF SearchGood
  <2>2. CASE w.delta < 0 /\ a.base + w.delta < 0
    BY <1>2, <1>5, <1>12, <2>2
  <2> QED
    BY <1>3, <1>12, <2>1, <2>2
<1>13. SearchGood(a, w)
  BY <1>3, <1>8, <1>10, <1>11, <1>12 DEF SearchGood
<1>14. ASSUME ~IsSearchOver(w) PROVE SearchGoesOn(a, w, i)
  <2>1. SearchOrder(w.delta) >= i /\ i - 1 <= 2 * a.count
    BY <1>2, <1>3, <1>5, <1>6 DEF SearchGoesOn
  <2>2. ~(w.topReached /\ w.bottomReached)
    BY <1>14 DEF IsSearchOver
  <2>3. i <= 2 * a.count
    <3> SUFFICES ASSUME i - 1 = 2 * a.count PROVE FALSE
      BY <1>2, <2>1
    <3>1. SearchOrder(s.delta) >= 2 * a.count /\ i - 1 > 0
      BY <1>2 DEF SearchGoesOn
    <3>2. CASE s.delta > 0
      <4>1. s.delta >= a.count
        BY <1>2, <3>1, <3>2 DEF SearchOrder
      <4>2. s.topReached
        BY <1>2, <3>1, <3>2, <4>1 DEF SearchGoesOn
      <4>3. w.delta = 0 - s.delta
        BY <1>2, <1>4, <3>2, <4>2
      <4> QED
        BY <1>2, <1>3, <2>2, <4>1, <4>2, <4>3
    <3>3. CASE s.delta < 0
      <4>1. 0 - s.delta >= a.count
        BY <1>2, <3>1, <3>3 DEF SearchOrder
      <4>2. s.bottomReached
        BY <1>2, <3>1, <3>3, <4>1 DEF SearchGoesOn
      <4>3. w.delta = 1 - s.delta
        BY <1>2, <1>4, <3>3, <4>2
      <4> QED
        BY <1>2, <1>3, <2>2, <4>1, <4>2, <4>3
    <3>4. CASE s.delta = 0
      BY <1>2, <3>1, <3>4 DEF SearchOrder
    <3> QED
      BY <1>2, <3>2, <3>3, <3>4
  <2> QED
    BY <1>3, <2>1, <2>3 DEF SearchGoesOn
<1> QED
  BY <1>1, <1>13, <1>14 DEF SearchIn

\* The loop of findNextInactiveDelta().
SearchStart(a) ==
    [delta |-> a.delta, topReached |-> FALSE, bottomReached |-> FALSE, found |-> FALSE]

SearchTurn(a, s) == IF IsSearchOver(s) THEN s ELSE SearchNext(a, s)

SearchLoop(f, a) ==
    f = [i \in 0..2 * a.count + 2 |-> IF i = 0 THEN SearchStart(a)
                                      ELSE IF IsSearchOver(f[i - 1]) THEN f[i - 1]
                                      ELSE SearchNext(a, f[i - 1])]

\* The search is over within the turns it is given, and has left nothing out.
LEMMA SearchIsOver ==
    ASSUME NEW a \in ActivatorRecord, a.base < a.count, ActiveUpTo(a, a.delta)
    PROVE  SearchGood(a, Search(a)) /\ IsSearchOver(Search(a))
<1> DEFINE m == 2 * a.count + 2
           G == [i \in 0..m |-> {s \in SearchRecord : SearchIn(a, s, i)}]
           step == [i \in 1..m |-> [s \in G[i - 1] |-> SearchTurn(a, s)]]
           after == CHOOSE f : SearchLoop(f, a)
<1>1. m \in Nat /\ a.count \in Nat /\ a.base \in Nat /\ a.delta \in Int
  BY DEF ActivatorRecord
<1>2. \A i \in 0..m : \A s : s \in G[i] <=> SearchIn(a, s, i)
  BY DEF SearchIn, SearchGood
<1>3. Search(a) = after[m]
  BY Zenon DEF Search, SearchLoop, SearchStart
<1>4. m = 2 * a.count + 2
  OBVIOUS
<1> HIDE DEF after, G, m
<1>5. ASSUME NEW i \in 1..m, NEW s, SearchIn(a, s, i - 1)
      PROVE  SearchIn(a, SearchTurn(a, s), i)
  <2>1. CASE IsSearchOver(s)
    BY <1>5, <2>1 DEF SearchIn, SearchTurn
  <2>2. CASE ~IsSearchOver(s)
    <3>1. i \in Nat /\ i > 0
      BY <1>1
    <3>2. SearchIn(a, SearchNext(a, s), i)
      BY <1>5, <2>2, <3>1, SearchInRound
    <3> QED
      BY <2>2, <3>2 DEF SearchTurn
  <2> QED
    BY <2>1, <2>2
<1>6. ASSUME NEW i \in 1..m PROVE step[i] \in [G[i - 1] -> G[i]]
  <2>1. i \in 0..m /\ i - 1 \in 0..m
    BY <1>1
  <2>2. \A s \in G[i - 1] : SearchTurn(a, s) \in G[i]
    BY <1>2, <1>5, <2>1
  <2> QED
    BY <2>2
<1>7. SearchStart(a) \in G[0]
  <2>1. PICK s : s = SearchStart(a)
    OBVIOUS
  <2>2. /\ s \in SearchRecord /\ s.delta = a.delta /\ ~s.found
        /\ ~s.topReached /\ ~s.bottomReached
    BY <1>1, <2>1 DEF SearchStart, SearchRecord
  <2>3. SearchGood(a, s)
    BY <2>2 DEF SearchGood
  <2>4. SearchGoesOn(a, s, 0)
    BY <1>1, <2>2 DEF SearchGoesOn, SearchOrder
  <2>5. SearchIn(a, s, 0)
    BY <2>3, <2>4 DEF SearchIn
  <2> QED
    BY <1>1, <1>2, <2>1, <2>5
<1>8. ASSUME NEW i \in 1..m, NEW s \in G[i - 1] PROVE step[i][s] = SearchTurn(a, s)
  <2>1. step[i] = [x \in G[i - 1] |-> SearchTurn(a, x)]
    OBVIOUS
  <2> QED
    BY <2>1
<1> HIDE DEF step
<1>9. PICK f : f = [i \in 0..m |-> f[i]] /\ Rounds(f, m, SearchStart(a), step)
  BY <1>1, <1>6, <1>7, GoodLoopRuns
<1>10. f[0] = SearchStart(a) /\ \A i \in 1..m : f[i] = step[i][f[i - 1]]
  BY <1>1, <1>9, RoundsAt
<1>11. \A i \in 0..m : f[i] \in G[i]
  <2>1. f[0] \in G[0]
    BY <1>7, <1>10
  <2>2. \A i \in 1..m : f[i - 1] \in G[i - 1] => f[i] \in G[i]
    BY <1>6, <1>10
  <2> QED
    BY <1>1, <2>1, <2>2, LoopStays
<1>12. ASSUME NEW i \in 0..m
       PROVE  f[i] = IF i = 0 THEN SearchStart(a)
                     ELSE IF IsSearchOver(f[i - 1]) THEN f[i - 1] ELSE SearchNext(a, f[i - 1])
  <2>1. i # 0 => i \in 1..m /\ i - 1 \in 0..m
    BY <1>1
  <2> QED
    BY <1>8, <1>10, <1>11, <2>1 DEF SearchTurn
<1>13. f = [i \in 0..m |-> IF i = 0 THEN SearchStart(a)
                           ELSE IF IsSearchOver(f[i - 1]) THEN f[i - 1]
                           ELSE SearchNext(a, f[i - 1])]
  BY <1>9, <1>12
<1>14. SearchLoop(f, a)
  BY <1>13, <1>4 DEF SearchLoop
<1>15. SearchLoop(after, a)
  BY <1>14 DEF after
<1>16. ASSUME NEW i \in 0..m
       PROVE  after[i] = IF i = 0 THEN SearchStart(a) ELSE SearchTurn(a, after[i - 1])
  <2>1. after = [k \in 0..m |-> IF k = 0 THEN SearchStart(a)
                                ELSE IF IsSearchOver(after[k - 1]) THEN after[k - 1]
                                ELSE SearchNext(a, after[k - 1])]
    BY <1>4, <1>15 DEF SearchLoop
  <2>2. after[i] = IF i = 0 THEN SearchStart(a)
                   ELSE IF IsSearchOver(after[i - 1]) THEN after[i - 1]
                   ELSE SearchNext(a, after[i - 1])
    BY <2>1
  <2> QED
    BY <2>2 DEF SearchTurn
<1>17. \A i \in 0..m : after[i] \in G[i]
  <2>1. after[0] \in G[0]
    BY <1>1, <1>7, <1>16
  <2>2. ASSUME NEW i \in 1..m, after[i - 1] \in G[i - 1] PROVE after[i] \in G[i]
    <3>1. i \in 0..m /\ i - 1 \in 0..m /\ i # 0
      BY <1>1
    <3> QED
      BY <1>2, <1>5, <1>16, <2>2, <3>1
  <2> QED
    BY <1>1, <2>1, <2>2, LoopStays
<1>18. SearchIn(a, Search(a), m)
  BY <1>1, <1>2, <1>3, <1>17
<1>19. ~(m <= 2 * a.count)
  BY <1>1, <1>4
<1> QED
  BY <1>18, <1>19 DEF SearchIn, SearchGoesOn

\* What findNextInactiveDelta() finds.
LEMMA NearestIsFound ==
    ASSUME NEW a \in ActivatorRecord, a.base < a.count, ActiveUpTo(a, a.delta),
           NEW r, r = FindNextInactiveDelta(a)
    PROVE  \/ /\ r.finished
              /\ \A e \in Int : IsShown(a, e) => a.base + e \in a.active
           \/ /\ ~r.finished /\ r.delta \in Int /\ IsShown(a, r.delta)
              /\ a.base + r.delta \notin a.active /\ ActiveBefore(a, r.delta)
<1>1. PICK s : s = Search(a)
  OBVIOUS
<1>2. SearchGood(a, s) /\ IsSearchOver(s) /\ s \in SearchRecord /\ s.delta \in Int
  BY <1>1, SearchIsOver DEF SearchGood, SearchRecord
<1>3. a.count # 0 /\ ~(a.base >= a.count) /\ a.base \in Nat /\ a.count \in Nat
  BY DEF ActivatorRecord
<1>4. r = IF s.found THEN [finished |-> FALSE, delta |-> s.delta]
          ELSE [finished |-> TRUE, delta |-> 0]
  BY <1>1, <1>3 DEF FindNextInactiveDelta
<1>5. CASE s.found
  BY <1>2, <1>4, <1>5 DEF SearchGood
<1>6. CASE ~s.found
  <2>1. ASSUME NEW e \in Int, IsShown(a, e) PROVE a.base + e \in a.active
    <3>1. s.topReached /\ s.bottomReached
      BY <1>2, <1>6 DEF IsSearchOver
    <3>2. ~(e >= s.delta /\ e >= 0 - s.delta)
      <4>1. ~(a.base + e >= a.count)
        BY <1>3, <2>1 DEF IsShown
      <4> QED
        BY <1>2, <3>1, <4>1 DEF SearchGood
    <3>3. ~(e <= s.delta /\ e <= 0 - s.delta)
      <4>1. ~(a.base + e < 0)
        BY <1>3, <2>1 DEF IsShown
      <4> QED
        BY <1>2, <3>1, <4>1 DEF SearchGood
    <3>4. SearchOrder(e) <= SearchOrder(s.delta)
      BY <1>2, <3>2, <3>3 DEF SearchOrder
    <3> QED
      BY <1>2, <1>6, <2>1, <3>4 DEF SearchGood, ActiveUpTo
  <2> QED
    BY <1>4, <1>6, <2>1
<1> QED
  BY <1>5, <1>6

\* While the timer runs, what the search has passed has its content.
ActivatorGood(a) ==
    /\ a \in ActivatorRecord
    /\ a.timer => a.running /\ a.base < a.count /\ ActiveUpTo(a, a.delta)

LEMMA RestartedIsGood ==
    ASSUME NEW a \in ActivatorRecord
    PROVE  ActivatorGood(Restarted(a))
<1>1. PICK b : b = [a EXCEPT !.active = @ \cup {a.base}, !.delta = 0, !.running = TRUE]
  OBVIOUS
<1>2. PICK t \in BOOLEAN : t <=> ~FindNextInactiveDelta(b).finished
  OBVIOUS
<1>3. PICK w : w = Restarted(a)
  OBVIOUS
<1>4. /\ b \in ActivatorRecord /\ b.base = a.base /\ b.count = a.count /\ b.delta = 0
      /\ b.active = a.active \cup {a.base} /\ b.running
  <2>1. a.base \in Nat /\ a.active \in SUBSET Int
    BY DEF ActivatorRecord
  <2>2. PICK active : active = a.active \cup {a.base}
    OBVIOUS
  <2>3. PICK zero \in Int : zero = 0
    OBVIOUS
  <2>4. PICK yes \in BOOLEAN : yes = TRUE
    OBVIOUS
  <2>5. b = [a EXCEPT !.active = active, !.delta = zero, !.running = yes]
    BY <1>1, <2>2, <2>3, <2>4
  <2>6. active \in SUBSET Int
    BY <2>1, <2>2
  <2>7. /\ b \in ActivatorRecord /\ b.base = a.base /\ b.count = a.count /\ b.delta = zero
        /\ b.active = active /\ b.running = yes
    BY <2>5, <2>6 DEF ActivatorRecord
  <2> QED
    BY <2>2, <2>7, <2>3, <2>4
<1>5. w = [b EXCEPT !.timer = t]
  <2>1. w = [b EXCEPT !.timer = ~FindNextInactiveDelta(b).finished]
    BY <1>1, <1>3 DEF Restarted
  <2>2. t = ~FindNextInactiveDelta(b).finished
    BY <1>2, Zenon
  <2> QED
    BY <2>1, <2>2
<1>6. /\ w \in ActivatorRecord /\ w.base = a.base /\ w.count = a.count /\ w.delta = 0
      /\ w.active = b.active /\ w.running /\ (w.timer <=> t)
  BY <1>4, <1>5 DEF ActivatorRecord
<1>7. ASSUME t PROVE w.base < w.count
  <2>1. ~(b.count = 0 \/ b.base >= b.count)
    BY <1>2, <1>7 DEF FindNextInactiveDelta
  <2> QED
    BY <1>4, <1>6, <2>1 DEF ActivatorRecord
<1>8. ActiveUpTo(w, 0)
  <2>1. \A e \in Int : SearchOrder(e) <= SearchOrder(0) => e = 0
    BY DEF SearchOrder
  <2>2. w.base + 0 \in w.active
    BY <1>4, <1>6 DEF ActivatorRecord
  <2> QED
    BY <2>1, <2>2 DEF ActiveUpTo
<1>9. ActivatorGood(w)
  BY <1>6, <1>7, <1>8 DEF ActivatorGood
<1> QED
  BY <1>3, <1>9

LEMMA TimeoutTakesNearest ==
    ASSUME ActivatorGood(activator), OnTimeout
    PROVE  /\ ActivatorGood(activator')
           /\ LET a == activator
                  missing == (0..a.count - 1) \ a.active
                  near(i) == IF i > a.base THEN i - a.base ELSE a.base - i
              IN  IF activator'.timer
                  THEN \E i \in missing : /\ i \in activator'.active
                                          /\ \A j \in missing : near(i) <= near(j)
                  ELSE missing = {} \/ a.base >= a.count
<1>1. PICK a : a = activator
  OBVIOUS
<1>2. PICK w : w = activator'
  OBVIOUS
<1>3. PICK r : r = FindNextInactiveDelta(a)
  OBVIOUS
<1>4. /\ a \in ActivatorRecord /\ a.timer /\ a.running /\ a.base < a.count
      /\ ActiveUpTo(a, a.delta) /\ a.base \in Nat /\ a.count \in Nat /\ a.active \in SUBSET Int
  BY <1>1 DEF OnTimeout, ActivatorGood, ActivatorRecord
<1>5. w = IF r.finished THEN [a EXCEPT !.timer = FALSE]
          ELSE [a EXCEPT !.active = a.active \cup {a.base + r.delta}, !.delta = r.delta]
  BY <1>1, <1>2, <1>3 DEF OnTimeout
<1> DEFINE missing == (0..a.count - 1) \ a.active
           near(i) == IF i > a.base THEN i - a.base ELSE a.base - i
<1>6. CASE r.finished /\ \A e \in Int : IsShown(a, e) => a.base + e \in a.active
  <2>1. w = [a EXCEPT !.timer = FALSE]
    BY <1>5, <1>6
  <2>2. w \in ActivatorRecord /\ ~w.timer
    BY <1>4, <2>1 DEF ActivatorRecord
  <2>3. ASSUME NEW i \in 0..a.count - 1 PROVE i \in a.active
    <3>1. i - a.base \in Int /\ IsShown(a, i - a.base) /\ a.base + (i - a.base) = i
      BY <1>4 DEF IsShown
    <3> QED
      BY <1>6, <3>1
  <2>4. missing = {}
    BY <2>3
  <2> QED
    BY <1>1, <1>2, <2>2, <2>4 DEF ActivatorGood
<1>7. CASE /\ ~r.finished /\ r.delta \in Int /\ IsShown(a, r.delta)
           /\ a.base + r.delta \notin a.active /\ ActiveBefore(a, r.delta)
  <2>1. PICK d \in Int : d = r.delta
    BY <1>7
  <2>2. PICK i \in Int : i = a.base + d
    BY <1>4
  <2>3. PICK active : active = a.active \cup {i}
    OBVIOUS
  <2>4. w = [a EXCEPT !.active = active, !.delta = d]
    BY <1>5, <1>7, <2>1, <2>2, <2>3
  <2>5. active \in SUBSET Int
    BY <1>4, <2>3
  <2>6. /\ w \in ActivatorRecord /\ w.active = active /\ w.delta = d /\ w.timer = a.timer
        /\ w.running = a.running /\ w.base = a.base /\ w.count = a.count
    BY <1>4, <2>4, <2>5 DEF ActivatorRecord
  <2>7. /\ IsShown(a, d) /\ i \notin a.active /\ ActiveBefore(a, d) /\ i \in missing
    BY <1>4, <1>7, <2>1, <2>2 DEF IsShown
  <2>8. ActiveUpTo(w, d)
    <3>1. ASSUME NEW e \in Int, SearchOrder(e) <= SearchOrder(d), IsShown(w, e)
          PROVE  w.base + e \in w.active
      <4>1. IsShown(a, e)
        BY <2>6, <3>1 DEF IsShown
      <4>2. CASE e = d
        BY <2>2, <2>3, <2>6, <4>2
      <4>3. CASE e # d
        <5>1. SearchOrder(e) < SearchOrder(d)
          BY <3>1, <4>3, OrderIsOwn
        <5> QED
          BY <2>3, <2>6, <2>7, <4>1, <5>1 DEF ActiveBefore
      <4> QED
        BY <4>2, <4>3
    <3> QED
      BY <3>1 DEF ActiveUpTo
  <2>9. ActivatorGood(w)
    BY <1>4, <2>6, <2>8 DEF ActivatorGood
  <2>10. ASSUME NEW j \in missing PROVE near(i) <= near(j)
    <3>1. j \in Int /\ j - a.base \in Int /\ IsShown(a, j - a.base) /\ a.base + (j - a.base) = j
      BY <1>4 DEF IsShown
    <3>2. ~(SearchOrder(j - a.base) < SearchOrder(d))
      BY <2>7, <3>1 DEF ActiveBefore
    <3>3. PICK e \in Int : e = j - a.base
      BY <3>1
    <3>4. ~(SearchOrder(e) < SearchOrder(d))
      BY <3>2, <3>3
    <3>5. (IF d > 0 THEN d ELSE 0 - d) <= (IF e > 0 THEN e ELSE 0 - e)
      BY <3>4 DEF SearchOrder
    <3>6. near(i) = IF d > 0 THEN d ELSE 0 - d
      BY <1>4, <2>2
    <3>7. near(j) = IF e > 0 THEN e ELSE 0 - e
      BY <1>4, <3>1, <3>3
    <3> QED
      BY <3>5, <3>6, <3>7
  <2>11. w.timer /\ i \in missing /\ i \in w.active
    BY <1>4, <2>3, <2>6, <2>7
  <2> HIDE DEF missing, near
  <2>12. \E k \in missing : k \in w.active /\ \A j \in missing : near(k) <= near(j)
    BY <2>10, <2>11
  <2> QED
    BY <1>1, <1>2, <2>9, <2>11, <2>12 DEF missing, near
<1> QED
  BY <1>3, <1>4, <1>6, <1>7, NearestIsFound

LEMMA ActivatorStarts == ActivatorInit => ActivatorGood(activator)
<1> SUFFICES ASSUME ActivatorInit PROVE ActivatorGood(activator)
  OBVIOUS
<1>1. /\ activator \in ActivatorRecord /\ ~activator.timer
  BY DEF ActivatorInit, ActivatorRecord
<1> QED
  BY <1>1 DEF ActivatorGood

LEMMA RestartIfRunningIsGood ==
    ASSUME NEW a, ActivatorGood(a), NEW b \in ActivatorRecord,
           b.timer = a.timer, b.running = a.running
    PROVE  ActivatorGood(RestartIfRunning(b))
<1>1. CASE b.running
  BY <1>1, RestartedIsGood DEF RestartIfRunning
<1>2. CASE ~b.running
  <2>1. ~b.timer
    BY <1>2 DEF ActivatorGood
  <2> QED
    BY <1>2, <2>1 DEF RestartIfRunning, ActivatorGood
<1> QED
  BY <1>1, <1>2

LEMMA ActivatorStays ==
    ActivatorGood(activator) /\ [ActivatorNext]_activator => ActivatorGood(activator')
<1> SUFFICES ASSUME ActivatorGood(activator), [ActivatorNext]_activator
             PROVE  ActivatorGood(activator')
  OBVIOUS
<1>1. PICK a : a = activator
  OBVIOUS
<1>2. PICK w : w = activator'
  OBVIOUS
<1>3. ActivatorGood(a) /\ a \in ActivatorRecord
  BY <1>1 DEF ActivatorGood
<1>4. CASE RestartActivator
  BY <1>1, <1>3, <1>4, RestartedIsGood DEF RestartActivator
<1>5. CASE StopActivator
  <2>1. w = [a EXCEPT !.timer = FALSE]
    BY <1>1, <1>2, <1>5 DEF StopActivator
  <2>2. w \in ActivatorRecord /\ ~w.timer
    BY <1>3, <2>1 DEF ActivatorRecord
  <2> QED
    BY <1>2, <2>2 DEF ActivatorGood
<1>6. CASE ClearContent
  <2>1. PICK none \in SUBSET Int : none = {}
    OBVIOUS
  <2>2. PICK zero \in Int : zero = 0
    OBVIOUS
  <2>3. PICK no \in BOOLEAN : no = FALSE
    OBVIOUS
  <2>4. w = [a EXCEPT !.active = none, !.delta = zero, !.timer = no]
    BY <1>1, <1>2, <1>6, <2>1, <2>2, <2>3 DEF ClearContent
  <2>5. w \in ActivatorRecord /\ w.timer = no
    BY <1>3, <2>4 DEF ActivatorRecord
  <2>6. w \in ActivatorRecord /\ ~w.timer
    BY <2>3, <2>5
  <2> QED
    BY <1>2, <2>6 DEF ActivatorGood
<1>7. ASSUME NEW i \in 0..MostMenus - 1, SetBaseIndex(i) PROVE ActivatorGood(w)
  <2>1. PICK b : b = [a EXCEPT !.base = i]
    OBVIOUS
  <2>2. i \in Nat
    BY IndicatorAssumption
  <2>3. b \in ActivatorRecord /\ b.timer = a.timer /\ b.running = a.running
    BY <1>3, <2>1, <2>2 DEF ActivatorRecord
  <2>4. w = RestartIfRunning(b)
    BY <1>1, <1>2, <1>7, <2>1 DEF SetBaseIndex
  <2> QED
    BY <1>3, <2>3, <2>4, RestartIfRunningIsGood
<1>8. ASSUME NEW n \in 0..MostMenus, SetCount(n) PROVE ActivatorGood(w)
  <2>1. PICK b : b = [a EXCEPT !.count = n]
    OBVIOUS
  <2>2. n \in Nat
    BY IndicatorAssumption
  <2>3. b \in ActivatorRecord /\ b.timer = a.timer /\ b.running = a.running
    BY <1>3, <2>1, <2>2 DEF ActivatorRecord
  <2>4. w = RestartIfRunning(b)
    BY <1>1, <1>2, <1>8, <2>1 DEF SetCount
  <2> QED
    BY <1>3, <2>3, <2>4, RestartIfRunningIsGood
<1>9. CASE OnTimeout
  BY <1>9, TimeoutTakesNearest
<1>10. CASE UNCHANGED activator
  BY <1>10
<1> QED
  BY <1>2, <1>4, <1>5, <1>6, <1>7, <1>8, <1>9, <1>10 DEF ActivatorNext

\* When the activator's timer ends by itself every menu has its content, and a menu it
\* takes is one of the nearest without (MenuContentActivator::findNextInactiveDelta).
THEOREM NoMenuIsLeftOut == ActivatorSpec => NoMenuLeftOut
<1> DEFINE Good == ActivatorGood(activator)
           Taken == LET a == activator
                        missing == (0..a.count - 1) \ a.active
                        near(i) == IF i > a.base THEN i - a.base ELSE a.base - i
                    IN  IF activator'.timer
                        THEN \E i \in missing : /\ i \in activator'.active
                                                /\ \A j \in missing : near(i) <= near(j)
                        ELSE missing = {} \/ a.base >= a.count
<1>1. ActivatorInit => Good
  BY ActivatorStarts
<1>2. Good /\ [ActivatorNext]_activator => Good'
  BY ActivatorStays
<1>3. Good => (OnTimeout => Taken)
  BY TimeoutTakesNearest
<1>4. NoMenuLeftOut <=> [][OnTimeout => Taken]_activator
  BY Zenon DEF NoMenuLeftOut
<1> HIDE DEF Taken, Good
<1>5. Good /\ [ActivatorNext]_activator => [OnTimeout => Taken]_activator
  BY <1>3
<1> QED
  BY <1>1, <1>2, <1>4, <1>5, PTL DEF ActivatorSpec

=============================================================================
