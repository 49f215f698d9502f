---------------------------- MODULE InputDevices ----------------------------
(***************************************************************************)
(* Input: QInputDeviceInfo, which lists the input devices that udev knows, *)
(* with the list model QML has of it; HomeKeyWatcher, which tells a tap of *)
(* the home key from one in the middle of a touch; InputWatcher, which     *)
(* tells whether its target is pressed, by touches MouseTouchAdaptor may   *)
(* have made of the mouse.  udev, the X server and Qt's event delivery are *)
(* external.                                                                *)
(***************************************************************************)
EXTENDS Integers, Sequences, FiniteSets, SequencesExt

CONSTANTS
    DevicePaths,      \* nodes of udev's subsystem "input"
    EventPaths,       \* those that have "event" in their name
    InputPaths,       \* those that have "input" in it; a mouse0 or js0 has neither
    MostDevices,      \* bound: listed devices and udev messages under way
    Quiet,            \* msecsWithoutTouches, in ticks
    Targets, NoTarget \* of an InputWatcher

ASSUME InputAssumption ==
    /\ IsFiniteSet(DevicePaths)
    /\ EventPaths \subseteq DevicePaths /\ InputPaths \subseteq DevicePaths \ EventPaths
    /\ MostDevices \in Nat /\ Quiet \in Nat
    /\ NoTarget \notin Targets

VARIABLES
    devices,          \* QInputDeviceInfo and QDeclarativeInputDeviceInfo
    homeKey,          \* HomeKeyWatcher
    watcher           \* InputWatcher and MouseTouchAdaptor

-----------------------------------------------------------------------------
(***************************************************************************)
(* Devices.  A QInputDevice is a path and a number of its own, for a path  *)
(* can be listed twice: udev is monitored before its devices are scanned.  *)
(* early and reported look back: the paths that ever arrived between the   *)
(* two, and those whose last arrival udev's monitor has told.              *)
(***************************************************************************)
DevicesInit ==
    \E plugged \in SUBSET DevicePaths :
        devices = [plugged |-> plugged, step |-> "created", messages |-> <<>>,
                   deviceList |-> <<>>, early |-> {}, reported |-> {},
                   inputDevices |-> <<>>, shown |-> <<>>]

RowOf(list, device) == CHOOSE i \in DOMAIN list : list[i] = device

\* Mutant of Placed: a device that is listed is left where it is.
PlacedOnce(v, newDevices, i) ==
    IF Contains(v.list, newDevices[i]) THEN [v EXCEPT !.shown[i] = v.list[i]]
    ELSE [list |-> InsertAt(v.list, i, newDevices[i]), shown |-> InsertAt(v.shown, i, newDevices[i])]

\* One turn of the loop of updateDeviceList(): the list and what a view shows.
Placed(v, newDevices, i) ==
    LET device == newDevices[i] IN
    CASE ~Contains(v.list, device) ->
            [list |-> InsertAt(v.list, i, device), shown |-> InsertAt(v.shown, i, device)]
      [] Contains(v.list, device) /\ RowOf(v.list, device) # i ->
            LET j == RowOf(v.list, device) IN
            [list |-> InsertAt(RemoveAt(v.list, j), i, device),
             shown |-> InsertAt(RemoveAt(v.shown, j), i, v.shown[j])]
      [] OTHER -> [v EXCEPT !.shown[i] = device]

\* updateDeviceList()
UpdateDeviceList(d) ==
    LET numNew == Len(d.deviceList)
        placed[i \in 0..numNew] ==
            IF i = 0 THEN [list |-> d.inputDevices, shown |-> d.shown]
            ELSE Placed(placed[i - 1], d.deviceList, i)
    IN  [d EXCEPT !.inputDevices = SubSeq(placed[numNew].list, 1, numNew),
                  !.shown = SubSeq(placed[numNew].shown, 1, numNew)]

\* addDevice(): the device is listed even if it cannot be opened.
AddDevice(d, path) ==
    LET n == CHOOSE k \in 1..Len(d.deviceList) + 1 : ~Contains(d.deviceList, [path |-> path, n |-> k])
    IN  UpdateDeviceList([d EXCEPT !.deviceList = Append(@, [path |-> path, n |-> n])])

\* removeDevice(): the loop goes on behind the row it took, which skips one.
RemoveDevice(d, path) ==
    LET left[i \in 0..Len(d.deviceList)] ==
            IF i = 0 THEN d
            ELSE IF /\ i \in DOMAIN left[i - 1].deviceList
                    /\ left[i - 1].deviceList[i].path = path
            THEN UpdateDeviceList([left[i - 1] EXCEPT !.deviceList = RemoveAt(@, i)])
            ELSE left[i - 1]
    IN  left[Len(d.deviceList)]

\* init(), 250 ms after the object was made: first udev is monitored,
MonitorUdev ==
    /\ devices.step = "created"
    /\ devices' = [devices EXCEPT !.step = "monitoring"]

\* then the event devices that there are now are added in some order.
Scanned(d, order) ==
    LET found[i \in 0..Len(order)] ==
            IF i = 0 THEN d ELSE AddDevice(found[i - 1], order[i])
    IN  found[Len(order)]

ScanUdev(order) ==
    /\ devices.step = "monitoring"
    /\ ToSet(order) = devices.plugged \cap EventPaths
    /\ devices' = UpdateDeviceList([Scanned(devices, order) EXCEPT !.step = "ready"])

\* A node comes or goes, and the monitor is told if there is one.
PlugDevice(path) ==
    LET arrives == path \notin devices.plugged
        told == devices.step # "created"
    IN  /\ Len(devices.messages) < MostDevices
        /\ devices' = [devices EXCEPT
              !.plugged = IF arrives THEN @ \cup {path} ELSE @ \ {path},
              !.messages = IF told THEN Append(@, [path |-> path, add |-> arrives]) ELSE @,
              !.reported = IF arrives /\ told THEN @ \cup {path} ELSE @ \ {path},
              !.early = IF arrives /\ devices.step = "monitoring" THEN @ \cup {path} ELSE @]

\* Unlike the scan the monitor only leaves out the nodes named input.
OnUDevChanges ==
    LET m == Head(devices.messages)
        d == [devices EXCEPT !.messages = Tail(@)]
        listed == m.path \notin InputPaths
    IN  /\ devices.step = "ready" /\ devices.messages # <<>>
        /\ m.add => Len(devices.deviceList) < MostDevices
        /\ devices' = CASE listed /\ m.add  -> AddDevice(d, m.path)
                        [] listed /\ ~m.add -> RemoveDevice(d, m.path)
                        [] OTHER            -> d

DevicesNext ==
    \/ MonitorUdev
    \/ \E order \in SetToSeqs(devices.plugged \cap EventPaths) : ScanUdev(order)
    \/ \E path \in DevicePaths : PlugDevice(path)
    \/ OnUDevChanges

DevicesSpec == DevicesInit /\ [][DevicesNext]_devices

-----------------------------------------------------------------------------
(***************************************************************************)
(* The home key, which sits below the screen, so that a thumb that touches *)
(* the screen may press it.  Time goes in ticks; a timer may time out      *)
(* late.  superDown and quietTap are the tap as the user makes it.         *)
(***************************************************************************)
HomeKeyInit ==
    homeKey = [beingTouched |-> FALSE, pressed |-> FALSE,
               sinceTouched |-> 0,        \* windowLastTouchedTimer
               timer |-> -1,              \* activationTimer: ticks it has run
               superDown |-> FALSE, quietTap |-> FALSE, activated |-> FALSE]

Tick ==
    /\ homeKey' = [homeKey EXCEPT
         !.sinceTouched = IF @ > Quiet THEN @ ELSE @ + 1,
         !.timer = IF @ \in 0..Quiet - 1 THEN @ + 1 ELSE @,
         !.activated = FALSE]

\* Mutant of StartsActivation: a touch that goes on does not matter.
StartsAnyway(h) == h.sinceTouched >= Quiet

StartsActivation(h) == ~h.beingTouched /\ h.sinceTouched >= Quiet

\* A press of the home key, or of another key.
KeyPressed(super, autoRepeat) ==
    LET starts == super /\ ~autoRepeat /\ StartsActivation(homeKey) IN
    /\ super => homeKey.superDown = autoRepeat
    /\ homeKey' = [homeKey EXCEPT
         !.pressed = TRUE, !.activated = FALSE,
         !.timer = IF starts THEN 0 ELSE @,
         !.superDown = @ \/ super,
         !.quietTap = IF super /\ ~autoRepeat
                      THEN ~homeKey.beingTouched /\ homeKey.sinceTouched >= Quiet ELSE @]

KeyReleased(super) ==
    /\ super => homeKey.superDown
    /\ homeKey' = [homeKey EXCEPT !.pressed = IF super THEN FALSE ELSE @, !.activated = FALSE,
                                  !.superDown = IF super THEN FALSE ELSE @]

WindowTouchBegin ==
    /\ ~homeKey.beingTouched
    /\ homeKey' = [homeKey EXCEPT !.timer = -1, !.beingTouched = TRUE,
                                  !.quietTap = FALSE, !.activated = FALSE]

WindowTouchEnd ==
    /\ homeKey.beingTouched
    /\ homeKey' = [homeKey EXCEPT !.beingTouched = FALSE, !.sinceTouched = 0, !.activated = FALSE]

EmitActivatedIfNoTouchesAround ==
    /\ homeKey.timer = Quiet
    /\ homeKey' = [homeKey EXCEPT
         !.timer = -1,
         !.activated = ~homeKey.pressed /\ ~homeKey.beingTouched
                          /\ homeKey.sinceTouched > Quiet]

HomeKeyNext ==
    \/ Tick
    \/ \E super, autoRepeat \in BOOLEAN : KeyPressed(super, autoRepeat)
    \/ \E super \in BOOLEAN : KeyReleased(super)
    \/ WindowTouchBegin
    \/ WindowTouchEnd
    \/ EmitActivatedIfNoTouchesAround

HomeKeySpec == HomeKeyInit /\ [][HomeKeyNext]_homeKey

-----------------------------------------------------------------------------
(***************************************************************************)
(* InputWatcher.  With MouseTouchAdaptor the left button is a finger.      *)
(* touchOn and mouseOn are what is pressed, which other targets may be.    *)
(***************************************************************************)
WatcherInit ==
    \E adapted \in BOOLEAN :
        watcher = [target |-> NoTarget, mousePressed |-> FALSE, touchPressed |-> FALSE,
                   adapted |-> adapted, leftButtonIsPressed |-> FALSE,
                   touchOn |-> NoTarget, mouseOn |-> NoTarget,
                   cancelled |-> FALSE]

SetTarget(target) ==
    /\ target # watcher.target
    /\ watcher' = [watcher EXCEPT !.target = target, !.mousePressed = FALSE,
                                  !.touchPressed = FALSE, !.cancelled = FALSE]

TouchBegins(w, t) ==
    [w EXCEPT !.touchOn = t, !.touchPressed = @ \/ t = w.target]

TouchEnds(w) ==
    [w EXCEPT !.touchOn = NoTarget,
              !.touchPressed = @ /\ w.touchOn # w.target,
              !.cancelled = @ /\ w.touchOn # w.target]

MouseBegins(w, t) ==
    [w EXCEPT !.mouseOn = t, !.mousePressed = @ \/ t = w.target]

MouseEnds(w) ==
    [w EXCEPT !.mouseOn = NoTarget, !.mousePressed = @ /\ w.mouseOn # w.target]

TouchTarget(t) ==
    /\ ~watcher.adapted /\ watcher.touchOn = NoTarget
    /\ watcher' = TouchBegins(watcher, t)

ReleaseTouch ==
    /\ ~watcher.adapted /\ watcher.touchOn # NoTarget
    /\ watcher' = TouchEnds(watcher)

\* The watcher does not know of QEvent::TouchCancel.
CancelTouch ==
    /\ watcher.touchOn # NoTarget /\ ~watcher.adapted
    /\ watcher' = [watcher EXCEPT !.touchOn = NoTarget,
                                  !.cancelled = @ \/ watcher.touchPressed]

\* Buttons: a press or release of another one is eaten or not looked at.
HandleButtonPress(t, left) ==
    /\ ~watcher.leftButtonIsPressed /\ watcher.mouseOn = NoTarget
    /\ watcher' = CASE ~left -> watcher
                    [] left /\ watcher.adapted ->
                         TouchBegins([watcher EXCEPT !.leftButtonIsPressed = TRUE], t)
                    [] OTHER -> MouseBegins(watcher, t)

HandleButtonRelease(left) ==
    /\ watcher.leftButtonIsPressed \/ watcher.mouseOn # NoTarget
    /\ watcher' = CASE ~left -> watcher
                    [] left /\ watcher.adapted ->
                         TouchEnds([watcher EXCEPT !.leftButtonIsPressed = FALSE])
                    [] OTHER -> MouseEnds(watcher)

WatcherNext ==
    \/ \E t \in Targets \cup {NoTarget} : SetTarget(t)
    \/ \E t \in Targets : TouchTarget(t)
    \/ ReleaseTouch
    \/ CancelTouch
    \/ \E t \in Targets, left \in BOOLEAN : HandleButtonPress(t, left)
    \/ \E left \in BOOLEAN : HandleButtonRelease(left)

WatcherSpec == WatcherInit /\ [][WatcherNext]_watcher

-----------------------------------------------------------------------------
(***************************************************************************)
(* Properties.                                                             *)
(***************************************************************************)
\* The devices there are, as far as one of the two filters lets them through: the scan
\* finds the event devices, the monitor tells of any other node as well (a mouse0) if it
\* arrives later, and of a node named input neither does.
Listable(d) == d.plugged \cap (EventPaths \cup (d.reported \ InputPaths))

\* An event device that arrived between monitoring and scanning is found both ways.
Twice(d) == d.early \cap EventPaths

\* However devices come and go while they are scanned and reported, the rows QML is
\* shown are those of the list, and once udev's messages have been read it lists what
\* can be listed, each path once.  Only an event device that has arrived between
\* monitoring and scanning may be listed twice, and stay behind when it goes
\* (init, onUDevChanges, updateDeviceList, removeDevice).
DevicesAreListed ==
    LET paths == {device.path : device \in ToSet(devices.deviceList)} IN
    /\ devices.inputDevices = devices.deviceList
    /\ devices.shown = devices.deviceList
    /\ \A i, j \in DOMAIN devices.deviceList :
          devices.deviceList[i].path = devices.deviceList[j].path /\ i # j =>
              devices.deviceList[i].path \in Twice(devices)
    /\ devices.step = "ready" /\ devices.messages = <<>> =>
          Listable(devices) \subseteq paths /\ paths \subseteq Listable(devices) \cup Twice(devices)

\* The home key is only taken for a tap if the screen was not touched for a while
\* before it was pressed, nor until it has been released and the time is over
\* (update, emitActivatedIfNoTouchesAround).
HomeKeyAlone ==
    homeKey.activated => homeKey.quietTap /\ ~homeKey.superDown

\* The target does not stay pressed: it counts as pressed only while a finger or the
\* left button is down on it, whatever else is pressed and whichever target comes
\* next; a touch that Qt cancelled is the exception (eventFilter, setTarget).
PressIsHeld ==
    /\ watcher.mousePressed => watcher.mouseOn = watcher.target
    /\ watcher.touchPressed => watcher.touchOn = watcher.target \/ watcher.cancelled

\* A tap of the home key and a press of the target are what the user did.
InputIsRead == HomeKeyAlone /\ PressIsHeld

==============================================================================
