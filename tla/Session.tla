------------------------------- MODULE Session -------------------------------
(***************************************************************************)
(* The session of the shell: DBusUnitySessionService with the two screen-  *)
(* saver wrappers and the end-of-session dialog, which follow logind, and  *)
(* OrientationLock with the orientation that OrientedShell keeps.  logind, *)
(* the display manager and GSettings are external: a property changes at   *)
(* any time, and its signal comes later, with the value or without.        *)
(***************************************************************************)
EXTENDS Naturals, Sequences

CONSTANTS
    MostSignals,      \* bound: signals of logind, and calls, that have not arrived
    Orientations,     \* of the screen
    Portrait          \* the orientation that is saved first

VARIABLES
    session,          \* the service and what logind has
    orientation       \* OrientationLock and OrientedShell

-----------------------------------------------------------------------------
SessionInit ==
    session = [step |-> "init",        \* or "check", "up", "unlinked"
               logindActive |-> TRUE, wire |-> <<>>,
               isSessionActive |-> TRUE, answered |-> TRUE,
               told |-> {},            \* what ActiveChanged said last
               timer |-> FALSE,        \* screensaverActiveTimer
               idleHint |-> {},        \* what SetIdleHint said last
               inhibited |-> FALSE,
               calls |-> <<>>,         \* of the wrappers, to the session service
               emitted |-> "none"]     \* by the session service, last

\* setupSystemdInhibition(): once it is granted it is kept.
Inhibit(s, granted) == [s EXCEPT !.inhibited = @ \/ granted]

\* logind says whether the session is active, or fails to.
CheckActive(s, answers) ==
    [s EXCEPT !.answered = answers,
              !.isSessionActive = IF answers THEN s.logindActive ELSE @]

\* init(): from here on logind's signals are heard.
InitSession(linked, granted) ==
    /\ session.step = "init"
    /\ session' = IF linked THEN Inhibit([session EXCEPT !.step = "check"], granted)
                  ELSE [session EXCEPT !.step = "unlinked"]

CheckAtStart(answers) ==
    /\ session.step = "check"
    /\ session' = CheckActive([session EXCEPT !.step = "up"], answers)

\* The session comes to the foreground or leaves it.
LogindChanges(signal) ==
    /\ Len(session.wire) < MostSignals
    /\ session' = [session EXCEPT
         !.logindActive = ~@,
         !.wire = IF session.step \in {"check", "up"}
                  THEN Append(@, [valued |-> signal = "valued", active |-> ~session.logindActive])
                  ELSE @]

\* Mutant of NewValue: a signal without the value is taken for no news.
NewValueIfSent(s, m, answers) == IF m.valued THEN [s EXCEPT !.isSessionActive = m.active] ELSE s

\* A signal that only says that the value is stale makes the service ask for it.
NewValue(s, m, answers) ==
    IF m.valued THEN [s EXCEPT !.isSessionActive = m.active, !.answered = TRUE]
    ELSE CheckActive(s, answers)

SetIdleHint(s, idle) == [s EXCEPT !.idleHint = {idle}]

OnPropertiesChanged(answers) ==
    LET s == NewValue([session EXCEPT !.wire = Tail(@)], Head(session.wire), answers) IN
    /\ session.step = "up" /\ session.wire # <<>>
    /\ session' = SetIdleHint([s EXCEPT !.told = {~s.isSessionActive},
                                        !.timer = ~s.isSessionActive], ~s.isSessionActive)

OnResuming(granted) ==
    /\ session.step = "up"
    /\ session' = Inhibit(session, granted)

SimulateUserActivity ==
    /\ session.step = "up"
    /\ session' = SetIdleHint(session, FALSE)

\* screensaverActiveTime() is not 0 while this holds.
ScreensaverCounts(s) == ~s.isSessionActive /\ s.timer

\* A wrapper or the end-of-session dialog calls the service over the bus.
PerformAsyncUnityCall(method) ==
    /\ session.step = "up" /\ Len(session.calls) < MostSignals
    /\ session' = [session EXCEPT !.calls = Append(@, method)]

\* Lock() waits for the display manager, which may refuse.
UnityCallArrives(granted) ==
    /\ session.calls # <<>>
    /\ session' = [session EXCEPT
         !.calls = Tail(@),
         !.emitted = CASE Head(session.calls) # "Lock" -> Head(session.calls)
                       [] Head(session.calls) = "Lock" /\ granted -> "Locked"
                       [] OTHER -> @]

SessionNext ==
    \/ \E linked, granted \in BOOLEAN : InitSession(linked, granted)
    \/ \E answers \in BOOLEAN : CheckAtStart(answers) \/ OnPropertiesChanged(answers)
    \/ \E signal \in {"valued", "invalidated"} : LogindChanges(signal)
    \/ \E granted \in BOOLEAN : OnResuming(granted) \/ UnityCallArrives(granted)
    \/ SimulateUserActivity
    \/ \E method \in {"Lock", "RequestLogout", "RequestReboot", "RequestShutdown"} :
          PerformAsyncUnityCall(method)

SessionSpec == SessionInit /\ [][SessionNext]_session

-----------------------------------------------------------------------------
(***************************************************************************)
(* OrientationLock reads a setting, whose changes are signalled later;     *)
(* OrientedShell keeps the orientation it had when it was locked.          *)
(***************************************************************************)
OrientationInit ==
    \E setting \in BOOLEAN, physical \in Orientations :
        orientation = [ready |-> FALSE, setting |-> setting, signalled |-> FALSE,
                       enabled |-> setting, saved |-> Portrait,
                       physical |-> physical, shown |-> physical]

\* The bindings of OrientedShell are evaluated in either order, so that being
\* locked from the start may or may not save the orientation there is.
OrientedShellCompleted(saved) ==
    /\ ~orientation.ready
    /\ saved \in IF orientation.enabled THEN {orientation.saved, orientation.physical}
                 ELSE {orientation.saved}
    /\ orientation' = [orientation EXCEPT
         !.ready = TRUE, !.saved = saved,
         !.shown = IF orientation.enabled THEN saved ELSE orientation.physical]

RotationLockSet ==
    orientation' = [orientation EXCEPT !.setting = ~@, !.signalled = TRUE]

OnPhysicalOrientationChanged(o) ==
    /\ orientation.ready /\ o # orientation.physical
    /\ orientation' = [orientation EXCEPT !.physical = o,
                                          !.shown = IF orientation.enabled THEN @ ELSE o]

OnOrientationLockedChanged(v) ==
    IF v.enabled THEN [v EXCEPT !.saved = v.physical]
    ELSE [v EXCEPT !.shown = v.physical]

\* onEnabledChanged(): two changes in a row are none.
OnEnabledChanged ==
    LET v == [orientation EXCEPT !.signalled = FALSE, !.enabled = orientation.setting] IN
    /\ orientation.ready /\ orientation.signalled
    /\ orientation' = IF v.enabled = orientation.enabled THEN v
                      ELSE OnOrientationLockedChanged(v)

OrientationNext ==
    \/ \E saved \in Orientations : OrientedShellCompleted(saved)
    \/ RotationLockSet
    \/ \E o \in Orientations : OnPhysicalOrientationChanged(o)
    \/ OnEnabledChanged

OrientationSpec == OrientationInit /\ [][OrientationNext]_orientation

-----------------------------------------------------------------------------
(***************************************************************************)
(* Properties.                                                             *)
(***************************************************************************)
\* A change of the session at any moment, while the service starts too, is known to
\* it once logind's signals have arrived, and the screensavers have been told the
\* same, unless logind failed to answer (checkActive, onPropertiesChanged).
SessionActiveKnown ==
    session.step = "up" /\ session.wire = <<>> /\ session.answered =>
        /\ session.isSessionActive = session.logindActive
        /\ session.told # {} => /\ session.told = {~session.logindActive}
                                /\ ScreensaverCounts(session) = ~session.logindActive

\* While the rotation is locked the shell keeps the orientation that is saved, and
\* once it is unlocked that of the screen, however the setting and the screen change
\* meanwhile (onEnabledChanged, OrientedShell.qml).
OrientationHeld ==
    orientation.ready =>
        /\ orientation.shown = IF orientation.enabled THEN orientation.saved
                               ELSE orientation.physical
        /\ ~orientation.signalled => orientation.enabled = orientation.setting

\* The service follows logind and the shell the rotation lock: neither keeps what it
\* read before a change it was told of.
SessionFollowed == SessionActiveKnown /\ OrientationHeld

==============================================================================
