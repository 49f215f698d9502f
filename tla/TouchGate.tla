------------------------------ MODULE TouchGate ------------------------------
(***************************************************************************)
(* The touch gate of plugins/Ubuntu/Gestures in front of an application's  *)
(* surface, with its dispatcher.  The gate asks the touch registry for     *)
(* every touch that lands on it and holds the touch events back until it   *)
(* owns all touches in them; the dispatcher hands them to the target item, *)
(* as touches or, if the item does not take those, as a mouse.             *)
(*                                                                         *)
(* The registry appears by its promise (TouchRegistry.tla): it answers     *)
(* each request once, at once or later.  Mir gives every touch an id of    *)
(* its own: here an id comes back when nobody remembers it.  Stationary    *)
(* touch points count as moved.                                            *)
(***************************************************************************)
EXTENDS Naturals, Sequences, Selection

CONSTANTS
    TouchIds,
    NoTouch,    \* -1
    MaxStored   \* bound: events the gate may hold back

ASSUME NoTouchAssumption == NoTouch \notin TouchIds
ASSUME MaxStoredAssumption == MaxStored \in Nat \ {0}

VARIABLES
    enabled,       \* the gate is enabled
    ownership,     \* m_touchInfoMap, "None" for an id it does not contain
    storedEvents,  \* m_storedEvents
    dispatching,   \* dispatchFullyOwnedEvents() is in its loop
    status,        \* TouchDispatcher::m_status
    touchMouseId,  \* TouchDispatcher::m_touchMouseId
    target,        \* the dispatcher's target item
    down,          \* contacts on the screen
    pending,       \* touches the registry owes the gate an answer for
    gained,        \* touches it has given to the gate
    followed,      \* touches whose press, but not release, has been dispatched
    seen,          \* touches the target has been sent the press, not the release of
    sent           \* the touch event the last step sent to the target, if any

gateVars == <<enabled, ownership, storedEvents, dispatching>>
dispatcherVars == <<status, touchMouseId, target>>
registryVars == <<pending, gained>>
streamVars == <<followed, seen, sent>>
vars == <<gateVars, dispatcherVars, down, registryVars, streamVars>>

States == {"Pressed", "Moved", "Released"}
TouchEvents == UNION {[ids -> States] : ids \in (SUBSET TouchIds) \ {{}}}
NoEvent == <<>>

TypeOK ==
    /\ enabled \in BOOLEAN
    /\ ownership \in [TouchIds -> {"None", "Requested", "Granted"}]
    /\ storedEvents \in Seq(TouchEvents)
    /\ dispatching \in BOOLEAN
    /\ status \in {"NoActiveTouch", "DeliveringTouchEvents",
                   "DeliveringMouseEvents", "TargetRejectedTouches"}
    /\ touchMouseId \in TouchIds \cup {NoTouch}
    /\ target \in {"Enabled", "Disabled", "None"}
    /\ down \subseteq TouchIds
    /\ pending \subseteq TouchIds
    /\ gained \subseteq TouchIds
    /\ followed \subseteq TouchIds
    /\ seen \subseteq TouchIds
    /\ sent \in TouchEvents \cup {NoEvent}

Init ==
    /\ enabled = TRUE
    /\ ownership = [id \in TouchIds |-> "None"]
    /\ storedEvents = <<>>
    /\ dispatching = FALSE
    /\ status = "NoActiveTouch"
    /\ touchMouseId = NoTouch
    /\ target = "Enabled"
    /\ down = {} /\ pending = {} /\ gained = {}
    /\ followed = {} /\ seen = {} /\ sent = NoEvent

-----------------------------------------------------------------------------
(* Touch events.                                                           *)

In(event, state) == {id \in DOMAIN event : event[id] = state}
Only(event, ids) == [id \in DOMAIN event \cap ids |-> event[id]]

\* resolveEventType()
Begins(event) == In(event, "Pressed") = DOMAIN event
EndsAll(event) == In(event, "Released") = DOMAIN event

\* The touches in the set s once the event has come.
After(s, event) == (s \cup In(event, "Pressed")) \ In(event, "Released")

-----------------------------------------------------------------------------
(* The dispatcher.                                                         *)

SendTouches(event) == sent' = event /\ seen' = After(seen, event)
SendNoTouches == sent' = NoEvent /\ UNCHANGED seen

\* dispatchTouchBegin(): the target takes the touches, or the first of them as a
\* mouse, or neither.
DispatchTouchBegin(event) ==
    \/ /\ target = "Disabled"
       /\ SendNoTouches
       /\ UNCHANGED <<status, touchMouseId>>
    \/ /\ target = "Enabled"
       /\ status' = "DeliveringTouchEvents"
       /\ SendTouches(event)
       /\ UNCHANGED touchMouseId
    \/ /\ target = "Enabled"
       /\ status' = "DeliveringMouseEvents"
       /\ touchMouseId' \in DOMAIN event
       /\ SendNoTouches
    \/ /\ target = "Enabled"
       /\ status' = "TargetRejectedTouches"
       /\ SendNoTouches
       /\ UNCHANGED touchMouseId

MouseOf(event) == IF touchMouseId \in DOMAIN event THEN {touchMouseId} ELSE DOMAIN event

\* dispatchAsMouse(): which touch is the mouse once the event is delivered.
DispatchAsMouse(event) ==
    \/ /\ touchMouseId # NoTouch
       /\ \E id \in MouseOf(event) :
             touchMouseId' = IF event[id] = "Released" THEN NoTouch ELSE id
    \/ /\ touchMouseId = NoTouch
       /\ touchMouseId' \in In(event, "Pressed") \cup
                             (IF In(event, "Pressed") = {} THEN {NoTouch} ELSE {})

\* The rest of a stream of touches goes where its beginning went.
DispatchUpdate(event) ==
    /\ IF status = "DeliveringTouchEvents" THEN SendTouches(event) ELSE SendNoTouches
    /\ IF EndsAll(event)
       THEN status' = "NoActiveTouch" /\ touchMouseId' = NoTouch
       ELSE /\ UNCHANGED status
            /\ IF status = "DeliveringMouseEvents"
               THEN DispatchAsMouse(event) ELSE UNCHANGED touchMouseId

\* TouchDispatcher::dispatch()
Dispatch(event) ==
    /\ followed' = After(followed, event)
    /\ \/ /\ target = "None"
          /\ SendNoTouches
          /\ UNCHANGED <<status, touchMouseId>>
       \/ target # "None" /\ Begins(event) /\ DispatchTouchBegin(event)
       \/ target # "None" /\ ~Begins(event) /\ DispatchUpdate(event)
    /\ UNCHANGED target

NothingDispatched ==
    /\ sent' = NoEvent
    /\ UNCHANGED <<dispatcherVars, followed, seen>>

-----------------------------------------------------------------------------
(* The gate.                                                               *)

Known == {id \in TouchIds : ownership[id] # "None"}
Owned(map, event) == \A id \in DOMAIN event : map[id] = "Granted"
Forgetting(map, ids) == [id \in TouchIds |-> IF id \in ids THEN "None" ELSE map[id]]

PassesIfOwned(map, event) == Owned(map, event)  \* mutant: overtakes stored events
\* An event all of whose touches the gate owns passes, unless older ones wait.
Passes(map, event) == Owned(map, event) /\ storedEvents = <<>>

\* touchEvent(), with the touches in at once answered before
\* requestTouchOwnership() returns.
Receive(event, atOnce) ==
    LET landed == In(event, "Pressed")
        map == [id \in TouchIds |->
                   IF id \in atOnce THEN "Granted"
                   ELSE IF id \in landed THEN "Requested" ELSE ownership[id]]
        valid == Only(event, {id \in TouchIds : map[id] # "None"})
    IN  /\ pending' = pending \cup (landed \ atOnce)
        /\ gained' = (gained \ landed) \cup atOnce
        /\ \/ /\ DOMAIN valid = {}
              /\ NothingDispatched
              /\ UNCHANGED <<ownership, storedEvents>>
           \/ /\ DOMAIN valid # {} /\ Passes(map, valid)
              /\ ownership' = Forgetting(map, In(valid, "Released"))
              /\ Dispatch(valid)
              /\ UNCHANGED storedEvents
           \/ /\ DOMAIN valid # {} /\ ~Passes(map, valid)
              /\ Len(storedEvents) < MaxStored
              /\ ownership' = map
              /\ storedEvents' = Append(storedEvents, valid)
              /\ NothingDispatched

\* Contacts land and leave, the others move.  A disabled gate gets no events.
TouchEvent(landed, released, atOnce) ==
    /\ ~dispatching
    /\ landed \cap (down \cup pending \cup Known) = {}
    /\ landed \cup down # {}
    /\ down' = (down \cup landed) \ released
    /\ LET event == [id \in landed \cup down |->
                        IF id \in landed THEN "Pressed"
                        ELSE IF id \in released THEN "Released" ELSE "Moved"]
       IN IF enabled
          THEN Receive(event, atOnce)
          ELSE /\ atOnce = {}
               /\ NothingDispatched
               /\ UNCHANGED <<ownership, storedEvents, registryVars>>
    /\ UNCHANGED <<enabled, dispatching>>

StoredAsBefore(id) == storedEvents  \* mutant: nothing is removed
\* removeTouchFromStoredEvents()
StoredWithout(id) ==
    Kept([k \in DOMAIN storedEvents |-> Only(storedEvents[k], TouchIds \ {id})],
         {k \in DOMAIN storedEvents : DOMAIN storedEvents[k] # {id}})

\* touchOwnershipEvent(): an answer for a touch of before a reset is ignored.
TouchGained(id) ==
    /\ ~dispatching /\ id \in pending
    /\ pending' = pending \ {id}
    /\ gained' = gained \cup {id}
    /\ ownership' = IF id \in Known THEN [ownership EXCEPT ![id] = "Granted"] ELSE ownership
    /\ dispatching' = (id \in Known)
    /\ NothingDispatched
    /\ UNCHANGED <<enabled, storedEvents, down>>

DispatchesAfterLoss(id) == FALSE  \* mutant: only a gain is followed by a dispatch
DispatchesAfter(id) == id \in Known
TouchLost(id) ==
    /\ ~dispatching /\ id \in pending
    /\ pending' = pending \ {id}
    /\ ownership' = Forgetting(ownership, {id})
    /\ storedEvents' = IF id \in Known THEN StoredWithout(id) ELSE storedEvents
    /\ dispatching' = DispatchesAfter(id)
    /\ NothingDispatched
    /\ UNCHANGED <<enabled, down, gained>>

\* One turn of dispatchFullyOwnedEvents(), and its end.
DispatchFullyOwnedEvent ==
    /\ dispatching
    /\ storedEvents # <<>> /\ Owned(ownership, Head(storedEvents))
    /\ storedEvents' = Tail(storedEvents)
    /\ ownership' = Forgetting(ownership, In(Head(storedEvents), "Released"))
    /\ Dispatch(Head(storedEvents))
    /\ UNCHANGED <<enabled, dispatching, down, registryVars>>
DispatchDone ==
    /\ dispatching
    /\ storedEvents # <<>> => ~Owned(ownership, Head(storedEvents))
    /\ dispatching' = FALSE
    /\ NothingDispatched
    /\ UNCHANGED <<enabled, ownership, storedEvents, down, registryVars>>

\* reset(): what was held back is dropped, and so is the rest of the stream.
Disable ==
    /\ ~dispatching /\ enabled
    /\ enabled' = FALSE
    /\ ownership' = Forgetting(ownership, TouchIds)
    /\ storedEvents' = <<>>
    /\ status' = "NoActiveTouch"
    /\ touchMouseId' = NoTouch
    /\ followed' = {} /\ seen' = {} /\ sent' = NoEvent
    /\ UNCHANGED <<dispatching, target, down, registryVars>>
Enable ==
    /\ ~dispatching /\ ~enabled
    /\ enabled' = TRUE
    /\ NothingDispatched
    /\ UNCHANGED <<ownership, storedEvents, dispatching, down, registryVars>>

StatusOf(item) ==
    IF status = "NoActiveTouch" THEN status ELSE "TargetRejectedTouches"
\* setTargetItem() with another item.
SetTargetItem(item) ==
    /\ ~dispatching
    /\ target' = item
    /\ status' = StatusOf(item)
    /\ seen' = {} /\ sent' = NoEvent
    /\ UNCHANGED <<gateVars, touchMouseId, down, registryVars, followed>>

\* The target is enabled or disabled, or destroyed.
TargetChanges(to) ==
    /\ ~dispatching /\ target # "None" /\ target # to
    /\ target' = to
    /\ seen' = IF to = "None" THEN {} ELSE seen
    /\ sent' = NoEvent
    /\ UNCHANGED <<gateVars, status, touchMouseId, down, registryVars, followed>>

-----------------------------------------------------------------------------
Next ==
    \/ \E landed, released, atOnce \in SUBSET TouchIds :
          /\ released \subseteq down /\ atOnce \subseteq landed
          /\ TouchEvent(landed, released, atOnce)
    \/ \E id \in TouchIds : TouchGained(id) \/ TouchLost(id)
    \/ DispatchFullyOwnedEvent
    \/ DispatchDone
    \/ Disable
    \/ Enable
    \/ \E item \in {"Enabled", "Disabled", "None"} : SetTargetItem(item) \/ TargetChanges(item)

Spec == Init /\ [][Next]_vars

\* The registry answers every request (EveryCandidateAnswered of TouchRegistry):
\* strongly fair, for the loop that an answer to another request starts is over
\* before the event loop goes on.  The gate's loop runs to its end.
Fairness ==
    /\ \A id \in TouchIds : SF_vars(TouchGained(id) \/ TouchLost(id))
    /\ WF_vars(DispatchFullyOwnedEvent \/ DispatchDone)

FairSpec == Spec /\ Fairness

-----------------------------------------------------------------------------
(* What makes the gate correct.                                            *)

\* Touches are passed on only when the registry has given them to the gate: an
\* application never sees one that a gesture of the shell may still take.
OnlyOwnedTouches ==
    followed \subseteq gained /\ seen \subseteq followed

\* Nothing is forgotten: of a touch in the map the press is dispatched or stored,
\* and the release of one that has left the screen is stored.
NothingSkipped ==
    \A id \in Known :
        /\ \/ id \in followed
           \/ \E k \in DOMAIN storedEvents : id \in In(storedEvents[k], "Pressed")
        /\ \/ id \in down
           \/ \E k \in DOMAIN storedEvents : id \in In(storedEvents[k], "Released")

\* Nothing is held back for longer than needed: outside of the loop the oldest
\* stored event has a touch the registry has not decided about.
NothingHeldBack ==
    ~dispatching /\ storedEvents # <<>> =>
        \E id \in DOMAIN Head(storedEvents) : id \in pending

\* The target sees a stream of touches as a window would deliver it, however the
\* registry's answers were ordered: a touch begins with its press, moves and is
\* released after that, and every event lists all touches the target knows.
StreamWellFormed ==
    [][sent' # NoEvent =>
          /\ In(sent', "Pressed") \cap seen = {}
          /\ DOMAIN sent' \ In(sent', "Pressed") = seen]_vars

\* The touch that plays the mouse is one of those that are being dispatched
\* (Q_ASSERT(touchMouse) in dispatchAsMouse()).
MouseFollowsTouch ==
    status = "DeliveringMouseEvents" /\ target # "None" /\ touchMouseId # NoTouch =>
        touchMouseId \in followed

\* A touch that has left the screen is dispatched to its end or dropped: the map
\* and the stored events do not grow for ever.
TouchForgotten ==
    \A id \in TouchIds :
        (id \in Known /\ id \notin down) ~> (id \notin Known)

\* What the stored events up to the k-th, and those dispatched, say of a touch.
BegunBefore(id, k) ==
    \/ id \in followed
    \/ \E j \in DOMAIN storedEvents : j < k /\ id \in In(storedEvents[j], "Pressed")
EndedBefore(id, k) ==
    \E j \in DOMAIN storedEvents : j < k /\ id \in In(storedEvents[j], "Released")

\* The stored events go on where the dispatched ones stopped: each lists the touches
\* that have begun and not ended before it, and those it presses, and what the last
\* one leaves are the contacts the gate knows.
StoredGoOn ==
    /\ \A k \in DOMAIN storedEvents : \A id \in TouchIds :
          /\ id \in DOMAIN storedEvents[k] => id \in Known
          /\ id \in In(storedEvents[k], "Pressed") => ~BegunBefore(id, k)
          /\ id \in DOMAIN storedEvents[k] \ In(storedEvents[k], "Pressed")
                <=> BegunBefore(id, k) /\ ~EndedBefore(id, k)
    /\ \A id \in Known :
          /\ BegunBefore(id, Len(storedEvents) + 1)
          /\ id \in down <=> ~EndedBefore(id, Len(storedEvents) + 1)

\* The map has what the registry has answered, and the touches being dispatched are
\* the gate's; it is empty after a reset.
MapFollowsRegistry ==
    /\ \A id \in TouchIds :
          /\ ownership[id] = "Requested" => id \in pending
          /\ ownership[id] = "Granted" => id \in gained \ pending
    /\ \A id \in followed : ownership[id] = "Granted"
    /\ ~enabled => Known = {}

\* A target that is being sent touches knows all that are dispatched, and another
\* target, or one that takes them otherwise, knows none.
TargetKnowsAll ==
    IF status = "DeliveringTouchEvents" /\ target # "None"
    THEN seen = followed /\ followed # {}
    ELSE seen = {}

\* Outside of the loop the oldest stored event waits for a touch.
OldestWaits ==
    ~dispatching /\ storedEvents # <<>> => ~Owned(ownership, Head(storedEvents))

\* What the gate dispatches is the target's, of what arrived nothing is left out, and
\* it stores no event that it could dispatch (dispatchFullyOwnedEvents).
HeldBackRightly ==
    /\ TypeOK
    /\ OnlyOwnedTouches /\ NothingSkipped /\ NothingHeldBack /\ MouseFollowsTouch
    /\ StoredGoOn /\ MapFollowsRegistry /\ TargetKnowsAll /\ OldestWaits

=============================================================================
