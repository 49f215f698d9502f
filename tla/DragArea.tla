------------------------------ MODULE DragArea ------------------------------
(***************************************************************************)
(* A directional drag area of plugins/Ubuntu/Gestures: an item at an edge  *)
(* of the shell that watches a touch while the item below has it, and      *)
(* takes it when it turns out to be a drag in its direction.               *)
(*                                                                         *)
(* A touch event goes through three steps.  The registry filters it first: *)
(* it sends the touches the area is a candidate for or watches as an       *)
(* UnownedTouchEvent, and frees what has ended.  QQuickWindow then sends   *)
(* the area the touches that land on it and those it has grabbed.  The     *)
(* registry appears by its promises (TouchRegistry.tla): a loss may be     *)
(* told a second time, or for a touch that has just been released, and an  *)
(* answer may only come when the touch has long ended.  What the finger    *)
(* does is open: a drag may be recognised, or not, at any move.            *)
(***************************************************************************)
EXTENDS Naturals, Sequences, SequencesExt, FiniteSets, Selection

CONSTANTS
    TouchIds,
    NoTouch     \* the followed touch before the first one

ASSUME NoTouchAssumption == NoTouch \notin TouchIds
ASSUME TouchIdsAssumption == IsFiniteSet(TouchIds)

VARIABLES
    status,         \* DirectionalDragAreaPrivate::status
    touchId,        \* the touch it follows, or followed last
    activeTouches,  \* ActiveTouchesInfo, in the order of their start
    able,           \* the area is enabled and visible
    immediate,      \* immediateRecognition
    claim,          \* what the registry has for the area, per touch
    timed,          \* lost touches whose inactivity timer still runs
    watched,        \* touches it watches
    infos,          \* touches the registry has an info of
    down,           \* contacts on the screen
    grabbed,        \* touches QQuickWindow sends to the area
    dropped,        \* touches whose end it may miss, see DragEndsWithTouch and EndIsHeard
    step,           \* how far the current touch event is
    landed,         \* what that event presses
    released,       \* what it releases
    told            \* what the registry is to send the area

areaVars == <<status, touchId, activeTouches, able, immediate>>
registryVars == <<claim, timed, watched, infos>>
windowVars == <<down, grabbed, dropped, landed, released>>
vars == <<areaVars, registryVars, windowVars, step, told>>

Waiting == {"Undecided", "Requested", "InterimOwner"}

TypeOK ==
    /\ status \in {"WaitingForTouch", "Undecided", "Recognized"}
    /\ touchId \in TouchIds \cup {NoTouch}
    /\ status # "WaitingForTouch" => touchId # NoTouch
    /\ activeTouches \in Seq([id: TouchIds, recent: BOOLEAN])
    /\ able \in BOOLEAN /\ immediate \in BOOLEAN
    /\ claim \in [TouchIds -> Waiting \cup {"None", "Owner", "Lost"}]
    /\ timed \subseteq TouchIds
    /\ watched \subseteq infos
    /\ infos \subseteq TouchIds
    /\ down \subseteq TouchIds
    /\ grabbed \subseteq TouchIds
    /\ dropped \subseteq TouchIds
    /\ step \in {"idle", "filter", "heard", "window", "aborted"}
    /\ landed \subseteq TouchIds
    /\ released \subseteq TouchIds
    /\ told \subseteq TouchIds

Init ==
    /\ status = "WaitingForTouch" /\ touchId = NoTouch /\ activeTouches = <<>>
    /\ able = TRUE /\ immediate = FALSE
    /\ claim = [id \in TouchIds |-> "None"]
    /\ timed = {} /\ watched = {} /\ infos = {}
    /\ down = {} /\ grabbed = {} /\ dropped = {}
    /\ step = "idle" /\ landed = {} /\ released = {} /\ told = {}

-----------------------------------------------------------------------------
(* Active touches and the composition window.                              *)

Active == {activeTouches[k].id : k \in DOMAIN activeTouches}

\* isWithinTouchCompositionWindow(): the touch that started last is recent.
WithinCompositionWindow ==
    activeTouches # <<>> /\ Last(activeTouches).recent

\* ActiveTouchesInfo::update(), for an event that presses and releases touches.
Update(pressed, ended) ==
    \E started \in SetToSeqs([id: pressed, recent: {TRUE}]) :
        LET known == activeTouches \o started
        IN  activeTouches' = Kept(known, {k \in DOMAIN known : known[k].id \notin ended})

\* compositionTime has passed since the start of the oldest recent touch.
TimePasses ==
    /\ step = "idle"
    /\ \E k \in DOMAIN activeTouches :
          /\ activeTouches[k].recent
          /\ \A j \in 1..(k - 1) : ~activeTouches[j].recent
          /\ activeTouches' = [activeTouches EXCEPT ![k].recent = FALSE]
    /\ UNCHANGED <<status, touchId, able, immediate, registryVars, windowVars, step, told>>

-----------------------------------------------------------------------------
(* What the area asks of the registry.                                     *)

Claims(id, what) == claim' = [claim EXCEPT ![id] = what]

\* removeCandidateOwnerForTouch() and addTouchWatcher(): the area gives its touch
\* up, but wants to know when it ends.
GiveUpUnwatched ==  \* mutant: without addTouchWatcher()
    /\ status' = "WaitingForTouch"
    /\ Claims(touchId, "None")
    /\ UNCHANGED watched
GiveUp ==
    /\ status' = "WaitingForTouch"
    /\ Claims(touchId, "None")
    /\ watched' = watched \cup {touchId}

\* requestTouchOwnership(): the first in the queue gets the touch at once, and
\* grabs it; the others get an answer later.
Request(id, how) ==
    \/ Claims(id, "Owner") /\ grabbed' = grabbed \cup {id}
    \/ Claims(id, how) /\ UNCHANGED grabbed

\* TouchRegistry::freeSlot(): nothing is left of these touches.
Forgets(freed) ==
    /\ claim' = [id \in TouchIds |-> IF id \in freed THEN "None" ELSE claim[id]]
    /\ timed' = timed \ freed
    /\ watched' = watched \ freed
    /\ infos' = infos \ freed

-----------------------------------------------------------------------------
(* A touch event: the registry's filter.                                   *)

\* Ids are unique: one comes back only when nobody remembers it.
Fresh(id) == id \notin infos \cup Active \cup {touchId} \cup dropped

NewTouchEvent(pressed, ended) ==
    /\ step = "idle"
    /\ pressed \cup down # {} /\ ended \subseteq down
    /\ \A id \in pressed : Fresh(id)
    /\ landed' = pressed /\ released' = ended
    /\ down' = (down \cup pressed) \ ended
    /\ infos' = infos \cup pressed
    /\ told' = {id \in down : claim[id] \in {"Undecided", "Requested"} \/ id \in watched}
    /\ step' = IF told' = {} THEN "heard" ELSE "filter"
    /\ UNCHANGED <<areaVars, claim, timed, watched, grabbed, dropped>>

\* unownedTouchEvent(), the part that all cases share.
HearsUnownedTouches ==
    /\ step = "filter"
    /\ step' = "heard" /\ told' = {}
    /\ Update({}, told \cap released)
    /\ UNCHANGED <<touchId, able, immediate, timed, infos, down, dropped, landed, released>>

HearsNothingNew ==
    /\ HearsUnownedTouches
    /\ status # "Undecided"
    /\ UNCHANGED <<status, claim, watched, grabbed>>

\* The touch has ended, or is missing from the event.
HearsRelease ==
    /\ HearsUnownedTouches
    /\ status = "Undecided" /\ touchId \notin told \ released
    /\ status' = "WaitingForTouch"
    /\ Claims(touchId, "None")
    /\ UNCHANGED <<watched, grabbed>>

\* The wrong direction, or too far without being recognised.
HearsWrongMove ==
    /\ HearsUnownedTouches
    /\ status = "Undecided" /\ touchId \in told \ released
    /\ GiveUp
    /\ UNCHANGED grabbed

\* Not far enough yet, or another touch may still come.
HearsMove ==
    /\ HearsUnownedTouches
    /\ status = "Undecided" /\ touchId \in told \ released
    /\ UNCHANGED <<status, claim, watched, grabbed>>

\* Far enough, and too late for another touch to be part of the gesture.
HearsDrag ==
    /\ HearsUnownedTouches
    /\ status = "Undecided" /\ touchId \in told \ released
    /\ ~WithinCompositionWindow
    /\ status' = "Recognized"
    /\ Request(touchId, "Requested")
    /\ UNCHANGED watched

\* freeEndedTouchInfos(), at the end of update(): what somebody owns, or nobody wants.
\* A touch that has ended is kept while its queue has no owner; who is first there
\* need not have heard of the end, if it is a drag area that gave up because of
\* another touch.  An area that has requested the touch behind it goes on dragging.
FilterDone ==
    /\ step = "heard"
    /\ \E freed \in SUBSET (infos \ down) :
          /\ \A id \in infos \ down : claim[id] = "Owner" => id \in freed
          /\ \A id \in freed : claim[id] \notin Waiting
          /\ Forgets(freed)
    /\ dropped' = dropped \cup {id \in released \ grabbed : claim[id] = "Requested"}
    /\ step' = "window"
    /\ UNCHANGED <<areaVars, down, grabbed, landed, released, told>>

\* removeCandidateOwnerForTouch() of another item: the last one, or the one in front
\* of the owner.
FreedLater(id) ==
    /\ step = "idle"
    /\ id \in infos \ down /\ claim[id] \notin Waiting
    /\ Forgets({id})
    /\ UNCHANGED <<areaVars, windowVars, step, told>>

-----------------------------------------------------------------------------
(* The same event as QQuickWindow delivers it, with the touches in hit     *)
(* landing on the area.                                                    *)

Points(hit) == hit \cup (grabbed \cap (down \cup released))

Delivers(hit) ==
    /\ step = "window" /\ able
    /\ hit \subseteq landed /\ Points(hit) # {}
    /\ step' = "idle" /\ landed' = {} /\ released' = {}
    /\ Update(hit, Points(hit) \cap released)
    /\ UNCHANGED <<able, immediate, timed, infos, down, dropped, told>>

DeliversNothing ==
    /\ step = "window"
    /\ ~able \/ Points({}) = {}
    /\ step' = "idle" /\ landed' = {} /\ released' = {}
    /\ grabbed' = grabbed \ released
    /\ UNCHANGED <<areaVars, registryVars, down, dropped, told>>

\* touchEvent_absent(): no new touch.
TouchEventAbsent ==
    /\ Delivers({}) /\ status = "WaitingForTouch"
    /\ grabbed' = grabbed \ released
    /\ UNCHANGED <<status, touchId, claim, watched>>

\* One of several touches that belong together.
TouchEventComposed(hit) ==
    /\ Delivers(hit) /\ status = "WaitingForTouch"
    /\ hit # {} /\ (WithinCompositionWindow \/ Cardinality(hit) > 1)
    /\ watched' = watched \cup hit
    /\ grabbed' = grabbed \ released
    /\ UNCHANGED <<status, touchId, claim>>

\* A touch that may become a drag: the items below get it for now.
TouchEventCandidate(id) ==
    /\ Delivers({id}) /\ status = "WaitingForTouch"
    /\ ~WithinCompositionWindow /\ ~immediate
    /\ touchId' = id /\ status' = "Undecided"
    /\ Claims(id, "Undecided")
    /\ grabbed' = grabbed \ released
    /\ UNCHANGED watched

\* Behave like a dumb TouchArea: the event is accepted.
TouchEventImmediate(id) ==
    /\ Delivers({id}) /\ status = "WaitingForTouch"
    /\ ~WithinCompositionWindow /\ immediate
    /\ touchId' = id /\ status' = "Recognized"
    /\ \E what \in {"Owner", "InterimOwner"} : Claims(id, what)
    /\ grabbed' = (grabbed \ released) \cup {id}
    /\ UNCHANGED watched

\* touchEvent_undecided()
TouchEventUndecided(hit) ==
    /\ Delivers(hit) /\ status = "Undecided"
    /\ IF hit # {} /\ WithinCompositionWindow
       THEN /\ status' = "WaitingForTouch"
            /\ Claims(touchId, "None")
            /\ watched' = watched \cup hit \cup {touchId}
       ELSE /\ watched' = watched \cup hit
            /\ UNCHANGED <<status, claim>>
    /\ grabbed' = grabbed \ released
    /\ UNCHANGED touchId

EndsWithoutTouch(hit) == touchId \notin Points(hit)  \* mutant: the release goes by
EndsWith(hit) == touchId \notin Points(hit) \ released
\* touchEvent_recognized(): the event is accepted, with all touches it presses.
TouchEventRecognized(hit) ==
    /\ Delivers(hit) /\ status = "Recognized"
    /\ status' = IF EndsWith(hit) THEN "WaitingForTouch" ELSE "Recognized"
    /\ grabbed' = (grabbed \ released) \cup hit
    /\ UNCHANGED <<touchId, claim, watched>>

-----------------------------------------------------------------------------
(* The registry's answers.                                                 *)

\* Between events, or because of what another item does in the same one.
MayAnswer == step \in {"idle", "filter", "heard"}

\* touchOwnershipEvent() after a gain.
Gains(id) ==
    /\ MayAnswer /\ claim[id] \in {"Requested", "InterimOwner"}
    /\ Claims(id, "Owner")
    /\ grabbed' = IF id \in down \cup released THEN grabbed \cup {id} ELSE grabbed
    /\ UNCHANGED <<areaVars, timed, watched, infos, down, dropped, step, landed, released, told>>

\* touchOwnershipEvent() after a loss: whichever touch it was, the area gives up and
\* watches the one it follows, or followed last; the registry aborts the program
\* (qFatal) if it does not know that one.
Loses(id) ==
    /\ status' = "WaitingForTouch"
    /\ grabbed' = grabbed \ {id}
    /\ IF touchId \in infos
       THEN watched' = watched \cup {touchId} /\ UNCHANGED step
       ELSE step' = "aborted" /\ UNCHANGED watched

\* Another item becomes the owner, or the inactivity timer gets rid of the area.
\* In the first case the timer of an undecided area goes on.  It may be with the event
\* that releases the touch, as the one in front gives up: the area misses the end if
\* it is only told afterwards, or if it follows another touch by then.
LosesTouch(id) ==
    /\ MayAnswer /\ claim[id] \in Waiting
    /\ Claims(id, "Lost")
    /\ timed' \in IF claim[id] = "Undecided" THEN {timed, timed \cup {id}} ELSE {timed}
    /\ Loses(id)
    /\ dropped' = IF id = touchId /\ id \notin Active \cap (released \ told)
                  THEN dropped ELSE dropped \cup {id}
    /\ UNCHANGED <<touchId, activeTouches, able, immediate, infos, down,
                   landed, released, told>>

\* The inactivity timer fires after that.
LosesTouchAgain(id) ==
    /\ step = "idle" /\ id \in timed
    /\ timed' = timed \ {id}
    /\ Loses(id)
    /\ UNCHANGED <<touchId, activeTouches, able, immediate, claim, infos, down, dropped,
                   landed, released, told>>

-----------------------------------------------------------------------------
(* The recognition timer and the properties of the area.                   *)

RejectGesture ==
    /\ step = "idle" /\ status = "Undecided"
    /\ GiveUp
    /\ UNCHANGED <<touchId, activeTouches, able, immediate, timed, infos, windowVars, step, told>>

\* giveUpIfDisabledOrInvisible(): QQuickItem takes its touches away.
Disable ==
    /\ step = "idle" /\ able
    /\ able' = FALSE
    /\ \/ /\ status = "Undecided"
          /\ GiveUp
       \/ /\ status # "Undecided"
          /\ status' = "WaitingForTouch"
          /\ UNCHANGED <<claim, watched>>
    /\ dropped' = dropped \cup grabbed
                    \cup {id \in TouchIds : claim[id] \in {"Requested", "InterimOwner", "Owner"}}
    /\ grabbed' = {}
    /\ UNCHANGED <<touchId, activeTouches, immediate, timed, infos, down, step,
                   landed, released, told>>
Enable ==
    /\ step = "idle" /\ ~able
    /\ able' = TRUE
    /\ UNCHANGED <<status, touchId, activeTouches, immediate, registryVars, windowVars,
                   step, told>>

SetImmediateRecognition ==
    /\ step = "idle"
    /\ immediate' = ~immediate
    /\ UNCHANGED <<status, touchId, activeTouches, able, registryVars, windowVars, step, told>>

-----------------------------------------------------------------------------
Next ==
    \/ TimePasses
    \/ \E pressed \in SUBSET (TouchIds \ infos), ended \in SUBSET down :
          NewTouchEvent(pressed, ended)
    \/ HearsNothingNew \/ HearsRelease \/ HearsWrongMove \/ HearsMove \/ HearsDrag
    \/ FilterDone \/ \E id \in TouchIds : FreedLater(id)
    \/ DeliversNothing
    \/ TouchEventAbsent
    \/ \E hit \in SUBSET landed :
          TouchEventComposed(hit) \/ TouchEventUndecided(hit) \/ TouchEventRecognized(hit)
    \/ \E id \in landed : TouchEventCandidate(id) \/ TouchEventImmediate(id)
    \/ \E id \in TouchIds : Gains(id) \/ LosesTouch(id) \/ LosesTouchAgain(id)
    \/ RejectGesture
    \/ Disable \/ Enable
    \/ SetImmediateRecognition

Spec == Init /\ [][Next]_vars

-----------------------------------------------------------------------------
(* What makes the area correct.                                            *)

\* An area that is still recognising is a candidate for the touch it follows, so
\* its calls of removeCandidateOwnerForTouch() and requestTouchOwnership() are for
\* a touch the registry knows and nobody owns.
UndecidedIsCandidate ==
    status = "Undecided" /\ step # "aborted" =>
        claim[touchId] = "Undecided" /\ touchId \in infos

\* An area that drags has the touch, or is in the queue for it: it never moves a
\* part of the shell with a touch that belongs to someone else.
DraggingIsEntitled ==
    status = "Recognized" /\ step # "window" =>
        claim[touchId] \in {"Requested", "InterimOwner", "Owner"} \/ touchId \in dropped

\* The drag ends with its touch: the release arrives, whether the area got the touch
\* before the release or with it.  The exception: an area that still waits for its
\* request when the touch has ended goes on dragging, until another touch lands on it
\* or the touch is lost (TouchRegistry.cpp:154).
DragEndsWithTouch ==
    status = "Recognized" /\ step = "idle" => touchId \in down \cup dropped

\* For every active touch that is down the area hears of its end, so the list that
\* says whether a touch came alone does not grow ("We still wanna know when it ends
\* for keeping the composition time window up-to-date").  The exceptions: touches
\* that it had, or had requested, when it was disabled; a touch that it loses when it
\* already follows another, which is the one it then watches; one it had taken at
\* once (immediateRecognition) and loses with the event that releases it, as it
\* begins to watch it behind that event.
EndIsHeard ==
    \A id \in Active \ dropped :
        /\ step = "idle" => id \in down
        /\ id \in down =>
              id \in watched \cup grabbed \/ claim[id] \in {"Undecided", "Requested"}

\* The registry knows every contact, and every touch the area has a claim to; a
\* touch that is lost is watched from then on, or one the area may lose track of.
ContactsKnown ==
    /\ down \subseteq infos /\ landed \subseteq down /\ released \cap down = {}
    /\ step = "idle" => landed = {} /\ released = {}
    /\ step = "filter" => told \subseteq down \cup released
    /\ step \notin {"filter", "aborted"} => told = {}
    /\ \A id \in TouchIds : claim[id] # "None" => id \in infos \ landed
    /\ \A id \in timed : claim[id] = "Lost" /\ id \in watched \cup dropped

\* A disabled area recognises nothing and follows nothing.
DisabledLetsGo ==
    /\ status # "WaitingForTouch" => able
    /\ ~able => \A id \in TouchIds :
          id \in grabbed \/ claim[id] \in {"Requested", "InterimOwner"} => id \in dropped

\* The release of the touch it drags with is still to come, or on its way: QQuickWindow
\* sends it, as the area has grabbed the touch when it owns it.  DragEndsWithTouch
\* says which drag is the exception.
ReleaseReaches ==
    status = "Recognized" /\ touchId \notin dropped =>
        /\ touchId \in down \cup released
        /\ claim[touchId] \in {"Owner", "InterimOwner"} => touchId \in grabbed
        /\ IF step = "window" /\ touchId \in released
           THEN touchId \in grabbed
           ELSE claim[touchId] \in {"Requested", "InterimOwner", "Owner"}

\* The end of an active touch that has been released is on its way too: the registry
\* tells the area of it, or QQuickWindow does.  A touch that is still undecided is
\* down, so the area may give it up and watch it.
EndIsOnItsWay ==
    /\ status = "Undecided" => touchId \in IF step = "filter" THEN told ELSE down
    /\ \A id \in Active \ (dropped \cup down) :
          /\ step = "filter" => id \in released /\ id \in told \cup grabbed
          /\ step \in {"heard", "window"} => id \in released \cap grabbed

\* An area has the touch it drags with, or waits for it, from its press to its end.
DragIsEntitled ==
    /\ TypeOK
    /\ ContactsKnown /\ DisabledLetsGo /\ ReleaseReaches /\ EndIsOnItsWay
    /\ UndecidedIsCandidate /\ DraggingIsEntitled /\ DragEndsWithTouch

=============================================================================
