---------------------------- MODULE TouchRegistry ----------------------------
(***************************************************************************)
(* The touch ownership registry of libs/UbuntuGestures.  Items (QQuickItem *)
(* objects) become candidates for a touch point while they are still       *)
(* recognising a gesture; the registry decides, in arrival order, which of *)
(* them owns it and tells every candidate with a TouchOwnershipEvent.      *)
(*                                                                         *)
(* The module holds the registry (slots, lastUsed, connections,            *)
(* inDispatchLoop, toDispatch) and the world it is called from: the items  *)
(* that exist, the fingers that are down, the press QQuickWindow is still  *)
(* delivering, what each item believes about each touch, and the events    *)
(* the last step sent.                                                     *)
(***************************************************************************)
EXTENDS Naturals, Sequences, SequencesExt

CONSTANTS
    Items,        \* items that use the registry
    Destroyable,  \* those that may be destroyed while the shell runs
    Watchers,     \* those that may ask to watch a touch they do not want
    TouchIds,     \* ids the touch screen gives to its contacts
    Under,        \* the items that lie under each contact
    NoItem,       \* a QPointer whose item is gone
    NoTouch,      \* the id of an unused slot (-1)
    MaxSlots      \* bound: slots the pool may grow to

ASSUME DestroyableAssumption == Destroyable \subseteq Items
ASSUME WatchersAssumption == Watchers \subseteq Items
ASSUME UnderAssumption == Under \in [TouchIds -> SUBSET Items]
ASSUME NoItemAssumption == NoItem \notin Items
ASSUME NoTouchAssumption == NoTouch \notin TouchIds
ASSUME MaxSlotsAssumption == MaxSlots \in Nat \ {0}

VARIABLES
    slots,          \* Pool::m_slots of TouchInfo
    lastUsed,       \* Pool::m_lastUsedIndex, one up
    connections,    \* destroyed() connections, <<item, touch>>
    inDispatchLoop, \* m_inDispatchLoop
    toDispatch,     \* touchIdsForItems, as far as it is not yet delivered
    alive,          \* items not yet destroyed
    down,           \* contacts on the screen
    offered,        \* touches whose press QQuickWindow is delivering
    arrivals,       \* the order in which items came to each touch
    view,           \* what the last calls and events told each item
    events          \* what the last step sent to the items

registryVars == <<slots, lastUsed, connections, inDispatchLoop, toDispatch>>
worldVars == <<alive, down, offered, arrivals, view, events>>
vars == <<registryVars, worldVars>>

Slots == 1..MaxSlots
CandidateStates == {"Undecided", "Requested", "InterimOwner"}
Views == CandidateStates \cup {"None", "Owner", "Lost"}
Kinds == {"gained", "lost", "unowned"}

CandidateInfo ==
    [item: Items \cup {NoItem}, state: CandidateStates, inactivityTimer: BOOLEAN]
TouchInfo ==
    [id: TouchIds \cup {NoTouch}, physicallyEnded: BOOLEAN,
     candidates: Seq(CandidateInfo), watchers: SUBSET Items]
Event == [item: Items, touch: TouchIds, kind: Kinds]

TypeOK ==
    /\ slots \in [Slots -> TouchInfo]
    /\ lastUsed \in 0..MaxSlots
    /\ connections \subseteq Items \X TouchIds
    /\ inDispatchLoop \in BOOLEAN
    /\ toDispatch \in [Items -> SUBSET TouchIds]
    /\ alive \subseteq Items
    /\ down \subseteq TouchIds
    /\ offered \subseteq TouchIds
    /\ arrivals \in [TouchIds -> Seq(Items)]
    /\ view \in [Items -> [TouchIds -> Views]]
    /\ events \subseteq Event

-----------------------------------------------------------------------------
(* Touch infos and their pool.                                             *)

EmptyInfo ==
    [id |-> NoTouch, physicallyEnded |-> FALSE, candidates |-> <<>>, watchers |-> {}]
NewInfo(id) == [EmptyInfo EXCEPT !.id = id]

InUse(s) == slots[s].id # NoTouch
IsOwned(info) ==
    info.candidates # <<>> /\ info.candidates[1].state # "Undecided"
EndedOnceReleased(info) == info.physicallyEnded  \* mutant: nobody needs an answer
Ended(info) ==
    info.physicallyEnded /\ (IsOwned(info) \/ info.candidates = <<>>)

\* s is the slot findTouchInfo(id) returns: the first one that holds the id.
Finds(s, id) ==
    /\ s \in 1..lastUsed
    /\ slots[s].id = id
    /\ \A t \in 1..(s - 1) : slots[t].id # id

\* s is the slot getEmptySlot() returns: a vacancy below the last used slot,
\* else the one above it.
IsEmptySlot(s) ==
    \/ /\ s < lastUsed /\ ~InUse(s)
       /\ \A t \in 1..(s - 1) : InUse(t)
    \/ /\ s = lastUsed + 1
       /\ \A t \in 1..(lastUsed - 1) : InUse(t)

IsOneLower(n, f) ==  \* mutant: freeSlot() without its loop
    n = IF lastUsed # 0 /\ f[lastUsed].id = NoTouch THEN lastUsed - 1 ELSE lastUsed
\* n is what freeSlot() leaves in m_lastUsedIndex when the slots are now f.
IsLastUsed(n, f) ==
    /\ n <= lastUsed
    /\ n # 0 => f[n].id # NoTouch
    /\ \A t \in (n + 1)..lastUsed : f[t].id = NoTouch

SetSlotsTooLow(f, F) ==  \* mutant: every freeSlot() lowers m_lastUsedIndex
    /\ slots' = [s \in Slots |-> IF s \in F THEN EmptyInfo ELSE f[s]]
    /\ lastUsed' = lastUsed - 1
\* The pool after a step that leaves its slots as f, with those in F freed.
SetSlots(f, F) ==
    /\ slots' = [s \in Slots |-> IF s \in F THEN EmptyInfo ELSE f[s]]
    /\ lastUsed' \in 0..lastUsed
    /\ IsLastUsed(lastUsed', slots')

-----------------------------------------------------------------------------
(* Candidates and what they are told.                                      *)

CandidateAt(info, k, i) == k \in DOMAIN info.candidates /\ info.candidates[k].item = i

EventTo(i, id, kind) == [item |-> i, touch |-> id, kind |-> kind]

ResolutionForAllWhoAsked(info) ==  \* mutant: whoever asked for the touch gets it
    {EventTo(c.item, info.id, "gained") :
        c \in {d \in {info.candidates[k] : k \in 1..Len(info.candidates)} :
                  d.item # NoItem /\ d.state # "Undecided"}}
ResolutionForOwnerOnly(info) ==  \* mutant: the others are not told
    {EventTo(c.item, info.id, "gained") :
        c \in {d \in {info.candidates[1]} : d.item # NoItem}}
\* notifyCandidatesOfOwnershipResolution(): sendEvent drops a null receiver.
Resolution(info) ==
    {EventTo(c.item, info.id, "gained") :
        c \in {d \in {info.candidates[1]} : d.item # NoItem}}
    \cup
    {EventTo(c.item, info.id, "lost") :
        c \in {d \in {info.candidates[k] : k \in 2..Len(info.candidates)} :
                  d.item # NoItem}}

AnnouncementToUndecided(info, k) ==  \* mutant: without the isOwned() check
    IF k = 1 /\ info.candidates # <<>> THEN Resolution(info) ELSE {}
\* What the registry announces after candidate k of info has decided or left: a
\* change at the head that leaves the touch owned.
Announcement(info, k) ==
    IF k = 1 /\ IsOwned(info) THEN Resolution(info) ELSE {}

WithAtFront(info, i, newState) ==  \* mutant: prepend for append
    [info EXCEPT !.candidates = <<
        [item |-> i, state |-> newState,
         inactivityTimer |-> (newState = "Undecided")]>> \o @]
WithoutTimer(info, i, newState) ==  \* mutant: no inactivity timer is started
    [info EXCEPT !.candidates = Append(@,
        [item |-> i, state |-> newState, inactivityTimer |-> FALSE])]
\* A candidate enters the queue at its end; a queued one decides, which stops its
\* inactivity timer; and one leaves.
With(info, i, newState) ==
    [info EXCEPT !.candidates = Append(@,
        [item |-> i, state |-> newState,
         inactivityTimer |-> (newState = "Undecided")])]
Deciding(info, k) ==
    [info EXCEPT !.candidates[k] =
        [item |-> @.item, state |-> "Requested", inactivityTimer |-> FALSE]]
Without(info, k) == [info EXCEPT !.candidates = RemoveAt(@, k)]

Watched(info, i) == [info EXCEPT !.watchers = @ \cup {i}]
EndedPhysically(info) == [info EXCEPT !.physicallyEnded = TRUE]

\* What the items believe once they have received the events E.
Told(v, E) ==
    [i \in Items |-> [id \in TouchIds |->
        IF EventTo(i, id, "gained") \in E THEN "Owner"
        ELSE IF EventTo(i, id, "lost") \in E THEN "Lost"
        ELSE v[i][id]]]

Believes(i, id, what) == [view EXCEPT ![i][id] = what]
Waiting(i, id) == view[i][id] \in CandidateStates

Init ==
    /\ slots = [s \in Slots |-> EmptyInfo]
    /\ lastUsed = 0
    /\ connections = {}
    /\ inDispatchLoop = FALSE
    /\ toDispatch = [i \in Items |-> {}]
    /\ alive = Items
    /\ down = {}
    /\ offered = {}
    /\ arrivals = [id \in TouchIds |-> <<>>]
    /\ view = [i \in Items |-> [id \in TouchIds |-> "None"]]
    /\ events = {}

\* The event loop is between two events.
Idle == ~inDispatchLoop /\ offered = {}

-----------------------------------------------------------------------------
(* update(): the window's event filter hands every QTouchEvent to the      *)
(* registry before QQuickWindow delivers it.                               *)

\* The first half of deliverTouchUpdatesToUndecidedCandidatesAndWatchers():
\* who is to be told of the touch points in the event.
BuildDispatch(f, points) ==
    /\ toDispatch' = [i \in Items |->
           {id \in points : \E s \in Slots :
               /\ f[s].id = id
               /\ \/ /\ ~IsOwned(f[s])
                     /\ \E k \in DOMAIN f[s].candidates :
                            /\ f[s].candidates[k].item = i
                            /\ f[s].candidates[k].state # "InterimOwner"
                  \/ i \in f[s].watchers \cap alive}]
    /\ inDispatchLoop' = TRUE

\* A contact lands.  An id is reused only once the outcome of the touch that had
\* it is known: all that may be left of that one is an info this update frees.
PressTouch(id) ==
    /\ Idle
    /\ id \notin down
    /\ \A s \in Slots : slots[s].id = id => Ended(slots[s])
    /\ \E s \in Slots :
          /\ IsEmptySlot(s)
          /\ slots' = [slots EXCEPT ![s] = NewInfo(id)]
          /\ lastUsed' = IF s > lastUsed THEN s ELSE lastUsed
    /\ BuildDispatch(slots', down \cup {id})
    /\ down' = down \cup {id}
    /\ offered' = {id}
    /\ arrivals' = [arrivals EXCEPT ![id] = <<>>]
    /\ view' = [i \in Items |-> [view[i] EXCEPT ![id] = "None"]]
    /\ events' = {}
    /\ UNCHANGED <<connections, alive>>

\* Contacts move, and those in released leave the screen.
UpdateTouches(released) ==
    /\ Idle
    /\ down # {} /\ released \subseteq down
    /\ slots' = [s \in Slots |->
           IF \E id \in released : Finds(s, id)
           THEN EndedPhysically(slots[s]) ELSE slots[s]]
    /\ BuildDispatch(slots', down)
    /\ down' = down \ released
    /\ events' = {}
    /\ UNCHANGED <<lastUsed, connections, alive, offered, arrivals, view>>

\* One turn of the dispatch loop, in QHash order: any item that is left.
DispatchPointsToItem(i) ==
    /\ inDispatchLoop /\ toDispatch[i] # {}
    /\ toDispatch' = [toDispatch EXCEPT ![i] = {}]
    /\ events' = {EventTo(i, id, "unowned") : id \in toDispatch[i]}
    /\ UNCHANGED <<slots, lastUsed, connections, inDispatchLoop,
                   alive, down, offered, arrivals, view>>

\* The end of update(): freeEndedTouchInfos().
EndUpdate ==
    /\ inDispatchLoop /\ \A i \in Items : toDispatch[i] = {}
    /\ inDispatchLoop' = FALSE
    /\ SetSlots(slots, {s \in Slots : InUse(s) /\ Ended(slots[s])})
    /\ events' = {}
    /\ UNCHANGED <<connections, toDispatch, alive, down, offered, arrivals, view>>

\* QQuickWindow has shown the press to every item under it.
PressDelivered ==
    /\ ~inDispatchLoop /\ offered # {}
    /\ offered' = {}
    /\ events' = {}
    /\ UNCHANGED <<registryVars, alive, down, arrivals, view>>

-----------------------------------------------------------------------------
(* The calls items make.                                                   *)

\* QQuickWindow delivers the press to an item under the contact, once.
SeesPress(i, id) ==
    /\ ~inDispatchLoop /\ id \in offered
    /\ i \in alive \cap Under[id] /\ view[i][id] = "None" /\ i \notin ToSet(arrivals[id])

\* An item that sees the press and may want the touch later.
AddCandidateOwnerForTouch(i, id) ==
    /\ SeesPress(i, id)
    /\ \E s \in Slots :
          /\ Finds(s, id)
          /\ IF IsOwned(slots[s])
             THEN UNCHANGED <<slots, connections>>
             ELSE /\ slots' = [slots EXCEPT ![s] = With(@, i, "Undecided")]
                  /\ connections' = connections \cup {<<i, id>>}
    /\ arrivals' = [arrivals EXCEPT ![id] = Append(@, i)]
    /\ view' = Believes(i, id, "Undecided")
    /\ events' = {}
    /\ UNCHANGED <<lastUsed, inDispatchLoop, toDispatch, alive, down, offered>>

\* An item that wants the touch as soon as it sees the press, and accepts the
\* event: the items below are not offered it.
RequestOwnershipOnPress(i, id) ==
    /\ SeesPress(i, id)
    /\ \E s \in Slots :
          /\ Finds(s, id)
          /\ LET info == With(slots[s], i, "InterimOwner") IN
                /\ slots' = [slots EXCEPT ![s] = info]
                /\ events' = Announcement(info, Len(info.candidates))
    /\ connections' = connections \cup {<<i, id>>}
    /\ arrivals' = [arrivals EXCEPT ![id] = Append(@, i)]
    /\ view' = Told(Believes(i, id, "InterimOwner"), events')
    /\ offered' = {}
    /\ UNCHANGED <<lastUsed, inDispatchLoop, toDispatch, alive, down>>

\* An undecided candidate recognises its gesture; in the dispatch loop, from the
\* handler of the event it has been sent.
RequestTouchOwnership(i, id) ==
    /\ id \notin offered /\ i \in alive /\ view[i][id] = "Undecided"
    /\ inDispatchLoop => toDispatch[i] = {}
    /\ \E s \in Slots : \E k \in DOMAIN slots[s].candidates :
          /\ Finds(s, id) /\ CandidateAt(slots[s], k, i)
          /\ LET info == Deciding(slots[s], k) IN
                /\ slots' = [slots EXCEPT ![s] = info]
                /\ events' = Announcement(info, k)
    /\ view' = Told(Believes(i, id, "Requested"), events')
    /\ UNCHANGED <<lastUsed, connections, inDispatchLoop, toDispatch,
                   alive, down, offered, arrivals>>

\* A candidate gives the touch up before it owns it.
RemoveCandidateOwnerForTouch(i, id) ==
    /\ i \in alive /\ Waiting(i, id)
    /\ \E s \in Slots : \E k \in DOMAIN slots[s].candidates :
          /\ Finds(s, id) /\ CandidateAt(slots[s], k, i)
          /\ LET info == Without(slots[s], k) IN
                /\ SetSlots([slots EXCEPT ![s] = info],
                            IF ~inDispatchLoop /\ Ended(info) THEN {s} ELSE {})
                /\ events' = Announcement(info, k)
    /\ connections' = {c \in connections : c[1] # i}
    /\ view' = Told(Believes(i, id, "None"), events')
    /\ UNCHANGED <<inDispatchLoop, toDispatch, alive, down, offered, arrivals>>

\* An item that only wants to hear of the touch.
AddTouchWatcher(i, id) ==
    /\ i \in alive \cap Watchers /\ view[i][id] \in {"None", "Lost"}
    /\ \E s \in Slots :
          /\ Finds(s, id)
          /\ slots' = [slots EXCEPT ![s] = Watched(@, i)]
    /\ events' = {}
    /\ UNCHANGED <<lastUsed, connections, inDispatchLoop, toDispatch,
                   alive, down, offered, arrivals, view>>

-----------------------------------------------------------------------------
(* The inactivity timer and the end of an item.                            *)

\* rejectCandidateOwnerForTouch(), on the timeout of a candidate that has not
\* decided.  Unlike a candidate's own removal it does not free the slot.
RejectCandidateOwnerForTouch(i, id) ==
    /\ Idle /\ i \in alive
    /\ \E s \in Slots : \E k \in DOMAIN slots[s].candidates :
          /\ Finds(s, id) /\ CandidateAt(slots[s], k, i)
          /\ slots[s].candidates[k].inactivityTimer
          /\ k > 1 \/ slots[s].candidates[k].state = "Undecided"
          /\ LET info == Without(slots[s], k) IN
                /\ slots' = [slots EXCEPT ![s] = info]
                /\ events' = {EventTo(i, id, "lost")} \cup Announcement(info, k)
    /\ connections' = {c \in connections : c[1] # i}
    /\ view' = Told(view, events')
    /\ UNCHANGED <<lastUsed, inDispatchLoop, toDispatch,
                   alive, down, offered, arrivals>>

\* The slots as the QPointers see them once item i is gone.
Nulled(q, i) ==
    [k \in DOMAIN q |->
        IF q[k].item = i THEN [q[k] EXCEPT !.item = NoItem] ELSE q[k]]
Orphaned(i) ==
    [s \in Slots |-> [slots[s] EXCEPT !.watchers = @ \ {i},
                                      !.candidates = Nulled(@, i)]]

NullCandidate(info) ==
    \E k \in DOMAIN info.candidates : info.candidates[k].item = NoItem
NullIndex(info) ==
    CHOOSE k \in DOMAIN info.candidates : info.candidates[k].item = NoItem

\* pruneNullCandidatesForTouch() on one slot, which holds one null candidate at
\* most: an item is in a slot once, and the next item is not destroyed before
\* this one is gone from the lists.
Pruned(info) ==
    IF NullCandidate(info) THEN Without(info, NullIndex(info)) ELSE info

\* An item is deleted (from the event loop: deleteLater).  The destroyed()
\* connections that are left prune its null candidacies.
DestroyItem(i) ==
    /\ Idle /\ i \in alive \cap Destroyable
    /\ \A s \in Slots : ~NullCandidate(slots[s])
    /\ LET orphans == Orphaned(i)
           prunes == {s \in Slots : /\ NullCandidate(orphans[s])
                                    /\ \E id \in TouchIds :
                                          <<i, id>> \in connections /\ Finds(s, id)}
           pruned == [s \in Slots |->
                          IF s \in prunes THEN Pruned(orphans[s]) ELSE orphans[s]]
       IN /\ SetSlots(pruned, {s \in prunes : Ended(pruned[s])})
          /\ events' = UNION {Announcement(pruned[s], NullIndex(orphans[s])) :
                                 s \in prunes}
    /\ connections' = {c \in connections : c[1] # i}
    /\ alive' = alive \ {i}
    /\ view' = Told([view EXCEPT ![i] = [id \in TouchIds |-> "None"]], events')
    /\ UNCHANGED <<inDispatchLoop, toDispatch, down, offered, arrivals>>

-----------------------------------------------------------------------------
Next ==
    \/ \E id \in TouchIds : PressTouch(id)
    \/ \E released \in SUBSET TouchIds : UpdateTouches(released)
    \/ \E i \in Items : DispatchPointsToItem(i)
    \/ EndUpdate
    \/ PressDelivered
    \/ \E i \in Items, id \in TouchIds :
          \/ AddCandidateOwnerForTouch(i, id)
          \/ RequestOwnershipOnPress(i, id)
          \/ RequestTouchOwnership(i, id)
          \/ RemoveCandidateOwnerForTouch(i, id)
          \/ AddTouchWatcher(i, id)
          \/ RejectCandidateOwnerForTouch(i, id)
    \/ \E i \in Items : DestroyItem(i)

Spec == Init /\ [][Next]_vars

\* The event loop finishes each event it has started, and runs a timer that
\* is due again and again between the events (timers are served on every
\* pass of the loop, so an endless stream of touch updates cannot starve one).
Fairness ==
    /\ \A i \in Items : WF_vars(DispatchPointsToItem(i))
    /\ WF_vars(EndUpdate)
    /\ WF_vars(PressDelivered)
    /\ \A i \in Items, id \in TouchIds : SF_vars(RejectCandidateOwnerForTouch(i, id))

FairSpec == Spec /\ Fairness

-----------------------------------------------------------------------------
(* What the registry promises.                                             *)

\* No two items believe that they own the same touch: a gain is never announced
\* while an earlier owner is still around (TouchRegistry.h:64-73).
ExclusiveOwnership ==
    \A i, j \in Items : \A id \in TouchIds :
        view[i][id] = "Owner" /\ view[j][id] = "Owner" => i = j

\* An item that still waits for an answer is queued for a touch nobody owns, in
\* the state it put itself in.  So no call of a waiting item meets the qFatal of
\* a touch that is gone, nor the Q_ASSERT(!isOwned()) of
\* requestTouchOwnership(), and nobody is dropped without being told.
NoCandidateForgotten ==
    \A i \in Items, id \in TouchIds : Waiting(i, id) =>
        \E s \in Slots : \E k \in DOMAIN slots[s].candidates :
            /\ Finds(s, id) /\ ~IsOwned(slots[s])
            /\ CandidateAt(slots[s], k, i)
            /\ slots[s].candidates[k].state = view[i][id]

\* The registry and the items agree on the outcome: the head of an owned touch
\* knows it has it, and every other candidate left in the list knows it lost
\* (until the id lands again and the update has not yet freed the old info).
OutcomeKnown ==
    \A s \in Slots : InUse(s) /\ IsOwned(slots[s]) /\ slots[s].id \notin offered =>
        \A k \in DOMAIN slots[s].candidates :
            slots[s].candidates[k].item # NoItem =>
                view[slots[s].candidates[k].item][slots[s].id]
                    = IF k = 1 THEN "Owner" ELSE "Lost"

\* Pool: every touch info is below m_lastUsedIndex, where forEach() finds it, the
\* last used slot is in use, and an id is held twice only until the update that
\* brought the second touch has freed the first.
PoolTight ==
    /\ \A s \in Slots : InUse(s) => s <= lastUsed
    /\ lastUsed # 0 => InUse(lastUsed)
    /\ \A s, t \in Slots : InUse(s) /\ s # t /\ slots[s].id = slots[t].id =>
          inDispatchLoop /\ (Ended(slots[s]) \/ Ended(slots[t]))

\* A candidate gains a touch only when nobody who came to it earlier is left as a
\* candidate ("the first one to call addCandidateOwnerForTouch() will take
\* precedence over the others", TouchRegistry.h:60).
ArrivalOrder ==
    [][\A e \in events' : e.kind = "gained" =>
          \A m, n \in DOMAIN arrivals[e.touch] :
              m < n /\ arrivals[e.touch][n] = e.item =>
                  ~\E s \in Slots : \E k \in DOMAIN slots'[s].candidates :
                      /\ slots'[s].id = e.touch
                      /\ CandidateAt(slots'[s], k, arrivals[e.touch][m])]_vars

\* A null candidate keeps i from the touch: it died undecided after its item gave up
\* another touch, which disconnected destroyed() for this one too (TouchRegistry.cpp:484).
NullAhead(i, id) ==
    \E s \in Slots : \E j, k \in DOMAIN slots[s].candidates :
        /\ Finds(s, id) /\ CandidateAt(slots[s], k, i) /\ j < k
        /\ slots[s].candidates[j].item = NoItem
        /\ slots[s].candidates[j].state = "Undecided"

\* Every candidate is answered: it gains the touch, loses it, or gives it up,
\* because the inactivity timer gets rid of whoever keeps the others waiting; of
\* everyone but a null candidate, whose timeout finds nobody to remove.
EveryCandidateAnswered ==
    \A i \in Items, id \in TouchIds :
        Waiting(i, id) ~> (~Waiting(i, id) \/ NullAhead(i, id))

-----------------------------------------------------------------------------
(* The registry implements TouchOwnership: what an item may know of a touch *)
(* is what the calls it made and the events it was sent have told it.       *)

BeliefOf(v) ==
    CASE v = "None" -> "none"
      [] v = "Undecided" -> "waiting"
      [] v \in {"Requested", "InterimOwner"} -> "asked"
      [] v = "Owner" -> "owner"
      [] v = "Lost" -> "lost"

Ownership == INSTANCE TouchOwnership WITH
    present <- alive,
    belief <- [id \in TouchIds |-> [i \in Items |-> BeliefOf(view[i][id])]]

\* Whatever the order of calls, timeouts, updates and destructions, each step of
\* the registry is one of TouchOwnership: a touch that nobody undecided keeps from
\* those who asked for it is settled in that same step, it goes to one of them and
\* everybody else is told so, nobody who has lost it gets it while all items live,
\* and every undecided candidate is gone in the end.
ImplementsOwnership == Ownership!OwnershipSpec

-----------------------------------------------------------------------------
(* Why that holds: the invariants the proofs are built on.                 *)

\* An info left over from an earlier touch whose id is landing again.
Stale(s) == InUse(s) /\ slots[s].physicallyEnded /\ slots[s].id \in offered
Current(s) == InUse(s) /\ ~Stale(s)

\* An id has one current info.  Those left over are owned or empty, and are gone
\* when the update ends; until then nobody has been offered the touch that lands.
PoolInv ==
    /\ \A s \in Slots : InUse(s) => s <= lastUsed
    /\ lastUsed # 0 => InUse(lastUsed)
    /\ \A s \in Slots : Stale(s) => inDispatchLoop /\ Ended(slots[s])
    /\ \A s, t \in Slots :
          Current(s) /\ Current(t) /\ slots[s].id = slots[t].id => s = t
    /\ inDispatchLoop => \A i \in Items, id \in offered : view[i][id] = "None"

\* The queue of a touch and what the items believe (v) agree.  A queued item is
\* queued once, and knows the outcome; before there is one it believes what it asked
\* for, or has lost the touch to an owner since destroyed.  Whoever waits is queued,
\* and whoever owns is at the head.
Agree(v, info) ==
    /\ \A k \in DOMAIN info.candidates :
          LET c == info.candidates[k] IN
          c.item # NoItem =>
              /\ \A j \in DOMAIN info.candidates :
                    info.candidates[j].item = c.item => j = k
              /\ v[c.item][info.id] \in IF ~IsOwned(info) THEN {c.state, "Lost"}
                                        ELSE IF k = 1 THEN {"Owner"} ELSE {"Lost"}
    /\ \A i \in Items : v[i][info.id] \in CandidateStates =>
          /\ ~IsOwned(info)
          /\ \E k \in DOMAIN info.candidates :
                CandidateAt(info, k, i) /\ info.candidates[k].state = v[i][info.id]
    /\ \A i \in Items : v[i][info.id] = "Owner" => IsOwned(info) /\ CandidateAt(info, 1, i)

\* As long as the press is being delivered nobody has decided.
AllUndecided(info) ==
    \A k \in DOMAIN info.candidates : info.candidates[k].state = "Undecided"

OwnershipInv ==
    /\ \A s \in Slots : Current(s) => Agree(view, slots[s])
    /\ \A s \in Slots : Current(s) /\ slots[s].id \in offered => AllUndecided(slots[s])
    /\ \A i \in Items, id \in TouchIds : Waiting(i, id) =>
          \E s \in Slots : Current(s) /\ slots[s].id = id
    /\ ExclusiveOwnership

\* A queued item is alive, or its death shows, and its timer runs only while it is
\* undecided.
Living(info) ==
    \A k \in DOMAIN info.candidates :
        LET c == info.candidates[k] IN
        /\ c.item \in alive \/ (c.item = NoItem /\ alive # Items)
        /\ c.inactivityTimer => c.state = "Undecided"

\* Everybody in the queue believes what he asked for.
AsAsked(v, info) ==
    \A k \in DOMAIN info.candidates :
        v[info.candidates[k].item][info.id] = info.candidates[k].state

\* As long as no item has been destroyed nobody in the queue of an unowned touch has
\* lost it.
LivingInv ==
    /\ \A s \in Slots : Living(slots[s])
    /\ \A s \in Slots : Current(s) /\ ~IsOwned(slots[s]) /\ alive = Items =>
          AsAsked(view, slots[s])

\* A queue keeps the order a in which its items came to the touch.
InOrder(a, info) ==
    /\ \A k \in DOMAIN info.candidates : info.candidates[k].item # NoItem =>
          \E m \in DOMAIN a : a[m] = info.candidates[k].item
    /\ \A j, k \in DOMAIN info.candidates :
          j < k /\ info.candidates[j].item # NoItem /\ info.candidates[k].item # NoItem =>
              \A m, n \in DOMAIN a :
                  a[m] = info.candidates[j].item /\ a[n] = info.candidates[k].item => m < n

\* An item comes to a touch once, and is queued in its turn.
ArrivalInv ==
    /\ \A id \in TouchIds : \A m, n \in DOMAIN arrivals[id] :
          arrivals[id][m] = arrivals[id][n] => m = n
    /\ \A s \in Slots : Current(s) => InOrder(arrivals[slots[s].id], slots[s])

-----------------------------------------------------------------------------
(* What an assertion says and the code does not do.                         *)

\* Q_ASSERT(!candidate.item.isNull()), which the next update of an unowned touch
\* evaluates for each of its candidates.
NoNullCandidate ==
    \A s \in Slots : InUse(s) /\ ~IsOwned(slots[s]) => ~NullCandidate(slots[s])

=============================================================================
