--------------------------- MODULE TouchOwnership ---------------------------
(***************************************************************************)
(* What the touch registry promises to its items, without its pool, its    *)
(* candidate lists and its dispatch loop.  An item comes to a touch, may   *)
(* ask for it, gives it up or runs out of time; and the same step that     *)
(* leaves a touch to somebody who asked for it makes that one its owner    *)
(* and tells all the others that they lost it.                              *)
(***************************************************************************)
CONSTANTS Items, TouchIds

VARIABLES
    present,   \* items that have not been destroyed
    belief     \* [TouchIds -> [Items -> Beliefs]]: what items have been told

ownershipVars == <<present, belief>>

Beliefs == {"none", "waiting", "asked", "owner", "lost"}

Held(b) == \E i \in Items : b[i] = "owner"
Settled(b, w) ==
    [i \in Items |-> IF i = w /\ w \in present' THEN "owner"
                     ELSE IF b[i] \in {"waiting", "asked"} THEN "lost" ELSE b[i]]

\* Losing is final, until an item has been destroyed: its death may reopen a touch,
\* or leave it to an item that is not there any more, and nobody has it.
Winners(b) ==
    {w \in Items : \/ b[w] = "asked"
                   \/ b[w] = "lost" /\ present' # Items
                   \/ w \notin present'}

\* The touch must be settled when whoever is left has asked for it.
MustSettle(b) ==
    /\ present' = Items /\ ~Held(b)
    /\ \E i \in Items : b[i] = "asked"
    /\ \A i \in Items : b[i] # "waiting"

\* What the items may believe of a touch after a step that leaves it as b.
Outcomes(b) ==
    {c \in {b} : ~MustSettle(b)} \cup {Settled(b, w) : w \in {v \in Winners(b) : ~Held(b)}}

Becomes(i, id, from, to) ==
    /\ belief[id][i] \in from
    /\ \E b \in Outcomes([belief[id] EXCEPT ![i] = to]) : belief' = [belief EXCEPT ![id] = b]

Land(id) ==
    /\ belief' = [belief EXCEPT ![id] = [i \in Items |-> "none"]]
    /\ UNCHANGED present

Come(i, id) == UNCHANGED present /\ Becomes(i, id, {"none"}, "waiting")
Ask(i, id) == UNCHANGED present /\ Becomes(i, id, {"none", "waiting"}, "asked")
GiveUp(i, id) == UNCHANGED present /\ Becomes(i, id, {"waiting", "asked"}, "none")
TimeOut(i, id) == UNCHANGED present /\ Becomes(i, id, {"waiting"}, "lost")

\* The item behind a reopened touch runs out of time once more: it was told already.
Reopen(id) ==
    /\ UNCHANGED present
    /\ \E b \in Outcomes(belief[id]) : belief' = [belief EXCEPT ![id] = b]

Leave(i) ==
    /\ i \in present
    /\ present' = present \ {i}
    /\ belief' \in [TouchIds -> [Items -> Beliefs]]
    /\ \A id \in TouchIds : belief'[id] \in Outcomes([belief[id] EXCEPT ![i] = "none"])

OwnershipInit ==
    /\ present = Items
    /\ belief = [id \in TouchIds |-> [i \in Items |-> "none"]]

OwnershipNext ==
    \/ \E id \in TouchIds : Land(id) \/ Reopen(id)
    \/ \E i \in Items, id \in TouchIds :
          Come(i, id) \/ Ask(i, id) \/ GiveUp(i, id) \/ TimeOut(i, id)
    \/ \E i \in Items : Leave(i)

OwnershipSteps == OwnershipInit /\ [][OwnershipNext]_ownershipVars

\* Nobody keeps the others waiting for ever.
OwnershipSpec ==
    /\ OwnershipSteps
    /\ \A i \in Items, id \in TouchIds : WF_ownershipVars(TimeOut(i, id))

=============================================================================
