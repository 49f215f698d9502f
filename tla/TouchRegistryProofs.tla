------------------------- MODULE TouchRegistryProofs -------------------------
(***************************************************************************)
(* Theorems about the touch registry, for every set of items and touches.  *)
(* Its states are well typed; in the pool an id has one current info, and  *)
(* the search of the pool reaches every info.  A touch is owned by one     *)
(* item, the head of its queue; nobody who waits is forgotten; and what    *)
(* the registry holds and what the items have been told agree.  Nobody     *)
(* gains a touch before somebody who came to it earlier and is still a     *)
(* candidate, and every step is one of TouchOwnership or a stutter.        *)
(***************************************************************************)
EXTENDS TouchRegistry, SequenceTheorems, TLAPS

USE DestroyableAssumption, WatchersAssumption, NoItemAssumption,
    NoTouchAssumption, MaxSlotsAssumption

-----------------------------------------------------------------------------
(* Sequences without one of their elements.                                *)

LEMMA RemoveAtProperties ==
    ASSUME NEW S, NEW q \in Seq(S), NEW k \in 1..Len(q)
    PROVE  /\ RemoveAt(q, k) \in Seq(S)
           /\ Len(RemoveAt(q, k)) = Len(q) - 1
           /\ DOMAIN RemoveAt(q, k) = 1..(Len(q) - 1)
           /\ \A j \in 1..(Len(q) - 1) :
                 RemoveAt(q, k)[j] = IF j < k THEN q[j] ELSE q[j + 1]
<1> DEFINE front == SubSeq(q, 1, k - 1)
           back == SubSeq(q, k + 1, Len(q))
<1>1. /\ front \in Seq(S) /\ Len(front) = k - 1
      /\ \A j \in 1..(k - 1) : front[j] = q[j]
  OBVIOUS
<1>2. /\ back \in Seq(S) /\ Len(back) = Len(q) - k
      /\ \A j \in 1..(Len(q) - k) : back[j] = q[k + j]
  OBVIOUS
<1>3. RemoveAt(q, k) = front \o back
  BY DEF RemoveAt
<1> HIDE DEF front, back
<1>4. /\ front \o back \in Seq(S)
      /\ Len(front \o back) = Len(q) - 1
  BY <1>1, <1>2, ConcatProperties
<1>5. ASSUME NEW j \in 1..(Len(q) - 1)
      PROVE  (front \o back)[j] = IF j < k THEN q[j] ELSE q[j + 1]
  <2>0. Len(q) \in Nat /\ k \in Nat /\ j \in Nat
    OBVIOUS
  <2>1. (front \o back)[j] = IF j <= k - 1 THEN front[j] ELSE back[j - (k - 1)]
    BY <1>1, <1>2, ConcatProperties
  <2>2. CASE j < k
    BY <1>1, <2>0, <2>1, <2>2
  <2>3. CASE ~(j < k)
    BY <1>2, <2>0, <2>1, <2>3
  <2> QED
    BY <2>2, <2>3
<1> QED
  BY <1>3, <1>4, <1>5, LenProperties

-----------------------------------------------------------------------------
(* What the helpers of the registry return.                                *)

LEMMA WithoutProperties ==
    ASSUME NEW info \in TouchInfo, NEW k \in DOMAIN info.candidates
    PROVE  /\ Without(info, k) \in TouchInfo
           /\ Without(info, k).id = info.id
           /\ Without(info, k).physicallyEnded = info.physicallyEnded
           /\ Without(info, k).watchers = info.watchers
           /\ DOMAIN Without(info, k).candidates = 1..(Len(info.candidates) - 1)
           /\ \A j \in 1..(Len(info.candidates) - 1) :
                 Without(info, k).candidates[j]
                     = info.candidates[IF j < k THEN j ELSE j + 1]
<1>1. info.candidates \in Seq(CandidateInfo) /\ k \in 1..Len(info.candidates)
  BY LenProperties DEF TouchInfo
<1>2. RemoveAt(info.candidates, k) \in Seq(CandidateInfo)
  BY <1>1, RemoveAtProperties
<1>3. Without(info, k).candidates = RemoveAt(info.candidates, k)
  BY DEF Without, TouchInfo
<1>4. /\ Without(info, k) \in TouchInfo
      /\ Without(info, k).id = info.id
      /\ Without(info, k).physicallyEnded = info.physicallyEnded
      /\ Without(info, k).watchers = info.watchers
  BY <1>2 DEF Without, TouchInfo
<1>5. /\ DOMAIN RemoveAt(info.candidates, k) = 1..(Len(info.candidates) - 1)
      /\ \A j \in 1..(Len(info.candidates) - 1) :
            RemoveAt(info.candidates, k)[j] =
              IF j < k THEN info.candidates[j] ELSE info.candidates[j + 1]
  BY <1>1, RemoveAtProperties
<1>6. ASSUME NEW j \in 1..(Len(info.candidates) - 1)
      PROVE  Without(info, k).candidates[j]
                 = info.candidates[IF j < k THEN j ELSE j + 1]
  BY <1>3, <1>5, <1>6
<1> QED
  BY <1>3, <1>4, <1>5, <1>6

LEMMA ResolutionType ==
    ASSUME NEW info \in TouchInfo, info.id \in TouchIds, IsOwned(info)
    PROVE  Resolution(info) \subseteq Event
<1>1. /\ info.candidates \in Seq(CandidateInfo)
      /\ 1 \in 1..Len(info.candidates)
  BY EmptySeq DEF TouchInfo, IsOwned
<1>2. \A k \in 1..Len(info.candidates) :
        /\ info.candidates[k] \in CandidateInfo
        /\ info.candidates[k].item # NoItem => info.candidates[k].item \in Items
  <2>1. ASSUME NEW k \in 1..Len(info.candidates)
        PROVE  info.candidates[k] \in CandidateInfo
    BY <1>1, ElementOfSeq
  <2> QED
    BY <2>1 DEF CandidateInfo
<1> QED
  BY <1>1, <1>2 DEF Resolution, EventTo, Event, Kinds

LEMMA AnnouncementType ==
    ASSUME NEW info \in TouchInfo, info.id \in TouchIds, NEW k
    PROVE  Announcement(info, k) \subseteq Event
BY ResolutionType DEF Announcement

LEMMA ToldType ==
    ASSUME NEW v \in [Items -> [TouchIds -> Views]], NEW E
    PROVE  Told(v, E) \in [Items -> [TouchIds -> Views]]
BY DEF Told, Views

LEMMA BelievesType ==
    ASSUME TypeOK, NEW i \in Items, NEW id \in TouchIds, NEW what \in Views
    PROVE  Believes(i, id, what) \in [Items -> [TouchIds -> Views]]
BY DEF Believes, TypeOK

LEMMA ArrivalType ==
    ASSUME TypeOK, NEW i \in Items, NEW id \in TouchIds
    PROVE  [arrivals EXCEPT ![id] = Append(@, i)] \in [TouchIds -> Seq(Items)]
<1>1. Append(arrivals[id], i) \in Seq(Items)
  BY AppendProperties DEF TypeOK
<1> QED
  BY <1>1 DEF TypeOK

LEMMA EmptyInfoType ==
    /\ EmptyInfo \in TouchInfo
    /\ \A id \in TouchIds : NewInfo(id) \in TouchInfo /\ NewInfo(id).id = id
<1>1. <<>> \in Seq(CandidateInfo)
  BY EmptySeq
<1>2. EmptyInfo \in TouchInfo
  BY <1>1 DEF EmptyInfo, TouchInfo
<1>3. ASSUME NEW id \in TouchIds
      PROVE  NewInfo(id) \in TouchInfo /\ NewInfo(id).id = id
  BY <1>1 DEF EmptyInfo, NewInfo, TouchInfo
<1> QED
  BY <1>2, <1>3

LEMMA SetSlotsType ==
    ASSUME TypeOK, NEW f \in [Slots -> TouchInfo], NEW F, SetSlots(f, F)
    PROVE  slots' \in [Slots -> TouchInfo] /\ lastUsed' \in 0..MaxSlots
BY EmptyInfoType DEF SetSlots, TypeOK, Slots

LEMMA WithProperties ==
    ASSUME NEW info \in TouchInfo, NEW i \in Items, NEW st \in CandidateStates
    PROVE  /\ With(info, i, st) \in TouchInfo
           /\ With(info, i, st).id = info.id
           /\ With(info, i, st).physicallyEnded = info.physicallyEnded
           /\ DOMAIN With(info, i, st).candidates = 1..(Len(info.candidates) + 1)
           /\ \A j \in DOMAIN info.candidates :
                 With(info, i, st).candidates[j] = info.candidates[j]
           /\ With(info, i, st).candidates[Len(info.candidates) + 1].item = i
           /\ With(info, i, st).candidates[Len(info.candidates) + 1].state = st
           /\ With(info, i, st).candidates[Len(info.candidates) + 1].inactivityTimer
                 = (st = "Undecided")
<1> DEFINE c == [item |-> i, state |-> st, inactivityTimer |-> (st = "Undecided")]
<1>1. info.candidates \in Seq(CandidateInfo) /\ c \in CandidateInfo
  BY DEF TouchInfo, CandidateInfo
<1>2. c.item = i /\ c.state = st /\ c.inactivityTimer = (st = "Undecided")
  OBVIOUS
<1>3. With(info, i, st) = [info EXCEPT !.candidates = Append(@, c)]
  BY DEF With
<1> HIDE DEF c
<1>4. /\ Append(info.candidates, c) \in Seq(CandidateInfo)
      /\ DOMAIN Append(info.candidates, c) = 1..(Len(info.candidates) + 1)
      /\ \A j \in 1..Len(info.candidates) :
            Append(info.candidates, c)[j] = info.candidates[j]
      /\ Append(info.candidates, c)[Len(info.candidates) + 1] = c
  BY <1>1, AppendProperties, LenProperties
<1>5. /\ With(info, i, st) \in TouchInfo
      /\ With(info, i, st).id = info.id
      /\ With(info, i, st).physicallyEnded = info.physicallyEnded
      /\ With(info, i, st).candidates = Append(info.candidates, c)
  BY <1>3, <1>4 DEF TouchInfo
<1> QED
  BY <1>1, <1>2, <1>4, <1>5, LenProperties

LEMMA MarkProperties ==
    ASSUME NEW info \in TouchInfo, NEW i \in Items
    PROVE  /\ Watched(info, i) \in TouchInfo
           /\ Watched(info, i).id = info.id
           /\ Watched(info, i).physicallyEnded = info.physicallyEnded
           /\ Watched(info, i).candidates = info.candidates
BY DEF TouchInfo, Watched

LEMMA EndedPhysicallyProperties ==
    ASSUME NEW info \in TouchInfo
    PROVE  /\ EndedPhysically(info) \in TouchInfo
           /\ EndedPhysically(info).id = info.id
           /\ EndedPhysically(info).physicallyEnded = TRUE
           /\ EndedPhysically(info).candidates = info.candidates
BY DEF TouchInfo, EndedPhysically

LEMMA DecidingProperties ==
    ASSUME NEW info \in TouchInfo, NEW k \in DOMAIN info.candidates
    PROVE  /\ Deciding(info, k) \in TouchInfo
           /\ Deciding(info, k).id = info.id
           /\ Deciding(info, k).physicallyEnded = info.physicallyEnded
           /\ DOMAIN Deciding(info, k).candidates = DOMAIN info.candidates
           /\ \A j \in DOMAIN info.candidates :
                 /\ Deciding(info, k).candidates[j].item = info.candidates[j].item
                 /\ Deciding(info, k).candidates[j].state =
                       IF j = k THEN "Requested" ELSE info.candidates[j].state
                 /\ Deciding(info, k).candidates[j].inactivityTimer =
                       IF j = k THEN FALSE ELSE info.candidates[j].inactivityTimer
<1> DEFINE c == [item |-> info.candidates[k].item, state |-> "Requested",
                 inactivityTimer |-> FALSE]
<1>1. info.candidates \in Seq(CandidateInfo) /\ k \in 1..Len(info.candidates)
  BY LenProperties DEF TouchInfo
<1>2. info.candidates[k] \in CandidateInfo
  BY <1>1, ElementOfSeq
<1>3. /\ c \in CandidateInfo
      /\ c.state = "Requested" /\ c.item = info.candidates[k].item
      /\ c.inactivityTimer = FALSE
  BY <1>2 DEF CandidateInfo, CandidateStates
<1>4. Deciding(info, k) = [info EXCEPT !.candidates[k] = c]
  BY DEF Deciding
<1> HIDE DEF c
<1>5. /\ [info.candidates EXCEPT ![k] = c] \in Seq(CandidateInfo)
      /\ DOMAIN [info.candidates EXCEPT ![k] = c] = DOMAIN info.candidates
      /\ \A j \in 1..Len(info.candidates) :
            [info.candidates EXCEPT ![k] = c][j] =
                IF j = k THEN c ELSE info.candidates[j]
  BY <1>1, <1>3, ExceptSeq
<1>6. /\ Deciding(info, k) \in TouchInfo
      /\ Deciding(info, k).id = info.id
      /\ Deciding(info, k).physicallyEnded = info.physicallyEnded
      /\ Deciding(info, k).candidates = [info.candidates EXCEPT ![k] = c]
  BY <1>4, <1>5 DEF TouchInfo
<1> QED
  BY <1>1, <1>3, <1>5, <1>6, LenProperties

-----------------------------------------------------------------------------
(* Type correctness.                                                       *)

LEMMA OrphanedType ==
    ASSUME TypeOK, NEW i \in Items
    PROVE  /\ Orphaned(i) \in [Slots -> TouchInfo]
           /\ \A s \in Slots :
                 /\ Orphaned(i)[s].id = slots[s].id
                 /\ Orphaned(i)[s].physicallyEnded = slots[s].physicallyEnded
                 /\ DOMAIN Orphaned(i)[s].candidates = DOMAIN slots[s].candidates
                 /\ \A k \in DOMAIN slots[s].candidates :
                       /\ Orphaned(i)[s].candidates[k].state
                            = slots[s].candidates[k].state
                       /\ Orphaned(i)[s].candidates[k].inactivityTimer
                            = slots[s].candidates[k].inactivityTimer
                       /\ Orphaned(i)[s].candidates[k].item
                            = IF slots[s].candidates[k].item = i THEN NoItem
                              ELSE slots[s].candidates[k].item
<1>1. ASSUME NEW q \in Seq(CandidateInfo)
      PROVE  /\ Nulled(q, i) \in Seq(CandidateInfo)
             /\ DOMAIN Nulled(q, i) = DOMAIN q
             /\ \A k \in DOMAIN q :
                   /\ Nulled(q, i)[k].state = q[k].state
                   /\ Nulled(q, i)[k].inactivityTimer = q[k].inactivityTimer
                   /\ Nulled(q, i)[k].item = IF q[k].item = i THEN NoItem ELSE q[k].item
  <2>1. DOMAIN q = 1..Len(q) /\ Len(q) \in Nat
    BY LenProperties
  <2>2. ASSUME NEW k \in DOMAIN q
        PROVE  /\ Nulled(q, i)[k] \in CandidateInfo
               /\ Nulled(q, i)[k].state = q[k].state
               /\ Nulled(q, i)[k].inactivityTimer = q[k].inactivityTimer
               /\ Nulled(q, i)[k].item = IF q[k].item = i THEN NoItem ELSE q[k].item
    <3>1. q[k] \in CandidateInfo
      BY <2>1, ElementOfSeq
    <3> QED
      BY <3>1 DEF CandidateInfo, Nulled
  <2>3. DOMAIN Nulled(q, i) = DOMAIN q
    BY DEF Nulled
  <2>4. Nulled(q, i) \in [1..Len(q) -> CandidateInfo]
    BY <2>1, <2>2, <2>3 DEF Nulled
  <2> QED
    BY <2>1, <2>2, <2>3, <2>4, SeqDef
<1>2. ASSUME NEW s \in Slots
      PROVE  /\ Orphaned(i)[s] \in TouchInfo
             /\ Orphaned(i)[s].id = slots[s].id
             /\ Orphaned(i)[s].physicallyEnded = slots[s].physicallyEnded
             /\ Orphaned(i)[s].candidates = Nulled(slots[s].candidates, i)
             /\ slots[s].candidates \in Seq(CandidateInfo)
  <2>1. slots[s] \in TouchInfo
    BY DEF TypeOK
  <2>2. Nulled(slots[s].candidates, i) \in Seq(CandidateInfo)
    BY <1>1, <2>1 DEF TouchInfo
  <2>3. Orphaned(i)[s] = [slots[s] EXCEPT !.watchers = @ \ {i},
                                         !.candidates = Nulled(@, i)]
    BY DEF Orphaned
  <2> QED
    BY <2>1, <2>2, <2>3 DEF TouchInfo
<1>3. Orphaned(i) \in [Slots -> TouchInfo]
  <2>1. Orphaned(i) = [s \in Slots |-> Orphaned(i)[s]]
    BY DEF Orphaned
  <2> QED
    BY <1>2, <2>1
<1> QED
  BY <1>1, <1>2, <1>3

LEMMA PrunedType ==
    ASSUME NEW info \in TouchInfo
    PROVE  /\ Pruned(info) \in TouchInfo
           /\ Pruned(info).id = info.id
           /\ Pruned(info).physicallyEnded = info.physicallyEnded
<1>1. CASE NullCandidate(info)
  BY <1>1, WithoutProperties DEF Pruned, NullCandidate, NullIndex
<1>2. CASE ~NullCandidate(info)
  BY <1>2 DEF Pruned
<1> QED
  BY <1>1, <1>2

LEMMA DispatchType ==
    ASSUME NEW f, NEW points \in SUBSET TouchIds, BuildDispatch(f, points)
    PROVE  toDispatch' \in [Items -> SUBSET TouchIds] /\ inDispatchLoop' \in BOOLEAN
BY DEF BuildDispatch

LEMMA TypeInductive ==
    ASSUME TypeOK, [Next]_vars
    PROVE  TypeOK'
<1>1. ASSUME NEW id \in TouchIds, PressTouch(id)
      PROVE  TypeOK'
  <2>1. slots' \in [Slots -> TouchInfo] /\ lastUsed' \in 0..MaxSlots
    BY <1>1, EmptyInfoType DEF PressTouch, TypeOK, Slots
  <2>2. toDispatch' \in [Items -> SUBSET TouchIds] /\ inDispatchLoop' \in BOOLEAN
    BY <1>1, DispatchType DEF PressTouch, TypeOK
  <2>3. arrivals' \in [TouchIds -> Seq(Items)]
    BY <1>1, EmptySeq DEF PressTouch, TypeOK
  <2> QED
    BY <1>1, <2>1, <2>2, <2>3 DEF PressTouch, TypeOK, Views
<1>2. ASSUME NEW released \in SUBSET TouchIds, UpdateTouches(released)
      PROVE  TypeOK'
  <2>1. slots' \in [Slots -> TouchInfo]
    <3>1. \A s \in Slots : EndedPhysically(slots[s]) \in TouchInfo
      BY EndedPhysicallyProperties DEF TypeOK
    <3> QED
      BY <1>2, <3>1 DEF UpdateTouches, TypeOK
  <2>2. toDispatch' \in [Items -> SUBSET TouchIds] /\ inDispatchLoop' \in BOOLEAN
    BY <1>2, DispatchType DEF UpdateTouches, TypeOK
  <2> QED
    BY <1>2, <2>1, <2>2 DEF UpdateTouches, TypeOK
<1>3. ASSUME NEW i \in Items, DispatchPointsToItem(i)
      PROVE  TypeOK'
  BY <1>3 DEF DispatchPointsToItem, TypeOK, Event, EventTo, Kinds
<1>4. CASE EndUpdate
  BY <1>4, SetSlotsType DEF EndUpdate, TypeOK
<1>5. CASE PressDelivered
  BY <1>5 DEF PressDelivered, TypeOK, registryVars
<1>6. ASSUME NEW i \in Items, NEW id \in TouchIds, AddCandidateOwnerForTouch(i, id)
      PROVE  TypeOK'
  <2>1. slots' \in [Slots -> TouchInfo]
    <3>1. \A s \in Slots : With(slots[s], i, "Undecided") \in TouchInfo
      <4>1. "Undecided" \in CandidateStates
        BY DEF CandidateStates
      <4>2. \A s \in Slots : slots[s] \in TouchInfo
        BY DEF TypeOK
      <4> QED
        BY <4>1, <4>2, WithProperties
    <3> QED
      <4>1. PICK s \in Slots :
              \/ slots' = slots
              \/ slots' = [slots EXCEPT ![s] = With(@, i, "Undecided")]
        BY <1>6 DEF AddCandidateOwnerForTouch
      <4> QED
        BY <3>1, <4>1 DEF TypeOK
  <2>2. connections' \subseteq Items \X TouchIds
    BY <1>6 DEF AddCandidateOwnerForTouch, TypeOK
  <2>3. view' \in [Items -> [TouchIds -> Views]]
    BY <1>6, BelievesType DEF AddCandidateOwnerForTouch, Views, CandidateStates
  <2>4. arrivals' \in [TouchIds -> Seq(Items)]
    BY <1>6, ArrivalType DEF AddCandidateOwnerForTouch
  <2> QED
    BY <1>6, <2>1, <2>2, <2>3, <2>4 DEF AddCandidateOwnerForTouch, TypeOK
<1>7. ASSUME NEW i \in Items, NEW id \in TouchIds, RequestOwnershipOnPress(i, id)
      PROVE  TypeOK'
  <2> DEFINE info(s) == With(slots[s], i, "InterimOwner")
  <2>1. PICK s \in Slots :
          /\ Finds(s, id)
          /\ slots' = [slots EXCEPT ![s] = info(s)]
          /\ events' = Announcement(info(s), Len(info(s).candidates))
    BY <1>7 DEF RequestOwnershipOnPress
  <2>2. info(s) \in TouchInfo /\ info(s).id = id
    BY <2>1, WithProperties DEF TypeOK, Finds, CandidateStates
  <2> HIDE DEF info
  <2>3. slots' \in [Slots -> TouchInfo] /\ events' \subseteq Event
    BY <2>1, <2>2, AnnouncementType DEF TypeOK
  <2>4. view' \in [Items -> [TouchIds -> Views]]
    <3>1. view' = Told(Believes(i, id, "InterimOwner"), events')
      BY <1>7 DEF RequestOwnershipOnPress
    <3>2. Believes(i, id, "InterimOwner") \in [Items -> [TouchIds -> Views]]
      BY BelievesType DEF Views, CandidateStates
    <3> QED
      BY <3>1, <3>2, ToldType
  <2>5. connections' \subseteq Items \X TouchIds
    BY <1>7 DEF RequestOwnershipOnPress, TypeOK
  <2>6. arrivals' \in [TouchIds -> Seq(Items)]
    BY <1>7, ArrivalType DEF RequestOwnershipOnPress
  <2> QED
    BY <1>7, <2>3, <2>4, <2>5, <2>6 DEF RequestOwnershipOnPress, TypeOK
<1>8. ASSUME NEW i \in Items, NEW id \in TouchIds, RequestTouchOwnership(i, id)
      PROVE  TypeOK'
  <2> DEFINE info(s, k) == Deciding(slots[s], k)
  <2>0. PICK s \in Slots : \E k \in DOMAIN slots[s].candidates :
          /\ Finds(s, id)
          /\ slots' = [slots EXCEPT ![s] = info(s, k)]
          /\ events' = Announcement(info(s, k), k)
    BY <1>8 DEF RequestTouchOwnership
  <2>1. PICK k \in DOMAIN slots[s].candidates :
          /\ Finds(s, id)
          /\ slots' = [slots EXCEPT ![s] = info(s, k)]
          /\ events' = Announcement(info(s, k), k)
    BY <2>0
  <2>2. info(s, k) \in TouchInfo /\ info(s, k).id = id
    BY <2>1, DecidingProperties DEF TypeOK, Finds
  <2> HIDE DEF info
  <2>3. slots' \in [Slots -> TouchInfo] /\ events' \subseteq Event
    BY <2>1, <2>2, AnnouncementType DEF TypeOK
  <2>4. view' \in [Items -> [TouchIds -> Views]]
    <3>1. view' = Told(Believes(i, id, "Requested"), events')
      BY <1>8 DEF RequestTouchOwnership
    <3>2. Believes(i, id, "Requested") \in [Items -> [TouchIds -> Views]]
      BY BelievesType DEF Views, CandidateStates
    <3> QED
      BY <3>1, <3>2, ToldType
  <2> QED
    BY <1>8, <2>3, <2>4 DEF RequestTouchOwnership, TypeOK
<1>9. ASSUME NEW i \in Items, NEW id \in TouchIds, RemoveCandidateOwnerForTouch(i, id)
      PROVE  TypeOK'
  <2> DEFINE info(s, k) == Without(slots[s], k)
  <2>0. PICK s \in Slots : \E k \in DOMAIN slots[s].candidates :
          /\ Finds(s, id)
          /\ SetSlots([slots EXCEPT ![s] = info(s, k)],
                      IF ~inDispatchLoop /\ Ended(info(s, k)) THEN {s} ELSE {})
          /\ events' = Announcement(info(s, k), k)
    BY <1>9 DEF RemoveCandidateOwnerForTouch
  <2>1. PICK k \in DOMAIN slots[s].candidates :
          /\ Finds(s, id)
          /\ SetSlots([slots EXCEPT ![s] = info(s, k)],
                      IF ~inDispatchLoop /\ Ended(info(s, k)) THEN {s} ELSE {})
          /\ events' = Announcement(info(s, k), k)
    BY <2>0
  <2>2. info(s, k) \in TouchInfo /\ info(s, k).id = id
    BY <2>1, WithoutProperties DEF TypeOK, Finds
  <2>3. slots' \in [Slots -> TouchInfo] /\ lastUsed' \in 0..MaxSlots
    <3>1. [slots EXCEPT ![s] = info(s, k)] \in [Slots -> TouchInfo]
      BY <2>2 DEF TypeOK
    <3> QED
      BY <2>1, <3>1, SetSlotsType
  <2>4. events' \subseteq Event
    BY <2>1, <2>2, AnnouncementType
  <2>5. view' \in [Items -> [TouchIds -> Views]]
    <3>1. view' = Told(Believes(i, id, "None"), events')
      BY <1>9 DEF RemoveCandidateOwnerForTouch
    <3>2. Believes(i, id, "None") \in [Items -> [TouchIds -> Views]]
      BY BelievesType DEF Views
    <3> QED
      BY <3>1, <3>2, ToldType
  <2> HIDE DEF info
  <2> QED
    BY <1>9, <2>3, <2>4, <2>5 DEF RemoveCandidateOwnerForTouch, TypeOK
<1>10. ASSUME NEW i \in Items, NEW id \in TouchIds, AddTouchWatcher(i, id)
       PROVE  TypeOK'
  <2>1. slots' \in [Slots -> TouchInfo]
    <3>1. \A s \in Slots : Watched(slots[s], i) \in TouchInfo
      BY MarkProperties DEF TypeOK
    <3> QED
      BY <1>10, <3>1 DEF AddTouchWatcher, TypeOK
  <2> QED
    BY <1>10, <2>1 DEF AddTouchWatcher, TypeOK
<1>11. ASSUME NEW i \in Items, NEW id \in TouchIds, RejectCandidateOwnerForTouch(i, id)
       PROVE  TypeOK'
  <2> DEFINE info(s, k) == Without(slots[s], k)
  <2>0. PICK s \in Slots : \E k \in DOMAIN slots[s].candidates :
          /\ Finds(s, id)
          /\ slots' = [slots EXCEPT ![s] = info(s, k)]
          /\ events' = {EventTo(i, id, "lost")} \cup Announcement(info(s, k), k)
    BY <1>11 DEF RejectCandidateOwnerForTouch
  <2>1. PICK k \in DOMAIN slots[s].candidates :
          /\ Finds(s, id)
          /\ slots' = [slots EXCEPT ![s] = info(s, k)]
          /\ events' = {EventTo(i, id, "lost")} \cup Announcement(info(s, k), k)
    BY <2>0
  <2>2. info(s, k) \in TouchInfo /\ info(s, k).id = id
    BY <2>1, WithoutProperties DEF TypeOK, Finds
  <2>3. slots' \in [Slots -> TouchInfo]
    BY <2>1, <2>2 DEF TypeOK
  <2>4. events' \subseteq Event
    <3>1. EventTo(i, id, "lost") \in Event
      BY DEF EventTo, Event, Kinds
    <3> QED
      BY <2>1, <2>2, <3>1, AnnouncementType
  <2>5. view' \in [Items -> [TouchIds -> Views]]
    BY <1>11, ToldType DEF RejectCandidateOwnerForTouch, TypeOK
  <2> HIDE DEF info
  <2> QED
    BY <1>11, <2>3, <2>4, <2>5 DEF RejectCandidateOwnerForTouch, TypeOK
<1>12. ASSUME NEW i \in Items, DestroyItem(i)
       PROVE  TypeOK'
  <2> DEFINE prunes == {s \in Slots : /\ NullCandidate(Orphaned(i)[s])
                                      /\ \E id \in TouchIds :
                                           <<i, id>> \in connections /\ Finds(s, id)}
             pruned == [s \in Slots |-> IF s \in prunes THEN Pruned(Orphaned(i)[s])
                                                       ELSE Orphaned(i)[s]]
  <2>1. /\ SetSlots(pruned, {s \in prunes : Ended(pruned[s])})
        /\ events' = UNION {Announcement(pruned[s], NullIndex(Orphaned(i)[s])) :
                               s \in prunes}
        /\ view' = Told([view EXCEPT ![i] = [id \in TouchIds |-> "None"]], events')
        /\ connections' = {c \in connections : c[1] # i}
        /\ alive' = alive \ {i}
        /\ UNCHANGED <<inDispatchLoop, toDispatch, down, offered, arrivals>>
    BY <1>12 DEF DestroyItem
  <2>2. pruned \in [Slots -> TouchInfo]
    <3>1. \A s \in Slots : Orphaned(i)[s] \in TouchInfo
      BY OrphanedType
    <3>2. \A s \in Slots : Pruned(Orphaned(i)[s]) \in TouchInfo
      BY <3>1, PrunedType
    <3> QED
      BY <3>1, <3>2
  <2>3. ASSUME NEW s \in prunes
        PROVE  pruned[s] \in TouchInfo /\ pruned[s].id \in TouchIds
    <3>0. s \in Slots /\ slots[s].id \in TouchIds
      BY DEF Finds
    <3>1. /\ Orphaned(i)[s] \in TouchInfo
          /\ Orphaned(i)[s].id \in TouchIds
      BY <3>0, OrphanedType
    <3> QED
      BY <3>1, PrunedType
  <2> HIDE DEF prunes, pruned
  <2>4. slots' \in [Slots -> TouchInfo] /\ lastUsed' \in 0..MaxSlots
    BY <2>1, <2>2, SetSlotsType
  <2>5. events' \subseteq Event
    <3>1. \A s \in prunes : Announcement(pruned[s], NullIndex(Orphaned(i)[s])) \subseteq Event
      BY <2>3, AnnouncementType
    <3> QED
      BY <2>1, <3>1
  <2>6. view' \in [Items -> [TouchIds -> Views]]
    <3>1. [view EXCEPT ![i] = [id \in TouchIds |-> "None"]]
            \in [Items -> [TouchIds -> Views]]
      BY DEF TypeOK, Views
    <3> QED
      BY <2>1, <3>1, ToldType
  <2> QED
    BY <2>1, <2>4, <2>5, <2>6 DEF TypeOK
<1>13. CASE UNCHANGED vars
  BY <1>13 DEF vars, registryVars, worldVars, TypeOK
<1> QED
  BY <1>1, <1>2, <1>3, <1>4, <1>5, <1>6, <1>7, <1>8, <1>9, <1>10, <1>11, <1>12,
     <1>13 DEF Next

\* The state of the registry and of its users stays well typed in every behaviour.
THEOREM TypeCorrect == Spec => []TypeOK
<1>1. Init => TypeOK
  <2>1. ASSUME Init PROVE slots \in [Slots -> TouchInfo]
    BY <2>1, EmptyInfoType DEF Init
  <2>2. ASSUME Init PROVE view \in [Items -> [TouchIds -> Views]]
    BY <2>2 DEF Init, Views
  <2>3. 0 \in 0..MaxSlots
    OBVIOUS
  <2>4. ASSUME Init PROVE arrivals \in [TouchIds -> Seq(Items)]
    BY <2>4, EmptySeq DEF Init
  <2> QED
    BY <2>1, <2>2, <2>3, <2>4 DEF Init, TypeOK
<1>2. TypeOK /\ [Next]_vars => TypeOK'
  BY TypeInductive
<1> QED
  BY <1>1, <1>2, PTL DEF Spec

-----------------------------------------------------------------------------
(* What a step's events change.                                            *)

LEMMA AnnouncementTouch ==
    ASSUME NEW info, NEW k, NEW e \in Announcement(info, k)
    PROVE  e.touch = info.id
BY DEF Announcement, Resolution, EventTo

\* Events about one touch leave what the items believe about the others.
LEMMA ToldOthers ==
    ASSUME NEW v \in [Items -> [TouchIds -> Views]], NEW E, NEW id \in TouchIds,
           \A e \in E : e.touch # id
    PROVE  \A i \in Items : Told(v, E)[i][id] = v[i][id]
<1>1. ASSUME NEW i \in Items PROVE Told(v, E)[i][id] = v[i][id]
  <2>1. EventTo(i, id, "gained") \notin E /\ EventTo(i, id, "lost") \notin E
    BY DEF EventTo
  <2> QED
    BY <2>1 DEF Told
<1> QED
  BY <1>1

LEMMA BelievesOthers ==
    ASSUME TypeOK, NEW i \in Items, NEW id \in TouchIds, NEW what \in Views
    PROVE  /\ Believes(i, id, what)[i][id] = what
           /\ \A j \in Items, other \in TouchIds :
                 j # i \/ other # id => Believes(i, id, what)[j][other] = view[j][other]
BY DEF Believes, TypeOK

-----------------------------------------------------------------------------
(* The two ways a step changes the pool.                                   *)

\* Infos change, but none comes, goes or ends.
LEMMA PoolKept ==
    ASSUME TypeOK, PoolInv,
           \A s \in Slots : /\ slots'[s].id = slots[s].id
                            /\ slots'[s].physicallyEnded = slots[s].physicallyEnded
                            /\ Stale(s) => slots'[s] = slots[s],
           lastUsed' = lastUsed, inDispatchLoop' = inDispatchLoop,
           offered' = offered \/ (~inDispatchLoop /\ offered' = {}),
           inDispatchLoop =>
               \A i \in Items, id \in offered : view'[i][id] = view[i][id]
    PROVE  PoolInv'
<1>1. \A s \in Slots : InUse(s)' = InUse(s)
  BY DEF InUse
<1>2. \A s \in Slots : Stale(s)' = Stale(s)
  BY <1>1 DEF Stale, PoolInv
<1>3. lastUsed # 0 => lastUsed \in Slots
  BY DEF TypeOK, Slots
<1>4. \A s \in Slots : Stale(s)' => inDispatchLoop' /\ Ended(slots[s])'
  BY <1>2 DEF PoolInv, Stale
<1>5. \A s, t \in Slots :
        (Current(s) /\ Current(t) /\ slots[s].id = slots[t].id)' => s = t
  BY <1>1, <1>2 DEF Current, PoolInv
<1>6. (inDispatchLoop => \A i \in Items, id \in offered : view[i][id] = "None")'
  BY DEF PoolInv
<1> QED
  BY <1>1, <1>3, <1>4, <1>5, <1>6 DEF PoolInv

\* Some slots are freed.
LEMMA PoolFreed ==
    ASSUME TypeOK, PoolInv,
           NEW f \in [Slots -> TouchInfo], NEW F \in SUBSET Slots, SetSlots(f, F),
           \A s \in Slots : /\ f[s].id = slots[s].id
                            /\ f[s].physicallyEnded = slots[s].physicallyEnded
                            /\ Stale(s) => f[s] = slots[s],
           \/ inDispatchLoop' = inDispatchLoop
           \/ ~inDispatchLoop' /\ \A s \in Slots : Stale(s) => s \in F,
           offered' = offered,
           inDispatchLoop =>
               \A i \in Items, id \in offered : view'[i][id] = view[i][id]
    PROVE  PoolInv'
<1>1. \A s \in Slots : slots'[s] = IF s \in F THEN EmptyInfo ELSE f[s]
  BY DEF SetSlots
<1>2. \A s \in Slots : InUse(s)' => s \notin F /\ InUse(s)
  BY <1>1 DEF InUse, EmptyInfo
<1>3. \A s \in Slots : InUse(s)' => Stale(s)' = Stale(s)
  BY <1>1, <1>2 DEF Stale
<1>4. \A s \in Slots : InUse(s)' => s <= lastUsed'
  <2>1. SUFFICES ASSUME NEW s \in Slots, InUse(s)', ~(s <= lastUsed')
                 PROVE  FALSE
    OBVIOUS
  <2>2. s <= lastUsed
    BY <1>2, <2>1 DEF PoolInv
  <2>3. s \in (lastUsed' + 1)..lastUsed
    BY <2>1, <2>2, SetSlotsType DEF TypeOK, Slots
  <2>4. slots'[s].id = NoTouch
    BY <2>3 DEF SetSlots, IsLastUsed
  <2> QED
    BY <2>1, <2>4 DEF InUse
<1>5. lastUsed' # 0 => InUse(lastUsed)'
  BY DEF SetSlots, IsLastUsed, InUse
<1>6. \A s \in Slots : Stale(s)' => inDispatchLoop' /\ Ended(slots[s])'
  <2>1. SUFFICES ASSUME NEW s \in Slots, Stale(s)'
                 PROVE  inDispatchLoop' /\ Ended(slots[s])'
    OBVIOUS
  <2>2. InUse(s)' /\ s \notin F /\ Stale(s)
    BY <1>2, <1>3, <2>1 DEF Stale
  <2>3. slots'[s] = slots[s]
    BY <1>1, <2>2
  <2>4. inDispatchLoop /\ Ended(slots[s])
    BY <2>2 DEF PoolInv
  <2> QED
    BY <2>2, <2>3, <2>4
<1>7. \A s, t \in Slots :
        (Current(s) /\ Current(t) /\ slots[s].id = slots[t].id)' => s = t
  <2>1. \A s \in Slots : Current(s)' => Current(s) /\ slots'[s].id = slots[s].id
    BY <1>1, <1>2, <1>3 DEF Current
  <2> QED
    BY <2>1 DEF PoolInv
<1>8. ASSUME inDispatchLoop', NEW i \in Items, NEW id \in offered'
      PROVE  view'[i][id] = "None"
  <2>1. inDispatchLoop /\ id \in offered
    BY <1>8
  <2>2. view[i][id] = "None"
    BY <2>1 DEF PoolInv
  <2> QED
    BY <2>1, <2>2
<1> QED
  BY <1>4, <1>5, <1>6, <1>7, <1>8 DEF PoolInv


-----------------------------------------------------------------------------
(* Every step keeps the pool.                                              *)

\* A call about a touch that is not being offered in the dispatch loop does not
\* reach a left-over info.
LEMMA FoundIsCurrent ==
    ASSUME TypeOK, PoolInv, NEW id \in TouchIds, inDispatchLoop => id \notin offered,
           NEW s \in Slots, Finds(s, id)
    PROVE  Current(s) /\ slots[s].id = id
BY DEF PoolInv, Current, Stale, InUse, Finds

LEMMA WaitingNotOffered ==
    ASSUME TypeOK, PoolInv, NEW i \in Items, NEW id \in TouchIds, Waiting(i, id),
           inDispatchLoop
    PROVE  id \notin offered
BY DEF PoolInv, Waiting, CandidateStates

LEMMA PoolPress ==
    ASSUME TypeOK, PoolInv, NEW id \in TouchIds, PressTouch(id)
    PROVE  PoolInv'
<1>1. PICK s \in Slots :
        /\ IsEmptySlot(s)
        /\ slots' = [slots EXCEPT ![s] = NewInfo(id)]
        /\ lastUsed' = IF s > lastUsed THEN s ELSE lastUsed
  BY DEF PressTouch
<1>2. /\ NewInfo(id).id = id /\ ~NewInfo(id).physicallyEnded /\ id # NoTouch
      /\ slots'[s] = NewInfo(id)
      /\ \A t \in Slots : t # s => slots'[t] = slots[t]
  BY <1>1 DEF NewInfo, EmptyInfo, TypeOK
<1>3. offered = {} /\ ~inDispatchLoop /\ offered' = {id} /\ inDispatchLoop'
  BY DEF PressTouch, Idle, BuildDispatch
<1>4. ~InUse(s)
  BY <1>1 DEF IsEmptySlot, PoolInv, TypeOK, Slots
<1>5. InUse(s)' /\ \A t \in Slots : t # s => InUse(t)' = InUse(t)
  BY <1>2 DEF InUse
<1>6. \A t \in Slots : Stale(t)' => t # s /\ slots[t].id = id /\ Ended(slots[t])
  BY <1>2, <1>3 DEF PressTouch, Stale
<1>7. \A t \in Slots : Current(t)' /\ t # s => Current(t) /\ slots[t].id # id
  <2>1. SUFFICES ASSUME NEW t \in Slots, Current(t)', t # s
                 PROVE  Current(t) /\ slots[t].id # id
    OBVIOUS
  <2>2. InUse(t) /\ slots'[t] = slots[t] /\ ~Stale(t)'
    BY <1>2, <1>5, <2>1 DEF Current
  <2>3. slots[t].id # id
    BY <1>2, <1>3, <1>5, <2>1, <2>2 DEF PressTouch, Stale, Ended
  <2> QED
    BY <1>3, <2>2, <2>3 DEF Current, Stale
<1>8. \A t \in Slots : InUse(t)' => t <= lastUsed'
  BY <1>1, <1>5 DEF PoolInv, TypeOK, Slots
<1>9. lastUsed' # 0 => InUse(lastUsed)'
  <2>1. CASE s > lastUsed
    BY <1>1, <1>2, <2>1 DEF InUse
  <2>2. CASE ~(s > lastUsed)
    <3>1. lastUsed' = lastUsed /\ lastUsed \in Slots /\ lastUsed # s
      BY <1>1, <1>4, <2>2 DEF PoolInv, TypeOK, Slots
    <3> QED
      BY <1>2, <3>1 DEF PoolInv, InUse
  <2> QED
    BY <2>1, <2>2
<1>10. \A t \in Slots : Stale(t)' => inDispatchLoop' /\ Ended(slots[t])'
  BY <1>2, <1>3, <1>6
<1>11. \A t, u \in Slots :
         (Current(t) /\ Current(u) /\ slots[t].id = slots[u].id)' => t = u
  BY <1>2, <1>7 DEF PoolInv
<1>12. \A i \in Items, other \in offered' : view'[i][other] = "None"
  BY <1>3 DEF PressTouch, TypeOK
<1> QED
  BY <1>8, <1>9, <1>10, <1>11, <1>12 DEF PoolInv

LEMMA PoolInductive ==
    ASSUME TypeOK, PoolInv, [Next]_vars
    PROVE  PoolInv'
<1> USE DEF Slots
<1>1. ASSUME NEW id \in TouchIds, PressTouch(id)
      PROVE  PoolInv'
  BY <1>1, PoolPress
<1>2. ASSUME NEW released \in SUBSET TouchIds, UpdateTouches(released)
      PROVE  PoolInv'
  <2>1. \A s \in Slots : slots'[s].id = slots[s].id
    BY <1>2, EndedPhysicallyProperties DEF UpdateTouches, TypeOK
  <2>2. offered = {} /\ offered' = {} /\ lastUsed' = lastUsed
    BY <1>2 DEF UpdateTouches, Idle
  <2>3. \A s \in Slots :
          InUse(s)' = InUse(s) /\ ~Stale(s) /\ ~Stale(s)' /\ Current(s)' = Current(s)
    BY <2>1, <2>2 DEF InUse, Stale, Current
  <2>4. lastUsed # 0 => lastUsed \in Slots
    BY DEF TypeOK
  <2> QED
    BY <2>1, <2>2, <2>3, <2>4 DEF PoolInv
<1>3. ASSUME NEW i \in Items, DispatchPointsToItem(i)
      PROVE  PoolInv'
  BY <1>3, PoolKept DEF DispatchPointsToItem
<1>4. CASE EndUpdate
  <2>1. \A s \in Slots : Stale(s) => s \in {t \in Slots : InUse(t) /\ Ended(slots[t])}
    BY DEF PoolInv, Stale
  <2> QED
    BY <1>4, <2>1, PoolFreed DEF EndUpdate, TypeOK
<1>5. CASE PressDelivered
  BY <1>5, PoolKept DEF PressDelivered, registryVars
<1>6. ASSUME NEW i \in Items, NEW id \in TouchIds, AddCandidateOwnerForTouch(i, id)
      PROVE  PoolInv'
  <2>1. ~inDispatchLoop /\ \A s \in Slots : ~Stale(s)
    BY <1>6 DEF AddCandidateOwnerForTouch, SeesPress, PoolInv
  <2>2. \A s \in Slots : /\ slots'[s].id = slots[s].id
                         /\ slots'[s].physicallyEnded = slots[s].physicallyEnded
    <3>1. CASE UNCHANGED slots
      BY <3>1
    <3>2. CASE \E s \in Slots : slots' = [slots EXCEPT ![s] = With(@, i, "Undecided")]
      <4>1. \A s \in Slots :
              LET info == With(slots[s], i, "Undecided") IN
              /\ info.id = slots[s].id /\ info.physicallyEnded = slots[s].physicallyEnded
        BY WithProperties DEF TypeOK, CandidateStates
      <4> QED
        BY <3>2, <4>1 DEF TypeOK
    <3> QED
      BY <1>6, <3>1, <3>2 DEF AddCandidateOwnerForTouch
  <2> QED
    BY <1>6, <2>1, <2>2, PoolKept DEF AddCandidateOwnerForTouch
<1>7. ASSUME NEW i \in Items, NEW id \in TouchIds, RequestOwnershipOnPress(i, id)
      PROVE  PoolInv'
  <2>1. ~inDispatchLoop /\ \A s \in Slots : ~Stale(s)
    BY <1>7 DEF RequestOwnershipOnPress, SeesPress, PoolInv
  <2>2. \A s \in Slots : /\ slots'[s].id = slots[s].id
                         /\ slots'[s].physicallyEnded = slots[s].physicallyEnded
    <3>1. PICK s \in Slots : slots' = [slots EXCEPT ![s] = With(@, i, "InterimOwner")]
      BY <1>7 DEF RequestOwnershipOnPress
    <3>2. "InterimOwner" \in CandidateStates /\ slots[s] \in TouchInfo
      BY DEF TypeOK, CandidateStates
    <3>3. /\ With(slots[s], i, "InterimOwner").id = slots[s].id
          /\ With(slots[s], i, "InterimOwner").physicallyEnded = slots[s].physicallyEnded
      BY <3>2, WithProperties
    <3> QED
      BY <3>1, <3>3 DEF TypeOK
  <2> QED
    BY <1>7, <2>1, <2>2, PoolKept DEF RequestOwnershipOnPress
<1>8. ASSUME NEW i \in Items, NEW id \in TouchIds, RequestTouchOwnership(i, id)
      PROVE  PoolInv'
  <2>0. PICK s \in Slots : \E k \in DOMAIN slots[s].candidates :
          /\ Finds(s, id)
          /\ slots' = [slots EXCEPT ![s] = Deciding(slots[s], k)]
          /\ events' = Announcement(Deciding(slots[s], k), k)
    BY <1>8 DEF RequestTouchOwnership
  <2>1. PICK k \in DOMAIN slots[s].candidates :
          /\ Finds(s, id)
          /\ slots' = [slots EXCEPT ![s] = Deciding(slots[s], k)]
          /\ events' = Announcement(Deciding(slots[s], k), k)
    BY <2>0
  <2>2. id \notin offered /\ Current(s) /\ slots[s].id = id
    BY <1>8, <2>1, FoundIsCurrent DEF RequestTouchOwnership
  <2>3. /\ Deciding(slots[s], k).id = id
        /\ Deciding(slots[s], k).physicallyEnded = slots[s].physicallyEnded
    BY <2>2, DecidingProperties DEF TypeOK
  <2>4. \A t \in Slots : /\ slots'[t].id = slots[t].id
                         /\ slots'[t].physicallyEnded = slots[t].physicallyEnded
                         /\ Stale(t) => slots'[t] = slots[t]
    BY <2>1, <2>2, <2>3 DEF TypeOK, Current
  <2>5. \A j \in Items, other \in offered : view'[j][other] = view[j][other]
    <3>1. view' = Told(Believes(i, id, "Requested"), events')
      BY <1>8 DEF RequestTouchOwnership
    <3>2. ASSUME NEW other \in offered
          PROVE  \A j \in Items : view'[j][other] = view[j][other]
      <4>1. other \in TouchIds /\ other # id
        BY <2>2 DEF TypeOK
      <4>2. \A e \in events' : e.touch # other
        BY <2>1, <2>3, <4>1, AnnouncementTouch
      <4>3. Believes(i, id, "Requested") \in [Items -> [TouchIds -> Views]]
        BY BelievesType DEF Views, CandidateStates
      <4>4. \A j \in Items : Believes(i, id, "Requested")[j][other] = view[j][other]
        BY <4>1, BelievesOthers DEF Views, CandidateStates
      <4> QED
        BY <3>1, <4>1, <4>2, <4>3, <4>4, ToldOthers
    <3> QED
      BY <3>2
  <2> QED
    BY <1>8, <2>4, <2>5, PoolKept DEF RequestTouchOwnership
<1>9. ASSUME NEW i \in Items, NEW id \in TouchIds, RemoveCandidateOwnerForTouch(i, id)
      PROVE  PoolInv'
  <2> DEFINE info(s, k) == Without(slots[s], k)
             freed(s, k) == IF ~inDispatchLoop /\ Ended(info(s, k)) THEN {s} ELSE {}
  <2>0. PICK s \in Slots : \E k \in DOMAIN slots[s].candidates :
          /\ Finds(s, id)
          /\ SetSlots([slots EXCEPT ![s] = info(s, k)], freed(s, k))
          /\ events' = Announcement(info(s, k), k)
    BY <1>9 DEF RemoveCandidateOwnerForTouch
  <2>1. PICK k \in DOMAIN slots[s].candidates :
          /\ Finds(s, id)
          /\ SetSlots([slots EXCEPT ![s] = info(s, k)], freed(s, k))
          /\ events' = Announcement(info(s, k), k)
    BY <2>0
  <2>2. (inDispatchLoop => id \notin offered) /\ Current(s) /\ slots[s].id = id
    <3>1. inDispatchLoop => id \notin offered
      BY <1>9, WaitingNotOffered DEF RemoveCandidateOwnerForTouch
    <3> QED
      BY <2>1, <3>1, FoundIsCurrent
  <2>3. /\ info(s, k) \in TouchInfo /\ info(s, k).id = id
        /\ info(s, k).physicallyEnded = slots[s].physicallyEnded
    BY <2>2, WithoutProperties DEF TypeOK
  <2>4. freed(s, k) \subseteq Slots
    OBVIOUS
  <2> HIDE DEF info, freed
  <2>5. [slots EXCEPT ![s] = info(s, k)] \in [Slots -> TouchInfo]
    BY <2>3 DEF TypeOK
  <2>6. \A t \in Slots :
          LET f == [slots EXCEPT ![s] = info(s, k)] IN
          /\ f[t].id = slots[t].id
          /\ f[t].physicallyEnded = slots[t].physicallyEnded
          /\ Stale(t) => f[t] = slots[t]
    BY <2>2, <2>3 DEF TypeOK, Current
  <2>7. inDispatchLoop =>
          \A j \in Items, other \in offered : view'[j][other] = view[j][other]
    <3>1. view' = Told(Believes(i, id, "None"), events')
      BY <1>9 DEF RemoveCandidateOwnerForTouch
    <3>2. ASSUME inDispatchLoop, NEW other \in offered
          PROVE  \A j \in Items : view'[j][other] = view[j][other]
      <4>1. other \in TouchIds /\ other # id
        BY <2>2, <3>2 DEF TypeOK
      <4>2. \A e \in events' : e.touch # other
        BY <2>1, <2>3, <4>1, AnnouncementTouch
      <4>3. Believes(i, id, "None") \in [Items -> [TouchIds -> Views]]
        BY BelievesType DEF Views
      <4>4. \A j \in Items : Believes(i, id, "None")[j][other] = view[j][other]
        BY <4>1, BelievesOthers DEF Views
      <4> QED
        BY <3>1, <4>1, <4>2, <4>3, <4>4, ToldOthers
    <3> QED
      BY <3>2
  <2>8. inDispatchLoop' = inDispatchLoop /\ offered' = offered
    BY <1>9 DEF RemoveCandidateOwnerForTouch
  <2> QED
    BY <2>1, <2>4, <2>5, <2>6, <2>7, <2>8, PoolFreed
<1>10. ASSUME NEW i \in Items, NEW id \in TouchIds, AddTouchWatcher(i, id)
       PROVE  PoolInv'
  <2>1. \A s \in Slots : /\ slots'[s].id = slots[s].id
                         /\ slots'[s].physicallyEnded = slots[s].physicallyEnded
                         /\ slots'[s].candidates = slots[s].candidates
    BY <1>10, MarkProperties DEF AddTouchWatcher, TypeOK
  <2>2. /\ lastUsed' = lastUsed /\ inDispatchLoop' = inDispatchLoop
        /\ offered' = offered /\ view' = view
    BY <1>10 DEF AddTouchWatcher
  <2>3. \A s \in Slots : /\ InUse(s)' = InUse(s) /\ Stale(s)' = Stale(s)
                         /\ Current(s)' = Current(s)
                         /\ Ended(slots[s])' = Ended(slots[s])
    BY <2>1, <2>2 DEF InUse, Stale, Current, Ended, IsOwned
  <2>4. lastUsed # 0 => lastUsed \in Slots
    BY DEF TypeOK
  <2> QED
    BY <2>1, <2>2, <2>3, <2>4 DEF PoolInv
<1>11. ASSUME NEW i \in Items, NEW id \in TouchIds, RejectCandidateOwnerForTouch(i, id)
       PROVE  PoolInv'
  <2>1. ~inDispatchLoop /\ \A s \in Slots : ~Stale(s)
    BY <1>11 DEF RejectCandidateOwnerForTouch, Idle, PoolInv
  <2>2. \A s \in Slots : /\ slots'[s].id = slots[s].id
                         /\ slots'[s].physicallyEnded = slots[s].physicallyEnded
    BY <1>11, WithoutProperties DEF RejectCandidateOwnerForTouch, TypeOK
  <2> QED
    BY <1>11, <2>1, <2>2, PoolKept DEF RejectCandidateOwnerForTouch
<1>12. ASSUME NEW i \in Items, DestroyItem(i)
       PROVE  PoolInv'
  <2> DEFINE prunes == {s \in Slots : /\ NullCandidate(Orphaned(i)[s])
                                      /\ \E id \in TouchIds :
                                           <<i, id>> \in connections /\ Finds(s, id)}
             pruned == [s \in Slots |-> IF s \in prunes THEN Pruned(Orphaned(i)[s])
                                                       ELSE Orphaned(i)[s]]
             freed == {s \in prunes : Ended(pruned[s])}
  <2>1. SetSlots(pruned, freed)
    BY <1>12 DEF DestroyItem
  <2>2. ~inDispatchLoop /\ ~inDispatchLoop' /\ offered' = offered
        /\ \A s \in Slots : ~Stale(s)
    BY <1>12 DEF DestroyItem, Idle, PoolInv
  <2>3. pruned \in [Slots -> TouchInfo] /\ freed \subseteq Slots
    <3>1. \A s \in Slots : Orphaned(i)[s] \in TouchInfo
      BY OrphanedType
    <3>2. \A s \in Slots : Pruned(Orphaned(i)[s]) \in TouchInfo
      BY <3>1, PrunedType
    <3> QED
      BY <3>1, <3>2
  <2>4. \A s \in Slots : /\ pruned[s].id = slots[s].id
                         /\ pruned[s].physicallyEnded = slots[s].physicallyEnded
    <3>1. \A s \in Slots : pruned[s] = IF s \in prunes THEN Pruned(Orphaned(i)[s])
                                       ELSE Orphaned(i)[s]
      OBVIOUS
    <3> HIDE DEF pruned, prunes
    <3> QED
      BY <3>1, OrphanedType, PrunedType
  <2> HIDE DEF prunes, pruned, freed
  <2> QED
    BY <2>1, <2>2, <2>3, <2>4, PoolFreed
<1>13. CASE UNCHANGED vars
  BY <1>13, PoolKept DEF vars, registryVars, worldVars
<1> QED
  BY <1>1, <1>2, <1>3, <1>4, <1>5, <1>6, <1>7, <1>8, <1>9, <1>10, <1>11, <1>12,
     <1>13 DEF Next

\* Every touch info is where forEach() finds it, the last used slot is in use, and
\* an id is in the pool twice only during the update that brings the second touch:
\* freeing slots in any order, from the dispatch loop, a timer or a destroyed item,
\* never hides a touch or leaves one behind.
THEOREM PoolStaysTight == Spec => []PoolTight
<1>1. Init => PoolInv
  BY DEF Init, PoolInv, InUse, Stale, Current, EmptyInfo
<1>2. TypeOK /\ PoolInv /\ [Next]_vars => PoolInv'
  BY PoolInductive
<1>3. PoolInv => PoolTight
  <2>1. ASSUME PoolInv, NEW s \in Slots, NEW t \in Slots,
               InUse(s), s # t, slots[s].id = slots[t].id
        PROVE  inDispatchLoop /\ (Ended(slots[s]) \/ Ended(slots[t]))
    <3>1. InUse(t)
      BY <2>1 DEF InUse
    <3>2. Stale(s) \/ Stale(t)
      BY <2>1, <3>1 DEF PoolInv, Current
    <3> QED
      BY <2>1, <3>2 DEF PoolInv
  <2> QED
    BY <2>1 DEF PoolInv, PoolTight
<1> QED
  BY <1>1, <1>2, <1>3, TypeCorrect, PTL DEF Spec

-----------------------------------------------------------------------------
(* Agreement of one queue with what the items believe.                     *)

LEMMA QueueOf ==
    ASSUME NEW info \in TouchInfo
    PROVE  /\ Len(info.candidates) \in Nat
           /\ DOMAIN info.candidates = 1..Len(info.candidates)
           /\ (info.candidates # <<>>) <=> Len(info.candidates) # 0
           /\ \A k \in DOMAIN info.candidates :
                 /\ info.candidates[k].item \in Items \cup {NoItem}
                 /\ info.candidates[k].state \in CandidateStates
<1>1. info.candidates \in Seq(CandidateInfo)
  BY DEF TouchInfo
<1>2. Len(info.candidates) \in Nat /\ DOMAIN info.candidates = 1..Len(info.candidates)
  BY <1>1, LenProperties
<1>3. ASSUME NEW k \in DOMAIN info.candidates
      PROVE  info.candidates[k] \in CandidateInfo
  BY <1>1, <1>2, ElementOfSeq
<1>4. (info.candidates # <<>>) <=> Len(info.candidates) # 0
  BY <1>1, EmptySeq
<1> QED
  BY <1>2, <1>3, <1>4 DEF CandidateInfo

\* Agreement is about the touch of the info only.
LEMMA AgreeColumn ==
    ASSUME NEW info \in TouchInfo, NEW v, NEW w, Agree(v, info),
           \A i \in Items : w[i][info.id] = v[i][info.id]
    PROVE  Agree(w, info)
<1>1. ASSUME NEW k \in DOMAIN info.candidates, info.candidates[k].item # NoItem
      PROVE  w[info.candidates[k].item][info.id] = v[info.candidates[k].item][info.id]
  BY <1>1, QueueOf
<1>2. ASSUME NEW k \in DOMAIN info.candidates, info.candidates[k].item # NoItem
      PROVE  /\ \A j \in DOMAIN info.candidates :
                   info.candidates[j].item = info.candidates[k].item => j = k
             /\ w[info.candidates[k].item][info.id]
                   \in IF ~IsOwned(info) THEN {info.candidates[k].state, "Lost"}
                      ELSE IF k = 1 THEN {"Owner"} ELSE {"Lost"}
  BY <1>1, <1>2 DEF Agree
<1>3. ASSUME NEW i \in Items, w[i][info.id] \in CandidateStates
      PROVE  /\ ~IsOwned(info)
             /\ \E k \in DOMAIN info.candidates :
                   CandidateAt(info, k, i) /\ info.candidates[k].state = w[i][info.id]
  BY <1>3 DEF Agree
<1>4. ASSUME NEW i \in Items, w[i][info.id] = "Owner"
      PROVE  IsOwned(info) /\ CandidateAt(info, 1, i)
  BY <1>4 DEF Agree
<1> QED
  BY <1>2, <1>3, <1>4 DEF Agree

\* Who learns what from the resolution of a touch: the head has it, those behind it
\* have lost it, and nobody else hears of it.
LEMMA ResolutionTold ==
    ASSUME NEW info \in TouchInfo, info.id \in TouchIds, IsOwned(info),
           NEW v \in [Items -> [TouchIds -> Views]], NEW E,
           \A e : e.touch = info.id => (e \in E <=> e \in Resolution(info)),
           \A j, k \in DOMAIN info.candidates :
               /\ info.candidates[k].item # NoItem
               /\ info.candidates[j].item = info.candidates[k].item
               => j = k
    PROVE  /\ 1 \in DOMAIN info.candidates
           /\ \A i \in Items, k \in DOMAIN info.candidates : CandidateAt(info, k, i) =>
                 Told(v, E)[i][info.id] = IF k = 1 THEN "Owner" ELSE "Lost"
           /\ \A i \in Items :
                 (\A k \in DOMAIN info.candidates : ~CandidateAt(info, k, i)) =>
                     Told(v, E)[i][info.id] = v[i][info.id]
<1> DEFINE id == info.id
           w == Told(v, E)
<1>0. 1 \in DOMAIN info.candidates /\ DOMAIN info.candidates = 1..Len(info.candidates)
  BY QueueOf DEF IsOwned
<1>1. ASSUME NEW i \in Items
      PROVE  EventTo(i, id, "gained") \in E <=> CandidateAt(info, 1, i)
  <2>1. EventTo(i, id, "gained").touch = id
    BY DEF EventTo
  <2>2. EventTo(i, id, "gained") \in Resolution(info) <=> info.candidates[1].item = i
    BY DEF Resolution, EventTo
  <2> QED
    BY <1>0, <2>1, <2>2 DEF CandidateAt
<1>2. ASSUME NEW i \in Items
      PROVE  EventTo(i, id, "lost") \in E
               <=> \E k \in 2..Len(info.candidates) : CandidateAt(info, k, i)
  <2>1. EventTo(i, id, "lost").touch = id
    BY DEF EventTo
  <2>2. EventTo(i, id, "lost") \in Resolution(info)
          <=> \E k \in 2..Len(info.candidates) : info.candidates[k].item = i
    BY DEF Resolution, EventTo
  <2> QED
    BY <1>0, <2>1, <2>2, QueueOf DEF CandidateAt
<1>3. ASSUME NEW i \in Items, NEW k \in DOMAIN info.candidates, CandidateAt(info, k, i)
      PROVE  w[i][id] = IF k = 1 THEN "Owner" ELSE "Lost"
  <2>1. CASE k = 1
    BY <1>1, <1>3, <2>1 DEF Told
  <2>2. CASE k # 1
    <3>1. k \in 2..Len(info.candidates)
      BY <1>0, <2>2, QueueOf
    <3>2. ~CandidateAt(info, 1, i)
      BY <1>0, <1>3, <2>2 DEF CandidateAt
    <3> QED
      BY <1>1, <1>2, <1>3, <2>2, <3>1, <3>2 DEF Told
  <2> QED
    BY <2>1, <2>2
<1>4. ASSUME NEW i \in Items, \A k \in DOMAIN info.candidates : ~CandidateAt(info, k, i)
      PROVE  w[i][id] = v[i][id]
  <2>1. EventTo(i, id, "gained") \notin E /\ EventTo(i, id, "lost") \notin E
    BY <1>0, <1>1, <1>2, <1>4, QueueOf
  <2> QED
    BY <2>1 DEF Told
<1> HIDE DEF w
<1> QED
  BY <1>0, <1>3, <1>4 DEF w

\* Once the resolution has been sent, queue and items agree, whatever the queued
\* items believed before, as long as nobody else waits or owns.
LEMMA AgreeOnceResolved ==
    ASSUME NEW info \in TouchInfo, info.id \in TouchIds, IsOwned(info),
           NEW v \in [Items -> [TouchIds -> Views]], NEW E,
           \A e : e.touch = info.id => (e \in E <=> e \in Resolution(info)),
           \A j, k \in DOMAIN info.candidates :
               /\ info.candidates[k].item # NoItem
               /\ info.candidates[j].item = info.candidates[k].item
               => j = k,
           \A i \in Items : v[i][info.id] \in CandidateStates \cup {"Owner"} =>
               \E k \in DOMAIN info.candidates : CandidateAt(info, k, i)
    PROVE  Agree(Told(v, E), info)
<1> DEFINE id == info.id
           w == Told(v, E)
<1>0. 1 \in DOMAIN info.candidates
  BY QueueOf DEF IsOwned
<1>3. ASSUME NEW i \in Items, NEW k \in DOMAIN info.candidates, CandidateAt(info, k, i)
      PROVE  w[i][id] = IF k = 1 THEN "Owner" ELSE "Lost"
  BY <1>3, ResolutionTold
<1>4. ASSUME NEW i \in Items, \A k \in DOMAIN info.candidates : ~CandidateAt(info, k, i)
      PROVE  w[i][id] = v[i][id] /\ w[i][id] \notin CandidateStates \cup {"Owner"}
  <2>1. w[i][id] = v[i][id]
    BY <1>4, ResolutionTold
  <2> QED
    BY <1>4, <2>1
<1> HIDE DEF id, w
<1>5. ASSUME NEW k \in DOMAIN info.candidates, info.candidates[k].item # NoItem
      PROVE  /\ \A j \in DOMAIN info.candidates :
                   info.candidates[j].item = info.candidates[k].item => j = k
             /\ w[info.candidates[k].item][id] = IF k = 1 THEN "Owner" ELSE "Lost"
  BY <1>3, <1>5, QueueOf DEF CandidateAt
<1>6. ASSUME NEW i \in Items
      PROVE  /\ w[i][id] \notin CandidateStates
             /\ w[i][id] = "Owner" => CandidateAt(info, 1, i)
  BY <1>0, <1>3, <1>4 DEF CandidateStates
<1> QED
  BY <1>5, <1>6 DEF Agree, id, w

\* Candidate k leaves the queue: agreement survives if everybody else agreed and
\* whoever left no longer waits or owns.
LEMMA AgreeWithout ==
    ASSUME NEW old \in TouchInfo, old.id \in TouchIds, NEW k \in DOMAIN old.candidates,
           NEW v \in [Items -> [TouchIds -> Views]], NEW E,
           \A e : e.touch = old.id => (e \in E <=> e \in Announcement(Without(old, k), k)),
           \A m \in DOMAIN old.candidates : m # k /\ old.candidates[m].item # NoItem =>
               /\ \A j \in DOMAIN old.candidates :
                     j # k /\ old.candidates[j].item = old.candidates[m].item => j = m
               /\ v[old.candidates[m].item][old.id]
                     \in IF ~IsOwned(old) THEN {old.candidates[m].state, "Lost"}
                        ELSE IF m = 1 THEN {"Owner"} ELSE {"Lost"},
           \A i \in Items : v[i][old.id] \in CandidateStates =>
               /\ ~IsOwned(old)
               /\ \E m \in DOMAIN old.candidates :
                     m # k /\ CandidateAt(old, m, i) /\ old.candidates[m].state = v[i][old.id],
           \A i \in Items : v[i][old.id] = "Owner" =>
               k # 1 /\ IsOwned(old) /\ CandidateAt(old, 1, i)
    PROVE  Agree(Told(v, E), Without(old, k))
<1> DEFINE info == Without(old, k)
           id == old.id
           n == Len(old.candidates)
           At(j) == IF j < k THEN j ELSE j + 1
<1>1. n \in Nat /\ DOMAIN old.candidates = 1..n /\ k \in 1..n
  BY QueueOf
<1>2. /\ info \in TouchInfo /\ info.id = id
      /\ DOMAIN info.candidates = 1..(n - 1)
      /\ \A j \in 1..(n - 1) : info.candidates[j] = old.candidates[At(j)]
  BY WithoutProperties
<1>3. \A j \in 1..(n - 1) : At(j) \in 1..n /\ At(j) # k
  BY <1>1
<1>4. \A j, m \in 1..(n - 1) : At(j) = At(m) => j = m
  BY <1>1
<1>5. \A m \in 1..n : m # k => \E j \in 1..(n - 1) : At(j) = m
  <2>1. ASSUME NEW m \in 1..n, m # k PROVE \E j \in 1..(n - 1) : At(j) = m
    <3>1. CASE m < k
      BY <1>1, <2>1, <3>1
    <3>2. CASE ~(m < k)
      <4>1. m - 1 \in 1..(n - 1) /\ At(m - 1) = m
        BY <1>1, <2>1, <3>2
      <4> QED
        BY <4>1
    <3> QED
      BY <3>1, <3>2
  <2> QED
    BY <2>1
<1>6. \A j \in 1..(n - 1) : k # 1 => (At(j) = 1 <=> j = 1)
  BY <1>1
<1>7. k # 1 => (IsOwned(info) <=> IsOwned(old))
  <2>1. SUFFICES ASSUME k # 1 PROVE IsOwned(info) <=> IsOwned(old)
    OBVIOUS
  <2>2. 1 \in 1..(n - 1) /\ At(1) = 1
    BY <1>1, <2>1
  <2>3. info.candidates[1] = old.candidates[1]
    BY <1>2, <2>2
  <2>4. info.candidates # <<>> /\ old.candidates # <<>>
    BY <1>1, <1>2, <2>2, QueueOf
  <2> QED
    BY <2>3, <2>4 DEF IsOwned
<1> HIDE DEF At, n
<1>8. ASSUME NEW i \in Items, v[i][id] \in CandidateStates
      PROVE  /\ ~IsOwned(old)
             /\ \E j \in DOMAIN info.candidates :
                   CandidateAt(info, j, i) /\ info.candidates[j].state = v[i][id]
  <2>1. PICK m \in DOMAIN old.candidates :
          m # k /\ CandidateAt(old, m, i) /\ old.candidates[m].state = v[i][id]
    BY <1>8
  <2>2. PICK j \in 1..(n - 1) : At(j) = m
    BY <1>1, <1>5, <2>1
  <2>3. CandidateAt(info, j, i) /\ info.candidates[j].state = v[i][id]
    BY <1>2, <2>1, <2>2 DEF CandidateAt
  <2> QED
    BY <1>2, <1>8, <2>3
<1>9. ASSUME NEW j \in DOMAIN info.candidates, NEW m \in DOMAIN info.candidates,
             info.candidates[m].item # NoItem,
             info.candidates[j].item = info.candidates[m].item
      PROVE  j = m
  <2>1. /\ j \in 1..(n - 1) /\ m \in 1..(n - 1)
        /\ At(j) \in DOMAIN old.candidates /\ At(j) # k
        /\ At(m) \in DOMAIN old.candidates /\ At(m) # k
    BY <1>1, <1>2, <1>3
  <2>2. /\ old.candidates[At(m)].item # NoItem
        /\ old.candidates[At(j)].item = old.candidates[At(m)].item
    BY <1>2, <1>9, <2>1
  <2>3. At(j) = At(m)
    BY <2>1, <2>2
  <2> QED
    BY <1>4, <2>1, <2>3
<1>10. CASE k = 1 /\ IsOwned(info)
  <2>1. Announcement(info, k) = Resolution(info)
    BY <1>10 DEF Announcement
  <2>2. \A i \in Items : v[i][info.id] \in CandidateStates \cup {"Owner"} =>
          \E m \in DOMAIN info.candidates : CandidateAt(info, m, i)
    BY <1>2, <1>8, <1>10
  <2> HIDE DEF info, id
  <2>3. \A e : e.touch = info.id => (e \in E <=> e \in Resolution(info))
    BY <1>2, <2>1 DEF info, id
  <2> QED
    BY <1>2, <1>9, <1>10, <2>2, <2>3, AgreeOnceResolved DEF info, id
<1>11. CASE ~(k = 1 /\ IsOwned(info))
  <2>1. Announcement(info, k) = {}
    BY <1>11 DEF Announcement
  <2>2. \A i \in Items : Told(v, E)[i][id] = v[i][id]
    BY <2>1, ToldOthers
  <2>3. ASSUME NEW j \in DOMAIN info.candidates, info.candidates[j].item # NoItem
        PROVE  v[info.candidates[j].item][id]
                 \in IF ~IsOwned(info) THEN {info.candidates[j].state, "Lost"}
                    ELSE IF j = 1 THEN {"Owner"} ELSE {"Lost"}
    <3>1. /\ At(j) \in DOMAIN old.candidates /\ At(j) # k
          /\ info.candidates[j] = old.candidates[At(j)]
      BY <1>1, <1>2, <1>3
    <3>2. v[info.candidates[j].item][id]
            \in IF ~IsOwned(old) THEN {info.candidates[j].state, "Lost"}
               ELSE IF At(j) = 1 THEN {"Owner"} ELSE {"Lost"}
      BY <2>3, <3>1
    <3>3. CASE k # 1
      BY <1>2, <1>6, <1>7, <3>2, <3>3
    <3>4. CASE k = 1
      BY <1>11, <3>1, <3>2, <3>4
    <3> QED
      BY <3>3, <3>4
  <2>4. ASSUME NEW i \in Items, v[i][id] \in CandidateStates
        PROVE  /\ ~IsOwned(info)
               /\ \E j \in DOMAIN info.candidates :
                     CandidateAt(info, j, i) /\ info.candidates[j].state = v[i][id]
    BY <1>7, <1>8, <1>11, <2>4
  <2>5. ASSUME NEW i \in Items, v[i][id] = "Owner"
        PROVE  IsOwned(info) /\ CandidateAt(info, 1, i)
    <3>1. k # 1 /\ IsOwned(old) /\ CandidateAt(old, 1, i)
      BY <2>5
    <3>2. 1 \in 1..(n - 1) /\ At(1) = 1
      BY <1>1, <3>1 DEF At, n
    <3> QED
      BY <1>2, <1>7, <3>1, <3>2 DEF CandidateAt
  <2>6. Agree(v, info)
    <3> HIDE DEF info
    <3>1. ASSUME NEW j \in DOMAIN info.candidates, info.candidates[j].item # NoItem
          PROVE  /\ \A m \in DOMAIN info.candidates :
                       info.candidates[m].item = info.candidates[j].item => m = j
                 /\ v[info.candidates[j].item][info.id]
                       \in IF ~IsOwned(info) THEN {info.candidates[j].state, "Lost"}
                          ELSE IF j = 1 THEN {"Owner"} ELSE {"Lost"}
      BY <1>2, <1>9, <2>3, <3>1
    <3>2. /\ \A i \in Items : v[i][info.id] \in CandidateStates =>
                /\ ~IsOwned(info)
                /\ \E j \in DOMAIN info.candidates :
                      CandidateAt(info, j, i) /\ info.candidates[j].state = v[i][info.id]
          /\ \A i \in Items : v[i][info.id] = "Owner" =>
                IsOwned(info) /\ CandidateAt(info, 1, i)
      BY <1>2, <2>4, <2>5
    <3> QED
      BY <3>1, <3>2 DEF Agree
  <2>7. Agree(Told(v, E), info)
    <3>1. info \in TouchInfo /\ \A i \in Items : Told(v, E)[i][info.id] = v[i][info.id]
      BY <1>2, <2>2
    <3> HIDE DEF info, id
    <3> QED
      BY <2>6, <3>1, AgreeColumn
  <2> QED
    BY <2>7
<1> QED
  BY <1>10, <1>11

\* An undecided candidate asks for the touch.
LEMMA AgreeDeciding ==
    ASSUME NEW old \in TouchInfo, old.id \in TouchIds, NEW k \in DOMAIN old.candidates,
           NEW i \in Items, CandidateAt(old, k, i),
           NEW u, Agree(u, old), u[i][old.id] = "Undecided",
           NEW v \in [Items -> [TouchIds -> Views]], v[i][old.id] = "Requested",
           \A j \in Items : j # i => v[j][old.id] = u[j][old.id],
           NEW E,
           \A e : e.touch = old.id => (e \in E <=> e \in Announcement(Deciding(old, k), k))
    PROVE  Agree(Told(v, E), Deciding(old, k))
<1> DEFINE info == Deciding(old, k)
           id == old.id
<1>1. /\ info \in TouchInfo /\ info.id = id
      /\ DOMAIN info.candidates = DOMAIN old.candidates
      /\ \A j \in DOMAIN old.candidates :
            /\ info.candidates[j].item = old.candidates[j].item
            /\ info.candidates[j].state =
                  IF j = k THEN "Requested" ELSE old.candidates[j].state
  BY DecidingProperties, ZenonT(40)
<1>2. ~IsOwned(old)
  BY DEF Agree, CandidateStates
<1>3. \A j \in DOMAIN old.candidates : CandidateAt(old, j, i) => j = k
  BY DEF Agree, CandidateAt
<1>4. /\ 1 \in DOMAIN old.candidates /\ old.candidates[1].state = "Undecided"
      /\ old.candidates # <<>> /\ info.candidates # <<>>
  <2>1. Len(old.candidates) # 0 /\ 1 \in DOMAIN old.candidates
    BY QueueOf
  <2> QED
    BY <1>1, <1>2, <2>1, QueueOf DEF IsOwned
<1>5. IsOwned(info) <=> k = 1
  BY <1>1, <1>4 DEF IsOwned
<1> HIDE DEF info, id
<1>6. ASSUME NEW j \in DOMAIN info.candidates, info.candidates[j].item # NoItem
      PROVE  \A m \in DOMAIN info.candidates :
                 info.candidates[m].item = info.candidates[j].item => m = j
  BY <1>1, <1>6 DEF Agree
<1>7. ASSUME NEW j \in Items, v[j][id] \in CandidateStates
      PROVE  \E m \in DOMAIN info.candidates :
                 CandidateAt(info, m, j) /\ info.candidates[m].state = v[j][id]
  <2>1. CASE j = i
    BY <1>1, <2>1 DEF CandidateAt, id
  <2>2. CASE j # i
    <3>1. PICK m \in DOMAIN old.candidates :
            CandidateAt(old, m, j) /\ old.candidates[m].state = v[j][id]
      BY <1>7, <2>2 DEF Agree, id
    <3>2. m # k
      BY <2>2, <3>1 DEF CandidateAt
    <3> QED
      BY <1>1, <3>1, <3>2 DEF CandidateAt
  <2> QED
    BY <2>1, <2>2
<1>8. ASSUME NEW j \in Items
      PROVE  v[j][id] # "Owner"
  BY <1>2 DEF Agree, id
<1>9. CASE k = 1
  <2>1. \A e : e.touch = info.id => (e \in E <=> e \in Resolution(info))
    BY <1>1, <1>5, <1>9 DEF Announcement, info, id
  <2>2. \A j \in Items : v[j][info.id] \in CandidateStates \cup {"Owner"} =>
          \E m \in DOMAIN info.candidates : CandidateAt(info, m, j)
    BY <1>1, <1>7, <1>8
  <2>3. info \in TouchInfo /\ info.id \in TouchIds /\ IsOwned(info)
    BY <1>1, <1>5, <1>9 DEF id
  <2>4. Agree(Told(v, E), info)
    BY <1>6, <2>1, <2>2, <2>3, AgreeOnceResolved
  <2> QED
    BY <2>4 DEF info
<1>10. CASE k # 1
  <2>1. \A j \in Items : Told(v, E)[j][info.id] = v[j][info.id]
    <3>1. Announcement(info, k) = {}
      BY <1>10 DEF Announcement
    <3>2. \A e \in E : e.touch # id
      BY <3>1 DEF info, id
    <3> QED
      BY <1>1, <3>2, ToldOthers DEF id
  <2>2. ASSUME NEW j \in DOMAIN info.candidates, info.candidates[j].item # NoItem
        PROVE  v[info.candidates[j].item][info.id] \in {info.candidates[j].state, "Lost"}
    <3>1. info.candidates[j].item \in Items
      BY <1>1, <2>2, QueueOf
    <3>2. CASE j = k
      BY <1>1, <3>2 DEF CandidateAt, id
    <3>3. CASE j # k
      <4>1. info.candidates[j].item # i
        BY <1>1, <1>3, <3>3 DEF CandidateAt
      <4>2. u[info.candidates[j].item][id] \in {info.candidates[j].state, "Lost"}
        BY <1>1, <1>2, <2>2, <3>3 DEF Agree, id
      <4> QED
        BY <1>1, <3>1, <4>1, <4>2 DEF id
    <3> QED
      BY <3>2, <3>3
  <2>3. Agree(v, info)
    BY <1>1, <1>5, <1>6, <1>7, <1>8, <1>10, <2>2 DEF Agree
  <2>4. Agree(Told(v, E), info)
    BY <1>1, <2>1, <2>3, AgreeColumn
  <2> QED
    BY <2>4 DEF info
<1> QED
  BY <1>9, <1>10

\* An item that was not there comes to a touch for which nobody has decided.
LEMMA AgreeWith ==
    ASSUME NEW old \in TouchInfo, old.id \in TouchIds, AllUndecided(old),
           NEW i \in Items, NEW st \in {"Undecided", "InterimOwner"},
           NEW u, Agree(u, old), u[i][old.id] = "None",
           NEW v \in [Items -> [TouchIds -> Views]], v[i][old.id] = st,
           \A j \in Items : j # i => v[j][old.id] = u[j][old.id],
           NEW E, NEW k, st = "InterimOwner" => (k = 1 <=> old.candidates = <<>>),
           \A e : e.touch = old.id =>
               (e \in E <=> e \in Announcement(With(old, i, st), k))
    PROVE  Agree(Told(v, E), With(old, i, st))
<1> DEFINE info == With(old, i, st)
           id == old.id
           n == Len(old.candidates)
<1>0. st \in CandidateStates
  BY DEF CandidateStates
<1>1. n \in Nat /\ DOMAIN old.candidates = 1..n /\ (old.candidates = <<>> <=> n = 0)
  BY QueueOf
<1>2. /\ info \in TouchInfo /\ info.id = id
      /\ DOMAIN info.candidates = 1..(n + 1)
      /\ \A j \in 1..n : info.candidates[j] = old.candidates[j]
      /\ info.candidates[n + 1].item = i /\ info.candidates[n + 1].state = st
  BY <1>0, <1>1, WithProperties
<1>3. ~IsOwned(old)
  BY <1>1 DEF IsOwned, AllUndecided
<1>4. \A j \in 1..n : old.candidates[j].item # i
  <2>1. ASSUME NEW j \in 1..n, old.candidates[j].item = i PROVE FALSE
    <3>1. j \in DOMAIN old.candidates /\ old.candidates[j].state = "Undecided"
      BY <1>1, <2>1 DEF AllUndecided
    <3>2. u[i][old.id] \in {"Undecided", "Lost"}
      BY <1>3, <2>1, <3>1 DEF Agree
    <3> QED
      BY <3>2
  <2> QED
    BY <2>1
<1>5. IsOwned(info) <=> n = 0 /\ st = "InterimOwner"
  <2>1. CASE n = 0
    <3>1. info.candidates # <<>>
      BY <1>1, <1>2, QueueOf
    <3>2. info.candidates[1].state = st
      BY <1>2, <2>1
    <3> QED
      BY <2>1, <3>1, <3>2 DEF IsOwned
  <2>2. CASE n # 0
    <3>1. 1 \in 1..n
      BY <1>1, <2>2
    <3>2. info.candidates[1].state = "Undecided"
      BY <1>1, <1>2, <3>1 DEF AllUndecided
    <3> QED
      BY <2>2, <3>2 DEF IsOwned
  <2> QED
    BY <2>1, <2>2
<1> HIDE DEF info, id, n
<1>6. ASSUME NEW j \in DOMAIN info.candidates, info.candidates[j].item # NoItem,
             NEW m \in DOMAIN info.candidates,
             info.candidates[m].item = info.candidates[j].item
      PROVE  m = j
  <2>1. CASE j = n + 1
    BY <1>1, <1>2, <1>4, <1>6, <2>1
  <2>2. CASE j \in 1..n /\ m = n + 1
    BY <1>2, <1>4, <1>6, <2>2
  <2>3. CASE j \in 1..n /\ m \in 1..n
    <3>1. /\ j \in DOMAIN old.candidates /\ m \in DOMAIN old.candidates
          /\ old.candidates[j].item # NoItem
          /\ old.candidates[m].item = old.candidates[j].item
      BY <1>1, <1>2, <1>6, <2>3
    <3> QED
      BY <3>1 DEF Agree
  <2> QED
    BY <1>1, <1>2, <2>1, <2>2, <2>3
<1>7. ASSUME NEW j \in Items, v[j][id] \in CandidateStates
      PROVE  \E m \in DOMAIN info.candidates :
                 CandidateAt(info, m, j) /\ info.candidates[m].state = v[j][id]
  <2>1. CASE j = i
    BY <1>1, <1>2, <2>1 DEF CandidateAt, id
  <2>2. CASE j # i
    <3>1. PICK m \in DOMAIN old.candidates :
            CandidateAt(old, m, j) /\ old.candidates[m].state = v[j][id]
      BY <1>7, <2>2 DEF Agree, id
    <3> QED
      BY <1>1, <1>2, <3>1 DEF CandidateAt
  <2> QED
    BY <2>1, <2>2
<1>8. ASSUME NEW j \in Items
      PROVE  v[j][id] # "Owner"
  BY <1>3 DEF Agree, id
<1>9. CASE IsOwned(info)
  <2>1. \A e : e.touch = info.id => (e \in E <=> e \in Resolution(info))
    BY <1>1, <1>2, <1>5, <1>9 DEF Announcement, info, id
  <2>2. \A j \in Items : v[j][info.id] \in CandidateStates \cup {"Owner"} =>
          \E m \in DOMAIN info.candidates : CandidateAt(info, m, j)
    BY <1>2, <1>7, <1>8
  <2>3. info \in TouchInfo /\ info.id \in TouchIds
    BY <1>2 DEF id
  <2>4. Agree(Told(v, E), info)
    BY <1>6, <1>9, <2>1, <2>2, <2>3, AgreeOnceResolved
  <2> QED
    BY <2>4 DEF info
<1>10. CASE ~IsOwned(info)
  <2>1. \A j \in Items : Told(v, E)[j][info.id] = v[j][info.id]
    <3>1. Announcement(info, k) = {}
      BY <1>10 DEF Announcement
    <3>2. \A e \in E : e.touch # id
      BY <3>1 DEF info, id
    <3> QED
      BY <1>2, <3>2, ToldOthers DEF id
  <2>2. ASSUME NEW j \in DOMAIN info.candidates, info.candidates[j].item # NoItem
        PROVE  v[info.candidates[j].item][info.id] \in {info.candidates[j].state, "Lost"}
    <3>1. CASE j = n + 1
      BY <1>2, <3>1 DEF id
    <3>2. CASE j \in 1..n
      <4>1. info.candidates[j].item # i /\ info.candidates[j] = old.candidates[j]
        BY <1>2, <1>4, <3>2
      <4>2. info.candidates[j].item \in Items
        BY <1>2, <2>2, QueueOf
      <4>3. u[info.candidates[j].item][id] \in {info.candidates[j].state, "Lost"}
        BY <1>1, <1>3, <2>2, <3>2, <4>1 DEF Agree, id
      <4> QED
        BY <1>2, <4>1, <4>2, <4>3 DEF id
    <3> QED
      BY <1>1, <1>2, <3>1, <3>2
  <2>3. Agree(v, info)
    <3>1. /\ \A j \in Items : v[j][info.id] \in CandidateStates =>
                /\ ~IsOwned(info)
                /\ \E m \in DOMAIN info.candidates :
                      CandidateAt(info, m, j) /\ info.candidates[m].state = v[j][info.id]
          /\ \A j \in Items : v[j][info.id] # "Owner"
      BY <1>2, <1>6, <1>7, <1>8, <1>10
    <3>2. ASSUME NEW j \in DOMAIN info.candidates, info.candidates[j].item # NoItem
          PROVE  /\ \A m \in DOMAIN info.candidates :
                       info.candidates[m].item = info.candidates[j].item => m = j
                 /\ v[info.candidates[j].item][info.id]
                       \in IF ~IsOwned(info) THEN {info.candidates[j].state, "Lost"}
                          ELSE IF j = 1 THEN {"Owner"} ELSE {"Lost"}
      <4>1. \A m \in DOMAIN info.candidates :
              info.candidates[m].item = info.candidates[j].item => m = j
        BY <1>6, <3>2
      <4>2. v[info.candidates[j].item][info.id] \in {info.candidates[j].state, "Lost"}
        BY <2>2, <3>2
      <4> QED
        BY <1>10, <4>1, <4>2
    <3> QED
      BY <3>1, <3>2 DEF Agree
  <2>4. Agree(Told(v, E), info)
    <3>1. info \in TouchInfo
      BY <1>2
    <3> QED
      BY <2>1, <2>3, <3>1, AgreeColumn, SMTT(30)
  <2> QED
    BY <2>4 DEF info
<1> QED
  BY <1>9, <1>10

-----------------------------------------------------------------------------
(* Steps that concern one touch.                                           *)

LEMMA CurrentKept ==
    ASSUME PoolInv, NEW t \in Slots,
           slots'[t].id = slots[t].id,
           slots'[t].physicallyEnded = slots[t].physicallyEnded,
           offered' = offered \/ (~inDispatchLoop /\ offered' = {})
    PROVE  Current(t)' <=> Current(t)
BY DEF PoolInv, Current, Stale, InUse

LEMMA OtherTouches ==
    ASSUME TypeOK, NEW i \in Items, NEW id \in TouchIds, NEW what \in Views,
           NEW E, \A e \in E : e.touch = id
    PROVE  \A j \in Items, other \in TouchIds : other # id =>
               Told(Believes(i, id, what), E)[j][other] = view[j][other]
<1>1. ASSUME NEW j \in Items, NEW other \in TouchIds, other # id
      PROVE  Told(Believes(i, id, what), E)[j][other] = view[j][other]
  <2>1. Believes(i, id, what) \in [Items -> [TouchIds -> Views]]
    BY BelievesType
  <2>2. Believes(i, id, what)[j][other] = view[j][other]
    BY <1>1, BelievesOthers
  <2>3. \A e \in E : e.touch # other
    BY <1>1
  <2> QED
    BY <2>1, <2>2, <2>3, ToldOthers
<1> QED
  BY <1>1

\* A step changes the info of one touch, or frees it when it is owned or empty.
LEMMA OneTouch ==
    ASSUME TypeOK, PoolInv, OwnershipInv,
           NEW id \in TouchIds, NEW s \in Slots, Current(s), slots[s].id = id,
           NEW info \in TouchInfo, info.id = id,
           \A t \in Slots : t # s => slots'[t] = slots[t] /\ (Current(t)' <=> Current(t)),
           offered' \subseteq offered,
           \A i \in Items, other \in TouchIds :
               other # id => view'[i][other] = view[i][other],
           Agree(view', info),
           \/ Current(s)' /\ slots'[s] = info /\ (id \in offered' => AllUndecided(info))
           \/ ~Current(s)' /\ (IsOwned(info) \/ info.candidates = <<>>)
    PROVE  OwnershipInv'
<1>1. ASSUME NEW t \in Slots, Current(t)', t # s
      PROVE  /\ Current(t) /\ slots'[t] = slots[t] /\ slots[t].id # id
             /\ slots[t] \in TouchInfo /\ slots[t].id \in TouchIds
  BY <1>1 DEF PoolInv, TypeOK, TouchInfo, Current, InUse
<1>2. ASSUME NEW t \in Slots, Current(t)'
      PROVE  Agree(view', slots'[t])
  <2>1. CASE t = s
    BY <1>2, <2>1
  <2>2. CASE t # s
    <3>1. Agree(view, slots[t])
      BY <1>1, <1>2, <2>2 DEF OwnershipInv
    <3>2. \A i \in Items : view'[i][slots[t].id] = view[i][slots[t].id]
      BY <1>1, <1>2, <2>2
    <3>3. slots[t] \in TouchInfo /\ slots'[t] = slots[t]
      BY <1>1, <1>2, <2>2
    <3>4. Agree(view', slots[t])
      BY <3>1, <3>2, <3>3, AgreeColumn, ZenonT(60)
    <3> QED
      BY <3>3, <3>4
  <2> QED
    BY <2>1, <2>2
<1>3. ASSUME NEW t \in Slots, Current(t)', slots'[t].id \in offered'
      PROVE  AllUndecided(slots'[t])
  <2>1. CASE t = s
    BY <1>3, <2>1
  <2>2. CASE t # s
    BY <1>1, <1>3, <2>2 DEF OwnershipInv
  <2> QED
    BY <2>1, <2>2
<1>4. ASSUME NEW i \in Items, NEW other \in TouchIds,
             view'[i][other] \in CandidateStates
      PROVE  \E t \in Slots : Current(t)' /\ slots'[t].id = other
  <2>1. CASE other = id
    <3>1. ~IsOwned(info) /\ info.candidates # <<>>
      BY <1>4, <2>1, QueueOf DEF Agree
    <3> QED
      BY <2>1, <3>1
  <2>2. CASE other # id
    <3>1. Waiting(i, other)
      BY <1>4, <2>2 DEF Waiting
    <3>2. PICK t \in Slots : Current(t) /\ slots[t].id = other
      BY <3>1 DEF OwnershipInv
    <3> QED
      BY <2>2, <3>2
  <2> QED
    BY <2>1, <2>2
<1>5. ASSUME NEW i \in Items, NEW j \in Items, NEW other \in TouchIds,
             view'[i][other] = "Owner", view'[j][other] = "Owner"
      PROVE  i = j
  <2>1. CASE other = id
    BY <1>5, <2>1 DEF Agree, CandidateAt
  <2>2. CASE other # id
    BY <1>5, <2>2 DEF OwnershipInv, ExclusiveOwnership
  <2> QED
    BY <2>1, <2>2
<1> QED
  BY <1>2, <1>3, <1>4, <1>5 DEF OwnershipInv, ExclusiveOwnership, Waiting

\* What is left of a queue and of the beliefs about it when item i turns away.
LEMMA TurningAway ==
    ASSUME TypeOK, NEW s \in Slots, slots[s].id \in TouchIds, Agree(view, slots[s]),
           NEW k \in DOMAIN slots[s].candidates, NEW i \in Items,
           CandidateAt(slots[s], k, i), k = 1 => ~IsOwned(slots[s]),
           NEW what \in {"None", "Lost"}, NEW E,
           E = Announcement(Without(slots[s], k), k)
    PROVE  Agree(Told(Believes(i, slots[s].id, what), E), Without(slots[s], k))
<1> DEFINE old == slots[s]
           id == slots[s].id
           v == Believes(i, id, what)
<1>1. old \in TouchInfo /\ what \in Views
  BY DEF TypeOK, Views
<1>2. /\ v \in [Items -> [TouchIds -> Views]]
      /\ v[i][id] = what /\ \A j \in Items : j # i => v[j][id] = view[j][id]
  BY <1>1, BelievesType, BelievesOthers
<1>3. \A e : e.touch = id => (e \in E <=> e \in Announcement(Without(old, k), k))
  OBVIOUS
<1> HIDE DEF v
<1>4. ASSUME NEW m \in DOMAIN old.candidates, m # k, old.candidates[m].item # NoItem
      PROVE  /\ \A j \in DOMAIN old.candidates :
                   j # k /\ old.candidates[j].item = old.candidates[m].item => j = m
             /\ v[old.candidates[m].item][id]
                   \in IF ~IsOwned(old) THEN {old.candidates[m].state, "Lost"}
                      ELSE IF m = 1 THEN {"Owner"} ELSE {"Lost"}
  <2>1. /\ \A j \in DOMAIN old.candidates :
              old.candidates[j].item = old.candidates[m].item => j = m
        /\ view[old.candidates[m].item][id]
              \in IF ~IsOwned(old) THEN {old.candidates[m].state, "Lost"}
                 ELSE IF m = 1 THEN {"Owner"} ELSE {"Lost"}
    BY <1>4 DEF Agree
  <2>2. old.candidates[m].item # i
    BY <1>4, <2>1 DEF CandidateAt
  <2>3. old.candidates[m].item \in Items
    BY <1>1, <1>4, QueueOf
  <2> QED
    BY <1>2, <2>1, <2>2, <2>3
<1>5. ASSUME NEW j \in Items, v[j][id] \in CandidateStates
      PROVE  /\ ~IsOwned(old)
             /\ \E m \in DOMAIN old.candidates :
                   m # k /\ CandidateAt(old, m, j) /\ old.candidates[m].state = v[j][id]
  <2>1. j # i /\ v[j][id] = view[j][id]
    BY <1>2, <1>5 DEF CandidateStates
  <2>2. /\ ~IsOwned(old)
        /\ \E m \in DOMAIN old.candidates :
              CandidateAt(old, m, j) /\ old.candidates[m].state = view[j][id]
    BY <1>5, <2>1 DEF Agree
  <2>3. PICK m \in DOMAIN old.candidates :
          CandidateAt(old, m, j) /\ old.candidates[m].state = v[j][id]
    BY <2>1, <2>2
  <2>4. m # k
    BY <2>1, <2>3 DEF CandidateAt
  <2> QED
    BY <2>2, <2>3, <2>4
<1>6. ASSUME NEW j \in Items, v[j][id] = "Owner"
      PROVE  k # 1 /\ IsOwned(old) /\ CandidateAt(old, 1, j)
  <2>1. j # i /\ v[j][id] = view[j][id]
    BY <1>2, <1>6
  <2> QED
    BY <1>6, <2>1 DEF Agree
<1>7. Agree(Told(v, E), Without(old, k))
  <2> HIDE DEF old, id
  <2> QED
    BY <1>1, <1>2, <1>3, <1>4, <1>5, <1>6, AgreeWithout DEF old, id
<1> QED
  BY <1>7 DEF v

-----------------------------------------------------------------------------
(* The calls of the items.                                                 *)

LEMMA OwnershipAdd ==
    ASSUME TypeOK, PoolInv, OwnershipInv, NEW i \in Items, NEW id \in TouchIds,
           AddCandidateOwnerForTouch(i, id)
    PROVE  OwnershipInv'
<1>1. PICK s \in Slots :
        /\ Finds(s, id)
        /\ IF IsOwned(slots[s])
           THEN UNCHANGED <<slots, connections>>
           ELSE slots' = [slots EXCEPT ![s] = With(@, i, "Undecided")]
  BY DEF AddCandidateOwnerForTouch
<1> DEFINE info == With(slots[s], i, "Undecided")
           v == Believes(i, id, "Undecided")
<1>2. /\ ~inDispatchLoop /\ id \in offered /\ view[i][id] = "None"
      /\ view' = v /\ offered' = offered
  BY DEF AddCandidateOwnerForTouch, SeesPress
<1>3. Current(s) /\ slots[s].id = id
  BY <1>1, <1>2, FoundIsCurrent
<1>4. /\ slots[s] \in TouchInfo /\ Agree(view, slots[s]) /\ AllUndecided(slots[s])
  BY <1>2, <1>3 DEF TypeOK, OwnershipInv
<1>5. ~IsOwned(slots[s])
  BY <1>4, QueueOf DEF IsOwned, AllUndecided
<1>6. slots' = [slots EXCEPT ![s] = info]
  BY <1>1, <1>5
<1>7. /\ info \in TouchInfo /\ info.id = id
      /\ info.physicallyEnded = slots[s].physicallyEnded /\ AllUndecided(info)
  <2>1. /\ DOMAIN info.candidates = 1..(Len(slots[s].candidates) + 1)
        /\ \A j \in DOMAIN slots[s].candidates :
              info.candidates[j] = slots[s].candidates[j]
        /\ info.candidates[Len(slots[s].candidates) + 1].state = "Undecided"
        /\ info \in TouchInfo /\ info.id = id
        /\ info.physicallyEnded = slots[s].physicallyEnded
    <3>1. "Undecided" \in CandidateStates
      BY DEF CandidateStates
    <3> QED
      BY <1>3, <1>4, <3>1, WithProperties
  <2>2. DOMAIN slots[s].candidates = 1..Len(slots[s].candidates)
        /\ Len(slots[s].candidates) \in Nat
    BY <1>4, QueueOf
  <2> HIDE DEF info
  <2>3. ASSUME NEW j \in DOMAIN info.candidates
        PROVE  info.candidates[j].state = "Undecided"
    <3>1. CASE j = Len(slots[s].candidates) + 1
      BY <2>1, <3>1
    <3>2. CASE j # Len(slots[s].candidates) + 1
      <4>1. j \in DOMAIN slots[s].candidates
        BY <2>1, <2>2, <3>2
      <4> QED
        BY <1>4, <2>1, <4>1 DEF AllUndecided
    <3> QED
      BY <3>1, <3>2
  <2> QED
    BY <2>1, <2>3 DEF AllUndecided
<1>8. /\ v \in [Items -> [TouchIds -> Views]]
      /\ v[i][id] = "Undecided"
      /\ \A j \in Items, other \in TouchIds :
            j # i \/ other # id => v[j][other] = view[j][other]
  BY BelievesType, BelievesOthers DEF Views, CandidateStates
<1> HIDE DEF v
<1>9. Agree(v, info)
  <2>1. Announcement(info, 2) = {}
    BY DEF Announcement
  <2>2. \A e : e.touch = id => (e \in {} <=> e \in Announcement(info, 2))
    BY <2>1
  <2>3. Agree(Told(v, {}), info)
    BY <1>2, <1>3, <1>4, <1>8, <2>2, AgreeWith
  <2>4. \A j \in Items : v[j][id] = Told(v, {})[j][id]
    BY <1>8, ToldOthers
  <2> QED
    <3> HIDE DEF info
    <3> QED
      BY <1>7, <2>3, <2>4, AgreeColumn
<1> HIDE DEF info
<1>10. /\ slots'[s] = info
       /\ \A t \in Slots : t # s => slots'[t] = slots[t]
       /\ \A t \in Slots : /\ slots'[t].id = slots[t].id
                           /\ slots'[t].physicallyEnded = slots[t].physicallyEnded
  BY <1>3, <1>6, <1>7 DEF TypeOK
<1>11. \A t \in Slots : Current(t)' <=> Current(t)
  BY <1>2, <1>10, CurrentKept
<1> QED
  BY <1>2, <1>3, <1>7, <1>8, <1>9, <1>10, <1>11, OneTouch

LEMMA OwnershipOnPress ==
    ASSUME TypeOK, PoolInv, OwnershipInv, NEW i \in Items, NEW id \in TouchIds,
           RequestOwnershipOnPress(i, id)
    PROVE  OwnershipInv'
<1> DEFINE info(s) == With(slots[s], i, "InterimOwner")
           v == Believes(i, id, "InterimOwner")
<1>1. PICK s \in Slots :
        /\ Finds(s, id)
        /\ slots' = [slots EXCEPT ![s] = info(s)]
        /\ events' = Announcement(info(s), Len(info(s).candidates))
  BY DEF RequestOwnershipOnPress
<1>2. /\ ~inDispatchLoop /\ id \in offered /\ view[i][id] = "None"
      /\ view' = Told(v, events') /\ offered' = {}
  BY DEF RequestOwnershipOnPress, SeesPress
<1>3. Current(s) /\ slots[s].id = id
  BY <1>1, <1>2, FoundIsCurrent
<1>4. /\ slots[s] \in TouchInfo /\ Agree(view, slots[s]) /\ AllUndecided(slots[s])
  BY <1>2, <1>3 DEF TypeOK, OwnershipInv
<1>5. /\ info(s) \in TouchInfo /\ info(s).id = id
      /\ info(s).physicallyEnded = slots[s].physicallyEnded
      /\ DOMAIN info(s).candidates = 1..(Len(slots[s].candidates) + 1)
  <2>1. "InterimOwner" \in CandidateStates
    BY DEF CandidateStates
  <2> QED
    BY <1>3, <1>4, <2>1, WithProperties
<1>6. Len(info(s).candidates) = 1 <=> slots[s].candidates = <<>>
  <2>1. /\ Len(slots[s].candidates) \in Nat
        /\ (slots[s].candidates # <<>>) <=> Len(slots[s].candidates) # 0
    BY <1>4, QueueOf
  <2>2. Len(info(s).candidates) = Len(slots[s].candidates) + 1
    <3> HIDE DEF info
    <3> QED
      BY <1>5, <2>1, QueueOf
  <2> HIDE DEF info
  <2> QED
    BY <2>1, <2>2
<1>7. /\ v \in [Items -> [TouchIds -> Views]]
      /\ v[i][id] = "InterimOwner"
      /\ \A j \in Items : j # i => v[j][id] = view[j][id]
  BY BelievesType, BelievesOthers DEF Views, CandidateStates
<1>8. \A j \in Items, other \in TouchIds : other # id => view'[j][other] = view[j][other]
  <2>1. \A e \in events' : e.touch = id
    BY <1>1, <1>5, AnnouncementTouch
  <2> QED
    BY <1>2, <2>1, OtherTouches DEF Views, CandidateStates
<1> HIDE DEF v
<1>9. Agree(view', info(s))
  <2>1. \A e : e.touch = slots[s].id =>
          (e \in events' <=> e \in Announcement(info(s), Len(info(s).candidates)))
    BY <1>1
  <2>2. /\ slots[s].id \in TouchIds /\ view[i][slots[s].id] = "None"
        /\ v[i][slots[s].id] = "InterimOwner"
        /\ \A j \in Items : j # i => v[j][slots[s].id] = view[j][slots[s].id]
    BY <1>2, <1>3, <1>7
  <2>3. Agree(Told(v, events'), info(s))
    BY <1>4, <1>6, <1>7, <2>1, <2>2, AgreeWith
  <2> QED
    BY <1>2, <2>3
<1> HIDE DEF info
<1>10. /\ slots'[s] = info(s)
       /\ \A t \in Slots : t # s => slots'[t] = slots[t]
       /\ \A t \in Slots : /\ slots'[t].id = slots[t].id
                           /\ slots'[t].physicallyEnded = slots[t].physicallyEnded
  BY <1>1, <1>3, <1>5 DEF TypeOK
<1>11. \A t \in Slots : Current(t)' <=> Current(t)
  BY <1>2, <1>10, CurrentKept
<1> QED
  BY <1>2, <1>3, <1>5, <1>8, <1>9, <1>10, <1>11, OneTouch

LEMMA OwnershipRequest ==
    ASSUME TypeOK, PoolInv, OwnershipInv, NEW i \in Items, NEW id \in TouchIds,
           RequestTouchOwnership(i, id)
    PROVE  OwnershipInv'
<1> DEFINE info(s, k) == Deciding(slots[s], k)
           v == Believes(i, id, "Requested")
<1>0. PICK s \in Slots : \E k \in DOMAIN slots[s].candidates :
        /\ Finds(s, id) /\ CandidateAt(slots[s], k, i)
        /\ slots' = [slots EXCEPT ![s] = info(s, k)]
        /\ events' = Announcement(info(s, k), k)
  BY DEF RequestTouchOwnership
<1>1. PICK k \in DOMAIN slots[s].candidates :
        /\ Finds(s, id) /\ CandidateAt(slots[s], k, i)
        /\ slots' = [slots EXCEPT ![s] = info(s, k)]
        /\ events' = Announcement(info(s, k), k)
  BY <1>0
<1>2. /\ id \notin offered /\ view[i][id] = "Undecided"
      /\ view' = Told(v, events') /\ offered' = offered
  BY DEF RequestTouchOwnership
<1>3. Current(s) /\ slots[s].id = id
  BY <1>1, <1>2, FoundIsCurrent
<1>4. slots[s] \in TouchInfo /\ Agree(view, slots[s])
  BY <1>3 DEF TypeOK, OwnershipInv
<1>5. /\ info(s, k) \in TouchInfo /\ info(s, k).id = id
      /\ info(s, k).physicallyEnded = slots[s].physicallyEnded
  BY <1>3, <1>4, DecidingProperties
<1>6. /\ v \in [Items -> [TouchIds -> Views]]
      /\ v[i][id] = "Requested"
      /\ \A j \in Items : j # i => v[j][id] = view[j][id]
  BY BelievesType, BelievesOthers DEF Views, CandidateStates
<1>7. \A j \in Items, other \in TouchIds : other # id => view'[j][other] = view[j][other]
  <2>1. \A e \in events' : e.touch = id
    BY <1>1, <1>5, AnnouncementTouch
  <2> QED
    BY <1>2, <2>1, OtherTouches DEF Views, CandidateStates
<1> HIDE DEF v
<1>8. Agree(view', info(s, k))
  <2>1. \A e : e.touch = slots[s].id =>
          (e \in events' <=> e \in Announcement(info(s, k), k))
    BY <1>1
  <2>2. Agree(Told(v, events'), info(s, k))
    BY <1>1, <1>2, <1>3, <1>4, <1>6, <2>1, AgreeDeciding
  <2> QED
    BY <1>2, <2>2
<1> HIDE DEF info
<1>9. /\ slots'[s] = info(s, k)
      /\ \A t \in Slots : t # s => slots'[t] = slots[t]
      /\ \A t \in Slots : /\ slots'[t].id = slots[t].id
                          /\ slots'[t].physicallyEnded = slots[t].physicallyEnded
  BY <1>1, <1>3, <1>5 DEF TypeOK
<1>10. \A t \in Slots : Current(t)' <=> Current(t)
  BY <1>2, <1>9, CurrentKept
<1> QED
  BY <1>2, <1>3, <1>5, <1>7, <1>8, <1>9, <1>10, OneTouch

\* Whoever gives a touch up was waiting for it, so the queue it leaves has no owner.
LEMMA OwnershipRemove ==
    ASSUME TypeOK, PoolInv, OwnershipInv, NEW i \in Items, NEW id \in TouchIds,
           RemoveCandidateOwnerForTouch(i, id)
    PROVE  OwnershipInv'
<1> DEFINE info(s, k) == Without(slots[s], k)
           v == Believes(i, id, "None")
           freed(s, k) == IF ~inDispatchLoop /\ Ended(info(s, k)) THEN {s} ELSE {}
<1>0. PICK s \in Slots : \E k \in DOMAIN slots[s].candidates :
        /\ Finds(s, id) /\ CandidateAt(slots[s], k, i)
        /\ SetSlots([slots EXCEPT ![s] = info(s, k)], freed(s, k))
        /\ events' = Announcement(info(s, k), k)
  BY DEF RemoveCandidateOwnerForTouch
<1>1. PICK k \in DOMAIN slots[s].candidates :
        /\ Finds(s, id) /\ CandidateAt(slots[s], k, i)
        /\ SetSlots([slots EXCEPT ![s] = info(s, k)], freed(s, k))
        /\ events' = Announcement(info(s, k), k)
  BY <1>0
<1>2. /\ Waiting(i, id) /\ view' = Told(v, events')
      /\ offered' = offered /\ inDispatchLoop' = inDispatchLoop
  BY DEF RemoveCandidateOwnerForTouch
<1>3. Current(s) /\ slots[s].id = id
  <2>1. inDispatchLoop => id \notin offered
    BY <1>2, WaitingNotOffered
  <2> QED
    BY <1>1, <2>1, FoundIsCurrent
<1>4. /\ slots[s] \in TouchInfo /\ Agree(view, slots[s])
      /\ id \in offered => AllUndecided(slots[s])
  BY <1>3 DEF TypeOK, OwnershipInv
<1>5. ~IsOwned(slots[s])
  BY <1>2, <1>3, <1>4 DEF Agree, Waiting
<1>6. /\ info(s, k) \in TouchInfo /\ info(s, k).id = id
      /\ info(s, k).physicallyEnded = slots[s].physicallyEnded
      /\ DOMAIN info(s, k).candidates = 1..(Len(slots[s].candidates) - 1)
      /\ \A j \in 1..(Len(slots[s].candidates) - 1) :
            info(s, k).candidates[j] = slots[s].candidates[IF j < k THEN j ELSE j + 1]
  BY <1>3, <1>4, WithoutProperties
<1>7. id \in offered => AllUndecided(info(s, k))
  <2>1. /\ DOMAIN slots[s].candidates = 1..Len(slots[s].candidates)
        /\ Len(slots[s].candidates) \in Nat
    BY <1>4, QueueOf
  <2> HIDE DEF info
  <2>2. ASSUME id \in offered, NEW j \in DOMAIN info(s, k).candidates
        PROVE  info(s, k).candidates[j].state = "Undecided"
    <3>1. (IF j < k THEN j ELSE j + 1) \in DOMAIN slots[s].candidates
      BY <1>6, <2>1
    <3> QED
      BY <1>4, <1>6, <2>2, <3>1 DEF AllUndecided
  <2> QED
    BY <2>2 DEF AllUndecided
<1>8. \A j \in Items, other \in TouchIds : other # id => view'[j][other] = view[j][other]
  <2>1. \A e \in events' : e.touch = id
    BY <1>1, <1>6, AnnouncementTouch
  <2> QED
    BY <1>2, <2>1, OtherTouches DEF Views
<1>9. Agree(view', info(s, k))
  BY <1>1, <1>2, <1>3, <1>4, <1>5, TurningAway
<1> HIDE DEF info, v
<1>10. \A t \in Slots : slots'[t] = IF t \in freed(s, k) THEN EmptyInfo
                                   ELSE IF t = s THEN info(s, k) ELSE slots[t]
  BY <1>1 DEF SetSlots, TypeOK
<1>11. \A t \in Slots : t # s => slots'[t] = slots[t] /\ (Current(t)' <=> Current(t))
  BY <1>2, <1>10 DEF Current, Stale, InUse
<1>12. CASE freed(s, k) = {}
  <2>1. slots'[s] = info(s, k) /\ Current(s)'
    BY <1>2, <1>3, <1>6, <1>10, <1>12 DEF Current, Stale, InUse
  <2> QED
    BY <1>2, <1>3, <1>6, <1>7, <1>8, <1>9, <1>11, <2>1, OneTouch
<1>13. CASE freed(s, k) # {}
  <2>1. s \in freed(s, k) /\ Ended(info(s, k))
    BY <1>13
  <2>2. ~Current(s)' /\ (IsOwned(info(s, k)) \/ info(s, k).candidates = <<>>)
    BY <1>10, <2>1 DEF Current, InUse, EmptyInfo, Ended
  <2> QED
    BY <1>2, <1>3, <1>6, <1>8, <1>9, <1>11, <2>2, OneTouch
<1> QED
  BY <1>12, <1>13

\* What an item that runs out of time is told, in the words of the others: it lost, and
\* they hear what its leaving decides.
LEMMA RejectTells ==
    ASSUME TypeOK, NEW i \in Items, NEW id \in TouchIds, NEW s \in Slots, slots[s].id = id,
           Agree(view, slots[s]), NEW k \in DOMAIN slots[s].candidates,
           CandidateAt(slots[s], k, i), NEW E,
           E = {EventTo(i, id, "lost")} \cup Announcement(Without(slots[s], k), k)
    PROVE  \A j \in Items : Told(view, E)[j][id] =
               Told(Believes(i, id, "Lost"), Announcement(Without(slots[s], k), k))[j][id]
<1> DEFINE info == Without(slots[s], k)
           v == Believes(i, id, "Lost")
           told == Announcement(info, k)
<1>1. slots[s] \in TouchInfo
  BY DEF TypeOK
<1>2. /\ info \in TouchInfo /\ info.id = id
      /\ DOMAIN info.candidates = 1..(Len(slots[s].candidates) - 1)
      /\ \A j \in 1..(Len(slots[s].candidates) - 1) :
            info.candidates[j] = slots[s].candidates[IF j < k THEN j ELSE j + 1]
  BY <1>1, WithoutProperties
<1>3. EventTo(i, id, "gained") \notin told
  <2>1. ASSUME NEW j \in DOMAIN info.candidates
        PROVE  info.candidates[j].item # i
    <3> DEFINE m == IF j < k THEN j ELSE j + 1
    <3>1. /\ DOMAIN slots[s].candidates = 1..Len(slots[s].candidates)
          /\ Len(slots[s].candidates) \in Nat
      BY <1>1, QueueOf
    <3>2. m \in DOMAIN slots[s].candidates /\ m # k
          /\ info.candidates[j] = slots[s].candidates[m]
      BY <1>2, <3>1
    <3>3. slots[s].candidates[k].item = i
      BY DEF CandidateAt
    <3> HIDE DEF m
    <3> QED
      BY <3>2, <3>3, NoItemAssumption DEF Agree
  <2>2. SUFFICES ASSUME IsOwned(info), EventTo(i, id, "gained") \in Resolution(info)
                 PROVE  FALSE
    BY DEF Announcement
  <2>3. info.candidates[1].item = i
    BY <1>2, <2>2 DEF Resolution, EventTo
  <2>4. 1 \in DOMAIN info.candidates
    <3> HIDE DEF info
    <3> QED
      BY <1>2, <2>2, QueueOf DEF IsOwned
  <2> QED
    BY <2>1, <2>3, <2>4
<1>4. ASSUME NEW j \in Items
      PROVE  Told(view, E)[j][id] = Told(v, told)[j][id]
  <2>1. /\ v[i][id] = "Lost" /\ (j # i => v[j][id] = view[j][id])
    BY BelievesOthers DEF Views
  <2>2. CASE j = i
    <3>1. EventTo(i, id, "lost") \in E /\ EventTo(i, id, "gained") \notin E
      BY <1>3 DEF EventTo
    <3> QED
      BY <1>3, <2>1, <2>2, <3>1 DEF Told
  <2>3. CASE j # i
    <3>1. \A kind \in Kinds : EventTo(j, id, kind) \in E <=> EventTo(j, id, kind) \in told
      BY <2>3 DEF EventTo
    <3> QED
      BY <2>1, <2>3, <3>1 DEF Told, Kinds
  <2> QED
    BY <2>2, <2>3
<1> QED
  BY <1>4

LEMMA OwnershipReject ==
    ASSUME TypeOK, PoolInv, OwnershipInv, NEW i \in Items, NEW id \in TouchIds,
           RejectCandidateOwnerForTouch(i, id)
    PROVE  OwnershipInv'
<1> DEFINE info(s, k) == Without(slots[s], k)
           v == Believes(i, id, "Lost")
           told(s, k) == Announcement(info(s, k), k)
<1>0. PICK s \in Slots : \E k \in DOMAIN slots[s].candidates :
        /\ Finds(s, id) /\ CandidateAt(slots[s], k, i)
        /\ k > 1 \/ slots[s].candidates[k].state = "Undecided"
        /\ slots' = [slots EXCEPT ![s] = info(s, k)]
        /\ events' = {EventTo(i, id, "lost")} \cup told(s, k)
  BY DEF RejectCandidateOwnerForTouch
<1>1. PICK k \in DOMAIN slots[s].candidates :
        /\ Finds(s, id) /\ CandidateAt(slots[s], k, i)
        /\ k > 1 \/ slots[s].candidates[k].state = "Undecided"
        /\ slots' = [slots EXCEPT ![s] = info(s, k)]
        /\ events' = {EventTo(i, id, "lost")} \cup told(s, k)
  BY <1>0
<1>2. /\ ~inDispatchLoop /\ offered = {}
      /\ view' = Told(view, events')
      /\ offered' = offered /\ inDispatchLoop' = inDispatchLoop
  BY DEF RejectCandidateOwnerForTouch, Idle
<1>3. Current(s) /\ slots[s].id = id
  BY <1>1, <1>2, FoundIsCurrent
<1>4. /\ slots[s] \in TouchInfo /\ Agree(view, slots[s])
  BY <1>3 DEF TypeOK, OwnershipInv
<1>5. k = 1 => ~IsOwned(slots[s])
  BY <1>1 DEF IsOwned
<1>6. /\ info(s, k) \in TouchInfo /\ info(s, k).id = id
      /\ info(s, k).physicallyEnded = slots[s].physicallyEnded
      /\ DOMAIN info(s, k).candidates = 1..(Len(slots[s].candidates) - 1)
      /\ \A j \in 1..(Len(slots[s].candidates) - 1) :
            info(s, k).candidates[j] = slots[s].candidates[IF j < k THEN j ELSE j + 1]
  BY <1>3, <1>4, WithoutProperties
<1>7. \A e \in events' : e.touch = id
  BY <1>1, <1>6, AnnouncementTouch DEF EventTo
<1>8. \A j \in Items, other \in TouchIds : other # id => view'[j][other] = view[j][other]
  <2>1. ASSUME NEW j \in Items, NEW other \in TouchIds, other # id
        PROVE  view'[j][other] = view[j][other]
    <3>1. \A e \in events' : e.touch # other
      BY <1>7, <2>1
    <3>2. view \in [Items -> [TouchIds -> Views]]
      BY DEF TypeOK
    <3> QED
      BY <1>2, <3>1, <3>2, ToldOthers
  <2> QED
    BY <2>1
<1>9. Agree(Told(v, told(s, k)), info(s, k))
  BY <1>1, <1>3, <1>4, <1>5, TurningAway
<1>10. \A j \in Items : view'[j][id] = Told(v, told(s, k))[j][id]
  BY <1>1, <1>2, <1>3, <1>4, RejectTells
<1> HIDE DEF info, v, told
<1>11. Agree(view', info(s, k))
  BY <1>6, <1>9, <1>10, AgreeColumn
<1>12. /\ slots'[s] = info(s, k)
       /\ \A t \in Slots : t # s => slots'[t] = slots[t]
       /\ \A t \in Slots : /\ slots'[t].id = slots[t].id
                           /\ slots'[t].physicallyEnded = slots[t].physicallyEnded
  BY <1>1, <1>3, <1>6 DEF TypeOK
<1>13. \A t \in Slots : Current(t)' <=> Current(t)
  BY <1>2, <1>12, CurrentKept
<1> QED
  BY <1>2, <1>3, <1>6, <1>8, <1>11, <1>12, <1>13, OneTouch

-----------------------------------------------------------------------------
(* The end of an item.                                                     *)

\* What the items believe once item i is gone.
Forgets(i) == [view EXCEPT ![i] = [id \in TouchIds |-> "None"]]

LEMMA ForgetsProperties ==
    ASSUME TypeOK, NEW i \in Items
    PROVE  /\ Forgets(i) \in [Items -> [TouchIds -> Views]]
           /\ \A id \in TouchIds : Forgets(i)[i][id] = "None"
           /\ \A j \in Items, id \in TouchIds : j # i => Forgets(i)[j][id] = view[j][id]
<1>1. [id \in TouchIds |-> "None"] \in [TouchIds -> Views]
  BY DEF Views
<1> QED
  BY <1>1 DEF Forgets, TypeOK

\* A queue agrees with what is left of the beliefs when item i becomes a null
\* candidate of it.
LEMMA AgreeOrphaned ==
    ASSUME TypeOK, NEW i \in Items, NEW s \in Slots, slots[s].id \in TouchIds,
           Agree(view, slots[s])
    PROVE  Agree(Forgets(i), Orphaned(i)[s])
<1> DEFINE old == slots[s]
           info == Orphaned(i)[s]
           v == Forgets(i)
<1>1. /\ old \in TouchInfo /\ info \in TouchInfo /\ info.id = old.id
      /\ DOMAIN info.candidates = DOMAIN old.candidates
      /\ \A k \in DOMAIN old.candidates :
            /\ info.candidates[k].state = old.candidates[k].state
            /\ info.candidates[k].item = IF old.candidates[k].item = i THEN NoItem
                                         ELSE old.candidates[k].item
  BY OrphanedType DEF TypeOK
<1>2. /\ v[i][old.id] = "None"
      /\ \A j \in Items : j # i => v[j][old.id] = view[j][old.id]
  BY ForgetsProperties
<1>3. IsOwned(info) <=> IsOwned(old)
  <2>1. /\ (old.candidates # <<>>) <=> (info.candidates # <<>>)
        /\ old.candidates # <<>> => 1 \in DOMAIN old.candidates
    <3> HIDE DEF old, info
    <3>1. /\ Len(old.candidates) \in Nat /\ Len(info.candidates) \in Nat
          /\ 1..Len(old.candidates) = 1..Len(info.candidates)
          /\ DOMAIN old.candidates = 1..Len(old.candidates)
          /\ (old.candidates # <<>>) <=> Len(old.candidates) # 0
          /\ (info.candidates # <<>>) <=> Len(info.candidates) # 0
      BY <1>1, QueueOf
    <3>2. Len(old.candidates) # 0 <=> 1 \in 1..Len(old.candidates)
      BY <3>1
    <3>3. Len(info.candidates) # 0 <=> 1 \in 1..Len(info.candidates)
      BY <3>1
    <3> QED
      BY <3>1, <3>2, <3>3
  <2> QED
    BY <1>1, <2>1 DEF IsOwned
<1> HIDE DEF v
<1>4. ASSUME NEW k \in DOMAIN info.candidates, info.candidates[k].item # NoItem
      PROVE  /\ \A j \in DOMAIN info.candidates :
                   info.candidates[j].item = info.candidates[k].item => j = k
             /\ v[info.candidates[k].item][info.id]
                   \in IF ~IsOwned(info) THEN {info.candidates[k].state, "Lost"}
                      ELSE IF k = 1 THEN {"Owner"} ELSE {"Lost"}
  <2>1. /\ k \in DOMAIN old.candidates
        /\ info.candidates[k].item = old.candidates[k].item
        /\ info.candidates[k].state = old.candidates[k].state
        /\ old.candidates[k].item # i /\ old.candidates[k].item # NoItem
    BY <1>1, <1>4
  <2>2. /\ \A j \in DOMAIN old.candidates :
              old.candidates[j].item = old.candidates[k].item => j = k
        /\ view[old.candidates[k].item][old.id]
              \in IF ~IsOwned(old) THEN {old.candidates[k].state, "Lost"}
                 ELSE IF k = 1 THEN {"Owner"} ELSE {"Lost"}
    BY <2>1 DEF Agree
  <2>3. old.candidates[k].item \in Items
    BY <1>1, <2>1, QueueOf
  <2>4. \A j \in DOMAIN info.candidates :
          info.candidates[j].item = info.candidates[k].item => j = k
    BY <1>1, <2>1, <2>2
  <2>5. v[info.candidates[k].item][info.id] = view[old.candidates[k].item][old.id]
    BY <1>1, <1>2, <2>1, <2>3
  <2> QED
    BY <1>3, <2>1, <2>2, <2>4, <2>5
<1>5. ASSUME NEW j \in Items, v[j][info.id] \in CandidateStates
      PROVE  /\ ~IsOwned(info)
             /\ \E k \in DOMAIN info.candidates :
                   CandidateAt(info, k, j) /\ info.candidates[k].state = v[j][info.id]
  <2>1. j # i /\ view[j][old.id] = v[j][info.id]
    BY <1>1, <1>2, <1>5 DEF CandidateStates
  <2>2. ~IsOwned(old)
    BY <1>5, <2>1 DEF Agree
  <2>3. PICK k \in DOMAIN old.candidates :
          CandidateAt(old, k, j) /\ old.candidates[k].state = view[j][old.id]
    BY <1>5, <2>1 DEF Agree
  <2>4. CandidateAt(info, k, j) /\ info.candidates[k].state = v[j][info.id]
    BY <1>1, <2>1, <2>3 DEF CandidateAt
  <2> QED
    BY <1>1, <1>3, <2>2, <2>4
<1>6. ASSUME NEW j \in Items, v[j][info.id] = "Owner"
      PROVE  IsOwned(info) /\ CandidateAt(info, 1, j)
  <2>1. j # i /\ view[j][old.id] = "Owner"
    BY <1>1, <1>2, <1>6
  <2> QED
    BY <1>1, <1>3, <2>1 DEF Agree, CandidateAt
<1> HIDE DEF info
<1> QED
  BY <1>4, <1>5, <1>6 DEF Agree, v, info

\* Pruning the null candidate of an info keeps it in agreement, once the
\* announcement has been sent.
LEMMA AgreePruned ==
    ASSUME NEW old \in TouchInfo, old.id \in TouchIds, NullCandidate(old),
           NEW v \in [Items -> [TouchIds -> Views]], Agree(v, old), NEW E,
           \A e : e.touch = old.id =>
               (e \in E <=> e \in Announcement(Pruned(old), NullIndex(old)))
    PROVE  Agree(Told(v, E), Pruned(old))
<1> DEFINE k == NullIndex(old)
<1>1. k \in DOMAIN old.candidates /\ old.candidates[k].item = NoItem
  BY DEF NullCandidate, NullIndex
<1>2. Pruned(old) = Without(old, k)
  BY DEF Pruned
<1> HIDE DEF k
<1>3. \A e : e.touch = old.id => (e \in E <=> e \in Announcement(Without(old, k), k))
  BY <1>2 DEF k
<1>4. \A m \in DOMAIN old.candidates : m # k /\ old.candidates[m].item # NoItem =>
        /\ \A j \in DOMAIN old.candidates :
              j # k /\ old.candidates[j].item = old.candidates[m].item => j = m
        /\ v[old.candidates[m].item][old.id]
              \in IF ~IsOwned(old) THEN {old.candidates[m].state, "Lost"}
                 ELSE IF m = 1 THEN {"Owner"} ELSE {"Lost"}
  BY DEF Agree
<1>5. \A j \in Items : v[j][old.id] \in CandidateStates =>
        /\ ~IsOwned(old)
        /\ \E m \in DOMAIN old.candidates :
              m # k /\ CandidateAt(old, m, j) /\ old.candidates[m].state = v[j][old.id]
  <2>1. ASSUME NEW j \in Items, v[j][old.id] \in CandidateStates
        PROVE  /\ ~IsOwned(old)
               /\ \E m \in DOMAIN old.candidates :
                     m # k /\ CandidateAt(old, m, j) /\ old.candidates[m].state = v[j][old.id]
    <3>1. ~IsOwned(old)
      BY <2>1 DEF Agree
    <3>2. PICK m \in DOMAIN old.candidates :
            CandidateAt(old, m, j) /\ old.candidates[m].state = v[j][old.id]
      BY <2>1 DEF Agree
    <3>3. m # k
      BY <1>1, <3>2, NoItemAssumption DEF CandidateAt
    <3> QED
      BY <3>1, <3>2, <3>3
  <2> QED
    BY <2>1
<1>6. \A j \in Items : v[j][old.id] = "Owner" =>
        k # 1 /\ IsOwned(old) /\ CandidateAt(old, 1, j)
  BY <1>1, NoItemAssumption DEF Agree, CandidateAt
<1>7. Agree(Told(v, E), Without(old, k))
  BY <1>1, <1>3, <1>4, <1>5, <1>6, AgreeWithout
<1> QED
  BY <1>2, <1>7

LEMMA OwnershipDestroy ==
    ASSUME TypeOK, PoolInv, OwnershipInv, NEW i \in Items, DestroyItem(i)
    PROVE  OwnershipInv'
<1> DEFINE orphans == Orphaned(i)
           prunes == {s \in Slots : /\ NullCandidate(orphans[s])
                                    /\ \E id \in TouchIds :
                                          <<i, id>> \in connections /\ Finds(s, id)}
           pruned == [s \in Slots |-> IF s \in prunes THEN Pruned(orphans[s])
                                                     ELSE orphans[s]]
           freed == {s \in prunes : Ended(pruned[s])}
           told(s) == Announcement(pruned[s], NullIndex(orphans[s]))
           v == Forgets(i)
<1>1. /\ SetSlots(pruned, freed)
      /\ events' = UNION {told(s) : s \in prunes}
      /\ view' = Told(v, events')
      /\ offered = {} /\ offered' = {}
  BY DEF DestroyItem, Idle, Forgets
<1>2. \A s \in Slots : Stale(s) = FALSE /\ Stale(s)' = FALSE
  BY <1>1 DEF Stale
<1>3. /\ prunes \subseteq Slots /\ \A s \in prunes : NullCandidate(orphans[s])
      /\ freed = {s \in prunes : Ended(pruned[s])}
      /\ \A s \in Slots : pruned[s] = IF s \in prunes THEN Pruned(orphans[s])
                                      ELSE orphans[s]
  OBVIOUS
<1>4. \A s \in Slots : slots'[s] = IF s \in freed THEN EmptyInfo ELSE pruned[s]
  BY <1>1 DEF SetSlots
<1>5. /\ v \in [Items -> [TouchIds -> Views]]
      /\ \A id \in TouchIds : v[i][id] = "None"
      /\ \A j \in Items, id \in TouchIds : j # i => v[j][id] = view[j][id]
  BY ForgetsProperties
<1>6. \A s \in Slots : /\ orphans[s] \in TouchInfo /\ pruned[s] \in TouchInfo
                       /\ orphans[s].id = slots[s].id /\ pruned[s].id = slots[s].id
  <2> HIDE DEF pruned, prunes
  <2> QED
    BY <1>3, OrphanedType, PrunedType
<1>7. \A s \in Slots : Current(s) => slots[s].id \in TouchIds
  BY DEF Current, InUse, TypeOK, TouchInfo
<1> HIDE DEF prunes, pruned, freed
<1>8. ASSUME NEW s \in prunes, NEW e \in told(s)
      PROVE  e.touch = slots[s].id
  BY <1>3, <1>6, AnnouncementTouch
<1> HIDE DEF told, orphans, v
<1>9. ASSUME NEW s \in Slots, Current(s)
      PROVE  \A e : e.touch = slots[s].id => (e \in events' <=> s \in prunes /\ e \in told(s))
  <2>1. SUFFICES ASSUME NEW e, e.touch = slots[s].id, e \in events'
                 PROVE  s \in prunes /\ e \in told(s)
    BY <1>1
  <2>2. PICK t \in prunes : e \in told(t)
    BY <1>1, <2>1
  <2>3. t \in Slots /\ slots[t].id = slots[s].id
    BY <1>3, <1>8, <2>1, <2>2
  <2>4. Current(t)
    BY <1>2, <1>9, <2>3 DEF Current, InUse
  <2>5. t = s
    BY <1>9, <2>3, <2>4 DEF PoolInv
  <2> QED
    BY <2>2, <2>5
<1>10. ASSUME NEW s \in Slots, Current(s)
       PROVE  Agree(view', pruned[s])
  <2>1. Agree(v, orphans[s])
    BY <1>7, <1>10, AgreeOrphaned DEF OwnershipInv, v, orphans
  <2>2. CASE s \in prunes
    <3>1. pruned[s] = Pruned(orphans[s]) /\ NullCandidate(orphans[s])
      BY <1>3, <2>2
    <3>2. \A e : e.touch = orphans[s].id =>
            (e \in events' <=> e \in Announcement(Pruned(orphans[s]), NullIndex(orphans[s])))
      BY <1>6, <1>9, <1>10, <2>2, <3>1 DEF told
    <3> QED
      BY <1>1, <1>5, <1>6, <1>7, <1>10, <2>1, <3>1, <3>2, AgreePruned
  <2>3. CASE s \notin prunes
    <3>1. \A e \in events' : e.touch # slots[s].id
      BY <1>9, <1>10, <2>3
    <3>2. \A j \in Items : view'[j][slots[s].id] = v[j][slots[s].id]
      BY <1>1, <1>5, <1>7, <1>10, <3>1, ToldOthers
    <3>3. pruned[s] = orphans[s]
      BY <1>3, <2>3
    <3> QED
      BY <1>6, <2>1, <3>2, <3>3, AgreeColumn, SMTT(30)
  <2> QED
    BY <2>2, <2>3
<1>11. ASSUME NEW s \in Slots, Current(s)'
       PROVE  Current(s) /\ slots'[s] = pruned[s]
  BY <1>2, <1>4, <1>6, <1>11 DEF Current, InUse, EmptyInfo
<1>12. ASSUME NEW j \in Items, NEW id \in TouchIds, view'[j][id] \in CandidateStates
       PROVE  \E s \in Slots : Current(s)' /\ slots'[s].id = id
  <2>1. view'[j][id] = v[j][id]
    BY <1>1, <1>12 DEF Told, CandidateStates
  <2>2. j # i /\ Waiting(j, id)
    BY <1>5, <1>12, <2>1 DEF Waiting, CandidateStates
  <2>3. PICK s \in Slots : Current(s) /\ slots[s].id = id
    BY <2>2 DEF OwnershipInv
  <2>4. Agree(view', pruned[s]) /\ pruned[s].id = id
    BY <1>6, <1>10, <2>3
  <2>5. ~IsOwned(pruned[s]) /\ pruned[s].candidates # <<>>
    BY <1>6, <1>12, <2>3, <2>4, QueueOf DEF Agree
  <2>6. slots'[s] = pruned[s]
    BY <1>3, <1>4, <2>5 DEF Ended
  <2>7. Current(s)'
    BY <1>2, <2>3, <2>4, <2>6 DEF Current, InUse
  <2> QED
    BY <2>4, <2>6, <2>7
<1>13. ASSUME NEW j \in Items, NEW l \in Items, NEW id \in TouchIds,
              view'[j][id] = "Owner", view'[l][id] = "Owner"
       PROVE  j = l
  <2>1. CASE \E s \in Slots : Current(s) /\ slots[s].id = id
    <3>1. PICK s \in Slots : Current(s) /\ slots[s].id = id
      BY <2>1
    <3>2. Agree(view', pruned[s]) /\ pruned[s].id = id
      BY <1>6, <1>10, <3>1
    <3> QED
      BY <1>13, <3>2 DEF Agree, CandidateAt
  <2>2. CASE ~\E s \in Slots : Current(s) /\ slots[s].id = id
    <3>1. \A e \in events' : e.touch # id
      <4>1. SUFFICES ASSUME NEW e \in events', e.touch = id PROVE FALSE
        OBVIOUS
      <4>2. PICK s \in prunes : e \in told(s)
        BY <1>1
      <4>3. s \in Slots /\ slots[s].id = id
        BY <1>3, <1>8, <4>1, <4>2
      <4> QED
        BY <1>2, <2>2, <4>3, NoTouchAssumption DEF Current, InUse
    <3>2. \A m \in Items : view'[m][id] = v[m][id]
      BY <1>1, <1>5, <3>1, ToldOthers
    <3>3. view[j][id] = "Owner" /\ view[l][id] = "Owner"
      BY <1>5, <1>13, <3>2
    <3> QED
      BY <3>3 DEF OwnershipInv, ExclusiveOwnership
  <2> QED
    BY <2>1, <2>2
<1> QED
  BY <1>1, <1>10, <1>11, <1>12, <1>13 DEF OwnershipInv, ExclusiveOwnership, Waiting

-----------------------------------------------------------------------------
(* Steps that decide nothing.                                              *)

LEMMA AgreeSameQueue ==
    ASSUME NEW info, NEW other, other.id = info.id, other.candidates = info.candidates,
           NEW v, Agree(v, info)
    PROVE  Agree(v, other)
<1>1. IsOwned(other) <=> IsOwned(info)
  BY DEF IsOwned
<1>2. \A k, i : CandidateAt(other, k, i) <=> CandidateAt(info, k, i)
  BY DEF CandidateAt
<1>3. ASSUME NEW k \in DOMAIN other.candidates, other.candidates[k].item # NoItem
      PROVE  /\ \A j \in DOMAIN other.candidates :
                   other.candidates[j].item = other.candidates[k].item => j = k
             /\ v[other.candidates[k].item][other.id]
                   \in IF ~IsOwned(other) THEN {other.candidates[k].state, "Lost"}
                      ELSE IF k = 1 THEN {"Owner"} ELSE {"Lost"}
  BY <1>1, <1>3 DEF Agree
<1>4. ASSUME NEW i \in Items, v[i][other.id] \in CandidateStates
      PROVE  /\ ~IsOwned(other)
             /\ \E k \in DOMAIN other.candidates :
                   CandidateAt(other, k, i) /\ other.candidates[k].state = v[i][other.id]
  BY <1>1, <1>2, <1>4 DEF Agree
<1>5. ASSUME NEW i \in Items, v[i][other.id] = "Owner"
      PROVE  IsOwned(other) /\ CandidateAt(other, 1, i)
  BY <1>1, <1>2, <1>5 DEF Agree
<1> QED
  BY <1>3, <1>4, <1>5 DEF Agree

\* Queues and beliefs stay as they are; what is freed is owned or empty.
LEMMA OwnershipKept ==
    ASSUME TypeOK, OwnershipInv, slots' \in [Slots -> TouchInfo],
           view' = view, offered' \subseteq offered,
           \A s \in Slots : Current(s)' =>
               /\ Current(s) /\ slots'[s].id = slots[s].id
               /\ slots'[s].candidates = slots[s].candidates,
           \A s \in Slots : Current(s) /\ ~Current(s)' =>
               IsOwned(slots[s]) \/ slots[s].candidates = <<>>
    PROVE  OwnershipInv'
<1>1. ASSUME NEW s \in Slots, Current(s)'
      PROVE  Agree(view', slots'[s])
  <2>1. Agree(view, slots[s])
    BY <1>1 DEF OwnershipInv
  <2>2. slots'[s].id = slots[s].id /\ slots'[s].candidates = slots[s].candidates
    BY <1>1
  <2>3. Agree(view, slots'[s])
    BY <2>1, <2>2, AgreeSameQueue
  <2> QED
    BY <2>3
<1>2. ASSUME NEW s \in Slots, Current(s)', slots'[s].id \in offered'
      PROVE  AllUndecided(slots'[s])
  BY <1>2 DEF OwnershipInv, AllUndecided
<1>3. ASSUME NEW i \in Items, NEW id \in TouchIds, view'[i][id] \in CandidateStates
      PROVE  \E s \in Slots : Current(s)' /\ slots'[s].id = id
  <2>1. PICK s \in Slots : Current(s) /\ slots[s].id = id
    BY <1>3 DEF OwnershipInv, Waiting
  <2>2. Agree(view, slots[s]) /\ slots[s] \in TouchInfo
    BY <2>1 DEF OwnershipInv, TypeOK
  <2>3. ~IsOwned(slots[s]) /\ slots[s].candidates # <<>>
    BY <1>3, <2>1, <2>2, QueueOf DEF Agree
  <2>4. Current(s)' /\ slots'[s].id = id
    BY <2>1, <2>3
  <2> QED
    BY <2>4
<1> QED
  BY <1>1, <1>2, <1>3 DEF OwnershipInv, ExclusiveOwnership, Waiting

\* The touch that lands has an empty queue and nobody believes anything of it.
LEMMA OwnershipPress ==
    ASSUME TypeOK, PoolInv, OwnershipInv, NEW id \in TouchIds, PressTouch(id)
    PROVE  OwnershipInv'
<1>1. PICK s \in Slots :
        IsEmptySlot(s) /\ slots' = [slots EXCEPT ![s] = NewInfo(id)]
  BY DEF PressTouch
<1>2. /\ NewInfo(id) \in TouchInfo /\ NewInfo(id).id = id
      /\ NewInfo(id).candidates = <<>> /\ ~NewInfo(id).physicallyEnded
      /\ id # NoTouch
      /\ slots'[s] = NewInfo(id)
      /\ \A t \in Slots : t # s => slots'[t] = slots[t]
  BY <1>1, EmptyInfoType, NoTouchAssumption DEF NewInfo, EmptyInfo, TypeOK
<1>3. /\ offered = {} /\ offered' = {id}
      /\ view' = [i \in Items |-> [view[i] EXCEPT ![id] = "None"]]
      /\ \A t \in Slots : slots[t].id = id => Ended(slots[t])
  BY DEF PressTouch, Idle
<1>4. ~InUse(s)
  BY <1>1 DEF IsEmptySlot, PoolInv, TypeOK, Slots
<1>5. /\ \A i \in Items : view'[i][id] = "None"
      /\ \A i \in Items, other \in TouchIds : other # id => view'[i][other] = view[i][other]
  BY <1>3 DEF TypeOK
<1>6. ASSUME NEW t \in Slots, t # s, Current(t)'
      PROVE  Current(t) /\ slots'[t] = slots[t] /\ slots[t].id # id
  <2>1. slots'[t] = slots[t] /\ InUse(t)
    BY <1>2, <1>6 DEF Current, InUse
  <2>2. slots[t].id # id
    BY <1>3, <1>6, <2>1 DEF Current, Stale, InUse, Ended
  <2> QED
    BY <1>3, <2>1, <2>2 DEF Current, Stale
<1>7. ASSUME NEW t \in Slots, t # s, Current(t), slots[t].id # id
      PROVE  Current(t)' /\ slots'[t] = slots[t]
  BY <1>2, <1>3, <1>7 DEF Current, Stale, InUse
<1>8. ASSUME NEW t \in Slots, Current(t)'
      PROVE  Agree(view', slots'[t])
  <2>1. CASE t = s
    <3>1. DOMAIN NewInfo(id).candidates = {}
      BY <1>2
    <3> QED
      BY <1>2, <1>5, <2>1, <3>1 DEF Agree, CandidateStates
  <2>2. CASE t # s
    <3>1. Current(t) /\ slots'[t] = slots[t] /\ slots[t].id # id
      BY <1>6, <1>8, <2>2
    <3>2. slots[t] \in TouchInfo /\ slots[t].id \in TouchIds
      BY <3>1 DEF TypeOK, TouchInfo, Current, InUse
    <3>3. Agree(view, slots[t])
      BY <3>1 DEF OwnershipInv
    <3>4. \A i \in Items : view'[i][slots[t].id] = view[i][slots[t].id]
      BY <1>5, <3>1, <3>2
    <3> QED
      BY <3>1, <3>2, <3>3, <3>4, AgreeColumn
  <2> QED
    BY <2>1, <2>2
<1>9. ASSUME NEW t \in Slots, Current(t)', slots'[t].id \in offered'
      PROVE  AllUndecided(slots'[t])
  <2>1. t = s
    BY <1>3, <1>6, <1>9
  <2> QED
    BY <1>2, <2>1 DEF AllUndecided
<1>10. ASSUME NEW i \in Items, NEW other \in TouchIds,
              view'[i][other] \in CandidateStates
       PROVE  \E t \in Slots : Current(t)' /\ slots'[t].id = other
  <2>1. other # id /\ Waiting(i, other)
    BY <1>5, <1>10 DEF Waiting, CandidateStates
  <2>2. PICK t \in Slots : Current(t) /\ slots[t].id = other
    BY <2>1 DEF OwnershipInv
  <2>3. t # s
    BY <1>4, <2>2 DEF Current
  <2> QED
    BY <1>7, <2>1, <2>2, <2>3
<1>11. ExclusiveOwnership'
  <2>1. \A i \in Items, other \in TouchIds :
          view'[i][other] = "Owner" => view[i][other] = "Owner"
    BY <1>5
  <2> QED
    BY <2>1 DEF OwnershipInv, ExclusiveOwnership
<1> QED
  BY <1>8, <1>9, <1>10, <1>11 DEF OwnershipInv, Waiting

LEMMA OwnershipInductive ==
    ASSUME TypeOK, PoolInv, OwnershipInv, [Next]_vars
    PROVE  OwnershipInv'
<1>0. TypeOK'
  BY TypeInductive
<1>1. ASSUME NEW id \in TouchIds, PressTouch(id)
      PROVE  OwnershipInv'
  BY <1>1, OwnershipPress
<1>2. ASSUME NEW released \in SUBSET TouchIds, UpdateTouches(released)
      PROVE  OwnershipInv'
  <2>1. \A s \in Slots : /\ slots'[s].id = slots[s].id
                         /\ slots'[s].candidates = slots[s].candidates
    BY <1>2, EndedPhysicallyProperties DEF UpdateTouches, TypeOK
  <2>2. offered = {} /\ offered' = {} /\ view' = view
    BY <1>2 DEF UpdateTouches, Idle
  <2>3. \A s \in Slots : Current(s)' <=> Current(s)
    BY <2>1, <2>2 DEF Current, Stale, InUse
  <2> QED
    BY <1>0, <2>1, <2>2, <2>3, OwnershipKept DEF TypeOK
<1>3. CASE UNCHANGED <<slots, view, offered>>
  <2>1. \A s \in Slots : Current(s)' <=> Current(s)
    BY <1>3 DEF Current, Stale, InUse
  <2> QED
    BY <1>0, <1>3, <2>1, OwnershipKept DEF TypeOK
<1>4. CASE EndUpdate
  <2>1. /\ view' = view /\ offered' = offered
        /\ \A s \in Slots :
              slots'[s] = IF InUse(s) /\ Ended(slots[s]) THEN EmptyInfo ELSE slots[s]
    BY <1>4 DEF EndUpdate, SetSlots
  <2>2. ASSUME NEW s \in Slots, Current(s)'
        PROVE  slots'[s] = slots[s] /\ Current(s)
    BY <2>1, <2>2 DEF Current, Stale, InUse, EmptyInfo
  <2>3. ASSUME NEW s \in Slots, Current(s), ~Current(s)'
        PROVE  IsOwned(slots[s]) \/ slots[s].candidates = <<>>
    <3>1. InUse(s) /\ Ended(slots[s])
      BY <2>1, <2>3 DEF Current, Stale, InUse
    <3> QED
      BY <3>1 DEF Ended
  <2> QED
    BY <1>0, <2>1, <2>2, <2>3, OwnershipKept DEF TypeOK
<1>5. CASE PressDelivered
  <2>1. ~inDispatchLoop /\ slots' = slots /\ view' = view /\ offered' = {}
    BY <1>5 DEF PressDelivered, registryVars
  <2>2. \A s \in Slots : Current(s)' <=> Current(s)
    BY <2>1 DEF PoolInv, Current, Stale, InUse
  <2> QED
    BY <1>0, <2>1, <2>2, OwnershipKept DEF TypeOK
<1>6. ASSUME NEW i \in Items, NEW id \in TouchIds, AddTouchWatcher(i, id)
      PROVE  OwnershipInv'
  <2>1. \A s \in Slots : /\ slots'[s].id = slots[s].id
                         /\ slots'[s].physicallyEnded = slots[s].physicallyEnded
                         /\ slots'[s].candidates = slots[s].candidates
    BY <1>6, MarkProperties DEF AddTouchWatcher, TypeOK
  <2>2. offered' = offered /\ view' = view
    BY <1>6 DEF AddTouchWatcher
  <2>3. \A s \in Slots : Current(s)' <=> Current(s)
    BY <2>1, <2>2 DEF Current, Stale, InUse
  <2> QED
    BY <1>0, <2>1, <2>2, <2>3, OwnershipKept DEF TypeOK
<1>7. ASSUME NEW i \in Items, DispatchPointsToItem(i)
      PROVE  OwnershipInv'
  BY <1>3, <1>7 DEF DispatchPointsToItem
<1>8. CASE UNCHANGED vars
  BY <1>3, <1>8 DEF vars, registryVars, worldVars
<1>9. ASSUME NEW i \in Items, NEW id \in TouchIds,
             \/ AddCandidateOwnerForTouch(i, id)
             \/ RequestOwnershipOnPress(i, id)
             \/ RequestTouchOwnership(i, id)
             \/ RemoveCandidateOwnerForTouch(i, id)
             \/ RejectCandidateOwnerForTouch(i, id)
      PROVE  OwnershipInv'
  BY <1>9, OwnershipAdd, OwnershipOnPress, OwnershipRequest, OwnershipRemove,
     OwnershipReject
<1>10. ASSUME NEW i \in Items, DestroyItem(i)
       PROVE  OwnershipInv'
  BY <1>10, OwnershipDestroy
<1> QED
  BY <1>1, <1>2, <1>4, <1>5, <1>6, <1>7, <1>8, <1>9, <1>10 DEF Next

-----------------------------------------------------------------------------
(* What the registry promises.                                             *)

\* Every reachable state has a pool with one current info per id, whose queue agrees
\* with what the items have been told.
THEOREM OwnershipInvariant == Spec => [](PoolInv /\ OwnershipInv)
<1>1. Init => PoolInv
  BY DEF Init, PoolInv, InUse, Stale, Current, EmptyInfo
<1>2. Init => OwnershipInv
  BY DEF Init, OwnershipInv, ExclusiveOwnership, Current, InUse, EmptyInfo, Waiting,
         CandidateStates
<1>3. TypeOK /\ PoolInv /\ OwnershipInv /\ [Next]_vars => (PoolInv /\ OwnershipInv)'
  BY PoolInductive, OwnershipInductive
<1> QED
  BY <1>1, <1>2, <1>3, TypeCorrect, PTL DEF Spec

\* A touch never has two owners: whatever the order of calls, timeouts, removals and
\* destructions, a gain is announced only when no earlier owner is left.
THEOREM OwnershipIsExclusive == Spec => []ExclusiveOwnership
<1>1. OwnershipInv => ExclusiveOwnership
  BY DEF OwnershipInv
<1> QED
  BY <1>1, OwnershipInvariant, TypeCorrect, PTL

\* The head of an owned touch and everybody queued behind it know the outcome.
THEOREM QueueKnowsOutcome == Spec => []OutcomeKnown
<1>1. TypeOK /\ PoolInv /\ OwnershipInv => OutcomeKnown
  <2>1. SUFFICES ASSUME TypeOK, OwnershipInv, NEW s \in Slots,
                        InUse(s), IsOwned(slots[s]), slots[s].id \notin offered,
                        NEW k \in DOMAIN slots[s].candidates,
                        slots[s].candidates[k].item # NoItem
                 PROVE  view[slots[s].candidates[k].item][slots[s].id]
                            = IF k = 1 THEN "Owner" ELSE "Lost"
    BY DEF OutcomeKnown
  <2>2. Agree(view, slots[s])
    BY <2>1 DEF OwnershipInv, Current, Stale
  <2> QED
    BY <2>1, <2>2 DEF Agree
<1> QED
  BY <1>1, OwnershipInvariant, TypeCorrect, PTL

\* Whoever waits for an answer is queued for a touch that nobody owns, in the state
\* it asked for: no call of a waiting item meets the qFatal of a touch that is gone
\* or the assertion that its touch is not owned.
THEOREM NobodyForgotten == Spec => []NoCandidateForgotten
<1>1. TypeOK /\ PoolInv /\ OwnershipInv => NoCandidateForgotten
  <2>1. SUFFICES ASSUME TypeOK, PoolInv, OwnershipInv,
                        NEW i \in Items, NEW id \in TouchIds, Waiting(i, id)
                 PROVE  \E s \in Slots : \E k \in DOMAIN slots[s].candidates :
                            /\ Finds(s, id) /\ ~IsOwned(slots[s])
                            /\ CandidateAt(slots[s], k, i)
                            /\ slots[s].candidates[k].state = view[i][id]
    BY DEF NoCandidateForgotten
  <2>2. PICK s \in Slots : Current(s) /\ slots[s].id = id
    BY <2>1 DEF OwnershipInv
  <2>3. Finds(s, id)
    <3>1. s \in 1..lastUsed
      BY <2>1, <2>2 DEF PoolInv, Current, TypeOK, Slots
    <3>2. ASSUME NEW t \in 1..(s - 1), slots[t].id = id
          PROVE  FALSE
      <4>1. t \in Slots /\ t # s
        BY DEF Slots
      <4>2. InUse(t)
        BY <3>2, NoTouchAssumption DEF InUse
      <4>3. Stale(t)
        BY <2>1, <2>2, <3>2, <4>1, <4>2 DEF PoolInv, Current
      <4>4. inDispatchLoop /\ id \in offered
        BY <2>1, <3>2, <4>1, <4>3 DEF PoolInv, Stale
      <4> QED
        BY <2>1, <4>4, WaitingNotOffered
    <3> QED
      BY <2>2, <3>1, <3>2 DEF Finds
  <2>4. /\ ~IsOwned(slots[s])
        /\ \E k \in DOMAIN slots[s].candidates :
              CandidateAt(slots[s], k, i) /\ slots[s].candidates[k].state = view[i][id]
    BY <2>1, <2>2 DEF OwnershipInv, Agree, Waiting
  <2> QED
    BY <2>3, <2>4
<1> QED
  BY <1>1, OwnershipInvariant, TypeCorrect, PTL

-----------------------------------------------------------------------------
(* The queue of an unowned touch between a call and its announcement.      *)

\* What the items believe (v) of a touch that nobody owns yet.
Queued(v, info) ==
    /\ \A k \in DOMAIN info.candidates : info.candidates[k].item # NoItem =>
          /\ \A j \in DOMAIN info.candidates :
                info.candidates[j].item = info.candidates[k].item => j = k
          /\ v[info.candidates[k].item][info.id] \in {info.candidates[k].state, "Lost"}
    /\ \A i \in Items : v[i][info.id] \in CandidateStates =>
          \E k \in DOMAIN info.candidates : CandidateAt(info, k, i)
    /\ \A i \in Items : v[i][info.id] # "Owner"

\* What is left of a queue keeps its order.
LEMMA WithoutKeeps ==
    ASSUME NEW old \in TouchInfo, NEW k \in DOMAIN old.candidates
    PROVE  /\ \A j \in DOMAIN Without(old, k).candidates :
                 \E m \in DOMAIN old.candidates :
                    m # k /\ Without(old, k).candidates[j] = old.candidates[m]
           /\ \A m \in DOMAIN old.candidates : m # k =>
                 \E j \in DOMAIN Without(old, k).candidates :
                    Without(old, k).candidates[j] = old.candidates[m]
           /\ \A i, j \in DOMAIN Without(old, k).candidates : i < j =>
                 \E m, n \in DOMAIN old.candidates :
                    /\ m # k /\ n # k /\ m < n
                    /\ Without(old, k).candidates[i] = old.candidates[m]
                    /\ Without(old, k).candidates[j] = old.candidates[n]
<1> DEFINE n == Len(old.candidates)
           q == Without(old, k).candidates
           At(j) == IF j < k THEN j ELSE j + 1
<1>1. n \in Nat /\ DOMAIN old.candidates = 1..n /\ k \in 1..n
  BY QueueOf
<1>2. /\ DOMAIN q = 1..(n - 1)
      /\ \A j \in 1..(n - 1) : q[j] = old.candidates[At(j)]
  BY WithoutProperties
<1>3. \A j \in 1..(n - 1) : At(j) \in 1..n /\ At(j) # k
  BY <1>1
<1>4. \A i, j \in 1..(n - 1) : i < j => At(i) < At(j)
  BY <1>1
<1>5. ASSUME NEW m \in 1..n, m # k
      PROVE  \E j \in 1..(n - 1) : At(j) = m
  <2>1. CASE m < k
    BY <1>1, <1>5, <2>1
  <2>2. CASE ~(m < k)
    <3>1. m - 1 \in 1..(n - 1) /\ At(m - 1) = m
      BY <1>1, <1>5, <2>2
    <3> QED
      BY <3>1
  <2> QED
    BY <2>1, <2>2
<1> HIDE DEF At, q, n
<1>6. \A j \in DOMAIN q : \E m \in DOMAIN old.candidates : m # k /\ q[j] = old.candidates[m]
  BY <1>1, <1>2, <1>3
<1>7. \A m \in DOMAIN old.candidates : m # k => \E j \in DOMAIN q : q[j] = old.candidates[m]
  BY <1>1, <1>2, <1>5
<1>8. ASSUME NEW i \in DOMAIN q, NEW j \in DOMAIN q, i < j
      PROVE  \E l, m \in DOMAIN old.candidates :
                 /\ l # k /\ m # k /\ l < m
                 /\ q[i] = old.candidates[l] /\ q[j] = old.candidates[m]
  <2>1. /\ At(i) \in DOMAIN old.candidates /\ At(j) \in DOMAIN old.candidates
        /\ At(i) # k /\ At(j) # k /\ At(i) < At(j)
        /\ q[i] = old.candidates[At(i)] /\ q[j] = old.candidates[At(j)]
    BY <1>1, <1>2, <1>3, <1>4, <1>8
  <2> QED
    BY <2>1
<1> QED
  BY <1>6, <1>7, <1>8 DEF q

\* Candidate k leaves: what the others believe still fits their queue.
LEMMA QueuedWithout ==
    ASSUME NEW old \in TouchInfo, old.id \in TouchIds, NEW k \in DOMAIN old.candidates,
           NEW v,
           \A m \in DOMAIN old.candidates : m # k /\ old.candidates[m].item # NoItem =>
               /\ \A j \in DOMAIN old.candidates :
                     j # k /\ old.candidates[j].item = old.candidates[m].item => j = m
               /\ v[old.candidates[m].item][old.id] \in {old.candidates[m].state, "Lost"},
           \A i \in Items : v[i][old.id] \in CandidateStates =>
               \E m \in DOMAIN old.candidates : m # k /\ CandidateAt(old, m, i),
           \A i \in Items : v[i][old.id] # "Owner"
    PROVE  Queued(v, Without(old, k))
<1> DEFINE info == Without(old, k)
<1>0. /\ info \in TouchInfo /\ info.id = old.id
      /\ \A j \in DOMAIN info.candidates : j \in Nat
  <2>1. info \in TouchInfo /\ info.id = old.id
    BY WithoutProperties
  <2>2. DOMAIN info.candidates = 1..(Len(old.candidates) - 1)
    BY WithoutProperties
  <2> QED
    BY <2>1, <2>2
<1>1. /\ \A j \in DOMAIN info.candidates : \E m \in DOMAIN old.candidates :
            m # k /\ info.candidates[j] = old.candidates[m]
      /\ \A m \in DOMAIN old.candidates : m # k =>
            \E j \in DOMAIN info.candidates : info.candidates[j] = old.candidates[m]
      /\ \A i, j \in DOMAIN info.candidates : i < j =>
            \E m, n \in DOMAIN old.candidates :
               /\ m # k /\ n # k /\ m < n
               /\ info.candidates[i] = old.candidates[m]
               /\ info.candidates[j] = old.candidates[n]
  BY WithoutKeeps
<1> HIDE DEF info
<1>2. \A m \in DOMAIN old.candidates : m \in Nat
  BY QueueOf
<1>3. ASSUME NEW i \in DOMAIN info.candidates, NEW j \in DOMAIN info.candidates, i < j,
             info.candidates[i].item # NoItem
      PROVE  info.candidates[j].item # info.candidates[i].item
  <2>1. PICK m \in DOMAIN old.candidates : \E n \in DOMAIN old.candidates :
               /\ m # k /\ n # k /\ m < n
               /\ info.candidates[i] = old.candidates[m]
               /\ info.candidates[j] = old.candidates[n]
    BY <1>1, <1>3
  <2>2. PICK n \in DOMAIN old.candidates :
               /\ m # k /\ n # k /\ m < n
               /\ info.candidates[i] = old.candidates[m]
               /\ info.candidates[j] = old.candidates[n]
    BY <2>1
  <2>3. m # n
    BY <1>2, <2>2
  <2> QED
    BY <1>3, <2>2, <2>3
<1>4. ASSUME NEW j \in DOMAIN info.candidates, info.candidates[j].item # NoItem
      PROVE  /\ \A i \in DOMAIN info.candidates :
                   info.candidates[i].item = info.candidates[j].item => i = j
             /\ v[info.candidates[j].item][info.id] \in {info.candidates[j].state, "Lost"}
  <2>1. \A i \in DOMAIN info.candidates :
            info.candidates[i].item = info.candidates[j].item => i = j
    <3>1. ASSUME NEW i \in DOMAIN info.candidates,
                 info.candidates[i].item = info.candidates[j].item, i # j
          PROVE  FALSE
      <4>1. i < j \/ j < i
        BY <1>0, <3>1
      <4> QED
        BY <1>3, <1>4, <3>1, <4>1
    <3> QED
      BY <3>1
  <2>2. PICK m \in DOMAIN old.candidates : m # k /\ info.candidates[j] = old.candidates[m]
    BY <1>1
  <2>3. v[info.candidates[j].item][info.id] \in {info.candidates[j].state, "Lost"}
    BY <1>0, <1>4, <2>2
  <2> QED
    BY <2>1, <2>3
<1>5. ASSUME NEW i \in Items, v[i][info.id] \in CandidateStates
      PROVE  \E j \in DOMAIN info.candidates : CandidateAt(info, j, i)
  <2>1. PICK m \in DOMAIN old.candidates : m # k /\ CandidateAt(old, m, i)
    BY <1>0, <1>5
  <2>2. PICK j \in DOMAIN info.candidates : info.candidates[j] = old.candidates[m]
    BY <1>1, <2>1
  <2> QED
    BY <2>1, <2>2 DEF CandidateAt
<1>6. \A i \in Items : v[i][info.id] # "Owner"
  BY <1>0
<1> QED
  BY <1>4, <1>5, <1>6 DEF Queued, info

\* What a candidate that leaves changes for nobody else.
LEMMA LivingWithout ==
    ASSUME NEW old \in TouchInfo, NEW k \in DOMAIN old.candidates, Living(old)
    PROVE  Living(Without(old, k))
BY WithoutKeeps DEF Living

LEMMA AsAskedWithout ==
    ASSUME NEW old \in TouchInfo, NEW k \in DOMAIN old.candidates, NEW v,
           \A m \in DOMAIN old.candidates : m # k =>
               v[old.candidates[m].item][old.id] = old.candidates[m].state
    PROVE  AsAsked(v, Without(old, k))
<1>1. Without(old, k).id = old.id
  BY WithoutProperties
<1> QED
  BY <1>1, WithoutKeeps DEF AsAsked

LEMMA InOrderWithout ==
    ASSUME NEW old \in TouchInfo, NEW k \in DOMAIN old.candidates, NEW a, InOrder(a, old)
    PROVE  InOrder(a, Without(old, k))
<1> DEFINE info == Without(old, k)
<1>1. /\ \A j \in DOMAIN info.candidates : \E m \in DOMAIN old.candidates :
            m # k /\ info.candidates[j] = old.candidates[m]
      /\ \A i, j \in DOMAIN info.candidates : i < j =>
            \E m, n \in DOMAIN old.candidates :
               /\ m # k /\ n # k /\ m < n
               /\ info.candidates[i] = old.candidates[m]
               /\ info.candidates[j] = old.candidates[n]
  BY WithoutKeeps
<1> HIDE DEF info
<1>2. ASSUME NEW j \in DOMAIN info.candidates, info.candidates[j].item # NoItem
      PROVE  \E m \in DOMAIN a : a[m] = info.candidates[j].item
  BY <1>1, <1>2 DEF InOrder
<1>3. ASSUME NEW i \in DOMAIN info.candidates, NEW j \in DOMAIN info.candidates, i < j,
             info.candidates[i].item # NoItem, info.candidates[j].item # NoItem,
             NEW m \in DOMAIN a, NEW n \in DOMAIN a,
             a[m] = info.candidates[i].item, a[n] = info.candidates[j].item
      PROVE  m < n
  BY <1>1, <1>3 DEF InOrder
<1> QED
  BY <1>2, <1>3 DEF InOrder, info

\* Item i enters the queue of a touch that nobody has decided about.
LEMMA QueuedWith ==
    ASSUME NEW old \in TouchInfo, old.id \in TouchIds, ~IsOwned(old),
           NEW i \in Items, NEW st \in {"Undecided", "InterimOwner"},
           NEW u, Agree(u, old), u[i][old.id] = "None",
           NEW v, v[i][old.id] = st, \A j \in Items : j # i => v[j][old.id] = u[j][old.id]
    PROVE  /\ Queued(v, With(old, i, st))
           /\ AsAsked(u, old) /\ (\A k \in DOMAIN old.candidates : old.candidates[k].item \in Items)
                 => AsAsked(v, With(old, i, st))
           /\ i \in alive /\ Living(old) => Living(With(old, i, st))
<1> DEFINE info == With(old, i, st)
           n == Len(old.candidates)
<1>0. st \in CandidateStates /\ st # "None"
  BY DEF CandidateStates
<1>1. n \in Nat /\ DOMAIN old.candidates = 1..n
  BY QueueOf
<1>2. /\ info \in TouchInfo /\ info.id = old.id
      /\ DOMAIN info.candidates = 1..(n + 1)
      /\ \A j \in 1..n : info.candidates[j] = old.candidates[j]
      /\ info.candidates[n + 1].item = i /\ info.candidates[n + 1].state = st
      /\ info.candidates[n + 1].inactivityTimer = (st = "Undecided")
  BY <1>0, <1>1, WithProperties
<1> HIDE DEF info, n
<1>3. \A j \in DOMAIN info.candidates : j \in 1..n \/ j = n + 1
  BY <1>1, <1>2
<1>4. \A j \in 1..n : old.candidates[j].item # i
  <2>1. ASSUME NEW j \in 1..n, old.candidates[j].item = i PROVE FALSE
    <3>1. u[i][old.id] \in {old.candidates[j].state, "Lost"}
      BY <1>1, <2>1, NoItemAssumption DEF Agree
    <3>2. old.candidates[j].state # "None"
      BY <1>1, QueueOf DEF CandidateStates
    <3> QED
      BY <3>1, <3>2
  <2> QED
    BY <2>1
<1>5. \A j \in 1..n : old.candidates[j].item # NoItem =>
        /\ old.candidates[j].item \in Items
        /\ v[old.candidates[j].item][old.id] = u[old.candidates[j].item][old.id]
  BY <1>1, <1>4, QueueOf
<1>6. ASSUME NEW k \in DOMAIN info.candidates, info.candidates[k].item # NoItem
      PROVE  /\ \A j \in DOMAIN info.candidates :
                   info.candidates[j].item = info.candidates[k].item => j = k
             /\ v[info.candidates[k].item][info.id] \in {info.candidates[k].state, "Lost"}
  <2>1. CASE k \in 1..n
    <3>1. /\ \A j \in 1..n : old.candidates[j].item = old.candidates[k].item => j = k
          /\ u[old.candidates[k].item][old.id] \in {old.candidates[k].state, "Lost"}
      BY <1>1, <1>2, <1>6, <2>1 DEF Agree
    <3>2. \A j \in DOMAIN info.candidates :
                   info.candidates[j].item = info.candidates[k].item => j = k
      BY <1>2, <1>3, <1>4, <2>1, <3>1
    <3> QED
      BY <1>2, <1>5, <1>6, <2>1, <3>1, <3>2
  <2>2. CASE k = n + 1
    <3>1. \A j \in DOMAIN info.candidates :
                   info.candidates[j].item = info.candidates[k].item => j = k
      BY <1>2, <1>3, <1>4, <2>2
    <3> QED
      BY <1>2, <2>2, <3>1
  <2> QED
    BY <1>3, <2>1, <2>2
<1>7. ASSUME NEW j \in Items, v[j][info.id] \in CandidateStates
      PROVE  \E k \in DOMAIN info.candidates : CandidateAt(info, k, j)
  <2>1. CASE j = i
    <3>1. n + 1 \in DOMAIN info.candidates
      BY <1>1, <1>2
    <3> QED
      BY <1>2, <2>1, <3>1 DEF CandidateAt
  <2>2. CASE j # i
    <3>1. PICK k \in DOMAIN old.candidates : CandidateAt(old, k, j)
      BY <1>2, <1>7, <2>2 DEF Agree
    <3>2. k \in DOMAIN info.candidates /\ info.candidates[k] = old.candidates[k]
      BY <1>1, <1>2
    <3> QED
      BY <3>1, <3>2 DEF CandidateAt
  <2> QED
    BY <2>1, <2>2
<1>8. ASSUME NEW j \in Items PROVE v[j][info.id] # "Owner"
  <2>1. j # i => u[j][old.id] # "Owner"
    BY DEF Agree
  <2> QED
    BY <1>2, <2>1
<1>9. Queued(v, info)
  BY <1>6, <1>7, <1>8 DEF Queued
<1>10. ASSUME AsAsked(u, old), \A k \in DOMAIN old.candidates : old.candidates[k].item \in Items
       PROVE  AsAsked(v, info)
  BY <1>1, <1>2, <1>3, <1>5, <1>10, NoItemAssumption DEF AsAsked
<1>11. ASSUME i \in alive, Living(old)
       PROVE  Living(info)
  BY <1>1, <1>2, <1>3, <1>11 DEF Living
<1> QED
  BY <1>9, <1>10, <1>11 DEF info

LEMMA InOrderWith ==
    ASSUME NEW old \in TouchInfo, NEW i \in Items, NEW st \in CandidateStates,
           NEW a \in Seq(Items), InOrder(a, old), \A m \in DOMAIN a : a[m] # i
    PROVE  InOrder(Append(a, i), With(old, i, st))
<1> DEFINE info == With(old, i, st)
           n == Len(old.candidates)
           b == Append(a, i)
<1>1. n \in Nat /\ DOMAIN old.candidates = 1..n
  BY QueueOf
<1>2. /\ DOMAIN info.candidates = 1..(n + 1)
      /\ \A j \in 1..n : info.candidates[j] = old.candidates[j]
      /\ info.candidates[n + 1].item = i
  BY <1>1, WithProperties
<1>3. /\ Len(a) \in Nat /\ DOMAIN a = 1..Len(a) /\ DOMAIN b = 1..(Len(a) + 1)
      /\ \A m \in 1..Len(a) : b[m] = a[m]
      /\ b[Len(a) + 1] = i
  BY AppendProperties, LenProperties
<1> HIDE DEF info, n, b
<1>4. \A j \in DOMAIN info.candidates : j \in 1..n \/ j = n + 1
  BY <1>1, <1>2
<1>5. \A m \in DOMAIN b : m \in DOMAIN a \/ m = Len(a) + 1
  BY <1>3
<1>6. \A j \in 1..n : old.candidates[j].item # NoItem => old.candidates[j].item # i
  BY <1>1 DEF InOrder
<1>7. ASSUME NEW k \in DOMAIN info.candidates, info.candidates[k].item # NoItem
      PROVE  \E m \in DOMAIN b : b[m] = info.candidates[k].item
  <2>1. CASE k \in 1..n
    <3>1. PICK m \in DOMAIN a : a[m] = old.candidates[k].item
      BY <1>1, <1>2, <1>7, <2>1 DEF InOrder
    <3>2. m \in DOMAIN b /\ b[m] = a[m]
      BY <1>3
    <3> QED
      BY <1>2, <2>1, <3>1, <3>2
  <2>2. CASE k = n + 1
    <3>1. Len(a) + 1 \in DOMAIN b
      BY <1>3
    <3> QED
      BY <1>2, <1>3, <2>2, <3>1
  <2> QED
    BY <1>4, <2>1, <2>2
<1>8. ASSUME NEW j \in DOMAIN info.candidates, NEW k \in DOMAIN info.candidates, j < k,
             info.candidates[j].item # NoItem, info.candidates[k].item # NoItem,
             NEW l \in DOMAIN b, NEW m \in DOMAIN b,
             b[l] = info.candidates[j].item, b[m] = info.candidates[k].item
      PROVE  l < m
  <2>1. j \in 1..n
    BY <1>1, <1>2, <1>8
  <2>2. l \in DOMAIN a /\ b[l] = a[l] /\ a[l] = old.candidates[j].item
    BY <1>2, <1>3, <1>5, <1>6, <1>8, <2>1
  <2>3. CASE k \in 1..n
    <3>1. m \in DOMAIN a /\ b[m] = a[m] /\ a[m] = old.candidates[k].item
      BY <1>2, <1>3, <1>5, <1>6, <1>8, <2>3
    <3> QED
      BY <1>1, <1>2, <1>8, <2>1, <2>2, <2>3, <3>1 DEF InOrder
  <2>4. CASE k = n + 1
    <3>1. m = Len(a) + 1
      BY <1>2, <1>3, <1>5, <1>8, <2>4
    <3> QED
      BY <1>3, <2>2, <3>1
  <2> QED
    BY <1>4, <2>3, <2>4
<1> QED
  BY <1>7, <1>8 DEF InOrder, info, b

\* Item i, candidate k, asks for the touch.
LEMMA QueuedDeciding ==
    ASSUME NEW old \in TouchInfo, old.id \in TouchIds, NEW k \in DOMAIN old.candidates,
           NEW i \in Items, CandidateAt(old, k, i), ~IsOwned(old),
           NEW u, Agree(u, old),
           NEW v, v[i][old.id] = "Requested",
           \A j \in Items : j # i => v[j][old.id] = u[j][old.id]
    PROVE  /\ Queued(v, Deciding(old, k))
           /\ AsAsked(u, old) /\ (\A m \in DOMAIN old.candidates : old.candidates[m].item \in Items)
                 => AsAsked(v, Deciding(old, k))
           /\ Living(old) => Living(Deciding(old, k))
<1> DEFINE info == Deciding(old, k)
<1>1. /\ info \in TouchInfo /\ info.id = old.id
      /\ DOMAIN info.candidates = DOMAIN old.candidates
      /\ \A j \in DOMAIN old.candidates :
            /\ info.candidates[j].item = old.candidates[j].item
            /\ info.candidates[j].state =
                  IF j = k THEN "Requested" ELSE old.candidates[j].state
            /\ info.candidates[j].inactivityTimer =
                  IF j = k THEN FALSE ELSE old.candidates[j].inactivityTimer
  BY DecidingProperties
<1> HIDE DEF info
<1>2. old.candidates[k].item = i
      /\ \A j \in DOMAIN old.candidates : old.candidates[j].item = i => j = k
  BY NoItemAssumption DEF Agree, CandidateAt
<1>3. \A j \in DOMAIN old.candidates : j # k /\ old.candidates[j].item # NoItem =>
        v[old.candidates[j].item][old.id] = u[old.candidates[j].item][old.id]
  BY <1>2, QueueOf
<1>4. ASSUME NEW m \in DOMAIN info.candidates, info.candidates[m].item # NoItem
      PROVE  /\ \A j \in DOMAIN info.candidates :
                   info.candidates[j].item = info.candidates[m].item => j = m
             /\ v[info.candidates[m].item][info.id] \in {info.candidates[m].state, "Lost"}
  <2>1. /\ \A j \in DOMAIN old.candidates :
              old.candidates[j].item = old.candidates[m].item => j = m
        /\ u[old.candidates[m].item][old.id] \in {old.candidates[m].state, "Lost"}
    BY <1>1, <1>4 DEF Agree
  <2> QED
    BY <1>1, <1>2, <1>3, <1>4, <2>1
<1>5. ASSUME NEW j \in Items, v[j][info.id] \in CandidateStates
      PROVE  \E m \in DOMAIN info.candidates : CandidateAt(info, m, j)
  <2>1. CASE j = i
    BY <1>1, <1>2, <2>1 DEF CandidateAt
  <2>2. CASE j # i
    <3>1. PICK m \in DOMAIN old.candidates : CandidateAt(old, m, j)
      BY <1>1, <1>5, <2>2 DEF Agree
    <3> QED
      BY <1>1, <3>1 DEF CandidateAt
  <2> QED
    BY <2>1, <2>2
<1>6. ASSUME NEW j \in Items PROVE v[j][info.id] # "Owner"
  <2>1. j # i => u[j][old.id] # "Owner"
    BY DEF Agree
  <2> QED
    BY <1>1, <2>1
<1>7. Queued(v, info)
  BY <1>4, <1>5, <1>6 DEF Queued
<1>8. ASSUME AsAsked(u, old), \A m \in DOMAIN old.candidates : old.candidates[m].item \in Items
      PROVE  AsAsked(v, info)
  <2>1. ASSUME NEW m \in DOMAIN info.candidates
        PROVE  v[info.candidates[m].item][info.id] = info.candidates[m].state
    <3>1. /\ old.candidates[m].item # NoItem
          /\ u[old.candidates[m].item][old.id] = old.candidates[m].state
      BY <1>1, <1>8, NoItemAssumption DEF AsAsked
    <3>2. CASE m = k
      BY <1>1, <1>2, <3>2
    <3>3. CASE m # k
      BY <1>1, <1>3, <3>1, <3>3
    <3> QED
      BY <3>2, <3>3
  <2> QED
    BY <2>1 DEF AsAsked
<1>9. ASSUME Living(old)
      PROVE  Living(info)
  BY <1>1, <1>9 DEF Living
<1> QED
  BY <1>7, <1>8, <1>9 DEF info

\* The order of a queue is about its items only.
LEMMA InOrderSameItems ==
    ASSUME NEW a, NEW old, NEW info, InOrder(a, old),
           DOMAIN info.candidates = DOMAIN old.candidates,
           \A j \in DOMAIN old.candidates :
               info.candidates[j].item \in {old.candidates[j].item, NoItem}
    PROVE  InOrder(a, info)
<1>1. \A k \in DOMAIN info.candidates : info.candidates[k].item # NoItem =>
        info.candidates[k].item = old.candidates[k].item
  OBVIOUS
<1> QED
  BY <1>1 DEF InOrder

-----------------------------------------------------------------------------
(* What TouchOwnership lets the items believe after a step.                *)

\* What the items believe of one touch, in the words of TouchOwnership.
Column(v, id) == [i \in Items |-> BeliefOf(v[i][id])]

LEMMA Beliefs ==
    /\ \A w : w = "None" => BeliefOf(w) = "none"
    /\ \A w : w = "Undecided" => BeliefOf(w) = "waiting"
    /\ \A w : w = "Requested" => BeliefOf(w) = "asked"
    /\ \A w : w = "InterimOwner" => BeliefOf(w) = "asked"
    /\ \A w : w = "Owner" => BeliefOf(w) = "owner"
    /\ \A w : w = "Lost" => BeliefOf(w) = "lost"
<1>1. ASSUME NEW w, w = "None" PROVE BeliefOf(w) = "none"
  BY <1>1 DEF BeliefOf
<1>2. ASSUME NEW w, w = "Undecided" PROVE BeliefOf(w) = "waiting"
  BY <1>2 DEF BeliefOf
<1>3. ASSUME NEW w, w = "Requested" PROVE BeliefOf(w) = "asked"
  BY <1>3 DEF BeliefOf
<1>4. ASSUME NEW w, w = "InterimOwner" PROVE BeliefOf(w) = "asked"
  BY <1>4 DEF BeliefOf
<1>5. ASSUME NEW w, w = "Owner" PROVE BeliefOf(w) = "owner"
  BY <1>5 DEF BeliefOf
<1>6. ASSUME NEW w, w = "Lost" PROVE BeliefOf(w) = "lost"
  BY <1>6 DEF BeliefOf
<1> QED
  BY <1>1, <1>2, <1>3, <1>4, <1>5, <1>6

\* The resolution of a touch settles it: for its head, or for nobody when that one has
\* been destroyed.
LEMMA Answered ==
    ASSUME NEW info \in TouchInfo, info.id \in TouchIds, IsOwned(info),
           NEW v \in [Items -> [TouchIds -> Views]], Queued(v, info), NEW E,
           \A e : e.touch = info.id => (e \in E <=> e \in Resolution(info)),
           alive' \subseteq Items,
           \/ info.candidates[1].item \in alive'
           \/ info.candidates[1].item = NoItem /\ alive' # Items,
           alive' = Items =>
               v[info.candidates[1].item][info.id] = info.candidates[1].state
    PROVE  Column(Told(v, E), info.id) \in Ownership!Outcomes(Column(v, info.id))
<1> DEFINE id == info.id
           w == Told(v, E)
           b == Column(v, id)
           head == info.candidates[1].item
<1>1. \A j, k \in DOMAIN info.candidates :
        info.candidates[k].item # NoItem /\ info.candidates[j].item = info.candidates[k].item
          => j = k
  BY DEF Queued
<1>2. 1 \in DOMAIN info.candidates /\ info.candidates[1].state \in CandidateStates
  BY <1>1, ResolutionTold, QueueOf
<1>3. ASSUME NEW i \in Items, NEW k \in DOMAIN info.candidates, CandidateAt(info, k, i)
      PROVE  w[i][id] = IF k = 1 THEN "Owner" ELSE "Lost"
  BY <1>1, <1>3, ResolutionTold
<1>4. ASSUME NEW i \in Items, \A k \in DOMAIN info.candidates : ~CandidateAt(info, k, i)
      PROVE  w[i][id] = v[i][id] /\ v[i][id] \in {"None", "Lost"}
  <2>1. w[i][id] = v[i][id]
    BY <1>1, <1>4, ResolutionTold
  <2>2. v[i][id] \in Views /\ v[i][id] \notin CandidateStates /\ v[i][id] # "Owner"
    BY <1>4 DEF Queued
  <2> QED
    BY <2>1, <2>2 DEF Views
<1>5. ASSUME NEW i \in Items, NEW k \in DOMAIN info.candidates, CandidateAt(info, k, i)
      PROVE  v[i][id] \in {info.candidates[k].state, "Lost"}
  BY <1>5, NoItemAssumption DEF Queued, CandidateAt
<1> HIDE DEF w, id
<1>6. ~Ownership!Held(b)
  <2>1. ASSUME NEW i \in Items PROVE b[i] # "owner"
    <3>1. v[i][id] \in Views \ {"Owner"}
      BY DEF Queued, id
    <3> QED
      BY <3>1, Beliefs DEF Views, CandidateStates, Column
  <2> QED
    BY <2>1 DEF Ownership!Held
<1>7. ASSUME NEW i \in Items, i # head
      PROVE  Column(w, id)[i] = IF b[i] \in {"waiting", "asked"} THEN "lost" ELSE b[i]
  <2>1. CASE \E k \in DOMAIN info.candidates : CandidateAt(info, k, i)
    <3>1. PICK k \in DOMAIN info.candidates : CandidateAt(info, k, i)
      BY <2>1
    <3>2. k # 1
      BY <1>7, <3>1 DEF CandidateAt
    <3>3. w[i][id] = "Lost" /\ v[i][id] \in CandidateStates \cup {"Lost"}
      BY <1>3, <1>5, <3>1, <3>2, QueueOf
    <3>4. BeliefOf(w[i][id]) = "lost" /\ BeliefOf(v[i][id]) \in {"waiting", "asked", "lost"}
      BY <3>3, Beliefs DEF CandidateStates
    <3> QED
      BY <3>4 DEF Column
  <2>2. CASE \A k \in DOMAIN info.candidates : ~CandidateAt(info, k, i)
    <3>1. w[i][id] = v[i][id] /\ v[i][id] \in {"None", "Lost"}
      BY <1>4, <2>2
    <3>2. BeliefOf(w[i][id]) = BeliefOf(v[i][id]) /\ BeliefOf(v[i][id]) \in {"none", "lost"}
      BY <3>1, Beliefs
    <3> QED
      BY <3>2 DEF Column
  <2> QED
    BY <2>1, <2>2
<1>8. CASE head \in alive'
  <2>1. head \in Items /\ CandidateAt(info, 1, head)
    BY <1>2, <1>8 DEF CandidateAt
  <2>2. w[head][id] = "Owner" /\ v[head][id] \in {info.candidates[1].state, "Lost"}
    BY <1>2, <1>3, <1>5, <2>1
  <2>3. info.candidates[1].state \in {"Requested", "InterimOwner"}
    BY <1>2 DEF IsOwned, CandidateStates
  <2>4. head \in Ownership!Winners(b)
    <3>1. b[head] = BeliefOf(v[head][id])
      BY <2>1 DEF Column
    <3>2. CASE v[head][id] = info.candidates[1].state
      <4>1. b[head] = "asked"
        BY <2>3, <3>1, <3>2, Beliefs
      <4> QED
        BY <2>1, <4>1 DEF Ownership!Winners
    <3>3. CASE v[head][id] # info.candidates[1].state
      <4>1. b[head] = "lost" /\ alive' # Items
        BY <2>2, <3>1, <3>3, Beliefs DEF id
      <4> QED
        BY <2>1, <4>1 DEF Ownership!Winners
    <3> QED
      BY <3>2, <3>3
  <2>5. Column(w, id)[head] = "owner"
    BY <2>1, <2>2, Beliefs DEF Column
  <2>6. Column(w, id) = Ownership!Settled(b, head)
    <3>1. \A i \in Items : Column(w, id)[i] = IF i = head /\ head \in alive' THEN "owner"
                             ELSE IF b[i] \in {"waiting", "asked"} THEN "lost" ELSE b[i]
      BY <1>7, <1>8, <2>5
    <3>2. Column(w, id) = [i \in Items |-> Column(w, id)[i]]
      BY DEF Column
    <3> HIDE DEF b, head
    <3> QED
      BY <3>1, <3>2 DEF Ownership!Settled
  <2> QED
    BY <1>6, <2>4, <2>6 DEF Ownership!Outcomes, id, w
<1>9. CASE head \notin alive'
  <2>1. head = NoItem /\ alive' # Items
    BY <1>9
  <2>2. PICK gone \in Items : gone \notin alive'
    BY <2>1
  <2>3. gone \in Ownership!Winners(b)
    BY <2>2 DEF Ownership!Winners
  <2>4. Column(w, id) = Ownership!Settled(b, gone)
    <3>1. \A i \in Items : Column(w, id)[i] = IF i = gone /\ gone \in alive' THEN "owner"
                             ELSE IF b[i] \in {"waiting", "asked"} THEN "lost" ELSE b[i]
      BY <1>7, <2>1, <2>2, NoItemAssumption
    <3>2. Column(w, id) = [i \in Items |-> Column(w, id)[i]]
      BY DEF Column
    <3> HIDE DEF b, head
    <3> QED
      BY <3>1, <3>2 DEF Ownership!Settled
  <2> QED
    BY <1>6, <2>3, <2>4 DEF Ownership!Outcomes, id, w
<1> QED
  BY <1>8, <1>9

\* No reachable state leaves a touch to be settled: whoever asked for one that nobody
\* owns is behind somebody undecided, who waits as long as no item has been destroyed.
LEMMA NothingToSettle ==
    ASSUME TypeOK', OwnershipInv', LivingInv', NEW id \in TouchIds
    PROVE  Column(view', id) \in Ownership!Outcomes(Column(view', id))
<1> DEFINE b == Column(view', id)
<1>1. SUFFICES ASSUME alive' = Items, NEW i \in Items, b[i] = "asked"
               PROVE  \E j \in Items : b[j] = "waiting"
  BY DEF Ownership!Outcomes, Ownership!MustSettle
<1>2. view'[i][id] \in CandidateStates
  <2>1. view'[i][id] \in Views
    BY DEF TypeOK
  <2> QED
    BY <1>1, <2>1, Beliefs DEF Column, Views
<1>3. PICK s \in Slots : Current(s)' /\ slots'[s].id = id
  BY <1>2 DEF OwnershipInv, Waiting
<1>4. Agree(view', slots'[s]) /\ slots'[s] \in TouchInfo
  BY <1>3 DEF OwnershipInv, TypeOK
<1>5. ~IsOwned(slots'[s]) /\ slots'[s].candidates # <<>>
  BY <1>2, <1>3, <1>4, QueueOf DEF Agree
<1>6. 1 \in DOMAIN slots'[s].candidates /\ slots'[s].candidates[1].state = "Undecided"
  BY <1>4, <1>5, QueueOf DEF IsOwned
<1>7. slots'[s].candidates[1].item \in Items
  BY <1>1, <1>3, <1>6 DEF LivingInv, Living
<1>8. view'[slots'[s].candidates[1].item][id] = "Undecided"
  BY <1>1, <1>3, <1>5, <1>6 DEF LivingInv, AsAsked
<1>9. b[slots'[s].candidates[1].item] = "waiting"
  BY <1>7, <1>8, Beliefs DEF Column
<1> QED
  BY <1>7, <1>9

-----------------------------------------------------------------------------
(* A call about one touch: what it changes, whatever the call.             *)

\* Touch id has its queue changed to info, after which candidate k is announced, where
\* the items believed v once the caller had spoken.
Call(id, s, k, info, v) ==
    /\ Current(s) /\ slots[s].id = id
    /\ info \in TouchInfo /\ info.id = id
    /\ \A t \in Slots : t # s => slots'[t] = slots[t]
    /\ slots'[s] \in {info, EmptyInfo}
    /\ \A t \in Slots : Current(t)' => Current(t)
    /\ alive' = alive
    /\ v \in [Items -> [TouchIds -> Views]]
    /\ \A j \in Items : view'[j][id] = Told(v, Announcement(info, k))[j][id]
    /\ \A j \in Items, other \in TouchIds : other # id => view'[j][other] = view[j][other]
    /\ Living(info)
    /\ \/ /\ ~IsOwned(slots[s]) /\ Queued(v, info)
          /\ alive = Items => AsAsked(v, info)
       \/ IsOwned(slots[s]) /\ IsOwned(info) /\ k # 1

LEMMA LivingCall ==
    ASSUME TypeOK, PoolInv, LivingInv, NEW id \in TouchIds, NEW s \in Slots, NEW k,
           NEW info, NEW v, Call(id, s, k, info, v)
    PROVE  LivingInv'
<1>1. /\ Current(s) /\ slots[s].id = id
      /\ info \in TouchInfo /\ info.id = id
      /\ \A t \in Slots : t # s => slots'[t] = slots[t]
      /\ slots'[s] = info \/ slots'[s] = EmptyInfo
      /\ \A t \in Slots : Current(t)' => Current(t)
      /\ alive' = alive
      /\ v \in [Items -> [TouchIds -> Views]]
      /\ \A j \in Items : view'[j][id] = Told(v, Announcement(info, k))[j][id]
      /\ \A j \in Items, other \in TouchIds : other # id => view'[j][other] = view[j][other]
      /\ Living(info)
      /\ ~IsOwned(info) => (alive = Items => AsAsked(v, info))
  BY DEF Call
<1>2. ASSUME NEW t \in Slots
      PROVE  Living(slots[t])'
  <2>1. CASE slots'[t] = info
    BY <1>1, <2>1 DEF Living
  <2>2. CASE slots'[t] = slots[t]
    BY <1>1, <2>2 DEF LivingInv, Living
  <2>3. CASE slots'[t] = EmptyInfo
    BY <2>3 DEF Living, EmptyInfo
  <2> QED
    BY <1>1, <2>1, <2>2, <2>3
<1>3. ASSUME NEW t \in Slots, Current(t)', ~IsOwned(slots'[t]), alive' = Items,
             NEW m \in DOMAIN slots'[t].candidates
      PROVE  view'[slots'[t].candidates[m].item][slots'[t].id]
                 = slots'[t].candidates[m].state
  <2>1. slots'[t].candidates[m].item \in Items
    BY <1>2, <1>3 DEF Living
  <2>2. CASE t = s
    <3>1. slots'[t] = info
      BY <1>1, <1>3, <2>2 DEF Current, InUse, EmptyInfo
    <3>2. Announcement(info, k) = {}
      BY <1>3, <3>1 DEF Announcement
    <3>3. view'[slots'[t].candidates[m].item][id] = v[slots'[t].candidates[m].item][id]
      BY <1>1, <2>1, <3>2, ToldOthers
    <3> QED
      BY <1>1, <1>3, <3>1, <3>3 DEF AsAsked
  <2>3. CASE t # s
    <3>1. Current(t) /\ slots'[t] = slots[t] /\ slots[t].id # id
      BY <1>1, <1>3, <2>3 DEF PoolInv
    <3>2. slots[t].id \in TouchIds
      BY <3>1 DEF TypeOK, TouchInfo, Current, InUse
    <3> QED
      BY <1>1, <1>3, <2>1, <3>1, <3>2 DEF LivingInv, AsAsked
  <2> QED
    BY <2>2, <2>3
<1> QED
  BY <1>2, <1>3 DEF LivingInv, AsAsked

\* The gain that is announced is that of the head, before everybody who came later.
LEMMA HeadCameFirst ==
    ASSUME NEW info \in TouchInfo, NEW a, InOrder(a, info),
           DOMAIN a \subseteq Nat, \A m, n \in DOMAIN a : a[m] = a[n] => m = n,
           NEW k, NEW e \in Announcement(info, k), e.kind = "gained",
           NEW m \in DOMAIN a, NEW n \in DOMAIN a, m < n, a[n] = e.item, a[m] # NoItem,
           NEW j \in DOMAIN info.candidates
    PROVE  ~CandidateAt(info, j, a[m])
<1>1. IsOwned(info) /\ info.candidates[1].item = a[n] /\ a[n] # NoItem
  BY DEF Announcement, Resolution, EventTo
<1>2. /\ Len(info.candidates) \in Nat /\ DOMAIN info.candidates = 1..Len(info.candidates)
      /\ 1 \in DOMAIN info.candidates
  BY <1>1, QueueOf DEF IsOwned
<1>3. SUFFICES ASSUME info.candidates[j].item = a[m] PROVE FALSE
  BY DEF CandidateAt
<1>4. CASE j = 1
  BY <1>1, <1>3, <1>4
<1>5. CASE j # 1
  <2>1. 1 < j
    BY <1>2, <1>5
  <2>2. n < m
    BY <1>1, <1>2, <1>3, <2>1 DEF InOrder
  <2>3. m \in Nat /\ n \in Nat
    OBVIOUS
  <2> QED
    BY <2>2, <2>3
<1> QED
  BY <1>4, <1>5

\* What ArrivalOrder says of one step.
GainsInOrder ==
    \A e \in events' : e.kind = "gained" =>
        \A m, n \in DOMAIN arrivals[e.touch] :
            m < n /\ arrivals[e.touch][n] = e.item =>
                ~\E s \in Slots : \E k \in DOMAIN slots'[s].candidates :
                    /\ slots'[s].id = e.touch
                    /\ CandidateAt(slots'[s], k, arrivals[e.touch][m])

LEMMA ArrivalCall ==
    ASSUME TypeOK, TypeOK', PoolInv, ArrivalInv, NEW id \in TouchIds, NEW s \in Slots,
           NEW k, NEW info, NEW v, Call(id, s, k, info, v),
           inDispatchLoop => id \notin offered,
           \A e \in events' : e.kind = "gained" => e \in Announcement(info, k),
           \A other \in TouchIds : other # id => arrivals'[other] = arrivals[other],
           DOMAIN arrivals[id] \subseteq DOMAIN arrivals'[id],
           \A m \in DOMAIN arrivals[id] : arrivals'[id][m] = arrivals[id][m],
           \A m, n \in DOMAIN arrivals'[id] : arrivals'[id][m] = arrivals'[id][n] => m = n,
           InOrder(arrivals'[id], info)
    PROVE  ArrivalInv' /\ GainsInOrder
<1>1. /\ Current(s) /\ slots[s].id = id
      /\ info \in TouchInfo /\ info.id = id
      /\ \A t \in Slots : t # s => slots'[t] = slots[t]
      /\ slots'[s] = info \/ slots'[s] = EmptyInfo
      /\ \A t \in Slots : Current(t)' => Current(t)
  BY DEF Call
<1>2. ASSUME NEW t \in Slots, Current(t)'
      PROVE  InOrder(arrivals'[slots'[t].id], slots'[t])
  <2>1. CASE t = s
    BY <1>1, <1>2, <2>1 DEF Current, InUse, EmptyInfo
  <2>2. CASE t # s
    <3>1. Current(t) /\ slots'[t] = slots[t] /\ slots[t].id # id
      BY <1>1, <1>2, <2>2 DEF PoolInv
    <3>2. slots[t].id \in TouchIds
      BY <3>1 DEF TypeOK, TouchInfo, Current, InUse
    <3> QED
      BY <3>1, <3>2 DEF ArrivalInv
  <2> QED
    BY <2>1, <2>2
<1>3. ASSUME NEW other \in TouchIds, NEW m \in DOMAIN arrivals'[other],
             NEW n \in DOMAIN arrivals'[other], arrivals'[other][m] = arrivals'[other][n]
      PROVE  m = n
  BY <1>3 DEF ArrivalInv
<1>4. ASSUME NEW e \in events', e.kind = "gained",
             NEW m \in DOMAIN arrivals[e.touch], NEW n \in DOMAIN arrivals[e.touch],
             m < n, arrivals[e.touch][n] = e.item,
             NEW t \in Slots, NEW j \in DOMAIN slots'[t].candidates,
             slots'[t].id = e.touch, CandidateAt(slots'[t], j, arrivals[e.touch][m])
      PROVE  FALSE
  <2>1. e \in Announcement(info, k) /\ e.touch = id
    BY <1>1, <1>4, AnnouncementTouch
  <2>2. t = s
    <3>1. SUFFICES ASSUME t # s PROVE FALSE
      OBVIOUS
    <3>2. slots[t].id = id /\ ~Current(t)
      BY <1>1, <1>4, <2>1, <3>1 DEF PoolInv
    <3>3. Stale(t)
      BY <3>2, NoTouchAssumption DEF Current, InUse
    <3> QED
      BY <3>2, <3>3 DEF Stale, PoolInv
  <2>3. slots'[t] = info
    BY <1>1, <1>4, <2>1, <2>2, NoTouchAssumption DEF EmptyInfo
  <2> DEFINE a == arrivals'[id]
  <2>4. /\ m \in DOMAIN a /\ n \in DOMAIN a
        /\ a[m] = arrivals[id][m] /\ a[n] = e.item
    BY <1>4, <2>1
  <2>5. a \in Seq(Items)
    BY DEF TypeOK
  <2>6. DOMAIN a \subseteq Nat /\ a[m] # NoItem
    <3>1. DOMAIN a = 1..Len(a) /\ Len(a) \in Nat
      BY <2>5, LenProperties
    <3>2. a[m] \in Items
      BY <2>4, <2>5, <3>1, ElementOfSeq
    <3> QED
      BY <3>1, <3>2, NoItemAssumption
  <2>7. \A x, y \in DOMAIN a : a[x] = a[y] => x = y
    OBVIOUS
  <2>8. InOrder(a, info)
    OBVIOUS
  <2>9. j \in DOMAIN info.candidates /\ CandidateAt(info, j, a[m])
    BY <1>4, <2>1, <2>3, <2>4
  <2> HIDE DEF a
  <2> QED
    BY <1>1, <1>4, <2>1, <2>4, <2>6, <2>7, <2>8, <2>9, HeadCameFirst
<1> QED
  BY <1>2, <1>3, <1>4 DEF ArrivalInv, GainsInOrder

\* What a call leaves the items with is an outcome of what they believed when it came.
LEMMA OutcomeCall ==
    ASSUME TypeOK', OwnershipInv', LivingInv', NEW id \in TouchIds, NEW s \in Slots,
           NEW k, NEW info, NEW v, Call(id, s, k, info, v)
    PROVE  Column(view', id) \in Ownership!Outcomes(Column(v, id))
<1> DEFINE E == Announcement(info, k)
<1>1. /\ info \in TouchInfo /\ info.id = id /\ alive' = alive
      /\ v \in [Items -> [TouchIds -> Views]]
      /\ \A j \in Items : view'[j][id] = Told(v, E)[j][id]
      /\ Living(info)
      /\ IsOwned(info) /\ k = 1 => Queued(v, info) /\ (alive = Items => AsAsked(v, info))
  BY DEF Call
<1>2. Column(view', id) = Column(Told(v, E), id)
  BY <1>1 DEF Column
<1>3. CASE k = 1 /\ IsOwned(info)
  <2>1. E = Resolution(info)
    BY <1>3 DEF Announcement
  <2>2. 1 \in DOMAIN info.candidates
    BY <1>1, <1>3, QueueOf DEF IsOwned
  <2>3. alive' \subseteq Items
    BY DEF TypeOK
  <2>4. \/ info.candidates[1].item \in alive'
        \/ info.candidates[1].item = NoItem /\ alive' # Items
    BY <1>1, <2>2 DEF Living
  <2>5. alive' = Items => v[info.candidates[1].item][info.id] = info.candidates[1].state
    BY <1>1, <1>3, <2>2 DEF AsAsked
  <2>6. \A e : e.touch = info.id => (e \in E <=> e \in Resolution(info))
    BY <2>1
  <2>7. Queued(v, info)
    BY <1>1, <1>3
  <2> HIDE DEF E
  <2>8. Column(Told(v, E), info.id) \in Ownership!Outcomes(Column(v, info.id))
    BY <1>1, <1>3, <2>3, <2>4, <2>5, <2>6, <2>7, Answered
  <2> QED
    BY <1>1, <1>2, <2>8
<1>4. CASE ~(k = 1 /\ IsOwned(info))
  <2>1. E = {}
    BY <1>4 DEF Announcement
  <2>2. \A j \in Items : view'[j][id] = v[j][id]
    BY <1>1, <2>1, ToldOthers
  <2>3. Column(view', id) = Column(v, id)
    BY <2>2 DEF Column
  <2> QED
    BY <2>3, NothingToSettle
<1> QED
  BY <1>3, <1>4

-----------------------------------------------------------------------------
(* The calls of the items.                                                 *)

\* What every call about touch id leaves behind: the invariants, gains in order, and
\* an outcome of TouchOwnership once item i believes what it said (to).
Proceeds(i, id, to) ==
    /\ LivingInv' /\ ArrivalInv' /\ GainsInOrder
    /\ \A other \in TouchIds : other # id => Column(view', other) = Column(view, other)
    /\ Column(view', id) \in Ownership!Outcomes([Column(view, id) EXCEPT ![i] = to])

\* Nobody who came to touch id before is forgotten, and nobody comes to it twice.
ArrivalsGrow(id) ==
    /\ \A other \in TouchIds : other # id => arrivals'[other] = arrivals[other]
    /\ DOMAIN arrivals[id] \subseteq DOMAIN arrivals'[id]
    /\ \A m \in DOMAIN arrivals[id] : arrivals'[id][m] = arrivals[id][m]
    /\ \A m, n \in DOMAIN arrivals'[id] : arrivals'[id][m] = arrivals'[id][n] => m = n

LEMMA BelievedColumn ==
    ASSUME TypeOK, NEW i \in Items, NEW id \in TouchIds, NEW what \in Views
    PROVE  Column(Believes(i, id, what), id)
               = [Column(view, id) EXCEPT ![i] = BeliefOf(what)]
<1>1. /\ Believes(i, id, what)[i][id] = what
      /\ \A j \in Items : j # i => Believes(i, id, what)[j][id] = view[j][id]
  BY BelievesOthers
<1> QED
  BY <1>1 DEF Column

LEMMA CallProceeds ==
    ASSUME TypeOK, TypeOK', PoolInv, OwnershipInv', LivingInv, ArrivalInv,
           NEW i \in Items, NEW id \in TouchIds, NEW what \in Views,
           NEW s \in Slots, NEW k, NEW info,
           Call(id, s, k, info, Believes(i, id, what)),
           inDispatchLoop => id \notin offered,
           \A e \in events' : e.kind = "gained" => e \in Announcement(info, k),
           ArrivalsGrow(id), InOrder(arrivals'[id], info)
    PROVE  Proceeds(i, id, BeliefOf(what))
<1>1. LivingInv'
  BY LivingCall
<1>2. ArrivalInv' /\ GainsInOrder
  BY ArrivalCall DEF ArrivalsGrow
<1>3. Column(view', id) \in Ownership!Outcomes([Column(view, id) EXCEPT ![i] = BeliefOf(what)])
  BY <1>1, OutcomeCall, BelievedColumn
<1>4. \A other \in TouchIds : other # id => Column(view', other) = Column(view, other)
  BY DEF Call, Column
<1> QED
  BY <1>1, <1>2, <1>3, <1>4 DEF Proceeds

\* What a queue held before a call about it.
LEMMA QueueBefore ==
    ASSUME TypeOK, OwnershipInv, LivingInv, ArrivalInv, NEW s \in Slots, Current(s)
    PROVE  /\ slots[s] \in TouchInfo /\ slots[s].id \in TouchIds
           /\ Agree(view, slots[s]) /\ Living(slots[s])
           /\ InOrder(arrivals[slots[s].id], slots[s])
           /\ alive = Items => \A k \in DOMAIN slots[s].candidates :
                                   slots[s].candidates[k].item \in Items
           /\ ~IsOwned(slots[s]) /\ alive = Items => AsAsked(view, slots[s])
<1>1. /\ slots[s] \in TouchInfo /\ slots[s].id \in TouchIds
      /\ Agree(view, slots[s]) /\ Living(slots[s])
  BY DEF TypeOK, TouchInfo, Current, InUse, OwnershipInv, LivingInv
<1>2. ~IsOwned(slots[s]) /\ alive = Items => AsAsked(view, slots[s])
  BY DEF LivingInv
<1>3. InOrder(arrivals[slots[s].id], slots[s])
  BY DEF ArrivalInv
<1>4. alive = Items => \A k \in DOMAIN slots[s].candidates :
                           slots[s].candidates[k].item \in Items
  BY <1>1 DEF Living
<1> QED
  BY <1>1, <1>2, <1>3, <1>4

\* An item comes to a touch once, after all who came before.
LEMMA ComesLast ==
    ASSUME TypeOK, ArrivalInv, NEW i \in Items, NEW id \in TouchIds,
           i \notin ToSet(arrivals[id]), arrivals' = [arrivals EXCEPT ![id] = Append(@, i)]
    PROVE  /\ ArrivalsGrow(id)
           /\ arrivals'[id] = Append(arrivals[id], i)
           /\ arrivals[id] \in Seq(Items) /\ \A m \in DOMAIN arrivals[id] : arrivals[id][m] # i
<1> DEFINE a == arrivals[id]
<1>1. a \in Seq(Items)
  BY DEF TypeOK
<1>2. /\ \A other \in TouchIds : other # id => arrivals'[other] = arrivals[other]
      /\ arrivals'[id] = Append(a, i)
  BY DEF TypeOK
<1>3. \A m \in DOMAIN a : a[m] # i
  BY DEF ToSet
<1>4. \A m, n \in DOMAIN a : a[m] = a[n] => m = n
  BY DEF ArrivalInv
<1> HIDE DEF a
<1>5. /\ Len(a) \in Nat /\ DOMAIN a = 1..Len(a)
      /\ DOMAIN Append(a, i) = 1..(Len(a) + 1)
      /\ \A m \in 1..Len(a) : Append(a, i)[m] = a[m]
      /\ Append(a, i)[Len(a) + 1] = i
  BY <1>1, AppendProperties, LenProperties
<1>6. \A m \in 1..(Len(a) + 1) : m \in 1..Len(a) \/ m = Len(a) + 1
  BY <1>5
<1>7. /\ DOMAIN a \subseteq DOMAIN Append(a, i)
      /\ \A m \in DOMAIN a : Append(a, i)[m] = a[m]
  BY <1>5
<1>8. \A m, n \in DOMAIN Append(a, i) : Append(a, i)[m] = Append(a, i)[n] => m = n
  BY <1>3, <1>4, <1>5, <1>6
<1> QED
  BY <1>1, <1>2, <1>3, <1>7, <1>8 DEF a, ArrivalsGrow

\* A candidate that comes waits in its turn.
LEMMA AddProceeds ==
    ASSUME TypeOK, TypeOK', PoolInv, OwnershipInv, OwnershipInv', LivingInv, ArrivalInv,
           NEW i \in Items, NEW id \in TouchIds, AddCandidateOwnerForTouch(i, id)
    PROVE  view[i][id] = "None" /\ Proceeds(i, id, "waiting")
<1>1. PICK s \in Slots :
        /\ Finds(s, id)
        /\ IF IsOwned(slots[s])
           THEN UNCHANGED <<slots, connections>>
           ELSE slots' = [slots EXCEPT ![s] = With(@, i, "Undecided")]
  BY DEF AddCandidateOwnerForTouch
<1> DEFINE info == With(slots[s], i, "Undecided")
           v == Believes(i, id, "Undecided")
<1>2. /\ ~inDispatchLoop /\ id \in offered /\ view[i][id] = "None" /\ i \in alive
      /\ view' = v /\ offered' = offered /\ alive' = alive /\ events' = {}
      /\ i \notin ToSet(arrivals[id]) /\ arrivals' = [arrivals EXCEPT ![id] = Append(@, i)]
  BY DEF AddCandidateOwnerForTouch, SeesPress
<1>3. Current(s) /\ slots[s].id = id
  BY <1>1, <1>2, FoundIsCurrent
<1>4. /\ slots[s] \in TouchInfo /\ Agree(view, slots[s]) /\ Living(slots[s])
      /\ InOrder(arrivals[id], slots[s])
      /\ alive = Items => \A k \in DOMAIN slots[s].candidates :
                              slots[s].candidates[k].item \in Items
      /\ ~IsOwned(slots[s]) /\ alive = Items => AsAsked(view, slots[s])
  BY <1>3, QueueBefore
<1>5. ~IsOwned(slots[s])
  BY <1>2, <1>3, <1>4, QueueOf DEF IsOwned, AllUndecided, OwnershipInv
<1>6. "Undecided" \in CandidateStates /\ "Undecided" \in Views
  BY DEF CandidateStates, Views
<1>7. /\ info \in TouchInfo /\ info.id = id
      /\ info.physicallyEnded = slots[s].physicallyEnded
  BY <1>3, <1>4, <1>6, WithProperties
<1>8. /\ slots'[s] = info
      /\ \A t \in Slots : t # s => slots'[t] = slots[t]
      /\ \A t \in Slots : slots'[t].id = slots[t].id
                          /\ slots'[t].physicallyEnded = slots[t].physicallyEnded
  BY <1>1, <1>3, <1>5, <1>7 DEF TypeOK
<1>9. \A t \in Slots : Current(t)' => Current(t)
  BY <1>2, <1>8, CurrentKept
<1>10. /\ v \in [Items -> [TouchIds -> Views]] /\ v[i][id] = "Undecided"
       /\ \A j \in Items : j # i => v[j][id] = view[j][id]
       /\ \A j \in Items, other \in TouchIds : other # id => v[j][other] = view[j][other]
  BY <1>6, BelievesType, BelievesOthers
<1> HIDE DEF v
<1>11. Queued(v, info) /\ Living(info) /\ (alive = Items => AsAsked(v, info))
  <2>1. slots[s].id \in TouchIds /\ v[i][slots[s].id] = "Undecided"
        /\ view[i][slots[s].id] = "None"
        /\ \A j \in Items : j # i => v[j][slots[s].id] = view[j][slots[s].id]
    BY <1>2, <1>3, <1>10
  <2> QED
    BY <1>2, <1>4, <1>5, <2>1, QueuedWith
<1>12. Announcement(info, 2) = {}
  BY DEF Announcement
<1>13. InOrder(Append(arrivals[id], i), info)
  BY <1>2, <1>4, <1>6, ComesLast, InOrderWith
<1> HIDE DEF info
<1>14. \A j \in Items : view'[j][id] = Told(v, Announcement(info, 2))[j][id]
  BY <1>2, <1>10, <1>12, ToldOthers
<1>15. Call(id, s, 2, info, v)
  BY <1>2, <1>3, <1>5, <1>7, <1>8, <1>9, <1>10, <1>11, <1>14 DEF Call
<1>16. ArrivalsGrow(id) /\ arrivals'[id] = Append(arrivals[id], i)
  BY <1>2, ComesLast
<1>17. \A e \in events' : e.kind = "gained" => e \in Announcement(info, 2)
  BY <1>2
<1>18. Call(id, s, 2, info, Believes(i, id, "Undecided"))
  BY <1>15 DEF v
<1>19. Proceeds(i, id, BeliefOf("Undecided"))
  BY <1>2, <1>6, <1>13, <1>16, <1>17, <1>18, CallProceeds
<1> QED
  BY <1>2, <1>19, Beliefs

\* Whoever takes the touch on its press has asked for it.
LEMMA OnPressProceeds ==
    ASSUME TypeOK, TypeOK', PoolInv, OwnershipInv, OwnershipInv', LivingInv, ArrivalInv,
           NEW i \in Items, NEW id \in TouchIds, RequestOwnershipOnPress(i, id)
    PROVE  view[i][id] = "None" /\ Proceeds(i, id, "asked")
<1> DEFINE info(s) == With(slots[s], i, "InterimOwner")
           v == Believes(i, id, "InterimOwner")
<1>1. PICK s \in Slots :
        /\ Finds(s, id)
        /\ slots' = [slots EXCEPT ![s] = info(s)]
        /\ events' = Announcement(info(s), Len(info(s).candidates))
  BY DEF RequestOwnershipOnPress
<1> DEFINE n == Len(info(s).candidates)
<1>2. /\ ~inDispatchLoop /\ id \in offered /\ view[i][id] = "None" /\ i \in alive
      /\ view' = Told(v, events') /\ offered' = {} /\ alive' = alive
      /\ i \notin ToSet(arrivals[id]) /\ arrivals' = [arrivals EXCEPT ![id] = Append(@, i)]
  BY DEF RequestOwnershipOnPress, SeesPress
<1>3. Current(s) /\ slots[s].id = id
  BY <1>1, <1>2, FoundIsCurrent
<1>4. /\ slots[s] \in TouchInfo /\ Agree(view, slots[s]) /\ Living(slots[s])
      /\ InOrder(arrivals[id], slots[s])
      /\ alive = Items => \A k \in DOMAIN slots[s].candidates :
                              slots[s].candidates[k].item \in Items
      /\ ~IsOwned(slots[s]) /\ alive = Items => AsAsked(view, slots[s])
  BY <1>3, QueueBefore
<1>5. ~IsOwned(slots[s])
  BY <1>2, <1>3, <1>4, QueueOf DEF IsOwned, AllUndecided, OwnershipInv
<1>6. "InterimOwner" \in CandidateStates /\ "InterimOwner" \in Views
  BY DEF CandidateStates, Views
<1>7. /\ info(s) \in TouchInfo /\ info(s).id = id
      /\ info(s).physicallyEnded = slots[s].physicallyEnded
  BY <1>3, <1>4, <1>6, WithProperties
<1>8. /\ slots'[s] = info(s)
      /\ \A t \in Slots : t # s => slots'[t] = slots[t]
      /\ \A t \in Slots : slots'[t].id = slots[t].id
                          /\ slots'[t].physicallyEnded = slots[t].physicallyEnded
  BY <1>1, <1>3, <1>7 DEF TypeOK
<1>9. \A t \in Slots : Current(t)' => Current(t)
  BY <1>2, <1>8, CurrentKept
<1>10. /\ v \in [Items -> [TouchIds -> Views]] /\ v[i][id] = "InterimOwner"
       /\ \A j \in Items : j # i => v[j][id] = view[j][id]
  BY <1>6, BelievesType, BelievesOthers
<1>11. \A j \in Items, other \in TouchIds : other # id => view'[j][other] = view[j][other]
  <2>1. \A e \in events' : e.touch = id
    BY <1>1, <1>7, AnnouncementTouch
  <2> QED
    BY <1>2, <1>6, <2>1, OtherTouches
<1> HIDE DEF v
<1>12. Queued(v, info(s)) /\ Living(info(s)) /\ (alive = Items => AsAsked(v, info(s)))
  <2>1. slots[s].id \in TouchIds /\ v[i][slots[s].id] = "InterimOwner"
        /\ view[i][slots[s].id] = "None"
        /\ \A j \in Items : j # i => v[j][slots[s].id] = view[j][slots[s].id]
    BY <1>2, <1>3, <1>10
  <2> QED
    BY <1>2, <1>4, <1>5, <2>1, QueuedWith
<1>13. InOrder(Append(arrivals[id], i), info(s))
  BY <1>2, <1>4, <1>6, ComesLast, InOrderWith
<1>14. events' = Announcement(info(s), n) /\ view' = Told(v, Announcement(info(s), n))
  BY <1>1, <1>2
<1> HIDE DEF info, n
<1>15. Call(id, s, n, info(s), v)
  BY <1>2, <1>3, <1>5, <1>7, <1>8, <1>9, <1>10, <1>11, <1>12, <1>14 DEF Call
<1>16. ArrivalsGrow(id) /\ arrivals'[id] = Append(arrivals[id], i)
  BY <1>2, ComesLast
<1>17. \A e \in events' : e.kind = "gained" => e \in Announcement(info(s), n)
  BY <1>14
<1>18. Call(id, s, n, info(s), Believes(i, id, "InterimOwner"))
  BY <1>15 DEF v
<1>19. Proceeds(i, id, BeliefOf("InterimOwner"))
  BY <1>2, <1>6, <1>13, <1>16, <1>17, <1>18, CallProceeds
<1> QED
  BY <1>2, <1>19, Beliefs

\* Nobody comes.
LEMMA NobodyComes ==
    ASSUME ArrivalInv, NEW id \in TouchIds, arrivals' = arrivals
    PROVE  ArrivalsGrow(id)
BY DEF ArrivalInv, ArrivalsGrow

\* A candidate that recognises its gesture has asked for the touch.
LEMMA RequestProceeds ==
    ASSUME TypeOK, TypeOK', PoolInv, OwnershipInv, OwnershipInv', LivingInv, ArrivalInv,
           NEW i \in Items, NEW id \in TouchIds, RequestTouchOwnership(i, id)
    PROVE  view[i][id] = "Undecided" /\ Proceeds(i, id, "asked")
<1> DEFINE info(s, k) == Deciding(slots[s], k)
           v == Believes(i, id, "Requested")
<1>0. PICK s \in Slots : \E k \in DOMAIN slots[s].candidates :
        /\ Finds(s, id) /\ CandidateAt(slots[s], k, i)
        /\ slots' = [slots EXCEPT ![s] = info(s, k)]
        /\ events' = Announcement(info(s, k), k)
  BY DEF RequestTouchOwnership
<1>1. PICK k \in DOMAIN slots[s].candidates :
        /\ Finds(s, id) /\ CandidateAt(slots[s], k, i)
        /\ slots' = [slots EXCEPT ![s] = info(s, k)]
        /\ events' = Announcement(info(s, k), k)
  BY <1>0
<1>2. /\ id \notin offered /\ view[i][id] = "Undecided"
      /\ view' = Told(v, events') /\ offered' = offered /\ alive' = alive
      /\ arrivals' = arrivals
  BY DEF RequestTouchOwnership
<1>3. Current(s) /\ slots[s].id = id
  BY <1>1, <1>2, FoundIsCurrent
<1>4. /\ slots[s] \in TouchInfo /\ Agree(view, slots[s]) /\ Living(slots[s])
      /\ InOrder(arrivals[id], slots[s])
      /\ alive = Items => \A m \in DOMAIN slots[s].candidates :
                              slots[s].candidates[m].item \in Items
      /\ ~IsOwned(slots[s]) /\ alive = Items => AsAsked(view, slots[s])
  BY <1>3, QueueBefore
<1>5. ~IsOwned(slots[s])
  BY <1>2, <1>3, <1>4 DEF Agree, CandidateStates
<1>6. /\ info(s, k) \in TouchInfo /\ info(s, k).id = id
      /\ info(s, k).physicallyEnded = slots[s].physicallyEnded
      /\ DOMAIN info(s, k).candidates = DOMAIN slots[s].candidates
      /\ \A j \in DOMAIN slots[s].candidates :
            info(s, k).candidates[j].item = slots[s].candidates[j].item
  BY <1>3, <1>4, DecidingProperties
<1>7. "Requested" \in Views
  BY DEF Views, CandidateStates
<1>8. /\ slots'[s] = info(s, k)
      /\ \A t \in Slots : t # s => slots'[t] = slots[t]
      /\ \A t \in Slots : slots'[t].id = slots[t].id
                          /\ slots'[t].physicallyEnded = slots[t].physicallyEnded
  BY <1>1, <1>3, <1>6 DEF TypeOK
<1>9. \A t \in Slots : Current(t)' => Current(t)
  BY <1>2, <1>8, CurrentKept
<1>10. /\ v \in [Items -> [TouchIds -> Views]] /\ v[i][id] = "Requested"
       /\ \A j \in Items : j # i => v[j][id] = view[j][id]
  BY <1>7, BelievesType, BelievesOthers
<1>11. \A j \in Items, other \in TouchIds : other # id => view'[j][other] = view[j][other]
  <2>1. \A e \in events' : e.touch = id
    BY <1>1, <1>6, AnnouncementTouch
  <2> QED
    BY <1>2, <1>7, <2>1, OtherTouches
<1> HIDE DEF v
<1>12. /\ Queued(v, info(s, k)) /\ Living(info(s, k))
       /\ alive = Items => AsAsked(v, info(s, k))
  <2>1. slots[s].id \in TouchIds /\ v[i][slots[s].id] = "Requested"
        /\ \A j \in Items : j # i => v[j][slots[s].id] = view[j][slots[s].id]
    BY <1>3, <1>10
  <2> QED
    BY <1>1, <1>4, <1>5, <2>1, QueuedDeciding
<1> HIDE DEF info
<1>13. InOrder(arrivals[id], info(s, k))
  BY <1>4, <1>6, InOrderSameItems
<1>14. events' = Announcement(info(s, k), k) /\ view' = Told(v, Announcement(info(s, k), k))
  BY <1>1, <1>2
<1>15. Call(id, s, k, info(s, k), v)
  BY <1>2, <1>3, <1>5, <1>6, <1>8, <1>9, <1>10, <1>11, <1>12, <1>14 DEF Call
<1>16. Call(id, s, k, info(s, k), Believes(i, id, "Requested"))
  BY <1>15 DEF v
<1>17. \A e \in events' : e.kind = "gained" => e \in Announcement(info(s, k), k)
  BY <1>14
<1>18. ArrivalsGrow(id) /\ InOrder(arrivals'[id], info(s, k))
  BY <1>2, <1>13, NobodyComes
<1>19. Proceeds(i, id, BeliefOf("Requested"))
  BY <1>2, <1>7, <1>16, <1>17, <1>18, CallProceeds
<1> QED
  BY <1>2, <1>19, Beliefs

\* What is left of the queue of an unowned touch when candidate k, item i, turns away.
LEMMA QueueTurnedFrom ==
    ASSUME NEW old \in TouchInfo, old.id \in TouchIds, NEW k \in DOMAIN old.candidates,
           NEW i \in Items, CandidateAt(old, k, i), ~IsOwned(old),
           NEW u, Agree(u, old),
           NEW v, v[i][old.id] \in {"None", "Lost"},
           \A j \in Items : j # i => v[j][old.id] = u[j][old.id]
    PROVE  /\ Queued(v, Without(old, k))
           /\ AsAsked(u, old) /\ (\A m \in DOMAIN old.candidates : old.candidates[m].item \in Items)
                 => AsAsked(v, Without(old, k))
<1>1. /\ old.candidates[k].item = i
      /\ \A m \in DOMAIN old.candidates : old.candidates[m].item = i => m = k
  BY NoItemAssumption DEF Agree, CandidateAt
<1>2. \A m \in DOMAIN old.candidates : m # k /\ old.candidates[m].item # NoItem =>
        v[old.candidates[m].item][old.id] = u[old.candidates[m].item][old.id]
  BY <1>1, QueueOf
<1>3. ASSUME NEW m \in DOMAIN old.candidates, m # k, old.candidates[m].item # NoItem
      PROVE  /\ \A j \in DOMAIN old.candidates :
                   j # k /\ old.candidates[j].item = old.candidates[m].item => j = m
             /\ v[old.candidates[m].item][old.id] \in {old.candidates[m].state, "Lost"}
  <2>1. /\ \A j \in DOMAIN old.candidates :
              old.candidates[j].item = old.candidates[m].item => j = m
        /\ u[old.candidates[m].item][old.id] \in {old.candidates[m].state, "Lost"}
    BY <1>3 DEF Agree
  <2> QED
    BY <1>2, <1>3, <2>1
<1>4. ASSUME NEW j \in Items, v[j][old.id] \in CandidateStates
      PROVE  \E m \in DOMAIN old.candidates : m # k /\ CandidateAt(old, m, j)
  <2>1. j # i /\ u[j][old.id] \in CandidateStates
    BY <1>4 DEF CandidateStates
  <2>2. PICK m \in DOMAIN old.candidates : CandidateAt(old, m, j)
    BY <2>1 DEF Agree
  <2> QED
    BY <1>1, <2>1, <2>2 DEF CandidateAt
<1>5. ASSUME NEW j \in Items PROVE v[j][old.id] # "Owner"
  <2>1. j # i => u[j][old.id] # "Owner"
    BY DEF Agree
  <2> QED
    BY <2>1
<1>6. Queued(v, Without(old, k))
  BY <1>3, <1>4, <1>5, QueuedWithout
<1>7. ASSUME AsAsked(u, old), \A m \in DOMAIN old.candidates : old.candidates[m].item \in Items
      PROVE  AsAsked(v, Without(old, k))
  <2>1. \A m \in DOMAIN old.candidates : m # k =>
          v[old.candidates[m].item][old.id] = old.candidates[m].state
    BY <1>2, <1>7, NoItemAssumption DEF AsAsked
  <2> QED
    BY <2>1, AsAskedWithout
<1> QED
  BY <1>6, <1>7

\* A candidate that gives the touch up is out of the queue.
LEMMA RemoveProceeds ==
    ASSUME TypeOK, TypeOK', PoolInv, OwnershipInv, OwnershipInv', LivingInv, ArrivalInv,
           NEW i \in Items, NEW id \in TouchIds, RemoveCandidateOwnerForTouch(i, id)
    PROVE  Waiting(i, id) /\ Proceeds(i, id, "none")
<1> DEFINE info(s, k) == Without(slots[s], k)
           v == Believes(i, id, "None")
           freed(s, k) == IF ~inDispatchLoop /\ Ended(info(s, k)) THEN {s} ELSE {}
<1>0. PICK s \in Slots : \E k \in DOMAIN slots[s].candidates :
        /\ Finds(s, id) /\ CandidateAt(slots[s], k, i)
        /\ SetSlots([slots EXCEPT ![s] = info(s, k)], freed(s, k))
        /\ events' = Announcement(info(s, k), k)
  BY DEF RemoveCandidateOwnerForTouch
<1>1. PICK k \in DOMAIN slots[s].candidates :
        /\ Finds(s, id) /\ CandidateAt(slots[s], k, i)
        /\ SetSlots([slots EXCEPT ![s] = info(s, k)], freed(s, k))
        /\ events' = Announcement(info(s, k), k)
  BY <1>0
<1>2. /\ Waiting(i, id) /\ view' = Told(v, events') /\ alive' = alive
      /\ arrivals' = arrivals
      /\ offered' = offered /\ inDispatchLoop' = inDispatchLoop
      /\ inDispatchLoop => id \notin offered
  BY WaitingNotOffered DEF RemoveCandidateOwnerForTouch
<1>3. Current(s) /\ slots[s].id = id
  BY <1>1, <1>2, FoundIsCurrent
<1>4. /\ slots[s] \in TouchInfo /\ Agree(view, slots[s]) /\ Living(slots[s])
      /\ InOrder(arrivals[id], slots[s])
      /\ alive = Items => \A m \in DOMAIN slots[s].candidates :
                              slots[s].candidates[m].item \in Items
      /\ ~IsOwned(slots[s]) /\ alive = Items => AsAsked(view, slots[s])
  BY <1>3, QueueBefore
<1>5. ~IsOwned(slots[s])
  BY <1>2, <1>3, <1>4 DEF Agree, Waiting
<1>6. /\ info(s, k) \in TouchInfo /\ info(s, k).id = id
      /\ info(s, k).physicallyEnded = slots[s].physicallyEnded
  BY <1>3, <1>4, WithoutProperties
<1>7. "None" \in Views
  BY DEF Views
<1>8. /\ v \in [Items -> [TouchIds -> Views]] /\ v[i][id] = "None"
      /\ \A j \in Items : j # i => v[j][id] = view[j][id]
  BY <1>7, BelievesType, BelievesOthers
<1>9. \A j \in Items, other \in TouchIds : other # id => view'[j][other] = view[j][other]
  <2>1. \A e \in events' : e.touch = id
    BY <1>1, <1>6, AnnouncementTouch
  <2> QED
    BY <1>2, <1>7, <2>1, OtherTouches
<1> HIDE DEF v
<1>10. /\ Queued(v, info(s, k)) /\ Living(info(s, k))
       /\ alive = Items => AsAsked(v, info(s, k))
  <2>1. slots[s].id \in TouchIds /\ v[i][slots[s].id] \in {"None", "Lost"}
        /\ \A j \in Items : j # i => v[j][slots[s].id] = view[j][slots[s].id]
    BY <1>3, <1>8
  <2> QED
    BY <1>1, <1>4, <1>5, <2>1, QueueTurnedFrom, LivingWithout
<1>11. InOrder(arrivals[id], info(s, k))
  BY <1>4, InOrderWithout
<1> HIDE DEF info
<1>12. \A t \in Slots : slots'[t] = IF t \in freed(s, k) THEN EmptyInfo
                                   ELSE IF t = s THEN info(s, k) ELSE slots[t]
  BY <1>1 DEF SetSlots, TypeOK
<1>13. /\ slots'[s] \in {info(s, k), EmptyInfo}
       /\ \A t \in Slots : t # s => slots'[t] = slots[t]
       /\ \A t \in Slots : Current(t)' => Current(t)
  BY <1>2, <1>3, <1>12 DEF Current, Stale, InUse
<1>14. events' = Announcement(info(s, k), k) /\ view' = Told(v, Announcement(info(s, k), k))
  BY <1>1, <1>2
<1>15. Call(id, s, k, info(s, k), v)
  BY <1>2, <1>3, <1>5, <1>6, <1>8, <1>9, <1>10, <1>13, <1>14 DEF Call
<1>16. Call(id, s, k, info(s, k), Believes(i, id, "None"))
  BY <1>15 DEF v
<1>17. \A e \in events' : e.kind = "gained" => e \in Announcement(info(s, k), k)
  BY <1>14
<1>18. ArrivalsGrow(id) /\ InOrder(arrivals'[id], info(s, k))
  BY <1>2, <1>11, NobodyComes
<1>19. Proceeds(i, id, BeliefOf("None"))
  BY <1>2, <1>7, <1>16, <1>17, <1>18, CallProceeds
<1> QED
  BY <1>2, <1>19, Beliefs

\* A candidate that runs out of time has lost, if it had not lost before.
LEMMA RejectProceeds ==
    ASSUME TypeOK, TypeOK', PoolInv, OwnershipInv, OwnershipInv', LivingInv, ArrivalInv,
           NEW i \in Items, NEW id \in TouchIds, RejectCandidateOwnerForTouch(i, id)
    PROVE  view[i][id] \in {"Undecided", "Lost"} /\ Proceeds(i, id, "lost")
<1> DEFINE info(s, k) == Without(slots[s], k)
           v == Believes(i, id, "Lost")
<1>0. PICK s \in Slots : \E k \in DOMAIN slots[s].candidates :
        /\ Finds(s, id) /\ CandidateAt(slots[s], k, i)
        /\ slots[s].candidates[k].inactivityTimer
        /\ k > 1 \/ slots[s].candidates[k].state = "Undecided"
        /\ slots' = [slots EXCEPT ![s] = info(s, k)]
        /\ events' = {EventTo(i, id, "lost")} \cup Announcement(info(s, k), k)
  BY DEF RejectCandidateOwnerForTouch
<1>1. PICK k \in DOMAIN slots[s].candidates :
        /\ Finds(s, id) /\ CandidateAt(slots[s], k, i)
        /\ slots[s].candidates[k].inactivityTimer
        /\ k > 1 \/ slots[s].candidates[k].state = "Undecided"
        /\ slots' = [slots EXCEPT ![s] = info(s, k)]
        /\ events' = {EventTo(i, id, "lost")} \cup Announcement(info(s, k), k)
  BY <1>0
<1>2. /\ ~inDispatchLoop /\ offered = {}
      /\ view' = Told(view, events') /\ offered' = offered
      /\ alive' = alive /\ arrivals' = arrivals
  BY DEF RejectCandidateOwnerForTouch, Idle
<1>3. Current(s) /\ slots[s].id = id
  BY <1>1, <1>2, FoundIsCurrent
<1>4. /\ slots[s] \in TouchInfo /\ Agree(view, slots[s]) /\ Living(slots[s])
      /\ InOrder(arrivals[id], slots[s])
      /\ alive = Items => \A m \in DOMAIN slots[s].candidates :
                              slots[s].candidates[m].item \in Items
      /\ ~IsOwned(slots[s]) /\ alive = Items => AsAsked(view, slots[s])
  BY <1>3, QueueBefore
<1>5. /\ info(s, k) \in TouchInfo /\ info(s, k).id = id
      /\ info(s, k).physicallyEnded = slots[s].physicallyEnded
      /\ DOMAIN info(s, k).candidates = 1..(Len(slots[s].candidates) - 1)
      /\ \A j \in 1..(Len(slots[s].candidates) - 1) :
            info(s, k).candidates[j] = slots[s].candidates[IF j < k THEN j ELSE j + 1]
  BY <1>3, <1>4, WithoutProperties
<1>6. view[i][id] \in {"Undecided", "Lost"}
  <2>1. /\ slots[s].candidates[k].item = i /\ i # NoItem
        /\ slots[s].candidates[k].state = "Undecided"
    BY <1>1, <1>4, NoItemAssumption DEF CandidateAt, Living
  <2>2. IsOwned(slots[s]) => k # 1
    BY <2>1 DEF IsOwned
  <2> QED
    BY <1>3, <1>4, <2>1, <2>2 DEF Agree
<1>7. IsOwned(slots[s]) => IsOwned(info(s, k)) /\ k # 1
  <2>1. SUFFICES ASSUME IsOwned(slots[s]) PROVE IsOwned(info(s, k)) /\ k # 1
    OBVIOUS
  <2>2. k # 1
    BY <1>1, <2>1 DEF IsOwned
  <2>3. /\ DOMAIN slots[s].candidates = 1..Len(slots[s].candidates)
        /\ Len(slots[s].candidates) \in Nat
    BY <1>4, QueueOf
  <2>4. 1 \in 1..(Len(slots[s].candidates) - 1) /\ 1 < k
    BY <2>2, <2>3
  <2> HIDE DEF info
  <2>5. info(s, k).candidates[1] = slots[s].candidates[1] /\ info(s, k).candidates # <<>>
    BY <1>5, <2>4, QueueOf
  <2> QED
    BY <2>1, <2>2, <2>5 DEF IsOwned
<1>8. "Lost" \in Views
  BY DEF Views
<1>9. /\ v \in [Items -> [TouchIds -> Views]] /\ v[i][id] = "Lost"
      /\ \A j \in Items : j # i => v[j][id] = view[j][id]
  BY <1>8, BelievesType, BelievesOthers
<1>10. \A j \in Items, other \in TouchIds : other # id => view'[j][other] = view[j][other]
  <2>1. ASSUME NEW j \in Items, NEW other \in TouchIds, other # id
        PROVE  view'[j][other] = view[j][other]
    <3>1. \A e \in events' : e.touch # other
      BY <1>1, <1>5, <2>1, AnnouncementTouch DEF EventTo
    <3>2. view \in [Items -> [TouchIds -> Views]]
      BY DEF TypeOK
    <3> QED
      BY <1>2, <3>1, <3>2, ToldOthers
  <2> QED
    BY <2>1
<1>11. \A j \in Items : view'[j][id] = Told(v, Announcement(info(s, k), k))[j][id]
  BY <1>1, <1>2, <1>3, <1>4, RejectTells
<1> HIDE DEF v
<1>12. /\ Living(info(s, k))
       /\ ~IsOwned(slots[s]) => /\ Queued(v, info(s, k))
                                /\ alive = Items => AsAsked(v, info(s, k))
  <2>1. slots[s].id \in TouchIds /\ v[i][slots[s].id] \in {"None", "Lost"}
        /\ \A j \in Items : j # i => v[j][slots[s].id] = view[j][slots[s].id]
    BY <1>3, <1>9
  <2> QED
    BY <1>1, <1>4, <2>1, QueueTurnedFrom, LivingWithout
<1>13. InOrder(arrivals[id], info(s, k))
  BY <1>4, InOrderWithout
<1> HIDE DEF info
<1>14. /\ slots'[s] = info(s, k)
       /\ \A t \in Slots : t # s => slots'[t] = slots[t]
       /\ \A t \in Slots : slots'[t].id = slots[t].id
                           /\ slots'[t].physicallyEnded = slots[t].physicallyEnded
  BY <1>1, <1>3, <1>5 DEF TypeOK
<1>15. \A t \in Slots : Current(t)' => Current(t)
  BY <1>2, <1>14, CurrentKept
<1>16. Call(id, s, k, info(s, k), v)
  BY <1>2, <1>3, <1>5, <1>7, <1>9, <1>10, <1>11, <1>12, <1>14, <1>15 DEF Call
<1>17. Call(id, s, k, info(s, k), Believes(i, id, "Lost"))
  BY <1>16 DEF v
<1>18. \A e \in events' : e.kind = "gained" => e \in Announcement(info(s, k), k)
  BY <1>1 DEF EventTo
<1>19. ArrivalsGrow(id) /\ InOrder(arrivals'[id], info(s, k))
  BY <1>2, <1>13, NobodyComes
<1>20. Proceeds(i, id, BeliefOf("Lost"))
  BY <1>2, <1>8, <1>17, <1>18, <1>19, CallProceeds
<1> QED
  BY <1>6, <1>20, Beliefs

-----------------------------------------------------------------------------
(* The end of an item.                                                     *)

\* What is left of a queue when its head, a null candidate, is pruned from it.
LEMMA QueuedPruned ==
    ASSUME NEW old \in TouchInfo, old.id \in TouchIds, NullCandidate(old),
           NullIndex(old) = 1, NEW v, Agree(v, old)
    PROVE  Queued(v, Pruned(old))
<1>1. 1 \in DOMAIN old.candidates /\ old.candidates[1].item = NoItem
  BY DEF NullCandidate, NullIndex
<1>2. Pruned(old) = Without(old, 1)
  BY DEF Pruned
<1>3. ASSUME NEW m \in DOMAIN old.candidates, m # 1, old.candidates[m].item # NoItem
      PROVE  /\ \A j \in DOMAIN old.candidates :
                   j # 1 /\ old.candidates[j].item = old.candidates[m].item => j = m
             /\ v[old.candidates[m].item][old.id] \in {old.candidates[m].state, "Lost"}
  BY <1>3 DEF Agree
<1>4. ASSUME NEW j \in Items, v[j][old.id] \in CandidateStates
      PROVE  \E m \in DOMAIN old.candidates : m # 1 /\ CandidateAt(old, m, j)
  <2>1. PICK m \in DOMAIN old.candidates : CandidateAt(old, m, j)
    BY <1>4 DEF Agree
  <2> QED
    BY <1>1, <2>1, NoItemAssumption DEF CandidateAt
<1>5. \A j \in Items : v[j][old.id] # "Owner"
  BY <1>1, NoItemAssumption DEF Agree, CandidateAt
<1>6. Queued(v, Without(old, 1))
  BY <1>1, <1>3, <1>4, <1>5, QueuedWithout
<1> QED
  BY <1>2, <1>6

\* An item dies, and perhaps an owner with it: whoever is left at the head of a queue
\* it leaves has the touch if it asked for it, and nobody when that one is gone too.
LEMMA DestroyProceeds ==
    ASSUME TypeOK, TypeOK', PoolInv, OwnershipInv, LivingInv, ArrivalInv,
           NEW i \in Items, DestroyItem(i)
    PROVE  /\ LivingInv' /\ ArrivalInv' /\ GainsInOrder
           /\ i \in alive /\ alive' = alive \ {i}
           /\ \A id \in TouchIds : Column(view', id)
                  \in Ownership!Outcomes([Column(view, id) EXCEPT ![i] = "none"])
<1> DEFINE orphans == Orphaned(i)
           prunes == {s \in Slots : /\ NullCandidate(orphans[s])
                                    /\ \E id \in TouchIds :
                                          <<i, id>> \in connections /\ Finds(s, id)}
           pruned == [s \in Slots |-> IF s \in prunes THEN Pruned(orphans[s])
                                                     ELSE orphans[s]]
           freed == {s \in prunes : Ended(pruned[s])}
           told(s) == Announcement(pruned[s], NullIndex(orphans[s]))
           v == Forgets(i)
<1>1. /\ SetSlots(pruned, freed)
      /\ events' = UNION {told(s) : s \in prunes}
      /\ view' = Told(v, events') /\ arrivals' = arrivals
      /\ i \in alive /\ alive' = alive \ {i}
      /\ offered = {} /\ offered' = {}
  BY DEF DestroyItem, Idle, Forgets
<1>2. \A s \in Slots : Stale(s) = FALSE /\ Stale(s)' = FALSE
  BY <1>1 DEF Stale
<1>3. /\ prunes \subseteq Slots
      /\ \A s \in prunes : NullCandidate(orphans[s]) /\ pruned[s] = Pruned(orphans[s])
      /\ \A s \in Slots : s \notin prunes => pruned[s] = orphans[s]
  OBVIOUS
<1>4. \A s \in Slots : slots'[s] = pruned[s] \/ slots'[s] = EmptyInfo
  BY <1>1 DEF SetSlots
<1>5. /\ v \in [Items -> [TouchIds -> Views]]
      /\ \A id \in TouchIds : v[i][id] = "None"
      /\ \A j \in Items, id \in TouchIds : j # i => v[j][id] = view[j][id]
  BY ForgetsProperties
<1>6. \A s \in Slots :
        /\ orphans[s] \in TouchInfo /\ orphans[s].id = slots[s].id
        /\ DOMAIN orphans[s].candidates = DOMAIN slots[s].candidates
        /\ \A k \in DOMAIN slots[s].candidates :
              /\ orphans[s].candidates[k].state = slots[s].candidates[k].state
              /\ orphans[s].candidates[k].inactivityTimer
                     = slots[s].candidates[k].inactivityTimer
              /\ orphans[s].candidates[k].item = IF slots[s].candidates[k].item = i
                                                 THEN NoItem
                                                 ELSE slots[s].candidates[k].item
  BY OrphanedType DEF TypeOK
<1> HIDE DEF orphans
<1>7. \A s \in prunes : /\ NullIndex(orphans[s]) \in DOMAIN orphans[s].candidates
                        /\ pruned[s] = Without(orphans[s], NullIndex(orphans[s]))
  BY <1>3 DEF NullCandidate, NullIndex, Pruned
<1>8. \A s \in Slots : pruned[s] \in TouchInfo /\ pruned[s].id = slots[s].id
  <2> HIDE DEF pruned, prunes
  <2> QED
    BY <1>3, <1>6, PrunedType
<1> HIDE DEF prunes, pruned, freed, told, v
<1>9. \A s \in prunes : \A e \in told(s) : e.touch = slots[s].id
  BY <1>3, <1>8, AnnouncementTouch DEF told
<1>10. \A s \in Slots : Current(s) => slots[s].id \in TouchIds /\ Agree(view, slots[s])
  BY DEF Current, InUse, TypeOK, TouchInfo, OwnershipInv
<1>11. \A s \in Slots : InUse(s) => Current(s)
  BY <1>2 DEF Current
<1>12. \A s \in Slots : Current(s)' => Current(s) /\ slots'[s] = pruned[s]
  BY <1>2, <1>4, <1>8 DEF Current, InUse, EmptyInfo
<1>13. alive' # Items /\ alive' \subseteq Items
  BY <1>1 DEF TypeOK
<1>14. ASSUME NEW s \in Slots, NEW k \in DOMAIN pruned[s].candidates
       PROVE  /\ \/ pruned[s].candidates[k].item \in alive'
                 \/ pruned[s].candidates[k].item = NoItem
              /\ pruned[s].candidates[k].inactivityTimer =>
                     pruned[s].candidates[k].state = "Undecided"
  <2>1. PICK m \in DOMAIN slots[s].candidates :
          pruned[s].candidates[k] = orphans[s].candidates[m]
    <3>1. CASE s \in prunes
      <4>1. \E m \in DOMAIN orphans[s].candidates :
              pruned[s].candidates[k] = orphans[s].candidates[m]
        BY <1>6, <1>7, <1>14, <3>1, WithoutKeeps
      <4> QED
        BY <1>6, <4>1
    <3>2. CASE s \notin prunes
      BY <1>3, <1>6, <1>14, <3>2
    <3> QED
      BY <3>1, <3>2
  <2>2. Living(slots[s])
    BY DEF LivingInv
  <2> QED
    BY <1>1, <1>6, <2>1, <2>2 DEF Living
<1>15. LivingInv'
  <2>1. ASSUME NEW s \in Slots
        PROVE  Living(slots[s])'
    <3>1. CASE slots'[s] = pruned[s]
      BY <1>13, <1>14, <3>1 DEF Living
    <3>2. CASE slots'[s] = EmptyInfo
      BY <3>2 DEF Living, EmptyInfo
    <3> QED
      BY <1>4, <3>1, <3>2
  <2> QED
    BY <1>13, <2>1 DEF LivingInv
<1>16. ASSUME NEW s \in Slots, Current(s)
       PROVE  InOrder(arrivals[slots[s].id], pruned[s])
  <2>1. InOrder(arrivals[slots[s].id], slots[s])
    BY <1>16 DEF ArrivalInv
  <2>2. InOrder(arrivals[slots[s].id], orphans[s])
    BY <1>6, <2>1, InOrderSameItems
  <2>3. CASE s \in prunes
    BY <1>6, <1>7, <2>2, <2>3, InOrderWithout
  <2>4. CASE s \notin prunes
    BY <1>3, <2>2, <2>4
  <2> QED
    BY <2>3, <2>4
<1>17. ArrivalInv'
  BY <1>1, <1>8, <1>12, <1>16 DEF ArrivalInv
<1>18. ASSUME NEW s \in prunes, NEW e \in told(s), NEW t \in Slots, slots[t].id = e.touch,
              e.touch \in TouchIds
       PROVE  t = s /\ Current(s)
  <2>1. s \in Slots /\ slots[s].id = slots[t].id
    BY <1>3, <1>9, <1>18
  <2>2. Current(s) /\ Current(t)
    BY <1>11, <1>18, <2>1, NoTouchAssumption DEF InUse
  <2> QED
    BY <2>1, <2>2 DEF PoolInv
<1>19. GainsInOrder
  <2>1. SUFFICES ASSUME NEW e \in events', e.kind = "gained",
                        NEW m \in DOMAIN arrivals[e.touch], NEW n \in DOMAIN arrivals[e.touch],
                        m < n, arrivals[e.touch][n] = e.item,
                        NEW t \in Slots, NEW j \in DOMAIN slots'[t].candidates,
                        slots'[t].id = e.touch,
                        CandidateAt(slots'[t], j, arrivals[e.touch][m])
                 PROVE  FALSE
    BY DEF GainsInOrder
  <2>2. PICK s \in prunes : e \in told(s)
    BY <1>1
  <2>3. e.touch \in TouchIds
    BY DEF TypeOK, Event
  <2>4. slots'[t] = pruned[t] /\ slots[t].id = e.touch
    BY <1>4, <1>8, <2>1, <2>3, NoTouchAssumption DEF EmptyInfo
  <2>5. t = s /\ Current(s) /\ slots[s].id = e.touch
    BY <1>18, <2>2, <2>3, <2>4
  <2> DEFINE a == arrivals[e.touch]
  <2>6. InOrder(a, pruned[s])
    BY <1>16, <2>5
  <2>7. DOMAIN a \subseteq Nat /\ a[m] # NoItem
    <3>1. a \in Seq(Items)
      BY <2>3 DEF TypeOK
    <3>2. DOMAIN a = 1..Len(a) /\ Len(a) \in Nat
      BY <3>1, LenProperties
    <3>3. a[m] \in Items
      BY <3>1, <3>2, ElementOfSeq
    <3> QED
      BY <3>2, <3>3, NoItemAssumption
  <2>8. \A x, y \in DOMAIN a : a[x] = a[y] => x = y
    BY <2>3 DEF ArrivalInv
  <2>9. /\ j \in DOMAIN pruned[s].candidates /\ CandidateAt(pruned[s], j, a[m])
        /\ e \in Announcement(pruned[s], NullIndex(orphans[s]))
        /\ m \in DOMAIN a /\ n \in DOMAIN a /\ m < n /\ a[n] = e.item
        /\ pruned[s] \in TouchInfo
    BY <1>8, <2>1, <2>2, <2>4, <2>5 DEF told
  <2> HIDE DEF a
  <2> QED
    BY <2>1, <2>6, <2>7, <2>8, <2>9, HeadCameFirst
<1>20. ASSUME NEW id \in TouchIds
       PROVE  Column(view', id) \in Ownership!Outcomes([Column(view, id) EXCEPT ![i] = "none"])
  <2>1. Column(v, id) = [Column(view, id) EXCEPT ![i] = "none"]
    BY <1>5, Beliefs DEF Column
  <2>2. CASE \A e \in events' : e.touch # id
    <3>1. \A j \in Items : view'[j][id] = v[j][id]
      BY <1>1, <1>5, <2>2, ToldOthers
    <3>2. Column(view', id) = Column(v, id)
      BY <3>1 DEF Column
    <3>3. ~Ownership!MustSettle(Column(v, id))
      BY <1>13 DEF Ownership!MustSettle
    <3> HIDE DEF Ownership!MustSettle
    <3> QED
      BY <2>1, <3>2, <3>3 DEF Ownership!Outcomes
  <2>3. CASE \E e \in events' : e.touch = id
    <3>1. PICK f \in events' : f.touch = id
      BY <2>3
    <3>2. PICK s \in prunes : f \in told(s)
      BY <1>1, <3>1
    <3>3. s \in Slots /\ slots[s].id = id /\ Current(s)
      BY <1>3, <1>9, <1>18, <3>1, <3>2
    <3>4. NullIndex(orphans[s]) = 1 /\ IsOwned(pruned[s])
          /\ told(s) = Resolution(pruned[s])
      BY <3>2 DEF told, Announcement
    <3>5. Queued(v, pruned[s])
      <4>1. Agree(v, orphans[s])
        BY <1>10, <3>3, AgreeOrphaned DEF orphans, v
      <4>2. pruned[s] = Pruned(orphans[s]) /\ NullCandidate(orphans[s])
        BY <1>3
      <4>3. orphans[s] \in TouchInfo /\ orphans[s].id \in TouchIds
        BY <1>6, <3>3
      <4> QED
        BY <3>4, <4>1, <4>2, <4>3, QueuedPruned
    <3>6. \A e : e.touch = pruned[s].id => (e \in events' <=> e \in Resolution(pruned[s]))
      <4>1. SUFFICES ASSUME NEW e \in events', e.touch = id PROVE e \in told(s)
        BY <1>1, <1>8, <3>3, <3>4
      <4>2. PICK t \in prunes : e \in told(t)
        BY <1>1
      <4>3. t = s
        BY <1>18, <3>3, <4>1, <4>2
      <4> QED
        BY <4>2, <4>3
    <3>7. 1 \in DOMAIN pruned[s].candidates
      BY <1>8, <3>3, <3>4, QueueOf DEF IsOwned
    <3>8. \/ pruned[s].candidates[1].item \in alive'
          \/ pruned[s].candidates[1].item = NoItem /\ alive' # Items
      BY <1>13, <1>14, <3>3, <3>7
    <3>9. pruned[s] \in TouchInfo /\ pruned[s].id = id
      BY <1>8, <3>3
    <3>10. Column(Told(v, events'), pruned[s].id)
             \in Ownership!Outcomes(Column(v, pruned[s].id))
      BY <1>5, <1>13, <3>4, <3>5, <3>6, <3>8, <3>9, Answered
    <3> QED
      BY <1>1, <2>1, <3>9, <3>10
  <2> QED
    BY <2>2, <2>3
<1> QED
  BY <1>1, <1>15, <1>17, <1>19, <1>20

-----------------------------------------------------------------------------
(* Steps that decide nothing.                                              *)

\* Queues and beliefs stay as they are, or an info is freed.
LEMMA QuietStep ==
    ASSUME TypeOK, LivingInv, ArrivalInv,
           view' = view, alive' = alive, arrivals' = arrivals,
           \A s \in Slots : \/ slots'[s] = EmptyInfo
                            \/ /\ slots'[s].id = slots[s].id
                               /\ slots'[s].candidates = slots[s].candidates,
           \A s \in Slots : Current(s)' => Current(s)
    PROVE  LivingInv' /\ ArrivalInv'
<1>1. ASSUME NEW s \in Slots
      PROVE  Living(slots[s])'
  <2>1. CASE slots'[s] = EmptyInfo
    BY <2>1 DEF Living, EmptyInfo
  <2>2. CASE slots'[s].candidates = slots[s].candidates
    BY <2>2 DEF LivingInv, Living
  <2> QED
    BY <2>1, <2>2
<1>2. ASSUME NEW s \in Slots, Current(s)'
      PROVE  /\ Current(s) /\ slots'[s].id = slots[s].id
             /\ slots'[s].candidates = slots[s].candidates
  BY <1>2 DEF Current, InUse, EmptyInfo
<1>3. ASSUME NEW s \in Slots, Current(s)', ~IsOwned(slots'[s]), alive' = Items
      PROVE  AsAsked(view', slots'[s])
  <2>1. ~IsOwned(slots[s])
    BY <1>2, <1>3 DEF IsOwned
  <2> QED
    BY <1>2, <1>3, <2>1 DEF LivingInv, AsAsked
<1>4. ASSUME NEW s \in Slots, Current(s)'
      PROVE  InOrder(arrivals'[slots'[s].id], slots'[s])
  BY <1>2, <1>4 DEF ArrivalInv, InOrder
<1> QED
  BY <1>1, <1>3, <1>4 DEF LivingInv, ArrivalInv

\* Nobody has come to the touch that lands.
LEMMA PressProceeds ==
    ASSUME TypeOK, PoolInv, LivingInv, ArrivalInv, NEW id \in TouchIds, PressTouch(id)
    PROVE  /\ LivingInv' /\ ArrivalInv' /\ GainsInOrder /\ Ownership!Land(id)
<1>1. PICK s \in Slots :
        IsEmptySlot(s) /\ slots' = [slots EXCEPT ![s] = NewInfo(id)]
  BY DEF PressTouch
<1>2. /\ NewInfo(id).id = id /\ NewInfo(id).candidates = <<>>
      /\ slots'[s] = NewInfo(id)
      /\ \A t \in Slots : t # s => slots'[t] = slots[t]
  BY <1>1 DEF NewInfo, EmptyInfo, TypeOK
<1>3. /\ offered = {} /\ offered' = {id} /\ alive' = alive /\ events' = {}
      /\ view' = [i \in Items |-> [view[i] EXCEPT ![id] = "None"]]
      /\ arrivals' = [arrivals EXCEPT ![id] = <<>>]
      /\ \A t \in Slots : slots[t].id = id => Ended(slots[t])
  BY DEF PressTouch, Idle
<1>4. /\ \A i \in Items : view'[i][id] = "None"
      /\ \A i \in Items, other \in TouchIds : other # id => view'[i][other] = view[i][other]
      /\ arrivals'[id] = <<>>
      /\ \A other \in TouchIds : other # id => arrivals'[other] = arrivals[other]
  BY <1>3 DEF TypeOK
<1>5. ASSUME NEW t \in Slots, t # s, Current(t)'
      PROVE  /\ Current(t) /\ slots'[t] = slots[t] /\ slots[t].id # id
             /\ slots[t].id \in TouchIds
  <2>1. slots'[t] = slots[t] /\ InUse(t)
    BY <1>2, <1>5 DEF Current, InUse
  <2>2. slots[t].id # id
    BY <1>3, <1>5, <2>1 DEF Current, Stale, InUse, Ended
  <2> QED
    BY <1>3, <2>1, <2>2 DEF Current, Stale, InUse, TypeOK, TouchInfo
<1>6. ASSUME NEW t \in Slots
      PROVE  Living(slots[t])'
  <2>1. CASE t = s
    BY <1>2, <2>1 DEF Living
  <2>2. CASE t # s
    BY <1>2, <1>3, <2>2 DEF LivingInv, Living
  <2> QED
    BY <2>1, <2>2
<1>7. ASSUME NEW t \in Slots, Current(t)', ~IsOwned(slots'[t]), alive' = Items
      PROVE  AsAsked(view', slots'[t])
  <2>1. CASE t = s
    BY <1>2, <2>1 DEF AsAsked
  <2>2. CASE t # s
    <3>1. AsAsked(view, slots[t]) /\ slots'[t] = slots[t]
      BY <1>3, <1>5, <1>7, <2>2 DEF LivingInv
    <3>2. \A k \in DOMAIN slots[t].candidates : slots[t].candidates[k].item \in Items
      BY <1>3, <1>7 DEF LivingInv, Living
    <3> QED
      BY <1>4, <1>5, <1>7, <2>2, <3>1, <3>2 DEF AsAsked
  <2> QED
    BY <2>1, <2>2
<1>8. ASSUME NEW t \in Slots, Current(t)'
      PROVE  InOrder(arrivals'[slots'[t].id], slots'[t])
  <2>1. CASE t = s
    BY <1>2, <2>1 DEF InOrder
  <2>2. CASE t # s
    BY <1>4, <1>5, <1>8, <2>2 DEF ArrivalInv
  <2> QED
    BY <2>1, <2>2
<1>9. ASSUME NEW other \in TouchIds, NEW m \in DOMAIN arrivals'[other],
             NEW n \in DOMAIN arrivals'[other], arrivals'[other][m] = arrivals'[other][n]
      PROVE  m = n
  <2>1. CASE other = id
    BY <1>4, <1>9, <2>1
  <2>2. CASE other # id
    BY <1>4, <1>9, <2>2 DEF ArrivalInv
  <2> QED
    BY <2>1, <2>2
<1>10. /\ Column(view', id) = [i \in Items |-> "none"]
       /\ \A other \in TouchIds : other # id => Column(view', other) = Column(view, other)
  BY <1>4, Beliefs DEF Column
<1>11. Ownership!Land(id)
  <2> DEFINE old == [x \in TouchIds |-> Column(view, x)]
             new == [x \in TouchIds |-> Column(view', x)]
  <2>1. new = [old EXCEPT ![id] = [i \in Items |-> "none"]]
    BY <1>10
  <2>2. /\ old = [x \in TouchIds |-> [j \in Items |-> BeliefOf(view[j][x])]]
        /\ new = [x \in TouchIds |-> [j \in Items |-> BeliefOf(view'[j][x])]]
    BY DEF Column
  <2> HIDE DEF old, new
  <2> QED
    BY <1>3, <2>1, <2>2 DEF Ownership!Land
<1> QED
  BY <1>3, <1>6, <1>7, <1>8, <1>9, <1>11 DEF LivingInv, ArrivalInv, GainsInOrder

-----------------------------------------------------------------------------
(* Every step, and what it is for TouchOwnership.                          *)

LEMMA BecomesProceeded ==
    ASSUME NEW i \in Items, NEW id \in TouchIds, NEW from, NEW to,
           Proceeds(i, id, to), Column(view, id)[i] \in from
    PROVE  Ownership!Becomes(i, id, from, to)
<1> DEFINE old == [x \in TouchIds |-> Column(view, x)]
           new == [x \in TouchIds |-> Column(view', x)]
<1>1. /\ Column(view', id) \in Ownership!Outcomes([old[id] EXCEPT ![i] = to])
      /\ new = [old EXCEPT ![id] = Column(view', id)]
      /\ old[id][i] \in from
  BY DEF Proceeds
<1>2. /\ old = [x \in TouchIds |-> [j \in Items |-> BeliefOf(view[j][x])]]
      /\ new = [x \in TouchIds |-> [j \in Items |-> BeliefOf(view'[j][x])]]
  BY DEF Column
<1> HIDE DEF old, new
<1>3. \E b \in Ownership!Outcomes([old[id] EXCEPT ![i] = to]) : new = [old EXCEPT ![id] = b]
  BY <1>1
<1> QED
  BY <1>1, <1>2, <1>3 DEF Ownership!Becomes

\* A candidate that runs out of time a second time was told already.
LEMMA RejectImplements ==
    ASSUME NEW i \in Items, NEW id \in TouchIds, alive' = alive,
           view[i][id] \in {"Undecided", "Lost"}, Proceeds(i, id, "lost")
    PROVE  Ownership!TimeOut(i, id) \/ Ownership!Reopen(id)
<1>1. CASE view[i][id] = "Undecided"
  <2>1. Column(view, id)[i] \in {"waiting"}
    BY <1>1, Beliefs DEF Column
  <2> QED
    BY <2>1, BecomesProceeded DEF Ownership!TimeOut
<1>2. CASE view[i][id] = "Lost"
  <2> DEFINE old == [x \in TouchIds |-> Column(view, x)]
             new == [x \in TouchIds |-> Column(view', x)]
  <2>1. [Column(view, id) EXCEPT ![i] = "lost"] = Column(view, id)
    BY <1>2, Beliefs DEF Column
  <2>2. /\ Column(view', id) \in Ownership!Outcomes(old[id])
        /\ new = [old EXCEPT ![id] = Column(view', id)]
    BY <2>1 DEF Proceeds
  <2>3. /\ old = [x \in TouchIds |-> [j \in Items |-> BeliefOf(view[j][x])]]
        /\ new = [x \in TouchIds |-> [j \in Items |-> BeliefOf(view'[j][x])]]
    BY DEF Column
  <2> HIDE DEF old, new
  <2>4. \E b \in Ownership!Outcomes(old[id]) : new = [old EXCEPT ![id] = b]
    BY <2>2
  <2> QED
    BY <2>3, <2>4 DEF Ownership!Reopen
<1> QED
  BY <1>1, <1>2

\* A step keeps the invariants, lets nobody gain out of turn, and is one of
\* TouchOwnership.
StepProceeds ==
    LivingInv' /\ ArrivalInv' /\ GainsInOrder /\ [Ownership!OwnershipNext]_(Ownership!ownershipVars)

LEMMA EveryStepProceeds ==
    ASSUME TypeOK, PoolInv, OwnershipInv, LivingInv, ArrivalInv, Next
    PROVE  StepProceeds
<1>0. TypeOK' /\ OwnershipInv'
  BY TypeInductive, OwnershipInductive
<1>1. ASSUME NEW id \in TouchIds, PressTouch(id)
      PROVE  StepProceeds
  BY <1>1, PressProceeds DEF StepProceeds, Ownership!OwnershipNext
<1>2. ASSUME view' = view, alive' = alive, arrivals' = arrivals,
             \A e \in events' : e.kind # "gained",
             \A s \in Slots : \/ slots'[s] = EmptyInfo
                              \/ /\ slots'[s].id = slots[s].id
                                 /\ slots'[s].candidates = slots[s].candidates,
             \A s \in Slots : Current(s)' => Current(s)
      PROVE  StepProceeds
  <2>1. LivingInv' /\ ArrivalInv'
    BY <1>2, QuietStep
  <2>2. GainsInOrder
    BY <1>2 DEF GainsInOrder
  <2>3. UNCHANGED Ownership!ownershipVars
    BY <1>2 DEF Ownership!ownershipVars
  <2> QED
    BY <2>1, <2>2, <2>3 DEF StepProceeds
<1>3. ASSUME NEW released \in SUBSET TouchIds, UpdateTouches(released)
      PROVE  StepProceeds
  <2>1. \A s \in Slots : /\ slots'[s].id = slots[s].id
                         /\ slots'[s].candidates = slots[s].candidates
    BY <1>3, EndedPhysicallyProperties DEF UpdateTouches, TypeOK
  <2>2. /\ offered = {} /\ offered' = {} /\ view' = view /\ alive' = alive
        /\ arrivals' = arrivals /\ events' = {}
    BY <1>3 DEF UpdateTouches, Idle
  <2>3. \A s \in Slots : Current(s)' => Current(s)
    BY <2>1, <2>2 DEF Current, Stale, InUse
  <2> QED
    BY <1>2, <2>1, <2>2, <2>3
<1>4. ASSUME NEW i \in Items, DispatchPointsToItem(i)
      PROVE  StepProceeds
  <2>1. /\ slots' = slots /\ offered' = offered /\ view' = view /\ alive' = alive
        /\ arrivals' = arrivals /\ \A e \in events' : e.kind # "gained"
    BY <1>4 DEF DispatchPointsToItem, EventTo
  <2>2. \A s \in Slots : Current(s)' => Current(s)
    BY <2>1 DEF Current, Stale, InUse
  <2> QED
    BY <1>2, <2>1, <2>2
<1>5. CASE EndUpdate
  <2>1. /\ offered' = offered /\ view' = view /\ alive' = alive
        /\ arrivals' = arrivals /\ events' = {}
        /\ \A s \in Slots : slots'[s] = EmptyInfo \/ slots'[s] = slots[s]
    BY <1>5 DEF EndUpdate, SetSlots
  <2>2. \A s \in Slots : Current(s)' => Current(s)
    BY <2>1 DEF Current, Stale, InUse, EmptyInfo
  <2> QED
    BY <1>2, <2>1, <2>2
<1>6. CASE PressDelivered
  <2>1. /\ ~inDispatchLoop /\ slots' = slots /\ offered' = {} /\ view' = view
        /\ alive' = alive /\ arrivals' = arrivals /\ events' = {}
    BY <1>6 DEF PressDelivered, registryVars
  <2>2. \A s \in Slots : Current(s)' => Current(s)
    BY <2>1 DEF PoolInv, Current, Stale, InUse
  <2> QED
    BY <1>2, <2>1, <2>2
<1>7. ASSUME NEW i \in Items, NEW id \in TouchIds, AddTouchWatcher(i, id)
      PROVE  StepProceeds
  <2>1. \A s \in Slots : /\ slots'[s].id = slots[s].id
                         /\ slots'[s].physicallyEnded = slots[s].physicallyEnded
                         /\ slots'[s].candidates = slots[s].candidates
    BY <1>7, MarkProperties DEF AddTouchWatcher, TypeOK
  <2>2. /\ offered' = offered /\ view' = view /\ alive' = alive
        /\ arrivals' = arrivals /\ events' = {}
    BY <1>7 DEF AddTouchWatcher
  <2>3. \A s \in Slots : Current(s)' => Current(s)
    BY <2>1, <2>2 DEF Current, Stale, InUse
  <2> QED
    BY <1>2, <2>1, <2>2, <2>3
<1>8. ASSUME NEW i \in Items, NEW id \in TouchIds, AddCandidateOwnerForTouch(i, id)
      PROVE  StepProceeds
  <2>1. view[i][id] = "None" /\ Proceeds(i, id, "waiting") /\ alive' = alive
    BY <1>0, <1>8, AddProceeds DEF AddCandidateOwnerForTouch
  <2>2. Column(view, id)[i] \in {"none"}
    BY <2>1, Beliefs DEF Column
  <2>3. Ownership!Come(i, id)
    BY <2>1, <2>2, BecomesProceeded DEF Ownership!Come
  <2> QED
    BY <2>1, <2>3 DEF StepProceeds, Proceeds, Ownership!OwnershipNext
<1>9. ASSUME NEW i \in Items, NEW id \in TouchIds, RequestOwnershipOnPress(i, id)
      PROVE  StepProceeds
  <2>1. view[i][id] = "None" /\ Proceeds(i, id, "asked") /\ alive' = alive
    BY <1>0, <1>9, OnPressProceeds DEF RequestOwnershipOnPress
  <2>2. Column(view, id)[i] \in {"none", "waiting"}
    BY <2>1, Beliefs DEF Column
  <2>3. Ownership!Ask(i, id)
    BY <2>1, <2>2, BecomesProceeded DEF Ownership!Ask
  <2> QED
    BY <2>1, <2>3 DEF StepProceeds, Proceeds, Ownership!OwnershipNext
<1>10. ASSUME NEW i \in Items, NEW id \in TouchIds, RequestTouchOwnership(i, id)
       PROVE  StepProceeds
  <2>1. view[i][id] = "Undecided" /\ Proceeds(i, id, "asked") /\ alive' = alive
    BY <1>0, <1>10, RequestProceeds DEF RequestTouchOwnership
  <2>2. Column(view, id)[i] \in {"none", "waiting"}
    BY <2>1, Beliefs DEF Column
  <2>3. Ownership!Ask(i, id)
    BY <2>1, <2>2, BecomesProceeded DEF Ownership!Ask
  <2> QED
    BY <2>1, <2>3 DEF StepProceeds, Proceeds, Ownership!OwnershipNext
<1>11. ASSUME NEW i \in Items, NEW id \in TouchIds, RemoveCandidateOwnerForTouch(i, id)
       PROVE  StepProceeds
  <2>1. Waiting(i, id) /\ Proceeds(i, id, "none") /\ alive' = alive
    BY <1>0, <1>11, RemoveProceeds DEF RemoveCandidateOwnerForTouch
  <2>2. Column(view, id)[i] \in {"waiting", "asked"}
    BY <2>1, Beliefs DEF Column, Waiting, CandidateStates
  <2>3. Ownership!GiveUp(i, id)
    BY <2>1, <2>2, BecomesProceeded DEF Ownership!GiveUp
  <2> QED
    BY <2>1, <2>3 DEF StepProceeds, Proceeds, Ownership!OwnershipNext
<1>12. ASSUME NEW i \in Items, NEW id \in TouchIds, RejectCandidateOwnerForTouch(i, id)
       PROVE  StepProceeds
  <2>1. /\ view[i][id] \in {"Undecided", "Lost"} /\ Proceeds(i, id, "lost")
        /\ alive' = alive
    BY <1>0, <1>12, RejectProceeds DEF RejectCandidateOwnerForTouch
  <2>2. Ownership!TimeOut(i, id) \/ Ownership!Reopen(id)
    BY <2>1, RejectImplements
  <2> QED
    BY <2>1, <2>2 DEF StepProceeds, Proceeds, Ownership!OwnershipNext
<1>13. ASSUME NEW i \in Items, DestroyItem(i)
       PROVE  StepProceeds
  <2> DEFINE old == [x \in TouchIds |-> Column(view, x)]
             new == [x \in TouchIds |-> Column(view', x)]
  <2>1. /\ LivingInv' /\ ArrivalInv' /\ GainsInOrder
        /\ i \in alive /\ alive' = alive \ {i}
        /\ \A id \in TouchIds : Column(view', id)
               \in Ownership!Outcomes([Column(view, id) EXCEPT ![i] = "none"])
    BY <1>0, <1>13, DestroyProceeds
  <2>2. /\ \A id \in TouchIds : new[id] \in Ownership!Outcomes([old[id] EXCEPT ![i] = "none"])
        /\ old = [x \in TouchIds |-> [j \in Items |-> BeliefOf(view[j][x])]]
        /\ new = [x \in TouchIds |-> [j \in Items |-> BeliefOf(view'[j][x])]]
    BY <2>1 DEF Column
  <2>3. new \in [TouchIds -> [Items -> Ownership!Beliefs]]
    <3>1. ASSUME NEW x \in TouchIds, NEW j \in Items
          PROVE  BeliefOf(view'[j][x]) \in Ownership!Beliefs
      <4>1. view'[j][x] \in Views
        BY <1>0 DEF TypeOK
      <4> QED
        BY <4>1, Beliefs DEF Views, CandidateStates, Ownership!Beliefs
    <3> QED
      BY <3>1 DEF Column
  <2> HIDE DEF old, new
  <2>4. Ownership!Leave(i)
    BY <2>1, <2>2, <2>3 DEF Ownership!Leave
  <2> QED
    BY <2>1, <2>4 DEF StepProceeds, Ownership!OwnershipNext
<1> QED
  BY <1>1, <1>3, <1>4, <1>5, <1>6, <1>7, <1>8, <1>9, <1>10, <1>11, <1>12, <1>13 DEF Next

LEMMA LivingArrivalInductive ==
    ASSUME TypeOK, PoolInv, OwnershipInv, LivingInv, ArrivalInv, [Next]_vars
    PROVE  (LivingInv /\ ArrivalInv)'
<1>1. CASE Next
  BY <1>1, EveryStepProceeds DEF StepProceeds
<1>2. CASE UNCHANGED vars
  <2>1. /\ slots' = slots /\ offered' = offered /\ view' = view /\ alive' = alive
        /\ arrivals' = arrivals
    BY <1>2 DEF vars, registryVars, worldVars
  <2>2. \A s \in Slots : Current(s)' => Current(s)
    BY <2>1 DEF Current, Stale, InUse
  <2> QED
    BY <2>1, <2>2, QuietStep
<1> QED
  BY <1>1, <1>2

-----------------------------------------------------------------------------
(* What the registry promises.                                             *)

\* The queue of a touch holds living items, and dead ones only once an item has been
\* destroyed; it keeps the order in which they came; and while nobody has been destroyed
\* everybody in the queue of an unowned touch believes what he asked for.
THEOREM QueuesKeepTheirOrder == Spec => [](LivingInv /\ ArrivalInv)
<1>1. Init => LivingInv /\ ArrivalInv
  BY DEF Init, LivingInv, ArrivalInv, Living, Current, InUse, EmptyInfo
<1>2. TypeOK /\ PoolInv /\ OwnershipInv /\ LivingInv /\ ArrivalInv /\ [Next]_vars
        => (LivingInv /\ ArrivalInv)'
  BY LivingArrivalInductive
<1> QED
  BY <1>1, <1>2, OwnershipInvariant, TypeCorrect, PTL DEF Spec

\* The first to come takes precedence: an item gains a touch only when no item that came
\* to the touch before it is left as a candidate (TouchRegistry.h:60).
THEOREM FirstComesFirst == Spec => ArrivalOrder
<1>1. TypeOK /\ PoolInv /\ OwnershipInv /\ LivingInv /\ ArrivalInv /\ [Next]_vars
        => [GainsInOrder]_vars
  BY EveryStepProceeds DEF StepProceeds
<1>2. [][GainsInOrder]_vars => ArrivalOrder
  BY DEF ArrivalOrder, GainsInOrder
<1> QED
  BY <1>1, <1>2, QueuesKeepTheirOrder, OwnershipInvariant, TypeCorrect, PTL DEF Spec

\* Every step of the registry is one of TouchOwnership, or none: the step that leaves a
\* touch to whoever asked for it makes that one the owner and tells all others that they
\* lost it, whatever the order of calls, timeouts, removals and destructions.
THEOREM StepsImplementOwnership == Spec => Ownership!OwnershipSteps
<1>1. Init => Ownership!OwnershipInit
  <2>1. SUFFICES ASSUME Init PROVE Ownership!OwnershipInit
    OBVIOUS
  <2>2. alive = Items /\ \A i \in Items, id \in TouchIds : view[i][id] = "None"
    <3>1. alive = Items /\ view = [i \in Items |-> [id \in TouchIds |-> "None"]]
      BY <2>1 DEF Init
    <3> QED
      BY <3>1
  <2> QED
    BY <2>2, Beliefs DEF Ownership!OwnershipInit
<1>2. TypeOK /\ PoolInv /\ OwnershipInv /\ LivingInv /\ ArrivalInv /\ [Next]_vars
        => [Ownership!OwnershipNext]_(Ownership!ownershipVars)
  <2>1. CASE Next
    BY <2>1, EveryStepProceeds DEF StepProceeds
  <2>2. CASE UNCHANGED vars
    BY <2>2 DEF vars, worldVars, Ownership!ownershipVars
  <2> QED
    BY <2>1, <2>2
<1> QED
  BY <1>1, <1>2, QueuesKeepTheirOrder, OwnershipInvariant, TypeCorrect, PTL
  DEF Spec, Ownership!OwnershipSteps

=============================================================================
