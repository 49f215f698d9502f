--------------------------- MODULE TouchGateProofs ---------------------------
(***************************************************************************)
(* Theorems about the touch gate, for any number of touches and of stored  *)
(* events: what it passes on is the gate's, in the order it came, nothing  *)
(* is left out, and the target sees a stream of touches.                   *)
(***************************************************************************)
EXTENDS TouchGate, SelectionProofs

USE NoTouchAssumption, MaxStoredAssumption

-----------------------------------------------------------------------------
(* Touch events.                                                           *)

LEMMA TouchEventDomain ==
    ASSUME NEW e \in TouchEvents
    PROVE  /\ DOMAIN e \subseteq TouchIds /\ DOMAIN e # {}
           /\ \A id \in DOMAIN e : e[id] \in States
           /\ In(e, "Pressed") \subseteq DOMAIN e
           /\ In(e, "Released") \subseteq DOMAIN e
           /\ In(e, "Pressed") \cap In(e, "Released") = {}
<1>1. PICK ids \in (SUBSET TouchIds) \ {{}} : e \in [ids -> States]
  BY DEF TouchEvents
<1>2. DOMAIN e = ids
  BY <1>1
<1>3. \A id \in DOMAIN e : e[id] \in States
  BY <1>1
<1> QED
  BY <1>2, <1>3 DEF In

LEMMA TouchEventType ==
    ASSUME NEW ids \in SUBSET TouchIds, ids # {}, NEW e \in [ids -> States]
    PROVE  e \in TouchEvents
<1> DEFINE F(i) == [i -> States]
<1>1. e \in F(ids) /\ ids \in (SUBSET TouchIds) \ {{}}
  OBVIOUS
<1> HIDE DEF F
<1>2. e \in UNION {F(i) : i \in (SUBSET TouchIds) \ {{}}}
  BY <1>1
<1> QED
  BY <1>2 DEF TouchEvents, F

\* What a touch event says of the touches that are kept of it.
LEMMA OnlySome ==
    ASSUME NEW e \in TouchEvents, NEW ids
    PROVE  /\ DOMAIN Only(e, ids) = DOMAIN e \cap ids
           /\ \A id \in DOMAIN e \cap ids : Only(e, ids)[id] = e[id]
           /\ DOMAIN e \cap ids # {} => Only(e, ids) \in TouchEvents
           /\ In(Only(e, ids), "Pressed") = In(e, "Pressed") \cap ids
           /\ In(Only(e, ids), "Released") = In(e, "Released") \cap ids
<1>1. /\ DOMAIN e \subseteq TouchIds
      /\ \A id \in DOMAIN e : e[id] \in States
  BY TouchEventDomain
<1>2. /\ DOMAIN Only(e, ids) = DOMAIN e \cap ids
      /\ \A id \in DOMAIN e \cap ids : Only(e, ids)[id] = e[id]
  BY DEF Only
<1>3. Only(e, ids) \in [DOMAIN e \cap ids -> States]
  BY <1>1 DEF Only
<1>4. DOMAIN e \cap ids # {} => Only(e, ids) \in TouchEvents
  BY <1>1, <1>3, TouchEventType
<1> QED
  BY <1>2, <1>4 DEF In

-----------------------------------------------------------------------------
(* StoredGoOn, for stored events s after those that have left the touches  *)
(* in going, with the touches in known in the map and those in on on the   *)
(* screen.                                                                 *)

BegunIn(s, going, id, k) ==
    id \in going \/ \E j \in DOMAIN s : j < k /\ id \in In(s[j], "Pressed")
EndedIn(s, id, k) ==
    \E j \in DOMAIN s : j < k /\ id \in In(s[j], "Released")

GoesOn(s, going, known, on) ==
    /\ \A k \in DOMAIN s : \A id \in TouchIds :
          /\ id \in DOMAIN s[k] => id \in known
          /\ id \in In(s[k], "Pressed") => ~BegunIn(s, going, id, k)
          /\ id \in DOMAIN s[k] \ In(s[k], "Pressed")
                <=> BegunIn(s, going, id, k) /\ ~EndedIn(s, id, k)
    /\ \A id \in known :
          /\ BegunIn(s, going, id, Len(s) + 1)
          /\ id \in on <=> ~EndedIn(s, id, Len(s) + 1)

LEMMA NothingStored ==
    ASSUME NEW going, NEW known, NEW on
    PROVE  GoesOn(<<>>, going, known, on) <=> known \subseteq going \cap on
<1>1. DOMAIN <<>> = {}
  OBVIOUS
<1> QED
  BY <1>1 DEF GoesOn, BegunIn, EndedIn

\* An event arrives and is stored.
LEMMA OneMoreStored ==
    ASSUME NEW s \in Seq(TouchEvents), NEW going \in SUBSET TouchIds,
           NEW known \in SUBSET TouchIds, NEW on, going \subseteq known,
           GoesOn(s, going, known, on),
           NEW landed \in SUBSET TouchIds, landed \cap (on \cup known) = {},
           NEW released \in SUBSET on,
           NEW e \in TouchEvents, DOMAIN e = landed \cup (on \cap known),
           In(e, "Pressed") = landed, In(e, "Released") = released \cap known
    PROVE  GoesOn(Append(s, e), going, known \cup landed, (on \cup landed) \ released)
<1> DEFINE t == Append(s, e)
           n == Len(s)
<1>1. /\ n \in Nat /\ DOMAIN s = 1..n /\ DOMAIN t = 1..(n + 1) /\ Len(t) = n + 1
      /\ \A k \in DOMAIN s : t[k] = s[k]
      /\ t[n + 1] = e
  BY SequenceDomain, SequenceAppended
<1>2. \A k \in DOMAIN s : DOMAIN s[k] \subseteq known /\ In(s[k], "Pressed") \subseteq known
                             /\ In(s[k], "Released") \subseteq known
  <2>1. ASSUME NEW k \in DOMAIN s PROVE s[k] \in TouchEvents
    BY SequenceDomain
  <2> QED
    BY <2>1, TouchEventDomain DEF GoesOn
<1> HIDE DEF t, n
<1>3. ASSUME NEW id, NEW k \in 1..(n + 1)
      PROVE  /\ BegunIn(t, going, id, k) <=> BegunIn(s, going, id, k)
             /\ EndedIn(t, id, k) <=> EndedIn(s, id, k)
  BY <1>1, <1>3 DEF BegunIn, EndedIn
<1>4. ASSUME NEW id
      PROVE  /\ BegunIn(t, going, id, n + 2) <=> BegunIn(s, going, id, n + 1) \/ id \in landed
             /\ EndedIn(t, id, n + 2) <=> EndedIn(s, id, n + 1) \/ id \in released \cap known
  BY <1>1, <1>4 DEF BegunIn, EndedIn
<1>5. ASSUME NEW id \in TouchIds, id \notin known
      PROVE  ~BegunIn(s, going, id, n + 1) /\ ~EndedIn(s, id, n + 1)
  BY <1>1, <1>2, <1>5 DEF BegunIn, EndedIn
<1>6. \A id \in known :
          /\ BegunIn(s, going, id, n + 1)
          /\ id \in on <=> ~EndedIn(s, id, n + 1)
  BY DEF GoesOn, n
<1>7. ASSUME NEW k \in DOMAIN t, NEW id \in TouchIds
      PROVE  /\ id \in DOMAIN t[k] => id \in known \cup landed
             /\ id \in In(t[k], "Pressed") => ~BegunIn(t, going, id, k)
             /\ id \in DOMAIN t[k] \ In(t[k], "Pressed")
                   <=> BegunIn(t, going, id, k) /\ ~EndedIn(t, id, k)
  <2>1. CASE k \in DOMAIN s
    BY <1>1, <1>3, <2>1 DEF GoesOn
  <2>2. CASE k = n + 1
    <3>1. t[k] = e
      BY <1>1, <2>2
    <3>2. /\ BegunIn(t, going, id, k) <=> BegunIn(s, going, id, n + 1)
          /\ EndedIn(t, id, k) <=> EndedIn(s, id, n + 1)
      BY <1>1, <1>3, <2>2
    <3>3. /\ id \in DOMAIN t[k] <=> id \in landed \cup (on \cap known)
          /\ id \in In(t[k], "Pressed") <=> id \in landed
      BY <3>1
    <3> QED
      BY <1>5, <1>6, <3>2, <3>3
  <2> QED
    BY <1>1, <2>1, <2>2
<1>8. ASSUME NEW id \in known \cup landed
      PROVE  /\ BegunIn(t, going, id, Len(t) + 1)
             /\ id \in (on \cup landed) \ released <=> ~EndedIn(t, id, Len(t) + 1)
  <2>1. Len(t) + 1 = n + 2
    BY <1>1
  <2> QED
    BY <1>4, <1>5, <1>6, <2>1
<1> QED
  BY <1>7, <1>8 DEF GoesOn, t

\* The oldest stored event is dispatched.
LEMMA OldestDispatched ==
    ASSUME NEW s \in Seq(TouchEvents), s # <<>>, NEW going \in SUBSET TouchIds,
           NEW known \in SUBSET TouchIds, NEW on, going \subseteq known,
           GoesOn(s, going, known, on)
    PROVE  /\ GoesOn(Tail(s), After(going, Head(s)), known \ In(Head(s), "Released"), on)
           /\ DOMAIN Head(s) \ In(Head(s), "Pressed") = going
           /\ In(Head(s), "Pressed") \cap going = {}
           /\ DOMAIN Head(s) \subseteq known
<1> DEFINE t == Tail(s)
           e == Head(s)
           n == Len(s)
           after == After(going, e)
<1>1. /\ n \in Nat /\ n # 0 /\ DOMAIN s = 1..n /\ 1 \in DOMAIN s
      /\ e = s[1] /\ e \in TouchEvents
      /\ t \in Seq(TouchEvents) /\ DOMAIN t = 1..(n - 1) /\ Len(t) = n - 1
      /\ \A k \in DOMAIN t : k + 1 \in DOMAIN s /\ t[k] = s[k + 1]
      /\ \A k \in DOMAIN s : k # 1 => k - 1 \in DOMAIN t /\ t[k - 1] = s[k]
  BY SequenceDomain, SequenceTail, HeadTailProperties
<1>2. /\ In(e, "Pressed") \cap In(e, "Released") = {}
      /\ In(e, "Released") \subseteq DOMAIN e /\ In(e, "Pressed") \subseteq DOMAIN e
      /\ DOMAIN e \subseteq TouchIds
  BY <1>1, TouchEventDomain
<1>3. /\ DOMAIN e \ In(e, "Pressed") = going
      /\ In(e, "Pressed") \cap going = {}
      /\ DOMAIN e \subseteq known
  <2>1. ASSUME NEW id
        PROVE  (BegunIn(s, going, id, 1) <=> id \in going) /\ ~EndedIn(s, id, 1)
    BY <1>1 DEF BegunIn, EndedIn
  <2>2. ASSUME NEW id \in TouchIds
        PROVE  /\ id \in DOMAIN e => id \in known
               /\ id \in In(e, "Pressed") => ~BegunIn(s, going, id, 1)
               /\ id \in DOMAIN e \ In(e, "Pressed")
                     <=> BegunIn(s, going, id, 1) /\ ~EndedIn(s, id, 1)
    BY <1>1 DEF GoesOn
  <2> QED
    BY <1>2, <2>1, <2>2
<1> HIDE DEF t, e, n
<1>4. ASSUME NEW id, NEW k \in Nat \ {0}
      PROVE  /\ id \notin In(e, "Released") =>
                   (BegunIn(t, after, id, k) <=> BegunIn(s, going, id, k + 1))
             /\ EndedIn(s, id, k + 1) <=> EndedIn(t, id, k) \/ id \in In(e, "Released")
  <2>1. (\E j \in DOMAIN s : j < k + 1 /\ id \in In(s[j], "Pressed"))
        <=> \/ id \in In(e, "Pressed")
            \/ \E j \in DOMAIN t : j < k /\ id \in In(t[j], "Pressed")
    BY <1>1
  <2>2. (\E j \in DOMAIN s : j < k + 1 /\ id \in In(s[j], "Released"))
        <=> \/ id \in In(e, "Released")
            \/ \E j \in DOMAIN t : j < k /\ id \in In(t[j], "Released")
    BY <1>1
  <2> QED
    BY <2>1, <2>2 DEF BegunIn, EndedIn, After
<1>5. ASSUME NEW id \in In(e, "Released"), NEW k \in DOMAIN s, k # 1
      PROVE  id \notin DOMAIN s[k]
  <2>1. id \in going /\ id \in TouchIds
    BY <1>2, <1>3
  <2>2. BegunIn(s, going, id, k) /\ EndedIn(s, id, k)
    <3>1. 1 < k /\ id \in In(s[1], "Released")
      BY <1>1, <1>5
    <3> QED
      BY <1>1, <2>1, <3>1 DEF BegunIn, EndedIn
  <2>3. s[k] \in TouchEvents
    BY SequenceDomain
  <2> QED
    BY <2>1, <2>2, <2>3, TouchEventDomain DEF GoesOn
<1>6. ASSUME NEW k \in DOMAIN t, NEW id \in TouchIds
      PROVE  /\ id \in DOMAIN t[k] => id \in known \ In(e, "Released")
             /\ id \in In(t[k], "Pressed") => ~BegunIn(t, after, id, k)
             /\ id \in DOMAIN t[k] \ In(t[k], "Pressed")
                   <=> BegunIn(t, after, id, k) /\ ~EndedIn(t, id, k)
  <2>1. /\ k \in Nat \ {0} /\ k + 1 \in DOMAIN s /\ k + 1 # 1
        /\ t[k] = s[k + 1] /\ t[k] \in TouchEvents
    BY <1>1
  <2>2. /\ id \in DOMAIN t[k] => id \in known
        /\ id \in In(t[k], "Pressed") => ~BegunIn(s, going, id, k + 1)
        /\ id \in DOMAIN t[k] \ In(t[k], "Pressed")
              <=> BegunIn(s, going, id, k + 1) /\ ~EndedIn(s, id, k + 1)
    BY <2>1 DEF GoesOn
  <2>3. In(t[k], "Pressed") \subseteq DOMAIN t[k]
    BY <2>1, TouchEventDomain
  <2>4. CASE id \in In(e, "Released")
    <3>1. id \notin DOMAIN t[k]
      BY <1>5, <2>1, <2>4
    <3>2. ~BegunIn(t, after, id, k)
      <4>1. id \notin after
        BY <2>4 DEF After
      <4>2. ASSUME NEW j \in DOMAIN t PROVE id \notin In(t[j], "Pressed")
        <5>1. j + 1 \in DOMAIN s /\ j + 1 # 1 /\ t[j] = s[j + 1] /\ t[j] \in TouchEvents
          BY <1>1
        <5> QED
          BY <1>5, <2>4, <5>1, TouchEventDomain
      <4> QED
        BY <4>1, <4>2 DEF BegunIn
    <3> QED
      BY <2>3, <3>1, <3>2
  <2>5. CASE id \notin In(e, "Released")
    BY <1>4, <2>1, <2>2, <2>5
  <2> QED
    BY <2>4, <2>5
<1>7. ASSUME NEW id \in known \ In(e, "Released")
      PROVE  /\ BegunIn(t, after, id, Len(t) + 1)
             /\ id \in on <=> ~EndedIn(t, id, Len(t) + 1)
  <2>1. Len(t) + 1 = n /\ n \in Nat \ {0}
    BY <1>1
  <2>2. BegunIn(s, going, id, n + 1) /\ (id \in on <=> ~EndedIn(s, id, n + 1))
    BY DEF GoesOn, n
  <2> QED
    BY <1>4, <2>1, <2>2
<1> QED
  BY <1>3, <1>6, <1>7 DEF GoesOn, t, e

\* A touch is lost, and removed from the stored events.
LEMMA LostTouchRemoved ==
    ASSUME NEW s \in Seq(TouchEvents), NEW going, NEW known, NEW on,
           GoesOn(s, going, known, on), NEW id, id \notin going
    PROVE  LET u == [k \in DOMAIN s |-> Only(s[k], TouchIds \ {id})]
               r == Kept(u, {k \in DOMAIN s : DOMAIN s[k] # {id}})
           IN  r \in Seq(TouchEvents) /\ GoesOn(r, going, known \ {id}, on)
<1> DEFINE ids == TouchIds \ {id}
           u == [k \in DOMAIN s |-> Only(s[k], ids)]
           K == {k \in DOMAIN s : DOMAIN s[k] # {id}}
           r == Kept(u, K)
           A == TouchEvents \cup {Only(e, ids) : e \in TouchEvents}
           n == Len(s)
<1>1. n \in Nat /\ DOMAIN s = 1..n /\ \A k \in DOMAIN s : s[k] \in TouchEvents
  BY SequenceDomain
<1>2. ASSUME NEW k \in DOMAIN s
      PROVE  /\ u[k] \in A
             /\ DOMAIN u[k] = DOMAIN s[k] \ {id}
             /\ In(u[k], "Pressed") = In(s[k], "Pressed") \ {id}
             /\ In(u[k], "Released") = In(s[k], "Released") \ {id}
             /\ In(s[k], "Pressed") \subseteq DOMAIN s[k]
             /\ In(s[k], "Released") \subseteq DOMAIN s[k]
             /\ k \in K => u[k] \in TouchEvents
  <2>1. s[k] \in TouchEvents /\ u[k] = Only(s[k], ids)
    BY <1>1
  <2>2. /\ DOMAIN s[k] \subseteq TouchIds /\ DOMAIN s[k] # {}
        /\ In(s[k], "Pressed") \subseteq DOMAIN s[k]
        /\ In(s[k], "Released") \subseteq DOMAIN s[k]
    BY <2>1, TouchEventDomain
  <2>3. /\ DOMAIN u[k] = DOMAIN s[k] \cap ids
        /\ DOMAIN s[k] \cap ids # {} => u[k] \in TouchEvents
        /\ In(u[k], "Pressed") = In(s[k], "Pressed") \cap ids
        /\ In(u[k], "Released") = In(s[k], "Released") \cap ids
    BY <2>1, OnlySome
  <2>4. k \in K => DOMAIN s[k] \cap ids # {}
    BY <2>2
  <2> QED
    BY <2>1, <2>2, <2>3, <2>4
<1>3. u \in Seq(A)
  BY <1>1, <1>2
<1> HIDE DEF u, K, A, n, ids
<1>4. /\ r \in Seq(A)
      /\ \E g : Selects(g, r, u, K)
  BY <1>3, KeptSelects
<1>5. PICK g : Selects(g, r, u, K)
  BY <1>4
<1>6. DOMAIN u = DOMAIN s /\ K \subseteq DOMAIN s
  BY DEF u, K
<1>7. Len(r) \in Nat /\ DOMAIN r = 1..Len(r)
  BY <1>4, SequenceDomain
<1> HIDE DEF r
<1>8. ASSUME NEW k \in DOMAIN r
      PROVE  /\ g[k] \in DOMAIN s /\ g[k] \in K /\ r[k] = u[g[k]]
             /\ r[k] \in TouchEvents
             /\ DOMAIN r[k] = DOMAIN s[g[k]] \ {id}
             /\ In(r[k], "Pressed") = In(s[g[k]], "Pressed") \ {id}
             /\ In(r[k], "Released") = In(s[g[k]], "Released") \ {id}
  <2>1. g[k] \in DOMAIN s /\ g[k] \in K /\ r[k] = u[g[k]]
    BY <1>5, <1>6 DEF Selects
  <2> QED
    BY <1>2, <2>1
<1>9. r \in Seq(TouchEvents)
  <2>1. PICK f \in [1..Len(r) -> A] : f = r
    BY <1>4, <1>7
  <2>2. r \in [1..Len(r) -> TouchEvents]
    BY <1>7, <1>8, <2>1
  <2> QED
    BY <1>7, <2>2
<1> DEFINE at(k) == IF k \in DOMAIN r THEN g[k] ELSE n + 1
<1>10. ASSUME NEW k \in 1..(Len(r) + 1), NEW j \in DOMAIN r
       PROVE  j < k <=> g[j] < at(k)
  <2>1. g[j] \in 1..n
    BY <1>1, <1>8
  <2>2. CASE k \in DOMAIN r
    <3>1. g[k] \in 1..n
      BY <1>1, <1>8, <2>2
    <3>2. (j < k => g[j] < g[k]) /\ (k < j => g[k] < g[j])
      BY <1>5, <2>2 DEF Selects
    <3> QED
      BY <1>1, <1>7, <2>1, <2>2, <3>1, <3>2
  <2>3. CASE k \notin DOMAIN r
    BY <1>1, <1>7, <2>1, <2>3
  <2> QED
    BY <2>2, <2>3
<1>11. ASSUME NEW i \in K PROVE \E j \in DOMAIN r : g[j] = i
  BY <1>5, <1>6 DEF Selects
<1> HIDE DEF at
<1>12. ASSUME NEW x, x # id, NEW k \in 1..(Len(r) + 1)
       PROVE  /\ BegunIn(r, going, x, k) <=> BegunIn(s, going, x, at(k))
              /\ EndedIn(r, x, k) <=> EndedIn(s, x, at(k))
  <2>1. ASSUME NEW j \in DOMAIN s,
               x \in In(s[j], "Pressed") \/ x \in In(s[j], "Released")
        PROVE  j \in K
    BY <1>2, <1>12, <2>1 DEF K
  <2>2. ASSUME NEW j \in DOMAIN r, j < k
        PROVE  /\ g[j] \in DOMAIN s /\ g[j] < at(k)
               /\ In(r[j], "Pressed") \subseteq In(s[g[j]], "Pressed")
               /\ In(r[j], "Released") \subseteq In(s[g[j]], "Released")
    BY <1>8, <1>10, <2>2
  <2>3. ASSUME NEW i \in DOMAIN s, i < at(k),
               x \in In(s[i], "Pressed") \/ x \in In(s[i], "Released")
        PROVE  \E j \in DOMAIN r :
                  /\ j < k
                  /\ x \in In(s[i], "Pressed") => x \in In(r[j], "Pressed")
                  /\ x \in In(s[i], "Released") => x \in In(r[j], "Released")
    <3>1. PICK j \in DOMAIN r : g[j] = i
      BY <1>11, <2>1, <2>3
    <3> QED
      BY <1>8, <1>10, <1>12, <2>3, <3>1
  <2>4. BegunIn(r, going, x, k) <=> BegunIn(s, going, x, at(k))
    BY <2>2, <2>3 DEF BegunIn
  <2>5. EndedIn(r, x, k) <=> EndedIn(s, x, at(k))
    BY <2>2, <2>3 DEF EndedIn
  <2> QED
    BY <2>4, <2>5
<1>13. ASSUME NEW k \in DOMAIN r, NEW x \in TouchIds
       PROVE  /\ x \in DOMAIN r[k] => x \in known \ {id}
              /\ x \in In(r[k], "Pressed") => ~BegunIn(r, going, x, k)
              /\ x \in DOMAIN r[k] \ In(r[k], "Pressed")
                    <=> BegunIn(r, going, x, k) /\ ~EndedIn(r, x, k)
  <2>1. CASE x = id
    <3>1. x \notin DOMAIN r[k] /\ x \notin In(r[k], "Pressed")
      BY <1>8, <2>1
    <3>2. ~BegunIn(r, going, x, k)
      BY <1>8, <2>1 DEF BegunIn
    <3> QED
      BY <3>1, <3>2
  <2>2. CASE x # id
    <3>1. at(k) \in DOMAIN s /\ at(k) = g[k] /\ k \in 1..(Len(r) + 1)
      BY <1>7, <1>8 DEF at
    <3>2. /\ BegunIn(r, going, x, k) <=> BegunIn(s, going, x, g[k])
          /\ EndedIn(r, x, k) <=> EndedIn(s, x, g[k])
      BY <1>12, <2>2, <3>1
    <3>3. /\ x \in DOMAIN s[g[k]] => x \in known
          /\ x \in In(s[g[k]], "Pressed") => ~BegunIn(s, going, x, g[k])
          /\ x \in DOMAIN s[g[k]] \ In(s[g[k]], "Pressed")
                <=> BegunIn(s, going, x, g[k]) /\ ~EndedIn(s, x, g[k])
      BY <3>1 DEF GoesOn
    <3> QED
      BY <1>8, <2>2, <3>2, <3>3
  <2> QED
    BY <2>1, <2>2
<1>14. ASSUME NEW x \in known \ {id}
       PROVE  /\ BegunIn(r, going, x, Len(r) + 1)
              /\ x \in on <=> ~EndedIn(r, x, Len(r) + 1)
  <2>1. at(Len(r) + 1) = n + 1 /\ Len(r) + 1 \in 1..(Len(r) + 1)
    BY <1>7 DEF at
  <2>2. BegunIn(s, going, x, n + 1) /\ (x \in on <=> ~EndedIn(s, x, n + 1))
    BY DEF GoesOn, n
  <2> QED
    BY <1>12, <2>1, <2>2
<1>15. GoesOn(r, going, known \ {id}, on)
  BY <1>13, <1>14 DEF GoesOn
<1> QED
  BY <1>9, <1>15 DEF r, u, K, ids

-----------------------------------------------------------------------------
(* The dispatcher.                                                         *)

StreamGoesOn ==
    sent' # NoEvent =>
        /\ In(sent', "Pressed") \cap seen = {}
        /\ DOMAIN sent' \ In(sent', "Pressed") = seen

\* The target knows all touches that are dispatched, or none, and one of them is the
\* mouse.
LEMMA DispatchKeeps ==
    ASSUME TypeOK, TargetKnowsAll, MouseFollowsTouch,
           NEW event \in TouchEvents, Dispatch(event),
           DOMAIN event \ In(event, "Pressed") = followed,
           In(event, "Pressed") \cap followed = {}
    PROVE  /\ TargetKnowsAll' /\ MouseFollowsTouch' /\ StreamGoesOn
           /\ status' \in {"NoActiveTouch", "DeliveringTouchEvents",
                           "DeliveringMouseEvents", "TargetRejectedTouches"}
           /\ touchMouseId' \in TouchIds \cup {NoTouch}
           /\ target' = target
           /\ followed' = After(followed, event) /\ followed' \subseteq TouchIds
           /\ seen' \subseteq TouchIds
           /\ sent' \in TouchEvents \cup {NoEvent}
<1> DEFINE pressed == In(event, "Pressed")
           ended == In(event, "Released")
<1>1. /\ DOMAIN event \subseteq TouchIds /\ DOMAIN event # {}
      /\ pressed \subseteq DOMAIN event /\ ended \subseteq DOMAIN event
      /\ pressed \cap ended = {}
      /\ \A id \in DOMAIN event : id \in ended <=> event[id] = "Released"
  BY TouchEventDomain DEF In
<1>2. /\ followed' = (followed \cup pressed) \ ended /\ followed' = After(followed, event)
      /\ target' = target
  BY DEF Dispatch, After
<1>3. Begins(event) <=> followed = {}
  BY <1>1 DEF Begins
<1>4. EndsAll(event) <=> followed' = {}
  BY <1>1, <1>2 DEF EndsAll
<1>5. After(seen, event) = (seen \cup pressed) \ ended
  BY DEF After
<1> HIDE DEF pressed, ended
<1>6. CASE target = "None"
  BY <1>1, <1>2, <1>6 DEF Dispatch, SendNoTouches, TypeOK, TargetKnowsAll, MouseFollowsTouch,
                          StreamGoesOn
<1>7. CASE target # "None" /\ Begins(event) /\ DispatchTouchBegin(event)
  <2>1. pressed = DOMAIN event /\ ended = {} /\ seen = {}
    BY <1>1, <1>3, <1>7 DEF TargetKnowsAll, pressed
  <2> QED
    BY <1>1, <1>2, <1>3, <1>5, <1>7, <2>1
    DEF DispatchTouchBegin, SendNoTouches, SendTouches, TypeOK, TargetKnowsAll,
        MouseFollowsTouch, StreamGoesOn, pressed
<1>8. CASE target # "None" /\ ~Begins(event) /\ DispatchUpdate(event)
  <2>1. /\ StreamGoesOn /\ seen' \subseteq TouchIds /\ sent' \in TouchEvents \cup {NoEvent}
        /\ seen' = IF status = "DeliveringTouchEvents" THEN followed' ELSE {}
    BY <1>1, <1>2, <1>5, <1>8 DEF DispatchUpdate, SendNoTouches, SendTouches, TypeOK,
                                  TargetKnowsAll, StreamGoesOn, pressed
  <2>2. CASE EndsAll(event)
    BY <1>1, <1>2, <1>4, <1>8, <2>1, <2>2
    DEF DispatchUpdate, TypeOK, TargetKnowsAll, MouseFollowsTouch
  <2>3. CASE ~EndsAll(event)
    <3>1. status' = status
      BY <1>8, <2>3 DEF DispatchUpdate
    <3>2. TargetKnowsAll'
      BY <1>2, <1>4, <1>8, <2>1, <2>3, <3>1 DEF TargetKnowsAll
    <3>3. CASE status = "DeliveringMouseEvents"
      <4>1. DispatchAsMouse(event)
        BY <1>8, <2>3, <3>3 DEF DispatchUpdate
      <4>2. touchMouseId' = NoTouch \/ touchMouseId' \in followed'
        BY <1>1, <1>2, <1>8, <3>3, <4>1 DEF DispatchAsMouse, MouseOf, MouseFollowsTouch, pressed
      <4> QED
        BY <1>1, <1>2, <2>1, <3>1, <3>2, <4>2 DEF TypeOK, MouseFollowsTouch
    <3>4. CASE status # "DeliveringMouseEvents"
      BY <1>1, <1>2, <1>8, <2>1, <2>3, <3>1, <3>2, <3>4 DEF DispatchUpdate, TypeOK, MouseFollowsTouch
    <3> QED
      BY <3>3, <3>4
  <2> QED
    BY <2>2, <2>3
<1> QED
  BY <1>6, <1>7, <1>8 DEF Dispatch

-----------------------------------------------------------------------------
(* The inductive invariant, which implies the rest of HeldBackRightly.     *)

Inv ==
    /\ TypeOK
    /\ StoredGoOn /\ MapFollowsRegistry /\ TargetKnowsAll /\ OldestWaits
    /\ MouseFollowsTouch

LEMMA StoredGoOnIs == StoredGoOn <=> GoesOn(storedEvents, followed, Known, down)
  BY DEF StoredGoOn, GoesOn, BegunBefore, EndedBefore, BegunIn, EndedIn

LEMMA StoredGoOnIsPrimed ==
    StoredGoOn' <=> GoesOn(storedEvents', followed', Known', down')
  BY DEF StoredGoOn, GoesOn, BegunBefore, EndedBefore, BegunIn, EndedIn

LEMMA FollowedAreKnown ==
    ASSUME TypeOK, MapFollowsRegistry
    PROVE  followed \subseteq Known /\ Known \subseteq TouchIds
  BY DEF TypeOK, MapFollowsRegistry, Known

LEMMA InvSuffices == Inv => HeldBackRightly
<1> SUFFICES ASSUME Inv PROVE HeldBackRightly
  OBVIOUS
<1>1. OnlyOwnedTouches
  BY DEF Inv, OnlyOwnedTouches, MapFollowsRegistry, TargetKnowsAll, TypeOK
<1>2. NothingSkipped
  BY DEF Inv, NothingSkipped, StoredGoOn, BegunBefore, EndedBefore
<1>3. NothingHeldBack
  <2>1. SUFFICES ASSUME ~dispatching, storedEvents # <<>>
                 PROVE  \E id \in DOMAIN Head(storedEvents) : id \in pending
    BY DEF NothingHeldBack
  <2>2. PICK id \in DOMAIN Head(storedEvents) : ownership[id] # "Granted"
    BY <2>1 DEF Inv, OldestWaits, Owned
  <2>3. id \in TouchIds /\ id \in Known
    <3>1. /\ 1 \in DOMAIN storedEvents /\ Head(storedEvents) = storedEvents[1]
          /\ Head(storedEvents) \in TouchEvents
      BY <2>1, SequenceTail DEF Inv, TypeOK
    <3>2. id \in TouchIds
      BY <3>1, TouchEventDomain
    <3> QED
      BY <3>1, <3>2 DEF Inv, StoredGoOn
  <2> QED
    BY <2>2, <2>3 DEF Inv, TypeOK, MapFollowsRegistry, Known
<1> QED
  BY <1>1, <1>2, <1>3 DEF Inv, HeldBackRightly

\* With nothing dispatched, the target and the mouse are as before.
LEMMA NothingDispatchedKeeps ==
    ASSUME Inv, NothingDispatched
    PROVE  /\ TargetKnowsAll' /\ MouseFollowsTouch' /\ StreamGoesOn
           /\ followed' = followed
           /\ status' = status /\ touchMouseId' = touchMouseId /\ target' = target
           /\ seen' = seen /\ sent' = NoEvent
  BY DEF Inv, NothingDispatched, dispatcherVars, TargetKnowsAll, MouseFollowsTouch, StreamGoesOn

LEMMA InitialInv == Init => Inv
<1> SUFFICES ASSUME Init PROVE Inv
  OBVIOUS
<1>1. storedEvents \in Seq(TouchEvents) /\ followed = {} /\ Known = {}
  BY EmptySeq DEF Init, Known
<1>2. StoredGoOn
  BY <1>1, NothingStored, StoredGoOnIs DEF Init
<1> QED
  BY <1>1, <1>2 DEF Init, Inv, TypeOK, MapFollowsRegistry, TargetKnowsAll, OldestWaits,
                    MouseFollowsTouch

-----------------------------------------------------------------------------
(* The steps.                                                              *)

\* The parts that a step leaves alone which changes neither the map nor what is stored.
LEMMA GateUnchanged ==
    ASSUME Inv, UNCHANGED <<gateVars, down, registryVars, followed>>
    PROVE  /\ StoredGoOn' /\ MapFollowsRegistry' /\ OldestWaits'
           /\ Known' = Known
<1> USE DEF gateVars, registryVars, Inv
<1>1. Known' = Known
  BY DEF Known
<1>2. StoredGoOn'
  BY <1>1, StoredGoOnIs, StoredGoOnIsPrimed
<1> QED
  BY <1>1, <1>2 DEF MapFollowsRegistry, OldestWaits, Owned

\* A disabled gate gets no events.
LEMMA TouchEventPastKeeps ==
    ASSUME Inv, NEW landed \in SUBSET TouchIds, NEW released \in SUBSET down,
           ~enabled, NothingDispatched,
           down' = (down \cup landed) \ released,
           UNCHANGED <<gateVars, registryVars>>
    PROVE  Inv' /\ StreamGoesOn
<1>1. /\ TargetKnowsAll' /\ MouseFollowsTouch' /\ StreamGoesOn
      /\ followed' = followed
      /\ status' = status /\ touchMouseId' = touchMouseId /\ target' = target
      /\ seen' = seen /\ sent' = NoEvent
  BY NothingDispatchedKeeps
<1>2. /\ UNCHANGED <<enabled, ownership, storedEvents, dispatching, pending, gained>>
      /\ Known = {} /\ Known' = {}
  BY DEF gateVars, registryVars, Inv, MapFollowsRegistry, Known
<1>3. TypeOK'
  BY <1>1, <1>2 DEF Inv, TypeOK
<1>4. StoredGoOn'
  BY <1>1, <1>2 DEF Inv, StoredGoOn, BegunBefore, EndedBefore
<1>5. MapFollowsRegistry' /\ OldestWaits'
  BY <1>1, <1>2 DEF Inv, MapFollowsRegistry, OldestWaits, Owned
<1> QED
  BY <1>1, <1>3, <1>4, <1>5 DEF Inv

\* The event that arrives, the map once its touches have been asked for, and what the
\* gate makes of the event: it leaves out the touches that it does not know.
Arriving(landed, released) ==
    [id \in landed \cup down |->
        IF id \in landed THEN "Pressed"
        ELSE IF id \in released THEN "Released" ELSE "Moved"]
Asked(landed, atOnce) ==
    [id \in TouchIds |->
        IF id \in atOnce THEN "Granted"
        ELSE IF id \in landed THEN "Requested" ELSE ownership[id]]
Valid(landed, released, atOnce) ==
    Only(Arriving(landed, released), {id \in TouchIds : Asked(landed, atOnce)[id] # "None"})

ValidHolds(landed, released, valid) ==
    /\ DOMAIN valid = landed \cup (down \cap Known)
    /\ DOMAIN valid # {} => valid \in TouchEvents
    /\ In(valid, "Pressed") = landed
    /\ In(valid, "Released") = released \cap Known

LEMMA ReceivedEvent ==
    ASSUME TypeOK, NEW landed \in SUBSET TouchIds, NEW released \in SUBSET down,
           landed \cap (down \cup Known) = {}, NEW atOnce \in SUBSET landed
    PROVE  /\ In(Arriving(landed, released), "Pressed") = landed
           /\ ValidHolds(landed, released, Valid(landed, released, atOnce))
<1> DEFINE event == Arriving(landed, released)
           map == Asked(landed, atOnce)
<1> DEFINE kept == {id \in TouchIds : map[id] # "None"}
           valid == Only(event, kept)
<1>1. down \subseteq TouchIds
  BY DEF TypeOK
<1>2. kept = landed \cup Known
  BY DEF Known, Asked
<1>3. /\ DOMAIN event = landed \cup down
      /\ \A id \in DOMAIN event :
            event[id] = IF id \in landed THEN "Pressed"
                        ELSE IF id \in released THEN "Released" ELSE "Moved"
  BY DEF Arriving
<1>4. In(event, "Pressed") = landed /\ In(event, "Released") = released
  BY <1>3 DEF In
<1>5. DOMAIN event # {} => event \in TouchEvents
  <2>1. event \in [landed \cup down -> States]
    BY DEF States, Arriving
  <2>2. landed \cup down \in SUBSET TouchIds
    BY <1>1
  <2> QED
    BY <1>3, <2>1, <2>2, TouchEventType
<1>6. valid = Valid(landed, released, atOnce)
  BY DEF Valid
<1> HIDE DEF kept, event, map, valid
<1>7. CASE DOMAIN event # {}
  <2>1. /\ DOMAIN valid = DOMAIN event \cap kept
        /\ DOMAIN event \cap kept # {} => valid \in TouchEvents
        /\ In(valid, "Pressed") = In(event, "Pressed") \cap kept
        /\ In(valid, "Released") = In(event, "Released") \cap kept
    BY <1>5, <1>7, OnlySome DEF valid
  <2> QED
    BY <1>2, <1>3, <1>4, <1>6, <2>1 DEF ValidHolds, event
<1>8. CASE DOMAIN event = {}
  <2>1. DOMAIN valid = {} /\ landed = {} /\ down = {}
    BY <1>3, <1>8 DEF Only, valid
  <2> QED
    BY <1>4, <1>6, <2>1 DEF In, ValidHolds, event
<1> QED
  BY <1>7, <1>8

LEMMA TouchEventKeeps ==
    ASSUME Inv, NEW landed \in SUBSET TouchIds, NEW released \in SUBSET down,
           NEW atOnce \in SUBSET landed, TouchEvent(landed, released, atOnce)
    PROVE  Inv' /\ StreamGoesOn
<1> DEFINE event == Arriving(landed, released)
           map == Asked(landed, atOnce)
           valid == Valid(landed, released, atOnce)
<1>1. CASE ~enabled
  BY <1>1, TouchEventPastKeeps DEF TouchEvent, gateVars
<1>2. CASE enabled
  <2>1. /\ ~dispatching /\ landed \cap (down \cup pending \cup Known) = {}
        /\ down' = (down \cup landed) \ released
        /\ UNCHANGED <<enabled, dispatching>>
        /\ Receive(event, atOnce)
    BY <1>2 DEF TouchEvent, Arriving
  <2>2. /\ In(event, "Pressed") = landed
        /\ DOMAIN valid = landed \cup (down \cap Known)
        /\ DOMAIN valid # {} => valid \in TouchEvents
        /\ In(valid, "Pressed") = landed
        /\ In(valid, "Released") = released \cap Known
    <3>1. TypeOK /\ landed \cap (down \cup Known) = {}
      BY <2>1 DEF Inv
    <3>2. In(event, "Pressed") = landed /\ ValidHolds(landed, released, valid)
      BY <3>1, ReceivedEvent
    <3> QED
      BY <3>2 DEF ValidHolds
  <2>3. /\ pending' = pending \cup (landed \ atOnce)
        /\ gained' = (gained \ landed) \cup atOnce
        /\ \/ /\ DOMAIN valid = {}
              /\ NothingDispatched
              /\ UNCHANGED <<ownership, storedEvents>>
           \/ /\ DOMAIN valid # {} /\ Passes(map, valid)
              /\ ownership' = Forgetting(map, In(valid, "Released"))
              /\ Dispatch(valid)
              /\ UNCHANGED storedEvents
           \/ /\ DOMAIN valid # {} /\ ~Passes(map, valid)
              /\ ownership' = map
              /\ storedEvents' = Append(storedEvents, valid)
              /\ NothingDispatched
    BY <2>1, <2>2 DEF Receive, Asked, Valid
  <2>4. /\ \A id \in TouchIds : map[id] = IF id \in atOnce THEN "Granted"
                                          ELSE IF id \in landed THEN "Requested" ELSE ownership[id]
        /\ map \in [TouchIds -> {"None", "Requested", "Granted"}]
        /\ {id \in TouchIds : map[id] # "None"} = Known \cup landed
    BY DEF Inv, TypeOK, Known, Asked
  <2>5. followed \subseteq Known /\ Known \subseteq TouchIds /\ down \subseteq TouchIds
    BY FollowedAreKnown DEF Inv, TypeOK
  <2>6. GoesOn(storedEvents, followed, Known, down)
    BY StoredGoOnIs DEF Inv
  <2> HIDE DEF event, map, valid
  <2>7. CASE DOMAIN valid = {}
    <3>1. NothingDispatched /\ UNCHANGED <<ownership, storedEvents>>
      BY <2>3, <2>7
    <3>2. /\ TargetKnowsAll' /\ MouseFollowsTouch' /\ StreamGoesOn
          /\ followed' = followed
          /\ status' = status /\ touchMouseId' = touchMouseId /\ target' = target
          /\ seen' = seen /\ sent' = NoEvent
      BY <3>1, NothingDispatchedKeeps
    <3>3. landed = {} /\ atOnce = {} /\ down \cap Known = {} /\ down' = down \ released
      BY <2>1, <2>2, <2>7
    <3>4. Known' = Known
      BY <3>1 DEF Known
    <3>5. TypeOK'
      BY <2>1, <2>3, <2>5, <3>1, <3>2, <3>3 DEF Inv, TypeOK
    <3>6. StoredGoOn'
      BY <3>1, <3>2, <3>3, <3>4 DEF Inv, StoredGoOn, BegunBefore, EndedBefore
    <3>7. MapFollowsRegistry' /\ OldestWaits'
      BY <2>1, <2>3, <3>1, <3>2, <3>3, <3>4 DEF Inv, MapFollowsRegistry, OldestWaits, Owned
    <3> QED
      BY <3>2, <3>5, <3>6, <3>7 DEF Inv
  <2>8. CASE DOMAIN valid # {} /\ Passes(map, valid)
    <3> DEFINE gone == released \cap Known
    <3>1. /\ ownership' = Forgetting(map, gone) /\ Dispatch(valid)
          /\ storedEvents' = <<>> /\ storedEvents = <<>>
          /\ Owned(map, valid) /\ valid \in TouchEvents
      BY <2>2, <2>3, <2>8 DEF Passes
    <3>2. Known \subseteq followed \cap down
      BY <2>6, <3>1, NothingStored
    <3>3. Known = followed /\ gone = released \cap followed
      BY <2>5, <3>2
    <3>4. DOMAIN valid \ In(valid, "Pressed") = followed /\ In(valid, "Pressed") \cap followed = {}
      BY <2>1, <2>2, <3>2, <3>3
    <3>5. /\ TargetKnowsAll' /\ MouseFollowsTouch' /\ StreamGoesOn
          /\ status' \in {"NoActiveTouch", "DeliveringTouchEvents",
                          "DeliveringMouseEvents", "TargetRejectedTouches"}
          /\ touchMouseId' \in TouchIds \cup {NoTouch}
          /\ target' = target
          /\ followed' = After(followed, valid) /\ followed' \subseteq TouchIds
          /\ seen' \subseteq TouchIds
          /\ sent' \in TouchEvents \cup {NoEvent}
      BY <3>1, <3>4, DispatchKeeps DEF Inv
    <3>6. followed' = (followed \cup landed) \ gone
      BY <2>2, <3>5 DEF After
    <3>7. /\ ownership' \in [TouchIds -> {"None", "Requested", "Granted"}]
          /\ \A id \in TouchIds : ownership'[id] = IF id \in gone THEN "None" ELSE map[id]
      BY <2>4, <3>1 DEF Forgetting
    <3>8. Known' = (Known \cup landed) \ gone
      BY <2>4, <3>7 DEF Known
    <3>9. TypeOK'
      BY <2>1, <2>3, <2>5, <3>1, <3>5, <3>7 DEF Inv, TypeOK
    <3>10. StoredGoOn'
      <4>1. Known' \subseteq followed' \cap down'
        BY <2>1, <3>2, <3>6, <3>8
      <4> QED
        BY <3>1, <4>1, NothingStored, StoredGoOnIsPrimed
    <3>11. MapFollowsRegistry'
      <4>1. \A id \in DOMAIN valid : map[id] = "Granted"
        BY <3>1 DEF Owned
      <4>2. ASSUME NEW id \in TouchIds, ownership'[id] # "None"
            PROVE  /\ ownership'[id] = "Requested" => id \in pending'
                   /\ ownership'[id] = "Granted" => id \in gained' \ pending'
        BY <2>1, <2>3, <2>4, <3>7, <4>2 DEF Inv, MapFollowsRegistry, Known
      <4>3. ASSUME NEW id \in followed' PROVE ownership'[id] = "Granted"
        BY <2>1, <2>2, <2>4, <2>5, <3>6, <3>7, <4>1, <4>3 DEF Inv, MapFollowsRegistry, Known
      <4> QED
        BY <1>2, <2>1, <4>2, <4>3 DEF MapFollowsRegistry
    <3>12. OldestWaits'
      BY <3>1 DEF OldestWaits
    <3> QED
      BY <3>5, <3>9, <3>10, <3>11, <3>12 DEF Inv
  <2>9. CASE DOMAIN valid # {} /\ ~Passes(map, valid)
    <3>1. /\ ownership' = map /\ storedEvents' = Append(storedEvents, valid)
          /\ NothingDispatched /\ valid \in TouchEvents
      BY <2>2, <2>3, <2>9
    <3>2. /\ TargetKnowsAll' /\ MouseFollowsTouch' /\ StreamGoesOn
          /\ followed' = followed
          /\ status' = status /\ touchMouseId' = touchMouseId /\ target' = target
          /\ seen' = seen /\ sent' = NoEvent
      BY <3>1, NothingDispatchedKeeps
    <3>3. storedEvents \in Seq(TouchEvents)
      BY DEF Inv, TypeOK
    <3>4. /\ storedEvents' \in Seq(TouchEvents) /\ storedEvents' # <<>>
          /\ \A k \in DOMAIN storedEvents : storedEvents'[k] = storedEvents[k]
          /\ storedEvents = <<>> => storedEvents'[1] = valid
          /\ Head(storedEvents') = storedEvents'[1]
      BY <3>1, <3>3, SequenceAppended, SequenceDomain, SequenceTail, EmptySeq
    <3>5. Known' = Known \cup landed
      BY <2>4, <3>1 DEF Known
    <3>6. TypeOK'
      BY <2>1, <2>3, <2>4, <2>5, <3>1, <3>2, <3>4 DEF Inv, TypeOK
    <3>7. StoredGoOn'
      <4>1. GoesOn(Append(storedEvents, valid), followed, Known \cup landed,
                   (down \cup landed) \ released)
        BY <2>1, <2>2, <2>5, <2>6, <3>1, <3>3, OneMoreStored
      <4> QED
        BY <2>1, <3>1, <3>2, <3>5, <4>1, StoredGoOnIsPrimed
    <3>8. MapFollowsRegistry'
      <4>1. ASSUME NEW id \in TouchIds
            PROVE  /\ ownership'[id] = "Requested" => id \in pending'
                   /\ ownership'[id] = "Granted" => id \in gained' \ pending'
        BY <2>1, <2>3, <2>4, <3>1 DEF Inv, MapFollowsRegistry
      <4>2. ASSUME NEW id \in followed' PROVE ownership'[id] = "Granted"
        BY <2>1, <2>4, <2>5, <3>1, <3>2, <4>2 DEF Inv, MapFollowsRegistry
      <4> QED
        BY <1>2, <2>1, <4>1, <4>2 DEF MapFollowsRegistry
    <3>9. OldestWaits'
      <4>1. CASE storedEvents = <<>>
        BY <2>9, <3>1, <3>4, <4>1 DEF Passes, OldestWaits, Owned
      <4>2. CASE storedEvents # <<>>
        <5>1. /\ 1 \in DOMAIN storedEvents /\ Head(storedEvents) = storedEvents[1]
              /\ Head(storedEvents) \in TouchEvents
          BY <3>3, <4>2, SequenceTail
        <5>2. Head(storedEvents') = Head(storedEvents)
          BY <3>4, <5>1
        <5>3. DOMAIN Head(storedEvents) \subseteq Known
          BY <5>1, TouchEventDomain DEF Inv, StoredGoOn
        <5>4. \A id \in DOMAIN Head(storedEvents) : ownership'[id] = ownership[id]
          BY <2>1, <2>4, <2>5, <3>1, <5>3
        <5> QED
          BY <2>1, <4>2, <5>2, <5>4 DEF Inv, OldestWaits, Owned
      <4> QED
        BY <4>1, <4>2
    <3> QED
      BY <3>2, <3>6, <3>7, <3>8, <3>9 DEF Inv
  <2> QED
    BY <2>3, <2>7, <2>8, <2>9
<1> QED
  BY <1>1, <1>2

\* The registry gives the gate a touch.
LEMMA TouchGainedKeeps ==
    ASSUME Inv, NEW id \in TouchIds, TouchGained(id)
    PROVE  Inv' /\ StreamGoesOn
<1>1. /\ ~dispatching /\ id \in pending
      /\ pending' = pending \ {id} /\ gained' = gained \cup {id}
      /\ ownership' = IF id \in Known THEN [ownership EXCEPT ![id] = "Granted"] ELSE ownership
      /\ dispatching' = (id \in Known)
      /\ NothingDispatched
      /\ UNCHANGED <<enabled, storedEvents, down>>
  BY DEF TouchGained
<1>2. /\ TargetKnowsAll' /\ MouseFollowsTouch' /\ StreamGoesOn
      /\ followed' = followed
      /\ status' = status /\ touchMouseId' = touchMouseId /\ target' = target
      /\ seen' = seen /\ sent' = NoEvent
  BY <1>1, NothingDispatchedKeeps
<1>3. /\ ownership' \in [TouchIds -> {"None", "Requested", "Granted"}]
      /\ \A x \in TouchIds :
            ownership'[x] = IF x = id /\ id \in Known THEN "Granted" ELSE ownership[x]
  BY <1>1 DEF Inv, TypeOK
<1>4. Known' = Known
  BY <1>3 DEF Known
<1>5. TypeOK'
  BY <1>1, <1>2, <1>3 DEF Inv, TypeOK
<1>6. StoredGoOn'
  BY <1>1, <1>2, <1>4, StoredGoOnIs, StoredGoOnIsPrimed DEF Inv
<1>7. MapFollowsRegistry'
  <2>1. ASSUME NEW x \in TouchIds
        PROVE  /\ ownership'[x] = "Requested" => x \in pending'
               /\ ownership'[x] = "Granted" => x \in gained' \ pending'
    <3>1. CASE x = id
      BY <1>1, <1>3, <3>1 DEF Inv, MapFollowsRegistry, Known
    <3>2. CASE x # id
      BY <1>1, <1>3, <3>2 DEF Inv, MapFollowsRegistry
    <3> QED
      BY <3>1, <3>2
  <2>2. ASSUME NEW x \in followed' PROVE ownership'[x] = "Granted"
    BY <1>2, <1>3, <2>2 DEF Inv, MapFollowsRegistry, TypeOK
  <2> QED
    BY <1>1, <1>4, <2>1, <2>2 DEF Inv, MapFollowsRegistry
<1>8. OldestWaits'
  <2>1. CASE id \in Known
    BY <1>1, <2>1 DEF OldestWaits
  <2>2. CASE id \notin Known
    BY <1>1, <2>2 DEF Inv, OldestWaits, Owned
  <2> QED
    BY <2>1, <2>2
<1> QED
  BY <1>2, <1>5, <1>6, <1>7, <1>8 DEF Inv

\* Another item gets it.
LEMMA TouchLostKeeps ==
    ASSUME Inv, NEW id \in TouchIds, TouchLost(id)
    PROVE  Inv' /\ StreamGoesOn
<1>1. /\ ~dispatching /\ id \in pending
      /\ pending' = pending \ {id}
      /\ ownership' = Forgetting(ownership, {id})
      /\ storedEvents' = IF id \in Known THEN StoredWithout(id) ELSE storedEvents
      /\ dispatching' = (id \in Known)
      /\ NothingDispatched
      /\ UNCHANGED <<enabled, down, gained>>
  BY DEF TouchLost, DispatchesAfter
<1>2. /\ TargetKnowsAll' /\ MouseFollowsTouch' /\ StreamGoesOn
      /\ followed' = followed
      /\ status' = status /\ touchMouseId' = touchMouseId /\ target' = target
      /\ seen' = seen /\ sent' = NoEvent
  BY <1>1, NothingDispatchedKeeps
<1>3. /\ ownership' \in [TouchIds -> {"None", "Requested", "Granted"}]
      /\ \A x \in TouchIds : ownership'[x] = IF x = id THEN "None" ELSE ownership[x]
  BY <1>1 DEF Inv, TypeOK, Forgetting
<1>4. Known' = Known \ {id}
  BY <1>3 DEF Known
<1>5. id \notin followed
  BY <1>1 DEF Inv, MapFollowsRegistry, TypeOK
<1>6. storedEvents' \in Seq(TouchEvents) /\ GoesOn(storedEvents', followed, Known \ {id}, down)
  <2>1. storedEvents \in Seq(TouchEvents) /\ GoesOn(storedEvents, followed, Known, down)
    BY StoredGoOnIs DEF Inv, TypeOK
  <2>2. CASE id \in Known
    <3>1. /\ StoredWithout(id) \in Seq(TouchEvents)
          /\ GoesOn(StoredWithout(id), followed, Known \ {id}, down)
      BY <1>5, <2>1, LostTouchRemoved DEF StoredWithout
    <3> QED
      BY <1>1, <2>2, <3>1
  <2>3. CASE id \notin Known
    <3>1. Known \ {id} = Known
      BY <2>3
    <3> QED
      BY <1>1, <2>1, <2>3, <3>1
  <2> QED
    BY <2>2, <2>3
<1>7. TypeOK'
  <2>1. dispatching' \in BOOLEAN
    BY <1>1
  <2>2. pending' \subseteq TouchIds /\ UNCHANGED <<enabled, down, gained>>
    BY <1>1 DEF Inv, TypeOK
  <2> QED
    BY <1>2, <1>3, <1>6, <2>1, <2>2 DEF Inv, TypeOK
<1>8. StoredGoOn'
  BY <1>1, <1>2, <1>4, <1>6, StoredGoOnIsPrimed
<1>9. MapFollowsRegistry'
  <2>1. ASSUME NEW x \in TouchIds
        PROVE  /\ ownership'[x] = "Requested" => x \in pending'
               /\ ownership'[x] = "Granted" => x \in gained' \ pending'
    BY <1>1, <1>3 DEF Inv, MapFollowsRegistry
  <2>2. ASSUME NEW x \in followed' PROVE ownership'[x] = "Granted"
    BY <1>2, <1>3, <1>5, <2>2 DEF Inv, MapFollowsRegistry, TypeOK
  <2> QED
    BY <1>1, <1>4, <2>1, <2>2 DEF Inv, MapFollowsRegistry
<1>10. OldestWaits'
  <2>1. CASE id \in Known
    BY <1>1, <2>1 DEF OldestWaits
  <2>2. CASE id \notin Known
    <3>1. storedEvents' = storedEvents /\ \A x \in TouchIds : ownership'[x] = ownership[x]
      BY <1>1, <1>3, <2>2 DEF Known
    <3>2. ownership' = ownership
      BY <1>3, <3>1 DEF Inv, TypeOK
    <3> QED
      BY <1>1, <3>1, <3>2 DEF Inv, OldestWaits, Owned
  <2> QED
    BY <2>1, <2>2
<1> QED
  BY <1>2, <1>7, <1>8, <1>9, <1>10 DEF Inv

\* The loop dispatches the oldest event.
LEMMA DispatchFullyOwnedEventKeeps ==
    ASSUME Inv, DispatchFullyOwnedEvent
    PROVE  Inv' /\ StreamGoesOn
<1> DEFINE event == Head(storedEvents)
           gone == In(event, "Released")
<1>1. /\ dispatching /\ storedEvents # <<>> /\ Owned(ownership, event)
      /\ storedEvents' = Tail(storedEvents)
      /\ ownership' = Forgetting(ownership, gone)
      /\ Dispatch(event)
      /\ UNCHANGED <<enabled, dispatching, down, pending, gained>>
  BY DEF DispatchFullyOwnedEvent, registryVars
<1>2. /\ storedEvents \in Seq(TouchEvents) /\ GoesOn(storedEvents, followed, Known, down)
      /\ followed \subseteq Known /\ Known \subseteq TouchIds /\ followed \subseteq TouchIds
  BY FollowedAreKnown, StoredGoOnIs DEF Inv, TypeOK
<1>3. event \in TouchEvents /\ Tail(storedEvents) \in Seq(TouchEvents)
  BY <1>1, <1>2, SequenceTail
<1> HIDE DEF event, gone
<1>4. /\ GoesOn(Tail(storedEvents), After(followed, event), Known \ gone, down)
      /\ DOMAIN event \ In(event, "Pressed") = followed
      /\ In(event, "Pressed") \cap followed = {}
      /\ DOMAIN event \subseteq Known
  BY <1>1, <1>2, OldestDispatched DEF event, gone
<1>5. /\ TargetKnowsAll' /\ MouseFollowsTouch' /\ StreamGoesOn
      /\ status' \in {"NoActiveTouch", "DeliveringTouchEvents",
                      "DeliveringMouseEvents", "TargetRejectedTouches"}
      /\ touchMouseId' \in TouchIds \cup {NoTouch}
      /\ target' = target
      /\ followed' = After(followed, event) /\ followed' \subseteq TouchIds
      /\ seen' \subseteq TouchIds
      /\ sent' \in TouchEvents \cup {NoEvent}
  BY <1>1, <1>3, <1>4, DispatchKeeps DEF Inv
<1>6. /\ ownership' \in [TouchIds -> {"None", "Requested", "Granted"}]
      /\ \A x \in TouchIds : ownership'[x] = IF x \in gone THEN "None" ELSE ownership[x]
  BY <1>1 DEF Inv, TypeOK, Forgetting
<1>7. Known' = Known \ gone
  BY <1>6 DEF Known
<1>8. TypeOK'
  BY <1>1, <1>3, <1>5, <1>6 DEF Inv, TypeOK
<1>9. StoredGoOn'
  BY <1>1, <1>4, <1>5, <1>7, StoredGoOnIsPrimed
<1>10. MapFollowsRegistry'
  <2>1. ASSUME NEW x \in TouchIds
        PROVE  /\ ownership'[x] = "Requested" => x \in pending'
               /\ ownership'[x] = "Granted" => x \in gained' \ pending'
    BY <1>1, <1>6 DEF Inv, MapFollowsRegistry
  <2>2. ASSUME NEW x \in followed' PROVE ownership'[x] = "Granted"
    <3>1. x \in TouchIds /\ x \notin gone /\ x \in followed \cup In(event, "Pressed")
      BY <1>5, <2>2 DEF After, gone
    <3>2. In(event, "Pressed") \subseteq DOMAIN event
      BY <1>3, TouchEventDomain
    <3>3. ownership[x] = "Granted"
      BY <1>1, <3>1, <3>2 DEF Inv, MapFollowsRegistry, Owned
    <3> QED
      BY <1>6, <3>1, <3>3
  <2> QED
    BY <1>1, <1>7, <2>1, <2>2 DEF Inv, MapFollowsRegistry
<1>11. OldestWaits'
  BY <1>1 DEF OldestWaits
<1> QED
  BY <1>5, <1>8, <1>9, <1>10, <1>11 DEF Inv

\* The loop ends.
LEMMA DispatchDoneKeeps ==
    ASSUME Inv, DispatchDone
    PROVE  Inv' /\ StreamGoesOn
<1>1. /\ storedEvents # <<>> => ~Owned(ownership, Head(storedEvents))
      /\ dispatching' = FALSE /\ NothingDispatched
      /\ UNCHANGED <<enabled, ownership, storedEvents, down, pending, gained>>
  BY DEF DispatchDone, registryVars
<1>2. /\ TargetKnowsAll' /\ MouseFollowsTouch' /\ StreamGoesOn
      /\ followed' = followed
      /\ status' = status /\ touchMouseId' = touchMouseId /\ target' = target
      /\ seen' = seen /\ sent' = NoEvent
  BY <1>1, NothingDispatchedKeeps
<1>3. Known' = Known
  BY <1>1 DEF Known
<1>4. TypeOK'
  BY <1>1, <1>2 DEF Inv, TypeOK
<1>5. StoredGoOn'
  BY <1>1, <1>2, <1>3, StoredGoOnIs, StoredGoOnIsPrimed DEF Inv
<1>6. MapFollowsRegistry' /\ OldestWaits'
  BY <1>1, <1>2, <1>3 DEF Inv, MapFollowsRegistry, OldestWaits, Owned
<1> QED
  BY <1>2, <1>4, <1>5, <1>6 DEF Inv

\* reset()
LEMMA DisableKeeps ==
    ASSUME Inv, Disable
    PROVE  Inv' /\ StreamGoesOn
<1>1. /\ ~dispatching /\ enabled' = FALSE
      /\ ownership' = Forgetting(ownership, TouchIds)
      /\ storedEvents' = <<>> /\ status' = "NoActiveTouch" /\ touchMouseId' = NoTouch
      /\ followed' = {} /\ seen' = {} /\ sent' = NoEvent
      /\ UNCHANGED <<dispatching, target, down, pending, gained>>
  BY DEF Disable, registryVars
<1>2. /\ ownership' \in [TouchIds -> {"None", "Requested", "Granted"}]
      /\ \A x \in TouchIds : ownership'[x] = "None"
  BY <1>1 DEF Forgetting
<1>3. Known' = {}
  BY <1>2 DEF Known
<1>4. TypeOK'
  BY <1>1, <1>2, EmptySeq DEF Inv, TypeOK
<1>5. StoredGoOn'
  BY <1>1, <1>3, NothingStored, StoredGoOnIsPrimed
<1>6. MapFollowsRegistry'
  BY <1>1, <1>2, <1>3 DEF MapFollowsRegistry
<1>7. OldestWaits' /\ TargetKnowsAll' /\ MouseFollowsTouch' /\ StreamGoesOn
  BY <1>1 DEF OldestWaits, TargetKnowsAll, MouseFollowsTouch, StreamGoesOn
<1> QED
  BY <1>4, <1>5, <1>6, <1>7 DEF Inv

LEMMA EnableKeeps ==
    ASSUME Inv, Enable
    PROVE  Inv' /\ StreamGoesOn
<1>1. /\ enabled' = TRUE /\ NothingDispatched
      /\ UNCHANGED <<ownership, storedEvents, dispatching, down, pending, gained>>
  BY DEF Enable, registryVars
<1>2. /\ TargetKnowsAll' /\ MouseFollowsTouch' /\ StreamGoesOn
      /\ followed' = followed
      /\ status' = status /\ touchMouseId' = touchMouseId /\ target' = target
      /\ seen' = seen /\ sent' = NoEvent
  BY <1>1, NothingDispatchedKeeps
<1>3. Known' = Known
  BY <1>1 DEF Known
<1>4. TypeOK'
  BY <1>1, <1>2 DEF Inv, TypeOK
<1>5. StoredGoOn'
  BY <1>1, <1>2, <1>3, StoredGoOnIs, StoredGoOnIsPrimed DEF Inv
<1>6. MapFollowsRegistry' /\ OldestWaits'
  BY <1>1, <1>2, <1>3 DEF Inv, MapFollowsRegistry, OldestWaits, Owned
<1> QED
  BY <1>2, <1>4, <1>5, <1>6 DEF Inv

\* Another target, or another state of the target.
LEMMA SetTargetItemKeeps ==
    ASSUME Inv, NEW item \in {"Enabled", "Disabled", "None"}, SetTargetItem(item)
    PROVE  Inv' /\ StreamGoesOn
<1>1. /\ target' = item /\ status' = StatusOf(item)
      /\ seen' = {} /\ sent' = NoEvent
      /\ UNCHANGED <<gateVars, touchMouseId, down, registryVars, followed>>
  BY DEF SetTargetItem
<1>2. StoredGoOn' /\ MapFollowsRegistry' /\ OldestWaits'
  BY <1>1, GateUnchanged
<1>3. status' \in {"NoActiveTouch", "TargetRejectedTouches"}
  BY <1>1 DEF StatusOf
<1>4. TypeOK'
  BY <1>1, <1>3 DEF Inv, TypeOK, gateVars, registryVars
<1>5. TargetKnowsAll' /\ MouseFollowsTouch' /\ StreamGoesOn
  BY <1>1, <1>3 DEF TargetKnowsAll, MouseFollowsTouch, StreamGoesOn
<1> QED
  BY <1>2, <1>4, <1>5 DEF Inv

LEMMA TargetChangesKeeps ==
    ASSUME Inv, NEW to \in {"Enabled", "Disabled", "None"}, TargetChanges(to)
    PROVE  Inv' /\ StreamGoesOn
<1>1. /\ target # "None" /\ target' = to
      /\ seen' = IF to = "None" THEN {} ELSE seen
      /\ sent' = NoEvent
      /\ UNCHANGED <<gateVars, status, touchMouseId, down, registryVars, followed>>
  BY DEF TargetChanges
<1>2. StoredGoOn' /\ MapFollowsRegistry' /\ OldestWaits'
  BY <1>1, GateUnchanged
<1>3. TypeOK'
  BY <1>1 DEF Inv, TypeOK, gateVars, registryVars
<1>4. TargetKnowsAll' /\ MouseFollowsTouch' /\ StreamGoesOn
  BY <1>1 DEF Inv, TargetKnowsAll, MouseFollowsTouch, StreamGoesOn
<1> QED
  BY <1>2, <1>3, <1>4 DEF Inv

LEMMA StutterKeeps ==
    ASSUME Inv, UNCHANGED vars
    PROVE  Inv'
<1>1. /\ UNCHANGED <<gateVars, down, registryVars, followed>>
      /\ UNCHANGED <<enabled, ownership, storedEvents, dispatching, status, touchMouseId, target,
                     down, pending, gained, followed, seen, sent>>
  BY DEF vars, gateVars, dispatcherVars, registryVars, streamVars
<1>2. StoredGoOn' /\ MapFollowsRegistry' /\ OldestWaits'
  BY <1>1, GateUnchanged
<1> QED
  BY <1>1, <1>2 DEF Inv, TypeOK, TargetKnowsAll, MouseFollowsTouch

LEMMA NextKeeps == Inv /\ Next => Inv' /\ StreamGoesOn
<1> SUFFICES ASSUME Inv, Next PROVE Inv' /\ StreamGoesOn
  OBVIOUS
<1>1. ASSUME NEW landed \in SUBSET TouchIds, NEW released \in SUBSET TouchIds,
             NEW atOnce \in SUBSET TouchIds, released \subseteq down, atOnce \subseteq landed,
             TouchEvent(landed, released, atOnce)
      PROVE  Inv' /\ StreamGoesOn
  BY <1>1, TouchEventKeeps
<1>2. ASSUME NEW id \in TouchIds, TouchGained(id) \/ TouchLost(id)
      PROVE  Inv' /\ StreamGoesOn
  BY <1>2, TouchGainedKeeps, TouchLostKeeps
<1>3. CASE DispatchFullyOwnedEvent
  BY <1>3, DispatchFullyOwnedEventKeeps
<1>4. CASE DispatchDone
  BY <1>4, DispatchDoneKeeps
<1>5. CASE Disable
  BY <1>5, DisableKeeps
<1>6. CASE Enable
  BY <1>6, EnableKeeps
<1>7. ASSUME NEW item \in {"Enabled", "Disabled", "None"},
             SetTargetItem(item) \/ TargetChanges(item)
      PROVE  Inv' /\ StreamGoesOn
  BY <1>7, SetTargetItemKeeps, TargetChangesKeeps
<1> QED
  BY <1>1, <1>2, <1>3, <1>4, <1>5, <1>6, <1>7 DEF Next

-----------------------------------------------------------------------------
(* What is proved.                                                         *)

\* The gate passes on only touches that are its own, holds back none that it need not,
\* leaves out nothing that arrived, and the mouse is one of the dispatched touches
\* (Q_ASSERT(touchMouse)), however many touches there are and however the registry
\* answers (TouchGate::touchEvent(), touchOwnershipEvent(), dispatchFullyOwnedEvents()).
THEOREM GateHoldsBackRightly == Spec => []HeldBackRightly
<1>1. Init => Inv
  BY InitialInv
<1>2. Inv /\ [Next]_vars => Inv'
  BY NextKeeps, StutterKeeps
<1>3. Inv => HeldBackRightly
  BY InvSuffices
<1> QED
  BY <1>1, <1>2, <1>3, PTL DEF Spec

\* The target sees a stream of touches as a window would deliver it: every event it is
\* sent presses touches new to it, and lists all the others that it knows.
THEOREM StreamStaysWellFormed == Spec => StreamWellFormed
<1>1. Init => Inv
  BY InitialInv
<1>2. Inv /\ [Next]_vars => Inv'
  BY NextKeeps, StutterKeeps
<1>3. Inv /\ [Next]_vars =>
         [sent' # NoEvent =>
            /\ In(sent', "Pressed") \cap seen = {}
            /\ DOMAIN sent' \ In(sent', "Pressed") = seen]_vars
  BY NextKeeps DEF StreamGoesOn
<1> QED
  BY <1>1, <1>2, <1>3, PTL DEF Spec, StreamWellFormed

=============================================================================
