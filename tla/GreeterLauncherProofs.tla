------------------------ MODULE GreeterLauncherProofs ------------------------
(***************************************************************************)
(* Theorems about the greeter's view of a user's data, for every set of    *)
(* users, properties and values, however much is under way: the cache      *)
(* catches up with the daemon, and the launcher shows what was sent.       *)
(***************************************************************************)
EXTENDS GreeterLauncher, SelectionProofs, FiniteSetTheorems

-----------------------------------------------------------------------------
(* What is on its way to the client.                                       *)

\* The signal at k is not looked at: it came second for a custom property.
Skipped(q, ignore, k) ==
    IF k = 1 THEN ignore ELSE q[k - 1].kind = "PropertiesChanged"

\* The signal at k makes a cache of u's properties read p.
Notice(q, ignore, k, u, p) ==
    /\ q[k].user = u
    /\ \/ q[k].kind = "PropertiesChanged" /\ q[k].prop = p /\ p \in Custom
       \/ q[k].kind = "Changed" /\ p \in Builtin /\ ~Skipped(q, ignore, k)

\* The two signals of a custom property come one right after the other.
Paired(q, ignore) ==
    /\ ignore => q # <<>> /\ q[1].kind = "Changed"
    /\ \A k \in DOMAIN q : q[k].kind = "PropertiesChanged" =>
          k + 1 \in DOMAIN q /\ q[k + 1].kind = "Changed"

\* An answer is what is stored, or the notice of a change comes after it.
RepliesTrue(q, ignore, st) ==
    \A k \in DOMAIN q : q[k].kind = "Reply" =>
        \/ q[k].value = st[q[k].user][q[k].prop]
        \/ \E j \in DOMAIN q : k < j /\ Notice(q, ignore, j, q[k].user, q[k].prop)

\* Something on the way will bring p of u to the cache.
Coming(q, ignore, u, p) ==
    \E k \in DOMAIN q :
        \/ q[k].kind = "Reply" /\ q[k].user = u /\ q[k].prop = p
        \/ Notice(q, ignore, k, u, p)

LEMMA MessageFields ==
    ASSUME NEW m \in Message
    PROVE  /\ m.kind \in {"Reply", "PropertiesChanged", "Changed"}
           /\ m.user \in Users
           /\ m.kind = "Reply" => m.prop \in Props /\ m.value \in Values
           /\ m.kind = "PropertiesChanged" => m.prop \in Custom \cup {LauncherItems}
  BY DEF Message

\* r is q and what was sent after it; the notices are what they were.
Grown(r, q, more, ignore) ==
    /\ \A k \in DOMAIN q :
          /\ k \in DOMAIN r /\ r[k] = q[k]
          /\ \A u, p : Notice(r, ignore, k, u, p) <=> Notice(q, ignore, k, u, p)
    /\ \A k \in DOMAIN more :
          /\ k + Len(q) \in DOMAIN r /\ r[k + Len(q)] = more[k]
          /\ \A u, p : Notice(r, ignore, k + Len(q), u, p) <=> Notice(more, FALSE, k, u, p)
    /\ \A k \in DOMAIN r : k \in DOMAIN q \/ \E i \in DOMAIN more : k = i + Len(q)

LEMMA QueueGrows ==
    ASSUME NEW q \in Seq(Message), NEW more \in Seq(Message), NEW ignore \in BOOLEAN,
           Paired(q, ignore), Paired(more, FALSE)
    PROVE  /\ q \o more \in Seq(Message)
           /\ Paired(q \o more, ignore)
           /\ Grown(q \o more, q, more, ignore)
<1> DEFINE r == q \o more
           n == Len(q)
<1>1. /\ n \in Nat /\ DOMAIN q = 1..n /\ (q # <<>> <=> n # 0)
      /\ Len(more) \in Nat /\ DOMAIN more = 1..Len(more) /\ (more # <<>> <=> Len(more) # 0)
  BY SequenceDomain
<1>2. r \in Seq(Message) /\ Joined(r, q, more)
  BY SequenceJoined
<1>3. DOMAIN r = 1..n + Len(more)
  BY <1>2, SequenceDomain DEF Joined
<1>4. /\ \A k \in 1..n : r[k] = q[k]
      /\ \A k \in 1..Len(more) : r[k + n] = more[k]
  BY <1>2 DEF Joined
<1>5. r # <<>> <=> n + Len(more) # 0
  <2>1. Len(r) = n + Len(more) /\ (r # <<>> <=> Len(r) # 0)
    BY <1>2, SequenceDomain DEF Joined
  <2> QED
    BY <2>1
<1> HIDE DEF r, n
<1>6. ASSUME NEW k \in 1..n
      PROVE  /\ k \in DOMAIN r /\ r[k] = q[k]
             /\ \A u, p : Notice(r, ignore, k, u, p) <=> Notice(q, ignore, k, u, p)
  <2>1. k \in DOMAIN r /\ r[k] = q[k]
    BY <1>1, <1>3, <1>4
  <2>2. k # 1 => k - 1 \in 1..n /\ r[k - 1] = q[k - 1]
    BY <1>1, <1>4
  <2> QED
    BY <2>1, <2>2 DEF Notice, Skipped
<1>7. ASSUME NEW k \in 1..Len(more)
      PROVE  /\ k + n \in DOMAIN r /\ r[k + n] = more[k]
             /\ \A u, p : Notice(r, ignore, k + n, u, p) <=> Notice(more, FALSE, k, u, p)
  <2>1. k + n \in DOMAIN r /\ r[k + n] = more[k]
    BY <1>1, <1>3, <1>4
  <2>2. Skipped(r, ignore, k + n) <=> Skipped(more, FALSE, k)
    <3>1. CASE k # 1
      <4>1. k - 1 \in 1..Len(more) /\ (k - 1) + n = (k + n) - 1 /\ k + n # 1
        BY <1>1, <3>1
      <4>2. r[(k + n) - 1] = more[k - 1]
        BY <1>4, <4>1
      <4> QED
        BY <3>1, <4>1, <4>2 DEF Skipped
    <3>2. CASE k = 1 /\ n = 0
      <4>1. ~ignore /\ k + n = 1
        BY <1>1, <3>2 DEF Paired
      <4> QED
        BY <3>2, <4>1 DEF Skipped
    <3>3. CASE k = 1 /\ n # 0
      <4>1. n \in 1..n /\ n + 1 \notin DOMAIN q /\ (k + n) - 1 = n /\ k + n # 1
        BY <1>1, <3>3
      <4>2. q[n].kind # "PropertiesChanged"
        BY <1>1, <4>1 DEF Paired
      <4>3. r[n] = q[n]
        BY <1>4, <4>1
      <4> QED
        BY <3>3, <4>1, <4>2, <4>3 DEF Skipped
    <3> QED
      BY <3>1, <3>2, <3>3
  <2> QED
    BY <2>1, <2>2 DEF Notice
<1>8. ASSUME NEW k \in DOMAIN r
      PROVE  k \in DOMAIN q \/ \E i \in DOMAIN more : k = i + n
  <2>1. CASE k <= n
    BY <1>1, <1>3, <2>1
  <2>2. CASE ~(k <= n)
    <3>1. k - n \in DOMAIN more /\ k = (k - n) + n
      BY <1>1, <1>3, <2>2
    <3> QED
      BY <3>1
  <2> QED
    BY <2>1, <2>2
<1>9. Paired(r, ignore)
  <2>1. ASSUME ignore PROVE r # <<>> /\ r[1].kind = "Changed"
    <3>1. q # <<>> /\ q[1].kind = "Changed"
      BY <2>1 DEF Paired
    <3>2. n # 0 /\ 1 \in 1..n
      BY <1>1, <3>1
    <3>3. n + Len(more) # 0
      BY <1>1, <3>2
    <3> QED
      BY <1>4, <1>5, <3>1, <3>2, <3>3
  <2>2. ASSUME NEW k \in DOMAIN r, r[k].kind = "PropertiesChanged"
        PROVE  k + 1 \in DOMAIN r /\ r[k + 1].kind = "Changed"
    <3>1. CASE k \in DOMAIN q
      <4>1. q[k].kind = "PropertiesChanged"
        BY <1>1, <1>4, <2>2, <3>1
      <4>2. k + 1 \in DOMAIN q /\ q[k + 1].kind = "Changed"
        BY <3>1, <4>1 DEF Paired
      <4> QED
        BY <1>1, <1>6, <4>2
    <3>2. ASSUME NEW i \in DOMAIN more, k = i + n
          PROVE  k + 1 \in DOMAIN r /\ r[k + 1].kind = "Changed"
      <4>1. more[i].kind = "PropertiesChanged"
        BY <1>1, <1>7, <2>2, <3>2
      <4>2. i + 1 \in DOMAIN more /\ more[i + 1].kind = "Changed"
        BY <4>1 DEF Paired
      <4>3. (i + 1) + n = k + 1
        BY <1>1, <3>2
      <4>4. (i + 1) + n \in DOMAIN r /\ r[(i + 1) + n] = more[i + 1]
        BY <1>1, <1>7, <4>2
      <4> QED
        BY <4>2, <4>3, <4>4
    <3> QED
      BY <1>8, <3>1, <3>2
  <2> QED
    BY <2>1, <2>2 DEF Paired
<1> QED
  BY <1>1, <1>2, <1>6, <1>7, <1>8, <1>9 DEF r, n, Grown

\* Neither does the message that is delivered, if the flag is set as it says.
LEMMA QueueShrinks ==
    ASSUME NEW q \in Seq(Message), q # <<>>, NEW ignore \in BOOLEAN, NEW now \in BOOLEAN,
           Paired(q, ignore), now <=> Head(q).kind = "PropertiesChanged"
    PROVE  /\ Paired(Tail(q), now)
           /\ \A k \in DOMAIN Tail(q) :
                 \A u, p : Notice(Tail(q), now, k, u, p) <=> Notice(q, ignore, k + 1, u, p)
<1> DEFINE r == Tail(q)
           n == Len(q)
<1>1. /\ Head(q) = q[1] /\ 1 \in DOMAIN q /\ r \in Seq(Message)
      /\ DOMAIN r = 1..n - 1
      /\ \A k \in DOMAIN r : k + 1 \in DOMAIN q /\ r[k] = q[k + 1]
      /\ \A k \in DOMAIN q : k # 1 => k - 1 \in DOMAIN r /\ r[k - 1] = q[k]
  BY SequenceTail
<1>2. n \in Nat /\ DOMAIN q = 1..n /\ (r # <<>> <=> 1 \in DOMAIN r)
  BY <1>1, SequenceDomain
<1> HIDE DEF r, n
<1>3. ASSUME NEW k \in DOMAIN r
      PROVE  \A u, p : Notice(r, now, k, u, p) <=> Notice(q, ignore, k + 1, u, p)
  <2>1. k \in Nat /\ k + 1 # 1 /\ (k + 1) - 1 = k /\ k + 1 \in DOMAIN q /\ r[k] = q[k + 1]
    BY <1>1, <1>2
  <2>2. CASE k = 1
    BY <1>1, <2>1, <2>2 DEF Notice, Skipped
  <2>3. CASE k # 1
    <3>1. k - 1 \in DOMAIN r /\ r[k - 1] = q[k]
      <4>1. k \in DOMAIN q
        BY <1>1, <1>2
      <4> QED
        BY <1>1, <2>3, <4>1
    <3> QED
      BY <2>1, <2>3, <3>1 DEF Notice, Skipped
  <2> QED
    BY <2>2, <2>3
<1>4. Paired(r, now)
  <2>1. ASSUME now PROVE r # <<>> /\ r[1].kind = "Changed"
    <3>1. 1 + 1 \in DOMAIN q /\ q[1 + 1].kind = "Changed"
      BY <1>1, <2>1 DEF Paired
    <3>2. (1 + 1) - 1 = 1 /\ 1 + 1 # 1
      OBVIOUS
    <3> QED
      BY <1>1, <1>2, <3>1, <3>2
  <2>2. ASSUME NEW k \in DOMAIN r, r[k].kind = "PropertiesChanged"
        PROVE  k + 1 \in DOMAIN r /\ r[k + 1].kind = "Changed"
    <3>1. k + 1 \in DOMAIN q /\ q[k + 1].kind = "PropertiesChanged"
      BY <1>1, <2>2
    <3>2. (k + 1) + 1 \in DOMAIN q /\ q[(k + 1) + 1].kind = "Changed"
      BY <3>1 DEF Paired
    <3>3. k \in Nat /\ (k + 1) + 1 # 1 /\ ((k + 1) + 1) - 1 = k + 1
      BY <1>1, <1>2
    <3> QED
      BY <1>1, <3>2, <3>3
  <2> QED
    BY <2>1, <2>2 DEF Paired
<1> QED
  BY <1>3, <1>4 DEF r

LEMMA GrowsTrue ==
    ASSUME NEW q \in Seq(Message), NEW more \in Seq(Message), NEW ignore \in BOOLEAN,
           Paired(q, ignore), Paired(more, FALSE), NEW st, RepliesTrue(q, ignore, st),
           \A k \in DOMAIN more : more[k].kind = "Reply"
                                  => more[k].value = st[more[k].user][more[k].prop]
    PROVE  RepliesTrue(q \o more, ignore, st)
<1> DEFINE r == q \o more
<1>1. Grown(r, q, more, ignore)
  BY QueueGrows
<1> HIDE DEF r
<1>2. ASSUME NEW k \in DOMAIN r, r[k].kind = "Reply"
      PROVE  \/ r[k].value = st[r[k].user][r[k].prop]
             \/ \E j \in DOMAIN r : k < j /\ Notice(r, ignore, j, r[k].user, r[k].prop)
  <2>1. CASE k \in DOMAIN q
    <3>1. \/ q[k].value = st[q[k].user][q[k].prop]
          \/ \E j \in DOMAIN q : k < j /\ Notice(q, ignore, j, q[k].user, q[k].prop)
      BY <1>1, <1>2, <2>1 DEF RepliesTrue, Grown
    <3> QED
      BY <1>1, <2>1, <3>1 DEF Grown
  <2>2. ASSUME NEW i \in DOMAIN more, k = i + Len(q)
        PROVE  r[k].value = st[r[k].user][r[k].prop]
    <3>1. r[k] = more[i]
      BY <1>1, <2>2 DEF Grown
    <3> QED
      BY <1>2, <3>1
  <2> QED
    BY <1>1, <2>1, <2>2 DEF Grown
<1> QED
  BY <1>2 DEF RepliesTrue, r

LEMMA GrowsComing ==
    ASSUME NEW q \in Seq(Message), NEW more \in Seq(Message), NEW ignore \in BOOLEAN,
           Paired(q, ignore), Paired(more, FALSE), NEW u, NEW p,
           Coming(q, ignore, u, p) \/ Coming(more, FALSE, u, p)
    PROVE  Coming(q \o more, ignore, u, p)
<1> DEFINE r == q \o more
<1>1. Grown(r, q, more, ignore)
  BY QueueGrows
<1> HIDE DEF r
<1>2. CASE Coming(q, ignore, u, p)
  <2>1. PICK k \in DOMAIN q : \/ q[k].kind = "Reply" /\ q[k].user = u /\ q[k].prop = p
                              \/ Notice(q, ignore, k, u, p)
    BY <1>2 DEF Coming
  <2> QED
    BY <1>1, <2>1 DEF Coming, Grown, r
<1>3. CASE Coming(more, FALSE, u, p)
  <2>1. PICK k \in DOMAIN more :
           \/ more[k].kind = "Reply" /\ more[k].user = u /\ more[k].prop = p
           \/ Notice(more, FALSE, k, u, p)
    BY <1>3 DEF Coming
  <2> QED
    BY <1>1, <2>1 DEF Coming, Grown, r
<1> QED
  BY <1>2, <1>3

\* A delivered message was the first, so no answer loses the notice after it.
LEMMA ShrinksTrue ==
    ASSUME NEW q \in Seq(Message), q # <<>>, NEW ignore \in BOOLEAN, NEW now \in BOOLEAN,
           Paired(q, ignore), now <=> Head(q).kind = "PropertiesChanged",
           NEW st, RepliesTrue(q, ignore, st)
    PROVE  RepliesTrue(Tail(q), now, st)
<1> DEFINE r == Tail(q)
<1>1. /\ r \in Seq(Message)
      /\ \A k \in DOMAIN r : k + 1 \in DOMAIN q /\ r[k] = q[k + 1]
      /\ \A k \in DOMAIN q : k # 1 => k - 1 \in DOMAIN r /\ r[k - 1] = q[k]
  BY SequenceTail
<1>2. \A k \in DOMAIN r : \A u, p : Notice(r, now, k, u, p) <=> Notice(q, ignore, k + 1, u, p)
  BY QueueShrinks
<1>3. DOMAIN q \subseteq Nat \ {0} /\ DOMAIN r \subseteq Nat \ {0}
  <2>1. DOMAIN q = 1..Len(q) /\ Len(q) \in Nat /\ DOMAIN r = 1..Len(r) /\ Len(r) \in Nat
    BY <1>1, SequenceDomain
  <2> QED
    BY <2>1
<1> HIDE DEF r
<1>4. ASSUME NEW k \in DOMAIN r, r[k].kind = "Reply", r[k].value # st[r[k].user][r[k].prop]
      PROVE  \E j \in DOMAIN r : k < j /\ Notice(r, now, j, r[k].user, r[k].prop)
  <2>1. k + 1 \in DOMAIN q /\ q[k + 1] = r[k]
    BY <1>1
  <2>2. PICK j \in DOMAIN q : k + 1 < j /\ Notice(q, ignore, j, r[k].user, r[k].prop)
    BY <1>4, <2>1 DEF RepliesTrue
  <2>3. k < j - 1 /\ j # 1 /\ (j - 1) + 1 = j
    BY <1>3, <2>2
  <2>4. j - 1 \in DOMAIN r
    BY <1>1, <2>3
  <2> QED
    BY <1>2, <2>2, <2>3, <2>4
<1> QED
  BY <1>4 DEF RepliesTrue, r

LEMMA ShrinksComing ==
    ASSUME NEW q \in Seq(Message), q # <<>>, NEW ignore \in BOOLEAN, NEW now \in BOOLEAN,
           Paired(q, ignore), now <=> Head(q).kind = "PropertiesChanged",
           NEW u, NEW p, Coming(q, ignore, u, p)
    PROVE  \/ Coming(Tail(q), now, u, p)
           \/ Head(q).kind = "Reply" /\ Head(q).user = u /\ Head(q).prop = p
           \/ Notice(q, ignore, 1, u, p)
<1> DEFINE r == Tail(q)
<1>1. /\ r \in Seq(Message) /\ Head(q) = q[1]
      /\ \A k \in DOMAIN q : k # 1 => k - 1 \in DOMAIN r /\ r[k - 1] = q[k]
  BY SequenceTail
<1>2. \A k \in DOMAIN r : Notice(r, now, k, u, p) <=> Notice(q, ignore, k + 1, u, p)
  BY QueueShrinks
<1>3. DOMAIN q = 1..Len(q) /\ Len(q) \in Nat
  BY SequenceDomain
<1> HIDE DEF r
<1>4. PICK k \in DOMAIN q : \/ q[k].kind = "Reply" /\ q[k].user = u /\ q[k].prop = p
                            \/ Notice(q, ignore, k, u, p)
  BY DEF Coming
<1>5. CASE k = 1
  BY <1>1, <1>4, <1>5
<1>6. CASE k # 1
  <2>1. k - 1 \in DOMAIN r /\ r[k - 1] = q[k] /\ (k - 1) + 1 = k
    BY <1>1, <1>3, <1>6
  <2> QED
    BY <1>2, <1>4, <2>1 DEF Coming, r
<1> QED
  BY <1>5, <1>6

-----------------------------------------------------------------------------
(* What the daemon sends.                                                  *)

LEMMA Announces ==
    ASSUME NEW u \in Users, NEW p \in Props \cup {LauncherItems}
    PROVE  /\ Announced(u, p) \in Seq(Message)
           /\ Paired(Announced(u, p), FALSE)
           /\ \A k \in DOMAIN Announced(u, p) : Announced(u, p)[k].kind # "Reply"
           /\ u \in known /\ p \in Props =>
                 \E k \in DOMAIN Announced(u, p) : Notice(Announced(u, p), FALSE, k, u, p)
<1> DEFINE c == [kind |-> "Changed", user |-> u]
           d == [kind |-> "PropertiesChanged", user |-> u, prop |-> p]
<1>1. /\ c \in Message /\ (p \notin Builtin => d \in Message)
      /\ c.kind # "Reply" /\ d.kind # "Reply"
  BY DEF Message, Props
<1>2. CASE u \notin known
  <2>1. Announced(u, p) = <<>>
    BY <1>2 DEF Announced
  <2> QED
    BY <1>2, <2>1 DEF Paired
<1>3. CASE u \in known /\ p \in Builtin
  <2>1. Announced(u, p) = <<c>>
    BY <1>3 DEF Announced
  <2>2. Notice(<<c>>, FALSE, 1, u, p)
    BY <1>3 DEF Notice, Skipped
  <2>3. Paired(<<c>>, FALSE)
    BY DEF Paired
  <2>4. <<c>> \in Seq(Message) /\ DOMAIN <<c>> = {1} /\ <<c>>[1] = c
    BY <1>1
  <2> HIDE DEF c
  <2> QED
    BY <1>1, <2>1, <2>2, <2>3, <2>4
<1>4. CASE u \in known /\ p \notin Builtin
  <2>1. Announced(u, p) = <<d, c>>
    BY <1>4 DEF Announced
  <2>2. p \in Props => Notice(<<d, c>>, FALSE, 1, u, p)
    BY <1>4 DEF Notice, Props
  <2>3. Paired(<<d, c>>, FALSE)
    BY DEF Paired
  <2>4. /\ <<d, c>> \in Seq(Message) /\ DOMAIN <<d, c>> = {1, 2}
        /\ <<d, c>>[1] = d /\ <<d, c>>[2] = c
    BY <1>1, <1>4
  <2> HIDE DEF c, d
  <2> QED
    BY <1>1, <1>4, <2>1, <2>2, <2>3, <2>4
<1> QED
  BY <1>2, <1>3, <1>4

\* Nothing pairs with answers, and each is what is stored.
LEMMA AnswersAre ==
    ASSUME AccountsTypeOK
    PROVE  /\ Answers \in Seq(Message) /\ DOMAIN Answers = DOMAIN toDaemon
           /\ Paired(Answers, FALSE)
           /\ \A k \in DOMAIN Answers :
                 /\ Answers[k].kind = "Reply"
                 /\ Answers[k].user = toDaemon[k].user /\ Answers[k].prop = toDaemon[k].prop
                 /\ Answers[k].value = stored[Answers[k].user][Answers[k].prop]
<1>1. toDaemon \in Seq(Read) /\ Len(toDaemon) \in Nat /\ DOMAIN toDaemon = 1..Len(toDaemon)
  BY SequenceDomain DEF AccountsTypeOK
<1>2. ASSUME NEW k \in DOMAIN toDaemon
      PROVE  /\ Answer(toDaemon[k]) \in Message
             /\ Answer(toDaemon[k]).kind = "Reply"
             /\ Answer(toDaemon[k]).user = toDaemon[k].user
             /\ Answer(toDaemon[k]).prop = toDaemon[k].prop
             /\ Answer(toDaemon[k]).value = stored[toDaemon[k].user][toDaemon[k].prop]
  <2>1. toDaemon[k] \in Read
    BY <1>1
  <2>2. stored[toDaemon[k].user][toDaemon[k].prop] \in Values
    BY <2>1 DEF AccountsTypeOK, Read
  <2> QED
    BY <2>1, <2>2 DEF Answer, Message, Read
<1>3. \A k \in DOMAIN toDaemon : Answers[k] = Answer(toDaemon[k])
  BY DEF Answers
<1>4. DOMAIN Answers = 1..Len(toDaemon)
  BY <1>1 DEF Answers
<1>5. Answers \in Seq(Message)
  BY <1>1, <1>2 DEF Answers
<1>6. DOMAIN Answers = DOMAIN toDaemon
  BY <1>1, <1>4
<1>7. PICK a : a = Answers
  OBVIOUS
<1>8. ASSUME NEW k \in DOMAIN a
      PROVE  /\ a[k].kind = "Reply"
             /\ a[k].user = toDaemon[k].user /\ a[k].prop = toDaemon[k].prop
             /\ a[k].value = stored[a[k].user][a[k].prop]
  BY <1>2, <1>3, <1>6, <1>7
<1>9. Paired(a, FALSE)
  BY <1>8 DEF Paired
<1> QED
  BY <1>5, <1>6, <1>7, <1>8, <1>9

\* A write that is announced leaves no answer wrong without a notice behind it.
LEMMA WriteAnnounced ==
    ASSUME NEW q \in Seq(Message), NEW ignore \in BOOLEAN, Paired(q, ignore),
           NEW st, RepliesTrue(q, ignore, st),
           \A k \in DOMAIN q : q[k].kind = "Reply" => q[k].user \in known,
           NEW u \in Users, NEW p \in Props,
           NEW st2, \A w \in Users, o \in Props : w # u \/ o # p => st2[w][o] = st[w][o]
    PROVE  RepliesTrue(q \o Announced(u, p), ignore, st2)
<1> DEFINE more == Announced(u, p)
           r == q \o more
<1>1. /\ more \in Seq(Message) /\ Paired(more, FALSE)
      /\ \A k \in DOMAIN more : more[k].kind # "Reply"
      /\ u \in known => \E k \in DOMAIN more : Notice(more, FALSE, k, u, p)
  BY Announces
<1> HIDE DEF more
<1>2. Grown(r, q, more, ignore)
  BY <1>1, QueueGrows
<1>3. /\ DOMAIN q = 1..Len(q) /\ Len(q) \in Nat
      /\ DOMAIN more = 1..Len(more) /\ Len(more) \in Nat
  BY <1>1, SequenceDomain
<1> HIDE DEF r
<1>4. ASSUME NEW k \in DOMAIN r, r[k].kind = "Reply"
      PROVE  \/ r[k].value = st2[r[k].user][r[k].prop]
             \/ \E j \in DOMAIN r : k < j /\ Notice(r, ignore, j, r[k].user, r[k].prop)
  <2>1. k \in DOMAIN q /\ r[k] = q[k]
    <3>1. ASSUME NEW i \in DOMAIN more, k = i + Len(q) PROVE FALSE
      <4>1. r[i + Len(q)] = more[i]
        BY <1>2 DEF Grown
      <4> QED
        BY <1>1, <1>4, <3>1, <4>1
    <3> QED
      BY <1>2, <3>1 DEF Grown
  <2>2. q[k].user \in Users /\ q[k].prop \in Props
    <3>1. q[k] \in Message
      BY <2>1, SequenceDomain
    <3> QED
      BY <1>4, <2>1, <3>1, MessageFields
  <2>3. CASE q[k].user = u /\ q[k].prop = p
    <3>1. u \in known
      BY <1>4, <2>1, <2>3
    <3>2. PICK i \in DOMAIN more : Notice(more, FALSE, i, u, p)
      BY <1>1, <3>1
    <3>3. i + Len(q) \in DOMAIN r /\ Notice(r, ignore, i + Len(q), u, p)
      BY <1>2, <3>2 DEF Grown
    <3>4. k < i + Len(q)
      BY <1>3, <2>1
    <3> QED
      BY <2>1, <2>3, <3>3, <3>4
  <2>4. CASE q[k].user # u \/ q[k].prop # p
    <3>1. st2[q[k].user][q[k].prop] = st[q[k].user][q[k].prop]
      BY <2>2, <2>4
    <3>2. \/ q[k].value = st[q[k].user][q[k].prop]
          \/ \E j \in DOMAIN q : k < j /\ Notice(q, ignore, j, q[k].user, q[k].prop)
      BY <1>4, <2>1 DEF RepliesTrue
    <3> QED
      BY <1>2, <2>1, <3>1, <3>2 DEF Grown
  <2> QED
    BY <2>3, <2>4
<1> QED
  BY <1>4 DEF RepliesTrue, r, more

-----------------------------------------------------------------------------
(* The cache.                                                              *)

\* The value of p is asked for or on its way.
CatchingUp(p) ==
    \/ \E k \in DOMAIN toDaemon : toDaemon[k].prop = p
    \/ Coming(toClient, ignoreNext, m_user, p)

CacheFollows == \A p \in Props \ strayed : cache[p] = stored[m_user][p] \/ CatchingUp(p)

CacheInv ==
    /\ AccountsTypeOK
    /\ m_user \in known
    /\ \A k \in DOMAIN toDaemon : toDaemon[k].user = m_user
    /\ \A k \in DOMAIN toClient : toClient[k].kind = "Reply" => toClient[k].user \in known
    /\ Paired(toClient, ignoreNext)
    /\ RepliesTrue(toClient, ignoreNext, stored)
    /\ CacheFollows

\* update() asks for each of the properties.
LEMMA UpdateReads ==
    ASSUME AccountsTypeOK, NEW props \in SUBSET Props, IsFiniteSet(props), Update(props)
    PROVE  /\ toDaemon' \in Seq(Read)
           /\ \A k \in DOMAIN toDaemon : k \in DOMAIN toDaemon' /\ toDaemon'[k] = toDaemon[k]
           /\ \A k \in DOMAIN toDaemon' :
                 \/ k \in DOMAIN toDaemon /\ toDaemon'[k] = toDaemon[k]
                 \/ toDaemon'[k].user = m_user
           /\ \A p \in props : \E k \in DOMAIN toDaemon' : toDaemon'[k].prop = p
<1> DEFINE S == {[user |-> m_user, prop |-> p] : p \in props}
           new == SetToSeq(S)
           n == Cardinality(S)
<1>1. IsFiniteSet(S)
  <2> DEFINE f == [p \in props |-> [user |-> m_user, prop |-> p]]
  <2>1. f \in Surjection(props, S)
    BY DEF Surjection
  <2> QED
    BY <2>1, FS_Surjection
<1>2. S \subseteq Read /\ \A e \in S : e.user = m_user
  BY DEF AccountsTypeOK, Read
<1>3. \A p \in props : \E e \in S : e.prop = p
  <2> SUFFICES ASSUME NEW p \in props PROVE \E e \in S : e.prop = p
    OBVIOUS
  <2>1. [user |-> m_user, prop |-> p] \in S
    OBVIOUS
  <2> QED
    BY <2>1
<1>4. toDaemon' = toDaemon \o new
  BY DEF Update
<1> HIDE DEF S
<1>5. n \in Nat /\ ExistsBijection(1..n, S)
  BY <1>1, FS_CardinalityType
<1>6. new \in [1..n -> S] /\ IsInjective(new)
  <2>1. \E f \in [1..n -> S] : IsInjective(f)
    BY <1>5 DEF ExistsBijection, Bijection, Injection
  <2> QED
    BY <2>1 DEF SetToSeq
<1>7. \A e \in S : \E k \in 1..n : new[k] = e
  <2>1. Cardinality(1..n) = n
    BY <1>5, FS_Interval
  <2>2. new \in Injection(1..n, S)
    BY <1>6 DEF Injection
  <2>3. new \in Surjection(1..n, S)
    BY <1>1, <2>1, <2>2, FS_Injection
  <2> QED
    BY <2>3 DEF Surjection
<1> HIDE DEF new, n
<1>8. new \in Seq(Read) /\ DOMAIN new = 1..n /\ Len(new) = n
  BY <1>2, <1>5, <1>6
<1>9. toDaemon \in Seq(Read) /\ DOMAIN toDaemon = 1..Len(toDaemon) /\ Len(toDaemon) \in Nat
  BY SequenceDomain DEF AccountsTypeOK
<1>10. toDaemon' \in Seq(Read) /\ Joined(toDaemon', toDaemon, new)
  BY <1>4, <1>8, <1>9, SequenceJoined
<1>11. DOMAIN toDaemon' = 1..Len(toDaemon) + n
  BY <1>8, <1>10, SequenceDomain DEF Joined
<1>12. ASSUME NEW k \in DOMAIN toDaemon PROVE k \in DOMAIN toDaemon' /\ toDaemon'[k] = toDaemon[k]
  BY <1>5, <1>9, <1>10, <1>11 DEF Joined
<1>13. ASSUME NEW k \in 1..n
       PROVE  /\ k + Len(toDaemon) \in DOMAIN toDaemon'
              /\ toDaemon'[k + Len(toDaemon)] = new[k]
  BY <1>5, <1>8, <1>9, <1>10, <1>11 DEF Joined
<1>14. ASSUME NEW k \in DOMAIN toDaemon', k \notin DOMAIN toDaemon
       PROVE  toDaemon'[k].user = m_user
  <2>1. k - Len(toDaemon) \in 1..n /\ (k - Len(toDaemon)) + Len(toDaemon) = k
    BY <1>5, <1>9, <1>11, <1>14
  <2>2. toDaemon'[k] = new[k - Len(toDaemon)]
    BY <1>13, <2>1
  <2> QED
    BY <1>2, <1>6, <2>1, <2>2
<1>15. ASSUME NEW p \in props PROVE \E k \in DOMAIN toDaemon' : toDaemon'[k].prop = p
  <2>1. PICK e \in S : e.prop = p
    BY <1>3
  <2>2. PICK k \in 1..n : new[k] = e
    BY <1>7
  <2> QED
    BY <1>13, <2>1, <2>2
<1> QED
  BY <1>10, <1>12, <1>14, <1>15

\* Messages are added: what holds of the cache and the queue goes on to hold, if
\* what is new is right.
LEMMA SentMore ==
    ASSUME CacheInv, NEW more \in Seq(Message), Paired(more, FALSE),
           \A k \in DOMAIN more : more[k].kind = "Reply" =>
               more[k].user \in known /\ more[k].value = stored[more[k].user][more[k].prop]
    PROVE  LET q == toClient \o more IN
           /\ q \in Seq(Message) /\ Paired(q, ignoreNext) /\ RepliesTrue(q, ignoreNext, stored)
           /\ \A k \in DOMAIN q : q[k].kind = "Reply" => q[k].user \in known
           /\ \A p : \/ Coming(toClient, ignoreNext, m_user, p)
                     \/ Coming(more, FALSE, m_user, p)
                     => Coming(q, ignoreNext, m_user, p)
<1> DEFINE q == toClient \o more
<1>1. toClient \in Seq(Message) /\ ignoreNext \in BOOLEAN /\ Paired(toClient, ignoreNext)
  BY DEF CacheInv, AccountsTypeOK
<1>2. q \in Seq(Message) /\ Paired(q, ignoreNext) /\ Grown(q, toClient, more, ignoreNext)
  BY <1>1, QueueGrows
<1>3. RepliesTrue(q, ignoreNext, stored)
  BY <1>1, GrowsTrue DEF CacheInv
<1>4. \A p : Coming(toClient, ignoreNext, m_user, p) \/ Coming(more, FALSE, m_user, p)
             => Coming(q, ignoreNext, m_user, p)
  BY <1>1, GrowsComing
<1> HIDE DEF q
<1>5. ASSUME NEW k \in DOMAIN q, q[k].kind = "Reply" PROVE q[k].user \in known
  <2>1. CASE k \in DOMAIN toClient
    BY <1>2, <1>5, <2>1 DEF Grown, CacheInv
  <2>2. ASSUME NEW i \in DOMAIN more, k = i + Len(toClient) PROVE q[k].user \in known
    <3>1. q[i + Len(toClient)] = more[i]
      BY <1>2 DEF Grown
    <3> QED
      BY <1>5, <2>2, <3>1
  <2> QED
    BY <1>2, <2>1, <2>2 DEF Grown
<1> QED
  BY <1>2, <1>3, <1>4, <1>5 DEF q

LEMMA DaemonAnswersKeeps ==
    ASSUME CacheInv, DaemonAnswers
    PROVE  CacheInv'
<1> DEFINE read == Head(toDaemon)
           more == <<Answer(read)>>
<1>1. toDaemon \in Seq(Read) /\ toDaemon # <<>> /\ toClient \in Seq(Message)
  BY DEF CacheInv, AccountsTypeOK, DaemonAnswers
<1>2. /\ read = toDaemon[1] /\ 1 \in DOMAIN toDaemon /\ read \in Read
      /\ toDaemon' = Tail(toDaemon) /\ toDaemon' \in Seq(Read)
      /\ \A k \in DOMAIN toDaemon' : k + 1 \in DOMAIN toDaemon /\ toDaemon'[k] = toDaemon[k + 1]
      /\ \A k \in DOMAIN toDaemon : k # 1 =>
            k - 1 \in DOMAIN toDaemon' /\ toDaemon'[k - 1] = toDaemon[k]
  BY <1>1, SequenceTail DEF DaemonAnswers
<1>3. /\ Answer(read) \in Message /\ Answer(read).kind = "Reply"
      /\ Answer(read).user = m_user /\ Answer(read).prop = read.prop
      /\ Answer(read).value = stored[m_user][read.prop]
  <2>1. read.user = m_user /\ m_user \in Users /\ read.prop \in Props
    BY <1>2 DEF CacheInv, Read
  <2>2. stored[m_user][read.prop] \in Values
    BY <2>1 DEF CacheInv, AccountsTypeOK
  <2> QED
    BY <2>1, <2>2 DEF Answer, Message
<1> HIDE DEF read
<1>4. /\ more \in Seq(Message) /\ Paired(more, FALSE)
      /\ \A k \in DOMAIN more : more[k].kind = "Reply" =>
            more[k].user \in known /\ more[k].value = stored[more[k].user][more[k].prop]
      /\ Coming(more, FALSE, m_user, read.prop)
  <2>1. more \in Seq(Message) /\ DOMAIN more = {1} /\ more[1] = Answer(read)
    BY <1>3
  <2>2. m_user \in known
    BY DEF CacheInv
  <2> HIDE DEF more
  <2> QED
    BY <1>3, <2>1, <2>2 DEF Paired, Coming
<1>5. toClient' = toClient \o more
  BY <1>1, <1>3, AppendIsConcat DEF DaemonAnswers, read
<1> HIDE DEF more
<1>6. /\ toClient' \in Seq(Message) /\ Paired(toClient', ignoreNext)
      /\ RepliesTrue(toClient', ignoreNext, stored)
      /\ \A k \in DOMAIN toClient' : toClient'[k].kind = "Reply" => toClient'[k].user \in known
      /\ \A p : \/ Coming(toClient, ignoreNext, m_user, p)
                \/ Coming(more, FALSE, m_user, p)
                => Coming(toClient', ignoreNext, m_user, p)
  BY <1>4, <1>5, SentMore, Zenon
<1>7. UNCHANGED <<stored, m_user, cache, known, ignoreNext, strayed>>
  BY DEF DaemonAnswers, clientVars
<1>8. CacheFollows'
  <2> SUFFICES ASSUME NEW p \in Props \ strayed, cache[p] # stored[m_user][p]
               PROVE  CatchingUp(p)'
    BY <1>7 DEF CacheFollows
  <2>1. CASE Coming(toClient, ignoreNext, m_user, p)
    BY <1>6, <1>7, <2>1 DEF CatchingUp
  <2>2. ASSUME NEW k \in DOMAIN toDaemon, toDaemon[k].prop = p
        PROVE  CatchingUp(p)'
    <3>1. CASE k = 1
      BY <1>2, <1>4, <1>6, <1>7, <2>2, <3>1 DEF CatchingUp
    <3>2. CASE k # 1
      BY <1>2, <2>2, <3>2 DEF CatchingUp
    <3> QED
      BY <3>1, <3>2
  <2> QED
    BY <2>1, <2>2 DEF CacheInv, CacheFollows, CatchingUp
<1>9. \A k \in DOMAIN toDaemon' : toDaemon'[k].user = m_user
  BY <1>2 DEF CacheInv
<1>10. AccountsTypeOK'
  BY <1>2, <1>6, <1>7 DEF CacheInv, AccountsTypeOK
<1> QED
  BY <1>6, <1>7, <1>8, <1>9, <1>10 DEF CacheInv

\* Somebody else writes p of u, or the greeter does.
LEMMA OtherWritesKeeps ==
    ASSUME CacheInv, NEW u \in Users, NEW p \in Props, NEW v \in Values, OtherWrites(u, p, v)
    PROVE  CacheInv'
<1> DEFINE more == Announced(u, p)
<1>1. /\ stored' = [stored EXCEPT ![u][p] = v] /\ toClient' = toClient \o more
      /\ UNCHANGED <<m_user, cache, known, ignoreNext, strayed, toDaemon>>
  BY DEF OtherWrites, clientVars
<1>2. /\ more \in Seq(Message) /\ Paired(more, FALSE)
      /\ \A k \in DOMAIN more : more[k].kind # "Reply"
      /\ u \in known => Coming(more, FALSE, u, p)
  BY Announces DEF Coming
<1> HIDE DEF more
<1>3. /\ toClient' \in Seq(Message) /\ Paired(toClient', ignoreNext)
      /\ \A k \in DOMAIN toClient' : toClient'[k].kind = "Reply" => toClient'[k].user \in known
      /\ \A o : \/ Coming(toClient, ignoreNext, m_user, o)
                \/ Coming(more, FALSE, m_user, o)
                => Coming(toClient', ignoreNext, m_user, o)
  BY <1>1, <1>2, SentMore, Zenon
<1>4. /\ stored' \in [Users -> [Props -> Values]]
      /\ \A w \in Users, o \in Props : w # u \/ o # p => stored'[w][o] = stored[w][o]
  BY <1>1 DEF CacheInv, AccountsTypeOK
<1>5. RepliesTrue(toClient', ignoreNext, stored')
  <2>1. toClient \in Seq(Message) /\ ignoreNext \in BOOLEAN
    BY DEF CacheInv, AccountsTypeOK
  <2>2. RepliesTrue(toClient \o Announced(u, p), ignoreNext, stored')
    <3>1. /\ Paired(toClient, ignoreNext) /\ RepliesTrue(toClient, ignoreNext, stored)
          /\ \A k \in DOMAIN toClient : toClient[k].kind = "Reply" => toClient[k].user \in known
      BY DEF CacheInv
    <3> QED
      BY <1>4, <2>1, <3>1, WriteAnnounced, SMTT(40)
  <2> QED
    BY <1>1, <2>2 DEF more
<1>6. CacheFollows'
  <2> SUFFICES ASSUME NEW o \in Props \ strayed, cache[o] # stored'[m_user][o]
               PROVE  CatchingUp(o)'
    BY <1>1 DEF CacheFollows
  <2>1. CASE m_user = u /\ o = p
    BY <1>1, <1>2, <1>3, <2>1 DEF CacheInv, CatchingUp
  <2>2. CASE ~(m_user = u /\ o = p)
    <3>1. stored'[m_user][o] = stored[m_user][o]
      BY <1>4, <2>2 DEF CacheInv, AccountsTypeOK
    <3>2. CatchingUp(o)
      BY <3>1 DEF CacheInv, CacheFollows
    <3> QED
      BY <1>1, <1>3, <3>2 DEF CatchingUp
  <2> QED
    BY <2>1, <2>2
<1>7. AccountsTypeOK'
  BY <1>1, <1>3, <1>4 DEF CacheInv, AccountsTypeOK
<1> QED
  BY <1>1, <1>3, <1>5, <1>6, <1>7 DEF CacheInv

\* Answers to all that was asked, ahead of anything sent later.
LEMMA AnsweredAll ==
    ASSUME CacheInv
    PROVE  LET q == toClient \o Answers IN
           /\ q \in Seq(Message) /\ Paired(q, ignoreNext) /\ RepliesTrue(q, ignoreNext, stored)
           /\ \A k \in DOMAIN q : q[k].kind = "Reply" => q[k].user \in known
           /\ \A p : CatchingUp(p) => Coming(q, ignoreNext, m_user, p)
<1>1. /\ Answers \in Seq(Message) /\ DOMAIN Answers = DOMAIN toDaemon
      /\ Paired(Answers, FALSE)
      /\ \A k \in DOMAIN Answers :
            /\ Answers[k].kind = "Reply"
            /\ Answers[k].user = toDaemon[k].user /\ Answers[k].prop = toDaemon[k].prop
            /\ Answers[k].value = stored[Answers[k].user][Answers[k].prop]
  BY AnswersAre DEF CacheInv
<1>2. \A k \in DOMAIN toDaemon : toDaemon[k].user = m_user /\ m_user \in known
  BY DEF CacheInv
<1>3. ASSUME NEW p, NEW k \in DOMAIN toDaemon, toDaemon[k].prop = p
      PROVE  Coming(Answers, FALSE, m_user, p)
  BY <1>1, <1>2, <1>3 DEF Coming
<1>4. PICK q : q = toClient \o Answers
  OBVIOUS
<1>5. /\ q \in Seq(Message) /\ Paired(q, ignoreNext) /\ RepliesTrue(q, ignoreNext, stored)
      /\ \A k \in DOMAIN q : q[k].kind = "Reply" => q[k].user \in known
      /\ \A p : \/ Coming(toClient, ignoreNext, m_user, p)
                \/ Coming(Answers, FALSE, m_user, p)
                => Coming(q, ignoreNext, m_user, p)
  BY <1>1, <1>2, <1>4, SentMore, Zenon
<1> QED
  BY <1>3, <1>4, <1>5 DEF CatchingUp

LEMMA SetPropertyKeeps ==
    ASSUME CacheInv, NEW p \in Settable, NEW v \in Values, SetProperty(p, v)
    PROVE  CacheInv'
<1> DEFINE more == Announced(m_user, p)
<1>1. PICK q : q = toClient \o Answers
  OBVIOUS
<1>2. /\ q \in Seq(Message) /\ Paired(q, ignoreNext) /\ RepliesTrue(q, ignoreNext, stored)
      /\ \A k \in DOMAIN q : q[k].kind = "Reply" => q[k].user \in known
      /\ \A o : CatchingUp(o) => Coming(q, ignoreNext, m_user, o)
  BY <1>1, AnsweredAll
<1>3. p \in Props /\ m_user \in Users /\ m_user \in known
  BY AccountsAssumption DEF Props, CacheInv, AccountsTypeOK
<1>4. /\ more \in Seq(Message) /\ Paired(more, FALSE)
      /\ \A k \in DOMAIN more : more[k].kind # "Reply"
  BY <1>3, Announces
<1>5. /\ cache' = [cache EXCEPT ![p] = v] /\ strayed' = strayed \ {p}
      /\ stored' = [stored EXCEPT ![m_user][p] = v]
      /\ toClient' = toClient \o Answers \o more /\ toDaemon' = <<>>
      /\ UNCHANGED <<m_user, known, ignoreNext>>
  BY DEF SetProperty
<1>6. toClient' = q \o more
  BY <1>1, <1>5
<1>7. ignoreNext \in BOOLEAN
  BY DEF CacheInv, AccountsTypeOK
<1>8. /\ stored' \in [Users -> [Props -> Values]] /\ stored'[m_user][p] = v
      /\ \A w \in Users, o \in Props : w # m_user \/ o # p => stored'[w][o] = stored[w][o]
  BY <1>3, <1>5 DEF CacheInv, AccountsTypeOK
<1>9. RepliesTrue(toClient', ignoreNext, stored')
  <2>1. RepliesTrue(q \o Announced(m_user, p), ignoreNext, stored')
    BY <1>2, <1>3, <1>7, <1>8, WriteAnnounced
  <2> QED
    BY <1>6, <2>1
<1> HIDE DEF more
<1>10. /\ toClient' \in Seq(Message) /\ Paired(toClient', ignoreNext)
       /\ Grown(toClient', q, more, ignoreNext)
  BY <1>2, <1>4, <1>6, <1>7, QueueGrows
<1>11. ASSUME NEW k \in DOMAIN toClient', toClient'[k].kind = "Reply"
       PROVE  toClient'[k].user \in known
  <2>1. CASE k \in DOMAIN q
    BY <1>2, <1>10, <1>11, <2>1 DEF Grown
  <2>2. ASSUME NEW i \in DOMAIN more, k = i + Len(q) PROVE FALSE
    <3>1. toClient'[i + Len(q)] = more[i]
      BY <1>10 DEF Grown
    <3> QED
      BY <1>4, <1>11, <2>2, <3>1
  <2> QED
    BY <1>10, <2>1, <2>2 DEF Grown
<1>12. CacheFollows'
  <2> SUFFICES ASSUME NEW o \in Props \ strayed', cache'[o] # stored'[m_user][o]
               PROVE  CatchingUp(o)'
    BY <1>5 DEF CacheFollows
  <2>1. o # p /\ o \notin strayed
    BY <1>3, <1>5, <1>8 DEF CacheInv, AccountsTypeOK
  <2>2. cache'[o] = cache[o] /\ stored'[m_user][o] = stored[m_user][o]
    BY <1>3, <1>5, <1>8, <2>1 DEF CacheInv, AccountsTypeOK
  <2>3. Coming(q, ignoreNext, m_user, o)
    BY <1>2, <2>1, <2>2 DEF CacheInv, CacheFollows
  <2>4. Coming(q \o more, ignoreNext, m_user, o)
    BY <1>2, <1>4, <1>7, <2>3, GrowsComing
  <2> QED
    BY <1>5, <1>6, <2>4 DEF CatchingUp
<1>13. AccountsTypeOK'
  <2>1. cache' \in [Props -> Values] /\ strayed' \subseteq Props
    BY <1>5 DEF CacheInv, AccountsTypeOK
  <2>2. toDaemon' \in Seq(Read)
    BY <1>5
  <2> QED
    BY <1>5, <1>8, <1>10, <2>1, <2>2 DEF CacheInv, AccountsTypeOK
<1>14. DOMAIN toDaemon' = {}
  BY <1>5
<1> QED
  BY <1>3, <1>5, <1>9, <1>10, <1>11, <1>12, <1>13, <1>14 DEF CacheInv

LEMMA SetUserKeeps ==
    ASSUME CacheInv, NEW u \in Users, SetUser(u)
    PROVE  CacheInv'
<1>1. PICK q : q = toClient \o Answers
  OBVIOUS
<1>2. /\ q \in Seq(Message) /\ Paired(q, ignoreNext) /\ RepliesTrue(q, ignoreNext, stored)
      /\ \A k \in DOMAIN q : q[k].kind = "Reply" => q[k].user \in known
  BY <1>1, AnsweredAll
<1>3. /\ m_user' = u /\ known' = known \cup {u} /\ cache' = stored[u] /\ strayed' = {}
      /\ toClient' = q /\ toDaemon' = <<>> /\ UNCHANGED <<stored, ignoreNext>>
  BY <1>1 DEF SetUser
<1>4. CacheFollows'
  BY <1>3 DEF CacheFollows
<1>5. AccountsTypeOK'
  BY <1>2, <1>3 DEF CacheInv, AccountsTypeOK
<1>6. DOMAIN toDaemon' = {}
  BY <1>3
<1> QED
  BY <1>2, <1>3, <1>4, <1>5, <1>6 DEF CacheInv

\* The first message is taken, and the flag set as it says.
LEMMA Delivered ==
    ASSUME CacheInv, toClient # <<>>, toClient' = Tail(toClient),
           ignoreNext' \in BOOLEAN, ignoreNext' <=> Head(toClient).kind = "PropertiesChanged",
           UNCHANGED <<stored, m_user, known>>
    PROVE  /\ Head(toClient) \in Message /\ Head(toClient) = toClient[1]
           /\ 1 \in DOMAIN toClient
           /\ toClient' \in Seq(Message) /\ Paired(toClient', ignoreNext')
           /\ RepliesTrue(toClient', ignoreNext', stored)
           /\ \A k \in DOMAIN toClient' : toClient'[k].kind = "Reply" => toClient'[k].user \in known
           /\ \A p : Coming(toClient, ignoreNext, m_user, p) =>
                 \/ Coming(toClient', ignoreNext', m_user, p)
                 \/ /\ Head(toClient).kind = "Reply"
                    /\ Head(toClient).user = m_user /\ Head(toClient).prop = p
                 \/ Notice(toClient, ignoreNext, 1, m_user, p)
<1>1. toClient \in Seq(Message) /\ ignoreNext \in BOOLEAN /\ Paired(toClient, ignoreNext)
  BY DEF CacheInv, AccountsTypeOK
<1>2. /\ Head(toClient) \in Message /\ Head(toClient) = toClient[1] /\ 1 \in DOMAIN toClient
      /\ Tail(toClient) \in Seq(Message)
      /\ \A k \in DOMAIN Tail(toClient) :
            k + 1 \in DOMAIN toClient /\ Tail(toClient)[k] = toClient[k + 1]
  BY <1>1, SequenceTail
<1>3. PICK now \in BOOLEAN : now = ignoreNext'
  OBVIOUS
<1>4. now <=> Head(toClient).kind = "PropertiesChanged"
  BY <1>3
<1>5. Paired(Tail(toClient), now)
  BY <1>1, <1>4, QueueShrinks
<1>6. RepliesTrue(Tail(toClient), now, stored)
  BY <1>1, <1>4, ShrinksTrue DEF CacheInv
<1>7. \A k \in DOMAIN Tail(toClient) :
         Tail(toClient)[k].kind = "Reply" => Tail(toClient)[k].user \in known
  BY <1>2 DEF CacheInv
<1>8. \A p : Coming(toClient, ignoreNext, m_user, p) =>
         \/ Coming(Tail(toClient), now, m_user, p)
         \/ /\ Head(toClient).kind = "Reply"
            /\ Head(toClient).user = m_user /\ Head(toClient).prop = p
         \/ Notice(toClient, ignoreNext, 1, m_user, p)
  BY <1>1, <1>4, ShrinksComing
<1> QED
  BY <1>2, <1>3, <1>5, <1>6, <1>7, <1>8

LEMMA ReplyArrivesKeeps ==
    ASSUME CacheInv, ReplyArrives
    PROVE  CacheInv'
<1> DEFINE reply == Head(toClient)
<1>1. /\ toClient # <<>> /\ reply.kind = "Reply" /\ toClient' = Tail(toClient)
      /\ cache' = [cache EXCEPT ![reply.prop] = reply.value]
      /\ strayed' = IF reply.user = m_user THEN strayed \ {reply.prop}
                    ELSE strayed \cup {reply.prop}
      /\ UNCHANGED <<stored, m_user, known, ignoreNext, toDaemon>>
  BY DEF ReplyArrives
<1>2. ~ignoreNext /\ ignoreNext' \in BOOLEAN
  <2>1. toClient \in Seq(Message) /\ reply = toClient[1] /\ ignoreNext \in BOOLEAN
    BY <1>1, SequenceTail DEF CacheInv, AccountsTypeOK
  <2> QED
    BY <1>1, <2>1 DEF CacheInv, Paired
<1>3. /\ reply \in Message /\ reply = toClient[1] /\ 1 \in DOMAIN toClient
      /\ toClient' \in Seq(Message) /\ Paired(toClient', ignoreNext)
      /\ RepliesTrue(toClient', ignoreNext, stored)
      /\ \A k \in DOMAIN toClient' : toClient'[k].kind = "Reply" => toClient'[k].user \in known
      /\ \A p : Coming(toClient, ignoreNext, m_user, p) =>
            \/ Coming(toClient', ignoreNext, m_user, p)
            \/ reply.user = m_user /\ reply.prop = p
            \/ Notice(toClient, ignoreNext, 1, m_user, p)
  BY <1>1, <1>2, Delivered
<1>4. reply.prop \in Props /\ reply.value \in Values
  BY <1>1, <1>3, MessageFields
<1>5. \A p : ~Notice(toClient, ignoreNext, 1, m_user, p)
  BY <1>1, <1>3 DEF Notice
<1>6. ASSUME reply.value # stored[m_user][reply.prop], reply.user = m_user
      PROVE  Coming(toClient', ignoreNext, m_user, reply.prop)
  <2>1. PICK j \in DOMAIN toClient :
           1 < j /\ Notice(toClient, ignoreNext, j, m_user, reply.prop)
    BY <1>1, <1>3, <1>6 DEF CacheInv, RepliesTrue
  <2>2. /\ toClient \in Seq(Message) /\ ignoreNext \in BOOLEAN
        /\ Paired(toClient, ignoreNext) /\ (ignoreNext <=> reply.kind = "PropertiesChanged")
    BY <1>1, <1>2 DEF CacheInv, AccountsTypeOK
  <2>3. j # 1 /\ j \in Nat /\ (j - 1) + 1 = j
    BY <2>1, <2>2, SequenceDomain
  <2>4. j - 1 \in DOMAIN toClient'
    BY <1>1, <2>2, <2>3, SequenceTail
  <2>5. \A k \in DOMAIN Tail(toClient) : \A u, p :
           Notice(Tail(toClient), ignoreNext, k, u, p) <=> Notice(toClient, ignoreNext, k + 1, u, p)
    BY <1>1, <2>2, QueueShrinks
  <2>6. Notice(toClient', ignoreNext, j - 1, m_user, reply.prop)
    BY <1>1, <2>1, <2>3, <2>4, <2>5
  <2> QED
    BY <2>4, <2>6 DEF Coming
<1> HIDE DEF reply
<1>7. CacheFollows'
  <2> SUFFICES ASSUME NEW p \in Props \ strayed', cache'[p] # stored[m_user][p]
               PROVE  CatchingUp(p)'
    BY <1>1 DEF CacheFollows
  <2>1. CASE p = reply.prop
    <3>1. reply.user = m_user
      BY <1>1, <2>1
    <3>2. cache'[p] = reply.value
      BY <1>1, <1>4, <2>1 DEF CacheInv, AccountsTypeOK
    <3> QED
      BY <1>1, <1>6, <2>1, <3>1, <3>2 DEF CatchingUp
  <2>2. CASE p # reply.prop
    <3>1. cache'[p] = cache[p] /\ p \in Props \ strayed
      BY <1>1, <2>2 DEF CacheInv, AccountsTypeOK
    <3>2. CatchingUp(p)
      BY <3>1 DEF CacheInv, CacheFollows
    <3> QED
      BY <1>1, <1>3, <1>5, <2>2, <3>2 DEF CatchingUp
  <2> QED
    BY <2>1, <2>2
<1>8. AccountsTypeOK'
  BY <1>1, <1>3, <1>4 DEF CacheInv, AccountsTypeOK
<1> QED
  BY <1>1, <1>3, <1>7, <1>8 DEF CacheInv

\* A signal is handled: what it is a notice of is asked for.
LEMMA SignalHandled ==
    ASSUME CacheInv, toClient # <<>>, toClient' = Tail(toClient), Head(toClient).kind # "Reply",
           ignoreNext' \in BOOLEAN, ignoreNext' <=> Head(toClient).kind = "PropertiesChanged",
           UNCHANGED <<stored, m_user, cache, known, strayed>>,
           NEW props \in SUBSET Props, IsFiniteSet(props),
           (UNCHANGED toDaemon /\ props = {}) \/ Update(props),
           \A p : Notice(toClient, ignoreNext, 1, m_user, p) => p \in props
    PROVE  CacheInv'
<1>1. /\ toClient' \in Seq(Message) /\ Paired(toClient', ignoreNext')
      /\ RepliesTrue(toClient', ignoreNext', stored)
      /\ \A k \in DOMAIN toClient' : toClient'[k].kind = "Reply" => toClient'[k].user \in known
      /\ \A p : Coming(toClient, ignoreNext, m_user, p) =>
            \/ Coming(toClient', ignoreNext', m_user, p)
            \/ Notice(toClient, ignoreNext, 1, m_user, p)
  BY Delivered
<1>2. /\ toDaemon' \in Seq(Read)
      /\ \A k \in DOMAIN toDaemon : k \in DOMAIN toDaemon' /\ toDaemon'[k] = toDaemon[k]
      /\ \A k \in DOMAIN toDaemon' : toDaemon'[k].user = m_user
      /\ \A p \in props : \E k \in DOMAIN toDaemon' : toDaemon'[k].prop = p
  <2>1. CASE UNCHANGED toDaemon /\ props = {}
    BY <2>1 DEF CacheInv, AccountsTypeOK
  <2>2. CASE Update(props)
    BY <2>2, UpdateReads DEF CacheInv
  <2> QED
    BY <2>1, <2>2
<1>3. CacheFollows'
  <2> SUFFICES ASSUME NEW p \in Props \ strayed, cache[p] # stored[m_user][p]
               PROVE  CatchingUp(p)'
    BY DEF CacheFollows
  <2>1. CatchingUp(p)
    BY DEF CacheInv, CacheFollows
  <2>2. CASE \E k \in DOMAIN toDaemon : toDaemon[k].prop = p
    BY <1>2, <2>2 DEF CatchingUp
  <2>3. CASE Coming(toClient', ignoreNext', m_user, p)
    BY <2>3 DEF CatchingUp
  <2>4. CASE p \in props
    BY <1>2, <2>4 DEF CatchingUp
  <2> QED
    BY <1>1, <2>1, <2>2, <2>3, <2>4 DEF CatchingUp
<1>4. AccountsTypeOK'
  BY <1>1, <1>2 DEF CacheInv, AccountsTypeOK
<1> QED
  BY <1>1, <1>2, <1>3, <1>4 DEF CacheInv

LEMMA FirstMessage ==
    ASSUME CacheInv, toClient # <<>>
    PROVE  Head(toClient) \in Message /\ Head(toClient) = toClient[1]
  BY SequenceTail DEF CacheInv, AccountsTypeOK

LEMMA OnPropertiesChangedKeeps ==
    ASSUME CacheInv, OnPropertiesChanged
    PROVE  CacheInv'
<1> DEFINE m == Head(toClient)
           props == IF m.user = m_user THEN {m.prop} \cap Custom ELSE {}
<1>1. /\ toClient # <<>> /\ m.kind = "PropertiesChanged" /\ ignoreNext' = TRUE
      /\ toClient' = Tail(toClient) /\ UNCHANGED <<stored, m_user, cache, known, strayed>>
  BY DEF OnPropertiesChanged
<1>2. (UNCHANGED toDaemon /\ props = {}) \/ Update(props)
  BY DEF OnPropertiesChanged
<1>3. m \in Message /\ m = toClient[1]
  BY <1>1, FirstMessage
<1>4. props \in SUBSET Props /\ IsFiniteSet(props)
  <2>1. props \subseteq {m.prop} /\ IsFiniteSet({m.prop})
    BY FS_Singleton
  <2>2. IsFiniteSet(props)
    BY <2>1, FS_Subset
  <2> QED
    BY <2>2 DEF Props
<1>5. ASSUME NEW p, Notice(toClient, ignoreNext, 1, m_user, p) PROVE p \in props
  BY <1>1, <1>3, <1>5 DEF Notice
<1> HIDE DEF props, m
<1>6. Head(toClient).kind # "Reply" /\ Head(toClient).kind = "PropertiesChanged"
  BY <1>1 DEF m
<1> QED
  BY <1>1, <1>2, <1>4, <1>5, <1>6, SignalHandled

LEMMA OnMaybeChangedKeeps ==
    ASSUME CacheInv, OnMaybeChanged
    PROVE  CacheInv'
<1> DEFINE m == Head(toClient)
           props == IF ~ignoreNext /\ m.user = m_user THEN Builtin ELSE {}
<1>1. /\ toClient # <<>> /\ m.kind = "Changed" /\ ignoreNext' = FALSE
      /\ toClient' = Tail(toClient) /\ UNCHANGED <<stored, m_user, cache, known, strayed>>
  BY DEF OnMaybeChanged
<1>2. (UNCHANGED toDaemon /\ props = {}) \/ Update(props)
  BY DEF OnMaybeChanged
<1>3. m \in Message /\ m = toClient[1]
  BY <1>1, FirstMessage
<1>4. props \in SUBSET Props /\ IsFiniteSet(props)
  BY AccountsAssumption, FS_EmptySet DEF Props
<1>5. ASSUME NEW p, Notice(toClient, ignoreNext, 1, m_user, p) PROVE p \in props
  BY <1>1, <1>3, <1>5 DEF Notice, Skipped
<1> HIDE DEF props, m
<1>6. Head(toClient).kind # "Reply" /\ Head(toClient).kind # "PropertiesChanged"
  BY <1>1 DEF m
<1> QED
  BY <1>1, <1>2, <1>4, <1>5, <1>6, SignalHandled

LEMMA SessionSyncsKeeps ==
    ASSUME CacheInv, NEW u \in Users, NEW list, SessionSyncs(u, list)
    PROVE  CacheInv'
<1>1. PICK more : more = Announced(u, LauncherItems)
  OBVIOUS
<1>2. /\ more \in Seq(Message) /\ Paired(more, FALSE)
      /\ \A k \in DOMAIN more : more[k].kind # "Reply"
  BY <1>1, Announces
<1>3. /\ toClient' = toClient \o more
      /\ UNCHANGED <<stored, m_user, cache, known, ignoreNext, strayed, toDaemon>>
  BY <1>1 DEF SessionSyncs, clientVars
<1>4. /\ toClient' \in Seq(Message) /\ Paired(toClient', ignoreNext)
      /\ RepliesTrue(toClient', ignoreNext, stored)
      /\ \A k \in DOMAIN toClient' : toClient'[k].kind = "Reply" => toClient'[k].user \in known
      /\ \A p : \/ Coming(toClient, ignoreNext, m_user, p)
                \/ Coming(more, FALSE, m_user, p)
                => Coming(toClient', ignoreNext, m_user, p)
  BY <1>2, <1>3, SentMore, Zenon
<1>5. CacheFollows'
  BY <1>3, <1>4 DEF CacheInv, CacheFollows, CatchingUp
<1>6. AccountsTypeOK'
  BY <1>3, <1>4 DEF CacheInv, AccountsTypeOK
<1> QED
  BY <1>3, <1>4, <1>5, <1>6 DEF CacheInv

LEMMA CacheUnchanged ==
    ASSUME CacheInv, UNCHANGED accountsVars
    PROVE  CacheInv'
<1> USE DEF accountsVars, clientVars
<1>1. AccountsTypeOK'
  BY DEF CacheInv, AccountsTypeOK
<1>2. CacheFollows'
  BY DEF CacheInv, CacheFollows, CatchingUp
<1> QED
  BY <1>1, <1>2 DEF CacheInv

LEMMA CacheStarts ==
    ASSUME Init
    PROVE  CacheInv
<1>1. /\ stored \in [Users -> [Props -> Values]] /\ m_user \in Users
      /\ cache = stored[m_user] /\ known = {m_user} /\ ignoreNext = FALSE
      /\ toDaemon = <<>> /\ toClient = <<>> /\ strayed = {}
  BY DEF Init, AccountsInit
<1>2. AccountsTypeOK
  <2>1. cache \in [Props -> Values] /\ toDaemon \in Seq(Read) /\ toClient \in Seq(Message)
    BY <1>1
  <2> QED
    BY <1>1, <2>1 DEF AccountsTypeOK
<1>3. DOMAIN toDaemon = {} /\ DOMAIN toClient = {}
  BY <1>1
<1> QED
  BY <1>1, <1>2, <1>3 DEF CacheInv, CacheFollows, Paired, RepliesTrue

LEMMA CacheKeeps ==
    ASSUME CacheInv, [Next]_vars
    PROVE  CacheInv'
<1>1. CASE CacheSteps
  BY <1>1, DaemonAnswersKeeps, ReplyArrivesKeeps, OnMaybeChangedKeeps, OtherWritesKeeps,
     SetPropertyKeeps DEF CacheSteps
<1>2. ASSUME NEW u \in Users, NEW list \in SessionLists, SessionSyncs(u, list)
      PROVE  CacheInv'
  BY <1>2, SessionSyncsKeeps
<1>3. CASE PropertiesChanged
  BY <1>3, OnPropertiesChangedKeeps DEF PropertiesChanged
<1>4. ASSUME NEW u \in Users, SelectUser(u) PROVE CacheInv'
  BY <1>4, SetUserKeeps DEF SelectUser
<1>5. ASSUME NEW only \in BOOLEAN, SetOnlyPinned(only) PROVE CacheInv'
  BY <1>5, CacheUnchanged DEF SetOnlyPinned
<1>6. CASE UNCHANGED vars
  BY <1>6, CacheUnchanged DEF vars
<1> QED
  BY <1>1, <1>2, <1>3, <1>4, <1>5, <1>6 DEF Next

\* CacheCatchesUp: when nothing is under way the cache has what the daemon keeps
\* for its user, a property answered for another one apart.  No signal is lost, also
\* none that follows the signal of a custom property, and no answer that was
\* overtaken by a change stays: for any number of properties, users and messages.
THEOREM CacheIsCurrent == Spec => []CacheCatchesUp
<1>1. CacheInv => CacheCatchesUp
  <2> SUFFICES ASSUME CacheInv, toDaemon = <<>>, toClient = <<>>, NEW p \in Props \ strayed
               PROVE  cache[p] = stored[m_user][p]
    BY DEF CacheCatchesUp
  <2>1. ~CatchingUp(p)
    BY DEF CatchingUp, Coming
  <2> QED
    BY <2>1 DEF CacheInv, CacheFollows
<1>2. Init => CacheInv
  BY CacheStarts
<1>3. CacheInv /\ [Next]_vars => CacheInv'
  BY CacheKeeps
<1> QED
  BY <1>1, <1>2, <1>3, PTL DEF Spec

-----------------------------------------------------------------------------
(* refresh() of the launcher.                                              *)

NoIdTwice(items) == \A i, j \in DOMAIN items : items[i].id = items[j].id => i = j
NoAppTwice(list) == \A i, j \in DOMAIN list : list[i].appId = list[j].appId => i = j

LEMMA ItemFields ==
    ASSUME NEW x \in AccountsItem
    PROVE  ToItem(x) \in Item /\ ToItem(x).appId = x.id /\ x.pinned \in BOOLEAN
  BY DEF AccountsItem, Item, ToItem

LEMMA ShownTwiceNone ==
    ASSUME NEW items \in Seq(AccountsItem), NoIdTwice(items), NEW only \in BOOLEAN
    PROVE  Shown(items, only) \in Seq(AccountsItem) /\ NoIdTwice(Shown(items, only))
<1> DEFINE K == {i \in DOMAIN items : ~only \/ items[i].pinned}
           r == Kept(items, K)
<1>1. r \in Seq(AccountsItem) /\ \E g : Selects(g, r, items, K)
  BY KeptSelects
<1>2. PICK g : Selects(g, r, items, K)
  BY <1>1
<1>3. DOMAIN r = 1..Len(r) /\ Len(r) \in Nat
  BY <1>1, SequenceDomain
<1> HIDE DEF r, K
<1>4. ASSUME NEW i \in DOMAIN r, NEW j \in DOMAIN r, r[i].id = r[j].id PROVE i = j
  <2>1. g[i] \in DOMAIN items /\ g[j] \in DOMAIN items /\ r[i] = items[g[i]] /\ r[j] = items[g[j]]
    BY <1>2 DEF Selects
  <2>2. g[i] = g[j]
    BY <1>4, <2>1 DEF NoIdTwice
  <2>3. ~(g[i] < g[j]) /\ ~(g[j] < g[i])
    <3>1. DOMAIN items = 1..Len(items) /\ Len(items) \in Nat
      BY SequenceDomain
    <3> QED
      BY <2>1, <2>2, <3>1
  <2>4. ~(i < j) /\ ~(j < i)
    BY <1>2, <2>3 DEF Selects
  <2> QED
    BY <1>3, <2>4
<1> QED
  BY <1>1, <1>4 DEF NoIdTwice, Shown, r, K

\* What the items of a list are while the second loop goes on: those of the items to
\* be shown, none twice, and the first i of them in their places.
Placed(l, i, shown) ==
    /\ l \in Seq(Item) /\ NoAppTwice(l)
    /\ i <= Len(l)
    /\ \A k \in 1..i : l[k] = ToItem(shown[k])
    /\ \A k \in DOMAIN l : \E j \in DOMAIN shown : l[k] = ToItem(shown[j])

LEMMA UpdatedIsPlaced ==
    ASSUME NEW list \in Seq(Item), NoAppTwice(list),
           NEW shown \in Seq(AccountsItem), NoIdTwice(shown)
    PROVE  Placed(Updated(list, shown), 0, shown)
<1> DEFINE K == {k \in DOMAIN list : \E i \in DOMAIN shown : shown[i].id = list[k].appId}
           kept == Kept(list, K)
           of(k) == CHOOSE i \in DOMAIN shown : shown[i].id = kept[k].appId
           l == Updated(list, shown)
<1>1. kept \in Seq(Item) /\ \E g : Selects(g, kept, list, K)
  BY KeptSelects
<1>2. PICK g : Selects(g, kept, list, K)
  BY <1>1
<1>3. /\ DOMAIN kept = 1..Len(kept) /\ Len(kept) \in Nat
      /\ DOMAIN list = 1..Len(list) /\ Len(list) \in Nat
  BY <1>1, SequenceDomain
<1>4. l = [k \in DOMAIN kept |-> ToItem(shown[of(k)])]
  BY DEF Updated, Named
<1>5. ASSUME NEW k \in DOMAIN kept
      PROVE  /\ g[k] \in DOMAIN list /\ kept[k] = list[g[k]]
             /\ of(k) \in DOMAIN shown /\ shown[of(k)].id = kept[k].appId
  <2>1. g[k] \in K /\ g[k] \in DOMAIN list /\ kept[k] = list[g[k]]
    BY <1>2 DEF Selects
  <2>2. \E i \in DOMAIN shown : shown[i].id = kept[k].appId
    BY <2>1
  <2> QED
    BY <2>1, <2>2
<1> HIDE DEF K, kept, of, l
<1>6. ASSUME NEW k \in DOMAIN kept
      PROVE  /\ l[k] = ToItem(shown[of(k)]) /\ l[k] \in Item
             /\ l[k].appId = list[g[k]].appId
  <2>1. shown[of(k)] \in AccountsItem
    BY <1>5, SequenceDomain
  <2> QED
    BY <1>4, <1>5, <2>1, ItemFields
<1>7. l \in Seq(Item) /\ DOMAIN l = 1..Len(kept) /\ Len(l) = Len(kept)
  BY <1>3, <1>4, <1>6
<1>8. ASSUME NEW i \in DOMAIN l, NEW j \in DOMAIN l, l[i].appId = l[j].appId PROVE i = j
  <2>0. /\ i \in DOMAIN kept /\ j \in DOMAIN kept
        /\ g[i] \in DOMAIN list /\ g[j] \in DOMAIN list
    BY <1>3, <1>5, <1>7
  <2>1. g[i] = g[j] /\ g[i] \in Nat
    <3>1. list[g[i]].appId = list[g[j]].appId
      BY <1>6, <1>8, <2>0
    <3> QED
      BY <2>0, <3>1, SequenceDomain DEF NoAppTwice
  <2>2. ~(i < j) /\ ~(j < i)
    BY <1>2, <1>3, <1>7, <2>1 DEF Selects
  <2> QED
    BY <1>3, <1>7, <2>2
<1>9. \A k \in DOMAIN l : \E j \in DOMAIN shown : l[k] = ToItem(shown[j])
  BY <1>3, <1>5, <1>6, <1>7
<1> QED
  BY <1>3, <1>7, <1>8, <1>9 DEF Placed, NoAppTwice, l

LEMMA PlacePlaces ==
    ASSUME NEW shown \in Seq(AccountsItem), NoIdTwice(shown),
           NEW i \in Nat, i + 1 \in DOMAIN shown, NEW l, Placed(l, i, shown)
    PROVE  Placed(Place(l, i + 1, shown[i + 1]), i + 1, shown)
<1> DEFINE x == shown[i + 1]
<1>n. PICK n : n = Len(l)
  OBVIOUS
<1>t. PICK t : t = Place(l, i + 1, x)
  OBVIOUS
<1>p. PICK p : p = i + 1
  OBVIOUS
<1>1. /\ l \in Seq(Item) /\ n \in Nat /\ DOMAIN l = 1..n /\ i <= n
      /\ DOMAIN shown = 1..Len(shown) /\ Len(shown) \in Nat
  BY <1>n, SequenceDomain DEF Placed
<1>2. \A j \in DOMAIN shown : shown[j] \in AccountsItem /\ ToItem(shown[j]).appId = shown[j].id
  BY SequenceDomain, ItemFields
<1>3. x \in AccountsItem /\ ToItem(x) \in Item /\ ToItem(x).appId = x.id
  BY SequenceDomain, ItemFields
<1>4. ASSUME NEW k \in DOMAIN l, l[k].appId = x.id
      PROVE  l[k] = ToItem(x) /\ i + 1 <= k
  <2>1. PICK j \in DOMAIN shown : l[k] = ToItem(shown[j])
    BY DEF Placed
  <2>2. j = i + 1
    BY <1>2, <1>4, <2>1 DEF NoIdTwice
  <2>3. ~(k \in 1..i)
    <3> SUFFICES ASSUME k \in 1..i PROVE FALSE
      OBVIOUS
    <3>1. l[k] = ToItem(shown[k]) /\ k \in DOMAIN shown /\ k # i + 1
      BY <1>1 DEF Placed
    <3> QED
      BY <1>2, <1>4, <3>1 DEF NoIdTwice
  <2> QED
    BY <1>1, <2>1, <2>2, <2>3
<1>5. CASE \E k \in DOMAIN l : l[k].appId = x.id
  <2>1. PICK k \in DOMAIN l :
           l[k].appId = x.id /\ t = InsertAt(RemoveAt(l, k), p, l[k])
    BY <1>5, <1>t, <1>p DEF Place
  <2>2. l[k] = ToItem(x) /\ i + 1 <= k /\ p \in 1..Len(l) /\ k \in 1..Len(l)
    BY <1>1, <1>4, <1>n, <1>p, <2>1
  <2>3. t \in Seq(Item) /\ Moved(t, l, k, p)
    <3>1. l \in Seq(Item) /\ k \in 1..Len(l) /\ t = InsertAt(RemoveAt(l, k), p, l[k])
      BY <1>1, <2>1, <2>2
    <3> QED
      BY <2>2, <3>1, ElementMoved
  <2> HIDE DEF x
  <2>4. PICK h : /\ Rearranged(t, l, h) /\ h[i + 1] = k
                 /\ \A m \in 1..n : m < i + 1 /\ m < k => h[m] = m
    BY <1>n, <1>p, <2>3 DEF Moved
  <2>5. /\ Len(t) = n /\ DOMAIN t = 1..n
        /\ \A m \in 1..n : h[m] \in 1..n /\ t[m] = l[h[m]]
        /\ \A m, o \in 1..n : h[m] = h[o] => m = o
    <3>1. DOMAIN t = 1..Len(t)
      BY <2>3, SequenceDomain
    <3> QED
      BY <1>n, <2>4, <3>1 DEF Rearranged
  <2>6. NoAppTwice(t)
    <3> SUFFICES ASSUME NEW m \in 1..n, NEW o \in 1..n, t[m].appId = t[o].appId PROVE m = o
      BY <2>5 DEF NoAppTwice
    <3>1. /\ h[m] \in DOMAIN l /\ h[o] \in DOMAIN l
          /\ l[h[m]].appId = l[h[o]].appId
      BY <1>1, <2>5
    <3>2. h[m] = h[o]
      BY <3>1 DEF Placed, NoAppTwice
    <3> QED
      BY <2>5, <3>2
  <2>7. ASSUME NEW m \in 1..i + 1 PROVE t[m] = ToItem(shown[m])
    <3>1. CASE m = i + 1
      BY <1>n, <1>p, <2>2, <2>4, <2>5, <3>1 DEF x
    <3>2. CASE m # i + 1
      <4>1. m \in 1..i /\ m \in 1..n /\ h[m] = m
        BY <1>1, <1>n, <1>p, <2>2, <2>4, <3>2
      <4> QED
        BY <2>5, <4>1 DEF Placed
    <3> QED
      BY <3>1, <3>2
  <2>8. ASSUME NEW m \in DOMAIN t PROVE \E j \in DOMAIN shown : t[m] = ToItem(shown[j])
    <3>1. h[m] \in DOMAIN l /\ t[m] = l[h[m]]
      BY <1>1, <2>5, <2>8
    <3> QED
      BY <3>1 DEF Placed
  <2>9. i + 1 <= Len(t)
    BY <1>n, <1>p, <2>2, <2>5
  <2> QED
    BY <1>t, <2>3, <2>6, <2>7, <2>8, <2>9 DEF Placed, x
<1>6. CASE ~\E k \in DOMAIN l : l[k].appId = x.id
  <2>0. PICK e : e = ToItem(x)
    OBVIOUS
  <2>1. t = InsertAt(l, p, e) /\ e \in Item
    BY <1>3, <1>6, <1>t, <1>p, <2>0 DEF Place
  <2>2. p \in 1..Len(l) + 1
    BY <1>1, <1>n, <1>p
  <2>3. /\ t \in Seq(Item) /\ Len(t) = n + 1
        /\ \A m \in 1..n + 1 :
              t[m] = IF m < i + 1 THEN l[m] ELSE IF m = i + 1 THEN ToItem(x) ELSE l[m - 1]
    <3>1. l \in Seq(Item) /\ e \in Item /\ t = InsertAt(l, p, e)
      BY <1>1, <2>1
    <3>2. t \in Seq(Item) /\ OneMore(t, l, p, e)
      BY <2>2, <3>1, ElementInserted
    <3> QED
      BY <1>n, <1>p, <2>0, <3>2 DEF OneMore
  <2> HIDE DEF x
  <2>4. DOMAIN t = 1..n + 1
    BY <2>3, SequenceDomain
  <2>5. ASSUME NEW m \in 1..n + 1
        PROVE  \/ m < i + 1 /\ m \in DOMAIN l /\ t[m] = l[m]
               \/ m = i + 1 /\ t[m] = ToItem(x)
               \/ m > i + 1 /\ m - 1 \in DOMAIN l /\ t[m] = l[m - 1]
    BY <1>1, <2>3
  <2>6. NoAppTwice(t)
    <3>1. ASSUME NEW m \in 1..n + 1, NEW o \in 1..n + 1, m < o, t[m].appId = t[o].appId
          PROVE  FALSE
      <4>1. CASE o < i + 1
        <5>1. /\ m \in DOMAIN l /\ o \in DOMAIN l /\ m # o
              /\ t[m] = l[m] /\ t[o] = l[o]
          BY <1>1, <3>1, <2>5, <4>1
        <5> QED
          BY <3>1, <5>1 DEF Placed, NoAppTwice
      <4>2. CASE o = i + 1
        BY <1>1, <3>1, <1>3, <1>6, <2>5, <4>2
      <4>3. CASE o > i + 1 /\ m < i + 1
        <5>1. /\ m \in DOMAIN l /\ o - 1 \in DOMAIN l /\ m # o - 1
              /\ t[m] = l[m] /\ t[o] = l[o - 1]
          BY <1>1, <3>1, <2>5, <4>3
        <5> QED
          BY <3>1, <5>1 DEF Placed, NoAppTwice
      <4>4. CASE m = i + 1
        BY <1>1, <3>1, <1>3, <1>6, <2>5, <4>4
      <4>5. CASE m > i + 1
        <5>1. /\ m - 1 \in DOMAIN l /\ o - 1 \in DOMAIN l /\ m - 1 # o - 1
              /\ t[m] = l[m - 1] /\ t[o] = l[o - 1]
          BY <1>1, <3>1, <2>5, <4>5
        <5> QED
          BY <3>1, <5>1 DEF Placed, NoAppTwice
      <4> QED
        BY <1>1, <3>1, <4>1, <4>2, <4>3, <4>4, <4>5
    <3>2. \A m, o \in 1..n + 1 : m < o => t[m].appId # t[o].appId
      BY <3>1
    <3>3. \A m, o \in 1..n + 1 : m = o \/ m < o \/ o < m
      BY <1>1
    <3> QED
      BY <2>4, <3>2, <3>3 DEF NoAppTwice
  <2>7. ASSUME NEW m \in 1..i + 1 PROVE t[m] = ToItem(shown[m])
    <3>1. CASE m = i + 1
      BY <1>1, <2>5, <3>1 DEF x
    <3>2. CASE m # i + 1
      <4>1. m \in 1..i /\ m \in 1..n + 1 /\ m < i + 1
        BY <1>1, <3>2
      <4> QED
        BY <2>5, <4>1 DEF Placed
    <3> QED
      BY <3>1, <3>2
  <2>8. ASSUME NEW m \in DOMAIN t PROVE \E j \in DOMAIN shown : t[m] = ToItem(shown[j])
    BY <2>4, <2>5 DEF Placed, x
  <2>9. i + 1 <= Len(t)
    BY <1>1, <2>3
  <2> QED
    BY <1>t, <2>3, <2>6, <2>7, <2>8, <2>9 DEF Placed, x
<1> QED
  BY <1>5, <1>6

\* The second loop of refresh(): f[i] is the list after i rounds.
Places(f, list, shown, n) ==
    f = [i \in 0..n |-> IF i = 0 THEN Updated(list, shown) ELSE Place(f[i - 1], i, shown[i])]

LEMMA AllPlaced ==
    ASSUME NEW list \in Seq(Item), NoAppTwice(list),
           NEW shown \in Seq(AccountsItem), NoIdTwice(shown), NEW f,
           f[0] = Updated(list, shown),
           \A i \in 1..Len(shown) :
               Placed(f[i - 1], i - 1, shown) => f[i] = Place(f[i - 1], i, shown[i])
    PROVE  \A i \in 0..Len(shown) : Placed(f[i], i, shown)
<1> DEFINE n == Len(shown)
           T == {i \in Nat : i <= n => Placed(f[i], i, shown)}
<1>1. n \in Nat /\ DOMAIN shown = 1..n
  BY SequenceDomain
<1>2. 0 \in T
  BY UpdatedIsPlaced
<1>3. ASSUME NEW i \in T PROVE i + 1 \in T
  <2> SUFFICES ASSUME i + 1 <= n PROVE Placed(f[i + 1], i + 1, shown)
    OBVIOUS
  <2>1. i \in Nat /\ i <= n /\ Placed(f[i], i, shown) /\ i + 1 \in 1..n /\ (i + 1) - 1 = i
    BY <1>1
  <2>2. f[i + 1] = Place(f[i], i + 1, shown[i + 1])
    BY <2>1
  <2> QED
    BY <1>1, <2>1, <2>2, PlacePlaces
<1>4. T \subseteq Nat
  OBVIOUS
<1> HIDE DEF T
<1>5. T = Nat
  BY <1>2, <1>3, <1>4, SetInduction
<1> QED
  BY <1>1, <1>5 DEF T

LEMMA RefreshPlaces ==
    ASSUME NEW list \in Seq(Item), NoAppTwice(list),
           NEW shown \in Seq(AccountsItem), NoIdTwice(shown)
    PROVE  \E f : Places(f, list, shown, Len(shown))
<1> DEFINE n == Len(shown)
           S == Seq(Item)
           step == [i \in 1..n |-> [l \in S |->
                       IF Placed(l, i - 1, shown) THEN Place(l, i, shown[i]) ELSE l]]
<1>1. n \in Nat /\ DOMAIN shown = 1..n
  BY SequenceDomain
<1>2. ASSUME NEW i \in 1..n, NEW l \in S
      PROVE  (IF Placed(l, i - 1, shown) THEN Place(l, i, shown[i]) ELSE l) \in S
  <2>1. CASE Placed(l, i - 1, shown)
    <3>1. i - 1 \in Nat /\ (i - 1) + 1 = i
      BY <1>1
    <3>2. Placed(Place(l, i, shown[i]), i, shown)
      BY <1>1, <2>1, <3>1, PlacePlaces
    <3> QED
      BY <2>1, <3>2 DEF Placed
  <2> QED
    BY <2>1
<1>3. step \in [1..n -> [S -> S]]
  BY <1>2
<1>4. Updated(list, shown) \in S
  BY UpdatedIsPlaced DEF Placed
<1> HIDE DEF step
<1>5. PICK f : Runs(f, S, n, Updated(list, shown), step)
  <2>1. ASSUME NEW T, NEW m \in Nat, NEW a \in T, NEW by \in [1..m -> [T -> T]]
        PROVE  \E f : Runs(f, T, m, a, by)
    BY LoopRuns
  <2> QED
    BY <1>1, <1>3, <1>4, <2>1
<1>6. f[0] = Updated(list, shown)
  <2>1. 0 \in 0..n
    BY <1>1
  <2>2. \A i \in 0..n : f[i] = IF i = 0 THEN Updated(list, shown) ELSE step[i][f[i - 1]]
    BY <1>5, Zenon DEF Runs
  <2> QED
    BY <2>1, <2>2, Zenon
<1>7. ASSUME NEW i \in 1..n, Placed(f[i - 1], i - 1, shown)
      PROVE  f[i] = Place(f[i - 1], i, shown[i])
  <2>1. i \in 0..n /\ i # 0 /\ i - 1 \in 0..n
    BY <1>1
  <2>2. f[i - 1] \in S
    BY <1>5, <2>1 DEF Runs
  <2>3. f[i] = step[i][f[i - 1]]
    BY <1>5, <2>1 DEF Runs
  <2> QED
    BY <1>7, <2>2, <2>3 DEF step
<1>8. \A i \in 0..n : Placed(f[i], i, shown)
  BY <1>6, <1>7, AllPlaced
<1>9. ASSUME NEW i \in 0..n
      PROVE  f[i] = IF i = 0 THEN Updated(list, shown) ELSE Place(f[i - 1], i, shown[i])
  <2>1. i # 0 => i \in 1..n /\ i - 1 \in 0..n
    BY <1>1
  <2> QED
    BY <1>6, <1>7, <1>8, <2>1
<1> QED
  BY <1>5, <1>9 DEF Places, Runs

\* Whatever was listed, refresh() leaves what is to be shown, in its order.
LEMMA RefreshedShows ==
    ASSUME NEW list \in Seq(Item), NoAppTwice(list),
           NEW sent \in Seq(AccountsItem), NoIdTwice(sent), NEW only \in BOOLEAN
    PROVE  LET shown == Shown(sent, only) IN
           /\ Refreshed(list, sent, only) = [i \in DOMAIN shown |-> ToItem(shown[i])]
           /\ Refreshed(list, sent, only) \in Seq(Item)
           /\ NoAppTwice(Refreshed(list, sent, only))
<1>1. PICK shown : shown = Shown(sent, only)
  OBVIOUS
<1>2. shown \in Seq(AccountsItem) /\ NoIdTwice(shown)
  BY <1>1, ShownTwiceNone
<1>3. PICK n : n = Len(shown)
  OBVIOUS
<1>4. n \in Nat /\ DOMAIN shown = 1..n
  BY <1>2, <1>3, SequenceDomain
<1> DEFINE placed == CHOOSE f : Places(f, list, shown, n)
<1>5. Refreshed(list, sent, only) = placed[n]
  BY <1>1, <1>3, Zenon DEF Refreshed, Places
<1>6. Places(placed, list, shown, n)
  BY <1>2, <1>3, RefreshPlaces
<1> HIDE DEF placed
<1>7. placed[0] = Updated(list, shown)
  BY <1>4, <1>6 DEF Places
<1>8. ASSUME NEW i \in 1..n PROVE placed[i] = Place(placed[i - 1], i, shown[i])
  <2>1. i \in 0..n /\ i # 0
    BY <1>4
  <2> QED
    BY <1>6, <2>1 DEF Places
<1>9. \A i \in 0..n : Placed(placed[i], i, shown)
  BY <1>2, <1>3, <1>7, <1>8, AllPlaced
<1>10. PICK l : l = placed[n]
  OBVIOUS
<1>11. Placed(l, n, shown)
  BY <1>4, <1>9, <1>10
<1>12. DOMAIN l = 1..Len(l) /\ Len(l) \in Nat
  BY <1>11, SequenceDomain DEF Placed
<1>13. Len(l) = n
  <2>1. PICK m : m = Len(l)
    OBVIOUS
  <2>2. n <= m /\ m \in Nat /\ DOMAIN l = 1..m
    BY <1>11, <1>12, <2>1 DEF Placed
  <2>3. ASSUME n + 1 <= m PROVE FALSE
    <3>1. n + 1 \in DOMAIN l
      BY <1>4, <2>2, <2>3
    <3>2. PICK j \in 1..n : l[n + 1] = ToItem(shown[j])
      BY <1>4, <1>11, <3>1 DEF Placed
    <3>3. j \in DOMAIN l /\ j # n + 1
      BY <1>4, <2>2
    <3>4. l[j] = ToItem(shown[j])
      BY <1>11 DEF Placed
    <3> QED
      BY <1>11, <3>1, <3>2, <3>3, <3>4 DEF Placed, NoAppTwice
  <2> QED
    BY <1>4, <2>1, <2>2, <2>3
<1>14. l = [i \in DOMAIN shown |-> ToItem(shown[i])]
  <2>1. l = [i \in 1..n |-> l[i]]
    BY <1>11, <1>12, <1>13 DEF Placed
  <2>2. \A i \in 1..n : l[i] = ToItem(shown[i])
    BY <1>11 DEF Placed
  <2> QED
    BY <1>4, <2>1, <2>2
<1> QED
  BY <1>1, <1>5, <1>10, <1>11, <1>14 DEF Placed

-----------------------------------------------------------------------------
(* What the greeter shows.                                                 *)

\* A signal about the items of u's session is on the way.
Told(q, u) ==
    \E k \in DOMAIN q : /\ q[k].kind = "PropertiesChanged"
                        /\ q[k].prop = LauncherItems /\ q[k].user = u

\* gList is what is to be shown of a session's items.
IsShown(list, sent, only) ==
    list = [i \in DOMAIN Shown(sent, only) |-> ToItem(Shown(sent, only)[i])]

ShowsInv ==
    /\ CacheInv
    /\ sessionItems \in [Users -> SessionLists]
    /\ gList \in Seq(Item) /\ NoAppTwice(gList)
    /\ onlyPinned \in BOOLEAN
    /\ Told(toClient, m_user) \/ IsShown(gList, sessionItems[m_user], onlyPinned)

\* Refreshing brings the list up to date, from any list without an app twice.
LEMMA RefreshShows ==
    ASSUME CacheInv', NEW list \in Seq(Item), NoAppTwice(list),
           NEW items \in [Users -> SessionLists], NEW only \in BOOLEAN,
           sessionItems' = items, onlyPinned' = only,
           gList' = Refreshed(list, items[m_user'], only)
    PROVE  ShowsInv'
<1>1. m_user' \in Users
  BY DEF CacheInv, AccountsTypeOK
<1>2. items[m_user'] \in Seq(AccountsItem) /\ NoIdTwice(items[m_user'])
  BY <1>1, ListsAssumption DEF NoIdTwice
<1>3. /\ gList' \in Seq(Item) /\ NoAppTwice(gList')
      /\ IsShown(gList', items[m_user'], only)
  BY <1>2, RefreshedShows DEF IsShown
<1> QED
  BY <1>3 DEF ShowsInv

\* Where nothing is refreshed, the signal that was on the way still is.
LEMMA StillShows ==
    ASSUME ShowsInv, CacheInv', UNCHANGED <<gList, onlyPinned, m_user>>,
           sessionItems' \in [Users -> SessionLists],
           \/ Told(toClient', m_user)
           \/ sessionItems'[m_user] = sessionItems[m_user] /\ ~Told(toClient, m_user)
    PROVE  ShowsInv'
  BY DEF ShowsInv

LEMMA ToldMore ==
    ASSUME NEW q \in Seq(Message), NEW more \in Seq(Message), NEW u,
           Told(q, u) \/ Told(more, u)
    PROVE  Told(q \o more, u)
<1>1. PICK r : r = q \o more
  OBVIOUS
<1>2. /\ DOMAIN q = 1..Len(q) /\ Len(q) \in Nat
      /\ DOMAIN more = 1..Len(more) /\ Len(more) \in Nat
  BY SequenceDomain
<1>3. r \in Seq(Message) /\ Joined(r, q, more)
  BY <1>1, SequenceJoined
<1>4. DOMAIN r = 1..Len(q) + Len(more)
  BY <1>3, SequenceDomain DEF Joined
<1>5. ASSUME NEW k \in DOMAIN q PROVE k \in DOMAIN r /\ r[k] = q[k]
  BY <1>2, <1>3, <1>4 DEF Joined
<1>6. ASSUME NEW k \in DOMAIN more
      PROVE  k + Len(q) \in DOMAIN r /\ r[k + Len(q)] = more[k]
  BY <1>2, <1>3, <1>4 DEF Joined
<1> QED
  BY <1>1, <1>5, <1>6 DEF Told

LEMMA ToldLess ==
    ASSUME NEW q \in Seq(Message), q # <<>>, NEW u, Told(q, u),
           ~(/\ Head(q).kind = "PropertiesChanged"
             /\ Head(q).prop = LauncherItems /\ Head(q).user = u)
    PROVE  Told(Tail(q), u)
<1>1. /\ Head(q) = q[1]
      /\ \A k \in DOMAIN q : k # 1 => k - 1 \in DOMAIN Tail(q) /\ Tail(q)[k - 1] = q[k]
  BY SequenceTail
<1>2. PICK k \in DOMAIN q : /\ q[k].kind = "PropertiesChanged"
                            /\ q[k].prop = LauncherItems /\ q[k].user = u
  BY DEF Told
<1>3. k # 1
  BY <1>1, <1>2
<1> QED
  BY <1>1, <1>2, <1>3 DEF Told

\* What is sent later does not overtake the signal.
LEMMA CacheStepsShow ==
    ASSUME ShowsInv, CacheInv', CacheSteps
    PROVE  ShowsInv'
<1>1. UNCHANGED <<gList, onlyPinned, sessionItems>>
  BY DEF CacheSteps, launcherVars
<1>2. UNCHANGED m_user
  BY DEF CacheSteps, DaemonAnswers, ReplyArrives, OnMaybeChanged, OtherWrites, SetProperty,
         clientVars
<1>3. /\ AccountsTypeOK /\ toClient \in Seq(Message)
      /\ sessionItems \in [Users -> SessionLists]
  BY DEF ShowsInv, CacheInv, AccountsTypeOK
<1>4. SUFFICES ASSUME Told(toClient, m_user) PROVE Told(toClient', m_user)
  BY <1>1, <1>2, <1>3, StillShows
<1>5. CASE DaemonAnswers
  <2>1. Head(toDaemon) \in Read /\ stored \in [Users -> [Props -> Values]]
    BY <1>3, <1>5, SequenceTail DEF AccountsTypeOK, DaemonAnswers
  <2>2. PICK a : a = Answer(Head(toDaemon))
    OBVIOUS
  <2>3. a \in Message
    BY <2>1, <2>2 DEF Answer, Read, Message
  <2>4. toClient' = toClient \o <<a>> /\ <<a>> \in Seq(Message)
    BY <1>3, <1>5, <2>2, <2>3, AppendIsConcat DEF DaemonAnswers
  <2> QED
    BY <1>3, <1>4, <2>4, ToldMore
<1>6. CASE ReplyArrives \/ OnMaybeChanged
  <2>1. /\ toClient # <<>> /\ toClient' = Tail(toClient)
        /\ Head(toClient).kind # "PropertiesChanged"
    BY <1>6 DEF ReplyArrives, OnMaybeChanged
  <2> QED
    BY <1>3, <1>4, <2>1, ToldLess
<1>7. ASSUME NEW u \in Users, NEW p \in Props, NEW v \in Values, OtherWrites(u, p, v)
      PROVE  Told(toClient', m_user)
  <2>1. PICK more : more = Announced(u, p)
    OBVIOUS
  <2>2. toClient' = toClient \o more /\ more \in Seq(Message)
    BY <1>7, <2>1, Announces DEF OtherWrites
  <2> QED
    BY <1>3, <1>4, <2>2, ToldMore
<1>8. ASSUME NEW p \in Settable, NEW v \in Values, SetProperty(p, v)
      PROVE  Told(toClient', m_user)
  <2>1. p \in Props \cup {LauncherItems} /\ m_user \in Users
    BY <1>3, AccountsAssumption DEF Props, AccountsTypeOK
  <2>2. PICK more : more = Announced(m_user, p)
    OBVIOUS
  <2>3. PICK old : old = Answers
    OBVIOUS
  <2>4. more \in Seq(Message) /\ old \in Seq(Message)
    BY <1>3, <2>1, <2>2, <2>3, Announces, AnswersAre
  <2>5. PICK q : q = toClient \o old
    OBVIOUS
  <2>6. q \in Seq(Message) /\ Told(q, m_user)
    BY <1>3, <1>4, <2>4, <2>5, ToldMore, SequenceJoined
  <2>7. toClient' = q \o more
    BY <1>8, <2>2, <2>3, <2>5 DEF SetProperty
  <2> QED
    BY <2>4, <2>6, <2>7, ToldMore
<1> QED
  BY <1>5, <1>6, <1>7, <1>8 DEF CacheSteps

\* The session of the greeter's user is listened to, so its change is announced.
LEMMA SessionSyncsShow ==
    ASSUME ShowsInv, CacheInv', NEW u \in Users, NEW list \in SessionLists,
           SessionSyncs(u, list)
    PROVE  ShowsInv'
<1>1. PICK more : more = Announced(u, LauncherItems)
  OBVIOUS
<1>2. /\ toClient' = toClient \o more /\ sessionItems' = [sessionItems EXCEPT ![u] = list]
      /\ UNCHANGED <<gList, onlyPinned, m_user>>
  BY <1>1 DEF SessionSyncs, clientVars
<1>3. /\ toClient \in Seq(Message) /\ more \in Seq(Message)
      /\ m_user \in Users /\ m_user \in known
      /\ sessionItems \in [Users -> SessionLists]
  BY <1>1, Announces DEF ShowsInv, CacheInv, AccountsTypeOK
<1>4. sessionItems' \in [Users -> SessionLists]
  BY <1>2, <1>3
<1>5. CASE u = m_user
  <2>1. LauncherItems \notin Builtin
    BY AccountsAssumption DEF Props
  <2>2. more = <<[kind |-> "PropertiesChanged", user |-> u, prop |-> LauncherItems],
                 [kind |-> "Changed", user |-> u]>>
    BY <1>1, <1>3, <1>5, <2>1 DEF Announced
  <2>3. 1 \in DOMAIN more
    BY <2>2
  <2>4. more[1].kind = "PropertiesChanged" /\ more[1].prop = LauncherItems /\ more[1].user = u
    BY <2>2
  <2>5. Told(more, m_user)
    BY <1>5, <2>3, <2>4 DEF Told
  <2>6. Told(toClient', m_user)
    BY <1>2, <1>3, <2>5, ToldMore
  <2> QED
    BY <1>2, <1>4, <2>6, StillShows
<1>6. CASE u # m_user
  <2>1. sessionItems'[m_user] = sessionItems[m_user]
    BY <1>2, <1>3, <1>6
  <2>2. Told(toClient, m_user) => Told(toClient', m_user)
    BY <1>2, <1>3, ToldMore
  <2> QED
    BY <1>2, <1>4, <2>1, <2>2, StillShows
<1> QED
  BY <1>5, <1>6

\* The signal itself refreshes the list; another leaves what it was about.
LEMMA PropertiesChangedShows ==
    ASSUME ShowsInv, CacheInv', PropertiesChanged
    PROVE  ShowsInv'
<1>1. /\ toClient # <<>> /\ toClient' = Tail(toClient)
      /\ UNCHANGED <<m_user, sessionItems, onlyPinned>>
  BY DEF PropertiesChanged, OnPropertiesChanged
<1>2. /\ toClient \in Seq(Message) /\ gList \in Seq(Item) /\ NoAppTwice(gList)
      /\ sessionItems \in [Users -> SessionLists] /\ onlyPinned \in BOOLEAN
  BY DEF ShowsInv, CacheInv, AccountsTypeOK
<1>3. CASE Head(toClient).user = m_user /\ Head(toClient).prop = LauncherItems
  <2>1. gList' = Refreshed(gList, sessionItems[m_user'], onlyPinned)
    BY <1>1, <1>3 DEF PropertiesChanged
  <2> QED
    BY <1>1, <1>2, <2>1, RefreshShows
<1>4. CASE ~(Head(toClient).user = m_user /\ Head(toClient).prop = LauncherItems)
  <2>1. gList' = gList
    BY <1>4 DEF PropertiesChanged
  <2>2. Told(toClient, m_user) => Told(toClient', m_user)
    BY <1>1, <1>2, <1>4, ToldLess
  <2> QED
    BY <1>1, <1>2, <2>1, <2>2, StillShows
<1> QED
  BY <1>3, <1>4

LEMMA ShowsStarts ==
    ASSUME Init
    PROVE  ShowsInv
<1>1. /\ CacheInv /\ sessionItems \in [Users -> SessionLists] /\ onlyPinned = TRUE
      /\ gList = Refreshed(<<>>, sessionItems[m_user], TRUE)
  BY CacheStarts DEF Init
<1>2. m_user \in Users
  BY <1>1 DEF CacheInv, AccountsTypeOK
<1>3. sessionItems[m_user] \in Seq(AccountsItem) /\ NoIdTwice(sessionItems[m_user])
  BY <1>1, <1>2, ListsAssumption DEF NoIdTwice
<1>4. <<>> \in Seq(Item) /\ NoAppTwice(<<>>)
  BY DEF NoAppTwice
<1>5. /\ gList \in Seq(Item) /\ NoAppTwice(gList)
      /\ IsShown(gList, sessionItems[m_user], TRUE)
  BY <1>1, <1>3, <1>4, RefreshedShows DEF IsShown
<1> QED
  BY <1>1, <1>5 DEF ShowsInv

LEMMA ShowsKeeps ==
    ASSUME ShowsInv, [Next]_vars
    PROVE  ShowsInv'
<1>1. CacheInv'
  BY CacheKeeps DEF ShowsInv
<1>2. /\ gList \in Seq(Item) /\ NoAppTwice(gList)
      /\ sessionItems \in [Users -> SessionLists] /\ onlyPinned \in BOOLEAN
  BY DEF ShowsInv
<1>3. CASE CacheSteps
  BY <1>1, <1>3, CacheStepsShow
<1>4. ASSUME NEW u \in Users, NEW list \in SessionLists, SessionSyncs(u, list)
      PROVE  ShowsInv'
  BY <1>1, <1>4, SessionSyncsShow
<1>5. CASE PropertiesChanged
  BY <1>1, <1>5, PropertiesChangedShows
<1>6. ASSUME NEW u \in Users, SelectUser(u) PROVE ShowsInv'
  <2>1. /\ sessionItems' = sessionItems /\ onlyPinned' = onlyPinned
        /\ gList' = Refreshed(gList, sessionItems[m_user'], onlyPinned)
    BY <1>6 DEF SelectUser, SetUser
  <2> QED
    BY <1>1, <1>2, <2>1, RefreshShows
<1>7. ASSUME NEW only \in BOOLEAN, SetOnlyPinned(only) PROVE ShowsInv'
  <2>1. /\ sessionItems' = sessionItems /\ onlyPinned' = only
        /\ gList' = Refreshed(gList, sessionItems[m_user'], only)
    BY <1>7 DEF SetOnlyPinned, accountsVars, clientVars
  <2> QED
    BY <1>1, <1>2, <2>1, RefreshShows
<1>8. CASE UNCHANGED vars
  <2>1. UNCHANGED <<gList, onlyPinned, m_user, sessionItems, toClient>>
    BY <1>8 DEF vars, launcherVars, accountsVars, clientVars
  <2> QED
    BY <1>1, <1>2, <2>1, StillShows
<1> QED
  BY <1>3, <1>4, <1>5, <1>6, <1>7, <1>8 DEF Next

\* GreeterShowsSentItems: unless a signal about them is on its way, the greeter
\* lists exactly what is to be shown of the items its user's session sent, in their
\* order and state, whatever was listed before: for lists of any length, any number
\* of users and any order of writes, user changes and answers.
THEOREM GreeterFollowsSession == Spec => []GreeterShowsSentItems
<1>1. ShowsInv => GreeterShowsSentItems
  <2> SUFFICES ASSUME ShowsInv PROVE GreeterShowsSentItems
    OBVIOUS
  <2>1. TypeOK
    BY DEF ShowsInv, CacheInv, TypeOK
  <2>2. GreeterShowsTheSession
    BY DEF ShowsInv, Told, IsShown, GreeterShowsTheSession
  <2> QED
    BY <2>1, <2>2 DEF GreeterShowsSentItems
<1>2. Init => ShowsInv
  BY ShowsStarts
<1>3. ShowsInv /\ [Next]_vars => ShowsInv'
  BY ShowsKeeps
<1> QED
  BY <1>1, <1>2, <1>3, PTL DEF Spec

=============================================================================
