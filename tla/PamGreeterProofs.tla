--------------------------- MODULE PamGreeterProofs ---------------------------
(***************************************************************************)
(* Theorems about authentication in the greeter, for every set of users    *)
(* and handles and any number of prompts and of start() calls within       *)
(* others: one conversation at a time, and no handle ended under its       *)
(* thread.                                                                 *)
(***************************************************************************)
EXTENDS PamGreeter, SelectionProofs

USE NoHandleAssumption, NoUserAssumption, BoundsAssumption

-----------------------------------------------------------------------------
(* The invariant, for conversations cs, messages mail and frames stack.    *)

MessagesTrueOf(cs, mail) ==
    \A k \in DOMAIN mail :
        LET h == mail[k].handle
        IN  IF mail[k].kind = "finished"
            THEN cs[h].thread \in {"ended", "free"}
            ELSE /\ cs[h].thread = "blocked" /\ cs[h].asked < MaxPrompts
                 /\ \A j \in DOMAIN mail : mail[j] = mail[k] => j = k

FramesInUse(cs, stack) ==
    \A k \in DOMAIN stack :
        LET h == stack[k].handle
        IN  /\ cs[h].thread # "free"
            /\ \A j \in DOMAIN stack : stack[j].handle = h => j = k

\* A message with a handle that no prompt in the mailbox is of may be added.
LEMMA MessageAdded ==
    ASSUME NEW cs, NEW mail \in Seq(Message), MessagesTrueOf(cs, mail),
           NEW m \in Message,
           IF m.kind = "finished" THEN cs[m.handle].thread \in {"ended", "free"}
           ELSE /\ cs[m.handle].thread = "blocked" /\ cs[m.handle].asked < MaxPrompts
                /\ \A k \in DOMAIN mail : mail[k] # m
    PROVE  Append(mail, m) \in Seq(Message) /\ MessagesTrueOf(cs, Append(mail, m))
<1> DEFINE longer == Append(mail, m)
<1>1. /\ longer \in Seq(Message) /\ DOMAIN longer = 1..(Len(mail) + 1)
      /\ \A k \in DOMAIN mail : longer[k] = mail[k]
      /\ longer[Len(mail) + 1] = m
  BY SequenceAppended
<1>2. Len(mail) \in Nat /\ DOMAIN mail = 1..Len(mail)
  BY SequenceDomain
<1> HIDE DEF longer
<1>3. ASSUME NEW k \in DOMAIN longer, longer[k].kind = "finished"
      PROVE  cs[longer[k].handle].thread \in {"ended", "free"}
  <2>1. CASE k \in DOMAIN mail
    BY <1>1, <1>3, <2>1 DEF MessagesTrueOf
  <2>2. CASE k \notin DOMAIN mail
    BY <1>1, <1>2, <1>3, <2>2
  <2> QED
    BY <2>1, <2>2
<1>4. ASSUME NEW k \in DOMAIN longer, longer[k].kind # "finished"
      PROVE  /\ cs[longer[k].handle].thread = "blocked"
             /\ cs[longer[k].handle].asked < MaxPrompts
             /\ \A j \in DOMAIN longer : longer[j] = longer[k] => j = k
  <2>1. CASE k \in DOMAIN mail
    <3>1. /\ cs[mail[k].handle].thread = "blocked"
          /\ cs[mail[k].handle].asked < MaxPrompts
          /\ \A j \in DOMAIN mail : mail[j] = mail[k] => j = k
      BY <1>1, <1>4, <2>1 DEF MessagesTrueOf
    <3>2. m # mail[k]
      BY <1>1, <1>4, <2>1
    <3> QED
      BY <1>1, <1>2, <2>1, <3>1, <3>2
  <2>2. CASE k \notin DOMAIN mail
    BY <1>1, <1>2, <1>4, <2>2
  <2> QED
    BY <2>1, <2>2
<1> QED
  BY <1>1, <1>3, <1>4 DEF MessagesTrueOf, longer

\* One message handled.
LEMMA MessageTaken ==
    ASSUME NEW cs, NEW mail \in Seq(Message), MessagesTrueOf(cs, mail), mail # <<>>
    PROVE  /\ Tail(mail) \in Seq(Message) /\ MessagesTrueOf(cs, Tail(mail))
           /\ Head(mail) \in Message
           /\ Head(mail).kind # "finished" =>
                 \A k \in DOMAIN Tail(mail) : Tail(mail)[k] # Head(mail)
           /\ IF Head(mail).kind = "finished"
              THEN cs[Head(mail).handle].thread \in {"ended", "free"}
              ELSE /\ cs[Head(mail).handle].thread = "blocked"
                   /\ cs[Head(mail).handle].asked < MaxPrompts
<1>1. /\ Head(mail) = mail[1] /\ Head(mail) \in Message /\ 1 \in DOMAIN mail
      /\ Tail(mail) \in Seq(Message) /\ DOMAIN Tail(mail) = 1..(Len(mail) - 1)
      /\ \A k \in DOMAIN Tail(mail) : k + 1 \in DOMAIN mail /\ Tail(mail)[k] = mail[k + 1]
  BY SequenceTail
<1>2. \A k \in DOMAIN Tail(mail) : k \in Nat \ {0}
  BY <1>1, SequenceDomain
<1>3. MessagesTrueOf(cs, Tail(mail))
  <2>1. ASSUME NEW k \in DOMAIN Tail(mail), Tail(mail)[k].kind = "finished"
        PROVE  cs[Tail(mail)[k].handle].thread \in {"ended", "free"}
    BY <1>1, <2>1 DEF MessagesTrueOf
  <2>2. ASSUME NEW k \in DOMAIN Tail(mail), Tail(mail)[k].kind # "finished"
        PROVE  /\ cs[Tail(mail)[k].handle].thread = "blocked"
               /\ cs[Tail(mail)[k].handle].asked < MaxPrompts
               /\ \A j \in DOMAIN Tail(mail) : Tail(mail)[j] = Tail(mail)[k] => j = k
    <3>1. /\ cs[mail[k + 1].handle].thread = "blocked"
          /\ cs[mail[k + 1].handle].asked < MaxPrompts
          /\ \A j \in DOMAIN mail : mail[j] = mail[k + 1] => j = k + 1
      BY <1>1, <2>2 DEF MessagesTrueOf
    <3> QED
      BY <1>1, <1>2, <3>1
  <2> QED
    BY <2>1, <2>2 DEF MessagesTrueOf
<1>4. ASSUME Head(mail).kind # "finished", NEW k \in DOMAIN Tail(mail)
      PROVE  Tail(mail)[k] # Head(mail)
  <2>1. \A j \in DOMAIN mail : mail[j] = mail[1] => j = 1
    BY <1>1, <1>4 DEF MessagesTrueOf
  <2> QED
    BY <1>1, <1>2, <2>1
<1> QED
  BY <1>1, <1>3, <1>4 DEF MessagesTrueOf

\* setFuture() leaves prompts only.
LEMMA MessagesPurged ==
    ASSUME NEW cs, NEW mail \in Seq(Message), MessagesTrueOf(cs, mail)
    PROVE  /\ Purged(mail) \in Seq(Message) /\ MessagesTrueOf(cs, Purged(mail))
           /\ \A k \in DOMAIN Purged(mail) :
                 /\ Purged(mail)[k].kind # "finished"
                 /\ cs[Purged(mail)[k].handle].thread = "blocked"
<1> DEFINE prompts == {k \in DOMAIN mail : mail[k].kind # "finished"}
           rest == Kept(mail, prompts)
<1>1. rest \in Seq(Message) /\ \E g : Selects(g, rest, mail, prompts)
  BY KeptSelects
<1> HIDE DEF rest, prompts
<1>2. PICK g : Selects(g, rest, mail, prompts)
  BY <1>1
<1>3. /\ \A k \in DOMAIN rest : g[k] \in DOMAIN mail /\ g[k] \in prompts
      /\ \A j, k \in DOMAIN rest : j < k => g[j] < g[k]
      /\ \A k \in DOMAIN rest : rest[k] = mail[g[k]]
  BY <1>2 DEF Selects
<1>4. DOMAIN rest \subseteq Nat /\ DOMAIN mail \subseteq Nat
  BY <1>1, SequenceDomain
<1>5. \A j, k \in DOMAIN rest : g[j] = g[k] => j = k
  BY <1>3, <1>4
<1>6. ASSUME NEW k \in DOMAIN rest
      PROVE  /\ rest[k].kind # "finished"
             /\ cs[rest[k].handle].thread = "blocked"
             /\ cs[rest[k].handle].asked < MaxPrompts
             /\ \A j \in DOMAIN rest : rest[j] = rest[k] => j = k
  <2>1. /\ cs[mail[g[k]].handle].thread = "blocked"
        /\ cs[mail[g[k]].handle].asked < MaxPrompts
        /\ \A j \in DOMAIN mail : mail[j] = mail[g[k]] => j = g[k]
    BY <1>3 DEF MessagesTrueOf, prompts
  <2>2. mail[g[k]].kind # "finished"
    BY <1>3 DEF prompts
  <2> QED
    BY <1>3, <1>5, <2>1, <2>2
<1>7. Purged(mail) = rest
  BY DEF Purged, rest, prompts
<1> QED
  BY <1>1, <1>6, <1>7 DEF MessagesTrueOf

LEMMA MessagesOfOthers ==
    ASSUME NEW cs, NEW ds, NEW mail \in Seq(Message), MessagesTrueOf(cs, mail),
           NEW h \in Handles, \A k \in DOMAIN mail : mail[k].handle # h,
           \A g \in Handles : g # h => ds[g] = cs[g]
    PROVE  MessagesTrueOf(ds, mail)
<1>1. \A k \in DOMAIN mail : mail[k] \in Message
  BY SequenceDomain
<1>2. \A k \in DOMAIN mail : ds[mail[k].handle] = cs[mail[k].handle]
  BY <1>1 DEF Message
<1> QED
  BY <1>2 DEF MessagesTrueOf

LEMMA NoMessageOfBusy ==
    ASSUME NEW cs, NEW mail, MessagesTrueOf(cs, mail), NEW h,
           cs[h].thread \notin {"ended", "free", "blocked"},
           NEW k \in DOMAIN mail
    PROVE  mail[k].handle # h
  BY DEF MessagesTrueOf

-----------------------------------------------------------------------------
(* Steps of the PAM threads.                                               *)

\* What a step of the thread of h, that touches nothing else, must see to.
LEMMA ThreadMoves ==
    ASSUME ConversationIsOne, NEW h \in Handles, NEW c \in Conversation,
           conv' = [conv EXCEPT ![h] = c],
           c.user = conv[h].user,
           conv[h].thread = "free" => c.thread = "free",
           c.thread = "free" => conv[h].thread = "free",
           h \in ToSet(futures) => c.thread \in {"asking", "blocked", "awaiting"},
           mailbox' \in Seq(Message), MessagesTrueOf(conv', mailbox'),
           UNCHANGED <<pamHandle, watched, futures, cancelling, reentered, overridden,
                       pluginVars, viewVars>>
    PROVE  ConversationIsOne'
<1> USE DEF ConversationIsOne
<1>1. conv \in [Handles -> Conversation] /\ futures \in Seq(Handles)
      /\ cancelling \in Seq(Frame) /\ pamHandle \in Handles \cup {NoHandle}
  BY DEF TypeOK
<1>2. conv' \in [Handles -> Conversation]
  BY <1>1
<1>3. \A g \in Handles : conv'[g].user = conv[g].user
                          /\ (conv'[g].thread = "free" <=> conv[g].thread = "free")
  BY <1>1
<1>4. TypeOK'
  BY <1>2 DEF TypeOK, pluginVars, viewVars
<1>5. HandlesInUse'
  <2>1. \A k \in DOMAIN cancelling : cancelling[k] \in Frame
    BY <1>1, SequenceDomain
  <2>2. \A k \in DOMAIN cancelling : cancelling[k].handle \in Handles
    BY <2>1 DEF Frame
  <2> QED
    BY <1>1, <1>3, <2>2 DEF HandlesInUse
<1>6. MessagesAreTrue'
  BY DEF MessagesTrueOf, MessagesAreTrue
<1>7. AnswersStayInConversation'
  BY DEF AnswersStayInConversation
<1>8. AnswersAreAwaited'
  <2> SUFFICES ASSUME NEW k \in DOMAIN futures
               PROVE  conv'[futures[k]].thread \in {"asking", "blocked", "awaiting"}
    BY DEF AnswersAreAwaited
  <2>1. futures[k] \in Handles /\ futures[k] \in ToSet(futures)
    BY <1>1, SequenceDomain DEF ToSet
  <2>2. conv[futures[k]].thread \in {"asking", "blocked", "awaiting"}
    BY DEF AnswersAreAwaited
  <2> QED
    BY <1>1, <2>1, <2>2
<1>9. AuthenticatedUserVerified'
  BY <1>1, <1>3 DEF AuthenticatedUserVerified, pluginVars
<1>10. OutermostStart'
  BY DEF OutermostStart, pluginVars
<1>11. WaitingOnScreen'
  BY DEF WaitingOnScreen, WaitingForPam, viewVars
<1> QED
  BY <1>4, <1>5, <1>6, <1>7, <1>8, <1>9, <1>10, <1>11

LEMMA ThreadStepKeeps ==
    ASSUME ConversationIsOne, NEW h \in Handles, ThreadStep(h)
    PROVE  ConversationIsOne'
<1>1. /\ conv \in [Handles -> Conversation] /\ mailbox \in Seq(Message)
      /\ futures \in Seq(Handles) /\ conv[h] \in Conversation
      /\ MessagesTrueOf(conv, mailbox)
  BY DEF ConversationIsOne, TypeOK, MessagesAreTrue, MessagesTrueOf
<1>2. h \in ToSet(futures) => conv[h].thread \in {"asking", "blocked", "awaiting"}
  BY DEF ConversationIsOne, AnswersAreAwaited, ToSet
<1> DEFINE Busy == conv[h].thread \notin {"ended", "free", "blocked"}
           Prompt == [kind |-> "prompt", handle |-> h]
           Finished == [kind |-> "finished", handle |-> h]
<1>3. ASSUME NEW c \in Conversation, conv' = [conv EXCEPT ![h] = c], Busy
      PROVE  /\ MessagesTrueOf(conv', mailbox)
             /\ \A k \in DOMAIN mailbox : mailbox[k].handle # h
             /\ conv'[h] = c
  <2>1. \A k \in DOMAIN mailbox : mailbox[k].handle # h
    BY <1>1, <1>3, NoMessageOfBusy
  <2>2. \A g \in Handles : g # h => conv'[g] = conv[g]
    BY <1>1, <1>3
  <2>3. MessagesTrueOf(conv', mailbox)
    BY <1>1, <2>1, <2>2, MessagesOfOthers
  <2> QED
    BY <1>1, <1>3, <2>1, <2>3
<1>4. ASSUME NEW m \in Message, m.handle = h, MessagesTrueOf(conv', mailbox),
             \A k \in DOMAIN mailbox : mailbox[k].handle # h,
             IF m.kind = "finished" THEN conv'[h].thread = "ended"
             ELSE conv'[h].thread = "blocked" /\ conv'[h].asked < MaxPrompts
      PROVE  /\ Append(mailbox, m) \in Seq(Message)
             /\ MessagesTrueOf(conv', Append(mailbox, m))
  <2>1. \A k \in DOMAIN mailbox : mailbox[k] # m
    BY <1>4
  <2>2. IF m.kind = "finished" THEN conv'[m.handle].thread \in {"ended", "free"}
        ELSE /\ conv'[m.handle].thread = "blocked" /\ conv'[m.handle].asked < MaxPrompts
             /\ \A k \in DOMAIN mailbox : mailbox[k] # m
    BY <1>4, <2>1
  <2> QED
    BY <1>1, <1>4, <2>2, MessageAdded
<1>5. /\ Prompt \in Message /\ Prompt.handle = h /\ Prompt.kind = "prompt"
      /\ Finished \in Message /\ Finished.handle = h /\ Finished.kind = "finished"
  BY DEF Message
<1> HIDE DEF Prompt, Finished, Busy
<1>6. ASSUME NEW c \in Conversation, conv' = [conv EXCEPT ![h] = c], Busy,
             c.user = conv[h].user, c.thread # "free",
             h \in ToSet(futures) => c.thread \in {"asking", "blocked", "awaiting"},
             \/ mailbox' = mailbox
             \/ mailbox' = Append(mailbox, Prompt) /\ c.thread = "blocked" /\ c.asked < MaxPrompts
             \/ mailbox' = Append(mailbox, Finished) /\ c.thread = "ended",
             UNCHANGED <<pamHandle, watched, futures, cancelling, reentered, overridden,
                         pluginVars, viewVars>>
      PROVE  ConversationIsOne'
  <2>1. /\ MessagesTrueOf(conv', mailbox)
        /\ \A k \in DOMAIN mailbox : mailbox[k].handle # h
        /\ conv'[h] = c
    BY <1>3, <1>6
  <2>2. mailbox' \in Seq(Message) /\ MessagesTrueOf(conv', mailbox')
    <3>1. CASE mailbox' = mailbox
      BY <1>1, <2>1, <3>1
    <3>2. CASE mailbox' = Append(mailbox, Prompt) /\ c.thread = "blocked"
               /\ c.asked < MaxPrompts
      BY <1>4, <1>5, <2>1, <3>2
    <3>3. CASE mailbox' = Append(mailbox, Finished) /\ c.thread = "ended"
      BY <1>4, <1>5, <2>1, <3>3
    <3> QED
      BY <1>6, <3>1, <3>2, <3>3
  <2>3. conv[h].thread # "free"
    BY <1>6 DEF Busy
  <2> QED
    BY <1>6, <2>2, <2>3, ThreadMoves
<1> DEFINE Now(to) == [conv[h] EXCEPT !.thread = to]
<1>7. ASSUME NEW to \in Threads
      PROVE  /\ Now(to) \in Conversation /\ Now(to).thread = to
             /\ Now(to).user = conv[h].user /\ Now(to).asked = conv[h].asked
             /\ [conv EXCEPT ![h].thread = to] = [conv EXCEPT ![h] = Now(to)]
  BY <1>1 DEF Conversation
<1> HIDE DEF Now
<1>8. CASE RunThread(h)
  <2>1. "running" \in Threads
    BY DEF Threads
  <2>2. /\ conv[h].thread = "queued" /\ conv' = [conv EXCEPT ![h] = Now("running")]
        /\ mailbox' = mailbox
        /\ UNCHANGED <<pamHandle, watched, futures, cancelling, reentered, overridden,
                       pluginVars, viewVars>>
    BY <1>7, <1>8, <2>1 DEF RunThread, Moves
  <2>3. Busy /\ h \notin ToSet(futures)
    BY <1>2, <2>2 DEF Busy
  <2> QED
    BY <1>6, <1>7, <2>1, <2>2, <2>3
<1>9. CASE DropThread(h)
  <2>1. "ended" \in Threads
    BY DEF Threads
  <2>2. /\ conv[h].thread = "queued" /\ conv' = [conv EXCEPT ![h] = Now("ended")]
        /\ mailbox' = Append(mailbox, Finished)
        /\ UNCHANGED <<pamHandle, watched, futures, cancelling, reentered, overridden,
                       pluginVars, viewVars>>
    BY <1>7, <1>9, <2>1 DEF DropThread, Moves, Posted, Finished
  <2>3. Busy /\ h \notin ToSet(futures)
    BY <1>2, <2>2 DEF Busy
  <2> QED
    BY <1>6, <1>7, <2>1, <2>2, <2>3
<1>10. CASE ShowPrompt(h)
  <2>1. "blocked" \in Threads
    BY DEF Threads
  <2>2. /\ conv[h].thread \in {"running", "asking"} /\ conv[h].asked < MaxPrompts
        /\ conv' = [conv EXCEPT ![h] = Now("blocked")]
        /\ mailbox' = Append(mailbox, Prompt)
        /\ UNCHANGED <<pamHandle, watched, futures, cancelling, reentered, overridden,
                       pluginVars, viewVars>>
    BY <1>7, <1>10, <2>1 DEF ShowPrompt, Moves, Posted, Prompt
  <2>3. Busy
    BY <2>2 DEF Busy
  <2> QED
    BY <1>6, <1>7, <2>1, <2>2, <2>3
<1>11. CASE AwaitAnswers(h)
  <2>1. "awaiting" \in Threads
    BY DEF Threads
  <2>2. /\ conv[h].thread = "asking" /\ conv' = [conv EXCEPT ![h] = Now("awaiting")]
        /\ mailbox' = mailbox
        /\ UNCHANGED <<pamHandle, watched, futures, cancelling, reentered, overridden,
                       pluginVars, viewVars>>
    BY <1>7, <1>11, <2>1 DEF AwaitAnswers, Moves
  <2>3. Busy
    BY <2>2 DEF Busy
  <2> QED
    BY <1>6, <1>7, <2>1, <2>2, <2>3
<1>12. CASE TakeAnswers(h)
  <2>1. "answered" \in Threads
    BY DEF Threads
  <2>2. /\ conv[h].thread = "awaiting" /\ conv' = [conv EXCEPT ![h] = Now("answered")]
        /\ mailbox' = mailbox /\ h \notin ToSet(futures)
        /\ UNCHANGED <<pamHandle, watched, futures, cancelling, reentered, overridden,
                       pluginVars, viewVars>>
    BY <1>7, <1>12, <2>1 DEF TakeAnswers, Moves
  <2>3. Busy
    BY <2>2 DEF Busy
  <2> QED
    BY <1>6, <1>7, <2>1, <2>2, <2>3
<1>13. ASSUME NEW success \in BOOLEAN, EndThread(h, success)
       PROVE  ConversationIsOne'
  <2> DEFINE c == [conv[h] EXCEPT !.thread = "ended", !.success = success]
  <2>1. /\ conv[h].thread \in {"running", "answered"} /\ conv' = [conv EXCEPT ![h] = c]
        /\ mailbox' = Append(mailbox, Finished)
        /\ UNCHANGED <<pamHandle, watched, futures, cancelling, reentered, overridden,
                       pluginVars, viewVars>>
    BY <1>1, <1>13 DEF EndThread, Posted, Finished, Conversation
  <2>2. c \in Conversation /\ c.thread = "ended" /\ c.user = conv[h].user
    BY <1>1 DEF Conversation, Threads
  <2>3. Busy /\ h \notin ToSet(futures)
    BY <1>2, <2>1 DEF Busy
  <2> HIDE DEF c
  <2> QED
    BY <1>6, <2>1, <2>2, <2>3
<1> QED
  BY <1>8, <1>9, <1>10, <1>11, <1>12, <1>13 DEF ThreadStep

-----------------------------------------------------------------------------
(* What start() leaves behind.                                             *)

\* The second half of start(): a handle nothing refers to.
LEMMA ConverseStarts ==
    ASSUME NEW cs \in [Handles -> Conversation], NEW mail \in Seq(Message),
           MessagesTrueOf(cs, mail), NEW u \in Users, Converse(u, cs, mail)
    PROVE  /\ pamHandle' \in Handles /\ watched' = pamHandle'
           /\ cs[pamHandle'].thread = "free"
           /\ conv' \in [Handles -> Conversation]
           /\ conv'[pamHandle'].thread = "queued" /\ conv'[pamHandle'].user = u
           /\ \A g \in Handles : g # pamHandle' => conv'[g] = cs[g]
           /\ mailbox' \in Seq(Message) /\ MessagesTrueOf(conv', mailbox')
<1> DEFINE c == [NoConversation EXCEPT !.user = u, !.thread = "queued"]
<1>1. c \in Conversation /\ c.thread = "queued" /\ c.user = u
  <2>1. NoConversation \in Conversation
    BY DEF NoConversation, Conversation, Threads
  <2> QED
    BY <2>1 DEF Conversation, Threads
<1> HIDE DEF c
<1>2. PICK h \in Handles : /\ cs[h].thread = "free"
                           /\ pamHandle' = h /\ watched' = h
                           /\ conv' = [cs EXCEPT ![h] = c]
                           /\ mailbox' = Purged(mail)
  <2>1. PICK h \in Free(cs) :
                /\ pamHandle' = h /\ watched' = h
                /\ conv' = [cs EXCEPT ![h] = c]
                /\ mailbox' = Purged(mail)
    BY Zenon DEF Converse, c
  <2> QED
    BY <2>1 DEF Free
<1>3. /\ conv' \in [Handles -> Conversation] /\ conv'[h] = c
      /\ \A g \in Handles : g # h => conv'[g] = cs[g]
  BY <1>1, <1>2
<1>4. /\ Purged(mail) \in Seq(Message) /\ MessagesTrueOf(cs, Purged(mail))
      /\ \A k \in DOMAIN Purged(mail) : cs[Purged(mail)[k].handle].thread = "blocked"
  BY MessagesPurged
<1>5. \A k \in DOMAIN Purged(mail) : Purged(mail)[k].handle # h
  BY <1>2, <1>4
<1>6. MessagesTrueOf(conv', Purged(mail))
  BY <1>3, <1>4, <1>5, MessagesOfOthers
<1> QED
  BY <1>1, <1>2, <1>3, <1>4, <1>6

\* A new conversation next to the start() calls of stack, which are in progress.
LEMMA AfreshKeeps ==
    ASSUME ConversationIsOne, futures = <<>>,
           NEW u \in Users, NEW cs \in [Handles -> Conversation],
           NEW mail \in Seq(Message), MessagesTrueOf(cs, mail),
           NEW stack \in Seq(Frame), FramesInUse(cs, stack),
           stack # <<>> => cancelling # <<>>,
           AuthenticateAfresh(u, cs, mail, stack),
           announcedUser' \in Users \cup {NoUser},
           cancelling = <<>> => announcedUser' = u,
           verified' = verified, currentUser' \in Users,
           stage' \in {"shown", "hiding", "gone"}
    PROVE  ConversationIsOne'
<1>1. /\ authenticationUser' = u /\ authenticated' = FALSE /\ wasPrompted' = FALSE
      /\ cancelling' = stack /\ reentered' = (cancelling # <<>>) /\ overridden' = FALSE
      /\ futures' = <<>>
  BY DEF AuthenticateAfresh, Authenticates
<1>2. /\ watched \in Handles \cup {NoHandle} /\ verified \in Users \cup {NoUser}
  BY DEF ConversationIsOne, TypeOK
<1>3. /\ conv' \in [Handles -> Conversation] /\ mailbox' \in Seq(Message)
      /\ MessagesTrueOf(conv', mailbox')
      /\ promptless' \in BOOLEAN /\ waiting' \in BOOLEAN
      /\ \/ /\ pamHandle' = NoHandle /\ watched' = watched /\ conv' = cs
            /\ waiting' = FALSE
         \/ /\ pamHandle' \in Handles /\ watched' = pamHandle'
            /\ cs[pamHandle'].thread = "free"
            /\ conv'[pamHandle'].thread # "free" /\ conv'[pamHandle'].user = u
            /\ \A g \in Handles : g # pamHandle' => conv'[g] = cs[g]
  <2>1. CASE Converse(u, cs, mail) /\ promptless' = FALSE /\ waiting' = TRUE
    BY <2>1, ConverseStarts
  <2>2. CASE StartFails(cs, mail)
    BY <2>2 DEF StartFails
  <2> QED
    BY <2>1, <2>2 DEF AuthenticateAfresh
<1>4. TypeOK'
  <2>1. pamHandle' \in Handles \cup {NoHandle} /\ watched' \in Handles \cup {NoHandle}
    BY <1>2, <1>3
  <2>2. futures' \in Seq(Handles)
    BY <1>1, EmptySeq
  <2> QED
    BY <1>1, <1>2, <1>3, <2>1, <2>2 DEF TypeOK
<1>5. HandlesInUse'
  <2>1. pamHandle' # NoHandle => watched' = pamHandle' /\ conv'[pamHandle'].thread # "free"
    BY <1>3
  <2>2. ASSUME NEW k \in DOMAIN stack
        PROVE  /\ stack[k].handle # pamHandle' /\ conv'[stack[k].handle].thread # "free"
               /\ \A j \in DOMAIN stack : stack[j].handle = stack[k].handle => j = k
    <3>1. stack[k] \in Frame
      BY SequenceDomain
    <3>2. stack[k].handle \in Handles
      BY <3>1 DEF Frame
    <3>3. /\ cs[stack[k].handle].thread # "free"
          /\ \A j \in DOMAIN stack : stack[j].handle = stack[k].handle => j = k
      BY DEF FramesInUse
    <3>4. stack[k].handle # pamHandle'
      BY <1>3, <3>2, <3>3
    <3> QED
      BY <1>3, <3>2, <3>3, <3>4
  <2> QED
    BY <1>1, <2>1, <2>2 DEF HandlesInUse
<1>6. MessagesAreTrue'
  BY <1>3 DEF MessagesTrueOf, MessagesAreTrue
<1>7. AnswersStayInConversation' /\ AnswersAreAwaited'
  BY <1>1 DEF AnswersStayInConversation, AnswersAreAwaited
<1>8. AuthenticatedUserVerified'
  BY <1>1, <1>3 DEF AuthenticatedUserVerified
<1>9. OutermostStart'
  BY <1>1 DEF OutermostStart
<1>10. WaitingOnScreen'
  BY <1>3 DEF WaitingOnScreen, WaitingForPam
<1> QED
  BY <1>4, <1>5, <1>6, <1>7, <1>8, <1>9, <1>10 DEF ConversationIsOne

\* The user asked was not authenticated.
LEMMA FailedCompletionKeeps ==
    ASSUME ConversationIsOne, futures = <<>>,
           NEW cs \in [Handles -> Conversation],
           NEW mail \in Seq(Message), MessagesTrueOf(cs, mail),
           NEW stack \in Seq(Frame), FramesInUse(cs, stack),
           stack # <<>> => cancelling # <<>>,
           FailedCompletion(cs, mail, stack),
           announcedUser' \in Users \cup {NoUser},
           wasPrompted /\ stage # "gone" /\ cancelling = <<>> => announcedUser' = currentUser,
           ~reentered => /\ stack = <<>>
                         /\ \/ wasPrompted /\ stage # "gone"
                            \/ announcedUser' = authenticationUser,
           UNCHANGED <<verified, currentUser, stage>>
    PROVE  ConversationIsOne'
<1>1. /\ watched \in Handles \cup {NoHandle} /\ verified \in Users \cup {NoUser}
      /\ futures \in Seq(Handles) /\ reentered \in BOOLEAN /\ overridden \in BOOLEAN
      /\ authenticationUser \in Users \cup {NoUser}
      /\ wasPrompted \in BOOLEAN /\ promptless \in BOOLEAN
      /\ currentUser \in Users /\ stage \in {"shown", "hiding", "gone"}
  BY DEF ConversationIsOne, TypeOK
<1>2. CASE wasPrompted /\ stage # "gone"
  <2>1. AuthenticateAfresh(currentUser, cs, mail, stack)
    BY <1>2 DEF FailedCompletion
  <2> QED
    BY <1>1, <1>2, <2>1, AfreshKeeps
<1>3. CASE ~(wasPrompted /\ stage # "gone")
  <2>1. /\ conv' = cs /\ mailbox' = mail /\ pamHandle' = NoHandle
        /\ cancelling' = stack /\ authenticated' = FALSE
        /\ promptless' = (promptless \/ ~wasPrompted) /\ waiting' = FALSE
        /\ watched' = watched /\ futures' = futures /\ reentered' = reentered
        /\ overridden' = overridden
        /\ authenticationUser' = authenticationUser /\ wasPrompted' = wasPrompted
    BY <1>3 DEF FailedCompletion
  <2>2. TypeOK'
    BY <1>1, <2>1 DEF TypeOK
  <2>3. HandlesInUse'
    <3>1. ASSUME NEW k \in DOMAIN stack
          PROVE  /\ stack[k].handle # NoHandle /\ cs[stack[k].handle].thread # "free"
                 /\ \A j \in DOMAIN stack : stack[j].handle = stack[k].handle => j = k
      <4>1. stack[k] \in Frame
        BY SequenceDomain
      <4>2. stack[k].handle \in Handles
        BY <4>1 DEF Frame
      <4> QED
        BY <4>2 DEF FramesInUse
    <3> QED
      BY <2>1, <3>1 DEF HandlesInUse
  <2>4. MessagesAreTrue'
    BY <2>1 DEF MessagesTrueOf, MessagesAreTrue
  <2>5. AnswersStayInConversation' /\ AnswersAreAwaited'
    BY <2>1 DEF AnswersStayInConversation, AnswersAreAwaited
  <2>6. AuthenticatedUserVerified'
    BY <1>3, <2>1 DEF AuthenticatedUserVerified
  <2>7. OutermostStart'
    BY <2>1 DEF OutermostStart
  <2>8. WaitingOnScreen'
    BY <2>1 DEF WaitingOnScreen, WaitingForPam
  <2> QED
    BY <2>2, <2>3, <2>4, <2>5, <2>6, <2>7, <2>8 DEF ConversationIsOne
<1> QED
  BY <1>2, <1>3

-----------------------------------------------------------------------------
(* Steps of the GUI thread.                                                *)

LEMMA Known ==
    ASSUME ConversationIsOne
    PROVE  /\ conv \in [Handles -> Conversation] /\ mailbox \in Seq(Message)
           /\ futures \in Seq(Handles) /\ cancelling \in Seq(Frame)
           /\ pamHandle \in Handles \cup {NoHandle} /\ watched \in Handles \cup {NoHandle}
           /\ MessagesTrueOf(conv, mailbox) /\ FramesInUse(conv, cancelling)
  BY DEF ConversationIsOne, TypeOK, MessagesAreTrue, MessagesTrueOf, HandlesInUse, FramesInUse

\* Without a conversation, or once its thread is done, no answer is promised.
LEMMA NothingPromised ==
    ASSUME ConversationIsOne,
           pamHandle # NoHandle => conv[pamHandle].thread = "ended"
    PROVE  futures = <<>>
<1>1. futures \in Seq(Handles)
  BY Known
<1>2. SUFFICES ASSUME futures # <<>> PROVE FALSE
  OBVIOUS
<1>3. 1 \in DOMAIN futures /\ futures[1] \in Handles
  BY <1>1, <1>2, SequenceDomain
<1>4. futures[1] = pamHandle /\ conv[futures[1]].thread \in {"asking", "blocked", "awaiting"}
  BY <1>3 DEF ConversationIsOne, AnswersStayInConversation, AnswersAreAwaited
<1> QED
  BY <1>3, <1>4

\* pam_end() on a handle whose thread is done.
LEMMA ConversationCloses ==
    ASSUME ConversationIsOne, NEW h \in Handles, conv[h].thread = "ended"
    PROVE  /\ Closed(h) \in [Handles -> Conversation]
           /\ Closed(h)[h].thread = "free"
           /\ \A g \in Handles : g # h => Closed(h)[g] = conv[g]
           /\ MessagesTrueOf(Closed(h), mailbox)
<1>1. NoConversation \in Conversation /\ NoConversation.thread = "free"
  BY DEF NoConversation, Conversation, Threads
<1>2. /\ Closed(h) \in [Handles -> Conversation]
      /\ Closed(h)[h].thread = "free"
      /\ \A g \in Handles : g # h => Closed(h)[g] = conv[g]
  BY <1>1, Known DEF Closed
<1>3. \A k \in DOMAIN mailbox : mailbox[k] \in Message
  BY Known, SequenceDomain
<1>4. ASSUME NEW k \in DOMAIN mailbox
      PROVE  IF mailbox[k].kind = "finished"
             THEN Closed(h)[mailbox[k].handle].thread \in {"ended", "free"}
             ELSE /\ Closed(h)[mailbox[k].handle].thread = "blocked"
                  /\ Closed(h)[mailbox[k].handle].asked < MaxPrompts
                  /\ \A j \in DOMAIN mailbox : mailbox[j] = mailbox[k] => j = k
  <2>1. mailbox[k].handle \in Handles
    BY <1>3 DEF Message
  <2>2. IF mailbox[k].kind = "finished"
        THEN conv[mailbox[k].handle].thread \in {"ended", "free"}
        ELSE /\ conv[mailbox[k].handle].thread = "blocked"
             /\ conv[mailbox[k].handle].asked < MaxPrompts
             /\ \A j \in DOMAIN mailbox : mailbox[j] = mailbox[k] => j = k
    BY Known DEF MessagesTrueOf
  <2> QED
    BY <1>2, <2>1, <2>2
<1> QED
  BY <1>2, <1>4 DEF MessagesTrueOf

LEMMA SelectKeeps ==
    ASSUME ConversationIsOne, NEW u \in Users, Select(u),
           stage' \in {"shown", "hiding", "gone"}
    PROVE  ConversationIsOne'
<1>1. currentUser' = u /\ verified' = verified
  BY DEF Select
<1>2. CASE pamHandle = NoHandle
  <2>1. AuthenticateAfresh(u, conv, mailbox, cancelling) /\ announcedUser' = u
    BY <1>2 DEF Select
  <2>2. futures = <<>>
    BY <1>2, NothingPromised
  <2> QED
    BY <1>1, <2>1, <2>2, Known, AfreshKeeps
<1>3. CASE pamHandle # NoHandle
  <2> DEFINE frame == [handle |-> pamHandle, user |-> u]
  <2>1. /\ cancelling' = <<frame>> \o cancelling /\ pamHandle' = NoHandle /\ futures' = <<>>
        /\ reentered' = (cancelling # <<>>) /\ overridden' = FALSE
        /\ watched' = watched /\ conv' = conv /\ mailbox' = mailbox
        /\ announcedUser' = announcedUser
        /\ authenticationUser' = u /\ authenticated' = FALSE
        /\ wasPrompted' = FALSE /\ promptless' = FALSE /\ waiting' = TRUE
    BY <1>3 DEF Select, CancelPam, FrameOf, AnswersDismissed, Authenticates
  <2>2. frame \in Frame /\ frame.handle = pamHandle /\ frame.user = u
    BY <1>3, Known DEF Frame
  <2> HIDE DEF frame
  <2>3. /\ cancelling' \in Seq(Frame) /\ cancelling' # <<>>
        /\ Len(cancelling') = Len(cancelling) + 1
        /\ DOMAIN cancelling' = 1..(Len(cancelling) + 1)
        /\ cancelling'[1] = frame
        /\ \A k \in DOMAIN cancelling : cancelling'[k + 1] = cancelling[k]
    <3>1. /\ cancelling' \in Seq(Frame) /\ Len(cancelling') = Len(cancelling) + 1
          /\ DOMAIN cancelling' = 1..(Len(cancelling) + 1)
          /\ cancelling'[1] = frame
          /\ \A k \in DOMAIN cancelling : cancelling'[k + 1] = cancelling[k]
      BY <2>1, <2>2, Known, SequencePrepended
    <3>2. Len(cancelling) \in Nat
      BY Known, SequenceDomain
    <3> QED
      BY <3>1, <3>2, SequenceDomain
  <2>4. Len(cancelling) \in Nat /\ DOMAIN cancelling = 1..Len(cancelling)
    BY Known, SequenceDomain
  <2>5. TypeOK'
    <3>1. futures' \in Seq(Handles) /\ reentered' \in BOOLEAN /\ overridden' \in BOOLEAN
      BY <2>1, EmptySeq
    <3> QED
      BY <1>1, <2>1, <2>3, <3>1 DEF ConversationIsOne, TypeOK
  <2>6. HandlesInUse'
    <3>1. ASSUME NEW k \in DOMAIN cancelling'
          PROVE  /\ cancelling'[k].handle # NoHandle
                 /\ conv[cancelling'[k].handle].thread # "free"
                 /\ \A j \in DOMAIN cancelling' :
                       cancelling'[j].handle = cancelling'[k].handle => j = k
      <4>1. cancelling'[k] \in Frame
        BY <2>3, SequenceDomain
      <4>2. cancelling'[k].handle \in Handles
        BY <4>1 DEF Frame
      <4>3. \A i \in DOMAIN cancelling :
                /\ cancelling[i].handle # pamHandle
                /\ conv[cancelling[i].handle].thread # "free"
                /\ \A j \in DOMAIN cancelling :
                      cancelling[j].handle = cancelling[i].handle => j = i
        BY DEF ConversationIsOne, HandlesInUse
      <4>4. conv[pamHandle].thread # "free"
        BY <1>3 DEF ConversationIsOne, HandlesInUse
      <4>5. \A j \in DOMAIN cancelling' :
                j # 1 => j - 1 \in DOMAIN cancelling /\ cancelling'[j] = cancelling[j - 1]
        <5>1. \A j \in DOMAIN cancelling' :
                  j # 1 => j - 1 \in DOMAIN cancelling /\ (j - 1) + 1 = j
          BY <2>3, <2>4
        <5> QED
          BY <2>3, <5>1
      <4>6. CASE k = 1
        BY <2>2, <2>3, <4>2, <4>3, <4>4, <4>5, <4>6
      <4>7. CASE k # 1
        <5>1. k - 1 \in DOMAIN cancelling /\ cancelling'[k] = cancelling[k - 1]
          BY <4>5, <4>7
        <5>2. ASSUME NEW j \in DOMAIN cancelling',
                     cancelling'[j].handle = cancelling'[k].handle
              PROVE  j = k
          <6>1. j # 1
            BY <2>2, <2>3, <4>3, <5>1, <5>2
          <6>2. j - 1 \in DOMAIN cancelling /\ cancelling'[j] = cancelling[j - 1]
            BY <4>5, <6>1
          <6>3. j - 1 = k - 1
            BY <4>3, <5>1, <5>2, <6>2
          <6> QED
            BY <2>3, <2>4, <6>3
        <5> QED
          BY <4>2, <4>3, <5>1, <5>2
      <4> QED
        BY <4>6, <4>7
    <3> QED
      BY <2>1, <3>1 DEF HandlesInUse
  <2>7. MessagesAreTrue'
    BY <2>1 DEF ConversationIsOne, MessagesAreTrue
  <2>8. AnswersStayInConversation' /\ AnswersAreAwaited'
    BY <2>1 DEF AnswersStayInConversation, AnswersAreAwaited
  <2>9. AuthenticatedUserVerified'
    BY <2>1, <2>3 DEF AuthenticatedUserVerified
  <2>10. OutermostStart'
    <3>1. cancelling = <<>> => Len(cancelling) = 0
      BY <2>4
    <3>2. ~reentered' => cancelling = <<>>
      BY <2>1
    <3>3. ~reentered' => Len(cancelling') = 1
      BY <2>3, <3>1, <3>2
    <3>4. pamHandle' = NoHandle /\ cancelling'[1].user = authenticationUser'
      BY <2>1, <2>2, <2>3
    <3> QED
      BY <3>3, <3>4 DEF OutermostStart
  <2>11. WaitingOnScreen'
    BY <2>1, <2>3 DEF WaitingOnScreen, WaitingForPam
  <2> QED
    BY <2>5, <2>6, <2>7, <2>8, <2>9, <2>10, <2>11 DEF ConversationIsOne
<1> QED
  BY <1>2, <1>3

LEMMA ResumeStartKeeps ==
    ASSUME ConversationIsOne, ResumeStart
    PROVE  ConversationIsOne'
<1> DEFINE frame == Head(cancelling)
           h == frame.handle
           rest == Tail(cancelling)
<1>1. /\ cancelling # <<>> /\ conv[h].thread = "ended"
      /\ announcedUser' = frame.user
      /\ UNCHANGED <<verified, currentUser, stage>>
  BY DEF ResumeStart
<1>2. /\ frame = cancelling[1] /\ frame \in Frame /\ 1 \in DOMAIN cancelling
      /\ rest \in Seq(Frame) /\ DOMAIN rest = 1..(Len(cancelling) - 1)
      /\ \A k \in DOMAIN rest : k + 1 \in DOMAIN cancelling /\ rest[k] = cancelling[k + 1]
  BY <1>1, Known, SequenceTail
<1>3. Len(cancelling) \in Nat /\ Len(cancelling) # 0 /\ DOMAIN cancelling = 1..Len(cancelling)
  BY <1>1, Known, SequenceDomain
<1>4. h \in Handles /\ frame.user \in Users
  BY <1>2 DEF Frame
<1> HIDE DEF frame, rest
<1>5. \A k \in DOMAIN cancelling :
          /\ cancelling[k].handle # pamHandle
          /\ conv[cancelling[k].handle].thread # "free"
          /\ \A j \in DOMAIN cancelling :
                cancelling[j].handle = cancelling[k].handle => j = k
  BY DEF ConversationIsOne, HandlesInUse
<1> HIDE DEF h
<1>6. \A k \in DOMAIN rest :
          /\ rest[k] \in Frame /\ rest[k].handle \in Handles
          /\ rest[k].handle # h /\ rest[k].handle # pamHandle
          /\ conv[rest[k].handle].thread # "free"
          /\ \A j \in DOMAIN rest : rest[j].handle = rest[k].handle => j = k
  <2> SUFFICES ASSUME NEW k \in DOMAIN rest
               PROVE  /\ rest[k] \in Frame /\ rest[k].handle \in Handles
                      /\ rest[k].handle # h /\ rest[k].handle # pamHandle
                      /\ conv[rest[k].handle].thread # "free"
                      /\ \A j \in DOMAIN rest : rest[j].handle = rest[k].handle => j = k
    OBVIOUS
  <2>1. rest[k] \in Frame
    BY <1>2, SequenceDomain
  <2>2. k + 1 \in DOMAIN cancelling /\ k + 1 # 1 /\ rest[k] = cancelling[k + 1]
    BY <1>2, <1>3
  <2>3. cancelling[1].handle # cancelling[k + 1].handle
    BY <1>2, <1>5, <2>2
  <2>4. ASSUME NEW j \in DOMAIN rest, rest[j].handle = rest[k].handle PROVE j = k
    <3>1. j + 1 \in DOMAIN cancelling /\ rest[j] = cancelling[j + 1]
      BY <1>2
    <3>2. j + 1 = k + 1
      BY <1>5, <2>2, <2>4, <3>1
    <3> QED
      BY <1>2, <1>3, <3>2
  <2> QED
    BY <1>2, <1>5, <2>1, <2>2, <2>3, <2>4 DEF Frame, h
<1>7. /\ Closed(h) \in [Handles -> Conversation]
      /\ Closed(h)[h].thread = "free"
      /\ \A g \in Handles : g # h => Closed(h)[g] = conv[g]
      /\ MessagesTrueOf(Closed(h), mailbox)
  BY <1>1, <1>4, ConversationCloses DEF h
<1>8. FramesInUse(Closed(h), rest)
  BY <1>6, <1>7 DEF FramesInUse
<1>9. ~reentered => rest = <<>> /\ pamHandle = NoHandle /\ frame.user = authenticationUser
  <2>1. Len(cancelling) = 1 => rest = <<>>
    BY <1>2, SequenceDomain
  <2> QED
    BY <1>1, <1>2, <2>1 DEF ConversationIsOne, OutermostStart
<1>10. CASE /\ pamHandle # NoHandle
            /\ conv' = Closed(h)
            /\ UNCHANGED <<pamHandle, watched, mailbox, overridden>>
            /\ cancelling' = rest
            /\ UNCHANGED <<futures, reentered, authenticated, authenticationUser,
                           wasPrompted, promptless, waiting>>
  <2>1. reentered /\ pamHandle \in Handles /\ pamHandle # h
    BY <1>2, <1>5, <1>9, <1>10, Known DEF h, ConversationIsOne, TypeOK
  <2>2. TypeOK'
    BY <1>1, <1>2, <1>4, <1>7, <1>10 DEF ConversationIsOne, TypeOK
  <2>3. HandlesInUse'
    <3>1. watched = pamHandle /\ conv[pamHandle].thread # "free"
      BY <1>10 DEF ConversationIsOne, HandlesInUse
    <3> QED
      BY <1>6, <1>7, <1>10, <2>1, <3>1 DEF HandlesInUse
  <2>4. MessagesAreTrue'
    BY <1>7, <1>10 DEF MessagesTrueOf, MessagesAreTrue
  <2>5. AnswersStayInConversation'
    BY <1>10 DEF ConversationIsOne, AnswersStayInConversation
  <2>6. AnswersAreAwaited'
    <3>1. \A k \in DOMAIN futures : futures[k] = pamHandle
      BY DEF ConversationIsOne, AnswersStayInConversation
    <3> QED
      BY <1>7, <1>10, <2>1, <3>1 DEF ConversationIsOne, AnswersAreAwaited
  <2>7. AuthenticatedUserVerified' /\ OutermostStart'
    <3>1. conv'[pamHandle].user = conv[pamHandle].user
      BY <1>7, <1>10, <2>1
    <3>2. AuthenticatedUserVerified
      BY DEF ConversationIsOne
    <3> QED
      BY <1>1, <1>10, <2>1, <3>1, <3>2 DEF AuthenticatedUserVerified, OutermostStart
  <2>8. WaitingOnScreen'
    BY <1>10 DEF WaitingOnScreen, WaitingForPam
  <2> QED
    BY <2>2, <2>3, <2>4, <2>5, <2>6, <2>7, <2>8 DEF ConversationIsOne
<1>11. CASE /\ pamHandle = NoHandle
            /\ Converse(frame.user, Closed(h), mailbox)
            /\ overridden' = (overridden \/ frame.user # authenticationUser)
            /\ cancelling' = rest
            /\ UNCHANGED <<futures, reentered, authenticated, authenticationUser,
                           wasPrompted, promptless, waiting>>
  <2>1. futures = <<>>
    BY <1>11, NothingPromised
  <2>2. /\ pamHandle' \in Handles /\ watched' = pamHandle'
        /\ Closed(h)[pamHandle'].thread = "free"
        /\ conv' \in [Handles -> Conversation]
        /\ conv'[pamHandle'].thread = "queued" /\ conv'[pamHandle'].user = frame.user
        /\ \A g \in Handles : g # pamHandle' => conv'[g] = Closed(h)[g]
        /\ mailbox' \in Seq(Message) /\ MessagesTrueOf(conv', mailbox')
    BY <1>4, <1>7, <1>11, Known, ConverseStarts
  <2>3. TypeOK'
    BY <1>1, <1>2, <1>4, <1>11, <2>2 DEF ConversationIsOne, TypeOK
  <2>4. HandlesInUse'
    <3>1. ASSUME NEW k \in DOMAIN rest
          PROVE  rest[k].handle # pamHandle' /\ conv'[rest[k].handle].thread # "free"
      BY <1>6, <1>7, <2>2
    <3> QED
      BY <1>6, <1>11, <2>2, <3>1 DEF HandlesInUse
  <2>5. MessagesAreTrue'
    BY <2>2 DEF MessagesTrueOf, MessagesAreTrue
  <2>6. AnswersStayInConversation' /\ AnswersAreAwaited'
    BY <1>11, <2>1 DEF AnswersStayInConversation, AnswersAreAwaited
  <2>7. AuthenticatedUserVerified'
    BY <1>1, <1>9, <1>11, <2>2 DEF ConversationIsOne, AuthenticatedUserVerified
  <2>8. OutermostStart'
    BY <1>9, <1>11 DEF OutermostStart
  <2>9. WaitingOnScreen'
    BY <2>2 DEF WaitingOnScreen, WaitingForPam
  <2> QED
    BY <2>3, <2>4, <2>5, <2>6, <2>7, <2>8, <2>9 DEF ConversationIsOne
<1>12. CASE /\ pamHandle = NoHandle
            /\ FailedCompletion(Closed(h), mailbox, rest)
  <2>1. futures = <<>>
    BY <1>12, NothingPromised
  <2> QED
    BY <1>1, <1>2, <1>4, <1>7, <1>8, <1>9, <1>12, <2>1, Known, FailedCompletionKeeps
<1> QED
  BY <1>10, <1>11, <1>12 DEF ResumeStart, Bails, frame, rest, h

\* finishPam() hears of the conversation GreeterImpl is in.
LEMMA FinishedConversation ==
    ASSUME ConversationIsOne, NEW h \in Handles, Finishes(h)
    PROVE  /\ pamHandle = h /\ conv[h].thread = "ended" /\ futures = <<>>
           /\ Closed(h) \in [Handles -> Conversation]
           /\ \A g \in Handles : g # h => Closed(h)[g] = conv[g]
           /\ MessagesTrueOf(Closed(h), Tail(mailbox))
           /\ FramesInUse(Closed(h), cancelling)
           /\ ~reentered => cancelling = <<>>
<1>1. /\ pamHandle # NoHandle /\ h = watched /\ mailbox # <<>>
      /\ Head(mailbox).kind = "finished" /\ Head(mailbox).handle = h
  BY DEF Finishes, Heard
<1>2. conv[h].thread \in {"ended", "free"}
  BY <1>1, Known, MessageTaken
<1>3. pamHandle = h /\ conv[h].thread # "free"
  BY <1>1 DEF ConversationIsOne, HandlesInUse
<1>4. conv[h].thread = "ended" /\ futures = <<>>
  BY <1>2, <1>3, NothingPromised
<1>5. /\ Closed(h) \in [Handles -> Conversation]
      /\ \A g \in Handles : g # h => Closed(h)[g] = conv[g]
      /\ MessagesTrueOf(Closed(h), mailbox)
  BY <1>4, ConversationCloses
<1>6. MessagesTrueOf(Closed(h), Tail(mailbox))
  BY <1>1, <1>5, Known, MessageTaken
<1>7. ASSUME NEW k \in DOMAIN cancelling
      PROVE  /\ Closed(h)[cancelling[k].handle].thread # "free"
             /\ \A j \in DOMAIN cancelling :
                   cancelling[j].handle = cancelling[k].handle => j = k
  <2>1. cancelling[k] \in Frame
    BY Known, SequenceDomain
  <2>2. cancelling[k].handle \in Handles
    BY <2>1 DEF Frame
  <2>3. /\ cancelling[k].handle # pamHandle
        /\ conv[cancelling[k].handle].thread # "free"
        /\ \A j \in DOMAIN cancelling :
              cancelling[j].handle = cancelling[k].handle => j = k
    BY DEF ConversationIsOne, HandlesInUse
  <2> QED
    BY <1>3, <1>5, <2>2, <2>3
<1>8. ~reentered => cancelling = <<>>
  BY <1>1 DEF ConversationIsOne, OutermostStart
<1> QED
  BY <1>3, <1>4, <1>5, <1>6, <1>7, <1>8 DEF FramesInUse

LEMMA EventKeeps ==
    ASSUME ConversationIsOne, NEW h \in Handles,
           HandlePrompt(h) \/ IgnoreFinished(h) \/ HandleSuccess(h) \/ HandleFailure(h)
    PROVE  ConversationIsOne'
<1> DEFINE rest == Tail(mailbox)
<1>1. mailbox # <<>> /\ Head(mailbox).handle = h
  BY DEF HandlePrompt, IgnoreFinished, HandleSuccess, HandleFailure, Finishes, Heard
<1>2. /\ rest \in Seq(Message) /\ MessagesTrueOf(conv, rest)
      /\ Head(mailbox) \in Message
      /\ Head(mailbox).kind # "finished" =>
            \A k \in DOMAIN rest : rest[k] # Head(mailbox)
      /\ IF Head(mailbox).kind = "finished"
         THEN conv[h].thread \in {"ended", "free"}
         ELSE conv[h].thread = "blocked" /\ conv[h].asked < MaxPrompts
  BY <1>1, Known, MessageTaken
<1> HIDE DEF rest
<1>3. ASSUME HandlePrompt(h) PROVE ConversationIsOne'
  <2> DEFINE c == [conv[h] EXCEPT !.thread = "asking", !.asked = @ + 1]
  <2>1. Head(mailbox).kind = "prompt"
    BY <1>3 DEF HandlePrompt, Heard
  <2>2. conv[h].thread = "blocked" /\ conv[h].asked < MaxPrompts
    BY <1>2, <2>1
  <2>3. /\ c \in Conversation /\ c.thread = "asking" /\ c.user = conv[h].user
    <3>1. conv[h] \in Conversation
      BY Known
    <3>2. conv[h].asked + 1 \in 0..MaxPrompts
      BY <2>2, <3>1 DEF Conversation
    <3> QED
      BY <3>1, <3>2 DEF Conversation, Threads
  <2>4. /\ conv' = [conv EXCEPT ![h] = c] /\ mailbox' = rest
        /\ UNCHANGED <<pamHandle, watched, cancelling, reentered, overridden, authenticated,
                       authenticationUser, verified, promptless, announcedUser,
                       currentUser, stage>>
        /\ IF h = pamHandle
           THEN futures' = Append(futures, h) /\ wasPrompted' = TRUE /\ waiting' = FALSE
           ELSE UNCHANGED <<futures, wasPrompted, waiting>>
    BY <1>3, Known DEF HandlePrompt, rest
  <2> HIDE DEF c
  <2>5. /\ conv' \in [Handles -> Conversation] /\ conv'[h] = c
        /\ \A g \in Handles : g # h => conv'[g] = conv[g]
    BY <2>3, <2>4, Known
  <2>6. futures' \in Seq(Handles)
    <3>1. futures \in Seq(Handles)
      BY Known
    <3>2. Append(futures, h) \in Seq(Handles)
      BY <3>1, SequenceAppended
    <3> QED
      BY <2>4, <3>1, <3>2
  <2>7. TypeOK'
    <3>1. TypeOK
      BY DEF ConversationIsOne
    <3>2. wasPrompted' \in BOOLEAN /\ waiting' \in BOOLEAN
      BY <2>4, <3>1 DEF TypeOK
    <3> QED
      BY <1>2, <2>4, <2>5, <2>6, <3>1, <3>2, Zenon DEF TypeOK
  <2>8. HandlesInUse'
    <3>1. \A k \in DOMAIN cancelling : cancelling[k] \in Frame
      BY Known, SequenceDomain
    <3>2. \A k \in DOMAIN cancelling : cancelling[k].handle \in Handles
      BY <3>1 DEF Frame
    <3>3. \A g \in Handles : conv[g].thread # "free" => conv'[g].thread # "free"
      BY <2>3, <2>5
    <3> QED
      BY <2>4, <3>2, <3>3, Known DEF ConversationIsOne, HandlesInUse
  <2>9. MessagesAreTrue'
    <3>1. ASSUME NEW k \in DOMAIN rest PROVE rest[k].handle # h
      <4>1. rest[k] \in Message /\ Head(mailbox) \in Message
        BY <1>2, SequenceDomain
      <4>2. ASSUME rest[k].handle = h PROVE FALSE
        <5>1. rest[k].kind # "finished"
          BY <1>2, <2>2, <4>2 DEF MessagesTrueOf
        <5>2. rest[k].kind = "prompt"
          BY <4>1, <5>1 DEF Message
        <5>3. rest[k] = Head(mailbox)
          BY <1>1, <2>1, <4>1, <4>2, <5>2 DEF Message
        <5> QED
          BY <1>2, <2>1, <5>3
      <4> QED
        BY <4>2
    <3>2. MessagesTrueOf(conv', rest)
      BY <1>2, <2>5, <3>1, MessagesOfOthers
    <3> QED
      BY <2>4, <3>2 DEF MessagesTrueOf, MessagesAreTrue
  <2>10. \A k \in DOMAIN futures' :
            \/ k \in DOMAIN futures /\ futures'[k] = futures[k]
            \/ h = pamHandle /\ futures'[k] = h
    <3>1. CASE h = pamHandle
      <4>1. futures' = Append(futures, h) /\ futures \in Seq(Handles)
        BY <2>4, <3>1, Known
      <4>2. /\ DOMAIN futures' = 1..(Len(futures) + 1)
            /\ \A k \in DOMAIN futures : futures'[k] = futures[k]
            /\ futures'[Len(futures) + 1] = h
        BY <4>1, SequenceAppended
      <4>3. Len(futures) \in Nat /\ DOMAIN futures = 1..Len(futures)
        BY <4>1, SequenceDomain
      <4> QED
        BY <3>1, <4>2, <4>3
    <3>2. CASE h # pamHandle
      BY <2>4, <3>2
    <3> QED
      BY <3>1, <3>2
  <2>11. AnswersStayInConversation'
    BY <2>4, <2>10 DEF ConversationIsOne, AnswersStayInConversation
  <2>12. AnswersAreAwaited'
    <3> SUFFICES ASSUME NEW k \in DOMAIN futures'
                 PROVE  conv'[futures'[k]].thread \in {"asking", "blocked", "awaiting"}
      BY DEF AnswersAreAwaited
    <3>1. CASE futures'[k] = h
      BY <2>3, <2>5, <3>1
    <3>2. CASE futures'[k] # h
      <4>1. k \in DOMAIN futures /\ futures'[k] = futures[k]
        BY <2>10, <3>2
      <4>2. futures[k] \in Handles
        BY <4>1, Known, SequenceDomain
      <4>3. conv[futures[k]].thread \in {"asking", "blocked", "awaiting"}
        BY <4>1 DEF ConversationIsOne, AnswersAreAwaited
      <4> QED
        BY <2>5, <3>2, <4>1, <4>2, <4>3
    <3> QED
      BY <3>1, <3>2
  <2>13. AuthenticatedUserVerified'
    <3>1. \A g \in Handles : conv'[g].user = conv[g].user
      BY <2>3, <2>5
    <3> QED
      BY <2>4, <3>1, Known DEF ConversationIsOne, AuthenticatedUserVerified
  <2>14. OutermostStart'
    BY <2>4 DEF ConversationIsOne, OutermostStart
  <2>15. WaitingOnScreen'
    BY <2>4 DEF ConversationIsOne, WaitingOnScreen, WaitingForPam
  <2> QED
    BY <2>7, <2>8, <2>9, <2>11, <2>12, <2>13, <2>14, <2>15 DEF ConversationIsOne
<1>4. ASSUME IgnoreFinished(h) PROVE ConversationIsOne'
  <2>1. /\ mailbox' = rest
        /\ UNCHANGED <<pamHandle, watched, conv, futures, cancelling, reentered, overridden,
                       pluginVars, viewVars>>
    BY <1>4 DEF IgnoreFinished, rest
  <2>2. TypeOK'
    BY <1>2, <2>1 DEF ConversationIsOne, TypeOK, pluginVars, viewVars
  <2>3. HandlesInUse' /\ AnswersStayInConversation' /\ AnswersAreAwaited'
    BY <2>1 DEF ConversationIsOne, HandlesInUse, AnswersStayInConversation, AnswersAreAwaited
  <2>4. MessagesAreTrue'
    BY <1>2, <2>1 DEF MessagesTrueOf, MessagesAreTrue
  <2>5. AuthenticatedUserVerified' /\ OutermostStart' /\ WaitingOnScreen'
    BY <2>1 DEF ConversationIsOne, AuthenticatedUserVerified, OutermostStart,
                WaitingOnScreen, WaitingForPam, pluginVars, viewVars
  <2> QED
    BY <2>2, <2>3, <2>4, <2>5 DEF ConversationIsOne
<1>5. ASSUME Finishes(h)
      PROVE  /\ pamHandle = h /\ conv[h].thread = "ended" /\ futures = <<>>
             /\ Closed(h) \in [Handles -> Conversation]
             /\ \A g \in Handles : g # h => Closed(h)[g] = conv[g]
             /\ MessagesTrueOf(Closed(h), rest)
             /\ FramesInUse(Closed(h), cancelling)
             /\ ~reentered => cancelling = <<>>
  BY <1>5, FinishedConversation DEF rest
<1>6. ASSUME HandleSuccess(h) PROVE ConversationIsOne'
  <2>1. /\ mailbox' = rest /\ conv' = Closed(h) /\ pamHandle' = NoHandle
        /\ authenticated' = TRUE /\ verified' = conv[h].user
        /\ promptless' = (promptless \/ ~wasPrompted) /\ waiting' = FALSE
        /\ stage' = IF stage = "shown" /\ ~promptless' THEN "hiding" ELSE stage
        /\ UNCHANGED <<watched, futures, cancelling, reentered, overridden, authenticationUser,
                       wasPrompted, announcedUser, currentUser>>
        /\ Finishes(h)
    BY <1>6 DEF HandleSuccess, rest
  <2>2. conv[h].user \in Users \cup {NoUser}
    BY Known DEF Conversation
  <2>3. TypeOK'
    BY <1>2, <1>5, <2>1, <2>2 DEF ConversationIsOne, TypeOK
  <2>4. HandlesInUse'
    <3>1. ASSUME NEW k \in DOMAIN cancelling
          PROVE  cancelling[k].handle # NoHandle
      <4>1. cancelling[k] \in Frame
        BY Known, SequenceDomain
      <4> QED
        BY <4>1 DEF Frame
    <3> QED
      BY <1>5, <2>1, <3>1 DEF HandlesInUse, FramesInUse
  <2>5. MessagesAreTrue'
    BY <1>5, <2>1 DEF MessagesTrueOf, MessagesAreTrue
  <2>6. AnswersStayInConversation' /\ AnswersAreAwaited'
    BY <1>5, <2>1 DEF AnswersStayInConversation, AnswersAreAwaited
  <2>7. AuthenticatedUserVerified'
    BY <1>5, <2>1 DEF ConversationIsOne, AuthenticatedUserVerified
  <2>8. OutermostStart'
    BY <1>5, <2>1 DEF OutermostStart
  <2>9. WaitingOnScreen'
    BY <2>1 DEF WaitingOnScreen, WaitingForPam
  <2> QED
    BY <2>3, <2>4, <2>5, <2>6, <2>7, <2>8, <2>9 DEF ConversationIsOne
<1>7. ASSUME HandleFailure(h) PROVE ConversationIsOne'
  <2>1. /\ Finishes(h)
        /\ FailedCompletion(Closed(h), rest, cancelling)
        /\ announcedUser' = IF wasPrompted /\ stage # "gone"
                            THEN currentUser ELSE announcedUser
        /\ UNCHANGED <<verified, currentUser, stage>>
    BY <1>7 DEF HandleFailure, rest
  <2>2. announcedUser' \in Users \cup {NoUser}
    BY <2>1 DEF ConversationIsOne, TypeOK
  <2>3. ~reentered => /\ cancelling = <<>>
                      /\ \/ wasPrompted /\ stage # "gone"
                         \/ announcedUser' = authenticationUser
    BY <1>5, <2>1 DEF ConversationIsOne, AuthenticatedUserVerified
  <2> QED
    BY <1>2, <1>5, <2>1, <2>2, <2>3, Known, FailedCompletionKeeps
<1> QED
  BY <1>3, <1>4, <1>6, <1>7

-----------------------------------------------------------------------------
(* The theorems.                                                           *)

LEMMA ConversationIsOneInit == Init => ConversationIsOne
<1> SUFFICES ASSUME Init PROVE ConversationIsOne
  OBVIOUS
<1>1. TypeOK
  <2>1. NoConversation \in Conversation
    BY DEF NoConversation, Conversation, Threads
  <2>2. /\ futures \in Seq(Handles) /\ mailbox \in Seq(Message)
        /\ cancelling \in Seq(Frame)
    BY EmptySeq DEF Init
  <2> QED
    BY <2>1, <2>2 DEF Init, TypeOK
<1> QED
  BY <1>1 DEF Init, ConversationIsOne, HandlesInUse, MessagesAreTrue,
              AnswersStayInConversation, AnswersAreAwaited, AuthenticatedUserVerified,
              OutermostStart, WaitingOnScreen, WaitingForPam

LEMMA ConversationIsOneStep ==
    ConversationIsOne /\ [Next]_vars => ConversationIsOne'
<1> SUFFICES ASSUME ConversationIsOne, [Next]_vars PROVE ConversationIsOne'
  OBVIOUS
\* A step of the view alone, that takes at most an answer from the queue.
<1>1. ASSUME UNCHANGED <<pamHandle, watched, conv, mailbox, cancelling, reentered, overridden,
                         pluginVars, currentUser>>,
             futures' = futures \/ (futures # <<>> /\ futures' = Tail(futures)),
             waiting' \in BOOLEAN, stage' \in {"shown", "hiding", "gone"},
             stage' # "gone" => stage # "gone" /\ waiting' = waiting
      PROVE  ConversationIsOne'
  <2>1. /\ futures' \in Seq(Handles)
        /\ \A k \in DOMAIN futures' : \E j \in DOMAIN futures : futures'[k] = futures[j]
    <3>0. futures \in Seq(Handles)
      BY Known
    <3>1. CASE futures' = futures
      BY <3>0, <3>1
    <3>2. CASE futures # <<>> /\ futures' = Tail(futures)
      <4>1. /\ Tail(futures) \in Seq(Handles)
            /\ \A k \in DOMAIN Tail(futures) :
                  k + 1 \in DOMAIN futures /\ Tail(futures)[k] = futures[k + 1]
        BY <3>0, <3>2, SequenceTail
      <4> QED
        BY <3>2, <4>1
    <3> QED
      BY <1>1, <3>1, <3>2
  <2>2. TypeOK'
    BY <1>1, <2>1 DEF ConversationIsOne, TypeOK, pluginVars
  <2>3. HandlesInUse' /\ MessagesAreTrue'
    BY <1>1 DEF ConversationIsOne, HandlesInUse, MessagesAreTrue
  <2>4. AnswersStayInConversation' /\ AnswersAreAwaited'
    BY <1>1, <2>1 DEF ConversationIsOne, AnswersStayInConversation, AnswersAreAwaited
  <2>5. AuthenticatedUserVerified' /\ OutermostStart'
    BY <1>1 DEF ConversationIsOne, AuthenticatedUserVerified, OutermostStart, pluginVars
  <2>6. WaitingOnScreen'
    BY <1>1 DEF ConversationIsOne, WaitingOnScreen, WaitingForPam
  <2> QED
    BY <2>2, <2>3, <2>4, <2>5, <2>6 DEF ConversationIsOne
<1>2. stage \in {"shown", "hiding", "gone"} /\ waiting \in BOOLEAN /\ currentUser \in Users
  BY DEF ConversationIsOne, TypeOK
<1>3. ASSUME NEW h \in Handles, ThreadStep(h) PROVE ConversationIsOne'
  BY <1>3, ThreadStepKeeps
<1>4. CASE HandleEvent
  BY <1>4, EventKeeps DEF HandleEvent
<1>5. CASE ResumeStart
  BY <1>5, ResumeStartKeeps
<1>6. ASSUME NEW u \in Users, SelectUser(u) \/ RequestAuthenticationUser(u)
      PROVE  ConversationIsOne'
  BY <1>2, <1>6, SelectKeeps DEF SelectUser, RequestAuthenticationUser
<1>7. CASE RequestWithoutView
  <2>1. /\ UNCHANGED <<pamHandle, watched, conv, mailbox, cancelling, reentered, overridden,
                        pluginVars, currentUser>>
        /\ futures' = futures
        /\ waiting' \in BOOLEAN /\ stage' = "gone"
    BY <1>7 DEF RequestWithoutView, implVars
  <2> QED
    BY <1>1, <2>1
<1>8. CASE Respond
  BY <1>1, <1>2, <1>8 DEF Respond, viewVars
<1>9. CASE Swipe \/ HideGreeter \/ HideDone
  <2>1. /\ UNCHANGED <<pamHandle, watched, conv, mailbox, cancelling, reentered, overridden,
                        pluginVars, currentUser>>
        /\ futures' = futures /\ waiting' = waiting
        /\ stage' \in {"hiding", "gone"} /\ stage # "gone"
    BY <1>9 DEF Swipe, HideGreeter, HideDone, implVars
  <2> QED
    BY <1>1, <1>2, <2>1
<1>10. CASE ShowGreeter
  BY <1>2, <1>10, SelectKeeps DEF ShowGreeter
<1>11. CASE UNCHANGED vars
  <2>1. /\ UNCHANGED <<pamHandle, watched, conv, mailbox, cancelling, reentered, overridden,
                        pluginVars, currentUser>>
        /\ futures' = futures /\ waiting' = waiting /\ stage' = stage
    BY <1>11 DEF vars, implVars, viewVars
  <2> QED
    BY <1>1, <1>2, <2>1
<1> QED
  BY <1>3, <1>4, <1>5, <1>6, <1>7, <1>8, <1>9, <1>10, <1>11 DEF Next

\* One conversation at a time, for every number of users and handles and any depth of
\* start() calls within start() calls: what the user enters, the outcome and the wait
\* belong to the conversation with the user the greeter authenticates, unless an outer
\* start() has gone on for its own user after a nested conversation was over.
THEOREM OneConversation == Spec => []ConversationIsOne
<1> QED
  BY ConversationIsOneInit, ConversationIsOneStep, PTL DEF Spec

\* In particular no promise of a cancelled conversation is left in the queue.
THEOREM AnswersStay == Spec => []AnswersStayInConversation
<1>1. ConversationIsOne => AnswersStayInConversation
  BY DEF ConversationIsOne
<1> QED
  BY <1>1, OneConversation, PTL

\* What is free after a completion or a new conversation was so before.
LEMMA NobodyFreed ==
    ASSUME NEW cs \in [Handles -> Conversation], NEW g \in Handles,
           conv' = cs \/ (\E u \in Users : \E mail : Converse(u, cs, mail)),
           conv'[g].thread = "free"
    PROVE  cs[g].thread = "free"
<1>1. ASSUME NEW u \in Users, NEW mail, Converse(u, cs, mail)
      PROVE  cs[g].thread = "free"
  <2>1. PICK h \in Handles :
            conv' = [cs EXCEPT ![h] = [NoConversation EXCEPT !.user = u, !.thread = "queued"]]
    BY <1>1 DEF Converse, Free
  <2>2. [NoConversation EXCEPT !.user = u, !.thread = "queued"].thread = "queued"
    BY DEF NoConversation
  <2> QED
    BY <2>1, <2>2
<1> QED
  BY <1>1

LEMMA CompletionFreesNobody ==
    ASSUME ConversationIsOne, NEW cs \in [Handles -> Conversation], NEW mail, NEW stack,
           FailedCompletion(cs, mail, stack)
    PROVE  conv' = cs \/ (\E u \in Users : \E m : Converse(u, cs, m))
<1>1. currentUser \in Users
  BY DEF ConversationIsOne, TypeOK
<1> QED
  BY <1>1 DEF FailedCompletion, AuthenticateAfresh, StartFails

LEMMA FreedHandle ==
    ASSUME ConversationIsOne, [Next]_vars, NEW g \in Handles,
           conv[g].thread # "free", conv'[g].thread = "free"
    PROVE  conv[g].thread = "ended"
<1>1. conv \in [Handles -> Conversation] /\ conv' # conv
  BY Known
<1>2. ASSUME NEW h \in Handles, ThreadStep(h) PROVE FALSE
  <2>1. \E to \in Threads \ {"free"} :
            conv' = [conv EXCEPT ![h].thread = to] \/
            \E success \in BOOLEAN : conv' = [conv EXCEPT ![h].thread = to, ![h].success = success]
    BY <1>2 DEF ThreadStep, RunThread, DropThread, ShowPrompt, AwaitAnswers, TakeAnswers,
                EndThread, Moves, Threads
  <2> QED
    BY <1>1, <2>1 DEF Conversation
\* Only h is closed, and its thread is done.
<1>3. ASSUME NEW h \in Handles, conv[h].thread = "ended",
             conv' = Closed(h) \/ (\E u \in Users : \E mail : Converse(u, Closed(h), mail))
      PROVE  conv[g].thread = "ended"
  <2>1. /\ Closed(h) \in [Handles -> Conversation]
        /\ \A f \in Handles : f # h => Closed(h)[f] = conv[f]
    BY <1>3, ConversationCloses
  <2>2. Closed(h)[g].thread = "free"
    BY <1>3, <2>1, NobodyFreed
  <2> QED
    BY <1>3, <2>1, <2>2
<1>4. ASSUME HandleEvent PROVE conv[g].thread = "ended"
  <2>1. PICK h \in Handles :
            HandlePrompt(h) \/ IgnoreFinished(h) \/ HandleSuccess(h) \/ HandleFailure(h)
    BY <1>4 DEF HandleEvent
  <2>2. CASE HandlePrompt(h)
    BY <1>1, <2>2 DEF HandlePrompt, Conversation
  <2>3. CASE IgnoreFinished(h)
    BY <1>1, <2>3 DEF IgnoreFinished
  <2>4. CASE HandleSuccess(h)
    BY <1>3, <2>4, FinishedConversation DEF HandleSuccess
  <2>5. CASE HandleFailure(h)
    <3>1. /\ Finishes(h) /\ FailedCompletion(Closed(h), Tail(mailbox), cancelling)
      BY <2>5 DEF HandleFailure
    <3>2. conv[h].thread = "ended" /\ Closed(h) \in [Handles -> Conversation]
      BY <3>1, FinishedConversation
    <3> QED
      BY <1>3, <3>1, <3>2, CompletionFreesNobody
  <2> QED
    BY <2>1, <2>2, <2>3, <2>4, <2>5
<1>5. ASSUME ResumeStart PROVE conv[g].thread = "ended"
  <2> DEFINE frame == Head(cancelling)
             h == frame.handle
  <2>1. cancelling # <<>> /\ conv[h].thread = "ended"
    BY <1>5 DEF ResumeStart
  <2>2. frame \in Frame
    BY <2>1, Known, SequenceTail
  <2>3. h \in Handles /\ frame.user \in Users
    BY <2>2 DEF Frame
  <2>4. Closed(h) \in [Handles -> Conversation]
    BY <2>1, <2>3, ConversationCloses
  <2>5. \/ conv' = Closed(h)
        \/ Converse(frame.user, Closed(h), mailbox)
        \/ FailedCompletion(Closed(h), mailbox, Tail(cancelling))
    BY <1>5 DEF ResumeStart
  <2> HIDE DEF h, frame
  <2> QED
    BY <1>3, <2>1, <2>3, <2>4, <2>5, CompletionFreesNobody
<1>6. ASSUME NEW u \in Users, Select(u) PROVE FALSE
  <2>1. conv' = conv \/ (\E v \in Users : \E mail : Converse(v, conv, mail))
    BY <1>6 DEF Select, CancelPam, AuthenticateAfresh, StartFails
  <2> QED
    BY <1>1, <2>1, NobodyFreed
<1>7. currentUser \in Users
  BY DEF ConversationIsOne, TypeOK
<1>8. ~(RequestWithoutView \/ Respond \/ Swipe \/ HideGreeter \/ HideDone \/ UNCHANGED vars)
  BY <1>1 DEF RequestWithoutView, Respond, Swipe, HideGreeter, HideDone, vars, implVars
<1> QED
  BY <1>2, <1>4, <1>5, <1>6, <1>7, <1>8
     DEF Next, SelectUser, RequestAuthenticationUser, ShowGreeter

\* pam_end() is called on a handle only when its thread is done with it, for every
\* number of handles and of start() calls within others.
THEOREM HandleOutlives == Spec => HandleOutlivesThread
<1>1. ConversationIsOne /\ [Next]_vars =>
          [\A h \in Handles : conv[h].thread # "free" /\ conv'[h].thread = "free" =>
                                 conv[h].thread = "ended"]_vars
  BY FreedHandle
<1> QED
  BY <1>1, OneConversation, PTL DEF Spec, HandleOutlivesThread

=============================================================================
