------------------------------ MODULE PamGreeter ------------------------------
(***************************************************************************)
(* Authentication in the greeter, from the thread that talks to PAM up to  *)
(* Greeter.qml.  GreeterImpl (liblightdm/GreeterPrivate.cpp) runs each PAM *)
(* conversation in a thread of the pool; the thread posts prompts to the   *)
(* GUI thread (a blocking queued signal) and then waits for the answers.   *)
(* To start another conversation GreeterImpl cancels the running one and   *)
(* processes events until its thread is done, so anything that an event    *)
(* can bring about, another start() included, happens inside the call.     *)
(* The plugin's Greeter.cpp and Greeter.qml react to prompts and outcomes. *)
(***************************************************************************)
EXTENDS Naturals, Sequences, SequencesExt, FiniteSets, Selection

CONSTANTS
    Users,          \* accounts of the user list
    Handles,        \* addresses pam_start() returns, reused after pam_end()
    NoHandle,       \* nullptr
    NoUser,
    MaxPrompts,     \* bound: prompts in one conversation
    MaxNesting      \* bound: start() calls that cancel at the same time

ASSUME NoHandleAssumption == NoHandle \notin Handles
ASSUME NoUserAssumption == NoUser \notin Users
ASSUME BoundsAssumption == MaxPrompts \in Nat /\ MaxNesting \in Nat

VARIABLES
    pamHandle,   \* the conversation GreeterImpl is in
    watched,     \* the conversation of its QFutureWatcher
    conv,        \* the PAM threads, one per handle
    futures,     \* promised answers, as the handles that wait for them
    mailbox,     \* events posted to the GUI thread
    cancelling,  \* start() calls that are processing events, innermost first
    reentered,   \* the last start() was called from within another one
    overridden,  \* history: an outer start() has gone on, for another user than the
                 \* last authenticate() is about
    authenticated,
    authenticationUser,
    verified,    \* whom the last conversation that succeeded was with
    wasPrompted,
    promptless,
    announcedUser,  \* the argument of the last authenticationUserChanged()
    currentUser,    \* Greeter.qml's currentIndex
    waiting,        \* Greeter.qml's d.waiting: the shell takes no input
    stage           \* the greeter's view: shown, hiding or gone

implVars == <<pamHandle, watched, conv, futures, mailbox, cancelling, reentered,
              overridden>>
pluginVars == <<authenticated, authenticationUser, verified, wasPrompted,
                promptless, announcedUser>>
viewVars == <<currentUser, waiting, stage>>
vars == <<implVars, pluginVars, viewVars>>

Threads == {"free", "queued", "running", "blocked", "asking", "awaiting",
            "answered", "ended"}
Conversation == [user: Users \cup {NoUser}, thread: Threads, asked: 0..MaxPrompts,
                 success: BOOLEAN]
Message == [kind: {"prompt", "finished"}, handle: Handles]
Frame == [handle: Handles, user: Users]

TypeOK ==
    /\ pamHandle \in Handles \cup {NoHandle}
    /\ watched \in Handles \cup {NoHandle}
    /\ conv \in [Handles -> Conversation]
    /\ futures \in Seq(Handles)
    /\ mailbox \in Seq(Message)
    /\ cancelling \in Seq(Frame)
    /\ reentered \in BOOLEAN
    /\ overridden \in BOOLEAN
    /\ authenticated \in BOOLEAN
    /\ authenticationUser \in Users \cup {NoUser}
    /\ verified \in Users \cup {NoUser}
    /\ wasPrompted \in BOOLEAN
    /\ promptless \in BOOLEAN
    /\ announcedUser \in Users \cup {NoUser}
    /\ currentUser \in Users
    /\ waiting \in BOOLEAN
    /\ stage \in {"shown", "hiding", "gone"}

NoConversation == [user |-> NoUser, thread |-> "free", asked |-> 0, success |-> FALSE]

Init ==
    /\ pamHandle = NoHandle /\ watched = NoHandle
    /\ conv = [h \in Handles |-> NoConversation]
    /\ futures = <<>> /\ mailbox = <<>> /\ cancelling = <<>>
    /\ reentered = FALSE /\ overridden = FALSE
    /\ authenticated = FALSE
    /\ authenticationUser = NoUser /\ verified = NoUser /\ announcedUser = NoUser
    /\ wasPrompted = FALSE /\ promptless = FALSE
    /\ currentUser \in Users
    /\ waiting = FALSE
    /\ stage = "gone"

-----------------------------------------------------------------------------
(* The PAM thread: authenticateWithPam() and converseWithPam().            *)

Moves(h, from, to) ==
    /\ conv[h].thread \in from
    /\ conv' = [conv EXCEPT ![h].thread = to]
Posted(kind, h) == Append(mailbox, [kind |-> kind, handle |-> h])

\* The pool runs the thread, or finds it cancelled before it has begun.
RunThread(h) ==
    /\ Moves(h, {"queued"}, "running")
    /\ UNCHANGED <<pamHandle, watched, futures, mailbox, cancelling, reentered, overridden,
                   pluginVars, viewVars>>
DropThread(h) ==
    /\ h # pamHandle
    /\ Moves(h, {"queued"}, "ended")
    /\ mailbox' = Posted("finished", h)
    /\ UNCHANGED <<pamHandle, watched, futures, cancelling, reentered, overridden,
                   pluginVars, viewVars>>

\* showPrompt() blocks the thread until the GUI thread has handled it.
ShowPrompt(h) ==
    /\ conv[h].thread = "running" \/ conv[h].asked > 0
    /\ conv[h].asked < MaxPrompts
    /\ Moves(h, {"running", "asking"}, "blocked")
    /\ mailbox' = Posted("prompt", h)
    /\ UNCHANGED <<pamHandle, watched, futures, cancelling, reentered, overridden,
                   pluginVars, viewVars>>

\* All prompts are out: wait for the answers.  The thread asks once: it frees the
\* AppData of the conversation when it has them.
AwaitAnswers(h) ==
    /\ Moves(h, {"asking"}, "awaiting")
    /\ UNCHANGED <<pamHandle, watched, futures, mailbox, cancelling, reentered, overridden,
                   pluginVars, viewVars>>
TakeAnswers(h) ==
    /\ h \notin ToSet(futures)
    /\ Moves(h, {"awaiting"}, "answered")
    /\ UNCHANGED <<pamHandle, watched, futures, mailbox, cancelling, reentered, overridden,
                   pluginVars, viewVars>>

\* PAM comes to its verdict.
EndThread(h, success) ==
    /\ conv[h].thread \in {"running", "answered"}
    /\ conv' = [conv EXCEPT ![h].thread = "ended", ![h].success = success]
    /\ mailbox' = Posted("finished", h)
    /\ UNCHANGED <<pamHandle, watched, futures, cancelling, reentered, overridden,
                   pluginVars, viewVars>>

-----------------------------------------------------------------------------
(* start() and what leads to it.                                           *)

Free(cs) == {h \in Handles : cs[h].thread = "free"}

PurgedOfNothing(mail) == mail  \* mutant: the old conversation's event stays
\* QFutureWatcher::setFuture() forgets what the previous future has posted.
Purged(mail) == Kept(mail, {k \in DOMAIN mail : mail[k].kind # "finished"})

\* The second half of start(), with no conversation left: pam_start() and a
\* thread in the pool.
Converse(u, cs, mail) ==
    \E h \in Free(cs) :
        /\ pamHandle' = h /\ watched' = h
        /\ conv' = [cs EXCEPT ![h] = [NoConversation EXCEPT !.user = u, !.thread = "queued"]]
        /\ mailbox' = Purged(mail)

AnswersKept(q) == q  \* mutant: cancelPam() does not empty the queue
\* while (respond(QString()));
AnswersDismissed(q) == <<>>

\* What cancelPam() saves of the conversation before it resets pamHandle.
FrameOf(u) == [handle |-> pamHandle, user |-> u]

\* start() has a conversation to cancel: it answers its prompts and goes on to
\* process events.
CancelPam(u) ==
    /\ Len(cancelling) < MaxNesting
    /\ cancelling' = <<FrameOf(u)>> \o cancelling
    /\ pamHandle' = NoHandle
    /\ futures' = AnswersDismissed(futures)
    /\ reentered' = (cancelling # <<>>) /\ overridden' = FALSE
    /\ UNCHANGED <<watched, conv, mailbox, announcedUser>>

\* mutant: the outcome of the last conversation stays
AuthenticatesKeepingOutcome(u) == authenticationUser' = u /\ UNCHANGED authenticated
\* QLightDM's authenticate()
Authenticates(u) == authenticationUser' = u /\ authenticated' = FALSE

\* mutant: authenticationComplete() is not emitted
StartFailsSilently(cs, mail) ==
    /\ conv' = cs /\ mailbox' = mail
    /\ pamHandle' = NoHandle /\ watched' = watched
    /\ promptless' = FALSE /\ waiting' = TRUE
\* pam_start() fails: authenticationComplete() is emitted at once.
StartFails(cs, mail) ==
    /\ conv' = cs /\ mailbox' = mail
    /\ pamHandle' = NoHandle /\ watched' = watched
    /\ promptless' = TRUE /\ waiting' = FALSE

\* Greeter::authenticate() of the plugin, and below it QLightDM's, when the
\* running conversation is over and the start() calls of stack are in progress.
AuthenticateAfresh(u, cs, mail, stack) ==
    /\ Authenticates(u)
    /\ wasPrompted' = FALSE
    /\ cancelling' = stack
    /\ reentered' = (cancelling # <<>>) /\ overridden' = FALSE
    /\ UNCHANGED futures
    /\ \/ Converse(u, cs, mail) /\ promptless' = FALSE /\ waiting' = TRUE
       \/ StartFails(cs, mail)

\* d.selectUser()
Select(u) ==
    /\ currentUser' = u
    /\ IF pamHandle = NoHandle
       THEN /\ AuthenticateAfresh(u, conv, mailbox, cancelling)
            /\ announcedUser' = u
       ELSE /\ CancelPam(u)
            /\ Authenticates(u)
            /\ wasPrompted' = FALSE /\ promptless' = FALSE
            /\ waiting' = TRUE
    /\ UNCHANGED verified

Closed(h) == [conv EXCEPT ![h] = NoConversation]

\* authenticationComplete() with the user not authenticated: who was asked is
\* asked again.  (Without a view the handler fails before it comes to that.)
FailedCompletion(cs, mail, stack) ==
    IF wasPrompted /\ stage # "gone"
    THEN AuthenticateAfresh(currentUser, cs, mail, stack)
    ELSE /\ conv' = cs /\ mailbox' = mail
         /\ pamHandle' = NoHandle
         /\ cancelling' = stack
         /\ authenticated' = FALSE
         /\ promptless' = (promptless \/ ~wasPrompted)
         /\ waiting' = FALSE
         /\ UNCHANGED <<watched, futures, reentered, overridden, authenticationUser,
                         wasPrompted>>

NeverBails == FALSE  \* mutant: start() goes on after a nested one
\* start() finds that a start() from one of the events is in a conversation.
Bails == pamHandle # NoHandle

\* The thread is done: start() ends the old conversation and goes on if it does not
\* bail.  That a nested start() was here it cannot tell when that one's conversation
\* is over already: then it starts another, for the user it was called with.
ResumeStart ==
    /\ cancelling # <<>>
    /\ LET frame == Head(cancelling)
       IN /\ conv[frame.handle].thread = "ended"
          /\ announcedUser' = frame.user
          /\ \/ /\ IF Bails
                   THEN /\ conv' = Closed(frame.handle)
                        /\ UNCHANGED <<pamHandle, watched, mailbox, overridden>>
                   ELSE /\ Converse(frame.user, Closed(frame.handle), mailbox)
                        /\ overridden' = (overridden \/ frame.user # authenticationUser)
                /\ cancelling' = Tail(cancelling)
                /\ UNCHANGED <<futures, reentered, authenticated, authenticationUser,
                               wasPrompted, promptless, waiting>>
             \/ /\ ~Bails  \* pam_start() fails
                /\ FailedCompletion(Closed(frame.handle), mailbox, Tail(cancelling))
    /\ UNCHANGED <<verified, currentUser, stage>>

-----------------------------------------------------------------------------
(* What the GUI thread receives from the PAM threads.                      *)

Heard(kind, h) ==
    /\ mailbox # <<>>
    /\ Head(mailbox) = [kind |-> kind, handle |-> h]

\* handlePrompt(): the prompt of a cancelled conversation is answered at once.
HandlePrompt(h) ==
    /\ Heard("prompt", h)
    /\ mailbox' = Tail(mailbox)
    /\ conv' = [conv EXCEPT ![h].thread = "asking", ![h].asked = @ + 1]
    /\ IF h = pamHandle
       THEN /\ futures' = Append(futures, h)
            /\ wasPrompted' = TRUE
            /\ waiting' = FALSE
       ELSE UNCHANGED <<futures, wasPrompted, waiting>>
    /\ UNCHANGED <<pamHandle, watched, cancelling, reentered, overridden, authenticated,
                   authenticationUser, verified, promptless, announcedUser, currentUser, stage>>

\* finishPam() while a conversation is being cancelled.
IgnoreFinished(h) ==
    /\ Heard("finished", h) /\ (pamHandle = NoHandle \/ h # watched)
    /\ mailbox' = Tail(mailbox)
    /\ UNCHANGED <<pamHandle, watched, conv, futures, cancelling, reentered, overridden,
                   pluginVars, viewVars>>

Finishes(h) == Heard("finished", h) /\ h = watched /\ pamHandle # NoHandle

\* finishPam() after a success: Greeter.qml logs in, and hides unless the user has
\* not been asked for anything.
HandleSuccess(h) ==
    /\ Finishes(h) /\ conv[h].success
    /\ mailbox' = Tail(mailbox)
    /\ conv' = Closed(h)
    /\ pamHandle' = NoHandle
    /\ authenticated' = TRUE
    /\ verified' = conv[h].user
    /\ promptless' = (promptless \/ ~wasPrompted)
    /\ waiting' = FALSE
    /\ stage' = IF stage = "shown" /\ ~promptless' THEN "hiding" ELSE stage
    /\ UNCHANGED <<watched, futures, cancelling, reentered, overridden, authenticationUser,
                   wasPrompted, announcedUser, currentUser>>

\* finishPam() after a failure.
HandleFailure(h) ==
    /\ Finishes(h) /\ ~conv[h].success
    /\ FailedCompletion(Closed(h), Tail(mailbox), cancelling)
    /\ announcedUser' = IF wasPrompted /\ stage # "gone"
                         THEN currentUser ELSE announcedUser
    /\ UNCHANGED <<verified, currentUser, stage>>

-----------------------------------------------------------------------------
(* The user, D-Bus clients and the power button.                           *)

Locked == stage # "gone" /\ ~authenticated

\* The user picks an account in the list, or starts over with the current one.
SelectUser(u) ==
    /\ stage = "shown" /\ ~waiting
    /\ Select(u)
    /\ UNCHANGED stage

\* The user enters something: respond() gives it to the first prompt.
Respond ==
    /\ stage = "shown" /\ ~waiting /\ Locked
    /\ futures # <<>>
    /\ futures' = Tail(futures)
    /\ UNCHANGED <<pamHandle, watched, conv, mailbox, cancelling, reentered, overridden,
                   pluginVars, viewVars>>

\* SetActiveEntry(): with no view, selectUser() fails after its first assignment.
RequestAuthenticationUser(u) ==
    /\ stage # "gone"
    /\ Select(u)
    /\ UNCHANGED stage
RequestWithoutView ==
    /\ stage = "gone"
    /\ waiting' = TRUE
    /\ UNCHANGED <<implVars, pluginVars, currentUser, stage>>

\* The user swipes the cover away when nothing is locked.
Swipe ==
    /\ stage = "shown" /\ ~waiting /\ ~Locked
    /\ stage' = "hiding"
    /\ UNCHANGED <<implVars, pluginVars, currentUser, waiting>>

HideGreeter ==
    /\ stage = "shown"
    /\ stage' = "hiding"
    /\ UNCHANGED <<implVars, pluginVars, currentUser, waiting>>

\* The hide animation ends; the view is unloaded.
HideDone ==
    /\ stage = "hiding"
    /\ stage' = "gone"
    /\ UNCHANGED <<implVars, pluginVars, currentUser, waiting>>

\* forceShow(): a view that is loaded selects the current user.  While the old
\* view is hiding the call has no effect: the cover's animation goes on in the
\* wide view, and stopping it ends the greeter in the narrow one.
ShowGreeter ==
    /\ stage = "gone"
    /\ stage' = "shown"
    /\ Select(currentUser)

-----------------------------------------------------------------------------
ThreadStep(h) ==
    \/ RunThread(h) \/ DropThread(h) \/ ShowPrompt(h)
    \/ AwaitAnswers(h) \/ TakeAnswers(h)
    \/ \E success \in BOOLEAN : EndThread(h, success)

HandleEvent ==
    \E h \in Handles :
        HandlePrompt(h) \/ IgnoreFinished(h) \/ HandleSuccess(h) \/ HandleFailure(h)

Next ==
    \/ \E h \in Handles : ThreadStep(h)
    \/ HandleEvent
    \/ ResumeStart
    \/ \E u \in Users : SelectUser(u) \/ RequestAuthenticationUser(u)
    \/ RequestWithoutView
    \/ Respond
    \/ Swipe
    \/ HideGreeter
    \/ HideDone
    \/ ShowGreeter

Spec == Init /\ [][Next]_vars

\* The pool and PAM make progress, the GUI thread handles its events, and
\* animations end.  Users, clients and the power button may do nothing.
Fairness ==
    /\ \A h \in Handles : WF_vars(ThreadStep(h))
    /\ WF_vars(HandleEvent)
    /\ WF_vars(ResumeStart)
    /\ WF_vars(HideDone)

FairSpec == Spec /\ Fairness

-----------------------------------------------------------------------------
(* What makes the greeter correct.                                         *)

\* A conversation that is running, or that a start() still has to end, is on a handle
\* of its own, which PAM has not been told to forget (start(), cancelPam()).
HandlesInUse ==
    /\ pamHandle # NoHandle => watched = pamHandle /\ conv[pamHandle].thread # "free"
    /\ \A k \in DOMAIN cancelling :
          LET h == cancelling[k].handle
          IN  /\ h # pamHandle /\ conv[h].thread # "free"
              /\ \A j \in DOMAIN cancelling : cancelling[j].handle = h => j = k

\* What is in the mailbox is still so when it is read: a thread that asked is blocked
\* and has asked once, one that has finished did not come back.
MessagesAreTrue ==
    \A k \in DOMAIN mailbox :
        LET h == mailbox[k].handle
        IN  IF mailbox[k].kind = "finished"
            THEN conv[h].thread \in {"ended", "free"}
            ELSE /\ conv[h].thread = "blocked" /\ conv[h].asked < MaxPrompts
                 /\ \A j \in DOMAIN mailbox : mailbox[j] = mailbox[k] => j = k

\* What the user types only reaches the conversation on the screen: no promise of
\* a cancelled one is left in the queue (cancelPam(), handlePrompt()).
AnswersStayInConversation ==
    \A k \in DOMAIN futures : futures[k] = pamHandle

\* It is waiting for them: a thread that has its answers has left none behind.
AnswersAreAwaited ==
    \A k \in DOMAIN futures : conv[futures[k]].thread \in {"asking", "blocked", "awaiting"}

\* isAuthenticated() speaks of authenticationUser(): the conversation is with that
\* user, and when the user is authenticated the last one that succeeded was, also
\* after a start() within a start(); the one exception is an outer start() that goes
\* on for its own user when the nested conversation is over.  D-Bus clients have been
\* told of that user, but for the late announcement of an outer start().
AuthenticatedUserVerified ==
    /\ ~overridden =>
        /\ authenticated => verified = authenticationUser
        /\ pamHandle # NoHandle => conv[pamHandle].user = authenticationUser
    /\ ~reentered /\ cancelling = <<>> => announcedUser = authenticationUser

\* A start() from outside of the others is the only one, and is for that user.
OutermostStart ==
    ~reentered /\ cancelling # <<>> =>
        /\ Len(cancelling) = 1
        /\ pamHandle = NoHandle
        /\ cancelling[1].user = authenticationUser

\* pam_end() is never called on a handle whose thread is still using it.
HandleOutlivesThread ==
    [][\A h \in Handles :
          conv[h].thread # "free" /\ conv'[h].thread = "free" =>
              conv[h].thread = "ended"]_vars

\* The shell is told to take no input only while PAM is at work ("True when the
\* greeter is waiting for PAM or other setup process", Greeter.qml): selectUser()
\* starts by saying so, and relies on an outcome to take it back.
WaitingForPam ==
    waiting => pamHandle # NoHandle \/ cancelling # <<>>

\* The same while a greeter is on the screen.
WaitingOnScreen ==
    stage # "gone" => WaitingForPam

\* A greeter on the screen gives the input back, unless clients keep selecting
\* users (Greeter.qml resets d.waiting on the first prompt or on the outcome).
InputReturns ==
    \/ []<><<\E u \in Users : RequestAuthenticationUser(u)>>_vars
    \/ waiting ~> (~waiting \/ stage = "gone")

\* The thread of a cancelled conversation always gets to its end, so the start()
\* that processes events until then can go on.
CancelledThreadEnds ==
    \A h \in Handles :
        (conv[h].thread # "free" /\ h # pamHandle)
            ~> (conv[h].thread \in {"ended", "free"} \/ h = pamHandle)

\* One conversation at a time: answers, outcome and waiting are those of the user the
\* greeter authenticates, whatever was cancelled before and whoever called start()
\* while another one was cancelling.  Two exceptions are the code's, against the
\* comment that it bails out of the outer start(): it starts a conversation of its
\* own if the nested one is over (GreeterPrivate.cpp:72), and it tells the clients of
\* its own user in any case (start, cancelPam).
ConversationIsOne ==
    /\ TypeOK
    /\ HandlesInUse
    /\ MessagesAreTrue
    /\ AnswersStayInConversation /\ AnswersAreAwaited
    /\ AuthenticatedUserVerified /\ OutermostStart
    /\ WaitingOnScreen

=============================================================================
