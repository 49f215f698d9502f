--------------------------- MODULE AccountsService ---------------------------
(***************************************************************************)
(* The AccountsService client of the greeter, plugins/AccountsService: a   *)
(* cache of a few properties of one user, the user the greeter shows, over *)
(* the daemon that keeps them for all users.                               *)
(*                                                                         *)
(* The D-Bus connection keeps the order of what is sent in each direction. *)
(* A change is announced by a signal, the signal makes the cache ask for   *)
(* the value, and the answer is applied when it comes.  Writing a value    *)
(* and switching to another user block until the daemon has answered; what *)
(* arrives in the meantime is looked at afterwards.                        *)
(***************************************************************************)
EXTENDS Naturals, Sequences, SequencesExt, FiniteSets

CONSTANTS
    Users,
    Custom,         \* properties of unity8's own interfaces
    Builtin,        \* properties of org.freedesktop.Accounts.User (BackgroundFile)
    Settable,       \* those with a setter (demo-edges, FailedLogins, LicenseAccepted)
    LauncherItems,  \* a custom property this cache does not keep
    Values,
    MaxMessages     \* how much may be under way (a bound)

Props == Custom \cup Builtin

ASSUME AccountsAssumption ==
    /\ Custom \cap Builtin = {} /\ Settable \subseteq Custom
    /\ LauncherItems \notin Props
    /\ IsFiniteSet(Builtin)
    /\ MaxMessages \in Nat

VARIABLES
    stored,         \* the daemon: a value per user and property
    m_user,         \* AccountsService::m_user
    cache,          \* m_demoEdges, m_failedLogins, m_backgroundFile and so on
    known,          \* users the adaptor has an interface of, and listens to
    ignoreNext,     \* AccountsServiceDBusAdaptor::m_ignoreNextChanged
    toDaemon,       \* reads the daemon has not answered
    toClient,       \* answers and signals the event loop has not delivered
    strayed         \* history: properties last answered for another user

clientVars == <<m_user, cache, known, ignoreNext, strayed>>
accountsVars == <<stored, clientVars, toDaemon, toClient>>

Read == [user: Users, prop: Props]
Message ==
    [kind: {"Reply"}, user: Users, prop: Props, value: Values]
        \cup [kind: {"PropertiesChanged"}, user: Users, prop: Custom \cup {LauncherItems}]
        \cup [kind: {"Changed"}, user: Users]

AccountsTypeOK ==
    /\ stored \in [Users -> [Props -> Values]]
    /\ m_user \in Users
    /\ cache \in [Props -> Values]
    /\ known \subseteq Users
    /\ ignoreNext \in BOOLEAN
    /\ toDaemon \in Seq(Read)
    /\ toClient \in Seq(Message)
    /\ strayed \subseteq Props

-----------------------------------------------------------------------------
(* The daemon. *)

\* A custom property is announced twice: by its own signal, then by the one
\* that says only that something has changed.
Announced(u, p) ==
    IF u \notin known THEN <<>>
    ELSE IF p \in Builtin THEN <<[kind |-> "Changed", user |-> u]>>
    ELSE <<[kind |-> "PropertiesChanged", user |-> u, prop |-> p],
           [kind |-> "Changed", user |-> u]>>

Answer(read) ==
    [kind |-> "Reply", user |-> read.user, prop |-> read.prop,
     value |-> stored[read.user][read.prop]]

Answers == [i \in DOMAIN toDaemon |-> Answer(toDaemon[i])]

UnderWay == Len(toDaemon) + Len(toClient)

DaemonAnswers ==
    /\ toDaemon # <<>>
    /\ toClient' = Append(toClient, Answer(Head(toDaemon)))
    /\ toDaemon' = Tail(toDaemon)
    /\ UNCHANGED <<stored, clientVars>>

\* Somebody else writes: the session, system settings, another greeter.
OtherWrites(u, p, v) ==
    /\ v # stored[u][p]
    /\ UnderWay + 2 <= MaxMessages
    /\ stored' = [stored EXCEPT ![u][p] = v]
    /\ toClient' = toClient \o Announced(u, p)
    /\ UNCHANGED <<clientVars, toDaemon>>

-----------------------------------------------------------------------------
(* The cache asks, and is answered. *)

Update(props) ==
    toDaemon' = toDaemon \o SetToSeq({[user |-> m_user, prop |-> p] : p \in props})

\* The answer is applied whoever the user is by now.
ReplyArrives ==
    /\ toClient # <<>> /\ Head(toClient).kind = "Reply"
    /\ LET reply == Head(toClient)
       IN  /\ cache' = [cache EXCEPT ![reply.prop] = reply.value]
           /\ strayed' = IF reply.user = m_user THEN strayed \ {reply.prop}
                                                ELSE strayed \cup {reply.prop}
    /\ toClient' = Tail(toClient)
    /\ UNCHANGED <<stored, m_user, known, ignoreNext, toDaemon>>

OnPropertiesChanged ==
    /\ toClient # <<>> /\ Head(toClient).kind = "PropertiesChanged"
    /\ ignoreNext' = TRUE
    /\ IF Head(toClient).user = m_user
       THEN Update({Head(toClient).prop} \cap Custom)
       ELSE UNCHANGED toDaemon
    /\ toClient' = Tail(toClient)
    /\ UNCHANGED <<stored, m_user, cache, known, strayed>>

\* Mutant: the flag is never taken back.
OnMaybeChangedStuck ==
    /\ toClient # <<>> /\ Head(toClient).kind = "Changed"
    /\ UNCHANGED ignoreNext
    /\ IF ~ignoreNext /\ Head(toClient).user = m_user
       THEN Update(Builtin)
       ELSE UNCHANGED toDaemon
    /\ toClient' = Tail(toClient)
    /\ UNCHANGED <<stored, m_user, cache, known, strayed>>

\* The signal that comes second for a custom property is skipped.
OnMaybeChanged ==
    /\ toClient # <<>> /\ Head(toClient).kind = "Changed"
    /\ ignoreNext' = FALSE
    /\ IF ~ignoreNext /\ Head(toClient).user = m_user
       THEN Update(Builtin)
       ELSE UNCHANGED toDaemon
    /\ toClient' = Tail(toClient)
    /\ UNCHANGED <<stored, m_user, cache, known, strayed>>

\* A setter: the cache first, then a call that waits for the daemon, which has
\* answered everything sent before by then.
SetProperty(p, v) ==
    /\ v # cache[p]
    /\ UnderWay + 2 <= MaxMessages
    /\ cache' = [cache EXCEPT ![p] = v]
    /\ strayed' = strayed \ {p}
    /\ stored' = [stored EXCEPT ![m_user][p] = v]
    /\ toClient' = toClient \o Answers \o Announced(m_user, p)
    /\ toDaemon' = <<>>
    /\ UNCHANGED <<m_user, known, ignoreNext>>

\* All properties of the new user are read at once; answers for the user before
\* that have not been delivered stay where they are.
SetUser(u) ==
    /\ u # m_user
    /\ m_user' = u
    /\ known' = known \cup {u}
    /\ cache' = stored[u]
    /\ strayed' = {}
    /\ toClient' = toClient \o Answers
    /\ toDaemon' = <<>>
    /\ UNCHANGED <<stored, ignoreNext>>

-----------------------------------------------------------------------------

AccountsInit ==
    /\ stored \in [Users -> [Props -> Values]]
    /\ m_user \in Users
    /\ cache = stored[m_user]
    /\ known = {m_user}
    /\ ignoreNext = FALSE
    /\ toDaemon = <<>> /\ toClient = <<>>
    /\ strayed = {}

\* When nothing is under way, the cache has what the daemon keeps for its user,
\* except for a property whose last answer was one for a user before: that one
\* overwrote the new user's value.  No signal is missed, also none that follows
\* the signal of a custom property, and no old answer survives a newer value.
CacheCatchesUp ==
    toDaemon = <<>> /\ toClient = <<>> =>
        \A p \in Props \ strayed : cache[p] = stored[m_user][p]

=============================================================================
