----------------------------- MODULE Indicators -----------------------------
(***************************************************************************)
(* The indicators of the panel: IndicatorsManager reads the files that     *)
(* describe them from the data directories and watches those directories,  *)
(* IndicatorsModel keeps the loaded ones in a list for QML, and            *)
(* MenuContentActivator lets the contents of their menus come in one by    *)
(* one, from the menu that is shown outwards.                               *)
(***************************************************************************)
EXTENDS Integers, Sequences, FiniteSets, SequencesExt, Selection

CONSTANTS
    IndicatorFiles,   \* files there may be: <<directory, name>>
    Directories,      \* 1..n, the most important first
    Profiles,
    PositionIn,       \* [IndicatorFiles -> [Profiles -> Int]]
    MostMenus         \* bound: menus of the activator

ASSUME IndicatorAssumption ==
    /\ IsFiniteSet(Directories) /\ Directories = 1..Cardinality(Directories)
    /\ IsFiniteSet(IndicatorFiles)
    /\ \A f \in IndicatorFiles : f \in Directories \X {f[2]}
    /\ PositionIn \in [IndicatorFiles -> [Profiles -> Int]]
    /\ MostMenus \in Nat

VARIABLES
    indicators,       \* the manager and the model with it
    activator

NamesOf(files) == {f[2] : f \in files}
RowNames(v) == {v.rows[i].name : i \in DOMAIN v.rows}

-----------------------------------------------------------------------------
(***************************************************************************)
(* IndicatorsModel                                                         *)
(***************************************************************************)
Position(v, row) == PositionIn[<<row.from, row.name>>][v.profile]

\* Mutant of RowFor: the walk stops at an indicator of a higher position.
RowForLower(v, row) ==
    Cardinality({i \in DOMAIN v.rows :
        \A j \in 1..i : Position(v, row) > Position(v, v.rows[j])}) + 1

RowFor(v, row) ==
    Cardinality({i \in DOMAIN v.rows :
        \A j \in 1..i : Position(v, row) < Position(v, v.rows[j])}) + 1

\* onIndicatorLoaded(): the indicator reads its file when it is first asked for.
ShowIndicator(v, name) ==
    LET row == [name |-> name, from |-> v.data[name].read] IN
    IF name \in RowNames(v) THEN v
    ELSE [v EXCEPT !.rows = InsertAt(@, RowFor(v, row), row)]

\* onIndicatorAboutToBeUnloaded(), for each name that is gone.
HideIndicators(v, gone) ==
    [v EXCEPT !.rows = Kept(@, {i \in DOMAIN @ : @[i].name \notin gone})]

-----------------------------------------------------------------------------
(***************************************************************************)
(* IndicatorsManager: v.data holds, for each name, the directory of its    *)
(* file, the directory of the file its indicator has read and whether the  *)
(* file was seen when its directory was last listed.                        *)
(***************************************************************************)
LoadFile(v, d, name) ==
    LET new == [dir |-> d, read |-> d, verified |-> TRUE]
        overwrites == d < v.data[name].dir
    IN  IF name \notin DOMAIN v.data
        THEN ShowIndicator([v EXCEPT !.data = [n \in DOMAIN @ \cup {name} |->
                                                 IF n = name THEN new ELSE @[n]]], name)
        ELSE IF overwrites
             THEN ShowIndicator([v EXCEPT !.data[name].verified = TRUE, !.data[name].dir = d], name)
             ELSE [v EXCEPT !.data[name].verified = TRUE]

StartVerify(v, d) ==
    [v EXCEPT !.data = [n \in DOMAIN @ |->
        IF @[n].dir = d THEN [@[n] EXCEPT !.verified = FALSE] ELSE @[n]]]

\* Mutant of EndVerify: what was not found again stays.
EndVerifyKeeps(v, d) == v

EndVerify(v, d) ==
    LET gone == {n \in DOMAIN v.data : v.data[n].dir = d /\ ~v.data[n].verified} IN
    HideIndicators([v EXCEPT !.data = [n \in DOMAIN @ \ gone |-> @[n]]], gone)

\* The loop of loadDir().
LoadFiles(v, d, files) ==
    LET upTo[i \in 0..Len(files)] ==
            IF i = 0 THEN v ELSE LoadFile(upTo[i - 1], d, files[i][2])
    IN  upTo[Len(files)]

\* loadDir() lists the files of a directory by their names.
LoadDir(v, d) ==
    EndVerify(LoadFiles(StartVerify(v, d), d, SetToSeq({f \in v.disk : f[1] = d})), d)

UnloadAll(v) == [v EXCEPT !.rows = <<>>, !.data = <<>>, !.loaded = FALSE]

\* The loop of load(), over the data directories.
LoadDirs(v) ==
    LET upTo[d \in 0..Cardinality(Directories)] ==
            IF d = 0 THEN v ELSE LoadDir(upTo[d - 1], d)
    IN  upTo[Cardinality(Directories)]

\* A new watcher knows nothing of the changes before it.
LoadIndicators ==
    /\ ~indicators.loaded
    /\ indicators' = [LoadDirs(UnloadAll(indicators)) EXCEPT
                         !.loaded = TRUE, !.watching = TRUE, !.changed = {}]

\* unload() does not stop the watcher.
UnloadIndicators ==
    /\ indicators.loaded
    /\ indicators' = UnloadAll(indicators)

\* Someone installs or removes a file; QFileSystemWatcher tells later.
ChangeFile(f) ==
    LET disk == IF f \in indicators.disk THEN indicators.disk \ {f} ELSE indicators.disk \cup {f}
    IN  indicators' = [indicators EXCEPT !.disk = disk,
                         !.changed = IF indicators.watching THEN @ \cup {f[1]} ELSE @]

OnDirectoryChanged(d) ==
    /\ d \in indicators.changed
    /\ indicators' = [LoadDir(indicators, d) EXCEPT !.changed = @ \ {d}]

\* Indicators move to their positions in the profile, the list does not change.
SetProfile(profile) ==
    /\ profile # indicators.profile
    /\ indicators' = [indicators EXCEPT !.profile = profile]

IndicatorsInit ==
    \E disk \in SUBSET IndicatorFiles, profile \in Profiles :
        indicators = [disk |-> disk, changed |-> {}, watching |-> FALSE, loaded |-> FALSE,
                      data |-> <<>>, rows |-> <<>>, profile |-> profile]

IndicatorsNext ==
    \/ LoadIndicators
    \/ UnloadIndicators
    \/ \E f \in IndicatorFiles : ChangeFile(f)
    \/ \E d \in Directories : OnDirectoryChanged(d)
    \/ \E profile \in Profiles : SetProfile(profile)

IndicatorsSpec == IndicatorsInit /\ [][IndicatorsNext]_indicators

-----------------------------------------------------------------------------
(***************************************************************************)
(* MenuContentActivator                                                    *)
(***************************************************************************)
IsMenuContentActive(a, i) == i \in a.active

\* findNextInactiveDelta(): one more on either side in turn, first above the
\* base.  The result is 0 when there is none, and the search is finished.
\* One turn of its loop.
SearchNext(a, s) ==
    LET turned == CASE s.delta > 0 /\ s.bottomReached -> -s.delta
                    [] s.delta < 0 /\ s.topReached -> -s.delta + 1
                    [] OTHER -> s.delta
        next   == IF turned > 0 THEN -turned ELSE -turned + 1
        below  == turned > 0 /\ a.base + next < 0
        above  == turned <= 0 /\ a.base + next >= a.count
    IN  [delta |-> next,
         topReached |-> s.topReached \/ above, bottomReached |-> s.bottomReached \/ below,
         found |-> ~below /\ ~above /\ ~IsMenuContentActive(a, a.base + next)]

IsSearchOver(s) == s.found \/ (s.topReached /\ s.bottomReached)

\* It is over after as many turns as this (SearchIsOver in ShellPartsProofs).
Search(a) ==
    LET turns == 2 * a.count + 2
        after[i \in 0..turns] ==
            IF i = 0 THEN [delta |-> a.delta, topReached |-> FALSE, bottomReached |-> FALSE,
                           found |-> FALSE]
            ELSE IF IsSearchOver(after[i - 1]) THEN after[i - 1]
            ELSE SearchNext(a, after[i - 1])
    IN  after[turns]

\* Mutant of FindNextInactiveDelta: only the menus above the base are looked for.
FindNextAbove(a) ==
    LET above == {d \in 1..a.count : a.base + d < a.count /\ ~IsMenuContentActive(a, a.base + d)} IN
    IF above = {} THEN [finished |-> TRUE, delta |-> 0]
    ELSE [finished |-> FALSE, delta |-> CHOOSE d \in above : \A e \in above : d <= e]

FindNextInactiveDelta(a) ==
    IF a.count = 0 \/ a.base >= a.count THEN [finished |-> TRUE, delta |-> 0]
    ELSE IF Search(a).found THEN [finished |-> FALSE, delta |-> Search(a).delta]
    ELSE [finished |-> TRUE, delta |-> 0]

Restarted(a) ==
    LET b == [a EXCEPT !.active = @ \cup {a.base}, !.delta = 0, !.running = TRUE]
    IN  [b EXCEPT !.timer = ~FindNextInactiveDelta(b).finished]

RestartIfRunning(a) == IF a.running THEN Restarted(a) ELSE a

RestartActivator == activator' = Restarted(activator)

\* The test for what is running is inverted: the activator stays marked.
StopActivator == activator' = [activator EXCEPT !.timer = FALSE]

ClearContent ==
    activator' = [activator EXCEPT !.active = {}, !.delta = 0, !.timer = FALSE]

SetBaseIndex(i) ==
    /\ i # activator.base
    /\ activator' = RestartIfRunning([activator EXCEPT !.base = i])

SetCount(n) ==
    /\ n # activator.count
    /\ activator' = RestartIfRunning([activator EXCEPT !.count = n])

OnTimeout ==
    LET found == FindNextInactiveDelta(activator) IN
    /\ activator.timer
    /\ activator' = IF found.finished THEN [activator EXCEPT !.timer = FALSE]
                    ELSE [activator EXCEPT !.active = @ \cup {activator.base + found.delta},
                                           !.delta = found.delta]

ActivatorInit ==
    activator = [base |-> 0, count |-> 0, delta |-> 0, active |-> {},
                 running |-> FALSE, timer |-> FALSE]

ActivatorNext ==
    \/ RestartActivator
    \/ StopActivator
    \/ ClearContent
    \/ \E i \in 0..MostMenus - 1 : SetBaseIndex(i)
    \/ \E n \in 0..MostMenus : SetCount(n)
    \/ OnTimeout

ActivatorSpec == ActivatorInit /\ [][ActivatorNext]_activator

-----------------------------------------------------------------------------
(***************************************************************************)
(* Properties.                                                             *)
(***************************************************************************)
HomesOf(name) == {f[1] : f \in {g \in IndicatorFiles : g[2] = name}}

\* Once the directories have been read after a change, the panel lists exactly the
\* indicators there are files of, each once.  A name with files in two directories
\* is left out of the list when the file in use goes, so for such names only the
\* other half holds (IndicatorsManager::loadDir, startVerify, endVerify).
IndicatorsFollowFiles ==
    indicators.loaded /\ indicators.changed = {} =>
        /\ Cardinality(RowNames(indicators)) = Len(indicators.rows)
        /\ RowNames(indicators) \subseteq NamesOf(indicators.disk)
        /\ \A name \in NamesOf(indicators.disk) :
             Cardinality(HomesOf(name)) = 1 => name \in RowNames(indicators)

InPositionOrder(v) ==
    \A i, j \in DOMAIN v.rows : i < j => Position(v, v.rows[i]) >= Position(v, v.rows[j])

\* "put lower position on end" (indicatorsmodel.cpp:145): a list that is in the
\* order of the positions stays so, until the profile changes them.
IndicatorsStaySorted ==
    [][InPositionOrder(indicators) /\ indicators'.profile = indicators.profile
         => InPositionOrder(indicators')]_indicators

\* When the activator's timer ends by itself every menu has its content; and the
\* menu it takes next is one of the nearest that have none, which the base of the
\* search (the last one found) does not miss (findNextInactiveDelta).
NoMenuLeftOut ==
    [][OnTimeout => LET a == activator
                        missing == (0..a.count - 1) \ a.active
                        near(i) == IF i > a.base THEN i - a.base ELSE a.base - i
                    IN  IF activator'.timer
                        THEN \E i \in missing : /\ i \in activator'.active
                                                /\ \A j \in missing : near(i) <= near(j)
                        ELSE missing = {} \/ a.base >= a.count]_activator

==============================================================================
