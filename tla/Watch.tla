-------------------------------- MODULE Watch --------------------------------
(***************************************************************************)
(* `flowatlas build --watch` around its builds: watchProject of            *)
(* packages/cli/src/build/watch.ts.                                        *)
(*                                                                         *)
(* One JavaScript thread runs the watch, so what it does between two       *)
(* awaits is one step; file events, the debounce timer and close() come in *)
(* between.  A build is what matters of it here: it loads the              *)
(* configuration, and then at one moment it surveys the repositories.      *)
(* What it answers is what was there at that moment (IncrementalBuild says *)
(* what that takes); or it throws, before or after, and answers nothing.   *)
(*                                                                         *)
(* The watchers are chokidar's: what they hear is an event, delivered      *)
(* later.  A watcher of a directory that goes away hears nothing more,     *)
(* also when the directory is back.                                        *)
(***************************************************************************)
EXTENDS Integers, FiniteSets

CONSTANTS
    Services,       \* every repository there may be
    Named,          \* Named[c]: those configuration c names
    Loads,          \* the configurations that load
    LastSave,       \* how often each repository changes, at most
    MayLeave,       \* the repositories whose directory may come and go
    LeavesEarly,    \* whether they may before the watch is up
    MayThrow        \* whether opening a repository may throw

Configs == DOMAIN Named

ASSUME WatchAssumption ==
    /\ Services # {}
    /\ Configs \subseteq Nat
    /\ \A c \in Configs : Named[c] \subseteq Services
    /\ 0 \in Loads /\ Loads \subseteq Configs
    /\ LastSave \in Nat
    /\ MayLeave \subseteq Services
    /\ {LeavesEarly, MayThrow} \subseteq BOOLEAN

VARIABLES
    saves,          \* how often each repository has changed
    present,        \* the repositories whose directory is there
    config,         \* the revision of the configuration file
    events,         \* what a watcher has heard and not yet been told to the watch
    hearing,        \* the repositories whose watcher hears what is saved
    start,          \* how far watchProject has come
    toWatch,        \* the repositories whose first watcher is not ready yet
    loaded,         \* the configuration it follows
    sessions,       \* the repositories held open, each with its configuration
    repositories,   \* those it has a watcher for
    targets,        \* those whose coming and going it is told
    edited,         \* whether the configuration was edited since it was loaded
    moved,          \* the repositories that came or went since the last rebuild
    timer,          \* whether the debounce timer is running
    queued,         \* whether one more rebuild is owed
    closed,         \* whether close() was called
    stage,          \* where the rebuild that is running is; "idle" when none is
    todo,           \* the repositories this stage has still to see to
    at,             \* the one it is waiting for
    took,           \* what the build that is running surveyed
    built,          \* what the last build that ended well surveyed
    base,           \* history: what had changed when the watch came up
    thrown,         \* history: whether opening a repository has ever thrown
    failed,         \* history: whether the last rebuild to end printed an error
    rebuilds        \* history: rebuilds begun since it was last told anything, up to 3

world == <<saves, present, config>>
ears == <<events, hearing>>
watch == <<start, toWatch, loaded, sessions, repositories, targets>>
flags == <<edited, moved, timer, queued, closed>>
rebuild == <<stage, todo, at, took, built>>
vars == <<world, ears, watch, flags, rebuild, base, thrown, failed, rebuilds>>

NoSession == -1
NeverBuilt == -1
Saved(s) == <<"saved", s>>
Moved(s) == <<"moved", s>>
ConfigurationEdited == <<"configuration">>
Starts == {"firstBuild", "scanning", "lookingAside", "up", "closed"}
Stages == {"idle", "lettingGo", "opening", "openingWatcher", "moving", "reopening",
           "reopeningWatcher", "building", "reading"}

\* The watch opens its repositories and triggers the first build; nothing is
\* edited or moved yet, so that goes straight to the build.
Init ==
    /\ saves = [s \in Services |-> 0]
    /\ present = Services
    /\ config = 0
    /\ events = {}
    /\ hearing = {}
    /\ start = "firstBuild"
    /\ toWatch = {}
    /\ loaded = 0
    /\ sessions = [s \in Services |-> IF s \in Named[0] THEN 0 ELSE NoSession]
    /\ repositories = {}
    /\ targets = {}
    /\ edited = FALSE
    /\ moved = {}
    /\ timer = FALSE
    /\ queued = FALSE
    /\ closed = FALSE
    /\ stage = "moving"
    /\ todo = {}
    /\ at = CHOOSE s \in Services : TRUE
    /\ took = [s \in Services |-> NeverBuilt]
    /\ built = took
    /\ base = [saves |-> saves, config |-> config]
    /\ thrown = FALSE
    /\ failed = FALSE
    /\ rebuilds = 0

-----------------------------------------------------------------------------
(***************************************************************************)
(* The world, and what is heard of it.                                     *)
(***************************************************************************)
Up == start = "up"

Save(s) ==
    /\ s \in present
    /\ saves[s] < LastSave
    /\ saves' = [saves EXCEPT ![s] = @ + 1]
    /\ events' = events \union (IF s \in hearing THEN {Saved(s)} ELSE {})
    /\ UNCHANGED <<present, config, hearing, watch, flags, rebuild, base, thrown,
                   failed, rebuilds>>

\* Whether the watcher beside the repositories hears of a directory.
Aside(s) == IF Up /\ s \in targets THEN {Moved(s)} ELSE {}

Leave(s) ==
    /\ s \in MayLeave \intersect present
    /\ Up \/ LeavesEarly
    /\ saves[s] < LastSave
    /\ saves' = [saves EXCEPT ![s] = @ + 1]
    /\ present' = present \ {s}
    /\ hearing' = hearing \ {s}
    /\ events' = events \union Aside(s) \union (IF s \in hearing THEN {Saved(s)} ELSE {})
    /\ UNCHANGED <<config, watch, flags, rebuild, base, thrown, failed, rebuilds>>

Return(s) ==
    /\ s \in Services \ present
    /\ saves' = [saves EXCEPT ![s] = @ + 1]
    /\ present' = present \union {s}
    /\ events' = events \union Aside(s)
    /\ UNCHANGED <<config, hearing, watch, flags, rebuild, base, thrown, failed,
                   rebuilds>>

EditConfiguration ==
    /\ config + 1 \in Configs
    /\ config' = config + 1
    /\ events' = events \union (IF Up THEN {ConfigurationEdited} ELSE {})
    /\ UNCHANGED <<saves, present, hearing, watch, flags, rebuild, base, thrown, failed,
                   rebuilds>>

-----------------------------------------------------------------------------
(***************************************************************************)
(* A rebuild: what is edited is loaded again, what moved is opened again,  *)
(* and then everything is built.                                           *)
(***************************************************************************)

\* Mutation of BeginRebuild: an edit is forgotten before the configuration loads.
ForgetTheEdit ==
    /\ rebuilds' = IF rebuilds < 3 THEN rebuilds + 1 ELSE rebuilds
    /\ edited' = FALSE
    /\ IF edited /\ config \in Loads
       THEN /\ loaded' = config
            /\ stage' = "lettingGo"
            /\ todo' = repositories \ Named[config]
       ELSE /\ stage' = "moving"
            /\ todo' = moved
            /\ UNCHANGED loaded

\* What a rebuild does before it first waits for anything: an edited
\* configuration that loads is followed from here on, and what has no place in
\* it any more is let go.  One that does not load stays edited.
BeginRebuild ==
    /\ rebuilds' = IF rebuilds < 3 THEN rebuilds + 1 ELSE rebuilds
    /\ IF edited /\ config \in Loads
       THEN /\ edited' = FALSE
            /\ loaded' = config
            /\ stage' = "lettingGo"
            /\ todo' = repositories \ Named[config]
       ELSE /\ stage' = "moving"
            /\ todo' = moved
            /\ UNCHANGED <<edited, loaded>>

LetGo(s) ==
    /\ stage = "lettingGo"
    /\ s \in todo
    /\ todo' = todo \ {s}
    /\ repositories' = repositories \ {s}
    /\ hearing' = hearing \ {s}
    /\ UNCHANGED <<world, events, start, toWatch, loaded, sessions, targets, flags,
                   stage, at, took, built, base, thrown, failed, rebuilds>>

\* Mutation of ToOpen: what is open already is left open.
OnlyTheNew == {s \in Named[loaded] : sessions[s] = NoSession}

\* Every repository is opened again, one after another.
ToOpen == Named[loaded]

\* What was open is forgotten, also what the configuration no longer names.
OpenAll ==
    /\ stage = "lettingGo"
    /\ todo = {}
    /\ sessions' = [s \in Services |-> IF s \in Named[loaded] \ ToOpen THEN sessions[s] ELSE NoSession]
    /\ stage' = "opening"
    /\ todo' = ToOpen
    /\ UNCHANGED <<world, ears, start, toWatch, loaded, repositories, targets, flags,
                   at, took, built, base, thrown, failed, rebuilds>>

\* Opening one parses it now; one that is there and not watched is watched.
Open(s, waits, done) ==
    /\ sessions' = [sessions EXCEPT ![s] = loaded]
    /\ stage' = IF s \in present /\ s \notin repositories' THEN waits ELSE done
    /\ at' = s

OpenOne(s) ==
    /\ stage = "opening"
    /\ s \in todo
    /\ todo' = todo \ {s}
    /\ UNCHANGED repositories
    /\ Open(s, "openingWatcher", "opening")
    /\ UNCHANGED <<world, ears, start, toWatch, loaded, targets, flags, took, built,
                   base, thrown, failed, rebuilds>>

\* A watcher has looked at what is there, and listens.
WatcherReady(waits, done) ==
    /\ stage = waits
    /\ stage' = done
    /\ repositories' = repositories \union {at}
    /\ hearing' = hearing \union ({at} \intersect present)
    /\ UNCHANGED <<world, events, start, toWatch, loaded, sessions, targets, flags,
                   todo, at, took, built, base, thrown, failed, rebuilds>>

Opened ==
    /\ stage = "opening"
    /\ todo = {}
    /\ stage' = "moving"
    /\ todo' = moved
    /\ UNCHANGED <<world, ears, watch, flags, at, took, built, base, thrown, failed,
                   rebuilds>>

\* A repository that came or went: its watcher is closed, and waited for.
ReopenMoved(s) ==
    /\ stage = "moving"
    /\ s \in todo
    /\ todo' = todo \ {s}
    /\ moved' = moved \ {s}
    /\ IF s \in Named[loaded]
       THEN /\ stage' = "reopening"
            /\ at' = s
            /\ hearing' = hearing \ {s}
       ELSE UNCHANGED <<stage, at, hearing>>
    /\ UNCHANGED <<world, events, watch, edited, timer, queued, closed, took, built,
                   base, thrown, failed, rebuilds>>

\* Mutation of WithoutIt: the watcher that was closed is still counted as one.
StillCounted == repositories

WithoutIt == repositories \ {at}

\* One that is there is opened again; one that is not is left closed.
Reopen ==
    /\ stage = "reopening"
    /\ repositories' = WithoutIt
    /\ IF at \in present
       THEN Open(at, "reopeningWatcher", "moving")
       ELSE /\ sessions' = [sessions EXCEPT ![at] = NoSession]
            /\ stage' = "moving"
            /\ UNCHANGED at
    /\ UNCHANGED <<world, ears, start, toWatch, loaded, targets, flags, todo, took,
                   built, base, thrown, failed, rebuilds>>

\* The build loads the configuration for itself; one that does not load is an
\* error (BuildThrows).
LoadConfig ==
    /\ stage = "moving"
    /\ todo = {}
    /\ config \in Loads
    /\ stage' = "building"
    /\ todo' = Named[config]
    /\ UNCHANGED <<world, ears, watch, flags, at, took, built, base, thrown, failed,
                   rebuilds>>

Survey ==
    /\ stage = "building"
    /\ stage' = "reading"
    /\ took' = [s \in Services |-> IF s \in todo THEN saves[s] ELSE NeverBuilt]
    /\ todo' = {}
    /\ UNCHANGED <<world, ears, watch, flags, at, built, base, thrown, failed, rebuilds>>

\* Mutation of AfterARebuild: the rebuild that is owed is given to a closed watch.
RebuildThoughClosed ==
    IF queued THEN queued' = FALSE /\ BeginRebuild
    ELSE stage' = "idle" /\ todo' = {} /\ UNCHANGED <<queued, edited, loaded, rebuilds>>

\* One rebuild is over: one more follows when one is owed.
AfterARebuild ==
    IF queued /\ ~closed
    THEN queued' = FALSE /\ BeginRebuild
    ELSE stage' = "idle" /\ todo' = {} /\ UNCHANGED <<queued, edited, loaded, rebuilds>>

\* The places beside the repositories, worked out again after a build.
Retargeted == IF Up THEN Named[loaded] ELSE targets

BuildEnds ==
    /\ stage = "reading"
    /\ built' = took
    /\ failed' = FALSE
    /\ targets' = Retargeted
    /\ AfterARebuild
    /\ UNCHANGED <<world, ears, start, toWatch, sessions, repositories, moved, timer,
                   closed, at, took, base, thrown>>

\* A build throws: the configuration does not load, the graph it is to be added
\* to cannot be read, what it made cannot be written.  The error is printed, the
\* places are worked out again, and nothing it surveyed counts as built; it is
\* tried again when the watch is next told anything.
BuildThrows ==
    /\ \/ stage = "moving" /\ todo = {} /\ config \notin Loads
       \/ stage \in {"building", "reading"}
    /\ failed' = TRUE
    /\ took' = built
    /\ targets' = Retargeted
    /\ AfterARebuild
    /\ UNCHANGED <<world, ears, start, toWatch, sessions, repositories, moved, timer,
                   closed, at, built, base, thrown>>

\* Opening one throws: a file it lists is gone before it is opened.  The error
\* is printed, and nothing is built or worked out again.
OpenThrows ==
    /\ MayThrow
    /\ \/ stage = "opening" /\ todo # {} /\ UNCHANGED <<sessions, repositories>>
       \/ /\ stage = "reopening" /\ at \in present
          /\ sessions' = [sessions EXCEPT ![at] = NoSession]
          /\ repositories' = WithoutIt
    /\ thrown' = TRUE
    /\ failed' = TRUE
    /\ AfterARebuild
    /\ UNCHANGED <<world, ears, start, toWatch, targets, moved, timer, closed, at, took,
                   built, base>>

-----------------------------------------------------------------------------
(***************************************************************************)
(* What the watch is told, and the timer between that and a rebuild.       *)
(***************************************************************************)

\* Told anything that matters, the debounce timer is set again.
Touched == timer' = TRUE /\ rebuilds' = 0

HearSaved(s) ==
    /\ Saved(s) \in events
    /\ events' = events \ {Saved(s)}
    /\ Touched
    /\ UNCHANGED <<world, hearing, watch, edited, moved, queued, closed, rebuild, base,
                   thrown, failed>>

HearConfiguration ==
    /\ ConfigurationEdited \in events
    /\ events' = events \ {ConfigurationEdited}
    /\ edited' = TRUE
    /\ Touched
    /\ UNCHANGED <<world, hearing, watch, moved, queued, closed, rebuild, base, thrown,
                   failed>>

\* The repositories of the configuration that a place is the place of.
MovedNames(s) == {s} \intersect Named[loaded]

\* A place the targets do not name matters to nobody.
HearMoved(s) ==
    /\ Moved(s) \in events
    /\ events' = events \ {Moved(s)}
    /\ IF s \in targets
       THEN Touched /\ moved' = moved \union MovedNames(s)
       ELSE UNCHANGED <<timer, rebuilds, moved>>
    /\ UNCHANGED <<world, hearing, watch, edited, queued, closed, rebuild, base, thrown,
                   failed>>

\* Mutation of Trigger: a save during a rebuild is left to that rebuild.
DropWhileRunning ==
    IF closed \/ stage # "idle" THEN UNCHANGED <<queued, edited, loaded, stage, todo, rebuilds>>
    ELSE BeginRebuild /\ UNCHANGED queued

\* One rebuild at a time; a save during one earns exactly one more after it.
Trigger ==
    IF closed THEN UNCHANGED <<queued, edited, loaded, stage, todo, rebuilds>>
    ELSE IF stage # "idle"
         THEN queued' = TRUE /\ UNCHANGED <<edited, loaded, stage, todo, rebuilds>>
         ELSE BeginRebuild /\ UNCHANGED queued

\* Mutation of TimerDone: a timer that fired is still taken for one that is set.
TimerKept == UNCHANGED timer

TimerDone == timer' = FALSE

TimerFires ==
    /\ timer
    /\ TimerDone
    /\ Trigger
    /\ UNCHANGED <<world, ears, start, toWatch, sessions, repositories, targets, moved,
                   closed, at, took, built, base, thrown, failed>>

-----------------------------------------------------------------------------
(***************************************************************************)
(* Starting and closing.                                                   *)
(***************************************************************************)

\* The first build is over, well or badly, and every repository that is there
\* is watched.
Scan ==
    /\ start = "firstBuild"
    /\ stage = "idle"
    /\ start' = "scanning"
    /\ toWatch' = Named[loaded] \intersect present
    /\ UNCHANGED <<world, ears, loaded, sessions, repositories, targets, flags, rebuild,
                   base, thrown, failed, rebuilds>>

Watched(s) ==
    /\ start = "scanning"
    /\ s \in toWatch
    /\ toWatch' = toWatch \ {s}
    /\ repositories' = repositories \union {s}
    /\ hearing' = hearing \union ({s} \intersect present)
    /\ UNCHANGED <<world, events, start, loaded, sessions, targets, flags, rebuild,
                   base, thrown, failed, rebuilds>>

LookAside ==
    /\ start = "scanning"
    /\ toWatch = {}
    /\ start' = "lookingAside"
    /\ targets' = Named[loaded]
    /\ UNCHANGED <<world, ears, toWatch, loaded, sessions, repositories, flags, rebuild,
                   base, thrown, failed, rebuilds>>

ComesUp ==
    /\ start = "lookingAside"
    /\ start' = "up"
    /\ base' = [saves |-> saves, config |-> config]
    /\ UNCHANGED <<world, ears, toWatch, loaded, sessions, repositories, targets, flags,
                   rebuild, thrown, failed, rebuilds>>

\* The debounce timer is cleared.  (What says it was set stays, and only
\* settled() reads it, which is not asked of a watch that is closed.)
Close ==
    /\ Up /\ ~closed
    /\ closed' = TRUE
    /\ timer' = FALSE
    /\ UNCHANGED <<world, ears, watch, edited, moved, queued, rebuild, base, thrown,
                   failed, rebuilds>>

\* What close() waits for before it closes the watchers.
MayLetGo == stage = "idle"

CloseWatchers ==
    /\ Up /\ closed
    /\ MayLetGo
    /\ start' = "closed"
    /\ hearing' = hearing \ repositories
    /\ UNCHANGED <<world, events, toWatch, loaded, sessions, repositories, targets,
                   flags, rebuild, base, thrown, failed, rebuilds>>

-----------------------------------------------------------------------------
World ==
    \/ \E s \in Services : Save(s)
    \/ \E s \in Services : Leave(s)
    \/ \E s \in Services : Return(s)
    \/ EditConfiguration

RebuildStep ==
    \/ \E s \in Services : LetGo(s)
    \/ OpenAll
    \/ \E s \in Services : OpenOne(s)
    \/ WatcherReady("openingWatcher", "opening")
    \/ Opened
    \/ \E s \in Services : ReopenMoved(s)
    \/ Reopen
    \/ WatcherReady("reopeningWatcher", "moving")
    \/ LoadConfig
    \/ Survey
    \/ BuildEnds
    \/ BuildThrows
    \/ OpenThrows

Hear ==
    \/ \E s \in Services : HearSaved(s)
    \/ HearConfiguration
    \/ \E s \in Services : HearMoved(s)

StartStep ==
    \/ Scan
    \/ \E s \in Services : Watched(s)
    \/ LookAside
    \/ ComesUp

Next ==
    \/ World
    \/ RebuildStep
    \/ Hear
    \/ TimerFires
    \/ StartStep
    \/ Close
    \/ CloseWatchers

Spec == Init /\ [][Next]_vars

(***************************************************************************)
(* A rebuild goes on once what it waits for has happened (a build is a     *)
(* finite computation, a watcher finishes its first look), an event heard  *)
(* is delivered, a timer that is set fires, and a close() that was called  *)
(* goes on.  Nobody has to save anything or to call it.                    *)
(***************************************************************************)
Fairness ==
    /\ WF_vars(RebuildStep)
    /\ WF_vars(Hear)
    /\ WF_vars(TimerFires)
    /\ WF_vars(StartStep)
    /\ WF_vars(CloseWatchers)

FairSpec == Spec /\ Fairness

-----------------------------------------------------------------------------
(***************************************************************************)
(* Properties.                                                             *)
(***************************************************************************)

Events == {Saved(s) : s \in Services} \union {Moved(s) : s \in Services}
              \union {ConfigurationEdited}

TypeOK ==
    /\ saves \in [Services -> Nat]
    /\ present \subseteq Services
    /\ config \in Configs
    /\ events \subseteq Events
    /\ hearing \subseteq Services
    /\ start \in Starts
    /\ toWatch \subseteq Services
    /\ loaded \in Configs
    /\ sessions \in [Services -> Configs \union {NoSession}]
    /\ repositories \subseteq Services
    /\ targets \subseteq Services
    /\ edited \in BOOLEAN /\ timer \in BOOLEAN /\ queued \in BOOLEAN /\ closed \in BOOLEAN
    /\ moved \subseteq Services
    /\ stage \in Stages
    /\ todo \subseteq Services
    /\ at \in Services
    /\ took \in [Services -> Nat \union {NeverBuilt}]
    /\ built \in [Services -> Nat \union {NeverBuilt}]
    /\ thrown \in BOOLEAN /\ failed \in BOOLEAN
    /\ base \in [saves : [Services -> Nat], config : Configs]
    /\ rebuilds \in 0 .. 3

\* settled() of the watch, with no event still on its way.
Settled == Up /\ ~closed /\ stage = "idle" /\ ~queued /\ ~timer /\ events = {}

\* The configuration is one that loads, and no edit of it came before the watch
\* was up to hear it.
Followed == base.config = 0 /\ config \in Loads

\* A watch at rest has built everything that changed since it came up, or the
\* last rebuild ended in an error, which it printed: it is never "quiet and sure
\* it is up to date" with a save it lost.  That and the two properties below are
\* of a watch in which opening a repository has never thrown: nothing opens or
\* watches again what was being opened then.
UpToDateWhenSettled ==
    Settled /\ Followed /\ ~thrown /\ ~failed =>
        \A s \in Named[config] :
            saves[s] > base.saves[s] \/ config # 0 => built[s] = saves[s]

\* A watch at rest watches every repository that is there, those that went and
\* came back too.
PresentMeansWatched ==
    Settled /\ Followed /\ ~thrown => Named[config] \intersect present \subseteq hearing

\* A watch at rest holds every repository open as the configuration now says.
SessionsFollowTheConfiguration ==
    Settled /\ Followed /\ ~thrown => \A s \in Named[config] \intersect present : sessions[s] = config

\* An edit the watch was up for is on its way, noted, or followed: one that does
\* not load is tried again on the next rebuild.
NoEditIsForgotten ==
    Up /\ base.config = 0 => ConfigurationEdited \in events \/ edited \/ loaded = config

\* However many saves come at once, the last of them is answered by the rebuild
\* it starts and at most one more.
AtMostTwoRebuilds == rebuilds <= 2

\* Once it is closed a watch begins no rebuild.
NothingBeginsOnceClosed == [][closed => rebuilds' \in {0, rebuilds}]_vars

\* Once close() resolves no watcher is left that hears anything, not even one
\* that was being started when it was called.
NothingListensOnceClosed == start = "closed" => hearing = {}

\* A watch nobody touches comes to rest: its own writes and its own queue never
\* keep it rebuilding.
ComesToRest == <>[](Settled \/ start = "closed")
=============================================================================
