-------------------------- MODULE IncrementalBuild --------------------------
(***************************************************************************)
(* Builds over one output directory while the sources change: buildProject *)
(* and extractOne of packages/cli/src/commands/build.ts, the reading       *)
(* process of commands/extract.ts, the open repositories of                *)
(* build/session.ts and the reload of build/watch.ts.                      *)
(*                                                                         *)
(* A builder is a process: `flowatlas build`, which reads each repository  *)
(* in a child process, or a watch, which holds the repositories it can     *)
(* open and reads those itself.  Builders share the disk and nothing else. *)
(* A step is what one of them does between two moments at which anybody    *)
(* else may act: a file renamed into place, a directory surveyed, a        *)
(* repository parsed.  Surveying or parsing one repository is one step;    *)
(* between the survey, the parse, the write and the stamps, anything may   *)
(* happen.                                                                 *)
(***************************************************************************)
EXTENDS BuildPlan

CONSTANTS
    Builders,       \* the processes that build
    Watchers,       \* those of them that are a watch
    StandIns,       \* the repositories something can stand in for
    Selections,     \* what --service may name: sets of services
    MayIgnoreCache, \* whether --no-cache is used
    MayFail,        \* whether a reading may fail
    MayThrow,       \* whether a build may throw after its readings
    MayCrash,       \* whether a process may die
    DiesReplacing,  \* whether a build may end between removing graph.db and putting the next there
    MayDrop,        \* the repositories whose graph somebody may remove
    SavesWhileRead  \* whether a file may be saved while a child is reading

ASSUME BuildAssumption ==
    /\ Watchers \subseteq Builders
    /\ StandIns \subseteq Services
    /\ Selections \subseteq SUBSET Services
    /\ MayDrop \subseteq Services
    /\ {MayIgnoreCache, MayFail, MayThrow, MayCrash, DiesReplacing, SavesWhileRead}
           \subseteq BOOLEAN
    /\ None \notin [Services -> [Inputs -> Nat]]

VARIABLES
    disk,       \* the revision of every input of every repository
    config,     \* the revision of the configuration file
    graphs,     \* services/<name>/graph.json
    facts,      \* services/<name>/cache.json: what the last child stamped
    cache,      \* cache.json
    outputs,    \* project-graph.json, link-report.json and graph.db
    phase,      \* where each builder is
    ask,        \* what its build was asked: selected services, --no-cache
    conf,       \* the configuration its build loaded
    known,      \* the cache its build loaded
    survey,     \* what its survey found
    task,       \* where the reading of each repository is
    reading,    \* what that reading was read from
    got,        \* the graph it came to
    seen,       \* the stamps that go with it
    sessions,   \* the repositories a watch holds open
    edited,     \* whether a watch has been told the configuration changed
    untold,     \* whether it has still to be told
    listening,  \* whether its watchers are up
    began,      \* history: everything as it was when its build began
    said        \* history: what graph.db last said, or says

disks == <<disk, config, graphs, facts, cache, outputs>>
run == <<ask, conf, known, survey>>
readers == <<task, reading, got, seen>>
watch == <<sessions, edited, untold, listening>>
history == <<began, said>>
vars == <<disks, phase, run, readers, watch, history>>

NoSession == None
NoOutput == None
NoBuild == None
Output == {"graph", "report", "db"}
Phases == {"off", "idle", "reloaded", "begun", "reading", "linked", "graph written",
           "report written", "db removed", "outputs written"}
Tasks == {"todo", "parsed", "written", "stamped", "read", "done", "failed", "dead"}

Held(b, s) == b \in Watchers /\ s \in Incremental

\* What a reading of s would find now, with configuration c.
Now(s, c) == [i \in Versioned |-> IF i = Config THEN c ELSE disk[s][i]]
Sources == [s \in Services |-> Now(s, config)]

NewTasks == [s \in Services |-> "todo"]
NoReadings == [s \in Services |-> NoGraph]
NoStamps == [s \in Services |-> NoFacts]
AllOf == [selected |-> Services, noCache |-> FALSE]

Init ==
    /\ disk = [s \in Services |-> [i \in Inputs |-> 0]]
    /\ config = 0
    /\ graphs = NoReadings
    /\ facts = NoStamps
    /\ cache = NoCache
    /\ outputs = [o \in Output |-> NoOutput]
    /\ phase = [b \in Builders |-> IF b \in Watchers THEN "off" ELSE "idle"]
    /\ ask = [b \in Builders |-> AllOf]
    /\ conf = [b \in Builders |-> 0]
    /\ known = [b \in Builders |-> NoCache]
    /\ survey = [b \in Builders |-> NoReadings]
    /\ task = [b \in Builders |-> NewTasks]
    /\ reading = [b \in Builders |-> NoReadings]
    /\ got = [b \in Builders |-> NoReadings]
    /\ seen = [b \in Builders |-> NoStamps]
    /\ sessions = [b \in Builders |-> [s \in Services |-> NoSession]]
    /\ edited = [b \in Builders |-> FALSE]
    /\ untold = [b \in Builders |-> FALSE]
    /\ listening = [b \in Builders |-> FALSE]
    /\ began = [b \in Builders |-> NoBuild]
    /\ said = NoOutput

-----------------------------------------------------------------------------
(***************************************************************************)
(* The world: files are saved, and a graph may be taken away.              *)
(***************************************************************************)

\* A child has parsed the repository and not yet stamped it.
BetweenParseAndStamp(s) ==
    \E b \in Builders : phase[b] = "reading" /\ task[b][s] \in {"parsed", "written"}

Save(s, i) ==
    /\ disk[s][i] < Last[i]
    /\ SavesWhileRead \/ ~BetweenParseAndStamp(s)
    /\ disk' = [disk EXCEPT ![s][i] = @ + 1]
    /\ UNCHANGED <<config, graphs, facts, cache, outputs, phase, run, readers, watch, history>>

SaveConfig ==
    /\ config < Last[Config]
    /\ config' = config + 1
    /\ untold' = [b \in Builders |-> untold[b] \/ listening[b]]
    /\ UNCHANGED <<disk, graphs, facts, cache, outputs, phase, run, readers, sessions, edited,
                   listening, history>>

DropGraph(s) ==
    /\ s \in MayDrop
    /\ graphs[s] # NoGraph
    /\ graphs' = [graphs EXCEPT ![s] = NoGraph]
    /\ UNCHANGED <<disk, config, facts, cache, outputs, phase, run, readers, watch, history>>

-----------------------------------------------------------------------------
(***************************************************************************)
(* The watch around a build.                                               *)
(***************************************************************************)

\* Every repository that can be held open, opened with the configuration as
\* it is: parsed now, whole.
Opened(b) ==
    [s \in Services |-> IF Held(b, s) THEN Now(s, config) ELSE NoSession]

\* The watch starts: everything is opened and the first build follows.
OpenWatch(b) ==
    /\ b \in Watchers
    /\ phase[b] = "off"
    /\ sessions' = [sessions EXCEPT ![b] = Opened(b)]
    /\ phase' = [phase EXCEPT ![b] = "reloaded"]
    /\ UNCHANGED <<disks, run, readers, edited, untold, listening, history>>

\* The watchers are up once the first build has ended; what is saved before
\* that is not told.
Listen(b) ==
    /\ b \in Watchers
    /\ phase[b] = "idle"
    /\ ~listening[b]
    /\ listening' = [listening EXCEPT ![b] = TRUE]
    /\ UNCHANGED <<disks, phase, run, readers, sessions, edited, untold, history>>

\* The event for a saved configuration reaches the watch.
Told(b) ==
    /\ untold[b]
    /\ untold' = [untold EXCEPT ![b] = FALSE]
    /\ edited' = [edited EXCEPT ![b] = TRUE]
    /\ UNCHANGED <<disks, phase, run, readers, sessions, listening, history>>

\* The head of a rebuild: an edited configuration is loaded and everything is
\* opened again with it.
Reload(b) ==
    /\ phase[b] = "idle"
    /\ listening[b]
    /\ sessions' = IF edited[b] THEN [sessions EXCEPT ![b] = Opened(b)] ELSE sessions
    /\ edited' = [edited EXCEPT ![b] = FALSE]
    /\ phase' = [phase EXCEPT ![b] = "reloaded"]
    /\ UNCHANGED <<disks, run, readers, untold, listening, history>>

-----------------------------------------------------------------------------
(***************************************************************************)
(* One build, from its configuration to its plan.                          *)
(***************************************************************************)

\* A build ends, well or badly, and what it held is gone with it.
Returns(b, to) ==
    /\ phase' = [phase EXCEPT ![b] = to]
    /\ ask' = [ask EXCEPT ![b] = AllOf]
    /\ conf' = [conf EXCEPT ![b] = 0]
    /\ known' = [known EXCEPT ![b] = NoCache]
    /\ survey' = [survey EXCEPT ![b] = NoReadings]
    /\ task' = [task EXCEPT ![b] = NewTasks]
    /\ reading' = [reading EXCEPT ![b] = NoReadings]
    /\ got' = [got EXCEPT ![b] = NoReadings]
    /\ seen' = [seen EXCEPT ![b] = NoStamps]
    /\ began' = [began EXCEPT ![b] = NoBuild]
    /\ UNCHANGED said

Begin(b, selected, noCache) ==
    /\ phase[b] = IF b \in Watchers THEN "reloaded" ELSE "idle"
    /\ noCache => MayIgnoreCache
    /\ ask' = [ask EXCEPT ![b] = [selected |-> selected, noCache |-> noCache]]
    /\ conf' = [conf EXCEPT ![b] = config]
    /\ phase' = [phase EXCEPT ![b] = "begun"]
    /\ began' = [began EXCEPT ![b] = Sources]
    /\ UNCHANGED <<disks, known, survey, readers, watch, said>>

\* A cache written for another configuration is not used at all.
LoadedCache(b) ==
    IF ask[b].noCache \/ cache = NoCache THEN NoCache
    ELSE IF SameText(Config, cache.config, conf[b]) THEN cache ELSE NoCache

\* The entry a cache has for a repository.  The package files that are
\* stamped are those the entry names.
EntryIn(c, s) == IF c = NoCache THEN NoEntry ELSE c.entries[s]
Stamped(entry, packages) ==
    IF entry = NoEntry THEN NoPackages
    ELSE IF entry.packages = NoPackages THEN NoPackages ELSE packages

Surveyed(s, entry) ==
    [files    |-> [f \in Files |-> disk[s][f]],
     packages |-> Stamped(entry, disk[s][Installed]),
     around   |-> disk[s][Around],
     graph    |-> graphs[s]]

Survey(b) ==
    /\ phase[b] = "begun"
    /\ known' = [known EXCEPT ![b] = LoadedCache(b)]
    /\ survey' = [survey EXCEPT ![b] =
           [s \in Services |-> Surveyed(s, EntryIn(LoadedCache(b), s))]]
    /\ phase' = [phase EXCEPT ![b] = "reading"]
    /\ UNCHANGED <<disks, ask, conf, readers, watch, history>>

Entry(b, s) == EntryIn(known[b], s)

Plan(b, s) ==
    PlanOne(s, ask[b].selected, ask[b].noCache, Entry(b, s), survey[b][s], s \in StandIns)

-----------------------------------------------------------------------------
(***************************************************************************)
(* The readings, each on its own in the pool (ReadPool).                   *)
(***************************************************************************)

Reads(b, s, from) == phase[b] = "reading" /\ task[b][s] = from
Moves(b, s, to) == task' = [task EXCEPT ![b][s] = to]
Aborted(b) == \E s \in Services : task[b][s] = "dead"

\* What an entry knows about a repository's files, carried to the next cache.
FactsOf(entry) ==
    [files |-> entry.files, packages |-> entry.packages, wants |-> entry.wants]

\* Nothing to read: the graph of the last build is taken as it is.
Reuse(b, s) ==
    /\ Reads(b, s, "todo")
    /\ Plan(b, s) \in Skips
    /\ graphs[s] # NoGraph
    /\ got' = [got EXCEPT ![b][s] = graphs[s]]
    /\ seen' = [seen EXCEPT ![b][s] = IF Entry(b, s) = NoEntry THEN NoFacts
                                      ELSE FactsOf(Entry(b, s))]
    /\ Moves(b, s, "done")
    /\ UNCHANGED <<disks, phase, run, reading, watch, history>>

\* It is not there: the pool is aborted.  Children are killed; a repository
\* being read in this process is read to the end.
MissingGraph(b, s) ==
    /\ Reads(b, s, "todo")
    /\ Plan(b, s) \in Skips
    /\ graphs[s] = NoGraph
    /\ task' = [task EXCEPT ![b] = [q \in Services |->
                   IF q # s /\ task[b][q] \in {"read", "done", "failed"} THEN task[b][q] ELSE "dead"]]
    /\ UNCHANGED <<disks, phase, run, reading, got, seen, watch, history>>

\* A child process opens the repository and parses it, with the configuration
\* it loads for itself.
ChildParses(b, s) ==
    /\ Reads(b, s, "todo")
    /\ ~Held(b, s)
    /\ Plan(b, s) \notin Skips
    /\ reading' = [reading EXCEPT ![b][s] = Now(s, config)]
    /\ Moves(b, s, "parsed")
    /\ UNCHANGED <<disks, phase, run, got, seen, watch, history>>

ChildWrites(b, s) ==
    /\ Reads(b, s, "parsed")
    /\ graphs' = [graphs EXCEPT ![s] = reading[b][s]]
    /\ Moves(b, s, "written")
    /\ UNCHANGED <<disk, config, facts, cache, outputs, phase, run, reading, got, seen, watch, history>>

Exists(s, f) == Text[f][disk[s][f]] # Missing
Holds(r, f) == Text[f][r[f]] # Missing
StampNow(s, f) == IF Exists(s, f) THEN disk[s][f] ELSE Vanished

\* The stamps of a child are taken now: of the files it parsed, or, by a
\* browser reader, of the files listed now.
ChildStamp(b, s, f) ==
    IF s \in Incremental
    THEN IF Holds(reading[b][s], f) THEN StampNow(s, f) ELSE reading[b][s][f]
    ELSE disk[s][f]

ChildStamps(b, s) ==
    /\ Reads(b, s, "written")
    /\ facts' = [facts EXCEPT ![s] =
           [files    |-> [f \in Files |-> ChildStamp(b, s, f)],
            packages |-> disk[s][Installed],
            wants    |-> TRUE]]
    /\ Moves(b, s, "stamped")
    /\ UNCHANGED <<disk, config, graphs, cache, outputs, phase, run, reading, got, seen, watch, history>>

\* The child has exited; what it left is read back.
Collect(b, s) ==
    /\ Reads(b, s, "stamped")
    /\ graphs[s] # NoGraph
    /\ got' = [got EXCEPT ![b][s] = graphs[s]]
    /\ seen' = [seen EXCEPT ![b][s] = facts[s]]
    /\ Moves(b, s, "done")
    /\ UNCHANGED <<disks, phase, run, reading, watch, history>>

\* Mutation of Whole: the open repository is read as it is held, not parsed again.
AsHeld(b, s) == sessions[b][s]

\* An open repository parsed again whole; its configuration is the one it was
\* opened with.
Whole(b, s) == Now(s, sessions[b][s][Config])

\* The files that moved, and those importing them, refreshed from disk.
Part(b, s) ==
    LET moved == Refreshed(Touched(Entry(b, s), survey[b][s])) IN
    [i \in Versioned |-> IF i \in moved THEN disk[s][i] ELSE sessions[b][s][i]]

\* A part that will not fit back together is answered with a whole reading.
WarmReadings(b, s) ==
    IF Plan(b, s) = "partial" THEN {Part(b, s), Whole(b, s)} ELSE {Whole(b, s)}

WarmReads(b, s) ==
    /\ Reads(b, s, "todo")
    /\ Held(b, s)
    /\ Plan(b, s) \notin Skips
    /\ \E r \in WarmReadings(b, s) :
          /\ sessions' = [sessions EXCEPT ![b][s] = r]
          /\ reading' = [reading EXCEPT ![b][s] = r]
    /\ Moves(b, s, "read")
    /\ UNCHANGED <<disks, phase, run, got, seen, edited, untold, listening, history>>

\* Mutation of WarmStamp: stamped once it has been read, not by the survey before.
StampedAfterwards(b, s, f) ==
    IF ~Holds(reading[b][s], f) THEN reading[b][s][f] ELSE StampNow(s, f)

\* The stamp that goes with a file the open repository holds: the survey's, or
\* one taken now for a file the survey did not see.
WarmStamp(b, s, f) ==
    IF ~Holds(reading[b][s], f) THEN reading[b][s][f]
    ELSE IF Text[f][survey[b][s].files[f]] # Missing THEN survey[b][s].files[f]
    ELSE StampNow(s, f)

WarmWrites(b, s) ==
    /\ Reads(b, s, "read")
    /\ ~Aborted(b)
    /\ graphs' = [graphs EXCEPT ![s] = reading[b][s]]
    /\ got' = [got EXCEPT ![b][s] = reading[b][s]]
    /\ seen' = [seen EXCEPT ![b][s] =
           [files    |-> [f \in Files |-> WarmStamp(b, s, f)],
            packages |-> disk[s][Installed],
            wants    |-> TRUE]]
    /\ Moves(b, s, "done")
    /\ UNCHANGED <<disk, config, facts, cache, outputs, phase, run, reading, watch, history>>

\* What a reading in this process must not do once the build has failed.
WarmDrops(b, s) ==
    /\ Reads(b, s, "read")
    /\ Aborted(b)
    /\ Moves(b, s, "dead")
    /\ UNCHANGED <<disks, phase, run, reading, got, seen, watch, history>>

\* A repository that cannot be read is reported and the others go on.
ReadFails(b, s) ==
    /\ MayFail \/ (task[b][s] = "stamped" /\ graphs[s] = NoGraph)
    /\ phase[b] = "reading"
    /\ \/ task[b][s] = "todo" /\ Plan(b, s) \notin Skips
       \/ task[b][s] \in {"parsed", "written", "stamped", "read"}
    /\ ~Aborted(b)
    /\ Moves(b, s, "failed")
    /\ UNCHANGED <<disks, phase, run, reading, got, seen, watch, history>>

\* The pool throws: nothing is linked, written or remembered.
Abandon(b) ==
    /\ phase[b] = "reading"
    /\ Aborted(b)
    /\ \A s \in Services : task[b][s] # "read"
    /\ Returns(b, "idle")
    /\ UNCHANGED <<disks, watch>>

-----------------------------------------------------------------------------
(***************************************************************************)
(* From the readings to the answer.                                        *)
(***************************************************************************)

\* Mutation of Failed: one repository that was read makes the build a good one.
FailedAltogether(b) == \A s \in Services : task[b][s] = "failed"

Failed(b) == \E s \in Services : task[b][s] = "failed"

\* A failed build leaves what is there alone.
Keeping(b) ==
    Failed(b) /\ outputs["graph"] # NoOutput /\ outputs["db"] # NoOutput

Link(b) ==
    /\ phase[b] = "reading"
    /\ \A s \in Services : task[b][s] \in {"done", "failed"}
    /\ phase' = [phase EXCEPT ![b] = IF Keeping(b) THEN "outputs written" ELSE "linked"]
    /\ UNCHANGED <<disks, run, readers, watch, history>>

Write(b, from, output, to) ==
    /\ phase[b] = from
    /\ outputs' = [outputs EXCEPT ![output] = got[b]]
    /\ phase' = [phase EXCEPT ![b] = to]
    /\ said' = IF output = "db" THEN got[b] ELSE said
    /\ UNCHANGED <<disk, config, graphs, facts, cache, run, readers, watch, began>>

WriteGraph(b) == Write(b, "linked", "graph", "graph written")
WriteReport(b) == Write(b, "graph written", "report", "report written")

\* The database is written beside the last one, which is removed before it
\* takes its place: for a moment there is none.
RemoveDb(b) ==
    /\ phase[b] = "report written"
    /\ outputs' = [outputs EXCEPT !["db"] = NoOutput]
    /\ phase' = [phase EXCEPT ![b] = "db removed"]
    /\ UNCHANGED <<disk, config, graphs, facts, cache, run, readers, watch, history>>

WriteDb(b) == Write(b, "db removed", "db", "outputs written")

EntryFrom(b, s) ==
    [files    |-> IF seen[b][s] = NoFacts THEN survey[b][s].files ELSE seen[b][s].files,
     packages |-> IF seen[b][s] = NoFacts THEN survey[b][s].packages ELSE seen[b][s].packages,
     around   |-> survey[b][s].around,
     wants    |-> s \in StandIns /\ seen[b][s] # NoFacts /\ seen[b][s].wants,
     graph    |-> graphs[s]]

\* What the next build will compare against.  The stamps are those of the
\* reading, where there are any; everything else is the survey's, and the hash
\* is that of the graph on disk now.
NextEntry(b, s) == IF got[b][s] = NoGraph THEN NoEntry ELSE EntryFrom(b, s)

NextCache(b) == [config |-> conf[b], entries |-> [s \in Services |-> NextEntry(b, s)]]

SaveCache(b) ==
    /\ phase[b] = "outputs written"
    /\ cache' = NextCache(b)
    /\ Returns(b, "idle")
    /\ UNCHANGED <<disk, config, graphs, facts, outputs, watch>>

\* An error after the readings: what was written stays, the rest is not.
Throw(b) ==
    /\ MayThrow
    /\ phase[b] \in {"linked", "graph written", "report written", "db removed", "outputs written"}
    /\ phase[b] = "db removed" => DiesReplacing
    /\ Returns(b, "idle")
    /\ UNCHANGED <<disks, watch>>

\* The process dies, and its children with it.
Crash(b) ==
    /\ MayCrash
    /\ phase[b] \notin {"off", "idle"}
    /\ phase[b] = "db removed" => DiesReplacing
    /\ Returns(b, IF b \in Watchers THEN "off" ELSE "idle")
    /\ sessions' = [sessions EXCEPT ![b] = [s \in Services |-> NoSession]]
    /\ edited' = [edited EXCEPT ![b] = FALSE]
    /\ untold' = [untold EXCEPT ![b] = FALSE]
    /\ listening' = [listening EXCEPT ![b] = FALSE]
    /\ UNCHANGED disks

-----------------------------------------------------------------------------
World ==
    \/ \E s \in Services, i \in Inputs : Save(s, i)
    \/ SaveConfig
    \/ \E s \in Services : DropGraph(s)

ReadStep(b, s) ==
    \/ Reuse(b, s)
    \/ MissingGraph(b, s)
    \/ ChildParses(b, s)
    \/ ChildWrites(b, s)
    \/ ChildStamps(b, s)
    \/ Collect(b, s)
    \/ WarmReads(b, s)
    \/ WarmWrites(b, s)
    \/ WarmDrops(b, s)
    \/ ReadFails(b, s)

BuildStep(b) ==
    \/ OpenWatch(b)
    \/ Listen(b)
    \/ Told(b)
    \/ Reload(b)
    \/ \E selected \in Selections, noCache \in BOOLEAN : Begin(b, selected, noCache)
    \/ Survey(b)
    \/ \E s \in Services : ReadStep(b, s)
    \/ Abandon(b)
    \/ Link(b)
    \/ WriteGraph(b)
    \/ WriteReport(b)
    \/ RemoveDb(b)
    \/ WriteDb(b)
    \/ SaveCache(b)
    \/ Throw(b)
    \/ Crash(b)

Next == World \/ \E b \in Builders : BuildStep(b)

Spec == Init /\ [][Next]_vars

-----------------------------------------------------------------------------
(***************************************************************************)
(* Properties.                                                             *)
(***************************************************************************)

MaybeReading == Readings \union {NoGraph}
Packages == Nat \union {NoPackages}
Facts == [files : Stamps, packages : Packages, wants : BOOLEAN]
Surveys == [files : Stamps, packages : Packages, around : Nat, graph : MaybeReading]
Entries == [files : Stamps, packages : Packages, around : Nat, wants : BOOLEAN,
            graph : MaybeReading]
Caches == [config : Nat, entries : [Services -> Entries \union {NoEntry}]]

\* What the disk holds, and what each builder holds of it.
TypeOK ==
    /\ disk \in [Services -> [Inputs -> Nat]]
    /\ config \in Nat
    /\ graphs \in [Services -> MaybeReading]
    /\ facts \in [Services -> Facts \union {NoFacts}]
    /\ cache \in Caches \union {NoCache}
    /\ outputs \in [Output -> [Services -> MaybeReading] \union {NoOutput}]
    /\ phase \in [Builders -> Phases]
    /\ ask \in [Builders -> [selected : SUBSET Services, noCache : BOOLEAN]]
    /\ conf \in [Builders -> Nat]
    /\ known \in [Builders -> Caches \union {NoCache}]
    /\ survey \in [Builders -> [Services -> Surveys \union {None}]]
    /\ task \in [Builders -> [Services -> Tasks]]
    /\ reading \in [Builders -> [Services -> MaybeReading]]
    /\ got \in [Builders -> [Services -> MaybeReading]]
    /\ seen \in [Builders -> [Services -> Facts \union {NoFacts}]]
    /\ sessions \in [Builders -> [Services -> MaybeReading]]
    /\ edited \in [Builders -> BOOLEAN]
    /\ untold \in [Builders -> BOOLEAN]
    /\ listening \in [Builders -> BOOLEAN]
    /\ began \in [Builders -> [Services -> Readings] \union {NoBuild}]
    /\ said \in [Services -> MaybeReading] \union {NoOutput}

\* A cache entry that stands for the graph on disk never stamps an input
\* later than the graph read it: "stamping beforehand can only cost a file
\* being read a second time".
StampsNeverPassTheReading ==
    cache # NoCache => \A s \in Services :
        LET e == cache.entries[s] IN
        e # NoEntry /\ graphs[s] # NoGraph /\ SameGraph(e.graph, graphs[s]) =>
            /\ \A f \in Files : e.files[f] <= graphs[s][f]
            /\ e.packages # NoPackages => e.packages <= graphs[s][Installed]
            /\ e.around <= graphs[s][Around]

\* A repository skipped because nothing moved is answered by a graph that was
\* read from what the survey found.
SkippedMeansCurrent ==
    \A b \in Builders, s \in Services :
        Reads(b, s, "todo") /\ Plan(b, s) = "unchanged" /\ graphs[s] # NoGraph =>
            /\ \A f \in Files : SameText(f, graphs[s][f], survey[b][s].files[f])
            /\ survey[b][s].packages # NoPackages =>
                   SameText(Installed, graphs[s][Installed], survey[b][s].packages)
            /\ SameText(Around, graphs[s][Around], survey[b][s].around)

Answers(b) ==
    phase[b] \in {"linked", "graph written", "report written", "db removed", "outputs written"}

\* A build of everything that reads every repository while nothing is saved
\* answers with the sources as they are, whatever the builds before it did.
QuietBuildDescribesTheSources ==
    \A b \in Builders :
        Answers(b) /\ began[b] = Sources /\ ask[b].selected = Services /\ ~Failed(b) =>
            \A s \in Services : SameReading(got[b][s], Now(s, config))

HasThemAll(output) ==
    outputs[output] # NoOutput /\ \A s \in Services : outputs[output][s] # NoGraph

\* A database taken away by the build that is about to put the next one there.
Replaced(output) ==
    output = "db" /\ outputs["db"] = NoOutput /\ \E b \in Builders : phase[b] = "db removed"

Complete == \A output \in Output : HasThemAll(output) \/ Replaced(output)

\* An answer every repository is part of is never replaced by one that a
\* repository is missing from: a graph a failed build left must not read as
\* a project that is that small.
CompleteStaysComplete == [][Complete => Complete']_vars

\* "A failed build leaves what is there alone": no build with a repository it
\* could not read is about to write over a graph that has them all.
FailedBuildsSpareAWholeGraph ==
    \A b \in Builders : phase[b] = "linked" /\ Failed(b) => ~HasThemAll("graph")

\* To a reader of graph.db the builds are ProjectAnswer: whatever is cached,
\* stamped, reused, abandoned or killed, an answer has every repository's
\* sources as they were at some moment since its build was asked for it, and a
\* failed build takes nothing away.  Of the configuration the mapping says
\* nothing: a watch and its builds load it each for themselves.
OnlyInputs(revisions) == [s \in Services |-> [i \in Inputs |-> revisions[s][i]]]
Answer == INSTANCE ProjectAnswer
              WITH now <- disk,
                   since <- [b \in Builders |-> IF began[b] = NoBuild THEN None
                                                ELSE OnlyInputs(began[b])],
                   answer <- outputs["db"], last <- said,
                   Versioned <- Inputs, Nothing <- None
ImplementsProjectAnswer == Answer!Spec
=============================================================================
