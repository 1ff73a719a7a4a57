------------------------------ MODULE BuildPlan ------------------------------
(***************************************************************************)
(* What a build decides about one repository before it reads anything:     *)
(* planOne of packages/cli/src/build/incremental.ts, with the comparisons  *)
(* it makes (cache.ts, dependencies.ts).                                   *)
(*                                                                         *)
(* Everything a repository's graph depends on is an input: its source      *)
(* files; Installed, the files of installed packages it was read with; and *)
(* Around, which stands for the rest of what the survey hashes (tsconfig,  *)
(* package.json, lockfiles, what stands in, the adapters).  The            *)
(* configuration is an input of every repository.                          *)
(*                                                                         *)
(* An input has revisions, 0, 1, 2 ...  The code never sees a revision: it *)
(* sees text, and Text says which text each revision has, so an edit that  *)
(* is undone is two revisions with one text.  Values keep revisions and    *)
(* are compared by their text, which leaves the properties able to tell    *)
(* what the code cannot.                                                   *)
(***************************************************************************)
EXTENDS Integers, FiniteSets

CONSTANTS
    Services,       \* the repositories the configuration names
    Files,          \* the source files of a repository
    Installed,      \* the files of installed packages it is read with
    Around,         \* what else the survey hashes beside the files
    Config,         \* the configuration file
    Last,           \* the last revision each input gets to
    Text,           \* the text of each revision of each input
    Missing,        \* the text of a file that is not there
    Incremental,    \* the repositories whose reader can be held open
    Global,         \* files whose change is felt in the whole repository
    Importers,      \* the files that import a file
    None            \* where there is nothing

Inputs == Files \union {Installed, Around}
Versioned == Inputs \union {Config}
Revisions(i) == 0 .. Last[i]

\* What a reading of a repository was read from.  The graph is a function of
\* it, so the reading stands for the graph and for the graph's hash.
Readings == [Versioned -> Nat]

ASSUME PlanAssumption ==
    /\ {Installed, Around, Config} \intersect Files = {}
    /\ Installed # Around /\ Config \notin {Installed, Around}
    /\ IsFiniteSet(Files)
    /\ Last \in [Versioned -> Nat]
    /\ DOMAIN Text = Versioned
    /\ \A i \in Versioned : DOMAIN Text[i] = Revisions(i)
    /\ Incremental \subseteq Services
    /\ Global \subseteq Files
    /\ Importers \in [Files -> SUBSET Files]
    /\ None \notin Readings \union [Services -> Readings \union {None}]

\* The stamp of a file that was listed and could not be read: the hash of
\* emptiness, which no listed file has.
Vanished == -1

\* Nothing there: a file that does not exist, a cache that is not used, a
\* repository the cache has no entry for.
NoGraph == None
NoEntry == None
NoCache == None
NoFacts == None
NoPackages == None

Stamps == [Files -> Nat \union {Vanished}]

\* Whether two revisions of one input are the same text, hence the same hash.
SameText(i, a, b) ==
    IF a = Vanished \/ b = Vanished THEN FALSE ELSE Text[i][a] = Text[i][b]

SameReading(r, q) == \A i \in Versioned : SameText(i, r[i], q[i])

\* Whether two graph files hash alike; one that is not there hashes as empty.
SameGraph(r, q) == IF r = NoGraph \/ q = NoGraph THEN r = q ELSE SameReading(r, q)

Listed(files) == {f \in Files : files[f] = Vanished \/ Text[f][files[f]] # Missing}

(***************************************************************************)
(* A survey is [files, packages, around, graph]: the stamps of the files   *)
(* on disk, of the package files the last reading recorded (NoPackages     *)
(* when it recorded none), the hash of what is around them and that of the *)
(* graph of the last build, NoGraph when there is none.  An entry of the   *)
(* cache has the same fields and `wants`, whether the reading said what it *)
(* wanted something to stand in for; standIns says whether anything can    *)
(* stand in now.                                                           *)
(***************************************************************************)
Touched(entry, survey) ==
    {f \in Files : ~SameText(f, entry.files[f], survey.files[f])}

\* Only the files of installed packages that were recorded can have changed.
PackageChange(entry, survey) ==
    /\ entry.packages # NoPackages
    /\ ~SameText(Installed, entry.packages, survey.packages)

\* What is installed, which lockfile says so, and the rest around the files.
DependencyChange(entry, survey) == ~SameText(Around, entry.around, survey.around)

\* Something can stand in now and the last reading did not say what it wanted.
\* What stood in, where it did, is part of Around.
StandInsChange(entry, standIns) == standIns /\ ~entry.wants

\* Everything that asks for a full reading before a file is compared.
Untrusted(entry, survey, standIns) ==
    \/ entry = NoEntry
    \/ DependencyChange(entry, survey)
    \/ StandInsChange(entry, standIns)
    \/ PackageChange(entry, survey)
    \/ survey.graph = NoGraph
    \/ ~SameGraph(survey.graph, entry.graph)

\* More than a quarter of the files the cache lists.
TooMany(entry, touched) ==
    4 * Cardinality(touched) > Cardinality(Listed(entry.files)) /\ Listed(entry.files) # {}

\* Mutation of Refreshed: the files that import what moved, and not what moved.
ImportersOnly(touched) == {f \in Files : \E g \in touched : f \in Importers[g]}

Refreshed(touched) == touched \union {f \in Files : \E g \in touched : f \in Importers[g]}

\* The plan for service s: what is asked for, the entry the cache has for it
\* and what the survey found.
PlanOne(s, selected, noCache, entry, survey, standIns) ==
    IF s \notin selected THEN "not selected"
    ELSE IF noCache \/ Untrusted(entry, survey, standIns) THEN "full"
    ELSE LET touched == Touched(entry, survey) IN
         IF touched = {} THEN "unchanged"
         ELSE IF touched \intersect Global # {} \/ s \notin Incremental
                 \/ TooMany(entry, touched)
              THEN "full" ELSE "partial"

Skips == {"not selected", "unchanged"}
=============================================================================
