--------------------------- MODULE CommitReadings ---------------------------
(***************************************************************************)
(* Comparisons (`diff`, `check`, `spec diff`) read repositories at commits:*)
(* inPools, readSide and buildAtRef of packages/cli/src/git/build-at-ref.ts,*)
(* withWorktree of git/worktree.ts, GraphCache of git/graph-cache.ts, and  *)
(* buildSides and the work directory of commands/diff.ts.                  *)
(*                                                                         *)
(* A run is a process; several share the cache of one output directory, and*)
(* `cache prune` may empty it under them.  In one process nothing runs     *)
(* between the two looks of a `get` or the two renames of a `put`; other   *)
(* processes do.  The repositories go on: a ref is moved to another commit,*)
(* packages are installed in a working tree.                               *)
(***************************************************************************)
EXTENDS Naturals, Sequences, FiniteSets

CONSTANTS
    Runs,
    Services,
    RepoOf,         \* the repository a service is in
    Sides,          \* what each run reads: the ref of each side, and the services
    Strict,         \* the runs that never read a working tree in a ref's place
    Limit,          \* how many repositories a run reads at a time
    FirstRefs,      \* what the refs of the repositories name at first
    FirstEntries,   \* what an older build of the tool left in the cache
    MaxEvents,      \* how often a ref moves, packages are installed, something of
                    \* the cache is removed, a reading fails or a run is killed
    Tree,           \* the ref of a working tree, and the commit of its graph
    NoCommit,       \* what a ref names in a repository that has no such ref
    None            \* no file; nothing read

Repos == {RepoOf[s] : s \in Services}
Refs == {Sides[r][i].ref : r \in Runs, i \in {1, 2}} \ {Tree}
Commits == [repo : Repos, n : 0 .. MaxEvents]

\* What is read of a service, what the cache says of it, and what a run has.
Graphs == [service : Services, commit : Commits \union {Tree}, packages : 0 .. MaxEvents,
           ours : BOOLEAN]
Metas == [service : Services, missing : BOOLEAN, ours : BOOLEAN]
Readings == [graph : Graphs, commit : Commits \union {Tree}, cached : BOOLEAN]

\* A directory of the cache, with its two files.
Entries == [dir : BOOLEAN, graph : Graphs \union {None}, meta : Metas \union {None}]

ASSUME CommitReadingsAssumption ==
    /\ \A r \in Runs, i \in {1, 2} : Sides[r][i].of \in Seq(Services)
    /\ \A r \in Runs, i \in {1, 2} : \A j, k \in DOMAIN Sides[r][i].of :
          Sides[r][i].of[j] = Sides[r][i].of[k] => j = k
    /\ \A r \in Runs : {Sides[r][1].of[i] : i \in DOMAIN Sides[r][1].of} = Services
    /\ Strict \subseteq Runs
    /\ Limit \in Nat \ {0}
    /\ \A f \in FirstRefs : f \in [Repos -> [Refs -> Commits \union {NoCommit}]]
    /\ \A f \in FirstRefs, repo \in Repos, ref \in Refs :
          f[repo][ref] \in {NoCommit, [repo |-> repo, n |-> 0]}
    /\ NoCommit \notin Commits /\ Tree \notin Commits \union {NoCommit}
    /\ FirstEntries \subseteq [Commits -> Entries]
    /\ \A e \in FirstEntries, c \in Commits : e[c].meta # None => ~e[c].meta.ours
    /\ None \notin Graphs \union Metas \union Readings
    /\ MaxEvents \in Nat

VARIABLES
    refs,       \* the commit each ref of a repository names
    installed,  \* how often packages were installed in its working tree
    entry,      \* the cache: the directory of each commit
    at,         \* where each run is
    side,       \* which side it reads
    next,       \* the next service its pool takes
    task,       \* where the reading of each service is
    got,        \* what each side has of each service
    events,     \* how much has happened from outside
    checkouts,  \* the worktrees on the disk
    workDir     \* the runs whose work directory is

world == <<refs, installed>>
run == <<at, side, next, got>>
left == <<checkouts, workDir>>
vars == <<world, entry, run, task, events, left>>

NoEntry == [dir |-> FALSE, graph |-> None, meta |-> None]
Waiting == [phase |-> "waiting", commit |-> NoCommit, missing |-> FALSE, graph |-> None]

Idle == [s \in Services |-> Waiting]
Nothing == [i \in {1, 2} |-> [s \in Services |-> None]]

Init ==
    /\ refs \in FirstRefs
    /\ installed = [repo \in Repos |-> 0]
    /\ entry \in FirstEntries
    /\ at = [r \in Runs |-> "out"]
    /\ side = [r \in Runs |-> 1]
    /\ next = [r \in Runs |-> 1]
    /\ task = [r \in Runs |-> Idle]
    /\ got = [r \in Runs |-> Nothing]
    /\ events = 0
    /\ checkouts = {}
    /\ workDir = {}

-----------------------------------------------------------------------------
(***************************************************************************)
(* The repositories, and `cache prune` and `cache clear`.                  *)
(***************************************************************************)

Event == events < MaxEvents /\ events' = events + 1

MoveRef(repo, ref) ==
    LET n == IF refs[repo][ref] = NoCommit THEN 0 ELSE refs[repo][ref].n + 1
    IN /\ Event
       /\ refs' = [refs EXCEPT ![repo][ref] = [repo |-> repo, n |-> n]]
       /\ UNCHANGED <<installed, entry, run, task, left>>

Install(repo) ==
    /\ Event
    /\ installed' = [installed EXCEPT ![repo] = @ + 1]
    /\ UNCHANGED <<refs, entry, run, task, left>>

\* A directory of the cache is removed file by file, in no order of ours.
Prune(c) ==
    /\ entry[c].dir
    /\ Event
    /\ entry' \in {[entry EXCEPT ![c].graph = None], [entry EXCEPT ![c].meta = None],
                   [entry EXCEPT ![c] = NoEntry]}
    /\ UNCHANGED <<world, run, task, left>>

-----------------------------------------------------------------------------
(***************************************************************************)
(* The pool of one run.                                                    *)
(***************************************************************************)

Running(r) == at[r] \in {"reading", "failing"}
Of(r) == Sides[r][side[r]].of
RefOf(r) == Sides[r][side[r]].ref

In(r, phases) == {s \in Services : task[r][s].phase \in phases}
Ended == {"waiting", "done", "failed"}

\* No other reading of this process is inside a call that does not wait.
Turn(r, s) == In(r, {"halfGot", "halfPut"}) \subseteq {s}

Goes(r, s, from, to) ==
    /\ Running(r)
    /\ Turn(r, s)
    /\ task[r][s].phase = from
    /\ task' = [task EXCEPT ![r][s].phase = to]

Start(r) ==
    /\ at[r] = "out"
    /\ at' = [at EXCEPT ![r] = "reading"]
    /\ workDir' = workDir \union {r}
    /\ UNCHANGED <<world, entry, side, next, got, task, events, checkouts>>

\* Whoever works in the pool takes the next service, also after a reading of
\* another failed; only the worker whose own reading failed takes no more.  What
\* the ref names is asked of git.  A working tree has no commit, and is read in
\* the place of a ref that names none, unless the run is strict.
Take(r) ==
    LET s == Of(r)[next[r]]
        commit == IF RefOf(r) = Tree THEN Tree ELSE refs[RepoOf[s]][RefOf(r)]
    IN /\ Running(r)
       /\ next[r] <= Len(Of(r))
       /\ Cardinality(Services \ In(r, Ended)) + Cardinality(In(r, {"failed"})) < Limit
       /\ next' = [next EXCEPT ![r] = @ + 1]
       /\ \/ /\ commit = NoCommit /\ r \in Strict
             /\ task' = [task EXCEPT ![r][s].phase = "failed"]
             /\ UNCHANGED workDir
          \/ /\ commit = Tree \/ (commit = NoCommit /\ r \notin Strict)
             /\ task' = [task EXCEPT ![r][s].phase = "reading"]
             /\ workDir' = workDir \union {r}
          \/ /\ commit \notin {Tree, NoCommit}
             /\ task' = [task EXCEPT ![r][s].phase = "resolved", ![r][s].commit = commit]
             /\ UNCHANGED workDir
       /\ UNCHANGED <<world, entry, at, side, got, events, checkouts>>

\* Mutation of Answers: a side is what could be read of it.
WhatWasRead(r) == In(r, {"done", "failed"}) = {Of(r)[i] : i \in DOMAIN Of(r)}

\* Mutation of Answers: the services a side takes over are waited for too.
WaitsForAll(r) == In(r, {"done"}) = Services

\* A side is there when every reading of it is.
Answers(r) == In(r, {"done"}) = {Of(r)[i] : i \in DOMAIN Of(r)}

\* The other side has of the services it does not read itself what this one has.
SideDone(r) ==
    /\ at[r] = "reading"
    /\ Answers(r)
    /\ task' = [task EXCEPT ![r] = Idle]
    /\ IF side[r] = 1
       THEN /\ side' = [side EXCEPT ![r] = 2]
            /\ next' = [next EXCEPT ![r] = 1]
            /\ got' = [got EXCEPT ![r][2] = got[r][1]]
            /\ UNCHANGED <<at, workDir>>
       ELSE /\ at' = [at EXCEPT ![r] = "answered"]
            /\ workDir' = workDir \ {r}
            /\ UNCHANGED <<side, next, got>>
    /\ UNCHANGED <<world, entry, events, checkouts>>

\* The first reading that fails is the end of the answer: the work directory
\* goes, and the readings under way, and those not begun, go on without it.
SideFails(r) ==
    /\ at[r] = "reading"
    /\ In(r, {"failed"}) # {}
    /\ at' = [at EXCEPT ![r] = "failing"]
    /\ workDir' = workDir \ {r}
    /\ UNCHANGED <<world, entry, side, next, got, task, events, checkouts>>

\* The process is gone, and with it all it held.
IsGone(r, how) ==
    /\ at' = [at EXCEPT ![r] = how]
    /\ side' = [side EXCEPT ![r] = 1]
    /\ next' = [next EXCEPT ![r] = 1]
    /\ task' = [task EXCEPT ![r] = Idle]
    /\ got' = [got EXCEPT ![r] = Nothing]

\* The process ends when nothing of it is under way.
Exit(r) ==
    /\ at[r] = "failing"
    /\ In(r, Ended) = Services
    /\ next[r] > Len(Of(r)) \/ Cardinality(In(r, {"failed"})) >= Limit
    /\ IsGone(r, "failed")
    /\ UNCHANGED <<world, entry, events, left>>

Kill(r) ==
    /\ Running(r)
    /\ Event
    /\ IsGone(r, "killed")
    /\ UNCHANGED <<world, entry, left>>

-----------------------------------------------------------------------------
(***************************************************************************)
(* The reading of one service: readSide.                                   *)
(***************************************************************************)

\* Mutation of KeptUnder: a graph is kept under the ref it was asked for by.
KeptUnderTheRef(r, s) == [task[r][s].commit EXCEPT !.n = 0]

\* The directory a graph is kept in is its commit's.
KeptUnder(r, s) == task[r][s].commit

\* What is there is believed if it says it is this service's, read by this build.
Believes(r, s, meta) == meta # None /\ meta.ours /\ meta.service = s

GetMeta(r, s) ==
    /\ Goes(r, s, "resolved", IF Believes(r, s, entry[KeptUnder(r, s)].meta) THEN "halfGot" ELSE "missed")
    /\ UNCHANGED <<world, entry, run, events, left>>

GetGraph(r, s) ==
    LET graph == entry[KeptUnder(r, s)].graph
    IN /\ Goes(r, s, "halfGot", IF graph = None THEN "missed" ELSE "done")
       /\ got' = IF graph = None THEN got
                 ELSE [got EXCEPT ![r][side[r]][s] =
                          [graph |-> graph, commit |-> task[r][s].commit, cached |-> TRUE]]
       /\ UNCHANGED <<world, entry, at, side, next, events, left>>

\* A worktree of the commit, its packages linked to those of the working tree.
\* (One asked to be kept, by --keep-worktrees, is not modelled.)
AddWorktree(r, s) ==
    /\ Running(r)
    /\ Turn(r, s)
    /\ task[r][s].phase = "missed"
    /\ task' = [task EXCEPT ![r][s].phase = "reading",
                            ![r][s].missing = installed[RepoOf[s]] = 0]
    /\ checkouts' = checkouts \union {<<r, s>>}
    /\ workDir' = workDir \union {r}
    /\ UNCHANGED <<world, entry, run, events>>

GraphOf(r, s) ==
    [service |-> s,
     commit |-> IF <<r, s>> \in checkouts THEN task[r][s].commit ELSE Tree,
     packages |-> IF <<r, s>> \in checkouts /\ task[r][s].missing THEN 0 ELSE installed[RepoOf[s]],
     ours |-> TRUE]

\* The process that reads it has ended; a graph of a commit is kept next.
Finish(r, s) ==
    /\ Running(r)
    /\ Turn(r, s)
    /\ task[r][s].phase = "reading"
    /\ workDir' = workDir \union {r}
    /\ IF <<r, s>> \in checkouts
       THEN /\ task' = [task EXCEPT ![r][s].phase = "put", ![r][s].graph = GraphOf(r, s)]
            /\ UNCHANGED got
       ELSE /\ task' = [task EXCEPT ![r][s].phase = "done"]
            /\ got' = [got EXCEPT ![r][side[r]][s] =
                          [graph |-> GraphOf(r, s), commit |-> Tree, cached |-> FALSE]]
    /\ UNCHANGED <<world, entry, at, side, next, events, checkouts>>

\* Mutation of AfterAFailure: the worktree is removed after a reading that ends well.
NothingIsRemoved(r, s) == "failed"

AfterAFailure(r, s) == IF <<r, s>> \in checkouts THEN "unmade" ELSE "failed"

\* It failed, of itself, or because the work directory went under it; or git
\* could not add the worktree.  (The empty directory made to hold it stays then.)
Breaks(r, s) ==
    /\ \/ /\ IF at[r] = "failing" THEN UNCHANGED events ELSE Event
          /\ Goes(r, s, "reading", AfterAFailure(r, s))
       \/ Event /\ Goes(r, s, "missed", "failed")
    /\ UNCHANGED <<world, entry, run, left>>

\* Of the two files of an entry, the graph is renamed to its place first.
FirstPut == "graph"

MetaOf(r, s) == [service |-> s, missing |-> task[r][s].missing, ours |-> TRUE]

\* A directory once one of the two is in its place.
With(r, s, old, name) ==
    [dir |-> TRUE,
     graph |-> IF name = "graph" THEN task[r][s].graph ELSE old.graph,
     meta |-> IF name = "meta" THEN MetaOf(r, s) ELSE old.meta]

PutFirst(r, s) ==
    /\ Goes(r, s, "put", "halfPut")
    /\ entry' = [entry EXCEPT ![KeptUnder(r, s)] = With(r, s, @, FirstPut)]
    /\ UNCHANGED <<world, run, events, left>>

\* A directory that was removed since is not made again: the reading fails.
PutSecond(r, s) ==
    LET second == IF FirstPut = "graph" THEN "meta" ELSE "graph"
        there == entry[KeptUnder(r, s)].dir
    IN /\ Goes(r, s, "halfPut", IF there THEN "made" ELSE "unmade")
       /\ entry' = IF there THEN [entry EXCEPT ![KeptUnder(r, s)] = With(r, s, @, second)]
                   ELSE entry
       /\ UNCHANGED <<world, run, events, left>>

\* The worktree goes, whatever came of the reading.
RemoveWorktree(r, s) ==
    /\ \/ /\ Goes(r, s, "made", "done")
          /\ got' = [got EXCEPT ![r][side[r]][s] =
                        [graph |-> task[r][s].graph, commit |-> task[r][s].commit, cached |-> FALSE]]
       \/ Goes(r, s, "unmade", "failed") /\ UNCHANGED got
    /\ checkouts' = checkouts \ {<<r, s>>}
    /\ UNCHANGED <<world, entry, at, side, next, events, workDir>>

-----------------------------------------------------------------------------
World ==
    \/ \E repo \in Repos : Install(repo) \/ \E ref \in Refs : MoveRef(repo, ref)
    \/ \E c \in Commits : Prune(c)

Read(r, s) ==
    \/ GetMeta(r, s)
    \/ GetGraph(r, s)
    \/ AddWorktree(r, s)
    \/ Finish(r, s)
    \/ Breaks(r, s)
    \/ PutFirst(r, s)
    \/ PutSecond(r, s)
    \/ RemoveWorktree(r, s)

Proceed(r) ==
    \/ Take(r)
    \/ SideDone(r)
    \/ SideFails(r)
    \/ Exit(r)
    \/ \E s \in Services : Read(r, s)

Next == World \/ \E r \in Runs : Start(r) \/ Proceed(r) \/ Kill(r)

\* A run that is there goes on: a child ends, a call of git or of the file
\* system returns.  Nobody has to start one.
Fairness == \A r \in Runs : WF_vars(Proceed(r))

Spec == Init /\ [][Next]_vars /\ Fairness

-----------------------------------------------------------------------------
(***************************************************************************)
(* Properties.                                                             *)
(***************************************************************************)

Phases == Ended \union {"resolved", "halfGot", "missed", "reading", "put", "halfPut",
                        "made", "unmade"}

TypeOK ==
    /\ refs \in [Repos -> [Refs -> Commits \union {NoCommit}]]
    /\ installed \in [Repos -> 0 .. MaxEvents]
    /\ entry \in [Commits -> Entries]
    /\ at \in [Runs -> {"out", "reading", "failing", "answered", "failed", "killed"}]
    /\ side \in [Runs -> {1, 2}]
    /\ next \in [Runs -> Nat]
    /\ task \in [Runs -> [Services -> [phase : Phases, commit : Commits \union {NoCommit},
                                       missing : BOOLEAN, graph : Graphs \union {None}]]]
    /\ got \in [Runs -> [{1, 2} -> [Services -> Readings \union {None}]]]
    /\ events \in 0 .. MaxEvents
    /\ checkouts \subseteq Runs \X Services
    /\ workDir \subseteq Runs

\* What a run has of a service, read or believed, is a graph of that service,
\* at the commit it says, as this build of the tool reads it.
WhatIsBelievedIsOurs ==
    \A r \in Runs, i \in {1, 2}, s \in Services :
        got[r][i][s] # None =>
            LET reading == got[r][i][s]
            IN /\ reading.graph.service = s
               /\ reading.graph.commit = reading.commit
               /\ reading.graph.ours

\* An answer compares every service with itself, both sides read or the second
\* taking over the first's; one that could not be read is never left out.
AnAnswerIsWhole ==
    \A r \in Runs : at[r] = "answered" =>
        \A s \in Services :
            /\ got[r][1][s] # None /\ got[r][2][s] # None
            /\ s \notin {Sides[r][2].of[i] : i \in DOMAIN Sides[r][2].of} => got[r][2][s] = got[r][1][s]

\* A process that was not killed leaves no worktree, and one that has answered
\* no work directory.
NothingIsLeft ==
    \A r \in Runs :
        /\ at[r] \in {"answered", "failed"} => \A s \in Services : <<r, s>> \notin checkouts
        /\ at[r] = "answered" => r \notin workDir

\* A run ends, whatever the readings of it come to.
EveryRunEnds == \A r \in Runs : Running(r) ~> ~Running(r)

\* Once the packages a warning asks for are installed, a graph read without
\* them is not what a run is answered with.
AnInstallIsSeen ==
    [][\A r \in Runs, s \in Services :
          task[r][s].phase = "halfGot" /\ task'[r][s].phase = "done" /\ installed[RepoOf[s]] > 0
              => got'[r][side[r]][s].graph.packages > 0]_vars

\* A run that fails leaves no work directory either.
TheWorkDirectoryGoes == \A r \in Runs : at[r] = "failed" => r \notin workDir
=============================================================================
