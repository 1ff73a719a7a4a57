----------------------- MODULE CommitReadings_proofs -----------------------
(***************************************************************************)
(* Proofs about CommitReadings, for any number of runs over one cache: a   *)
(* graph that is believed is of the commit it is believed of, as long as   *)
(* no two services are in one repository; an answer is whole; a run that   *)
(* was not killed leaves nothing behind; and nothing keeps it from ending. *)
(***************************************************************************)
EXTENDS CommitReadings, FiniteSetTheorems, TLAPS

USE CommitReadingsAssumption

\* No two services are read out of one repository.
OneRepositoryEach == \A s, t \in Services : RepoOf[s] = RepoOf[t] => s = t

-----------------------------------------------------------------------------
(***************************************************************************)
(* What everything is.                                                     *)
(***************************************************************************)

Tasks == [phase : Phases, commit : Commits \union {NoCommit}, missing : BOOLEAN,
          graph : Graphs \union {None}]

RefsTyped ==
    /\ events \in 0 .. MaxEvents
    /\ installed \in [Repos -> 0 .. events]
    /\ refs \in [Repos -> [Refs -> Commits \union {NoCommit}]]
    /\ \A repo \in Repos, ref \in Refs : refs[repo][ref] # NoCommit =>
           refs[repo][ref].repo = repo /\ refs[repo][ref].n <= events

RunsTyped ==
    /\ at \in [Runs -> {"out", "reading", "failing", "answered", "failed", "killed"}]
    /\ side \in [Runs -> {1, 2}]
    /\ next \in [Runs -> Nat \ {0}]
    /\ checkouts \in SUBSET (Runs \X Services)

Shapes ==
    /\ RefsTyped
    /\ RunsTyped
    /\ task \in [Runs -> [Services -> Tasks]]
    /\ entry \in [Commits -> Entries]
    /\ got \in [Runs -> [{1, 2} -> [Services -> Readings \union {None}]]]

-----------------------------------------------------------------------------
(***************************************************************************)
(* The invariant.                                                          *)
(***************************************************************************)

IsOf(c, s) == c \in Commits /\ c.repo = RepoOf[s]

\* A graph in the cache, if there is one, is of its directory's commit.
Right(c) ==
    entry[c].graph # None =>
        /\ entry[c].graph.ours
        /\ entry[c].graph.commit = c
        /\ RepoOf[entry[c].graph.service] = c.repo

\* What says it is ours is beside a graph that is.
OursIsRight == \A c \in Commits : entry[c].meta # None /\ entry[c].meta.ours => Right(c)

\* A service is read from where the pool took it, and the pool takes it once.
TakenOnce(r, s) ==
    task[r][s].phase # "waiting" => \E i \in DOMAIN Of(r) : i < next[r] /\ Of(r)[i] = s

CheckedOut == {"reading", "put", "halfPut", "made", "unmade"}

\* There is a worktree of a process only once it is there, and while it runs it
\* is of the commit its service is read at.
WorktreeIsOfCommit(r, s) ==
    <<r, s>> \in checkouts =>
        /\ at[r] # "out"
        /\ Running(r) => task[r][s].phase \in CheckedOut /\ IsOf(task[r][s].commit, s)

CommitIsKnown(r, s) ==
    task[r][s].phase \in {"resolved", "halfGot", "missed", "put", "halfPut", "made"} =>
        IsOf(task[r][s].commit, s)

\* What has been read at a commit, and is to be kept, is of it.
ReadAtTheCommit(r, s) ==
    task[r][s].phase \in {"put", "halfPut", "made"} =>
        /\ task[r][s].graph \in Graphs
        /\ task[r][s].graph.service = s
        /\ task[r][s].graph.commit = task[r][s].commit
        /\ task[r][s].graph.ours

\* And so is what lies there between the two looks of a get, and between the
\* two renames of a put.
HalfIsRight(r, s) ==
    task[r][s].phase \in {"halfGot", "halfPut"} => Right(task[r][s].commit)

\* What has been received is right, where every service has a repository of its own.
Believed(r, s) ==
    OneRepositoryEach => \A i \in {1, 2} : got[r][i][s] # None =>
        /\ got[r][i][s].graph.service = s
        /\ got[r][i][s].graph.commit = got[r][i][s].commit
        /\ got[r][i][s].graph.ours

TaskRight(r, s) ==
    /\ TakenOnce(r, s)
    /\ WorktreeIsOfCommit(r, s)
    /\ CommitIsKnown(r, s)
    /\ ReadAtTheCommit(r, s)
    /\ HalfIsRight(r, s)
    /\ Believed(r, s)

CacheInv ==
    /\ Shapes
    /\ OursIsRight
    /\ \A r \in Runs, s \in Services : TaskRight(r, s)

-----------------------------------------------------------------------------
LEMMA InitCache == Init => CacheInv
<1> SUFFICES ASSUME Init PROVE CacheInv
  OBVIOUS
<1>1. task = [r \in Runs |-> Idle] /\ Waiting \in Tasks
  BY DEF Init, Tasks, Waiting, Phases, Ended
<1>2. \A r \in Runs, s \in Services : task[r][s].phase = "waiting"
  BY <1>1 DEF Idle, Waiting
<1>3. RefsTyped
  BY DEF Init, RefsTyped, Commits
<1>4. RunsTyped
  BY DEF Init, RunsTyped
<1>5. Shapes
  BY <1>1, <1>3, <1>4 DEF Init, Shapes, Idle, Nothing
<1>6. OursIsRight
  BY DEF Init, OursIsRight
<1>7. ASSUME NEW r \in Runs, NEW s \in Services PROVE TaskRight(r, s)
  <2>1. TakenOnce(r, s) /\ CommitIsKnown(r, s) /\ ReadAtTheCommit(r, s) /\ HalfIsRight(r, s)
    BY <1>2 DEF TakenOnce, CommitIsKnown, ReadAtTheCommit, HalfIsRight
  <2>2. WorktreeIsOfCommit(r, s) /\ Believed(r, s)
    BY DEF Init, WorktreeIsOfCommit, Believed, Nothing
  <2> QED
    BY <2>1, <2>2 DEF TaskRight
<1> QED
  BY <1>5, <1>6, <1>7 DEF CacheInv

-----------------------------------------------------------------------------
(***************************************************************************)
(* The reading of one service changes its own task only.                   *)
(***************************************************************************)

Elsewhere(r, s) ==
    \A q \in Runs, t \in Services : q # r \/ t # s => task'[q][t] = task[q][t]

LEMMA OnlyOne ==
    ASSUME Shapes, NEW r \in Runs, NEW s \in Services, NEW new \in Tasks,
           task' = [task EXCEPT ![r][s] = new]
    PROVE  /\ task' \in [Runs -> [Services -> Tasks]]
           /\ task'[r][s] = new
           /\ Elsewhere(r, s)
BY DEF Shapes, Elsewhere

\* One reading went on, and kept all else it had.
Moved(r, s, from, to) ==
    /\ Running(r)
    /\ task[r][s].phase = from
    /\ task[r][s] \in Tasks
    /\ task' \in [Runs -> [Services -> Tasks]]
    /\ task'[r][s].phase = to
    /\ task'[r][s].commit = task[r][s].commit
    /\ task'[r][s].graph = task[r][s].graph
    /\ Elsewhere(r, s)

LEMMA GoesOnlyThere ==
    ASSUME Shapes, NEW r \in Runs, NEW s \in Services, NEW from, NEW to \in Phases,
           Goes(r, s, from, to)
    PROVE  Moved(r, s, from, to)
<1> DEFINE new == [task[r][s] EXCEPT !.phase = to]
<1>1. task[r][s] \in Tasks
  BY DEF Shapes
<1>2. new \in Tasks /\ new.phase = to /\ new.commit = task[r][s].commit /\ new.graph = task[r][s].graph
  BY <1>1 DEF Tasks
<1>3. task' = [task EXCEPT ![r][s] = new]
  BY DEF Goes, Shapes
<1>4. Running(r) /\ task[r][s].phase = from
  BY DEF Goes
<1> HIDE DEF new
<1>5. /\ task' \in [Runs -> [Services -> Tasks]]
      /\ task'[r][s] = new
      /\ Elsewhere(r, s)
  BY <1>2, <1>3, OnlyOne
<1> QED
  BY <1>1, <1>2, <1>4, <1>5 DEF Moved

\* What a step of one reading has to show: nothing of the cache becomes wrong,
\* and its own service stays as it should be.
LEMMA OneReading ==
    ASSUME CacheInv, NEW r \in Runs, NEW s \in Services,
           Shapes', Elsewhere(r, s),
           UNCHANGED <<at, side, next>>,
           checkouts' \subseteq checkouts \union {<<r, s>>},
           \A c \in Commits : Right(c) => Right(c)',
           OursIsRight',
           \A q \in Runs, t \in Services : Believed(q, t)',
           task[r][s].phase # "waiting",
           WorktreeIsOfCommit(r, s)', CommitIsKnown(r, s)',
           ReadAtTheCommit(r, s)', HalfIsRight(r, s)'
    PROVE  CacheInv'
<1>1. ASSUME NEW q \in Runs, NEW t \in Services PROVE TaskRight(q, t)'
  <2>1. TaskRight(q, t)
    BY DEF CacheInv
  <2>2. TaskRight(r, s)
    BY DEF CacheInv
  <2>3. CASE q = r /\ t = s
    <3>1. TakenOnce(r, s)'
      BY <2>2 DEF TaskRight, TakenOnce, Of
    <3> QED
      BY <2>3, <3>1 DEF TaskRight
  <2>4. CASE q # r \/ t # s
    <3>1. task'[q][t] = task[q][t]
      BY <2>4 DEF Elsewhere
    <3>2. TakenOnce(q, t)'
      BY <2>1, <3>1 DEF TaskRight, TakenOnce, Of
    <3>3. WorktreeIsOfCommit(q, t)'
      BY <2>1, <2>4, <3>1 DEF TaskRight, WorktreeIsOfCommit, IsOf, Running
    <3>4. CommitIsKnown(q, t)'
      BY <2>1, <3>1 DEF TaskRight, CommitIsKnown, IsOf
    <3>5. ReadAtTheCommit(q, t)'
      BY <2>1, <3>1 DEF TaskRight, ReadAtTheCommit
    <3>6. HalfIsRight(q, t)'
      BY <2>1, <3>1 DEF TaskRight, HalfIsRight, CommitIsKnown, IsOf
    <3> QED
      BY <3>2, <3>3, <3>4, <3>5, <3>6 DEF TaskRight
  <2> QED
    BY <2>3, <2>4
<1> QED
  BY <1>1 DEF CacheInv

\* Where the cache is as it was, so is what is right of it.
LEMMA SameCache ==
    ASSUME CacheInv, UNCHANGED entry
    PROVE  OursIsRight' /\ \A c \in Commits : Right(c)' = Right(c)
BY DEF CacheInv, OursIsRight, Right

LEMMA SameBelieved ==
    ASSUME CacheInv, UNCHANGED got
    PROVE  \A q \in Runs, t \in Services : Believed(q, t)'
BY DEF CacheInv, TaskRight, Believed

\* A reading is received by one side of one run.
LEMMA OneReceived ==
    ASSUME CacheInv, NEW r \in Runs, NEW s \in Services, NEW reading \in Readings,
           got' = [got EXCEPT ![r][side[r]][s] = reading],
           OneRepositoryEach => reading.graph.service = s,
           reading.graph.commit = reading.commit, reading.graph.ours
    PROVE  /\ got' \in [Runs -> [{1, 2} -> [Services -> Readings \union {None}]]]
           /\ \A q \in Runs, t \in Services : Believed(q, t)'
<1>1. side[r] \in {1, 2} /\ got \in [Runs -> [{1, 2} -> [Services -> Readings \union {None}]]]
  BY DEF CacheInv, Shapes, RunsTyped
<1>2. got' \in [Runs -> [{1, 2} -> [Services -> Readings \union {None}]]]
  BY <1>1
<1>3. \A q \in Runs, t \in Services, i \in {1, 2} :
          got'[q][i][t] = IF q = r /\ t = s /\ i = side[r] THEN reading ELSE got[q][i][t]
  BY <1>1
<1>4. \A q \in Runs, t \in Services : Believed(q, t)
  BY DEF CacheInv, TaskRight
<1>5. \A q \in Runs, t \in Services : Believed(q, t)'
  BY <1>3, <1>4 DEF Believed
<1> QED
  BY <1>2, <1>5

-----------------------------------------------------------------------------
(***************************************************************************)
(* The steps of a reading.                                                 *)
(***************************************************************************)

LEMMA GetMetaKeeps ==
    ASSUME CacheInv, NEW r \in Runs, NEW s \in Services, GetMeta(r, s) PROVE CacheInv'
<1> DEFINE c == task[r][s].commit
<1> DEFINE to == IF Believes(r, s, entry[c].meta) THEN "halfGot" ELSE "missed"
<1>1. Shapes /\ TaskRight(r, s)
  BY DEF CacheInv
<1>2. Goes(r, s, "resolved", to) /\ to \in Phases
  BY DEF GetMeta, KeptUnder, Phases
<1> HIDE DEF to
<1>3. Moved(r, s, "resolved", to)
  BY <1>1, <1>2, GoesOnlyThere
<1>4. IsOf(c, s) /\ <<r, s>> \notin checkouts
  BY <1>1, <1>3 DEF Moved, TaskRight, CommitIsKnown, WorktreeIsOfCommit, CheckedOut
<1>5. UNCHANGED <<refs, installed, entry, at, side, next, got, events, checkouts>>
  BY DEF GetMeta, world, run, left
<1>6. Shapes'
  BY <1>1, <1>3, <1>5 DEF Moved, Shapes, RefsTyped, RunsTyped
<1>7. WorktreeIsOfCommit(r, s)' /\ CommitIsKnown(r, s)' /\ ReadAtTheCommit(r, s)'
  BY <1>3, <1>4, <1>5 DEF Moved, to, WorktreeIsOfCommit, CommitIsKnown, ReadAtTheCommit, IsOf
<1>8. to = "halfGot" => Right(c)
  BY <1>4 DEF to, Believes, IsOf, CacheInv, OursIsRight
<1>9. OursIsRight' /\ \A x \in Commits : Right(x)' = Right(x)
  BY <1>5, SameCache
<1>10. HalfIsRight(r, s)'
  BY <1>3, <1>4, <1>5, <1>8 DEF Moved, to, HalfIsRight, IsOf, Right
<1>11. \A q \in Runs, t \in Services : Believed(q, t)'
  BY <1>5, SameBelieved
<1> QED
  BY <1>3, <1>5, <1>6, <1>7, <1>9, <1>10, <1>11, OneReading DEF Moved

LEMMA GetGraphKeeps ==
    ASSUME CacheInv, NEW r \in Runs, NEW s \in Services, GetGraph(r, s) PROVE CacheInv'
<1>1. Shapes /\ TaskRight(r, s)
  BY DEF CacheInv
<1>2. PICK to \in Phases : to \in {"missed", "done"} /\ Goes(r, s, "halfGot", to)
  BY DEF GetGraph, KeptUnder, Phases, Ended
<1>3. Moved(r, s, "halfGot", to)
  BY <1>1, <1>2, GoesOnlyThere
<1> DEFINE c == task[r][s].commit
<1> DEFINE found == entry[c].graph
<1>4. IsOf(c, s) /\ <<r, s>> \notin checkouts /\ Right(c)
  BY <1>1, <1>3 DEF Moved, TaskRight, CommitIsKnown, WorktreeIsOfCommit, CheckedOut, HalfIsRight
<1>5. UNCHANGED <<refs, installed, entry, at, side, next, events, checkouts>>
  BY DEF GetGraph, world, left
<1>6. WorktreeIsOfCommit(r, s)' /\ CommitIsKnown(r, s)' /\ ReadAtTheCommit(r, s)'
  BY <1>2, <1>3, <1>4, <1>5 DEF Moved, WorktreeIsOfCommit, CommitIsKnown, ReadAtTheCommit, IsOf
<1>7. HalfIsRight(r, s)'
  BY <1>2, <1>3 DEF Moved, HalfIsRight
<1>8. OursIsRight' /\ \A x \in Commits : Right(x)' = Right(x)
  BY <1>5, SameCache
<1>9. /\ got' \in [Runs -> [{1, 2} -> [Services -> Readings \union {None}]]]
       /\ \A q \in Runs, t \in Services : Believed(q, t)'
  <2>1. CASE found = None
    <3>1. got' = got
      BY <2>1 DEF GetGraph, KeptUnder
    <3> QED
      BY <1>1, <3>1, SameBelieved DEF Shapes
  <2>2. CASE found # None
    <3> DEFINE reading == [graph |-> found, commit |-> c, cached |-> TRUE]
    <3>1. found \in Graphs /\ found.ours /\ found.commit = c /\ RepoOf[found.service] = RepoOf[s]
      BY <1>1, <1>4, <2>2 DEF Right, IsOf, Shapes, Entries
    <3>2. OneRepositoryEach => found.service = s
      BY <3>1 DEF OneRepositoryEach, Graphs
    <3>3. reading \in Readings /\ (OneRepositoryEach => reading.graph.service = s)
          /\ reading.graph.commit = reading.commit /\ reading.graph.ours
      BY <1>4, <3>1, <3>2 DEF Readings, IsOf
    <3>4. got' = [got EXCEPT ![r][side[r]][s] = reading]
      BY <2>2 DEF GetGraph, KeptUnder
    <3> HIDE DEF reading
    <3> QED
      BY <3>3, <3>4, OneReceived
  <2> QED
    BY <2>1, <2>2
<1>10. Shapes'
  BY <1>1, <1>3, <1>5, <1>9 DEF Moved, Shapes, RefsTyped, RunsTyped
<1> QED
  BY <1>3, <1>5, <1>6, <1>7, <1>8, <1>9, <1>10, OneReading DEF Moved

LEMMA AddWorktreeKeeps ==
    ASSUME CacheInv, NEW r \in Runs, NEW s \in Services, AddWorktree(r, s) PROVE CacheInv'
<1> DEFINE missing == installed[RepoOf[s]] = 0
<1> DEFINE new == [task[r][s] EXCEPT !.phase = "reading", !.missing = missing]
<1>1. Shapes /\ TaskRight(r, s) /\ task[r][s] \in Tasks
  BY DEF CacheInv, Shapes
<1>2. Running(r) /\ task[r][s].phase = "missed" /\ IsOf(task[r][s].commit, s)
  BY <1>1 DEF AddWorktree, TaskRight, CommitIsKnown
<1>3. missing \in BOOLEAN
  OBVIOUS
<1> HIDE DEF missing
<1>4. new \in Tasks /\ new.phase = "reading" /\ new.commit = task[r][s].commit
  BY <1>1, <1>3 DEF Tasks, Phases, Ended
<1>5. task' = [task EXCEPT ![r][s] = new]
  BY <1>1 DEF AddWorktree, missing, Shapes
<1> HIDE DEF new
<1>6. /\ task' \in [Runs -> [Services -> Tasks]]
      /\ task'[r][s] = new
      /\ Elsewhere(r, s)
  BY <1>1, <1>4, <1>5, OnlyOne
<1>7. /\ UNCHANGED <<refs, installed, entry, at, side, next, got, events>>
      /\ checkouts' = checkouts \union {<<r, s>>}
  BY DEF AddWorktree, world, run
<1>8. Shapes'
  BY <1>1, <1>6, <1>7 DEF Shapes, RefsTyped, RunsTyped
<1>9. WorktreeIsOfCommit(r, s)' /\ CommitIsKnown(r, s)' /\ ReadAtTheCommit(r, s)' /\ HalfIsRight(r, s)'
  BY <1>2, <1>4, <1>6, <1>7 DEF WorktreeIsOfCommit, Running, CheckedOut, CommitIsKnown,
     ReadAtTheCommit, HalfIsRight, IsOf
<1>10. OursIsRight' /\ \A x \in Commits : Right(x)' = Right(x)
  BY <1>7, SameCache
<1>11. \A q \in Runs, t \in Services : Believed(q, t)'
  BY <1>7, SameBelieved
<1> QED
  BY <1>2, <1>6, <1>7, <1>8, <1>9, <1>10, <1>11, OneReading

LEMMA BreaksKeeps ==
    ASSUME CacheInv, NEW r \in Runs, NEW s \in Services, Breaks(r, s) PROVE CacheInv'
<1>1. Shapes /\ TaskRight(r, s)
  BY DEF CacheInv
<1>2. PICK from \in {"reading", "missed"}, to \in {"unmade", "failed"} :
          /\ Goes(r, s, from, to) /\ to \in Phases
          /\ from = "reading" /\ <<r, s>> \in checkouts => to = "unmade"
  <2>1. CASE Goes(r, s, "reading", AfterAFailure(r, s))
    <3>1. AfterAFailure(r, s) \in {"unmade", "failed"}
          /\ (<<r, s>> \in checkouts => AfterAFailure(r, s) = "unmade")
      BY DEF AfterAFailure
    <3> QED
      BY <2>1, <3>1 DEF Phases, Ended
  <2>2. CASE Goes(r, s, "missed", "failed")
    BY <2>2 DEF Phases, Ended
  <2> QED
    BY <2>1, <2>2 DEF Breaks
<1>3. Moved(r, s, from, to)
  BY <1>1, <1>2, GoesOnlyThere
<1>4. UNCHANGED <<refs, installed, entry, at, side, next, got, checkouts>>
  BY DEF Breaks, world, run, left
<1>5. Shapes'
  <2>1. RefsTyped'
    <3>1. events' \in 0 .. MaxEvents /\ events <= events'
      BY <1>1 DEF Breaks, Event, Shapes, RefsTyped
    <3> QED
      BY <1>1, <1>4, <3>1 DEF Shapes, RefsTyped, Commits
  <2> QED
    BY <1>1, <1>3, <1>4, <2>1 DEF Moved, Shapes, RunsTyped
<1>6. WorktreeIsOfCommit(r, s)' /\ CommitIsKnown(r, s)' /\ ReadAtTheCommit(r, s)' /\ HalfIsRight(r, s)'
  BY <1>1, <1>2, <1>3, <1>4 DEF Moved, TaskRight, WorktreeIsOfCommit, CheckedOut, CommitIsKnown,
     ReadAtTheCommit, HalfIsRight, IsOf
<1>7. OursIsRight' /\ \A x \in Commits : Right(x)' = Right(x)
  BY <1>4, SameCache
<1>8. \A q \in Runs, t \in Services : Believed(q, t)'
  BY <1>4, SameBelieved
<1> QED
  BY <1>3, <1>4, <1>5, <1>6, <1>7, <1>8, OneReading DEF Moved

LEMMA FinishKeeps ==
    ASSUME CacheInv, NEW r \in Runs, NEW s \in Services, Finish(r, s) PROVE CacheInv'
<1> DEFINE there == <<r, s>> \in checkouts
<1> DEFINE read == GraphOf(r, s)
<1>1. Shapes /\ TaskRight(r, s) /\ task[r][s] \in Tasks
  BY DEF CacheInv, Shapes
<1>2. task[r][s].phase = "reading" /\ Running(r) /\ (there => IsOf(task[r][s].commit, s))
  BY <1>1 DEF Finish, TaskRight, WorktreeIsOfCommit
<1>3. installed[RepoOf[s]] \in 0 .. MaxEvents /\ 0 \in 0 .. MaxEvents
  <2>1. installed[RepoOf[s]] \in 0 .. events /\ events \in 0 .. MaxEvents
    BY <1>1 DEF Shapes, RefsTyped, Repos
  <2> QED
    BY <2>1
<1>4. /\ read \in Graphs /\ read.service = s /\ read.ours
      /\ read.commit = IF there THEN task[r][s].commit ELSE Tree
  BY <1>2, <1>3 DEF GraphOf, Graphs, IsOf
<1>5. UNCHANGED <<refs, installed, entry, at, side, next, events, checkouts>>
  BY DEF Finish, world
<1> HIDE DEF read
<1>6. OursIsRight' /\ \A x \in Commits : Right(x)' = Right(x)
  BY <1>5, SameCache
<1>7. CASE there
  <2> DEFINE new == [task[r][s] EXCEPT !.phase = "put", !.graph = read]
  <2>1. new \in Tasks /\ new.phase = "put" /\ new.commit = task[r][s].commit /\ new.graph = read
    BY <1>1, <1>4 DEF Tasks, Phases, Ended
  <2>2. task' = [task EXCEPT ![r][s] = new] /\ got' = got
    <3>1. /\ task' = [task EXCEPT ![r][s].phase = "put", ![r][s].graph = read]
          /\ got' = got
      BY <1>7 DEF Finish, read
    <3>2. task \in [Runs -> [Services -> Tasks]]
      BY <1>1 DEF Shapes
    <3>3. task' = [task EXCEPT ![r] = [task[r] EXCEPT ![s] = new]]
      BY <3>1, <3>2 DEF Tasks
    <3> QED
      BY <3>1, <3>2, <3>3
  <2> HIDE DEF new
  <2>3. /\ task' \in [Runs -> [Services -> Tasks]]
        /\ task'[r][s] = new
        /\ Elsewhere(r, s)
    BY <1>1, <2>1, <2>2, OnlyOne
  <2>4. Shapes'
    BY <1>1, <1>5, <2>2, <2>3 DEF Shapes, RefsTyped, RunsTyped
  <2>5. WorktreeIsOfCommit(r, s)' /\ CommitIsKnown(r, s)' /\ HalfIsRight(r, s)'
    BY <1>2, <1>5, <1>7, <2>1, <2>3 DEF WorktreeIsOfCommit, Running, CheckedOut, CommitIsKnown, HalfIsRight, IsOf
  <2>6. ReadAtTheCommit(r, s)'
    BY <1>4, <1>7, <2>1, <2>3 DEF ReadAtTheCommit
  <2>7. \A q \in Runs, t \in Services : Believed(q, t)'
    BY <2>2, SameBelieved
  <2> QED
    BY <1>2, <1>5, <1>6, <2>3, <2>4, <2>5, <2>6, <2>7, OneReading
<1>8. CASE ~there
  <2> DEFINE new == [task[r][s] EXCEPT !.phase = "done"]
  <2> DEFINE reading == [graph |-> read, commit |-> Tree, cached |-> FALSE]
  <2>1. new \in Tasks /\ new.phase = "done"
    BY <1>1 DEF Tasks, Phases, Ended
  <2>2. task' = [task EXCEPT ![r][s] = new]
    BY <1>1, <1>8 DEF Finish, Shapes
  <2> HIDE DEF new
  <2>3. /\ task' \in [Runs -> [Services -> Tasks]]
        /\ task'[r][s] = new
        /\ Elsewhere(r, s)
    BY <1>1, <2>1, <2>2, OnlyOne
  <2>4. reading \in Readings /\ reading.graph.service = s
        /\ reading.graph.commit = reading.commit /\ reading.graph.ours
    BY <1>4, <1>8 DEF Readings
  <2>5. got' = [got EXCEPT ![r][side[r]][s] = reading]
    BY <1>8 DEF Finish, read
  <2> HIDE DEF reading
  <2>6. /\ got' \in [Runs -> [{1, 2} -> [Services -> Readings \union {None}]]]
        /\ \A q \in Runs, t \in Services : Believed(q, t)'
    BY <2>4, <2>5, OneReceived
  <2>7. Shapes'
    BY <1>1, <1>5, <2>3, <2>6 DEF Shapes, RefsTyped, RunsTyped
  <2>8. WorktreeIsOfCommit(r, s)'
    BY <1>5, <1>8 DEF WorktreeIsOfCommit
  <2>9. CommitIsKnown(r, s)' /\ ReadAtTheCommit(r, s)' /\ HalfIsRight(r, s)'
    BY <2>1, <2>3 DEF CommitIsKnown, ReadAtTheCommit, HalfIsRight
  <2> QED
    BY <1>2, <1>5, <1>6, <2>3, <2>6, <2>7, <2>8, <2>9, OneReading
<1> QED
  BY <1>7, <1>8

LEMMA PutFirstKeeps ==
    ASSUME CacheInv, NEW r \in Runs, NEW s \in Services, PutFirst(r, s) PROVE CacheInv'
<1> DEFINE c == task[r][s].commit
<1>1. Shapes /\ TaskRight(r, s)
  BY DEF CacheInv
<1>2. Moved(r, s, "put", "halfPut")
  <2>1. Goes(r, s, "put", "halfPut") /\ "halfPut" \in Phases
    BY DEF PutFirst, Phases
  <2> QED
    BY <1>1, <2>1, GoesOnlyThere
<1>3. IsOf(c, s)
  BY <1>1, <1>2 DEF Moved, TaskRight, CommitIsKnown
<1>4. /\ task[r][s].graph \in Graphs
      /\ task[r][s].graph.service = s
      /\ task[r][s].graph.commit = c
      /\ task[r][s].graph.ours
  BY <1>1, <1>2 DEF Moved, TaskRight, ReadAtTheCommit
<1>5. UNCHANGED <<refs, installed, at, side, next, got, events, checkouts>>
  BY DEF PutFirst, world, run, left
<1>6. /\ entry[c] \in Entries
      /\ entry' = [entry EXCEPT ![c] = [dir |-> TRUE, graph |-> task[r][s].graph, meta |-> entry[c].meta]]
  BY <1>1, <1>3 DEF PutFirst, KeptUnder, FirstPut, With, Shapes, IsOf
<1>7. /\ entry' \in [Commits -> Entries]
      /\ \A x \in Commits : x # c => entry'[x] = entry[x]
      /\ entry'[c].graph = task[r][s].graph /\ entry'[c].meta = entry[c].meta
  BY <1>1, <1>3, <1>4, <1>6 DEF Shapes, Entries, IsOf
<1>8. \A x \in Commits : (Right(x) => Right(x)') /\ (x = c => Right(x)')
  BY <1>3, <1>4, <1>7 DEF Right, IsOf
<1>9. OursIsRight'
  BY <1>3, <1>7, <1>8 DEF CacheInv, OursIsRight, IsOf
<1>10. Shapes'
  BY <1>1, <1>2, <1>5, <1>7 DEF Moved, Shapes, RefsTyped, RunsTyped
<1>11. WorktreeIsOfCommit(r, s)' /\ CommitIsKnown(r, s)'
  BY <1>2, <1>3, <1>5 DEF Moved, WorktreeIsOfCommit, Running, CheckedOut, CommitIsKnown, IsOf
<1>12. ReadAtTheCommit(r, s)'
  BY <1>2, <1>4 DEF Moved, ReadAtTheCommit
<1>13. HalfIsRight(r, s)'
  BY <1>2, <1>3, <1>8 DEF Moved, HalfIsRight, IsOf, Right
<1>14. \A q \in Runs, t \in Services : Believed(q, t)'
  BY <1>5, SameBelieved
<1>15. Elsewhere(r, s) /\ task[r][s].phase # "waiting"
  BY <1>2 DEF Moved
<1> QED
  BY <1>5, <1>8, <1>9, <1>10, <1>11, <1>12, <1>13, <1>14, <1>15, OneReading

LEMMA PutSecondKeeps ==
    ASSUME CacheInv, NEW r \in Runs, NEW s \in Services, PutSecond(r, s) PROVE CacheInv'
<1> DEFINE c == task[r][s].commit
<1>1. Shapes /\ TaskRight(r, s)
  BY DEF CacheInv
<1>2. PICK to \in Phases : to \in {"made", "unmade"} /\ Goes(r, s, "halfPut", to)
  BY DEF PutSecond, Phases
<1>3. Moved(r, s, "halfPut", to)
  BY <1>1, <1>2, GoesOnlyThere
<1>4. IsOf(c, s) /\ Right(c)
  BY <1>1, <1>3 DEF Moved, TaskRight, CommitIsKnown, HalfIsRight
<1>5. UNCHANGED <<refs, installed, at, side, next, got, events, checkouts>>
  BY DEF PutSecond, world, run, left
<1>6. /\ entry' \in [Commits -> Entries]
      /\ \A x \in Commits : x # c => entry'[x] = entry[x]
      /\ entry'[c].graph = entry[c].graph
  <2>1. CASE ~entry[c].dir
    BY <1>1, <1>4, <2>1 DEF PutSecond, KeptUnder, Shapes
  <2>2. CASE entry[c].dir
    <3> DEFINE new == [dir |-> TRUE, graph |-> entry[c].graph, meta |-> MetaOf(r, s)]
    <3>1. entry[c] \in Entries /\ task[r][s] \in Tasks
      BY <1>1, <1>4 DEF Shapes, IsOf
    <3>2. MetaOf(r, s) \in Metas
      BY <3>1 DEF MetaOf, Metas, Tasks
    <3>3. new \in Entries /\ new.graph = entry[c].graph
      BY <3>1, <3>2 DEF Entries
    <3>4. entry' = [entry EXCEPT ![c] = new]
      BY <1>1, <1>4, <2>2 DEF PutSecond, KeptUnder, FirstPut, With, Shapes, IsOf
    <3> HIDE DEF new
    <3> QED
      BY <1>1, <1>4, <3>3, <3>4 DEF Shapes, IsOf
  <2> QED
    BY <2>1, <2>2
<1>7. \A x \in Commits : (Right(x) => Right(x)') /\ (x = c => Right(x)')
  BY <1>4, <1>6 DEF Right, IsOf
<1>8. OursIsRight'
  BY <1>4, <1>6, <1>7 DEF CacheInv, OursIsRight, IsOf
<1>9. Shapes'
  BY <1>1, <1>3, <1>5, <1>6 DEF Moved, Shapes, RefsTyped, RunsTyped
<1>10. WorktreeIsOfCommit(r, s)' /\ CommitIsKnown(r, s)'
  BY <1>2, <1>3, <1>4, <1>5 DEF Moved, WorktreeIsOfCommit, Running, CheckedOut, CommitIsKnown, IsOf
<1>11. ReadAtTheCommit(r, s)'
  BY <1>1, <1>2, <1>3 DEF Moved, TaskRight, ReadAtTheCommit
<1>12. HalfIsRight(r, s)'
  BY <1>2, <1>3 DEF Moved, HalfIsRight
<1>13. \A q \in Runs, t \in Services : Believed(q, t)'
  BY <1>5, SameBelieved
<1>14. Elsewhere(r, s) /\ task[r][s].phase # "waiting"
  BY <1>3 DEF Moved
<1> QED
  BY <1>5, <1>7, <1>8, <1>9, <1>10, <1>11, <1>12, <1>13, <1>14, OneReading

LEMMA RemoveWorktreeKeeps ==
    ASSUME CacheInv, NEW r \in Runs, NEW s \in Services, RemoveWorktree(r, s) PROVE CacheInv'
<1>1. Shapes /\ TaskRight(r, s)
  BY DEF CacheInv
<1>2. UNCHANGED <<refs, installed, entry, at, side, next, events>>
  BY DEF RemoveWorktree, world
<1>3. checkouts' = checkouts \ {<<r, s>>}
  BY DEF RemoveWorktree
<1>4. OursIsRight' /\ \A x \in Commits : Right(x)' = Right(x)
  BY <1>2, SameCache
<1>5. WorktreeIsOfCommit(r, s)'
  BY <1>3 DEF WorktreeIsOfCommit
<1>6. CASE Goes(r, s, "unmade", "failed") /\ UNCHANGED got
  <2>1. Moved(r, s, "unmade", "failed")
    <3>1. "failed" \in Phases
      BY DEF Phases, Ended
    <3> QED
      BY <1>1, <1>6, <3>1, GoesOnlyThere
  <2>2. Shapes'
    BY <1>1, <1>2, <1>3, <1>6, <2>1 DEF Moved, Shapes, RefsTyped, RunsTyped
  <2>3. CommitIsKnown(r, s)' /\ ReadAtTheCommit(r, s)' /\ HalfIsRight(r, s)'
    BY <2>1 DEF Moved, CommitIsKnown, ReadAtTheCommit, HalfIsRight
  <2>4. \A q \in Runs, t \in Services : Believed(q, t)'
    BY <1>6, SameBelieved
  <2>5. Elsewhere(r, s) /\ task[r][s].phase # "waiting"
    BY <2>1 DEF Moved
  <2> QED
    BY <1>2, <1>3, <1>4, <1>5, <2>2, <2>3, <2>4, <2>5, OneReading
<1>7. CASE /\ Goes(r, s, "made", "done")
           /\ got' = [got EXCEPT ![r][side[r]][s] =
                         [graph |-> task[r][s].graph, commit |-> task[r][s].commit, cached |-> FALSE]]
  <2> DEFINE reading == [graph |-> task[r][s].graph, commit |-> task[r][s].commit, cached |-> FALSE]
  <2>1. Moved(r, s, "made", "done")
    <3>1. "done" \in Phases
      BY DEF Phases, Ended
    <3> QED
      BY <1>1, <1>7, <3>1, GoesOnlyThere
  <2>2. IsOf(task[r][s].commit, s) /\ task[r][s].graph \in Graphs
        /\ task[r][s].graph.service = s /\ task[r][s].graph.ours
        /\ task[r][s].graph.commit = task[r][s].commit
    BY <1>1, <2>1 DEF Moved, TaskRight, CommitIsKnown, ReadAtTheCommit
  <2>3. reading \in Readings /\ reading.graph.service = s
        /\ reading.graph.commit = reading.commit /\ reading.graph.ours
    BY <2>2 DEF Readings, IsOf
  <2>4. got' = [got EXCEPT ![r][side[r]][s] = reading]
    BY <1>7
  <2> HIDE DEF reading
  <2>5. /\ got' \in [Runs -> [{1, 2} -> [Services -> Readings \union {None}]]]
        /\ \A q \in Runs, t \in Services : Believed(q, t)'
    BY <2>3, <2>4, OneReceived
  <2>6. Shapes'
    BY <1>1, <1>2, <1>3, <2>1, <2>5 DEF Moved, Shapes, RefsTyped, RunsTyped
  <2>7. CommitIsKnown(r, s)' /\ ReadAtTheCommit(r, s)' /\ HalfIsRight(r, s)'
    BY <2>1 DEF Moved, CommitIsKnown, ReadAtTheCommit, HalfIsRight
  <2>8. Elsewhere(r, s) /\ task[r][s].phase # "waiting"
    BY <2>1 DEF Moved
  <2> QED
    BY <1>2, <1>3, <1>4, <1>5, <2>5, <2>6, <2>7, <2>8, OneReading
<1> QED
  BY <1>6, <1>7 DEF RemoveWorktree

-----------------------------------------------------------------------------
(***************************************************************************)
(* The repositories, and the steps of a run.                               *)
(***************************************************************************)

LEMMA WorldKeeps == CacheInv /\ World => CacheInv'
<1> SUFFICES ASSUME CacheInv, World PROVE CacheInv'
  OBVIOUS
<1>1. Shapes
  BY DEF CacheInv
<1>2. /\ UNCHANGED <<at, side, next, got, task, checkouts>>
      /\ events' \in 0 .. MaxEvents /\ events < events'
  BY <1>1 DEF World, MoveRef, Install, Prune, Event, run, left, Shapes, RefsTyped
<1>3. RefsTyped'
  <2> USE <1>2
  <2>1. /\ \A x \in 0 .. events : x \in 0 .. events' /\ (events' = events + 1 => x + 1 \in 0 .. events')
        /\ \A c \in Commits : c.n <= events => c.n <= events'
    BY <1>1 DEF Shapes, RefsTyped, Commits
  <2>2. RefsTyped
    BY <1>1 DEF Shapes
  <2>3. \A repo \in Repos, ref \in Refs : refs[repo][ref] # NoCommit => refs[repo][ref] \in Commits
    BY <2>2 DEF RefsTyped
  <2>4. refs' = refs /\ installed' \in [Repos -> 0 .. events'] => RefsTyped'
    BY <2>1, <2>2, <2>3 DEF RefsTyped
  <2>5. installed \in [Repos -> 0 .. events]
    BY <2>2 DEF RefsTyped
  <2>6. CASE UNCHANGED world
    BY <2>1, <2>6, <2>4, <2>5 DEF world
  <2>7. ASSUME NEW repo \in Repos, Install(repo) PROVE RefsTyped'
    BY <2>1, <2>7, <2>4, <2>5 DEF Install, Event
  <2>8. ASSUME NEW repo \in Repos, NEW ref \in Refs, MoveRef(repo, ref) PROVE RefsTyped'
    <3> DEFINE n == IF refs[repo][ref] = NoCommit THEN 0 ELSE refs[repo][ref].n + 1
    <3> DEFINE c == [repo |-> repo, n |-> n]
    <3>1. n \in 0 .. events'
      BY <1>1, <1>2, <2>8 DEF MoveRef, Event, Shapes, RefsTyped, Commits
    <3> HIDE DEF n
    <3>2. c \in Commits /\ c.repo = repo /\ c.n <= events'
      BY <1>2, <3>1 DEF Commits
    <3>3. refs' = [refs EXCEPT ![repo][ref] = c] /\ installed' = installed
      BY <2>8 DEF MoveRef, n
    <3> HIDE DEF c
    <3> QED
      BY <1>1, <1>2, <3>2, <3>3 DEF Shapes, RefsTyped, Commits
  <2> QED
    BY <2>6, <2>7, <2>8 DEF World, Prune
<1>4. /\ entry' \in [Commits -> Entries]
      /\ \A c \in Commits : Right(c) => Right(c)'
      /\ OursIsRight'
  <2>1. CASE UNCHANGED entry
    BY <1>1, <2>1, SameCache DEF Shapes
  <2>2. ASSUME NEW c \in Commits, Prune(c)
        PROVE  /\ entry' \in [Commits -> Entries]
               /\ \A x \in Commits : Right(x) => Right(x)'
               /\ OursIsRight'
    <3>1. entry[c] \in Entries
      BY <1>1 DEF Shapes
    <3>2. PICK new \in Entries :
              /\ entry' = [entry EXCEPT ![c] = new]
              /\ new.graph \in {None, entry[c].graph}
              /\ new.meta \in {None, entry[c].meta}
      <4>1. CASE entry' = [entry EXCEPT ![c].graph = None]
        <5> DEFINE new == [entry[c] EXCEPT !.graph = None]
        <5>1. new \in Entries /\ new.graph = None /\ new.meta = entry[c].meta
          BY <3>1 DEF Entries
        <5>2. entry' = [entry EXCEPT ![c] = new]
          BY <1>1, <4>1 DEF Shapes
        <5> QED
          BY <5>1, <5>2
      <4>2. CASE entry' = [entry EXCEPT ![c].meta = None]
        <5> DEFINE new == [entry[c] EXCEPT !.meta = None]
        <5>1. new \in Entries /\ new.graph = entry[c].graph /\ new.meta = None
          BY <3>1 DEF Entries
        <5>2. entry' = [entry EXCEPT ![c] = new]
          BY <1>1, <4>2 DEF Shapes
        <5> QED
          BY <5>1, <5>2
      <4>3. CASE entry' = [entry EXCEPT ![c] = NoEntry]
        <5>1. NoEntry \in Entries /\ NoEntry.graph = None /\ NoEntry.meta = None
          BY DEF NoEntry, Entries
        <5> QED
          BY <4>3, <5>1
      <4> QED
        BY <2>2, <4>1, <4>2, <4>3 DEF Prune
    <3>3. /\ entry' \in [Commits -> Entries]
          /\ entry'[c] = new
          /\ \A x \in Commits : x # c => entry'[x] = entry[x]
      BY <1>1, <3>2 DEF Shapes
    <3>4. \A x \in Commits : Right(x) => Right(x)'
      BY <3>2, <3>3 DEF Right
    <3> QED
      BY <3>2, <3>3, <3>4 DEF CacheInv, OursIsRight
  <2> QED
    BY <2>1, <2>2 DEF World, Install, MoveRef
<1>5. Shapes'
  BY <1>1, <1>2, <1>3, <1>4 DEF Shapes, RunsTyped
<1>6. ASSUME NEW q \in Runs, NEW t \in Services PROVE TaskRight(q, t)'
  <2>1. TaskRight(q, t)
    BY DEF CacheInv
  <2>2. TakenOnce(q, t)'
    BY <1>2, <2>1 DEF TaskRight, TakenOnce, Of
  <2>3. WorktreeIsOfCommit(q, t)' /\ CommitIsKnown(q, t)'
    BY <1>2, <2>1 DEF TaskRight, WorktreeIsOfCommit, Running, CommitIsKnown, IsOf
  <2>4. ReadAtTheCommit(q, t)'
    BY <1>2, <2>1 DEF TaskRight, ReadAtTheCommit
  <2>5. HalfIsRight(q, t)'
    BY <1>2, <1>4, <2>1 DEF TaskRight, HalfIsRight, CommitIsKnown, IsOf
  <2>6. Believed(q, t)'
    BY <1>2, <2>1 DEF TaskRight, Believed
  <2> QED
    BY <2>2, <2>3, <2>4, <2>5, <2>6 DEF TaskRight
<1> QED
  BY <1>4, <1>5, <1>6 DEF CacheInv

\* What a step of one run has to show.
LEMMA OneRun ==
    ASSUME CacheInv, NEW r \in Runs,
           Shapes', UNCHANGED <<entry, checkouts>>,
           \A q \in Runs : q # r => /\ task'[q] = task[q]
                                    /\ at'[q] = at[q]
                                    /\ side'[q] = side[q]
                                    /\ next'[q] = next[q]
                                    /\ got'[q] = got[q],
           \A s \in Services : TaskRight(r, s)'
    PROVE  CacheInv'
<1>1. ASSUME NEW q \in Runs, q # r, NEW t \in Services PROVE TaskRight(q, t)'
  <2>1. TaskRight(q, t)
    BY DEF CacheInv
  <2>2. TakenOnce(q, t)'
    BY <1>1, <2>1 DEF TaskRight, TakenOnce, Of
  <2>3. WorktreeIsOfCommit(q, t)' /\ CommitIsKnown(q, t)'
    BY <1>1, <2>1 DEF TaskRight, WorktreeIsOfCommit, Running, CommitIsKnown, IsOf
  <2>4. ReadAtTheCommit(q, t)'
    BY <1>1, <2>1 DEF TaskRight, ReadAtTheCommit
  <2>5. HalfIsRight(q, t)'
    BY <1>1, <2>1 DEF TaskRight, HalfIsRight, Right
  <2>6. Believed(q, t)'
    BY <1>1, <2>1 DEF TaskRight, Believed
  <2> QED
    BY <2>2, <2>3, <2>4, <2>5, <2>6 DEF TaskRight
<1>2. OursIsRight'
  BY SameCache
<1> QED
  BY <1>1, <1>2 DEF CacheInv

\* A run that holds nothing is in order.
LEMMA NothingHeld ==
    ASSUME NEW r \in Runs, NEW s \in Services,
           task'[r][s].phase = "waiting", Believed(r, s)',
           <<r, s>> \in checkouts' => at'[r] # "out" /\ ~Running(r)'
    PROVE  TaskRight(r, s)'
BY DEF TaskRight, TakenOnce, WorktreeIsOfCommit, CommitIsKnown, ReadAtTheCommit, HalfIsRight

LEMMA IdleTyped == Waiting \in Tasks /\ Waiting.phase = "waiting" /\ Idle \in [Services -> Tasks]
                   /\ \A s \in Services : Idle[s].phase = "waiting"
<1>1. Waiting \in Tasks /\ Waiting.phase = "waiting"
  BY DEF Waiting, Tasks, Phases, Ended
<1> QED
  BY <1>1 DEF Idle

LEMMA StartKeeps ==
    ASSUME CacheInv, NEW r \in Runs, Start(r) \/ SideFails(r) PROVE CacheInv'
<1>1. Shapes
  BY DEF CacheInv
<1>2. UNCHANGED <<refs, installed, entry, side, next, got, task, events, checkouts>>
  BY DEF Start, SideFails, world
<1>3. \/ at[r] = "out" /\ at' = [at EXCEPT ![r] = "reading"]
      \/ at[r] = "reading" /\ at' = [at EXCEPT ![r] = "failing"]
  <2>1. CASE Start(r)
    BY <2>1 DEF Start
  <2>2. CASE SideFails(r)
    BY <2>2 DEF SideFails
  <2> QED
    BY <2>1, <2>2
<1>4. Shapes'
  BY <1>1, <1>2, <1>3 DEF Shapes, RefsTyped, RunsTyped
<1>5. \A q \in Runs : q # r => at'[q] = at[q]
  BY <1>1, <1>3 DEF Shapes, RunsTyped
<1>6. at'[r] # "out"
  BY <1>1, <1>3 DEF Shapes, RunsTyped
<1>7. ASSUME NEW s \in Services PROVE TaskRight(r, s)'
  <2>1. TaskRight(r, s)
    BY DEF CacheInv
  <2>2. WorktreeIsOfCommit(r, s)'
    BY <1>2, <1>3, <1>6, <2>1 DEF TaskRight, WorktreeIsOfCommit, Running, IsOf
  <2>3. TakenOnce(r, s)' /\ CommitIsKnown(r, s)' /\ ReadAtTheCommit(r, s)'
    BY <1>2, <2>1 DEF TaskRight, TakenOnce, Of, CommitIsKnown, IsOf, ReadAtTheCommit
  <2>4. HalfIsRight(r, s)' /\ Believed(r, s)'
    BY <1>2, <2>1 DEF TaskRight, HalfIsRight, Right, Believed
  <2> QED
    BY <2>2, <2>3, <2>4 DEF TaskRight
<1> QED
  BY <1>2, <1>4, <1>5, <1>7, OneRun

LEMMA GoneKeeps ==
    ASSUME CacheInv, NEW r \in Runs, Exit(r) \/ Kill(r) PROVE CacheInv'
<1>1. Shapes
  BY DEF CacheInv
<1>2. UNCHANGED <<refs, installed, entry, checkouts>>
  BY DEF Exit, Kill, world, left
<1>3. PICK how \in {"failed", "killed"} : IsGone(r, how)
  BY DEF Exit, Kill
<1>4. events \in 0 .. MaxEvents /\ events' \in 0 .. MaxEvents /\ events <= events'
  BY <1>1 DEF Exit, Kill, Event, Shapes, RefsTyped
<1>5. RefsTyped'
  <2>1. RefsTyped
    BY <1>1 DEF Shapes
  <2>2. /\ \A x \in 0 .. events : x \in 0 .. events'
        /\ \A c \in Commits : c.n <= events => c.n <= events'
    BY <1>4 DEF Commits
  <2>3. \A repo \in Repos, ref \in Refs : refs[repo][ref] # NoCommit => refs[repo][ref] \in Commits
    BY <2>1 DEF RefsTyped
  <2> QED
    BY <1>2, <1>4, <2>1, <2>2, <2>3 DEF RefsTyped
<1>6. \A q \in Runs : q # r => /\ task'[q] = task[q]
                               /\ at'[q] = at[q]
                               /\ side'[q] = side[q]
                               /\ next'[q] = next[q]
                               /\ got'[q] = got[q]
  BY <1>1, <1>3 DEF IsGone, Shapes, RunsTyped
<1>7. task'[r] = Idle /\ got'[r] = Nothing /\ at'[r] = how
  BY <1>1, <1>3 DEF IsGone, Shapes, RunsTyped
<1>8. Shapes'
  <2>1. RunsTyped'
    BY <1>1, <1>2, <1>3 DEF IsGone, Shapes, RunsTyped
  <2>2. task' \in [Runs -> [Services -> Tasks]]
    BY <1>1, <1>3, IdleTyped DEF IsGone, Shapes
  <2>3. Nothing \in [{1, 2} -> [Services -> Readings \union {None}]]
    BY DEF Nothing
  <2>4. got' \in [Runs -> [{1, 2} -> [Services -> Readings \union {None}]]]
    BY <1>1, <1>3, <2>3 DEF IsGone, Shapes
  <2> QED
    BY <1>1, <1>2, <1>5, <2>1, <2>2, <2>4 DEF Shapes
<1>9. ASSUME NEW s \in Services PROVE TaskRight(r, s)'
  <2>1. task'[r][s].phase = "waiting"
    BY <1>7, IdleTyped
  <2>2. Believed(r, s)'
    BY <1>7 DEF Believed, Nothing
  <2>3. at'[r] # "out" /\ ~Running(r)'
    BY <1>7 DEF Running
  <2> QED
    BY <2>1, <2>2, <2>3, NothingHeld
<1> QED
  BY <1>2, <1>6, <1>8, <1>9, OneRun

\* When every reading of a side has ended well no worktree is left.
LEMMA AnsweredIsClean ==
    ASSUME CacheInv, NEW r \in Runs, Running(r), Answers(r)
    PROVE  \A s \in Services : <<r, s>> \notin checkouts
<1>1. SUFFICES ASSUME NEW s \in Services, <<r, s>> \in checkouts PROVE FALSE
  OBVIOUS
<1>2. TaskRight(r, s)
  BY DEF CacheInv
<1>3. task[r][s].phase \in CheckedOut
  BY <1>1, <1>2 DEF TaskRight, WorktreeIsOfCommit
<1>4. PICK i \in DOMAIN Of(r) : Of(r)[i] = s
  BY <1>2, <1>3 DEF TaskRight, TakenOnce, CheckedOut
<1>5. s \in In(r, {"done"})
  BY <1>4 DEF Answers
<1> QED
  BY <1>3, <1>5 DEF In, CheckedOut

LEMMA SideDoneKeeps ==
    ASSUME CacheInv, NEW r \in Runs, SideDone(r) PROVE CacheInv'
<1>1. Shapes /\ \A s \in Services : TaskRight(r, s)
  BY DEF CacheInv
<1>2. UNCHANGED <<refs, installed, entry, events, checkouts>>
  BY DEF SideDone, world
<1>3. /\ at[r] = "reading" /\ Answers(r) /\ task' = [task EXCEPT ![r] = Idle]
      /\ \/ /\ side' = [side EXCEPT ![r] = 2]
            /\ next' = [next EXCEPT ![r] = 1]
            /\ got' = [got EXCEPT ![r][2] = got[r][1]]
            /\ at' = at
         \/ /\ at' = [at EXCEPT ![r] = "answered"]
            /\ UNCHANGED <<side, next, got>>
  BY DEF SideDone
<1>4. Shapes'
  <2>1. RunsTyped'
    <3>1. /\ at' \in [Runs -> {"out", "reading", "failing", "answered", "failed", "killed"}]
          /\ side' \in [Runs -> {1, 2}]
      BY <1>1, <1>3 DEF Shapes, RunsTyped
    <3>2. next' \in [Runs -> Nat \ {0}]
      BY <1>1, <1>3 DEF Shapes, RunsTyped
    <3> QED
      BY <1>1, <1>2, <3>1, <3>2 DEF Shapes, RunsTyped
  <2>2. task' \in [Runs -> [Services -> Tasks]]
    BY <1>1, <1>3, IdleTyped DEF Shapes
  <2>3. got' \in [Runs -> [{1, 2} -> [Services -> Readings \union {None}]]]
    <3>1. got \in [Runs -> [{1, 2} -> [Services -> Readings \union {None}]]]
      BY <1>1 DEF Shapes
    <3>2. [got EXCEPT ![r][2] = got[r][1]] \in [Runs -> [{1, 2} -> [Services -> Readings \union {None}]]]
      BY <3>1
    <3> QED
      BY <1>3, <3>1, <3>2
  <2>4. RefsTyped'
    BY <1>1, <1>2 DEF Shapes, RefsTyped
  <2> QED
    BY <1>1, <1>2, <2>1, <2>2, <2>3, <2>4 DEF Shapes
<1>5. \A q \in Runs : q # r => /\ task'[q] = task[q]
                               /\ at'[q] = at[q]
                               /\ side'[q] = side[q]
                               /\ next'[q] = next[q]
                               /\ got'[q] = got[q]
  BY <1>1, <1>3 DEF Shapes, RunsTyped
<1>6. \A s \in Services : <<r, s>> \notin checkouts
  BY <1>3, AnsweredIsClean DEF Running
<1>7. ASSUME NEW s \in Services PROVE TaskRight(r, s)'
  <2>1. task'[r][s].phase = "waiting"
    BY <1>1, <1>3, IdleTyped DEF Shapes
  <2>2. Believed(r, s)
    BY <1>1 DEF TaskRight
  <2>3. Believed(r, s)'
    <3>1. CASE got' = got
      BY <2>2, <3>1 DEF Believed
    <3>2. CASE got' = [got EXCEPT ![r][2] = got[r][1]]
      <4>1. got'[r][1] = got[r][1] /\ got'[r][2] = got[r][1]
        BY <1>1, <3>2 DEF Shapes
      <4> QED
        BY <2>2, <4>1 DEF Believed
    <3> QED
      BY <1>3, <3>1, <3>2
  <2> QED
    BY <1>2, <1>6, <2>1, <2>3, NothingHeld
<1> QED
  BY <1>2, <1>4, <1>5, <1>7, OneRun

\* The service a worker takes is one that nobody has taken.
LEMMA TakesOne ==
    ASSUME CacheInv, NEW r \in Runs, Take(r)
    PROVE  \E s \in Services, new \in Tasks :
               /\ next[r] \in DOMAIN Of(r) /\ s = Of(r)[next[r]]
               /\ task[r][s].phase = "waiting"
               /\ task' = [task EXCEPT ![r][s] = new]
               /\ \/ new.phase \in {"failed", "reading"}
                  \/ new.phase = "resolved" /\ IsOf(new.commit, s)
<1> DEFINE s == Of(r)[next[r]]
<1>1. Shapes /\ side[r] \in {1, 2} /\ next[r] \in Nat \ {0}
  BY DEF CacheInv, Shapes, RunsTyped
<1>2. Running(r) /\ next[r] <= Len(Of(r)) /\ next' = [next EXCEPT ![r] = @ + 1]
  BY DEF Take
<1>3. Of(r) \in Seq(Services)
  BY <1>1, CommitReadingsAssumption DEF Of
<1>4. next[r] \in DOMAIN Of(r) /\ s \in Services
  BY <1>1, <1>2, <1>3
<1>5. TaskRight(r, s) /\ task[r][s] \in Tasks
  BY <1>1, <1>4 DEF CacheInv, Shapes
<1>6. task[r][s].phase = "waiting"
  <2>1. SUFFICES ASSUME task[r][s].phase # "waiting" PROVE FALSE
    OBVIOUS
  <2>2. PICK i \in DOMAIN Of(r) : i < next[r] /\ Of(r)[i] = s
    BY <1>5, <2>1 DEF TaskRight, TakenOnce
  <2>3. i = next[r]
    BY <1>1, <1>4, <2>2, CommitReadingsAssumption DEF Of
  <2> QED
    BY <1>1, <2>2, <2>3
<1>7. \E new \in Tasks :
          /\ task' = [task EXCEPT ![r][s] = new]
          /\ \/ new.phase \in {"failed", "reading"}
             \/ new.phase = "resolved" /\ IsOf(new.commit, s)
  <2> DEFINE commit == IF RefOf(r) = Tree THEN Tree ELSE refs[RepoOf[s]][RefOf(r)]
  <2>1. CASE /\ commit \notin {Tree, NoCommit}
             /\ task' = [task EXCEPT ![r][s].phase = "resolved", ![r][s].commit = commit]
    <3> DEFINE new == [task[r][s] EXCEPT !.phase = "resolved", !.commit = commit]
    <3>1. RefOf(r) \in Refs /\ RepoOf[s] \in Repos
      BY <1>1, <1>4, <2>1 DEF RefOf, Refs, Repos
    <3>2. RefsTyped
      BY <1>1 DEF Shapes
    <3>3. IsOf(commit, s)
      BY <2>1, <3>1, <3>2 DEF RefsTyped, IsOf
    <3> HIDE DEF commit
    <3>4. new \in Tasks /\ new.phase = "resolved" /\ new.commit = commit
      BY <1>5, <3>3 DEF Tasks, Phases, IsOf
    <3>5. task \in [Runs -> [Services -> Tasks]]
      BY <1>1 DEF Shapes
    <3>6. task' = [task EXCEPT ![r] = [task[r] EXCEPT ![s] = new]]
      BY <1>4, <2>1, <3>5 DEF Tasks
    <3>7. task' = [task EXCEPT ![r][s] = new]
      BY <3>5, <3>6
    <3> QED
      BY <3>3, <3>4, <3>7
  <2>2. CASE \E to \in {"failed", "reading"} : task' = [task EXCEPT ![r][s].phase = to]
    <3>1. PICK to \in {"failed", "reading"} : task' = [task EXCEPT ![r][s].phase = to]
      BY <2>2
    <3> DEFINE new == [task[r][s] EXCEPT !.phase = to]
    <3>2. new \in Tasks /\ new.phase = to
      BY <1>5 DEF Tasks, Phases, Ended
    <3>3. task' = [task EXCEPT ![r][s] = new]
      BY <1>1, <3>1 DEF Shapes
    <3> QED
      BY <3>2, <3>3
  <2> QED
    BY <2>1, <2>2 DEF Take
<1> QED
  BY <1>4, <1>6, <1>7

LEMMA TakeKeeps ==
    ASSUME CacheInv, NEW r \in Runs, Take(r) PROVE CacheInv'
<1>1. Shapes /\ side[r] \in {1, 2} /\ next[r] \in Nat \ {0} /\ DOMAIN Of(r) \subseteq Nat
  <2>1. Shapes /\ side[r] \in {1, 2} /\ next[r] \in Nat \ {0}
    BY DEF CacheInv, Shapes, RunsTyped
  <2>2. Of(r) \in Seq(Services)
    BY <2>1, CommitReadingsAssumption DEF Of
  <2> QED
    BY <2>1, <2>2
<1>2. Running(r) /\ next' = [next EXCEPT ![r] = @ + 1]
  BY DEF Take
<1>3. PICK s \in Services, new \in Tasks :
          /\ next[r] \in DOMAIN Of(r) /\ s = Of(r)[next[r]]
          /\ task[r][s].phase = "waiting"
          /\ task' = [task EXCEPT ![r][s] = new]
          /\ \/ new.phase \in {"failed", "reading"}
             \/ new.phase = "resolved" /\ IsOf(new.commit, s)
  BY TakesOne
<1>4. UNCHANGED <<refs, installed, entry, at, side, got, events, checkouts>>
  BY DEF Take, world
<1>5. /\ task' \in [Runs -> [Services -> Tasks]]
      /\ task'[r][s] = new
      /\ Elsewhere(r, s)
  <2>1. Shapes /\ task' = [task EXCEPT ![r][s] = new]
    BY <1>1, <1>3
  <2> QED
    BY <2>1, OnlyOne
<1>6. next' \in [Runs -> Nat \ {0}] /\ next'[r] = next[r] + 1 /\ \A q \in Runs : q # r => next'[q] = next[q]
  BY <1>1, <1>2 DEF Shapes, RunsTyped
<1>7. Shapes'
  BY <1>1, <1>4, <1>5, <1>6 DEF Shapes, RefsTyped, RunsTyped
<1>8. \A q \in Runs : q # r => task'[q] = task[q]
  BY <1>1, <1>3 DEF Shapes
<1>9. ASSUME NEW t \in Services PROVE TaskRight(r, t)'
  <2>1. TaskRight(r, t)
    BY DEF CacheInv
  <2>2. Believed(r, t)'
    BY <1>4, <2>1 DEF TaskRight, Believed
  <2>3. CASE t = s
    <3>1. TakenOnce(r, t)'
      <4>1. next[r] < next'[r]
        BY <1>1, <1>6
      <4> QED
        BY <1>3, <1>4, <2>3, <4>1 DEF TakenOnce, Of
    <3>2. <<r, t>> \notin checkouts
      BY <1>2, <1>3, <2>1, <2>3 DEF TaskRight, WorktreeIsOfCommit, CheckedOut
    <3>3. WorktreeIsOfCommit(r, t)'
      BY <1>4, <3>2 DEF WorktreeIsOfCommit
    <3>4. CommitIsKnown(r, t)' /\ ReadAtTheCommit(r, t)' /\ HalfIsRight(r, t)'
      <4>1. task'[r][t] = new /\ (IsOf(new.commit, s) => IsOf(new.commit, t))
        BY <1>5, <2>3
      <4> QED
        BY <1>3, <4>1 DEF CommitIsKnown, ReadAtTheCommit, HalfIsRight, IsOf
    <3> QED
      BY <2>2, <3>1, <3>3, <3>4 DEF TaskRight
  <2>4. CASE t # s
    <3>1. task'[r][t] = task[r][t]
      BY <1>5, <2>4 DEF Elsewhere
    <3>2. TakenOnce(r, t)'
      <4>1. \A i \in DOMAIN Of(r) : i < next[r] => i < next'[r]
        BY <1>1, <1>6
      <4> QED
        BY <1>4, <2>1, <3>1, <4>1 DEF TaskRight, TakenOnce, Of
    <3>3. WorktreeIsOfCommit(r, t)' /\ CommitIsKnown(r, t)'
      BY <1>4, <2>1, <3>1 DEF TaskRight, WorktreeIsOfCommit, Running, CommitIsKnown, IsOf
    <3>4. ReadAtTheCommit(r, t)'
      BY <2>1, <3>1 DEF TaskRight, ReadAtTheCommit
    <3>5. HalfIsRight(r, t)'
      BY <1>4, <2>1, <3>1 DEF TaskRight, HalfIsRight, Right
    <3> QED
      BY <2>2, <3>2, <3>3, <3>4, <3>5 DEF TaskRight
  <2> QED
    BY <2>3, <2>4
<1> QED
  BY <1>4, <1>6, <1>7, <1>8, <1>9, OneRun

-----------------------------------------------------------------------------
LEMMA StaysRight ==
    ASSUME CacheInv, [Next]_vars PROVE CacheInv'
<1>1. CASE World
  BY <1>1, WorldKeeps
<1>2. ASSUME NEW r \in Runs, Start(r) \/ SideFails(r) PROVE CacheInv'
  BY <1>2, StartKeeps
<1>3. ASSUME NEW r \in Runs, Exit(r) \/ Kill(r) PROVE CacheInv'
  BY <1>3, GoneKeeps
<1>4. ASSUME NEW r \in Runs, Take(r) PROVE CacheInv'
  BY <1>4, TakeKeeps
<1>5. ASSUME NEW r \in Runs, SideDone(r) PROVE CacheInv'
  BY <1>5, SideDoneKeeps
<1>6. ASSUME NEW r \in Runs, NEW s \in Services, Read(r, s) PROVE CacheInv'
  BY <1>6, GetMetaKeeps, GetGraphKeeps, AddWorktreeKeeps, FinishKeeps, BreaksKeeps, PutFirstKeeps,
     PutSecondKeeps, RemoveWorktreeKeeps DEF Read
<1>7. CASE UNCHANGED vars
  <2>1. UNCHANGED <<refs, installed, entry, at, side, next, got, task, events, checkouts>>
    BY <1>7 DEF vars, world, run, left
  <2>2. Shapes'
    BY <2>1 DEF CacheInv, Shapes, RefsTyped, RunsTyped
  <2>3. ASSUME NEW q \in Runs, NEW t \in Services PROVE TaskRight(q, t)'
    <3>1. TaskRight(q, t)
      BY DEF CacheInv
    <3>2. TakenOnce(q, t)' /\ WorktreeIsOfCommit(q, t)' /\ CommitIsKnown(q, t)'
      BY <2>1, <3>1 DEF TaskRight, TakenOnce, Of, WorktreeIsOfCommit, Running, CommitIsKnown, IsOf
    <3>3. ReadAtTheCommit(q, t)' /\ HalfIsRight(q, t)'
      BY <2>1, <3>1 DEF TaskRight, ReadAtTheCommit, HalfIsRight, Right
    <3>4. Believed(q, t)'
      BY <2>1, <3>1 DEF TaskRight, Believed
    <3> QED
      BY <3>2, <3>3, <3>4 DEF TaskRight
  <2> QED
    BY <2>1, <2>2, <2>3, SameCache DEF CacheInv
<1> QED
  BY <1>1, <1>2, <1>3, <1>4, <1>5, <1>6, <1>7 DEF Next, Proceed

\* What a comparison has of a service is a graph of that service at the commit
\* it says, as this build reads it, whatever other runs and `cache prune` do to
\* the cache meanwhile, where every service has a repository of its own.
THEOREM BelievedGraphsAreRight ==
    ASSUME OneRepositoryEach PROVE Spec => []WhatIsBelievedIsOurs
<1>1. CacheInv => WhatIsBelievedIsOurs
  BY DEF CacheInv, TaskRight, Believed, WhatIsBelievedIsOurs
<1>2. CacheInv /\ [Next]_vars => CacheInv'
  BY StaysRight
<1> QED
  BY <1>1, <1>2, InitCache, PTL DEF Spec

-----------------------------------------------------------------------------
(***************************************************************************)
(* What a run leaves behind.                                               *)
(***************************************************************************)

CleanOnceEnded(r) ==
    /\ at[r] \in {"answered", "failed"} => \A s \in Services : <<r, s>> \notin checkouts
    /\ at[r] = "answered" => r \notin workDir

LEMMA OneCleans ==
    ASSUME NothingIsLeft, NEW r \in Runs,
           \A q \in Runs : q # r => at'[q] = at[q],
           checkouts' \subseteq checkouts \union ({r} \X Services),
           workDir' \subseteq workDir \union {r},
           CleanOnceEnded(r)'
    PROVE  NothingIsLeft'
<1>1. ASSUME NEW q \in Runs, q # r PROVE CleanOnceEnded(q)'
  BY <1>1 DEF NothingIsLeft, CleanOnceEnded
<1> QED
  BY <1>1 DEF NothingIsLeft, CleanOnceEnded

LEMMA LeavesNothing ==
    ASSUME CacheInv, NothingIsLeft, [Next]_vars PROVE NothingIsLeft'
<1> USE DEF CleanOnceEnded
<1>1. at \in [Runs -> {"out", "reading", "failing", "answered", "failed", "killed"}]
  BY DEF CacheInv, Shapes, RunsTyped
<1>2. CASE World \/ UNCHANGED vars
  <2>1. UNCHANGED <<at, checkouts, workDir>>
    BY <1>2 DEF World, Install, MoveRef, Prune, vars, run, left
  <2> QED
    BY <2>1 DEF NothingIsLeft
<1>3. ASSUME NEW r \in Runs, Start(r) \/ SideFails(r) \/ Kill(r) PROVE NothingIsLeft'
  <2>1. PICK where \in {"reading", "failing", "killed"} : at' = [at EXCEPT ![r] = where]
    BY <1>3 DEF Start, SideFails, Kill, IsGone
  <2>2. checkouts' = checkouts /\ workDir' \subseteq workDir \union {r}
    BY <1>3 DEF Start, SideFails, Kill, left
  <2> QED
    BY <1>1, <2>1, <2>2, OneCleans
<1>4. ASSUME NEW r \in Runs, Take(r) PROVE NothingIsLeft'
  <2>1. Running(r) /\ UNCHANGED <<at, checkouts>> /\ workDir' \subseteq workDir \union {r}
    BY <1>4 DEF Take
  <2> QED
    BY <2>1, OneCleans DEF Running
<1>5. ASSUME NEW r \in Runs, NEW s \in Services, Read(r, s) PROVE NothingIsLeft'
  <2>1. Running(r)
    BY <1>5 DEF Read, GetMeta, GetGraph, AddWorktree, Finish, Breaks, PutFirst, PutSecond,
       RemoveWorktree, Goes
  <2>2. /\ at' = at
        /\ checkouts' \subseteq checkouts \union {<<r, s>>}
        /\ workDir' \subseteq workDir \union {r}
    BY <1>5 DEF Read, GetMeta, GetGraph, AddWorktree, Finish, Breaks, PutFirst, PutSecond,
       RemoveWorktree, run, left
  <2> QED
    BY <2>1, <2>2, OneCleans DEF Running
<1>6. ASSUME NEW r \in Runs, SideDone(r) PROVE NothingIsLeft'
  <2>1. Running(r) /\ Answers(r) /\ checkouts' = checkouts
    BY <1>6 DEF SideDone, Running
  <2>2. \A s \in Services : <<r, s>> \notin checkouts
    BY <2>1, AnsweredIsClean
  <2>3. \/ at' = at /\ workDir' = workDir
        \/ at' = [at EXCEPT ![r] = "answered"] /\ workDir' = workDir \ {r}
    BY <1>6 DEF SideDone
  <2> QED
    BY <1>1, <2>1, <2>2, <2>3, OneCleans DEF Running
<1>7. ASSUME NEW r \in Runs, Exit(r) PROVE NothingIsLeft'
  <2>1. /\ Running(r) /\ In(r, Ended) = Services
        /\ UNCHANGED <<checkouts, workDir>> /\ at' = [at EXCEPT ![r] = "failed"]
    BY <1>7 DEF Exit, IsGone, Running, left
  <2>2. ASSUME NEW s \in Services PROVE <<r, s>> \notin checkouts
    <3>1. task[r][s].phase \in Ended
      BY <2>1 DEF In
    <3> QED
      BY <2>1, <3>1 DEF CacheInv, TaskRight, WorktreeIsOfCommit, CheckedOut, Ended
  <2> QED
    BY <1>1, <2>1, <2>2, OneCleans
<1> QED
  BY <1>2, <1>3, <1>4, <1>5, <1>6, <1>7 DEF Next, Proceed

\* A process that was not killed leaves no worktree, and one that has answered
\* no work directory, however its readings and those of other runs end.
THEOREM RunsLeaveNothing == Spec => []NothingIsLeft
<1>1. Init => NothingIsLeft
  BY DEF Init, NothingIsLeft
<1>2. CacheInv /\ [Next]_vars => CacheInv'
  BY StaysRight
<1>3. CacheInv /\ NothingIsLeft /\ [Next]_vars => NothingIsLeft'
  BY LeavesNothing
<1> QED
  BY <1>1, <1>2, <1>3, InitCache, PTL DEF Spec

-----------------------------------------------------------------------------
(***************************************************************************)
(* What an answer is made of.                                              *)
(***************************************************************************)

ReadBy(r, i) == {Sides[r][i].of[j] : j \in DOMAIN Sides[r][i].of}

\* What has been read is there; on its second side a run has all of the first,
\* and what it does not read there is what the first has.
IsWhole(r) ==
    /\ \A s \in Services : task[r][s].phase = "done" => got[r][side[r]][s] # None
    /\ at[r] = "answered" => side[r] = 2
    /\ side[r] = 2 =>
         \A s \in Services :
             /\ got[r][1][s] # None /\ got[r][2][s] # None
             /\ s \notin ReadBy(r, 2) => got[r][2][s] = got[r][1][s]

AllWhole == \A r \in Runs : IsWhole(r)

\* What one reading does to what the run has: nothing, and it is not done, or it
\* is received.
Receives(r, s) ==
    \/ got' = got /\ task'[r][s].phase # "done"
    \/ \E reading \in Readings : got' = [got EXCEPT ![r][side[r]][s] = reading]

LEMMA GoesBy ==
    ASSUME CacheInv, NEW r \in Runs, NEW s \in Services, NEW from, NEW to \in Phases,
           Goes(r, s, from, to), from # "waiting"
    PROVE  Elsewhere(r, s) /\ task[r][s].phase # "waiting" /\ task'[r][s].phase = to
<1>1. Moved(r, s, from, to)
  BY GoesOnlyThere DEF CacheInv
<1> QED
  BY <1>1 DEF Moved

LEMMA ReadReceives ==
    ASSUME CacheInv, NEW r \in Runs, NEW s \in Services, Read(r, s)
    PROVE  /\ UNCHANGED <<at, side>>
           /\ Elsewhere(r, s)
           /\ task[r][s].phase # "waiting"
           /\ Receives(r, s)
<1>1. Shapes /\ TaskRight(r, s) /\ task[r][s] \in Tasks
  BY DEF CacheInv, Shapes
<1>2. UNCHANGED <<at, side>>
  BY DEF Read, GetMeta, GetGraph, AddWorktree, Finish, Breaks, PutFirst, PutSecond, RemoveWorktree, run
<1>3. CASE \E from \in Phases \ {"waiting"}, to \in Phases \ {"done"} :
              Goes(r, s, from, to) /\ got' = got
  BY <1>2, <1>3, GoesBy DEF Receives
<1>4. CASE GetMeta(r, s) \/ Breaks(r, s) \/ PutFirst(r, s) \/ PutSecond(r, s)
  <2>1. got' = got
    BY <1>4 DEF GetMeta, Breaks, PutFirst, PutSecond, run
  <2>2. \E from \in Phases \ {"waiting"}, to \in Phases \ {"done"} : Goes(r, s, from, to)
    BY <1>4 DEF GetMeta, Breaks, AfterAFailure, PutFirst, PutSecond, Phases, Ended
  <2> QED
    BY <1>3, <2>1, <2>2
<1>5. CASE GetGraph(r, s)
  <2>1. PICK to \in {"missed", "done"} :
            /\ Goes(r, s, "halfGot", to)
            /\ to = "missed" <=> entry[task[r][s].commit].graph = None
    BY <1>5 DEF GetGraph, KeptUnder
  <2>2. Elsewhere(r, s) /\ task[r][s].phase = "halfGot" /\ task'[r][s].phase = to
    BY <2>1, GoesBy DEF Phases, Ended, Goes
  <2>3. CASE to = "missed"
    BY <1>2, <1>5, <2>1, <2>2, <2>3 DEF GetGraph, KeptUnder, Receives
  <2>4. CASE to = "done"
    <3> DEFINE found == entry[task[r][s].commit].graph
    <3>1. task[r][s].commit \in Commits
      BY <1>1, <2>2 DEF TaskRight, CommitIsKnown, IsOf
    <3>2. found \in Graphs
      BY <1>1, <2>1, <2>4, <3>1 DEF Shapes, Entries
    <3>3. [graph |-> found, commit |-> task[r][s].commit, cached |-> TRUE] \in Readings
      BY <3>1, <3>2 DEF Readings
    <3>4. got' = [got EXCEPT ![r][side[r]][s] =
                     [graph |-> found, commit |-> task[r][s].commit, cached |-> TRUE]]
      BY <1>5, <2>1, <2>4 DEF GetGraph, KeptUnder
    <3> QED
      BY <1>2, <2>2, <3>3, <3>4 DEF Receives
  <2> QED
    BY <2>3, <2>4
<1>6. CASE AddWorktree(r, s)
  <2>1. /\ task[r][s].phase = "missed" /\ got' = got
        /\ task' = [task EXCEPT ![r][s].phase = "reading", ![r][s].missing = installed[RepoOf[s]] = 0]
    BY <1>6 DEF AddWorktree, run
  <2>2. task'[r][s].phase = "reading" /\ Elsewhere(r, s)
    BY <1>1, <2>1 DEF Shapes, Tasks, Elsewhere
  <2> QED
    BY <1>2, <2>1, <2>2 DEF Receives
<1>7. CASE Finish(r, s)
  <2>1. task[r][s].phase = "reading" /\ Running(r)
    BY <1>7 DEF Finish
  <2>2. CASE <<r, s>> \in checkouts
    <3>1. /\ got' = got
          /\ task' = [task EXCEPT ![r][s].phase = "put", ![r][s].graph = GraphOf(r, s)]
      BY <1>7, <2>2 DEF Finish
    <3>2. task'[r][s].phase = "put" /\ Elsewhere(r, s)
      BY <1>1, <3>1 DEF Shapes, Tasks, Elsewhere
    <3> QED
      BY <1>2, <2>1, <3>1, <3>2 DEF Receives
  <2>3. CASE <<r, s>> \notin checkouts
    <3>1. /\ task' = [task EXCEPT ![r][s].phase = "done"]
          /\ got' = [got EXCEPT ![r][side[r]][s] =
                        [graph |-> GraphOf(r, s), commit |-> Tree, cached |-> FALSE]]
      BY <1>7, <2>3 DEF Finish
    <3>2. Elsewhere(r, s)
      BY <1>1, <3>1 DEF Shapes, Elsewhere
    <3>3. installed[RepoOf[s]] \in 0 .. events /\ events \in 0 .. MaxEvents
      BY <1>1 DEF Shapes, RefsTyped, Repos
    <3>4. installed[RepoOf[s]] \in 0 .. MaxEvents
      BY <3>3
    <3>5. GraphOf(r, s) \in Graphs
      BY <2>3, <3>4 DEF GraphOf, Graphs
    <3>6. [graph |-> GraphOf(r, s), commit |-> Tree, cached |-> FALSE] \in Readings
      BY <3>5 DEF Readings
    <3> QED
      BY <1>2, <2>1, <3>1, <3>2, <3>6 DEF Receives
  <2> QED
    BY <2>2, <2>3
<1>8. CASE RemoveWorktree(r, s)
  <2>1. CASE Goes(r, s, "unmade", "failed") /\ UNCHANGED got
    BY <1>3, <2>1 DEF Phases, Ended
  <2>2. CASE /\ Goes(r, s, "made", "done")
             /\ got' = [got EXCEPT ![r][side[r]][s] =
                           [graph |-> task[r][s].graph, commit |-> task[r][s].commit, cached |-> FALSE]]
    <3>1. Elsewhere(r, s) /\ task[r][s].phase = "made"
      BY <2>2, GoesBy DEF Phases, Ended, Goes
    <3>2. task[r][s].commit \in Commits /\ task[r][s].graph \in Graphs
      BY <1>1, <3>1 DEF TaskRight, CommitIsKnown, IsOf, ReadAtTheCommit
    <3>3. [graph |-> task[r][s].graph, commit |-> task[r][s].commit, cached |-> FALSE] \in Readings
      BY <3>2 DEF Readings
    <3> QED
      BY <1>2, <2>2, <3>1, <3>3 DEF Receives
  <2> QED
    BY <1>8, <2>1, <2>2 DEF RemoveWorktree
<1> QED
  BY <1>4, <1>5, <1>6, <1>7, <1>8 DEF Read

LEMMA OneWhole ==
    ASSUME AllWhole, NEW r \in Runs, IsWhole(r)',
           \A q \in Runs : q # r => /\ at'[q] = at[q]
                                    /\ side'[q] = side[q]
                                    /\ got'[q] = got[q]
                                    /\ \A s \in Services : task'[q][s] = task[q][s]
    PROVE  AllWhole'
<1>1. ASSUME NEW q \in Runs, q # r PROVE IsWhole(q)'
  <2>1. IsWhole(q)
    BY DEF AllWhole
  <2>2. /\ at'[q] = at[q] /\ side'[q] = side[q] /\ got'[q] = got[q]
        /\ \A s \in Services : task'[q][s] = task[q][s]
    BY <1>1
  <2> QED
    BY <2>1, <2>2 DEF IsWhole, ReadBy
<1> QED
  BY <1>1 DEF AllWhole

LEMMA AnswersStayWhole ==
    ASSUME CacheInv, AllWhole, [Next]_vars PROVE AllWhole'
<1>1. /\ Shapes
      /\ at \in [Runs -> {"out", "reading", "failing", "answered", "failed", "killed"}]
      /\ side \in [Runs -> {1, 2}]
      /\ task \in [Runs -> [Services -> Tasks]]
      /\ got \in [Runs -> [{1, 2} -> [Services -> Readings \union {None}]]]
  BY DEF CacheInv, Shapes, RunsTyped
<1>2. CASE World \/ UNCHANGED vars
  <2>1. UNCHANGED <<at, side, got, task>>
    BY <1>2 DEF World, Install, MoveRef, Prune, vars, run
  <2> QED
    BY <2>1 DEF AllWhole, IsWhole, ReadBy
<1>3. ASSUME NEW r \in Runs, Start(r) \/ SideFails(r) PROVE AllWhole'
  <2>1. UNCHANGED <<side, got, task>> /\ \E where \in {"reading", "failing"} : at' = [at EXCEPT ![r] = where]
    BY <1>3 DEF Start, SideFails
  <2>2. at'[r] # "answered" /\ \A q \in Runs : q # r => at'[q] = at[q]
    BY <1>1, <2>1
  <2>3. IsWhole(r)'
    BY <2>1, <2>2 DEF AllWhole, IsWhole, ReadBy
  <2> QED
    BY <2>1, <2>2, <2>3, OneWhole
<1>4. ASSUME NEW r \in Runs, Exit(r) \/ Kill(r) PROVE AllWhole'
  <2>1. PICK how \in {"failed", "killed"} : IsGone(r, how)
    BY <1>4 DEF Exit, Kill
  <2>2. \A q \in Runs : q # r => at'[q] = at[q] /\ side'[q] = side[q] /\ got'[q] = got[q] /\ task'[q] = task[q]
    BY <1>1, <2>1 DEF IsGone
  <2>3. at'[r] = how /\ side'[r] = 1 /\ task'[r] = Idle
    BY <1>1, <2>1 DEF IsGone
  <2>4. \A s \in Services : task'[r][s].phase = "waiting"
    BY <2>3, IdleTyped
  <2>5. IsWhole(r)'
    BY <2>3, <2>4 DEF IsWhole
  <2> QED
    BY <2>2, <2>5, OneWhole
<1>5. ASSUME NEW r \in Runs, Take(r) PROVE AllWhole'
  <2>1. UNCHANGED <<at, side, got>>
    BY <1>5 DEF Take
  <2>2. /\ \A q \in Runs, s \in Services : q # r => task'[q][s] = task[q][s]
        /\ \A s \in Services : task'[r][s].phase = "done" => task[r][s].phase = "done"
    <3>1. PICK t \in Services, new \in Tasks :
              task' = [task EXCEPT ![r][t] = new] /\ new.phase # "done"
      BY <1>5, TakesOne
    <3> QED
      BY <1>1, <3>1, OnlyOne DEF Elsewhere
  <2>3. IsWhole(r)'
    BY <2>1, <2>2 DEF AllWhole, IsWhole, ReadBy
  <2> QED
    BY <2>1, <2>2, <2>3, OneWhole
<1>6. ASSUME NEW r \in Runs, NEW s \in Services, Read(r, s) PROVE AllWhole'
  <2>1. UNCHANGED <<at, side>> /\ Elsewhere(r, s) /\ task[r][s].phase # "waiting" /\ Receives(r, s)
    BY <1>6, ReadReceives
  <2>2. CASE got' = got /\ task'[r][s].phase # "done"
    <3>1. IsWhole(r)'
      BY <2>1, <2>2 DEF Elsewhere, AllWhole, IsWhole, ReadBy
    <3> QED
      BY <2>1, <2>2, <3>1, OneWhole DEF Elsewhere
  <2>3. CASE \E reading \in Readings : got' = [got EXCEPT ![r][side[r]][s] = reading]
    <3>1. PICK reading \in Readings : got' = [got EXCEPT ![r][side[r]][s] = reading]
      BY <2>3
    <3>2. /\ \A q \in Runs : q # r => got'[q] = got[q]
          /\ \A i \in {1, 2}, t \in Services :
                 got'[r][i][t] = IF i = side[r] /\ t = s THEN reading ELSE got[r][i][t]
      BY <1>1, <3>1
    <3>3. reading # None /\ side[r] \in {1, 2}
      BY <1>1, CommitReadingsAssumption
    <3>4. side[r] = 2 => s \in ReadBy(r, 2)
      BY <2>1 DEF CacheInv, TaskRight, TakenOnce, Of, ReadBy
    <3>5. \A t \in Services : task'[r][t].phase = "done" => got'[r][side'[r]][t] # None
      BY <2>1, <3>2, <3>3 DEF Elsewhere, AllWhole, IsWhole
    <3>6. side[r] = 2 =>
             \A t \in Services :
                 /\ got'[r][1][t] # None /\ got'[r][2][t] # None
                 /\ t \notin ReadBy(r, 2) => got'[r][2][t] = got'[r][1][t]
      BY <3>2, <3>3, <3>4 DEF AllWhole, IsWhole
    <3>7. IsWhole(r)'
      BY <2>1, <3>5, <3>6 DEF AllWhole, IsWhole, ReadBy
    <3> QED
      BY <2>1, <3>2, <3>7, OneWhole DEF Elsewhere
  <2> QED
    BY <2>1, <2>2, <2>3 DEF Receives
<1>7. ASSUME NEW r \in Runs, SideDone(r) PROVE AllWhole'
  <2>1. at[r] = "reading" /\ Answers(r) /\ task' = [task EXCEPT ![r] = Idle]
    BY <1>7 DEF SideDone
  <2>2. \/ /\ side[r] = 1 /\ side' = [side EXCEPT ![r] = 2]
           /\ got' = [got EXCEPT ![r][2] = got[r][1]] /\ at' = at
        \/ /\ side[r] # 1 /\ UNCHANGED <<side, got>> /\ at' = [at EXCEPT ![r] = "answered"]
    BY <1>7 DEF SideDone
  <2>3. \A q \in Runs : q # r => at'[q] = at[q] /\ side'[q] = side[q] /\ got'[q] = got[q] /\ task'[q] = task[q]
    BY <1>1, <2>1, <2>2
  <2>4. \A s \in Services : task'[r][s].phase = "waiting"
    BY <1>1, <2>1, IdleTyped
  <2>5. IsWhole(r)
    BY DEF AllWhole
  <2>6. CASE side[r] = 1
    <3>1. side'[r] = 2 /\ at'[r] = "reading" /\ got'[r][1] = got[r][1] /\ got'[r][2] = got[r][1]
      BY <1>1, <2>1, <2>2, <2>6
    <3>2. ASSUME NEW s \in Services PROVE task[r][s].phase = "done"
      <4>1. PICK i \in DOMAIN Of(r) : s = Of(r)[i]
        BY <2>6, CommitReadingsAssumption DEF Of
      <4> QED
        BY <2>1, <4>1 DEF Answers, In
    <3>3. \A s \in Services : got[r][1][s] # None
      BY <2>5, <2>6, <3>2 DEF IsWhole
    <3>4. IsWhole(r)'
      BY <2>4, <3>1, <3>3 DEF IsWhole
    <3> QED
      BY <2>3, <3>4, OneWhole
  <2>7. CASE side[r] # 1
    <3>1. side[r] = 2 /\ UNCHANGED <<side, got>>
      BY <1>1, <2>2, <2>7
    <3>2. IsWhole(r)'
      BY <2>4, <2>5, <3>1 DEF IsWhole, ReadBy
    <3> QED
      BY <2>3, <3>2, OneWhole
  <2> QED
    BY <2>6, <2>7
<1> QED
  BY <1>2, <1>3, <1>4, <1>5, <1>6, <1>7 DEF Next, Proceed

\* An answer compares every service with itself, whichever of the two sides
\* reads it, and leaves none out, however many readings fail or are believed.
THEOREM AnswersAreWhole == Spec => []AnAnswerIsWhole
<1>1. Init => AllWhole
  <2> SUFFICES ASSUME Init PROVE AllWhole
    OBVIOUS
  <2>1. \A r \in Runs, s \in Services : task[r][s].phase = "waiting"
    BY IdleTyped DEF Init
  <2> QED
    BY <2>1 DEF Init, AllWhole, IsWhole
<1>2. CacheInv /\ [Next]_vars => CacheInv'
  BY StaysRight
<1>3. CacheInv /\ AllWhole /\ [Next]_vars => AllWhole'
  BY AnswersStayWhole
<1>4. AllWhole => AnAnswerIsWhole
  BY DEF AllWhole, IsWhole, ReadBy, AnAnswerIsWhole
<1> QED
  BY <1>1, <1>2, <1>3, <1>4, InitCache, PTL DEF Spec

-----------------------------------------------------------------------------
\* Everything is what it is said to be, and what a run believes is a graph.
THEOREM TypeCorrect == Spec => []TypeOK
<1> DEFINE Known == workDir \subseteq Runs
<1>1. Init => Known
  BY DEF Init
<1>2. CacheInv /\ [Next]_vars => CacheInv'
  BY StaysRight
<1>3. Known /\ [Next]_vars => Known'
  <2> SUFFICES ASSUME Known, [Next]_vars PROVE Known'
    OBVIOUS
  <2>1. CASE World \/ UNCHANGED vars
    BY <2>1 DEF World, Install, MoveRef, Prune, vars, left
  <2>2. ASSUME NEW r \in Runs, Start(r) \/ Proceed(r) \/ Kill(r) PROVE workDir' \subseteq workDir \union {r}
    <3>1. CASE Start(r) \/ Kill(r)
      BY <3>1 DEF Start, Kill, left
    <3>2. CASE Take(r) \/ SideDone(r) \/ SideFails(r) \/ Exit(r)
      BY <3>2 DEF Take, SideDone, SideFails, Exit, left
    <3>3. ASSUME NEW s \in Services, Read(r, s) PROVE workDir' \subseteq workDir \union {r}
      BY <3>3 DEF Read, GetMeta, GetGraph, AddWorktree, Finish, Breaks, PutFirst, PutSecond,
         RemoveWorktree, left
    <3> QED
      BY <2>2, <3>1, <3>2, <3>3 DEF Proceed
  <2> QED
    BY <2>1, <2>2 DEF Next
<1>4. CacheInv /\ Known => TypeOK
  <2> SUFFICES ASSUME CacheInv, Known PROVE TypeOK
    OBVIOUS
  <2>1. Shapes
    BY DEF CacheInv
  <2>2. events \in 0 .. MaxEvents /\ installed \in [Repos -> 0 .. events]
    BY <2>1 DEF Shapes, RefsTyped
  <2>3. 0 .. events \subseteq 0 .. MaxEvents
    BY <2>2
  <2>4. installed \in [Repos -> 0 .. MaxEvents]
    BY <2>2, <2>3
  <2> QED
    BY <2>1, <2>2, <2>4 DEF TypeOK, Shapes, RefsTyped, RunsTyped, Tasks
<1> HIDE DEF Known
<1> QED
  BY <1>1, <1>2, <1>3, <1>4, InitCache, PTL DEF Spec

-----------------------------------------------------------------------------
(***************************************************************************)
(* That nothing keeps a run from ending, but a step that is never taken.   *)
(***************************************************************************)

HIDE CommitReadingsAssumption

\* How many steps a reading may still have.
StagesLeft(phase) ==
    IF phase = "waiting" THEN 8
    ELSE IF phase = "resolved" THEN 7
    ELSE IF phase = "halfGot" THEN 6
    ELSE IF phase = "missed" THEN 5
    ELSE IF phase = "reading" THEN 4
    ELSE IF phase = "put" THEN 3
    ELSE IF phase = "halfPut" THEN 2
    ELSE IF phase \in {"made", "unmade"} THEN 1
    ELSE 0

\* Where a reading goes on to.
Onward(from, to) ==
    \/ from = "resolved" /\ to \in {"halfGot", "missed"}
    \/ from = "halfGot" /\ to \in {"missed", "done"}
    \/ from = "missed" /\ to \in {"reading", "failed"}
    \/ from = "reading" /\ to \in {"put", "done", "unmade", "failed"}
    \/ from = "put" /\ to = "halfPut"
    \/ from = "halfPut" /\ to \in {"made", "unmade"}
    \/ from = "made" /\ to = "done"
    \/ from = "unmade" /\ to = "failed"

Stages == Services \X (1 .. 8)
Ahead(r) == {stage \in Stages : stage[2] <= StagesLeft(task[r][stage[1]].phase)}

\* How many steps a run may still have: those of the readings of its side, all of
\* those of the second side while it is on the first, and the end of each.
StepsLeft(r) ==
    IF at[r] = "reading"
        THEN 2 + Cardinality(Ahead(r)) + IF side[r] = 1 THEN 1 + Cardinality(Stages) ELSE 0
    ELSE IF at[r] = "failing" THEN 1 + Cardinality(Ahead(r))
    ELSE 0

\* The guards of a run's steps: a service can be taken, the side is done or fails,
\* the process can exit, or a reading can go on.
CanTake(r) ==
    /\ next[r] <= Len(Of(r))
    /\ Cardinality(Services \ In(r, Ended)) + Cardinality(In(r, {"failed"})) < Limit
CanExit(r) ==
    /\ at[r] = "failing"
    /\ In(r, Ended) = Services
    /\ next[r] > Len(Of(r)) \/ Cardinality(In(r, {"failed"})) >= Limit
CanProceed(r) ==
    \/ CanTake(r)
    \/ at[r] = "reading" /\ (Answers(r) \/ In(r, {"failed"}) # {})
    \/ CanExit(r)
    \/ \E s \in Services : Turn(r, s) /\ task[r][s].phase \notin Ended

\* What was taken is no longer waiting, and one reading at most is inside a call
\* that does not wait.
Half == {"halfGot", "halfPut"}
PoolInOrder(r) ==
    at[r] # "answered" =>
        /\ \A i \in DOMAIN Of(r) : i < next[r] => task[r][Of(r)[i]].phase # "waiting"
        /\ \A s, t \in In(r, Half) : s = t

InOrder == \A r \in Runs : PoolInOrder(r)

\* There are as many services as the first side of a run names.
LEMMA ServicesAreFinite ==
    ASSUME NEW r \in Runs PROVE IsFiniteSet(Services)
<1> DEFINE of == Sides[r][1].of
<1>1. of \in Seq(Services) /\ {of[i] : i \in DOMAIN of} = Services
  BY CommitReadingsAssumption
<1> HIDE DEF of
<1>2. IsFiniteSet(1 .. Len(of))
  BY <1>1, FS_Interval
<1>3. of \in [1 .. Len(of) -> Services] /\ \A s \in Services : \E i \in 1 .. Len(of) : of[i] = s
  BY <1>1
<1>4. of \in Surjection(1 .. Len(of), Services)
  BY <1>3 DEF Surjection
<1> QED
  BY <1>2, <1>4, FS_Surjection

\* What is left is a number, less where something is gone of it and nothing new.
LEMMA AheadIsCounted ==
    ASSUME NEW r \in Runs
    PROVE  /\ IsFiniteSet(Stages) /\ Cardinality(Stages) \in Nat
           /\ IsFiniteSet(Ahead(r)) /\ Cardinality(Ahead(r)) \in Nat
           /\ Cardinality(Ahead(r)) <= Cardinality(Stages)
           /\ \A T \in SUBSET Ahead(r) :
                  /\ Cardinality(T) \in Nat
                  /\ Cardinality(T) <= Cardinality(Ahead(r))
                  /\ T # Ahead(r) => Cardinality(T) < Cardinality(Ahead(r))
<1>1. IsFiniteSet(Stages)
  <2>1. IsFiniteSet(Services)
    BY ServicesAreFinite
  <2>2. IsFiniteSet(1 .. 8)
    <3>1. 1 \in Int /\ 8 \in Int
      OBVIOUS
    <3> QED
      BY <3>1, FS_Interval, Zenon
  <2>3. IsFiniteSet(Services \X (1 .. 8))
    BY <2>1, <2>2, FS_Product
  <2> QED
    BY <2>3 DEF Stages
<1>2. Ahead(r) \in SUBSET Stages
  BY DEF Ahead
<1>3. /\ IsFiniteSet(Ahead(r)) /\ Cardinality(Ahead(r)) \in Nat /\ Cardinality(Stages) \in Nat
      /\ Cardinality(Ahead(r)) <= Cardinality(Stages)
  BY <1>1, <1>2, FS_Subset, FS_CardinalityType
<1>4. ASSUME NEW T \in SUBSET Ahead(r)
      PROVE  /\ Cardinality(T) \in Nat
             /\ Cardinality(T) <= Cardinality(Ahead(r))
             /\ T # Ahead(r) => Cardinality(T) < Cardinality(Ahead(r))
  <2>1. /\ IsFiniteSet(T) /\ Cardinality(T) <= Cardinality(Ahead(r))
        /\ Cardinality(Ahead(r)) = Cardinality(T) => Ahead(r) = T
    BY <1>3, FS_Subset
  <2>2. Cardinality(T) \in Nat
    BY <2>1, FS_CardinalityType
  <2> QED
    BY <1>3, <2>1, <2>2
<1> QED
  BY <1>1, <1>3, <1>4

\* A phase has from none to eight stages left.
LEMMA StagesAreFew ==
    ASSUME NEW phase PROVE StagesLeft(phase) \in 0 .. 8
BY DEF StagesLeft

\* One reading that goes on leaves less.
LEMMA OneGoesOn ==
    ASSUME NEW r \in Runs, NEW s \in Services,
           task \in [Runs -> [Services -> Tasks]], task' \in [Runs -> [Services -> Tasks]],
           Elsewhere(r, s), StagesLeft(task'[r][s].phase) < StagesLeft(task[r][s].phase)
    PROVE  Cardinality(Ahead(r)') \in Nat /\ Cardinality(Ahead(r)') < Cardinality(Ahead(r))
<1>1. \A t \in Services : /\ StagesLeft(task[r][t].phase) \in 0 .. 8
                          /\ StagesLeft(task'[r][t].phase) \in 0 .. 8
  BY StagesAreFew
<1>2. \A t \in Services : StagesLeft(task'[r][t].phase) <= StagesLeft(task[r][t].phase)
  <2> SUFFICES ASSUME NEW t \in Services
               PROVE  StagesLeft(task'[r][t].phase) <= StagesLeft(task[r][t].phase)
    OBVIOUS
  <2>1. CASE t = s
    BY <1>1, <2>1
  <2>2. CASE t # s
    BY <1>1, <2>2 DEF Elsewhere
  <2> QED
    BY <2>1, <2>2
<1>3. Ahead(r)' = {stage \in Stages : stage[2] <= StagesLeft(task'[r][stage[1]].phase)}
  BY DEF Ahead
<1>4. Ahead(r)' \subseteq Ahead(r)
  BY <1>1, <1>2, <1>3 DEF Ahead, Stages
<1>5. \E stage \in Ahead(r) : stage \notin Ahead(r)'
  <2> DEFINE stage == <<s, StagesLeft(task[r][s].phase)>>
  <2>1. stage \in Stages
    BY <1>1 DEF Stages
  <2>2. stage \in Ahead(r)
    BY <1>1, <2>1 DEF Ahead
  <2>3. stage \notin Ahead(r)'
    BY <1>1, <1>3
  <2> QED
    BY <2>2, <2>3
<1> QED
  BY <1>4, <1>5, AheadIsCounted

\* A reading that goes on has fewer stages left, and has begun.
LEMMA OnwardIsLess ==
    ASSUME NEW from, NEW to, Onward(from, to)
    PROVE  StagesLeft(to) < StagesLeft(from) /\ to # "waiting"
<1>1. /\ StagesLeft("halfGot") < StagesLeft("resolved")
      /\ StagesLeft("missed") < StagesLeft("resolved")
      /\ StagesLeft("missed") < StagesLeft("halfGot")
      /\ StagesLeft("done") < StagesLeft("halfGot")
      /\ StagesLeft("reading") < StagesLeft("missed")
      /\ StagesLeft("failed") < StagesLeft("missed")
  BY DEF StagesLeft
<1>2. /\ StagesLeft("put") < StagesLeft("reading")
      /\ StagesLeft("done") < StagesLeft("reading")
      /\ StagesLeft("unmade") < StagesLeft("reading")
      /\ StagesLeft("failed") < StagesLeft("reading")
  BY DEF StagesLeft
<1>3. /\ StagesLeft("halfPut") < StagesLeft("put")
      /\ StagesLeft("made") < StagesLeft("halfPut")
      /\ StagesLeft("unmade") < StagesLeft("halfPut")
      /\ StagesLeft("done") < StagesLeft("made")
      /\ StagesLeft("failed") < StagesLeft("unmade")
  BY DEF StagesLeft
<1>4. StagesLeft(to) < StagesLeft(from)
  BY <1>1, <1>2, <1>3, Zenon DEF Onward
<1>5. to # "waiting"
  BY DEF Onward
<1> QED
  BY <1>4, <1>5

\* A step of a reading takes it on, and it alone.
LEMMA ReadGoesOn ==
    ASSUME CacheInv, NEW r \in Runs, NEW s \in Services, Read(r, s)
    PROVE  /\ Running(r) /\ Turn(r, s) /\ UNCHANGED <<at, side, next>>
           /\ task' \in [Runs -> [Services -> Tasks]] /\ Elsewhere(r, s)
           /\ Onward(task[r][s].phase, task'[r][s].phase)
<1>1. task \in [Runs -> [Services -> Tasks]] /\ task[r][s] \in Tasks
  BY DEF CacheInv, Shapes
<1>2. ASSUME NEW from, NEW to, Goes(r, s, from, to), Onward(from, to)
      PROVE  Running(r) /\ Turn(r, s) /\ Onward(task[r][s].phase, task'[r][s].phase)
  <2>1. task[r][s].phase = from /\ task'[r][s].phase = to /\ Running(r) /\ Turn(r, s)
    BY <1>1, <1>2 DEF Goes, Tasks
  <2> QED
    BY <1>2, <2>1
<1>3. ASSUME GetMeta(r, s)
      PROVE  Running(r) /\ Turn(r, s) /\ Onward(task[r][s].phase, task'[r][s].phase)
  <2>1. PICK to \in {"halfGot", "missed"} : Goes(r, s, "resolved", to)
    BY <1>3 DEF GetMeta
  <2>2. Onward("resolved", to)
    BY DEF Onward
  <2> QED
    BY <1>2, <2>1, <2>2
<1>4. ASSUME GetGraph(r, s)
      PROVE  Running(r) /\ Turn(r, s) /\ Onward(task[r][s].phase, task'[r][s].phase)
  <2>1. PICK to \in {"missed", "done"} : Goes(r, s, "halfGot", to)
    BY <1>4 DEF GetGraph
  <2>2. Onward("halfGot", to)
    BY DEF Onward
  <2> QED
    BY <1>2, <2>1, <2>2
<1>5. ASSUME AddWorktree(r, s)
      PROVE  Running(r) /\ Turn(r, s) /\ Onward(task[r][s].phase, task'[r][s].phase)
  <2>1. /\ Running(r) /\ Turn(r, s)
        /\ task[r][s].phase = "missed" /\ task'[r][s].phase = "reading"
    BY <1>1, <1>5 DEF AddWorktree, Tasks
  <2> QED
    BY <2>1 DEF Onward
<1>6. ASSUME Finish(r, s)
      PROVE  Running(r) /\ Turn(r, s) /\ Onward(task[r][s].phase, task'[r][s].phase)
  <2>1. /\ Running(r) /\ Turn(r, s)
        /\ task[r][s].phase = "reading" /\ task'[r][s].phase \in {"put", "done"}
    BY <1>1, <1>6 DEF Finish, Tasks
  <2> QED
    BY <2>1 DEF Onward
<1>7. ASSUME Breaks(r, s)
      PROVE  Running(r) /\ Turn(r, s) /\ Onward(task[r][s].phase, task'[r][s].phase)
  <2>1. \/ \E to \in {"unmade", "failed"} : Goes(r, s, "reading", to)
        \/ Goes(r, s, "missed", "failed")
    BY <1>7 DEF Breaks, AfterAFailure
  <2>2. Onward("missed", "failed") /\ \A to \in {"unmade", "failed"} : Onward("reading", to)
    BY DEF Onward
  <2> QED
    BY <1>2, <2>1, <2>2
<1>8. ASSUME PutFirst(r, s)
      PROVE  Running(r) /\ Turn(r, s) /\ Onward(task[r][s].phase, task'[r][s].phase)
  <2>1. Goes(r, s, "put", "halfPut") /\ Onward("put", "halfPut")
    BY <1>8 DEF PutFirst, Onward
  <2> QED
    BY <1>2, <2>1
<1>9. ASSUME PutSecond(r, s)
      PROVE  Running(r) /\ Turn(r, s) /\ Onward(task[r][s].phase, task'[r][s].phase)
  <2>1. PICK to \in {"made", "unmade"} : Goes(r, s, "halfPut", to)
    BY <1>9 DEF PutSecond
  <2>2. Onward("halfPut", to)
    BY DEF Onward
  <2> QED
    BY <1>2, <2>1, <2>2
<1>10. ASSUME RemoveWorktree(r, s)
      PROVE  Running(r) /\ Turn(r, s) /\ Onward(task[r][s].phase, task'[r][s].phase)
  <2>1. Goes(r, s, "made", "done") \/ Goes(r, s, "unmade", "failed")
    BY <1>10 DEF RemoveWorktree
  <2>2. Onward("made", "done") /\ Onward("unmade", "failed")
    BY DEF Onward
  <2> QED
    BY <1>2, <2>1, <2>2
<1>11. Running(r) /\ Turn(r, s) /\ Onward(task[r][s].phase, task'[r][s].phase)
  BY <1>3, <1>4, <1>5, <1>6, <1>7, <1>8, <1>9, <1>10 DEF Read
<1>12. UNCHANGED <<at, side, next>>
  BY DEF Read, GetMeta, GetGraph, AddWorktree, Finish, Breaks, PutFirst, PutSecond,
     RemoveWorktree, run
<1>13. CacheInv'
  BY GetMetaKeeps, GetGraphKeeps, AddWorktreeKeeps, FinishKeeps, BreaksKeeps, PutFirstKeeps,
     PutSecondKeeps, RemoveWorktreeKeeps DEF Read
<1>14. task' \in [Runs -> [Services -> Tasks]] /\ Elsewhere(r, s)
  BY <1>13, ReadReceives DEF CacheInv, Shapes
<1> QED
  BY <1>11, <1>12, <1>14

\* What the steps of a run that are not of one reading do to its readings.
LEMMA TakeGoesOn ==
    ASSUME CacheInv, NEW r \in Runs, Take(r)
    PROVE  /\ UNCHANGED <<at, side>> /\ Running(r)
           /\ next' = [next EXCEPT ![r] = @ + 1]
           /\ \E s \in Services :
                  /\ next[r] \in DOMAIN Of(r) /\ s = Of(r)[next[r]]
                  /\ task' \in [Runs -> [Services -> Tasks]] /\ Elsewhere(r, s)
                  /\ task[r][s].phase = "waiting"
                  /\ task'[r][s].phase \in {"failed", "reading", "resolved"}
<1>1. PICK s \in Services, new \in Tasks :
          /\ next[r] \in DOMAIN Of(r) /\ s = Of(r)[next[r]]
          /\ task[r][s].phase = "waiting"
          /\ task' = [task EXCEPT ![r][s] = new]
          /\ new.phase \in {"failed", "reading", "resolved"}
  BY TakesOne
<1>2. Shapes
  BY DEF CacheInv
<1>3. task' \in [Runs -> [Services -> Tasks]] /\ task'[r][s] = new /\ Elsewhere(r, s)
  <2>1. task' = [task EXCEPT ![r][s] = new]
    BY <1>1
  <2> QED
    BY <1>2, <2>1, OnlyOne, Zenon
<1>4. UNCHANGED <<at, side>> /\ Running(r) /\ next' = [next EXCEPT ![r] = @ + 1]
  BY DEF Take
<1> QED
  BY <1>1, <1>3, <1>4

\* Taking a service leaves fewer stages as well.
LEMMA TakingIsLess ==
    ASSUME NEW to, to \in {"failed", "reading", "resolved"}
    PROVE  StagesLeft(to) < StagesLeft("waiting")
<1>1. /\ StagesLeft("failed") < StagesLeft("waiting")
      /\ StagesLeft("reading") < StagesLeft("waiting")
      /\ StagesLeft("resolved") < StagesLeft("waiting")
  BY DEF StagesLeft
<1> QED
  BY <1>1, Zenon

\* Only a run's own steps lower what is left of it, and each of them does.
LEMMA ProceedLowers ==
    ASSUME CacheInv, NEW r \in Runs, Proceed(r)
    PROVE  StepsLeft(r)' \in Nat /\ StepsLeft(r)' < StepsLeft(r)
<1>1. /\ at \in [Runs -> {"out", "reading", "failing", "answered", "failed", "killed"}]
      /\ side \in [Runs -> {1, 2}] /\ task \in [Runs -> [Services -> Tasks]]
  BY DEF CacheInv, Shapes, RunsTyped
<1>2. /\ Cardinality(Stages) \in Nat /\ Cardinality(Ahead(r)) \in Nat
      /\ Cardinality(Ahead(r)) <= Cardinality(Stages)
  BY AheadIsCounted
<1>3. ASSUME Running(r), UNCHANGED <<at, side>>,
             Cardinality(Ahead(r)') \in Nat, Cardinality(Ahead(r)') < Cardinality(Ahead(r))
      PROVE  StepsLeft(r)' \in Nat /\ StepsLeft(r)' < StepsLeft(r)
  BY <1>2, <1>3 DEF StepsLeft, Running, Stages
<1>4. CASE Take(r)
  <2>1. PICK s \in Services :
            /\ task' \in [Runs -> [Services -> Tasks]] /\ Elsewhere(r, s)
            /\ task[r][s].phase = "waiting"
            /\ task'[r][s].phase \in {"failed", "reading", "resolved"}
    BY <1>4, TakeGoesOn
  <2>2. StagesLeft(task'[r][s].phase) < StagesLeft(task[r][s].phase)
    BY <2>1, TakingIsLess
  <2>3. UNCHANGED <<at, side>> /\ Running(r)
    BY <1>4, TakeGoesOn
  <2> QED
    BY <1>1, <1>3, <2>1, <2>2, <2>3, OneGoesOn
<1>5. ASSUME NEW s \in Services, Read(r, s)
      PROVE  StepsLeft(r)' \in Nat /\ StepsLeft(r)' < StepsLeft(r)
  <2>1. /\ Running(r) /\ UNCHANGED <<at, side>>
        /\ task' \in [Runs -> [Services -> Tasks]] /\ Elsewhere(r, s)
        /\ Onward(task[r][s].phase, task'[r][s].phase)
    BY <1>5, ReadGoesOn
  <2>2. StagesLeft(task'[r][s].phase) < StagesLeft(task[r][s].phase)
    BY <2>1, OnwardIsLess
  <2> QED
    BY <1>1, <1>3, <2>1, <2>2, OneGoesOn
<1>6. CASE SideDone(r)
  <2>1. at[r] = "reading" /\ side[r] \in {1, 2}
    BY <1>1, <1>6 DEF SideDone
  <2>2. CASE side[r] = 1
    <3>1. at'[r] = "reading" /\ side'[r] = 2
      BY <1>1, <1>6, <2>1, <2>2 DEF SideDone
    <3>2. Ahead(r)' \subseteq Stages
      BY DEF Ahead, Stages
    <3>3. Cardinality(Ahead(r)') \in Nat /\ Cardinality(Ahead(r)') <= Cardinality(Stages)
      <4>1. IsFiniteSet(Stages)
        BY AheadIsCounted
      <4> QED
        BY <3>2, <4>1, FS_Subset, FS_CardinalityType
    <3> QED
      BY <1>2, <2>1, <2>2, <3>1, <3>3 DEF StepsLeft, Stages
  <2>3. CASE side[r] = 2
    <3>1. at'[r] = "answered"
      BY <1>1, <1>6, <2>1, <2>3 DEF SideDone
    <3> QED
      BY <1>2, <2>1, <2>3, <3>1 DEF StepsLeft
  <2> QED
    BY <2>1, <2>2, <2>3
<1>7. CASE SideFails(r)
  <2>1. at[r] = "reading" /\ at'[r] = "failing" /\ task' = task
    BY <1>1, <1>7 DEF SideFails
  <2>2. Ahead(r)' = Ahead(r)
    BY <2>1 DEF Ahead
  <2> QED
    BY <1>1, <1>2, <2>1, <2>2 DEF StepsLeft
<1>8. CASE Exit(r)
  <2>1. at[r] = "failing" /\ at'[r] = "failed"
    BY <1>1, <1>8 DEF Exit, IsGone
  <2> QED
    BY <1>2, <2>1 DEF StepsLeft
<1> QED
  BY <1>4, <1>5, <1>6, <1>7, <1>8 DEF Proceed

\* What others do to a run is nothing.
LEMMA OthersLeaveIt ==
    ASSUME CacheInv, NEW r \in Runs, [Next]_vars, ~Start(r), ~Proceed(r), ~Kill(r)
    PROVE  at'[r] = at[r] /\ side'[r] = side[r] /\ next'[r] = next[r] /\ task'[r] = task[r]
<1>1. /\ at \in [Runs -> {"out", "reading", "failing", "answered", "failed", "killed"}]
      /\ side \in [Runs -> {1, 2}] /\ next \in [Runs -> Nat \ {0}]
      /\ task \in [Runs -> [Services -> Tasks]]
  BY DEF CacheInv, Shapes, RunsTyped
<1>2. CASE World \/ UNCHANGED vars
  BY <1>2 DEF World, Install, MoveRef, Prune, vars, run
<1>3. ASSUME NEW q \in Runs, q # r, Start(q) \/ Kill(q) \/ SideDone(q) \/ SideFails(q) \/ Exit(q)
      PROVE  at'[r] = at[r] /\ side'[r] = side[r] /\ next'[r] = next[r] /\ task'[r] = task[r]
  BY <1>1, <1>3 DEF Start, Kill, SideDone, SideFails, Exit, IsGone
<1>4. ASSUME NEW q \in Runs, q # r, Take(q)
      PROVE  at'[r] = at[r] /\ side'[r] = side[r] /\ next'[r] = next[r] /\ task'[r] = task[r]
  BY <1>1, <1>4, TakeGoesOn DEF Elsewhere
<1>5. ASSUME NEW q \in Runs, q # r, NEW s \in Services, Read(q, s)
      PROVE  at'[r] = at[r] /\ side'[r] = side[r] /\ next'[r] = next[r] /\ task'[r] = task[r]
  <2>1. UNCHANGED <<at, side, next>> /\ task' \in [Runs -> [Services -> Tasks]] /\ Elsewhere(q, s)
    BY <1>5, ReadGoesOn
  <2> QED
    BY <1>1, <1>5, <2>1 DEF Elsewhere
<1> QED
  BY <1>2, <1>3, <1>4, <1>5 DEF Next, Proceed

\* A run's pool stays in order: what it takes has begun, and a reading enters a call
\* that does not wait only while no other is in one.
LEMMA OneStaysInOrder ==
    ASSUME CacheInv, NEW r \in Runs, PoolInOrder(r), [Next]_vars
    PROVE  PoolInOrder(r)'
<1>1. /\ at \in [Runs -> {"out", "reading", "failing", "answered", "failed", "killed"}]
      /\ side \in [Runs -> {1, 2}] /\ next \in [Runs -> Nat \ {0}]
      /\ task \in [Runs -> [Services -> Tasks]]
  BY DEF CacheInv, Shapes, RunsTyped
<1>2. Of(r) \in Seq(Services) /\ DOMAIN Of(r) \subseteq Nat /\ \A i \in DOMAIN Of(r) : Of(r)[i] \in Services
  <2>1. Of(r) \in Seq(Services)
    BY <1>1, CommitReadingsAssumption DEF Of
  <2> QED
    BY <2>1
<1>3. ASSUME at'[r] = at[r], side'[r] = side[r], next'[r] = next[r], task'[r] = task[r]
      PROVE  PoolInOrder(r)'
  BY <1>3 DEF PoolInOrder, Of, In
<1>4. CASE Start(r) \/ SideFails(r)
  <2>1. at[r] # "answered" /\ UNCHANGED <<side, next, task>>
    BY <1>4 DEF Start, SideFails
  <2> QED
    BY <2>1 DEF PoolInOrder, Of, In
<1>5. ASSUME next'[r] = 1, task'[r] = Idle PROVE PoolInOrder(r)'
  <2>1. \A s \in Services : task'[r][s].phase = "waiting"
    BY <1>5, IdleTyped
  <2>2. In(r, Half)' = {}
    BY <2>1 DEF In, Half
  <2>3. side'[r] \in {1, 2}
    BY StaysRight DEF CacheInv, Shapes, RunsTyped
  <2>4. \A i \in DOMAIN Of(r)' : ~(i < next'[r])
    <3>1. Of(r)' \in Seq(Services)
      BY <2>3, CommitReadingsAssumption DEF Of
    <3> QED
      BY <1>5, <3>1
  <2> QED
    BY <2>2, <2>4 DEF PoolInOrder
<1>6. CASE Kill(r) \/ Exit(r)
  <2>1. next'[r] = 1 /\ task'[r] = Idle
    BY <1>1, <1>6 DEF Kill, Exit, IsGone
  <2> QED
    BY <1>5, <2>1
<1>7. CASE SideDone(r)
  <2>1. task'[r] = Idle /\ (at'[r] = "answered" \/ next'[r] = 1)
    BY <1>1, <1>7 DEF SideDone
  <2> QED
    BY <1>5, <2>1 DEF PoolInOrder
<1>8. CASE Take(r)
  <2>1. Running(r) /\ UNCHANGED <<at, side>> /\ next'[r] = next[r] + 1
    BY <1>1, <1>8, TakeGoesOn
  <2>2. PICK s \in Services :
            /\ next[r] \in DOMAIN Of(r) /\ s = Of(r)[next[r]]
            /\ Elsewhere(r, s)
            /\ task'[r][s].phase \in {"failed", "reading", "resolved"}
    BY <1>8, TakeGoesOn
  <2>3. ASSUME NEW i \in DOMAIN Of(r), i < next[r] + 1
        PROVE  task'[r][Of(r)[i]].phase # "waiting"
    <3>1. CASE Of(r)[i] = s
      BY <2>2, <3>1
    <3>2. CASE Of(r)[i] # s
      <4>1. i < next[r]
        BY <1>1, <1>2, <2>2, <2>3, <3>2
      <4> QED
        BY <1>2, <2>1, <2>2, <3>2, <4>1 DEF PoolInOrder, Elsewhere, Running
    <3> QED
      BY <3>1, <3>2
  <2>4. In(r, Half)' \subseteq In(r, Half)
    BY <2>2 DEF In, Half, Elsewhere
  <2> QED
    BY <2>1, <2>3, <2>4 DEF PoolInOrder, Running, Of
<1>9. ASSUME NEW s \in Services, Read(r, s) PROVE PoolInOrder(r)'
  <2>1. /\ Running(r) /\ Turn(r, s) /\ UNCHANGED <<at, side, next>> /\ Elsewhere(r, s)
        /\ task'[r][s].phase # "waiting"
    BY <1>9, ReadGoesOn, OnwardIsLess
  <2>2. ASSUME NEW i \in DOMAIN Of(r), i < next[r]
        PROVE  task'[r][Of(r)[i]].phase # "waiting"
    BY <1>2, <2>1, <2>2 DEF PoolInOrder, Elsewhere, Running
  <2>3. In(r, Half)' \subseteq {s}
    BY <2>1 DEF In, Half, Elsewhere, Turn
  <2> QED
    BY <2>1, <2>2, <2>3 DEF PoolInOrder, Of
<1> QED
  BY <1>3, <1>4, <1>6, <1>7, <1>8, <1>9, OthersLeaveIt DEF Proceed

\* A run that is there always has a step to take.
LEMMA RunningCanProceed ==
    ASSUME CacheInv, NEW r \in Runs, PoolInOrder(r), Running(r)
    PROVE  CanProceed(r)
<1>1. /\ side[r] \in {1, 2} /\ next[r] \in Nat \ {0}
      /\ Of(r) \in Seq(Services) /\ \A s \in Services : task[r][s] \in Tasks
  <2>1. side[r] \in {1, 2} /\ next[r] \in Nat \ {0} /\ \A s \in Services : task[r][s] \in Tasks
    BY DEF CacheInv, Shapes, RunsTyped
  <2> QED
    BY <2>1, CommitReadingsAssumption DEF Of
<1>2. CASE \E s \in Services : task[r][s].phase \notin Ended
  <2>1. CASE In(r, Half) = {}
    <3>1. \A s \in Services : Turn(r, s)
      BY <2>1 DEF Turn, Half
    <3> QED
      BY <1>2, <3>1 DEF CanProceed
  <2>2. CASE In(r, Half) # {}
    <3>1. PICK s \in In(r, Half) : TRUE
      BY <2>2
    <3>2. s \in Services /\ task[r][s].phase \in Half
      BY <3>1 DEF In
    <3>3. In(r, Half) \subseteq {s}
      BY <3>1 DEF PoolInOrder, Running
    <3>4. Turn(r, s) /\ task[r][s].phase \notin Ended
      BY <3>2, <3>3 DEF Turn, Half, Ended
    <3> QED
      BY <3>2, <3>4 DEF CanProceed
  <2> QED
    BY <2>1, <2>2
<1>3. CASE In(r, Ended) = Services
  <2>1. Cardinality(Services \ In(r, Ended)) = 0
    BY <1>3, FS_EmptySet
  <2>2. Cardinality(In(r, {"failed"})) \in Nat /\ (In(r, {"failed"}) = {} => Cardinality(In(r, {"failed"})) = 0)
    <3>1. In(r, {"failed"}) \subseteq Services
      BY DEF In
    <3>2. IsFiniteSet(In(r, {"failed"}))
      BY <3>1, ServicesAreFinite, FS_Subset
    <3> QED
      BY <3>2, FS_CardinalityType, FS_EmptySet
  <2>3. Limit \in Nat \ {0}
    BY CommitReadingsAssumption
  <2>4. CASE at[r] = "failing"
    <3>1. Len(Of(r)) \in Nat
      BY <1>1
    <3> QED
      BY <1>1, <1>3, <2>1, <2>2, <2>3, <2>4, <3>1 DEF CanProceed, CanExit, CanTake
  <2>5. CASE at[r] = "reading" /\ In(r, {"failed"}) # {}
    BY <2>5 DEF CanProceed
  <2>6. CASE at[r] = "reading" /\ In(r, {"failed"}) = {} /\ next[r] <= Len(Of(r))
    BY <2>1, <2>2, <2>3, <2>6 DEF CanProceed, CanTake
  <2>7. CASE at[r] = "reading" /\ In(r, {"failed"}) = {} /\ ~(next[r] <= Len(Of(r)))
    <3>1. \A i \in DOMAIN Of(r) : i < next[r] /\ Of(r)[i] \in Services
      BY <1>1, <2>7
    <3>2. ASSUME NEW i \in DOMAIN Of(r) PROVE Of(r)[i] \in In(r, {"done"})
      <4>1. task[r][Of(r)[i]].phase # "waiting"
        BY <2>7, <3>1 DEF PoolInOrder
      <4>2. task[r][Of(r)[i]].phase \in Ended /\ task[r][Of(r)[i]].phase # "failed"
        BY <1>3, <2>7, <3>1 DEF In
      <4> QED
        BY <3>1, <4>1, <4>2 DEF In, Ended
    <3>3. ASSUME NEW s \in In(r, {"done"}) PROVE \E i \in DOMAIN Of(r) : Of(r)[i] = s
      <4>1. s \in Services /\ task[r][s].phase # "waiting"
        BY <3>3 DEF In
      <4> QED
        BY <4>1 DEF CacheInv, TaskRight, TakenOnce
    <3>4. Answers(r)
      BY <3>2, <3>3 DEF Answers
    <3> QED
      BY <2>7, <3>4 DEF CanProceed
  <2> QED
    BY <2>4, <2>5, <2>6, <2>7 DEF Running
<1> QED
  BY <1>2, <1>3 DEF In

\* A run ends (commands/diff.ts and git/build-at-ref.ts), as far as it is for the run
\* to say: while it is there it has a step to take, whatever others do to the cache
\* and however its readings fail; each of its steps leaves fewer, and no step of
\* anything else leaves more. That its steps are taken is the fairness EveryRunEnds
\* is checked under.
THEOREM NothingKeepsARunFromEnding ==
    Spec => /\ [](\A r \in Runs : Running(r) => CanProceed(r))
            /\ [][\A r \in Runs : Running(r) =>
                     /\ StepsLeft(r)' \in Nat /\ StepsLeft(r)' <= StepsLeft(r)
                     /\ Proceed(r) => StepsLeft(r)' < StepsLeft(r)]_vars
<1> DEFINE Lowers == \A r \in Runs : Running(r) =>
                         /\ StepsLeft(r)' \in Nat /\ StepsLeft(r)' <= StepsLeft(r)
                         /\ Proceed(r) => StepsLeft(r)' < StepsLeft(r)
           Proceeds == \A r \in Runs : Running(r) => CanProceed(r)
<1>1. Init => InOrder
  <2> SUFFICES ASSUME Init, NEW r \in Runs PROVE PoolInOrder(r)
    BY DEF InOrder
  <2>1. next[r] = 1 /\ side[r] = 1 /\ \A s \in Services : task[r][s].phase = "waiting"
    BY IdleTyped DEF Init
  <2>2. In(r, Half) = {}
    BY <2>1 DEF In, Half
  <2>3. Of(r) \in Seq(Services)
    BY <2>1, CommitReadingsAssumption DEF Of
  <2>4. \A i \in DOMAIN Of(r) : ~(i < next[r])
    BY <2>1, <2>3
  <2> QED
    BY <2>2, <2>4 DEF PoolInOrder
<1>2. CacheInv /\ InOrder /\ [Next]_vars => CacheInv' /\ InOrder'
  BY StaysRight, OneStaysInOrder DEF InOrder
<1>3. CacheInv /\ InOrder => Proceeds
  BY RunningCanProceed DEF InOrder
<1>4. CacheInv /\ [Next]_vars => [Lowers]_vars
  <2> SUFFICES ASSUME CacheInv, Next, NEW r \in Runs, Running(r)
               PROVE  /\ StepsLeft(r)' \in Nat /\ StepsLeft(r)' <= StepsLeft(r)
                      /\ Proceed(r) => StepsLeft(r)' < StepsLeft(r)
    OBVIOUS
  <2>1. StepsLeft(r) \in Nat
    <3>1. Cardinality(Stages) \in Nat /\ Cardinality(Ahead(r)) \in Nat
      BY AheadIsCounted
    <3> QED
      BY <3>1 DEF StepsLeft
  <2>2. CASE Proceed(r)
    BY <2>1, <2>2, ProceedLowers
  <2>3. CASE ~Proceed(r) /\ Kill(r)
    <3>1. at'[r] = "killed"
      BY <2>3 DEF CacheInv, Shapes, RunsTyped, Kill, IsGone
    <3> QED
      BY <2>1, <2>3, <3>1 DEF StepsLeft
  <2>4. CASE ~Proceed(r) /\ ~Kill(r)
    <3>1. ~Start(r)
      BY DEF Start, Running
    <3>2. at'[r] = at[r] /\ side'[r] = side[r] /\ task'[r] = task[r]
      BY <2>4, <3>1, OthersLeaveIt
    <3>3. Ahead(r)' = Ahead(r)
      BY <3>2 DEF Ahead
    <3>4. StepsLeft(r)' = StepsLeft(r)
      BY <3>2, <3>3 DEF StepsLeft, Stages
    <3> QED
      BY <2>1, <2>4, <3>4
  <2> QED
    BY <2>2, <2>3, <2>4
<1> QED
  BY <1>1, <1>2, <1>3, <1>4, InitCache, PTL DEF Spec
=============================================================================
