# flowatlas, modelled in TLA+

flowatlas reads the repositories a configuration names, links what it found into
one project graph and answers questions about it. The reading and the linking are
functions of the sources. What is hard is everything around them: a build is
incremental, reads several repositories at once, some in child processes and some
in memory, while files are being saved, and it may fail, throw or be killed at any
point and be followed by another that trusts what it left on disk. Beside the
builds, other processes use the same directory: a listener that adds what it
observed, an editor's server that reads the database a build replaces, comparisons
that share a cache of graphs. That is what these modules are about.

All paths below are relative to `src/`.

## 1. The system and what is here of it

| Component | State it keeps | Operations | What is hard | Status |
| --- | --- | --- | --- | --- |
| Read pool: `inPools`, `packages/cli/src/commands/build.ts` | shared index, jobs in flight, first failure, results | call, job resolves, job rejects, settle | workers race over one index; failures while others run | `ReadPool` |
| Rebuild plan: `build/incremental.ts`, `build/cache.ts`, `build/dependencies.ts` | none | `planOne` and the comparisons under it | every reason not to trust a cache | `BuildPlan` |
| Build: `buildProject`, `extractOne`, `nextCache` in `commands/build.ts` | `cache.json`, each service's graph, the three outputs | load, survey, plan, read, link, write, remember | saves between any two of these; crashes, throws and failures between them | `IncrementalBuild` |
| Reading process: `commands/extract.ts` | the graph and facts it writes | parse, write, stamp | killed or overtaken between them | `IncrementalBuild` |
| Open repositories: `build/session.ts`, `extractor-nestjs/src/incremental.ts` | parsed projects of a watch | open, refresh named files, parse again | stale against disk and configuration | `IncrementalBuild` |
| Watch: `build/watch.ts`, `build/watch-surroundings.ts` | sessions, watchers, `edited`, `moved`, timer, queue | reload, reopen, rebuild, trigger, debounce, start, close | events during a rebuild, directories that come and go, closing during a rebuild | `Watch` |
| Observed file and its lock: `observe/store.ts`, `commands/observe.ts` | lock file, counts | acquire, take over, load, save, release | a holder that dies; two that find the same stale lock | `ObservedFile` |
| Trace buffer: `observe/trace-buffer.ts` | waiting spans, by last addition | add, evict, expire, drain | two bounds, one order | `TraceBuffer` |
| Listener: `observe/listen.ts` | buffer, pending counts, bodies read, graph held | receive, sweep, flush, stop | posts repeated or cut, a file or graph that cannot be read, stopping with traces waiting | `Listener` |
| Observed merge: `packages/core/src/observed.ts`, `observe/match.ts` | hours, samples, sources, window | merge, cut | bounded samples and a moving window | `ObservedWindow` |
| Question server: `packages/mcp/src/query/db.ts`, `tool-listing.ts`, `server.ts` | open handle and its time, facts of a generation, tools enabled, poll | open, refresh, poll, notify, close | files replaced between any two looks | `QuestionServer` |
| Database writer: `packages/linker/src/db/writer.ts` | `graph.db` | write beside, remove, rename | dying in between; readers in between | `QuestionServer`, `IncrementalBuild` |
| Readings at a commit: `git/build-at-ref.ts`, `git/graph-cache.ts`, `git/worktree.ts` | worktrees, work directory, cached graphs | resolve, get, read, put, remove, prune | concurrent, failing and killed runs over one cache | `CommitReadings` |
| Route matching: `packages/linker/src/route-match.ts` | none | `matchRoute`, `couldReach`, `behindUnread`, `oneSegmentOff` | which of several answers, and what may be said of an address read in part | `RouteMatch` |
| Splice: `build/splice.ts`; cycles: `analysis/scc.ts`; the rest of the linker; extractors, adapters, core, Terraform and Step Functions readers; questions, reports, pages | that of one pass | functions of syntax trees and documents | none that interleaves | not modelled |

How they meet: `watchProject` calls `buildProject` with its open sessions and is
called back by its watchers; `buildProject` calls `inPools` with `extractOne`, which
reads a repository in this process through a session or in a child through
`runExtract`; builders meet on disk, in `services/<name>/graph.json`,
`services/<name>/cache.json`, `cache.json` and the three outputs. The question
server opens the last of these, `graph.db`, whenever it is replaced, and so does a
listener that matches traces against it; `observe` and the listener meet in
`observed.json` under its lock, and the server lists its tools by whether that file
is there. Comparisons meet each other in `cache/<sha>/` and the repositories' worktrees.

Every hazard found in the reading is listed in `PROJECT.json` at its line, with the
properties that would catch it, or with the reason none does.

## 2. The modules

```
ReadPool ......................... inPools
BuildPlan ........................ planOne
   IncrementalBuild  (EXTENDS) ... builders, children and watches over one disk
      ProjectAnswer  (INSTANCE) .. what a reader of graph.db is promised
Watch ............................ watchProject around its builds
ObservedFile ..................... the lock and the file under it, call by call
TraceBuffer ...................... the buffer as operators on a sequence
   Listener  (EXTENDS) ........... observe --listen around it
ObservedWindow ................... what runs of observe add up to
QuestionServer ................... an editor's server, a build and a saver
CommitReadings ................... comparisons over one cache of graphs
RouteMatch ....................... which route a request reaches, and which it might
ReadPool_proofs, IncrementalBuild_proofs, Watch_proofs, ObservedFile_proofs,
Listener_proofs, QuestionServer_proofs, CommitReadings_proofs, RouteMatch_proofs
MCReadPool, MCBuild, MCWatch, MCObservedFile, MCListener, MCCommitReadings,
MCRouteMatch ..................... values for TLC
```

### ReadPool

A worker is a coroutine of one JavaScript thread, so what it does between two
awaits is one action: `Resolve(w)` files a result and goes round the loop (`Take`
or `Stop`), `Reject(w)` keeps the first failure and returns. `next`, `results` and
`failure` are the variables of the code; `rejected` is history. `Start` includes the
first `Width` items because every worker runs to its first await within the call.

### BuildPlan

What a repository's graph depends on is a set of *inputs*: its files, the installed
package files it was read with (`Installed`), everything else the survey hashes
(`Around`) and the configuration. An input has revisions, and `Text` says which
text each revision has. Values hold revisions and every comparison the code makes
is by text (`SameText`), so a property can tell an edit that was undone from no
edit while the code cannot. A graph is the record of revisions it was read from:
extraction is a function of its inputs, and that is all a build relies on.

### IncrementalBuild

| Code | Here |
| --- | --- |
| `buildProject` loads the configuration | `Begin` |
| cache loaded, every repository surveyed, `planRebuild` | `Survey`, `Plan` |
| `extractOne`: skip, child, open session, failure | `Reuse`, `MissingGraph`; `ChildParses`, `ChildWrites`, `ChildStamps`, `Collect`; `WarmReads`, `WarmWrites`, `WarmDrops`; `ReadFails` |
| the pool throws | `Abandon` |
| link, `keeping`, the writes, `nextCache` and its save | `Link`, `Keeping`, `WriteGraph`, `WriteReport`, `RemoveDb`, `WriteDb`, `SaveCache` |
| an error or a kill | `Throw`, `Crash` |
| `watchProject` opening, told, reloading | `OpenWatch`, `Listen`, `Told`, `Reload` |
| the world | `Save`, `SaveConfig`, `DropGraph` |

A step is what one process does between two moments at which anybody else may act.
`began` and `asked` are history: the sources when each build began, and when the
build that wrote `graph.db` did. `Returns` resets what a build held, which is what
its stack frame going away does. `graph.db` is replaced in two steps, as
`writeGraphDb` does: the old one is removed (`RemoveDb`), the new one renamed to its
place (`WriteDb`).

### ProjectAnswer

The abstract specification. Nothing in it knows of caches, stamps, children or
sessions: sources change, a build begins, and if it answers, every input of every
repository in the answer is as it was at some moment since the build began; an
answer may be taken away for a moment while the next is put in its place; and a
repository is missing only where there was no whole answer before.
`IncrementalBuild` implements it with a mapping that sends the disk to `now`, the
history `began` to `since` and `outputs["db"]` to `answer`; the runs check
`ImplementsProjectAnswer == Answer!Spec`. It asks for a moment per input and not one
moment for all: a reading takes time and the code promises no snapshot.

### Watch

The same watch seen from outside its builds: a build is the moment it loads the
configuration, the moment it surveys and its end. `stage` says where the rebuild
is; `edited`, `moved`, `queued`, `closed`, `timer` are the variables of
`watchProject`. Watchers are chokidar's and external: what they hear becomes an
event, delivered later and in any order; a watcher of a directory that goes away
hears nothing more, also when the directory is back. Steps are as fine as the
code's awaits or finer. A build may throw at any of its stages (`BuildThrows`): before
its survey because the configuration does not load, after it because what it needs
cannot be read or what it made cannot be written. `trigger` prints that and the watch
goes on; what such a build surveyed does not count as built, and nothing tries again
before the watch is told something. `failed` is history: the last rebuild to end
printed an error. `timer` is whether the debounce timer runs, where the code's variable
stays set once `close()` has cleared it.

### ObservedFile

Writers are processes; a step is one call of the file system. `acquireObservedLock`
is `Open` (the exclusive create), `WritePid`, `Look` (`holderOf`), `Judge` (is it
stale, has the wait been long enough) and `Unlink`; what is done under the lock is
`Load` and `Save`; the release is `Check` and `Remove`. The lock is found by its
path, the file there has an identity, its creator: that is what makes "unlink what I
looked at" and "unlink what is there" two different things. `Die` may come anywhere.
A lock of a process that died before the model starts may be there at first. Nothing
keeps a process from being overtaken between any two of its calls. What it read of the
lock (`looked`) stays until it acts on it, and `mistaken` is history: a process has
unlinked what a running process made, because the lock there was no longer the one it
had looked at, or because that one was without a pid for longer than it waits
(`Mistakes`).

### TraceBuffer and Listener

A `TraceBuffer` is the sequence its `Map` iterates over, and its operations are
operators on it: `AddSpan` moves a trace to the end, `CutShort` and `Expired` say how
many traces, from the first on, go. `Listener` is the one thread around it. `Take(b)`
is a whole body: read, remembered, its spans added, the traces that no longer fit
matched. `Sweep` and `FlushTimer` are its two timers, `Close` and `Closed` its stop.
What a span counts for is the number of times it is in `file`, so a property can say
"once". What matching a trace finds is left out; that it may throw, because the graph
cannot be read, is not. `Filed`, the bodies `observe <files>` has read before, tie the
listener to `ObservedWindow`, and the lock it holds all the while to `ObservedFile`.

### ObservedWindow

`mergeObserved` as one step, `Run`: what the file held, plus what the run read, cut to
the window. Spans are one per trace file, so figures add up to counts, and the samples
kept of an entry are the `Few` of an order. `Windows` are what `--since` may say;
`Unsaid` keeps the file's own, `All` lifts it. Its specification is `WindowSpec`, named
apart from that of `ObservedFile` since the proofs about the file extend both.

### QuestionServer

The server runs each request to its end, but looks at files of other processes call by
call: `Exists`, `Stat`, `OpenDb` are `DbHandle.open`, `Decide` and `StampIt` are
`ToolListing.refresh`. `job.purpose` says on whose behalf the database is opened: the
list of tools, the request itself, or the list told by the handle that a generation is
new (`nested`), which is the reentrancy `#refreshing` guards. `RemoveDb`, `RenameDb` and
`SaveObserved` are other processes; `ours` says whether what a build renames has a
schema this server reads. They may act at any step. `seen` is history: the files as they
were when a refresh decided the list, which need not be those it stamps.

### CommitReadings

A run is a `diff` or a `check`, two sides one after the other. Its pool, `Take`, keeps
going after a failure while the answer has already failed, which is `inPools` of
`git/build-at-ref.ts` and differs from that of a build. `GetMeta` and `GetGraph` are
`GraphCache.get`; `PutFirst` and `PutSecond` the two renames of `put`; `Prune` removes an
entry file by file. `Breaks` is a reading that fails, or a worktree git cannot add. The
cache holds what is said of a graph (`meta`) beside the graph,
so it can be wrong. `checkouts` and `workDir` are what is to be gone at the end.

### RouteMatch

An address is a sequence of pieces: a word, a hole, a wildcard, a name with text around
it, a part nobody read, each with its path as written where that lines up. `Find` adds a
route to those of a service (`routesByServiceOf`); one request read in full and one read
in part are asked of them. `MatchRoute` is the choice, `CouldReach`, `BehindUnread` and
`OneSegmentOff` the three sentences about what is not joined. They are checked against
what they claim, directly: the part nobody read is filled with every text of up to
`MaxSpan` segments, of words in a call and of words and holes in a route, and the route
asked again. What runs over the pieces of an address (`Spellings`, `Texts`, `Turns`,
`Filled`) is a recursive function of how many were taken, which can be proved about.

## 3. What is checked

| Run | Instance | States | Question |
| --- | --- | --- | --- |
| `read_pool` | 5 items, 3 wide | 518 | full while there is work, first failure thrown, nothing outlives it, it settles |
| `build_watch` | a watch, 1 repository, 4 files, 3 saves; fail, throw, crash, removed graph, saves at any moment | 282 000 | no save is lost, skipping is sound, the answer is of its time |
| `build_pair` | a watch, one repository held open and one in a child, a save in each and of the configuration | 2 412 000 | what one reading's failure or missing graph does to the other and to the answer |
| `watch` | 2 repositories, one that comes and goes; configuration broken, then mended with one less; builds and openings that throw | 1 330 000 | at rest the watch is up to date or has said why not, watches what is there, holds it as configured; no edit is forgotten; it closes whole and comes to rest |
| `observed_file` | 2 runs of `observe`, a listener that flushes twice, a lock left by a dead process or none, kills anywhere, any process as slow as may be | 181 000 | one writer and nothing lost until a running process's lock is unlinked, whoever asks is answered |
| `listener` | 3 bodies of 3 traces, one read before from a file; room for 4 spans, 2 traces, 2 known bodies; a file spoilt and put right, a graph replaced and gone, a kill | 32 000 | every span once, everything due reached, everything taken written, the stop ends |
| `serve` | 3 builds, 2 saves of `observed.json`, at any step | 814 000 | answers of their time, facts of the open database, the client knows its list, which settles if what was stamped is what was read |
| `commit_readings` | a check of two repositories at a ref one may not have, a diff of working trees with one at that ref; one event; an entry an older build left | 31 700 | what is believed is of its commit, an answer is whole, nothing is left, runs end |
| `route_match` | up to 3 of 15 routes, 11 requests, 5 read in part | 31 700 | the spelled-out route wins, no edge moves back, what is said to be possible is |
| `observed_window` | 3 files over 3 hours, 2 speeds, 1 sample an entry, any runs, windows and resets | 45 000 | the file says what one run would |

The properties, in words:

- `StampsNeverPassTheReading`: an entry of the cache that stands for the graph on
  disk never stamps an input later than the graph read it. This is the reason for
  stamping at the survey, before the reading, and it is what makes every later skip
  sound: a stamp that is too old costs a reading, one that is too new loses a save.
- `SkippedMeansCurrent`: what is skipped was read from what the survey found.
- `QuietBuildDescribesTheSources`: a build of everything during which nothing is
  saved answers with the sources as they are, whatever the builds before it did.
- `CompleteStaysComplete`: a whole answer is never replaced by one that lacks a
  repository.
- `ImplementsProjectAnswer`: refinement, above.
- `UpToDateWhenSettled`, `PresentMeansWatched`, `SessionsFollowTheConfiguration`:
  of a watch at rest with no event on its way. The first is of a watch whose last rebuild
  printed no error: a build that threw after its survey rests with the save unbuilt, and
  what it owes its user then is the message.
- `NoEditIsForgotten`, `NothingBeginsOnceClosed`, `ComesToRest`: of the flags, the
  queue and closing.
- `OneWriterUnlessMistaken`, `LockIsKeptUnlessMistaken`, `SavesAreKeptUnlessMistaken`:
  exclusion, that a lock at work is not taken away, and what both are for: no writer's
  counts are overwritten by one that read the file before them. None of the three holds
  plainly (section 4); they say that unlinking the lock of a running process is the only
  way any of them fails. The release, a pid written late, a death between any two calls
  and a takeover of what a process really left never do. `EveryoneIsAnswered`: the wait
  has an end.
- `EachSpanIsKeptOnce`: a span of a body that was answered is waiting, pending or
  written, in one place, through evictions, failed flushes and posts repeated.
  `WhatAFileSaidIsCountedOnce` says it of bodies `observe` has read from a file.
- `TheOldestGoesFirst`, `ASweepReachesAllThatIsDue`: what the buffer's one order is for.
- `TakenIsWritten`, `StoppedMeansWritten`, `ClosingEnds`: nothing answered is lost as
  long as the process lives or is told to stop, and being told to stop is enough.
- `CountsAreOneRuns`, `FailingAreOneRuns`: for the hours no cut has reached, the file
  holds what one run over all its sources would have put there.
- `AnswersAreCurrent`: an answer is of a database that was there at some time since the
  request, and a refusal means there was none to read. `FactsAreOfTheOpenDatabase`: what
  is read once a generation is of this one. `ClientKnowsOrIsTold`,
  `TheListSettlesIfStamped`: of the list of tools, with every build and every save told by
  a poll or a request. The second says that a list which stays wrong is one whose stamp
  is of files newer than those it was decided from; that there is no such list is
  `TheListSettles`, which the code does not keep (section 4).
- `WhatIsBelievedIsOurs`: a graph a comparison uses is of the service, the commit and
  the build of the tool it takes it for, however runs, prunes and kills interleave in
  the cache. `AnAnswerIsWhole`, `NothingIsLeft`, `EveryRunEnds`: of the pool of a run
  whose readings fail while others go on.
- `SpelledOutWins`: of the route chosen and any other, if the other spells out what this
  one leaves open, this one spells out something the other leaves open. The run has no
  route that is all holes beside a wildcard: section 4 says why. `EdgesMoveToTheNewRoute`:
  a route found later may take a request over or make it ambiguous, and never moves it to
  a route found before. `WhatMightReachCan`: what is said to be able to reach a route
  (`couldReach`, `behindUnread`, `oneSegmentOff`) can, with some text where none was read.

Each has a mutation in the module it is about, a definition whose comment begins
"Mutation of", that breaks it.

### Bounds, and why they are enough

- Five items over three workers: a failure can fall while two other jobs run and
  items are left over. More of either adds no new kind of state.
- `Last` bounds the revisions of an input (at most two saves of a file, one of
  anything else). A lost save takes one save before a stamp and one build after;
  the second save of the handler makes a stamp that is neither the oldest nor the
  newest.
- Four files where a partial reading is meant: one touched file of four is exactly
  the threshold of a quarter; two exceed it. `helper` is imported by `handler`, so a
  refresh has to follow an import.
- One or two repositories. Builds treat repositories alike, and interact through the
  pool, the failure and the answer only; two show each of these.
- `LastSave` bounds comings and goings in `Watch`, `Named` the configurations.
- Three writers: two that find one stale lock, and a third that finds what they made of
  it; a listener saves twice, so that another may save in between. `EmptyLooks = 1`
  stands for ten: the number of looks is compared with a bound and nothing else.
  `lock_takeover` has the ten.
- The listener's bodies are chosen so that one overflows the spans and another the
  traces, `KnownBodies = 2` so that one of three is forgotten. A body forgotten is not
  posted again: 10 000 others have come between. `MaxLives = 1`: what a second life
  starts from is what the first leaves, the file and its sources, which are initial
  states too.
- `MaxBuilds = 3`, `MaxSaves = 2`: a database replaced while the one before is being
  opened, and once more after; what is known of one build is told apart from the next.
- `MaxEvents = 1`: each event of the world against every interleaving of two runs. With
  two events (310 000 states, three minutes) the same properties hold.
- Three routes: two that tie and one that beats either. Addresses of up to three
  segments over four words hold a hole, a wildcard and a word in every order that
  matters, and `MaxSpan = 2` a part nobody read that is more than a segment.
- Three files over three hours with one sample an entry: a sample that pushes out
  another and then leaves the window. Each file is a trace of its own.
- `LastHour`, `Slowest` and `age <= Wait` bound clocks: times are compared, not counted.

`CHECK_DEADLOCK FALSE` is set where the system may really stop: a watch that is closed or
at rest, writers that have ended, a listener that has stopped, a server nobody asks with
nothing left to replace, runs that have ended, routes all found, and a clock at its last
hour.

`build_pair` sets `SavesWhileRead = FALSE`: nothing is saved in a repository between a
child's parse of it and its stamps. With it TRUE the properties do not hold, which is
the first disagreement below. `DiesReplacing = FALSE` everywhere: a build is not killed
between removing `graph.db` and renaming the next to its place.

### Fairness

`ReadPool`: the call is made, each job ends (a reader is a finite computation; a
child that overruns is killed), a settled promise's continuation runs. `Watch`: a
rebuild goes on once what it waits for has happened, an event heard is delivered, a
timer set fires, a `close()` that was called goes on. Nobody is obliged to save or
to close. `ObservedFile`: a process that runs makes its next call and its deadline
passes; nobody has to start, and a holder may hold for ever. `Listener`: time passes,
the flush timer fires and a save works in the end, a server that closes cuts off who
does not end (`closeAllConnections` after a second). `QuestionServer`: a request is
served to its end, weakly, and the poll fires, strongly, since a request may be in the
way of each firing but not of all. `CommitReadings`: a run goes on; a child ends.
`IncrementalBuild`, `RouteMatch` and `ObservedWindow` need none: their properties are safety.

## 4. Disagreements met

Two are runs that TLC refutes, of a property the code's own comments state.

| Run | What happens |
| --- | --- |
| `save_while_read` | A child stamps after it wrote its graph (`commands/extract.ts:374`). A save between parse and stamp is recorded as read, and the next build skips it. |
| `lock_takeover` | Two processes find the lock of a dead one. The first unlinks it and creates its own; the second unlinks that, because it unlinks the path and not what it looked at (`observe/store.ts:123`). Both write. A lock is judged and unlinked in two steps, and its holder may also end of itself between them and another take it: no crash is needed. |

The rest need another value of a constant, or a property stated in the module that no
run checks, and no other model. Paths are under `packages/cli/src` unless they say.

Of builds:

- `MCOneService.cfg`: `--service` writes the cache of all; a repository that was not read
  keeps its old graph beside the survey's new hashes (`commands/build.ts:1294`), and
  `QuietBuildDescribesTheSources` fails.
- `MCReload.cfg`: `reload()` and `buildProject` each load the configuration; one saved in
  between is remembered as that of graphs read with the one before (`build/watch.ts:323`).
- `TextUndone`: a save undone between survey and reading leaves, in the same way as
  `save_while_read`, a graph of the text in between. `TextCreated`: a file created after
  the survey is stamped as it is after the reading. `LastInstalled`: an installed package
  edited while it is being read is stamped as read.
- `DiesReplacing = TRUE` with `FailedBuildsSpareAWholeGraph`: a build killed after
  `graph.db` was removed leaves `project-graph.json` alone, and the next build that fails
  finds no whole pair to keep (`commands/build.ts:1190-1206`,
  `packages/linker/src/db/writer.ts:186-189`) and writes over it.
- `Builders = {watcher, cli}`: two processes overwrite each other's cache and graphs
  (`build/cache.ts:232-236`), and a watch's open repository goes by what changed since its
  own last reading (`packages/extractor-nestjs/src/incremental.ts:160-190`).

Of the watch:

- Opening a repository that came back throws (a file listed a moment ago is gone):
  `reopenMoved` has taken it off `moved` and nobody puts it back (`build/watch.ts:277`).
  `PresentMeansWatched` is claimed where nothing has thrown.
- `Named <- MCMore` with `MayLeave = {web}`: what to watch is worked out after the build
  (`build/watch.ts:255`); a repository new in the configuration whose directory appears
  while the build runs is not watched. With `MayLeave = {api}` the run passes (886 000
  states).
- `LeavesEarly = TRUE`: a repository that comes or goes while the watch is starting is
  told to nobody.

Of what is observed:

- A process that takes longer than a second between creating the lock and writing its pid
  is taken for dead (`observe/store.ts:120`): `OneWriter` fails by that too, in the same
  model, and `Mistakes` counts it.
- `MCTwoRuns.cfg`: "the same spans read in two runs give the same file as one run over
  both" (`packages/core/src/observed.ts:636-639`) is not so of slow samples: one that a
  window will cut pushes out one it would keep, and is then cut.
- `Graphs = {"unreadable"}`: a graph of a schema the listener does not read throws after
  the traces have left the buffer (`observe/listen.ts:283`), and `EachSpanIsKeptOnce`
  fails.
- `MayFailAtClose = TRUE`: the last flush warns that what was read "is kept for the next
  flush", and there is none (`observe/listen.ts:547`); `StoppedMeansWritten` fails.

Of the server and of comparisons:

- A file replaced between the facts and the stamp of one refresh is stamped as seen
  (`packages/mcp/src/tool-listing.ts:161-171`), and no later look finds it changed. The
  list, "decided again [...] if the graph, the observed file or a diff beside it changed"
  (`packages/mcp/src/tool-listing.ts:22-24`), stays as it was until the next replacement.
  `TheListSettles` fails in the model of `serve`, after thirteen steps; the run checks
  `TheListSettlesIfStamped`, which holds with the same race in it.
- `ServerStaysUp`: a database that goes between `existsSync` and `statSync` throws, and in
  the poll nobody catches it (`packages/mcp/src/query/db.ts:86-87`).
- `AnInstallIsSeen`: a graph read with no packages installed is kept under its commit and
  believed after they are (`git/graph-cache.ts:6-9` lists what invalidates an entry).
- `TheWorkDirectoryGoes`: readings that go on after a failure make the work directory
  again.
- `MCSharedCommit.cfg`: two services of one repository share the directory of a commit
  (`git/graph-cache.ts:85-87`). The second takes the first's place, and another run that
  looks between the two renames (`git/graph-cache.ts:123-124`) finds the meta of the first
  beside the graph of the second and believes it; `WhatIsBelievedIsOurs` fails.
- `MCHolesBesideStar.cfg`: of two routes that answer the one that spells out a segment the
  other leaves open is said to win (`packages/linker/src/route-match.ts:306-308`).
  Wildcards are counted before holes, over the whole route, so for `/files/new`
  `/:param/:param` is chosen over `/files/*`; `SpelledOutWins` fails.
- `MCNearMiss.cfg`: `couldReach` compares texts (`route-match.ts:547`). A call of
  `/files/new/${…}` could reach neither `/files/:param/price` nor `/files/*`, which are
  then answered as dead, "nothing that could is unread"
  (`packages/linker/src/analysis/dead.ts:63`); `NearMissesAreAll` fails.
- `MCBehind.cfg`: `openShapeOf` takes a wildcard for its text (`route-match.ts:457`).
  `/${…}/files/*` is not named beside a request below it, and "routes that would answer
  this request" (`route-match.ts:471`) are not all of them; `BehindIsAll` fails.
- `MCTextAround.cfg`: it also takes a name with text around it for any segment, where
  `pathAnswers` holds it to its text. `/${…}/price/foo-:id` is named as one of the "routes
  that would answer this request" for `/files/price/price`, and no text of the part nobody
  read makes it answer; `WhatMightReachCan` fails.

## 5. What is proved

`tlapm` checks these for every value of the constants, where TLC checks an instance.

**ReadPool_proofs** (any `Items` in Nat, any `Limit` in Int): `TypeCorrect`,
`QuietOnceSettled`, `FirstFailureIsThrown`, `ResultsAreComplete`,
`FullWhileItemsAreLeft`, `NothingTakenAfterAFailure`. The invariant says that the items
below `next` are exactly those in flight, filed or rejected, that a worker without a
job has returned, and that a failure is the head of `rejected`.

`NothingKeepsItFromSettling` is what of `PoolSettles` needs no fairness. Until the pool
has settled, a job is under way or a step of its own can be taken, and every step lowers
`StepsLeft`: the items nobody took and the workers that have not returned, and one for
the settling.

**IncrementalBuild_proofs** (any repositories, files, texts, importers, builders and
flags):

- `TypeCorrect`. `TypeOK` is not inductive: the stamp a warm reading takes is typed
  only if the repository was surveyed, and what is written only if it was read. So
  `Typed` adds three facts: what a watch can hold is open from its start to its
  death, what was parsed has a reading, and from its plan on a build has a survey of
  everything.
- `WholeAnswersStayWhole`: `CompleteStaysComplete` where one process builds and is not
  killed between removing the database and renaming the next. The invariant adds: a
  repository has a graph exactly when its reading is done; nothing is linked before
  every reading is done or failed; and a failed build that goes on to write met no whole
  answer when it linked, and after its first write the graph on disk is its own, which
  lacks a repository. Then a write while the answer is whole is of a build without a
  failure. With two processes the last part is false: one links while there is no answer
  and writes after the other has given one, so `Builders = {only}` is a hypothesis.
- `StampsAreSound`, `SkippedIsCurrent`, under `PlainSaves` and `Alone`; `QuietIsCurrent`,
  also under `SettledConfig`; `BuildsImplementProjectAnswer`, the refinement, under
  `PlainSaves`, `Alone` and `~DiesReplacing`. The instance of `build_watch` satisfies all
  of them, that of `build_pair` all but `SettledConfig`, and section 4 shows what goes
  wrong without each: `PlainSaves` (every save a new text of a file that was there and
  stays, nothing installed is edited) excludes `TextUndone`, `TextCreated` and `LastInstalled`; `Alone` (one process, all services,
  and no save between a child's parse and its stamps) excludes two processes,
  `MCOneService.cfg` and `save_while_read`; `SettledConfig` (the configuration is not
  edited or nothing is held open) excludes `MCReload.cfg`.

These four rest on three invariants, each of which says how early something was read.

1. `StampInv` orders the versions: survey, then reading, then disk. What is remembered,
   in the cache or in a watch's own copy of it, has no stamp later than the reading it
   stands for; what a watch holds open has read at least what its entry stamps, and what
   its next reading will be told has changed is what differs from that; what a build has
   yet to do is what the survey found changed. A stamp equal to what the survey found is
   then of the version surveyed, since texts do not repeat, and the reading is no earlier.
2. `SinceInv` orders the same from the other end: what a build surveyed, skipped or read
   is no earlier than what it began with. A build during which nothing is saved has the
   same versions at both ends. For the configuration this needs `SettledConfig`; the
   refinement does without it, since `ProjectAnswer` speaks of the inputs alone.
3. `AnswerInv` ties outputs to answers: `graph.db` is what was last said except while it
   is being replaced, and a build with a failure replaces nothing whole. With it every
   action is a step of `ProjectAnswer` or a stutter: an edit is a change of `now`, the
   beginning of a build one of `since`, `RemoveDb` takes the answer away and `WriteDb`
   gives one whose inputs lie between `since` and `now` by the other two invariants.

**Watch_proofs** (any repositories and configurations, any number of saves):
`TypeCorrect`, `EditsAreKept`, `TwoRebuildsAreEnough`, `ClosedIsDeaf`,
`ClosedBeginsNothing`. Besides the flags before the watch is up, the invariant
says that what hears is a watcher the watch knows of, except one it has just closed
(so closing all it knows closes all), and that `rebuilds`, a set timer and a queued
rebuild add up to two at most.

What it promises at rest is `QuietMeansBuilt`, `QuietMeansWatched` and
`QuietMeansReloaded`, of a watch in which opening a repository has not thrown, where no
repository that may come and go is new in a configuration (`Familiar`) and none does
before the watch is up (`~LeavesEarly`); the instance of `watch` satisfies both, and
section 4 shows what goes wrong without each. None of the three says anything between two
rests, so `RestInv` says for every step of a rebuild who will put right what is not:
`BuiltOrDue`, a save that is not built is in the queue, behind the timer, in an event, or
in a rebuild that has yet to survey it, or the last rebuild threw and said so;
`WatchedIfThere`, a repository that is there is heard, or is among those the rebuild has
yet to open, or its return is on its way; `HeldAsSaid`, it is held as the configuration
followed says, or the rebuild has yet to open it again. `EditIsPending` and
`MovedIsPending` tie the two notes the watch makes for itself to a rebuild that will read
them; `AsideIsWatched` says that what comes and goes is among the places it looks at,
which is what `Familiar` is for.

`NothingOfItsOwnKeepsItRebuilding` (finitely many repositories) is what of `ComesToRest`
needs no fairness. `StepsLeft` counts what the rebuild that runs may still do, a whole
rebuild for a queued one, more than that for a set timer and more again for an event, so
that what is told becomes a timer, the timer a rebuild, and a rebuild the one it owes, each
time at a loss. Opening what moved adds nothing: no step of the watch is an event for it.
Only a save, an edit or a directory that comes or goes raises it.

**ObservedFile_proofs** (any writers, any number of saves, any number of looks):
`TypeCorrect`, `WritersAreAlone`, `SavesAreKept` and `LocksAreKept`, with no hypothesis
on how the processes are scheduled. The invariant, for as long as no process was mistaken:
a holder's lock is at the path and names it, so there is one holder; a process is gone
once it was judged to be, so unlinking what it left takes from nobody; what a writer has
loaded is what the file still holds. The race of `lock_takeover` is in the steps these
theorems speak of: they say where it has to have happened before anything is lost.

`NothingKeepsTheLateAsking` (finitely many writers) is what of `EveryoneIsAnswered` needs
no fairness. No guard of a process that asks waits for another. Once its deadline has
passed `StepsToAnswer` falls with each of its steps: it goes round again only for a lock
that was let go or is stale, which it then creates, unless another has; and a process
creates one lock, which sets back the others by less than its having done so takes off.

The same module has the proofs of `ObservedWindow`, what those writers make of the file
(any finite set of trace files, any clock and windows, any way of dividing the files
between runs). `HoursAreOneRuns`: a run adds exactly what it is the first to read, so the
counts of an hour are the size of a union; the furthest cut bounds every cut, and an hour
after it has lost nothing. `FailuresShownAreOneRuns`: who is left out of a list of a few
has a few before it that are on the list (the least of those left out has; a least one
exists because the order by how many are before is well founded), so who is left out of
one list is left out of what two lists make; and what a cut removes comes after all that
it leaves.

**Listener_proofs** (any bodies and spans, any bounds, any number of lives):

- `TypeCorrect`, `OldestGoesFirst`, `SweepsReachAll`, `FilesAreCountedOnce`, with no
  hypothesis. `Sound` says that a trace is held once, holds its own spans, and stands
  in the buffer by when a span was last added to it: what a sweep, a bound or the end takes is
  a prefix of the buffer, so nothing younger goes first and nothing due stays behind.
  That order is kept when a span joins a trace already held, since the trace moves to the
  end. `ReadIsRemembered` says that what was read is known, or was until the memory was
  full, and what the file names is not read again (unless the listener starts over); `WaitsWasRead`, that only what was read
  waits; `NamedIsInIt`, that what the file names is in it once; `StartsOver`, that a
  listener that starts over lets go of what the file held and named at its first flush,
  and writes nothing before.
- `SpansAreKeptOnce`, where no build leaves a `graph.db` that cannot be read. It is
  inductive beside `ListenerInv`, once it is known that what leaves the buffer is matched
  in full and what does not stays: `KeptInv`.
- `StoppingWritesAll`, where besides the file can be read and written at the end:
  `StoppedInv` adds that the file can be read by a listener that is closing.

Section 4 shows both hypotheses to be needed; the instance of `listener` satisfies them.

**QuestionServer_proofs** (any number of builds and saves, replaced between any two
looks): `FactsAreOfThisDatabase`, `ClientsAreTold`, `AnswersAreOfTheirTime`. The server
compares times, and the properties speak of databases. So the invariant says that what is
there is the last build's work, and that a database is held under no later time than its
own (the time is read before the file is opened): two equal times then mean one database.
`since` contains what was there at the last look, and what has been told to the client is
behind the server's list only until the refresh that found out has told it.

**CommitReadings_proofs** (any runs and services, any refs, any number of events):
`TypeCorrect`, `AnswersAreWhole`, `RunsLeaveNothing`, and `BelievedGraphsAreRight` where
every service has a repository of its own, which `MCSharedCommit.cfg` shows to be needed.
A meta that says it is ours must be beside a graph that is, in every order of gets, puts
and removals: the graph is renamed to its place first, so the invariant has it right
between the two renames too, and between the two looks of a get. That no worktree is left
needs what a worktree is for: its process is in one of five phases, none of which is an
end. That an answer is whole needs that the pool takes each service once.

`NothingKeepsARunFromEnding` is what of `EveryRunEnds` needs no fairness. Its first half,
that a run that is there has a step whose guard holds (`CanProceed`), needs `InOrder`:
what the pool took is waiting no more, and one reading at most is inside a call that does
not wait, so that this one, or else any other, has its turn. Its second half is a number
(`StepsLeft`): the stages the readings of the side have left, all of the second side's
while the run is on its first, and the ends. Each step of the run lowers it; other runs,
prunes and moved refs, which the run meets in the cache, do not raise it.

**RouteMatch_proofs** (any routes and requests): `TypeCorrect`, `NoEdgeMovesBack`,
`SpelledOutIsChosen`, `WhatIsNamedIsReal`. The
order of the ranks is irreflexive and transitive; a route that was as good as the one
chosen now can only have been beaten by the new route, which something found before beats
in its turn, and so would have beaten it already.

`SpelledOutIsChosen`: every segment of an address is a wildcard, a hole or spelled out
(`SpelledAreCounted`), so a rank compares wildcards, then holes, then what is spelled out;
an address that spells out what another leaves open, and leaves open nothing the other
spells out, is the more specific of the two. The hypothesis `WildcardsGiveWay` says that
such an address has no more wildcards than the one it would replace and, if as many, no
hole beside one of them. It is so wherever no address that answers has a wildcard
(`WithoutWildcardsThisIsSo`) and of the instance of `route_match`; `MCHolesBesideStar.cfg`
is a pair of routes of which it is not, and there the promise fails.

`WhatIsNamedIsReal`: `WhatMightReachCan` of any routes and any requests. Each of its three
parts has a lemma that builds the witness. `NearMissesCan`: of the text that both the
route and the call match, each hole becomes a word the route's piece takes
(`ReachableIsReached`). `BehindCan`: the text an unread part stood for is put there as
pieces (`FilledAddressTakes`). `OneOffCan`: the segment that differs is changed, added or
left out where it is (`OneIsChanged`, `OneIsAdded`, `OneIsLeftOut`). Two hypotheses:
`SpansAreLongEnough`, that an address is at most one segment longer than what the model
puts where nothing was read, which is about the bound `MaxSpan` and not about the code, and
`HolesAreBare`, that a route some of which was not read has no text around a name, without
which `BehindIsPossible` is false of the code (`MCTextAround.cfg`). The run's routes and
requests satisfy both.

What the operators over addresses return is proved here and not assumed. The library's
induction theorems take an operator, which no prover at hand can instantiate; so the set of
numbers of segments up to which a statement holds is a set (`StepByStep`, `AllTheWay`):
where it is not all of them, one is the first outside it (`SomeIsLeast`, from
the library's well-foundedness of the naturals), and the one before is inside.
`SomethingIsMade` gives a recursive function its value and its type at every argument, and
`TextsInTurn`, `SpellingsInTurn` and `FilledInTurn` are its instances. `AnsweringIs`, that
a route answers on one of its addresses and on one that takes the request, was an
assumption on the constants before and is a lemma now.

Assumptions are those named in the modules. `None` being neither a reading nor a function
of readings or revisions, and `Empty`, `Nobody`, `NoLock`, `NoDb`, `NoAnswer` and
`NoCommit` being none of what they stand in for the absence of, are the only ones that are
not a typing of the constants or a plain fact about them: in `RouteAssumption`, that
words, shapes and the marks for holes, wildcards and unread parts are told apart and that
text around a name leaves room for some word; `CommitReadingsAssumption` also says that a
side names a service once, that the first side names them all (`commands/diff.ts` takes
the second's others from it), and that what an older build left does not say it is this
build's. TLC evaluates all of them in the runs.

**Only model-checked**: the seven liveness properties, since fairness and `ENABLED` are
outside the prover. Of four of them the rest is proved (`NothingKeepsItFromSettling`,
`NothingOfItsOwnKeepsItRebuilding`, `NothingKeepsTheLateAsking`,
`NothingKeepsARunFromEnding`): there is a step to take until the end, its guard written
out as a state predicate, and only so many steps. That the guards written out are those of
the actions is seen by the four properties, which fail if an action is not enabled where
they say. Nothing of the kind is proved for `ClosingEnds`, `TakenIsWritten` and
`TheListSettlesIfStamped`. Every other property of a passing run is the conclusion of a
theorem.

## 6. Abstractions

- Surveying or parsing one repository is one step. The survey of all repositories is
  one step, as it is one synchronous run of the code; the files under it can still
  change while it runs, which the model does not have.
- A child loads its configuration and parses in one step.
- Each graph, report and cache file is replaced atomically: the code writes beside and
  renames. `graph.db` is removed first.
- Imports do not change; the type, path and name of a service do not change.
- Modification times of sources are not modelled: a stamp is of a text. That a watch
  trusts a file's size and time (`build/cache.ts:305`) is a hazard no property covers.
  In `QuestionServer` two builds have two times.
- `--skip-frontend`, services declared rather than read, services no extractor reads,
  pruning and leftovers of service directories, versions in the cache and a corrupt
  cache: not modelled. None of the services named is surveyed, stamped or cached.
- In `Watch`, of the places beside repositories only the configuration and the
  repositories' own directories. What an event is about is decided by code the model
  takes as given (`mattersTo`, `isIgnored`).
- In `ObservedFile` a pid is not reused, a directory that is not there (where the
  code takes no lock) is left out, and so is `--reset`, which begins without what was there
  (`ObservedWindow` has it).
- In `Listener` a body is of one post: what is refused before it is read (too large, not
  a format it knows, a server that is full) changes nothing that is modelled.
- In `RouteMatch` a word stands for its spellings in any case, an address is never the
  empty text, and a part nobody read begins and ends at a separator. The prefixes a
  client is configured with are left out.
- In `CommitReadings` git answers at once, and a graph is its service, commit, packages
  and reader. `--keep-worktrees` (`git/worktree.ts:200`), which leaves what `NothingIsLeft`
  says is not left, is not modelled, and neither is the empty directory that stays where
  git could not add a worktree (`git/worktree.ts:182-192`).
- In `ObservedWindow` each file is a trace of its own: the same trace met again in another
  file, of which the newer copy is kept (`packages/core/src/observed.ts:487`), is left out.

## 7. Not modelled, and why

- **Extractors and adapters, core's helpers over syntax trees, Terraform and Step
  Functions readers**: five sixths of the code. They are sequential functions from
  documents to graph nodes, with the state of one pass; nothing of them interleaves,
  fails half way or is retried, and what the rest of the system relies on is that a
  graph is a function of its inputs, which is how `IncrementalBuild` has them. A
  bounded check of a rule over syntax trees would restate the rule.
- **Linker**, but for its routes: deterministic functions from graphs to a graph. The
  same holds.
- **Splice**: a pure function of two graphs and a set of files. Its one caller
  (`extractWarm`, `commands/build.ts:828`) comes to it when an open repository answers for
  less than the repository, and none does today.
- **Cycles** (`analysis/scc.ts`): one search over a finished graph, to its end within a
  call, with no state kept between calls.
- **Questions, reports and pages**: read-only over a finished graph; their output is text.

For this reason the map covers a small share of the repository's lines: it covers nearly
all of what is concurrent or persistent in it.

## 8. Plan

Done: the modules of section 2 and the proofs of section 5. The core came first, since a
lost save is the worst this program can do; then what shares its directory.

Next, in order:

1. `Listener` and `ObservedFile` composed: a listener's flush as calls of the file
   system.
2. How a call finds the service it is to, and channels.
