---------------------------- MODULE Watch_proofs ----------------------------
(***************************************************************************)
(* Proofs about Watch: what holds of a watch for any repositories, any     *)
(* configurations and any number of saves, at rest and on the way there.   *)
(* Nothing here needs fairness.                                            *)
(***************************************************************************)
EXTENDS Watch, FiniteSetTheorems, TLAPS

\* Until the watch is up it is told nothing, so it is of the configuration it
\* was started with.
QuietUntilUp ==
    start \in {"firstBuild", "scanning", "lookingAside"} =>
        ~edited /\ loaded = 0 /\ ConfigurationEdited \notin events /\ ~closed

\* Until it has looked aside, no repository comes or goes for it, and its
\* rebuilds open nothing.
NothingMovesUntilScanned ==
    start \in {"firstBuild", "scanning"} =>
        /\ targets = {} /\ moved = {}
        /\ stage \in {"idle", "moving", "building", "reading"}
        /\ stage = "moving" => todo = {}

\* What hears a repository is a watcher the watch knows of, and the one it has
\* just closed hears nothing.
HearingIsKnown ==
    /\ hearing \subseteq repositories
    /\ stage = "reopening" => at \notin hearing

\* A watch that is closed was waited for.
ClosedIsIdle == start = "closed" => closed /\ stage = "idle" /\ hearing = {}

\* Every rebuild that is to come was earned by something it was told: by a timer
\* that is set, or by one that fired during another rebuild.
RebuildsAreEarned ==
    /\ rebuilds \in {0, 1, 2}
    /\ timer \/ queued => rebuilds \in {0, 1}
    /\ timer /\ queued => rebuilds = 0

WatchInv ==
    /\ TypeOK
    /\ QuietUntilUp
    /\ NothingMovesUntilScanned
    /\ HearingIsKnown
    /\ ClosedIsIdle
    /\ RebuildsAreEarned
    /\ NoEditIsForgotten

-----------------------------------------------------------------------------
LEMMA EventsDiffer ==
    \A s \in Services : Saved(s) # ConfigurationEdited /\ Moved(s) # ConfigurationEdited
BY DEF Saved, Moved, ConfigurationEdited

LEMMA InitWatch == Init => WatchInv
<1> SUFFICES ASSUME Init PROVE WatchInv
  OBVIOUS
<1>1. TypeOK
  <2>1. config \in Configs /\ loaded \in Configs /\ at \in Services
    BY WatchAssumption DEF Init
  <2>2. /\ sessions \in [Services -> Configs \union {NoSession}]
        /\ took \in [Services -> Nat \union {NeverBuilt}]
        /\ built \in [Services -> Nat \union {NeverBuilt}]
        /\ base \in [saves : [Services -> Nat], config : Configs]
    BY WatchAssumption DEF Init
  <2>3. /\ edited \in BOOLEAN /\ timer \in BOOLEAN /\ queued \in BOOLEAN /\ closed \in BOOLEAN
        /\ thrown \in BOOLEAN /\ failed \in BOOLEAN
    BY Zenon DEF Init
  <2>5. start \in Starts /\ stage \in Stages
    BY Zenon DEF Init, Starts, Stages
  <2>6. rebuilds \in 0 .. 3
    <3>1. rebuilds = 0
      BY Zenon DEF Init
    <3> QED
      BY ONLY <3>1
  <2>4. /\ saves \in [Services -> Nat] /\ present \subseteq Services
        /\ events \subseteq Events /\ hearing \subseteq Services
        /\ toWatch \subseteq Services /\ repositories \subseteq Services
        /\ targets \subseteq Services /\ moved \subseteq Services /\ todo \subseteq Services
    BY DEF Init
  <2> QED
    BY <2>1, <2>2, <2>3, <2>4, <2>5, <2>6 DEF TypeOK
<1>2. RebuildsAreEarned /\ HearingIsKnown
  BY DEF Init, RebuildsAreEarned, HearingIsKnown
<1>3. QuietUntilUp /\ NothingMovesUntilScanned /\ ClosedIsIdle /\ NoEditIsForgotten
  BY DEF Init, QuietUntilUp, NothingMovesUntilScanned, ClosedIsIdle, NoEditIsForgotten, Up
<1> QED
  BY <1>1, <1>2, <1>3 DEF WatchInv

\* What the head of a rebuild may do.
LEMMA BeginRebuildDoes ==
    ASSUME TypeOK, BeginRebuild
    PROVE  /\ \/ /\ UNCHANGED <<edited, loaded>>
                 /\ stage' = "moving" /\ todo' = moved
              \/ /\ edited /\ config \in Loads
                 /\ edited' = FALSE /\ loaded' = config
                 /\ stage' = "lettingGo" /\ todo' = repositories \ Named[config]
           /\ rebuilds' \in 0 .. 3
           /\ rebuilds = 0 => rebuilds' = 1
           /\ rebuilds = 1 => rebuilds' = 2
<1>1. /\ rebuilds' \in 0 .. 3
      /\ rebuilds = 0 => rebuilds' = 1
      /\ rebuilds = 1 => rebuilds' = 2
  <2>1. rebuilds \in 0 .. 3 /\ rebuilds' = IF rebuilds < 3 THEN rebuilds + 1 ELSE rebuilds
    BY DEF TypeOK, BeginRebuild
  <2> QED
    BY ONLY <2>1
<1> QED
  BY <1>1 DEF BeginRebuild

\* The end of a rebuild, and a trigger, hold nothing they should not.
LEMMA RebuildTyped ==
    ASSUME TypeOK, BeginRebuild \/ AfterARebuild \/ Trigger
    PROVE  /\ edited' \in BOOLEAN /\ loaded' \in Configs
           /\ stage' \in Stages /\ todo' \subseteq Services /\ rebuilds' \in 0 .. 3
           /\ AfterARebuild \/ Trigger => queued' \in BOOLEAN
<1>1. ASSUME BeginRebuild
      PROVE  /\ edited' \in BOOLEAN /\ loaded' \in Configs
             /\ stage' \in Stages /\ todo' \subseteq Services /\ rebuilds' \in 0 .. 3
  <2>1. /\ edited \in BOOLEAN /\ loaded \in Configs /\ config \in Configs
        /\ moved \subseteq Services /\ repositories \subseteq Services
    BY DEF TypeOK
  <2> QED
    BY <1>1, <2>1, BeginRebuildDoes DEF Stages
<1>2. /\ edited \in BOOLEAN /\ queued \in BOOLEAN /\ loaded \in Configs
      /\ stage \in Stages /\ todo \subseteq Services /\ rebuilds \in 0 .. 3
  BY DEF TypeOK
<1>3. AfterARebuild \/ Trigger => queued' \in BOOLEAN
  BY <1>2 DEF AfterARebuild, Trigger
<1>4. CASE AfterARebuild
  BY <1>1, <1>2, <1>3, <1>4 DEF AfterARebuild, Stages
<1>5. CASE Trigger
  BY <1>1, <1>2, <1>3, <1>5 DEF Trigger
<1> QED
  BY <1>1, <1>3, <1>4, <1>5

LEMMA TypeOKKept ==
    ASSUME TypeOK, [Next]_vars PROVE TypeOK'
<1> USE WatchAssumption DEF TypeOK, Configs, world, ears, watch, flags, rebuild
<1>1. CASE World
  <2>1. CASE \E s \in Services : Save(s)
    BY <2>1 DEF Save, Events
  <2>2. CASE \E s \in Services : Leave(s)
    BY <2>2 DEF Leave, Aside, Events
  <2>3. CASE \E s \in Services : Return(s)
    BY <2>3 DEF Return, Aside, Events
  <2>4. CASE EditConfiguration
    BY <2>4 DEF EditConfiguration, Events
  <2> QED
    BY <1>1, <2>1, <2>2, <2>3, <2>4 DEF World
<1>2. CASE RebuildStep
  <2>1. CASE \E s \in Services : LetGo(s)
    BY <2>1 DEF LetGo
  <2>2. CASE OpenAll
    BY <2>2 DEF OpenAll, ToOpen, Stages
  <2>3. CASE \E s \in Services : OpenOne(s)
    <3>1. PICK s \in Services : OpenOne(s)
      BY <2>3
    <3>2. stage' \in Stages /\ at' \in Services /\ todo' \subseteq Services
      BY <3>1 DEF OpenOne, Open, Stages
    <3>3. sessions' \in [Services -> Configs \union {NoSession}]
      BY <3>1 DEF OpenOne, Open
    <3> QED
      BY <3>1, <3>2, <3>3 DEF OpenOne
  <2>4. CASE WatcherReady("openingWatcher", "opening")
    BY <2>4 DEF WatcherReady, Stages
  <2>5. CASE Opened
    BY <2>5 DEF Opened, Stages
  <2>6. CASE \E s \in Services : ReopenMoved(s)
    BY <2>6 DEF ReopenMoved, Stages
  <2>7. CASE Reopen
    BY <2>7 DEF Reopen, Open, WithoutIt, Stages
  <2>8. CASE WatcherReady("reopeningWatcher", "moving")
    BY <2>8 DEF WatcherReady, Stages
  <2>9. CASE LoadConfig
    BY <2>9 DEF LoadConfig, Stages
  <2>10. CASE Survey
    BY <2>10 DEF Survey, Stages
  <2>11. CASE BuildEnds
    BY <2>11, RebuildTyped DEF BuildEnds, Retargeted
  <2>12. CASE BuildThrows
    BY <2>12, RebuildTyped DEF BuildThrows, Retargeted
  <2>13. CASE OpenThrows
    BY <2>13, RebuildTyped DEF OpenThrows, WithoutIt
  <2> QED
    BY <1>2, <2>1, <2>2, <2>3, <2>4, <2>5, <2>6, <2>7, <2>8, <2>9, <2>10, <2>11, <2>12, <2>13 DEF RebuildStep
<1>3. CASE Hear
  <2>1. CASE \E s \in Services : HearSaved(s)
    BY <2>1 DEF HearSaved, Touched
  <2>2. CASE HearConfiguration
    BY <2>2 DEF HearConfiguration, Touched
  <2>3. CASE \E s \in Services : HearMoved(s)
    <3>1. PICK s \in Services : HearMoved(s)
      BY <2>3
    <3>2. timer' \in BOOLEAN
      BY Zenon, <3>1 DEF HearMoved, Touched
    <3>3. moved' \subseteq Services /\ rebuilds' \in 0 .. 3 /\ events' \subseteq Events
      BY <3>1 DEF HearMoved, Touched, MovedNames
    <3> QED
      BY <3>1, <3>2, <3>3 DEF HearMoved
  <2> QED
    BY <1>3, <2>1, <2>2, <2>3 DEF Hear
<1>4. CASE TimerFires
  BY <1>4, RebuildTyped DEF TimerFires, TimerDone
<1>5. CASE StartStep
  <2>1. CASE Scan
    BY <2>1 DEF Scan, Starts
  <2>2. CASE \E s \in Services : Watched(s)
    BY <2>2 DEF Watched
  <2>3. CASE LookAside
    BY <2>3 DEF LookAside, Starts
  <2>4. CASE ComesUp
    BY <2>4 DEF ComesUp, Starts
  <2> QED
    BY <1>5, <2>1, <2>2, <2>3, <2>4 DEF StartStep
<1>6. CASE Close
  BY <1>6 DEF Close
<1>7. CASE CloseWatchers
  BY <1>7 DEF CloseWatchers, Starts
<1>8. CASE UNCHANGED vars
  BY <1>8 DEF vars
<1> QED
  BY <1>1, <1>2, <1>3, <1>4, <1>5, <1>6, <1>7, <1>8 DEF Next

LEMMA QuietUntilUpKept ==
    ASSUME WatchInv, [Next]_vars PROVE QuietUntilUp'
<1>0. QuietUntilUp
  BY DEF WatchInv, TypeOK
<1> USE <1>0, EventsDiffer DEF QuietUntilUp, Starts,
            world, ears, watch, flags, rebuild
<1>1. CASE World
  BY <1>1 DEF World, Save, Leave, Return, EditConfiguration, Aside, Up
<1>2. CASE RebuildStep
  <2>1. CASE \E s \in Services : LetGo(s) \/ OpenOne(s) \/ ReopenMoved(s)
    BY <2>1 DEF LetGo, OpenOne, ReopenMoved, Open
  <2>2. CASE OpenAll \/ Opened \/ LoadConfig \/ Survey
    BY <2>2 DEF OpenAll, Opened, LoadConfig, Survey, ToOpen
  <2>3. CASE WatcherReady("openingWatcher", "opening") \/ WatcherReady("reopeningWatcher", "moving")
            \/ Reopen
    BY <2>3 DEF WatcherReady, Reopen, Open, WithoutIt
  <2>4. CASE BuildEnds \/ BuildThrows \/ OpenThrows
    BY <2>4 DEF BuildEnds, BuildThrows, OpenThrows, AfterARebuild, BeginRebuild, Retargeted, WithoutIt, Up
  <2> QED
    BY <1>2, <2>1, <2>2, <2>3, <2>4 DEF RebuildStep
<1>3. CASE Hear
  BY <1>3 DEF Hear, HearSaved, HearConfiguration, HearMoved, Touched, MovedNames
<1>4. CASE TimerFires
  BY <1>4 DEF TimerFires, TimerDone, Trigger, BeginRebuild
<1>5. CASE StartStep
  BY <1>5 DEF StartStep, Scan, Watched, LookAside, ComesUp
<1>6. CASE Close \/ CloseWatchers
  BY <1>6 DEF Close, CloseWatchers, MayLetGo, Up
<1>7. CASE UNCHANGED vars
  BY <1>7 DEF vars
<1> QED
  BY <1>1, <1>2, <1>3, <1>4, <1>5, <1>6, <1>7 DEF Next

LEMMA NothingMovesUntilScannedKept ==
    ASSUME WatchInv, [Next]_vars PROVE NothingMovesUntilScanned'
<1>0. NothingMovesUntilScanned /\ QuietUntilUp /\ ClosedIsIdle
  BY DEF WatchInv, TypeOK
<1> USE <1>0, EventsDiffer DEF NothingMovesUntilScanned, QuietUntilUp, ClosedIsIdle, Starts,
            world, ears, watch, flags, rebuild
<1>1. CASE World
  BY <1>1 DEF World, Save, Leave, Return, EditConfiguration, Aside, Up
<1>2. CASE RebuildStep
  <2>1. CASE \E s \in Services : LetGo(s) \/ OpenOne(s) \/ ReopenMoved(s)
    BY <2>1 DEF LetGo, OpenOne, ReopenMoved, Open
  <2>2. CASE OpenAll \/ Opened \/ LoadConfig \/ Survey
    BY <2>2 DEF OpenAll, Opened, LoadConfig, Survey, ToOpen
  <2>3. CASE WatcherReady("openingWatcher", "opening") \/ WatcherReady("reopeningWatcher", "moving")
            \/ Reopen
    BY <2>3 DEF WatcherReady, Reopen, Open, WithoutIt
  <2>4. CASE BuildEnds \/ BuildThrows \/ OpenThrows
    BY <2>4 DEF BuildEnds, BuildThrows, OpenThrows, AfterARebuild, BeginRebuild, Retargeted, WithoutIt, Up
  <2> QED
    BY <1>2, <2>1, <2>2, <2>3, <2>4 DEF RebuildStep
<1>3. CASE Hear
  BY <1>3 DEF Hear, HearSaved, HearConfiguration, HearMoved, Touched, MovedNames
<1>4. CASE TimerFires
  BY <1>4 DEF TimerFires, TimerDone, Trigger, BeginRebuild
<1>5. CASE StartStep
  BY <1>5 DEF StartStep, Scan, Watched, LookAside, ComesUp
<1>6. CASE Close \/ CloseWatchers
  BY <1>6 DEF Close, CloseWatchers, MayLetGo, Up
<1>7. CASE UNCHANGED vars
  BY <1>7 DEF vars
<1> QED
  BY <1>1, <1>2, <1>3, <1>4, <1>5, <1>6, <1>7 DEF Next

LEMMA HearingIsKnownKept ==
    ASSUME WatchInv, [Next]_vars PROVE HearingIsKnown'
<1>0. HearingIsKnown /\ NothingMovesUntilScanned
  BY DEF WatchInv, TypeOK
<1> USE <1>0 DEF HearingIsKnown, NothingMovesUntilScanned, Starts,
            world, ears, watch, flags, rebuild
<1>1. CASE World
  BY <1>1 DEF World, Save, Leave, Return, EditConfiguration, Aside, Up
<1>2. CASE RebuildStep
  <2>1. CASE \E s \in Services : LetGo(s) \/ OpenOne(s) \/ ReopenMoved(s)
    BY <2>1 DEF LetGo, OpenOne, ReopenMoved, Open
  <2>2. CASE OpenAll \/ Opened \/ LoadConfig \/ Survey
    BY <2>2 DEF OpenAll, Opened, LoadConfig, Survey, ToOpen
  <2>3. CASE WatcherReady("openingWatcher", "opening") \/ WatcherReady("reopeningWatcher", "moving")
            \/ Reopen
    BY <2>3 DEF WatcherReady, Reopen, Open, WithoutIt
  <2>4. CASE BuildEnds \/ BuildThrows \/ OpenThrows
    BY <2>4 DEF BuildEnds, BuildThrows, OpenThrows, AfterARebuild, BeginRebuild, Retargeted, WithoutIt, Up
  <2> QED
    BY <1>2, <2>1, <2>2, <2>3, <2>4 DEF RebuildStep
<1>3. CASE Hear
  BY <1>3 DEF Hear, HearSaved, HearConfiguration, HearMoved, Touched, MovedNames
<1>4. CASE TimerFires
  <2>1. UNCHANGED <<hearing, repositories, at>>
    BY <1>4 DEF TimerFires
  <2>2. stage' = stage \/ stage' \in {"moving", "lettingGo"}
    BY <1>4 DEF TimerFires, Trigger, BeginRebuild
  <2> QED
    BY <2>1, <2>2
<1>5. CASE StartStep
  BY <1>5 DEF StartStep, Scan, Watched, LookAside, ComesUp
<1>6. CASE Close \/ CloseWatchers
  BY <1>6 DEF Close, CloseWatchers, MayLetGo, Up
<1>7. CASE UNCHANGED vars
  BY <1>7 DEF vars
<1> QED
  BY <1>1, <1>2, <1>3, <1>4, <1>5, <1>6, <1>7 DEF Next

LEMMA ClosedIsIdleKept ==
    ASSUME WatchInv, [Next]_vars PROVE ClosedIsIdle'
<1>0. ClosedIsIdle /\ HearingIsKnown
  BY DEF WatchInv, TypeOK
<1> USE <1>0 DEF ClosedIsIdle, HearingIsKnown, Starts,
            world, ears, watch, flags, rebuild
<1>1. CASE World
  BY <1>1 DEF World, Save, Leave, Return, EditConfiguration, Aside, Up
<1>2. CASE RebuildStep
  <2>1. CASE \E s \in Services : LetGo(s) \/ OpenOne(s) \/ ReopenMoved(s)
    BY <2>1 DEF LetGo, OpenOne, ReopenMoved, Open
  <2>2. CASE OpenAll \/ Opened \/ LoadConfig \/ Survey
    BY <2>2 DEF OpenAll, Opened, LoadConfig, Survey, ToOpen
  <2>3. CASE WatcherReady("openingWatcher", "opening") \/ WatcherReady("reopeningWatcher", "moving")
            \/ Reopen
    BY <2>3 DEF WatcherReady, Reopen, Open, WithoutIt
  <2>4. CASE BuildEnds \/ BuildThrows \/ OpenThrows
    BY <2>4 DEF BuildEnds, BuildThrows, OpenThrows, AfterARebuild, BeginRebuild, Retargeted, WithoutIt, Up
  <2> QED
    BY <1>2, <2>1, <2>2, <2>3, <2>4 DEF RebuildStep
<1>3. CASE Hear
  BY <1>3 DEF Hear, HearSaved, HearConfiguration, HearMoved, Touched, MovedNames
<1>4. CASE TimerFires
  BY <1>4 DEF TimerFires, TimerDone, Trigger, BeginRebuild
<1>5. CASE StartStep
  BY <1>5 DEF StartStep, Scan, Watched, LookAside, ComesUp
<1>6. CASE Close \/ CloseWatchers
  BY <1>6 DEF Close, CloseWatchers, MayLetGo, Up
<1>7. CASE UNCHANGED vars
  BY <1>7 DEF vars
<1> QED
  BY <1>1, <1>2, <1>3, <1>4, <1>5, <1>6, <1>7 DEF Next

LEMMA RebuildsAreEarnedKept ==
    ASSUME WatchInv, [Next]_vars PROVE RebuildsAreEarned'
<1>0. /\ TypeOK /\ RebuildsAreEarned
      /\ timer \in BOOLEAN /\ queued \in BOOLEAN /\ closed \in BOOLEAN
  BY DEF WatchInv, TypeOK
<1>1. ASSUME UNCHANGED <<timer, queued, rebuilds>> PROVE RebuildsAreEarned'
  BY <1>0, <1>1 DEF RebuildsAreEarned
<1>2. ASSUME Touched, UNCHANGED queued PROVE RebuildsAreEarned'
  BY <1>0, <1>2 DEF RebuildsAreEarned, Touched
<1>3. ASSUME BeginRebuild 
      PROVE  /\ rebuilds = 0 => rebuilds' = 1
             /\ rebuilds = 1 => rebuilds' = 2
  BY <1>0, <1>3, BeginRebuildDoes
<1>4. ASSUME AfterARebuild, UNCHANGED timer PROVE RebuildsAreEarned'
  <2>1. CASE queued /\ ~closed
    BY <1>0, <1>3, <1>4, <2>1 DEF AfterARebuild, RebuildsAreEarned
  <2>2. CASE ~(queued /\ ~closed)
    BY <1>1, <1>4, <2>2 DEF AfterARebuild
  <2> QED
    BY <2>1, <2>2
<1>5. CASE World
  BY <1>1, <1>5 DEF World, Save, Leave, Return, EditConfiguration, flags
<1>6. CASE RebuildStep
  BY <1>1, <1>4, <1>6 DEF RebuildStep, LetGo, OpenAll, OpenOne, WatcherReady, Opened, ReopenMoved,
     Reopen, LoadConfig, Survey, BuildEnds, BuildThrows, OpenThrows, flags
<1>7. CASE Hear
  BY <1>1, <1>2, <1>7 DEF Hear, HearSaved, HearConfiguration, HearMoved
<1>8. CASE TimerFires
  <2>1. timer /\ timer' = FALSE
    BY <1>8 DEF TimerFires, TimerDone
  <2>2. CASE ~closed /\ stage = "idle"
    BY <1>0, <1>3, <1>8, <2>1, <2>2 DEF TimerFires, Trigger, RebuildsAreEarned
  <2>3. CASE closed \/ stage # "idle"
    BY <1>0, <1>8, <2>1, <2>3 DEF TimerFires, Trigger, RebuildsAreEarned
  <2> QED
    BY <2>2, <2>3
<1>9. CASE StartStep \/ CloseWatchers \/ UNCHANGED vars
  BY <1>1, <1>9 DEF StartStep, Scan, Watched, LookAside, ComesUp, CloseWatchers, vars, flags
<1>10. CASE Close
  BY <1>0, <1>10 DEF Close, RebuildsAreEarned
<1> QED
  BY <1>5, <1>6, <1>7, <1>8, <1>9, <1>10 DEF Next

LEMMA NoEditIsForgottenKept ==
    ASSUME WatchInv, [Next]_vars PROVE NoEditIsForgotten'
<1>0. /\ TypeOK /\ NoEditIsForgotten /\ QuietUntilUp
      /\ edited \in BOOLEAN /\ queued \in BOOLEAN /\ closed \in BOOLEAN
  BY DEF WatchInv, TypeOK
<1>1. ASSUME UNCHANGED <<start, base, config>>,
             ConfigurationEdited \in events => ConfigurationEdited \in events',
             UNCHANGED <<edited, loaded>> \/ loaded' = config
      PROVE  NoEditIsForgotten'
  BY <1>0, <1>1 DEF NoEditIsForgotten, Up
<1>2. ASSUME BeginRebuild PROVE UNCHANGED <<edited, loaded>> \/ loaded' = config
  BY <1>0, <1>2, BeginRebuildDoes
<1>3. ASSUME AfterARebuild PROVE UNCHANGED <<edited, loaded>> \/ loaded' = config
  BY <1>2, <1>3 DEF AfterARebuild
<1>4. CASE \E s \in Services : Save(s) \/ Leave(s) \/ Return(s)
  BY <1>1, <1>4 DEF Save, Leave, Return, watch, flags
<1>5. CASE EditConfiguration
  BY <1>5 DEF EditConfiguration, NoEditIsForgotten, Up, watch
<1>6. CASE RebuildStep
  BY <1>1, <1>3, <1>6 DEF RebuildStep, LetGo, OpenAll, OpenOne, WatcherReady, Opened, ReopenMoved,
     Reopen, LoadConfig, Survey, BuildEnds, BuildThrows, OpenThrows, flags, world, ears, watch
<1>7. CASE Hear
  <2>1. CASE \E s \in Services : HearSaved(s) \/ HearMoved(s)
    BY <1>1, <2>1, EventsDiffer DEF HearSaved, HearMoved, world, watch
  <2>2. CASE HearConfiguration
    BY <2>2 DEF HearConfiguration, NoEditIsForgotten
  <2> QED
    BY <1>7, <2>1, <2>2 DEF Hear
<1>8. CASE TimerFires
  BY <1>1, <1>2, <1>8 DEF TimerFires, Trigger, world, ears
<1>9. CASE Scan \/ LookAside \/ CloseWatchers
  BY <1>9 DEF Scan, LookAside, CloseWatchers, NoEditIsForgotten, Up
<1>10. CASE ComesUp
  <2>1. loaded = 0 /\ loaded' = loaded
    BY <1>0, <1>10 DEF ComesUp, QuietUntilUp
  <2>2. base'.config = config'
    BY <1>10 DEF ComesUp, world
  <2> QED
    BY <2>1, <2>2 DEF NoEditIsForgotten
<1>11. CASE (\E s \in Services : Watched(s)) \/ Close \/ UNCHANGED vars
  BY <1>1, <1>11 DEF Watched, Close, vars, world, ears, watch, flags
<1> QED
  BY <1>4, <1>5, <1>6, <1>7, <1>8, <1>9, <1>10, <1>11 DEF Next, World, StartStep

LEMMA StepKeepsWatch == WatchInv /\ [Next]_vars => WatchInv'
<1> SUFFICES ASSUME WatchInv, [Next]_vars PROVE WatchInv'
  OBVIOUS
<1> QED
  BY TypeOKKept, QuietUntilUpKept, NothingMovesUntilScannedKept, HearingIsKnownKept,
     ClosedIsIdleKept, RebuildsAreEarnedKept, NoEditIsForgottenKept DEF WatchInv

\* The invariant the theorems below rest on.
THEOREM WatchKeeps == Spec => []WatchInv
  BY InitWatch, StepKeepsWatch, PTL DEF Spec

\* What a watch holds is what watchProject says it is, at every step.
THEOREM TypeCorrect == Spec => []TypeOK
<1>1. WatchInv => TypeOK
  BY DEF WatchInv
<1> QED
  BY WatchKeeps, <1>1, PTL

\* An edit of the configuration the watch was up for is on its way, noted or
\* followed, however often it does not load, and whatever throws meanwhile:
\* reload() takes its note back only with a configuration that loads.
THEOREM EditsAreKept == Spec => []NoEditIsForgotten
<1>1. WatchInv => NoEditIsForgotten
  BY DEF WatchInv
<1> QED
  BY WatchKeeps, <1>1, PTL

\* However many saves come at once, and whenever the debounce timer fires, what
\* was told last is answered by at most two rebuilds: trigger() queues one.
THEOREM TwoRebuildsAreEnough == Spec => []AtMostTwoRebuilds
<1>1. WatchInv => AtMostTwoRebuilds
  BY DEF WatchInv, RebuildsAreEarned, AtMostTwoRebuilds
<1> QED
  BY WatchKeeps, <1>1, PTL

\* Once close() has resolved nothing is heard any more: it waits for the rebuild
\* in flight, which may be starting a watcher, and closes every one there is.
THEOREM ClosedIsDeaf == Spec => []NothingListensOnceClosed
<1>1. WatchInv => NothingListensOnceClosed
  BY DEF WatchInv, ClosedIsIdle, NothingListensOnceClosed
<1> QED
  BY WatchKeeps, <1>1, PTL

\* A watch that was closed begins no rebuild, not even one that was owed.
THEOREM ClosedBeginsNothing == Spec => NothingBeginsOnceClosed
<1>1. ASSUME [Next]_vars, closed, ~UNCHANGED vars PROVE rebuilds' \in {0, rebuilds}
  <2>1. CASE World
    BY <2>1 DEF World, Save, Leave, Return, EditConfiguration
  <2>2. CASE RebuildStep
    BY <1>1, <2>2 DEF RebuildStep, LetGo, OpenAll, OpenOne, WatcherReady, Opened, ReopenMoved,
         Reopen, LoadConfig, Survey, BuildEnds, BuildThrows, OpenThrows, AfterARebuild
  <2>3. CASE Hear
    BY <2>3 DEF Hear, HearSaved, HearConfiguration, HearMoved, Touched
  <2>4. CASE TimerFires
    BY <1>1, <2>4 DEF TimerFires, Trigger
  <2>5. CASE StartStep
    BY <2>5 DEF StartStep, Scan, Watched, LookAside, ComesUp
  <2>6. CASE Close \/ CloseWatchers
    BY <2>6 DEF Close, CloseWatchers
  <2> QED
    BY <1>1, <2>1, <2>2, <2>3, <2>4, <2>5, <2>6 DEF Next
<1> QED
  BY <1>1, PTL DEF Spec, NothingBeginsOnceClosed

-----------------------------------------------------------------------------
(***************************************************************************)
(* A watch at rest.  What it built, watches and holds open is what is      *)
(* there, unless something that will put it right is still on its way: an  *)
(* event, a timer, a rebuild that is owed or one that has not surveyed.    *)
(* The invariant says which, at every step of a rebuild.                   *)
(***************************************************************************)

\* A repository whose directory may come and go is not new in a configuration:
\* it was named by those that could be followed before.
Familiar ==
    \A c, d \in Loads : c <= d => Named[d] \intersect MayLeave \subseteq Named[c]

Early == {"firstBuild", "scanning", "lookingAside"}
Opens == {"lettingGo", "opening", "openingWatcher"}
Moves == {"moving", "reopening", "reopeningWatcher"}

\* Until the watch is up nothing comes or goes, its rebuilds open nothing, and
\* it comes to watch all that the first configuration names.
StillUntilUp ==
    start \in Early =>
        /\ present = Services /\ moved = {}
        /\ \A s \in Services : Moved(s) \notin events
        /\ stage \in {"idle", "moving", "building", "reading"}
        /\ stage = "moving" => todo = {}
        /\ \A s \in Named[0] : sessions[s] = 0
        /\ start = "scanning" => Named[0] \subseteq toWatch \union hearing
        /\ start = "lookingAside" => Named[0] \subseteq hearing /\ targets = Named[0]

\* What is followed is a configuration that loaded.
FollowsWhatLoads == loaded \in Loads /\ loaded <= config

\* A repository that stays is never one that moved, and hears once it is watched.
OthersStay ==
    \A s \in Services \ MayLeave :
        /\ s \in present /\ Moved(s) \notin events /\ s \notin moved
        /\ s \in repositories /\ start # "closed" => s \in hearing
        /\ stage = "moving" => s \notin todo
        /\ stage \in {"reopening", "reopeningWatcher"} => at # s /\ s \notin todo

\* What could come or go of the configuration is among the places beside it.
AsideIsWatched == Up => Named[loaded] \intersect MayLeave \subseteq targets

\* What a rebuild lets go is not named, and what it opens is.
TodoIsNamed ==
    /\ stage = "lettingGo" => todo \intersect Named[loaded] = {}
    /\ stage \in {"opening", "openingWatcher"} => todo \subseteq Named[loaded]
    /\ stage \in {"openingWatcher", "reopening", "reopeningWatcher"} => at \in Named[loaded]

\* Another rebuild will begin.
Waking == timer \/ queued

\* An edit that is noted and could be followed has a rebuild to come.
EditIsPending ==
    Up /\ ~closed /\ edited /\ config \in Loads => ConfigurationEdited \in events \/ Waking

\* And so has what moved, or this rebuild will see to it.
MovedIsPending ==
    ~closed /\ ~thrown =>
        \A s \in moved : Waking \/ stage \in Opens \/ (stage \in Moves /\ s \in todo)

\* The watch is about to be told that s moved, or was.
OnTheWay(s) == Moved(s) \in events \/ s \in moved

\* This rebuild will open s.
Opening(s) ==
    \/ stage = "lettingGo"
    \/ stage \in {"opening", "openingWatcher"} /\ s \in todo
    \/ stage = "reopening" /\ at = s

HeldAsSaid ==
    Up /\ ~thrown => \A s \in Named[loaded] \intersect present :
        sessions[s] = loaded \/ OnTheWay(s) \/ Opening(s)

\* What is opened is watched only if it was not before, or was closed for it.
WatchedIfThere ==
    Up /\ ~thrown => \A s \in Named[loaded] \intersect present :
        \/ s \in hearing
        \/ OnTheWay(s)
        \/ Opening(s) /\ (s \in repositories => stage = "reopening")
        \/ stage \in {"openingWatcher", "reopeningWatcher"} /\ at = s

\* A build will survey everything there is, from here on.
Due == ConfigurationEdited \in events \/ Waking \/ stage \in Opens \union Moves

Changed(s) == saves[s] > base.saves[s] \/ config # 0

BuiltOrDue ==
    Up /\ ~closed /\ ~thrown /\ base.config = 0 /\ config \in Loads =>
        \A s \in Named[config] : Changed(s) =>
            \/ Due
            \/ Saved(s) \in events \/ Moved(s) \in events
            \/ stage = "building" /\ s \in todo
            \/ stage = "reading" /\ took[s] = saves[s]
            \/ stage = "idle" /\ (failed \/ built[s] = saves[s])

RestInv ==
    /\ WatchInv
    /\ StillUntilUp
    /\ FollowsWhatLoads
    /\ OthersStay
    /\ AsideIsWatched
    /\ TodoIsNamed
    /\ EditIsPending
    /\ MovedIsPending
    /\ HeldAsSaid
    /\ WatchedIfThere
    /\ BuiltOrDue

LEMMA InitRest == Init => RestInv
<1> SUFFICES ASSUME Init PROVE RestInv
  OBVIOUS
<1>1. WatchInv
  BY InitWatch
<1>2. /\ present = Services /\ moved = {} /\ events = {} /\ stage = "moving" /\ todo = {}
      /\ repositories = {} /\ start = "firstBuild" /\ loaded = 0 /\ config = 0
      /\ edited = FALSE
  BY DEF Init
<1>3. \A s \in Named[0] : sessions[s] = 0
  BY WatchAssumption DEF Init
<1>4. StillUntilUp /\ OthersStay /\ AsideIsWatched /\ TodoIsNamed
  BY <1>2, <1>3 DEF StillUntilUp, OthersStay, AsideIsWatched, TodoIsNamed, Up, Early
<1>5. FollowsWhatLoads
  <2>1. 0 \in Loads
    BY WatchAssumption
  <2>2. loaded = 0 /\ config = 0
    BY Zenon, <1>2
  <2>3. loaded <= config
    BY ONLY <2>2
  <2> QED
    BY Zenon, <2>1, <2>2, <2>3 DEF FollowsWhatLoads
<1>6. EditIsPending /\ MovedIsPending /\ HeldAsSaid /\ WatchedIfThere /\ BuiltOrDue
  BY <1>2 DEF EditIsPending, MovedIsPending, HeldAsSaid, WatchedIfThere, BuiltOrDue, Up
<1> QED
  BY <1>1, <1>4, <1>5, <1>6 DEF RestInv

LEMMA MovesDiffer ==
    \A s, t \in Services :
        Saved(s) # Moved(t) /\ (Moved(s) = Moved(t) => s = t) /\ (Saved(s) = Saved(t) => s = t)
BY DEF Saved, Moved

\* One rebuild is over: the next begins, or none does.
LEMMA AfterARebuildDoes ==
    ASSUME TypeOK, AfterARebuild
    PROVE  \/ queued /\ ~closed /\ queued' = FALSE /\ BeginRebuild
           \/ /\ ~queued \/ closed
              /\ stage' = "idle" /\ todo' = {} /\ UNCHANGED <<queued, edited, loaded>>
  BY DEF AfterARebuild

LEMMA FollowsWhatLoadsKept ==
    ASSUME RestInv, [Next]_vars PROVE FollowsWhatLoads'
<1>0. /\ TypeOK /\ FollowsWhatLoads
      /\ config \in Nat
  BY WatchAssumption DEF RestInv, WatchInv, TypeOK
<1>1. ASSUME UNCHANGED config, UNCHANGED loaded \/ (config \in Loads /\ loaded' = config)
      PROVE  FollowsWhatLoads'
  BY <1>0, <1>1 DEF FollowsWhatLoads
<1>2. ASSUME BeginRebuild PROVE UNCHANGED loaded \/ (config \in Loads /\ loaded' = config)
  BY <1>0, <1>2, BeginRebuildDoes
<1>3. ASSUME AfterARebuild PROVE UNCHANGED loaded \/ (config \in Loads /\ loaded' = config)
  BY <1>0, <1>2, <1>3, AfterARebuildDoes
<1>4. CASE \E s \in Services : Save(s) \/ Leave(s) \/ Return(s)
  BY <1>1, <1>4 DEF Save, Leave, Return, watch
<1>5. CASE EditConfiguration
  <2>1. config' = config + 1 /\ loaded' = loaded
    BY <1>5 DEF EditConfiguration, watch
  <2>2. loaded \in Nat
    BY WatchAssumption DEF RestInv, WatchInv, TypeOK
  <2> QED
    BY <1>0, <2>1, <2>2 DEF FollowsWhatLoads
<1>6. CASE RebuildStep
  BY <1>1, <1>3, <1>6 DEF RebuildStep, LetGo, OpenAll, OpenOne, WatcherReady, Opened, ReopenMoved,
     Reopen, LoadConfig, Survey, BuildEnds, BuildThrows, OpenThrows, world, watch
<1>7. CASE Hear
  BY <1>1, <1>7 DEF Hear, HearSaved, HearConfiguration, HearMoved, world, watch
<1>8. CASE TimerFires
  BY <1>1, <1>2, <1>8 DEF TimerFires, Trigger, world
<1>9. CASE StartStep \/ Close \/ CloseWatchers \/ UNCHANGED vars
  BY <1>1, <1>9 DEF StartStep, Scan, Watched, LookAside, ComesUp, Close, CloseWatchers, vars, world, watch
<1> QED
  BY <1>4, <1>5, <1>6, <1>7, <1>8, <1>9 DEF Next, World

LEMMA StillUntilUpKept ==
    ASSUME RestInv, ~LeavesEarly, [Next]_vars PROVE StillUntilUp'
<1>0. /\ TypeOK /\ StillUntilUp /\ QuietUntilUp /\ start \in Starts
      /\ hearing \subseteq repositories
      /\ Named[0] \subseteq Services
  BY WatchAssumption DEF RestInv, WatchInv, TypeOK, HearingIsKnown, Configs
<1> SUFFICES ASSUME start' \in Early PROVE StillUntilUp'
  BY DEF StillUntilUp
<1>1. start \in Early
  BY <1>0 DEF Next, World, Save, Leave, Return, EditConfiguration, RebuildStep, LetGo, OpenAll,
     OpenOne, WatcherReady, Opened, ReopenMoved, Reopen, LoadConfig, Survey, BuildEnds, BuildThrows,
     OpenThrows, Hear, HearSaved, HearConfiguration, HearMoved, TimerFires, StartStep, Scan, Watched,
     LookAside, ComesUp, Close, CloseWatchers, vars, watch, Early, Starts
<1>2. /\ present = Services /\ moved = {}
      /\ \A s \in Services : Moved(s) \notin events
      /\ stage \in {"idle", "moving", "building", "reading"}
      /\ stage = "moving" => todo = {}
      /\ \A s \in Named[0] : sessions[s] = 0
      /\ start = "scanning" => Named[0] \subseteq toWatch \union hearing
      /\ start = "lookingAside" => Named[0] \subseteq hearing /\ targets = Named[0]
      /\ ~edited /\ loaded = 0 /\ ConfigurationEdited \notin events /\ ~closed
      /\ ~Up
  BY <1>0, <1>1 DEF StillUntilUp, QuietUntilUp, Early, Up
<1>3. ASSUME UNCHANGED <<start, present, moved, toWatch, hearing, targets, sessions>>,
             \A s \in Services : Moved(s) \notin events',
             \/ UNCHANGED <<stage, todo>>
             \/ stage' \in {"idle", "building", "reading"}
             \/ stage' = "moving" /\ todo' = {}
      PROVE  StillUntilUp'
  BY <1>2, <1>3 DEF StillUntilUp
<1>4. CASE World
  <2>1. CASE \E s \in Services : Save(s)
    BY <1>2, <1>3, <2>1, MovesDiffer DEF Save, watch, flags, rebuild
  <2>2. ~ \E s \in Services : Leave(s) \/ Return(s)
    BY <1>2 DEF Leave, Return
  <2>3. CASE EditConfiguration
    BY <1>2, <1>3, <2>3, EventsDiffer DEF EditConfiguration, watch, flags, rebuild
  <2> QED
    BY <1>4, <2>1, <2>2, <2>3 DEF World
<1>5. CASE RebuildStep
  <2>1. LoadConfig \/ Survey \/ BuildEnds \/ BuildThrows
    BY <1>2, <1>5 DEF RebuildStep, LetGo, OpenAll, OpenOne, WatcherReady, Opened, ReopenMoved, Reopen,
       OpenThrows
  <2>2. CASE LoadConfig \/ Survey
    BY <1>2, <1>3, <2>2 DEF LoadConfig, Survey, world, ears, watch, flags
  <2>3. CASE BuildEnds \/ BuildThrows
    <3>1. /\ UNCHANGED <<start, present, moved, toWatch, hearing, targets, sessions, events>>
      BY <1>2, <2>3 DEF BuildEnds, BuildThrows, Retargeted, world, ears
    <3>2. stage' = "idle" \/ (stage' = "moving" /\ todo' = {})
      BY <1>0, <1>2, <2>3, AfterARebuildDoes, BeginRebuildDoes DEF BuildEnds, BuildThrows
    <3> QED
      BY <1>2, <1>3, <3>1, <3>2
  <2> QED
    BY <2>1, <2>2, <2>3
<1>6. CASE Hear
  <2>1. CASE \E s \in Services : HearSaved(s)
    BY <1>2, <1>3, <2>1 DEF HearSaved, world, watch, rebuild
  <2> QED
    BY <1>2, <1>6, <2>1 DEF Hear, HearConfiguration, HearMoved
<1>7. CASE TimerFires
  <2>1. UNCHANGED <<stage, todo>> \/ (stage' = "moving" /\ todo' = {})
    BY <1>0, <1>2, <1>7, BeginRebuildDoes DEF TimerFires, Trigger
  <2> QED
    BY <1>2, <1>3, <1>7, <2>1 DEF TimerFires, world, ears
<1>8. CASE Scan
  BY <1>0, <1>2, <1>8 DEF Scan, StillUntilUp, world, ears, flags, rebuild
<1>9. CASE \E s \in Services : Watched(s)
  BY <1>0, <1>2, <1>9 DEF Watched, StillUntilUp, world, flags, rebuild
<1>10. CASE LookAside
  BY <1>0, <1>2, <1>10 DEF LookAside, StillUntilUp, world, ears, flags, rebuild
<1>11. CASE UNCHANGED vars
  BY <1>2, <1>3, <1>11 DEF vars, world, ears, watch, flags, rebuild
<1> QED
  BY <1>2, <1>4, <1>5, <1>6, <1>7, <1>8, <1>9, <1>10, <1>11
     DEF Next, StartStep, ComesUp, Close, CloseWatchers, Early

LEMMA OthersStayKept ==
    ASSUME RestInv, [Next]_vars PROVE OthersStay'
<1>0. /\ TypeOK /\ OthersStay
      /\ hearing \subseteq repositories /\ present \subseteq Services
      /\ stage \in Stages
  BY DEF RestInv, WatchInv, TypeOK, HearingIsKnown
<1> SUFFICES ASSUME NEW s \in Services \ MayLeave
             PROVE  /\ s \in present' /\ Moved(s) \notin events' /\ s \notin moved'
                    /\ s \in repositories' /\ start' # "closed" => s \in hearing'
                    /\ stage' = "moving" => s \notin todo'
                    /\ stage' \in {"reopening", "reopeningWatcher"} => at' # s /\ s \notin todo'
  BY DEF OthersStay
<1>1. /\ s \in present /\ Moved(s) \notin events /\ s \notin moved
      /\ s \in repositories /\ start # "closed" => s \in hearing
      /\ stage = "moving" => s \notin todo
      /\ stage \in {"reopening", "reopeningWatcher"} => at # s /\ s \notin todo
  BY <1>0 DEF OthersStay
<1>2. ASSUME BeginRebuild
      PROVE  \/ stage' = "moving" /\ todo' = moved
             \/ stage' = "lettingGo"
  BY <1>2 DEF BeginRebuild
<1> USE <1>1 DEF world, ears, watch, flags, rebuild
<1>3. CASE \E t \in Services : Save(t) \/ Leave(t) \/ Return(t)
  <2>1. PICK t \in Services : Save(t) \/ Leave(t) \/ Return(t)
    BY <1>3
  <2>2. CASE Save(t)
    BY <2>2, MovesDiffer DEF Save
  <2>3. CASE Leave(t) \/ Return(t)
    <3>1. s # t
      BY <2>3 DEF Leave, Return
    <3>2. events' \subseteq events \union {Saved(t), Moved(t)}
      BY <2>3 DEF Leave, Return, Aside
    <3>3. Moved(s) \notin events'
      BY <3>1, <3>2, MovesDiffer
    <3> QED
      BY <2>3, <3>1, <3>3 DEF Leave, Return
  <2> QED
    BY <2>1, <2>2, <2>3
<1>4. CASE EditConfiguration
  BY <1>4, EventsDiffer DEF EditConfiguration
<1>5. CASE RebuildStep
  <2>1. CASE \E t \in Services : LetGo(t)
    BY <2>1 DEF LetGo
  <2>2. CASE OpenAll
    BY <2>2 DEF OpenAll
  <2>3. CASE \E t \in Services : OpenOne(t)
    <3>1. UNCHANGED <<present, events, moved, repositories, hearing, start>>
      BY <2>3 DEF OpenOne, Open
    <3>2. stage' \in {"opening", "openingWatcher"}
      BY <2>3 DEF OpenOne, Open
    <3> QED
      BY <3>1, <3>2
  <2>4. CASE WatcherReady("openingWatcher", "opening") \/ WatcherReady("reopeningWatcher", "moving")
    BY <2>4 DEF WatcherReady
  <2>5. CASE Opened
    BY <2>5 DEF Opened
  <2>6. CASE \E t \in Services : ReopenMoved(t)
    BY <2>6 DEF ReopenMoved
  <2>7. CASE Reopen
    BY <2>7 DEF Reopen, Open, WithoutIt
  <2>8. CASE LoadConfig \/ Survey
    BY <2>8 DEF LoadConfig, Survey
  <2>9. CASE BuildEnds \/ BuildThrows
    BY <1>0, <1>2, <2>9, AfterARebuildDoes DEF BuildEnds, BuildThrows
  <2>10. CASE OpenThrows
    BY <1>0, <1>2, <2>10, AfterARebuildDoes DEF OpenThrows, WithoutIt
  <2> QED
    BY <1>5, <2>1, <2>2, <2>3, <2>4, <2>5, <2>6, <2>7, <2>8, <2>9, <2>10 DEF RebuildStep
<1>6. CASE Hear
  <2>1. CASE (\E t \in Services : HearSaved(t)) \/ HearConfiguration
    BY <2>1 DEF HearSaved, HearConfiguration
  <2>2. CASE \E t \in Services : HearMoved(t)
    BY <2>2 DEF HearMoved, MovedNames
  <2> QED
    BY <1>6, <2>1, <2>2 DEF Hear
<1>7. CASE TimerFires
  BY <1>2, <1>7 DEF TimerFires, Trigger
<1>8. CASE StartStep
  BY <1>8 DEF StartStep, Scan, Watched, LookAside, ComesUp
<1>9. CASE Close \/ CloseWatchers \/ UNCHANGED vars
  BY <1>9 DEF Close, CloseWatchers, vars
<1> QED
  BY <1>3, <1>4, <1>5, <1>6, <1>7, <1>8, <1>9 DEF Next, World

LEMMA AsideIsWatchedKept ==
    ASSUME RestInv, Familiar, [Next]_vars PROVE AsideIsWatched'
<1>0. /\ TypeOK /\ AsideIsWatched /\ StillUntilUp /\ FollowsWhatLoads /\ QuietUntilUp
      /\ config \in Nat /\ loaded \in Nat /\ start \in Starts
  BY WatchAssumption DEF RestInv, WatchInv, TypeOK
<1>1. ASSUME UNCHANGED <<start, targets>>, UNCHANGED loaded \/ (config \in Loads /\ loaded' = config)
      PROVE  AsideIsWatched'
  BY <1>0, <1>1 DEF AsideIsWatched, FollowsWhatLoads, Familiar, Up
<1>2. ASSUME BeginRebuild PROVE UNCHANGED loaded \/ (config \in Loads /\ loaded' = config)
  BY <1>0, <1>2, BeginRebuildDoes
<1>3. ASSUME AfterARebuild PROVE UNCHANGED loaded \/ (config \in Loads /\ loaded' = config)
  BY <1>0, <1>2, <1>3, AfterARebuildDoes
<1>4. CASE World
  BY <1>1, <1>4 DEF World, Save, Leave, Return, EditConfiguration, watch
<1>5. CASE RebuildStep
  <2>1. CASE BuildEnds \/ BuildThrows
    <3>1. start' = start /\ targets' = Retargeted /\ (UNCHANGED loaded \/ (config \in Loads /\ loaded' = config))
      BY <1>3, <2>1 DEF BuildEnds, BuildThrows
    <3>2. ASSUME Up PROVE targets' = Named[loaded]
      BY <3>1, <3>2 DEF Retargeted
    <3> QED
      BY <1>0, <3>1, <3>2 DEF AsideIsWatched, FollowsWhatLoads, Familiar, Up
  <2> QED
    BY <1>1, <1>3, <1>5, <2>1 DEF RebuildStep, LetGo, OpenAll, OpenOne, WatcherReady, Opened, ReopenMoved,
       Reopen, LoadConfig, Survey, OpenThrows, watch
<1>6. CASE Hear
  BY <1>1, <1>6 DEF Hear, HearSaved, HearConfiguration, HearMoved, watch
<1>7. CASE TimerFires
  BY <1>1, <1>2, <1>7 DEF TimerFires, Trigger
<1>8. CASE ComesUp
  BY <1>0, <1>8 DEF ComesUp, AsideIsWatched, StillUntilUp, QuietUntilUp, Early
<1>9. CASE Scan \/ LookAside \/ CloseWatchers
  BY <1>9 DEF Scan, LookAside, CloseWatchers, AsideIsWatched, Up
<1>10. CASE (\E s \in Services : Watched(s)) \/ Close \/ UNCHANGED vars
  BY <1>1, <1>10 DEF Watched, Close, vars, watch
<1> QED
  BY <1>4, <1>5, <1>6, <1>7, <1>8, <1>9, <1>10 DEF Next, StartStep

LEMMA TodoIsNamedKept ==
    ASSUME RestInv, [Next]_vars PROVE TodoIsNamed'
<1>0. TypeOK /\ TodoIsNamed
  BY DEF RestInv, WatchInv
<1>1. ASSUME BeginRebuild
      PROVE  \/ stage' = "moving"
             \/ /\ stage' = "lettingGo" /\ loaded' = config
                /\ todo' = repositories \ Named[config]
  BY <1>1 DEF BeginRebuild
<1> USE <1>0 DEF TodoIsNamed
<1>2. ASSUME UNCHANGED <<stage, todo, loaded, at>> PROVE TodoIsNamed'
  BY <1>2
<1>3. ASSUME BeginRebuild PROVE TodoIsNamed'
  BY <1>1, <1>3
<1>4. CASE World \/ Hear \/ StartStep \/ Close \/ CloseWatchers \/ UNCHANGED vars
  BY <1>2, <1>4 DEF World, Save, Leave, Return, EditConfiguration, Hear, HearSaved, HearConfiguration,
     HearMoved, StartStep, Scan, Watched, LookAside, ComesUp, Close, CloseWatchers, vars, watch, rebuild
<1>5. CASE TimerFires
  BY <1>2, <1>3, <1>5 DEF TimerFires, Trigger
<1>6. CASE RebuildStep
  <2>1. CASE \E s \in Services : LetGo(s) \/ OpenOne(s) \/ ReopenMoved(s)
    BY <2>1 DEF LetGo, OpenOne, Open, ReopenMoved, watch
  <2>2. CASE OpenAll \/ Opened \/ LoadConfig \/ Survey
    BY <2>2 DEF OpenAll, ToOpen, Opened, LoadConfig, Survey, watch
  <2>3. CASE WatcherReady("openingWatcher", "opening") \/ WatcherReady("reopeningWatcher", "moving")
            \/ Reopen
    BY <2>3 DEF WatcherReady, Reopen, Open, watch
  <2>4. CASE BuildEnds \/ BuildThrows \/ OpenThrows
    BY <1>3, <2>4, AfterARebuildDoes DEF BuildEnds, BuildThrows, OpenThrows
  <2> QED
    BY <1>6, <2>1, <2>2, <2>3, <2>4 DEF RebuildStep
<1> QED
  BY <1>4, <1>5, <1>6 DEF Next

LEMMA EditIsPendingKept ==
    ASSUME RestInv, [Next]_vars PROVE EditIsPending'
<1>0. /\ TypeOK /\ EditIsPending /\ QuietUntilUp
      /\ edited \in BOOLEAN /\ timer \in BOOLEAN /\ queued \in BOOLEAN /\ closed \in BOOLEAN
      /\ start \in Starts
  BY DEF RestInv, WatchInv, TypeOK
<1> SUFFICES ASSUME Up', ~closed', edited', config' \in Loads
             PROVE  ConfigurationEdited \in events' \/ timer' \/ queued'
  BY DEF EditIsPending, Waking
<1>1. Up /\ edited /\ ~closed /\ config \in Loads => ConfigurationEdited \in events \/ timer \/ queued
  BY <1>0 DEF EditIsPending, Waking
<1>2. ASSUME BeginRebuild PROVE (UNCHANGED edited /\ (~edited \/ config \notin Loads)) \/ ~edited'
  BY <1>0, <1>2 DEF BeginRebuild
<1>10. ASSUME UNCHANGED <<start, config, edited, timer, queued, closed>>,
              ConfigurationEdited \in events => ConfigurationEdited \in events'
       PROVE  ConfigurationEdited \in events' \/ timer' \/ queued'
  BY <1>1, <1>10 DEF Up
<1>3. CASE \E s \in Services : Save(s) \/ Leave(s) \/ Return(s)
  BY <1>3, <1>10 DEF Save, Leave, Return, watch, flags
<1>4. CASE EditConfiguration
  BY <1>4 DEF EditConfiguration, Up, watch
<1>5. CASE RebuildStep
  <2>1. CASE \E s \in Services : LetGo(s) \/ OpenOne(s) \/ ReopenMoved(s)
    BY <1>10, <2>1 DEF LetGo, OpenOne, ReopenMoved, world, ears, watch, flags
  <2>2. CASE OpenAll \/ Opened \/ LoadConfig \/ Survey
    BY <1>10, <2>2 DEF OpenAll, Opened, LoadConfig, Survey, world, ears, watch, flags
  <2>3. CASE WatcherReady("openingWatcher", "opening") \/ WatcherReady("reopeningWatcher", "moving")
            \/ Reopen
    BY <1>10, <2>3 DEF WatcherReady, Reopen, world, ears, flags
  <2>4. CASE BuildEnds \/ BuildThrows \/ OpenThrows
    <3>1. UNCHANGED <<start, config, events, timer, closed>> /\ AfterARebuild
      BY <2>4 DEF BuildEnds, BuildThrows, OpenThrows, world, ears
    <3>2. CASE UNCHANGED <<queued, edited>>
      BY <1>10, <3>1, <3>2
    <3>3. CASE BeginRebuild
      BY <1>2, <1>1, <3>1, <3>3 DEF Up
    <3> QED
      BY <1>0, <3>1, <3>2, <3>3, AfterARebuildDoes
  <2> QED
    BY <1>5, <2>1, <2>2, <2>3, <2>4 DEF RebuildStep
<1>6. CASE Hear
  <2>1. CASE \E s \in Services : HearSaved(s)
    BY <2>1 DEF HearSaved, Touched
  <2>2. CASE HearConfiguration
    BY <2>2 DEF HearConfiguration, Touched
  <2>3. CASE \E s \in Services : HearMoved(s)
    <3>1. UNCHANGED <<start, config, edited, queued, closed>> /\ (timer' \/ UNCHANGED timer)
      BY <2>3 DEF HearMoved, Touched, world, watch
    <3>2. ConfigurationEdited \in events => ConfigurationEdited \in events'
      BY <2>3, EventsDiffer DEF HearMoved
    <3> QED
      BY <1>10, <3>1, <3>2
  <2> QED
    BY <1>6, <2>1, <2>2, <2>3 DEF Hear
<1>7. CASE TimerFires
  <2>1. UNCHANGED <<start, config, events, closed>>
    BY <1>7 DEF TimerFires, world, ears
  <2>2. ~closed
    BY <1>0, <2>1
  <2>3. queued' \/ BeginRebuild
    BY <1>7, <2>2 DEF TimerFires, Trigger
  <2>4. stage = "idle" \/ queued'
    BY <1>7, <2>2 DEF TimerFires, Trigger
  <2> QED
    BY <1>0, <1>2, <2>1, <2>3
<1>8. CASE StartStep
  <2>1. CASE Scan \/ LookAside
    BY <2>1 DEF Scan, LookAside, Up
  <2>2. CASE \E s \in Services : Watched(s)
    BY <1>10, <2>2 DEF Watched, world, flags
  <2>3. CASE ComesUp
    BY <1>0, <2>3 DEF ComesUp, QuietUntilUp, flags
  <2> QED
    BY <1>8, <2>1, <2>2, <2>3 DEF StartStep
<1>9. CASE Close \/ CloseWatchers \/ UNCHANGED vars
  BY <1>9, <1>10 DEF Close, CloseWatchers, vars, world, ears, watch, flags, Up
<1> QED
  BY <1>3, <1>4, <1>5, <1>6, <1>7, <1>8, <1>9 DEF Next, World

LEMMA MovedIsPendingKept ==
    ASSUME RestInv, [Next]_vars PROVE MovedIsPending'
<1>0. /\ TypeOK /\ MovedIsPending
      /\ timer \in BOOLEAN /\ queued \in BOOLEAN /\ closed \in BOOLEAN /\ thrown \in BOOLEAN
  BY DEF RestInv, WatchInv, TypeOK
<1> SUFFICES ASSUME ~closed', ~thrown', NEW s \in moved'
             PROVE  timer' \/ queued' \/ stage' \in Opens \/ (stage' \in Moves /\ s \in todo')
  BY DEF MovedIsPending, Waking
<1>1. ~closed /\ ~thrown /\ s \in moved =>
          timer \/ queued \/ stage \in Opens \/ (stage \in Moves /\ s \in todo)
  BY <1>0 DEF MovedIsPending, Waking
<1>2. ASSUME BeginRebuild
      PROVE  \/ stage' = "moving" /\ todo' = moved
             \/ stage' = "lettingGo"
  BY <1>2 DEF BeginRebuild
<1>10. ASSUME UNCHANGED <<timer, queued, closed, thrown, moved>>,
              stage \in Opens => stage' \in Opens,
              stage \in Moves => stage' \in Opens \/ (stage' \in Moves /\ UNCHANGED todo)
       PROVE  timer' \/ queued' \/ stage' \in Opens \/ (stage' \in Moves /\ s \in todo')
  BY <1>1, <1>10
<1>3. CASE World
  BY <1>3, <1>10 DEF World, Save, Leave, Return, EditConfiguration, flags, rebuild
<1>4. CASE RebuildStep
  <2>1. CASE \E t \in Services : LetGo(t) \/ OpenOne(t)
    BY <1>10, <2>1 DEF LetGo, OpenOne, Open, flags, Opens, Moves
  <2>2. CASE \E t \in Services : ReopenMoved(t)
    <3>1. PICK t \in Services : ReopenMoved(t)
      BY <2>2
    <3>2. /\ s \in moved /\ s # t
          /\ UNCHANGED <<timer, queued, closed, thrown>>
          /\ stage = "moving" /\ stage' \in Moves /\ todo' = todo \ {t}
      BY <3>1 DEF ReopenMoved, Moves
    <3> QED
      BY <1>1, <3>2 DEF Opens
  <2>3. CASE OpenAll
    BY <1>10, <2>3 DEF OpenAll, flags, Opens, Moves
  <2>6. CASE Opened
    BY <2>6 DEF Opened, flags, Moves
  <2>7. CASE LoadConfig
    BY <1>1, <2>7 DEF LoadConfig, flags, Opens
  <2>8. CASE Survey
    BY <1>10, <2>8 DEF Survey, flags, Opens, Moves
  <2>9. CASE WatcherReady("openingWatcher", "opening") \/ WatcherReady("reopeningWatcher", "moving")
    BY <1>10, <2>9 DEF WatcherReady, flags, Opens, Moves
  <2>10. CASE Reopen
    BY <1>10, <2>10 DEF Reopen, Open, flags, Opens, Moves
  <2>4. CASE BuildEnds \/ BuildThrows
    <3>1. /\ UNCHANGED <<closed, thrown, moved, timer>> /\ AfterARebuild
          /\ stage \notin Opens /\ (stage \in Moves => todo = {})
      BY <2>4 DEF BuildEnds, BuildThrows, Opens, Moves
    <3>2. CASE BeginRebuild
      BY <1>2, <3>1, <3>2 DEF Opens, Moves
    <3>3. CASE UNCHANGED queued /\ (~queued \/ closed)
      BY <1>1, <3>1, <3>3
    <3> QED
      BY <1>0, <3>1, <3>2, <3>3, AfterARebuildDoes
  <2>5. ~OpenThrows
    BY DEF OpenThrows
  <2> QED
    BY <1>4, <2>1, <2>2, <2>3, <2>4, <2>5, <2>6, <2>7, <2>8, <2>9, <2>10 DEF RebuildStep
<1>5. CASE Hear
  <2>1. CASE (\E t \in Services : HearSaved(t)) \/ HearConfiguration
    BY <2>1 DEF HearSaved, HearConfiguration, Touched
  <2>2. CASE \E t \in Services : HearMoved(t)
    <3>1. \/ timer'
          \/ UNCHANGED <<timer, queued, closed, thrown, moved, stage, todo>>
      BY <2>2 DEF HearMoved, Touched, rebuild
    <3> QED
      BY <1>10, <3>1
  <2> QED
    BY <1>5, <2>1, <2>2 DEF Hear
<1>6. CASE TimerFires
  <2>1. ~closed /\ UNCHANGED moved
    BY <1>6 DEF TimerFires
  <2>2. queued' \/ BeginRebuild
    BY <1>6, <2>1 DEF TimerFires, Trigger
  <2> QED
    BY <1>2, <2>1, <2>2 DEF Opens, Moves
<1>7. CASE StartStep
  BY <1>7, <1>10 DEF StartStep, Scan, Watched, LookAside, ComesUp, flags, rebuild
<1>8. CASE Close \/ CloseWatchers \/ UNCHANGED vars
  BY <1>8, <1>10 DEF Close, CloseWatchers, vars, flags, rebuild
<1> QED
  BY <1>3, <1>4, <1>5, <1>6, <1>7, <1>8 DEF Next

\* A rebuild that begins opens all there is to open, or opens nothing that was
\* not already as said.
LEMMA RebuildOpens ==
    ASSUME TypeOK, BeginRebuild
    PROVE  stage' = "lettingGo" \/ (stage' = "moving" /\ UNCHANGED loaded)
  BY DEF BeginRebuild

LEMMA HeldAsSaidKept ==
    ASSUME RestInv, [Next]_vars PROVE HeldAsSaid'
<1>0. /\ TypeOK /\ HeldAsSaid /\ StillUntilUp /\ QuietUntilUp /\ AsideIsWatched /\ OthersStay
      /\ TodoIsNamed
      /\ start \in Starts /\ thrown \in BOOLEAN /\ sessions \in [Services -> Configs \union {NoSession}]
      /\ at \in Services
      /\ Named[loaded] \subseteq Services
  BY WatchAssumption DEF RestInv, WatchInv, TypeOK
<1> SUFFICES ASSUME Up', ~thrown', NEW s \in Named[loaded'], s \in present'
             PROVE  sessions'[s] = loaded' \/ Moved(s) \in events' \/ s \in moved' \/ Opening(s)'
  BY DEF HeldAsSaid, OnTheWay
<1>1. Up /\ ~thrown /\ s \in Named[loaded] /\ s \in present =>
          sessions[s] = loaded \/ Moved(s) \in events \/ s \in moved \/ Opening(s)
  BY <1>0 DEF HeldAsSaid, OnTheWay
<1>2. ASSUME BeginRebuild PROVE stage' = "lettingGo" \/ (stage' = "moving" /\ UNCHANGED loaded)
  BY <1>0, <1>2, RebuildOpens
<1>3. ASSUME BeginRebuild, UNCHANGED <<start, thrown, present, events, moved, sessions>>,
             stage \in {"idle", "moving", "building", "reading"}
      PROVE  sessions'[s] = loaded' \/ Moved(s) \in events' \/ s \in moved' \/ Opening(s)'
  BY <1>1, <1>2, <1>3 DEF Opening, Up
<1>4. ASSUME UNCHANGED <<start, thrown, present, moved, sessions, stage, todo, at, loaded>>,
             Moved(s) \in events => Moved(s) \in events' \/ s \in moved'
      PROVE  sessions'[s] = loaded' \/ Moved(s) \in events' \/ s \in moved' \/ Opening(s)'
  BY <1>1, <1>4 DEF Opening, Up
<1>5. s \in Services
  BY <1>0, TypeOKKept, WatchAssumption DEF Configs, TypeOK, RestInv, WatchInv
<1>6. CASE World
  <2>1. CASE (\E t \in Services : Save(t)) \/ EditConfiguration
    BY <1>4, <2>1 DEF Save, EditConfiguration, watch, flags, rebuild
  <2>2. CASE \E t \in Services : Leave(t)
    <3>1. s \in present /\ Moved(s) \in events => Moved(s) \in events'
      BY <2>2 DEF Leave
    <3>2. /\ UNCHANGED <<start, thrown, moved, sessions, stage, todo, at, loaded>>
          /\ present' \subseteq present
      BY <2>2 DEF Leave, watch, flags, rebuild
    <3> QED
      BY <1>1, <3>1, <3>2 DEF Opening, Up
  <2>3. CASE \E t \in Services : Return(t)
    <3>1. PICK t \in Services : Return(t)
      BY <2>3
    <3>2. CASE s = t
      <4>1. s \in targets
        BY <1>0, <1>5, <3>1, <3>2 DEF Return, OthersStay, AsideIsWatched, Up, watch
      <4> QED
        BY <3>1, <3>2, <4>1 DEF Return, Aside, Up, watch
    <3>3. CASE s # t
      BY <1>1, <3>1, <3>3 DEF Return, Opening, Up, watch, flags, rebuild
    <3> QED
      BY <3>2, <3>3
  <2> QED
    BY <1>6, <2>1, <2>2, <2>3 DEF World
<1>7. CASE RebuildStep
  <2>1. CASE \E t \in Services : LetGo(t)
    BY <1>1, <2>1 DEF LetGo, Opening, Up, world, flags
  <2>2. CASE OpenAll
    BY <1>1, <2>2 DEF OpenAll, ToOpen, Opening, watch
  <2>3. CASE \E t \in Services : OpenOne(t)
    <3>1. PICK t \in Services : OpenOne(t)
      BY <2>3
    <3>2. CASE s = t
      BY <1>0, <1>5, <3>1, <3>2 DEF OpenOne, Open
    <3>3. CASE s # t
      BY <1>0, <1>1, <1>5, <3>1, <3>3 DEF OpenOne, Open, Opening, Up, world, ears, flags
    <3> QED
      BY <3>2, <3>3
  <2>4. CASE WatcherReady("openingWatcher", "opening") \/ WatcherReady("reopeningWatcher", "moving")
    BY <1>1, <2>4 DEF WatcherReady, Opening, Up, world, flags
  <2>5. CASE Opened
    BY <1>1, <2>5 DEF Opened, Opening, Up, world, ears, watch, flags
  <2>6. CASE \E t \in Services : ReopenMoved(t)
    <3>1. PICK t \in Services : ReopenMoved(t)
      BY <2>6
    <3>2. CASE s = t
      BY <3>1, <3>2 DEF ReopenMoved, Opening, watch
    <3>3. CASE s # t
      BY <1>1, <3>1, <3>3 DEF ReopenMoved, Opening, Up, world, watch
    <3> QED
      BY <3>2, <3>3
  <2>7. CASE Reopen
    <3>1. CASE s = at
      BY <1>0, <2>7, <3>1 DEF Reopen, Open, world
    <3>2. CASE s # at
      BY <1>0, <1>1, <1>5, <2>7, <3>2 DEF Reopen, Open, Opening, Up, world, ears, flags
    <3> QED
      BY <3>1, <3>2
  <2>8. CASE LoadConfig \/ Survey
    BY <1>1, <2>8 DEF LoadConfig, Survey, Opening, Up, world, ears, watch, flags
  <2>9. CASE BuildEnds \/ BuildThrows
    <3>1. /\ UNCHANGED <<start, thrown, present, events, moved, sessions>>
          /\ stage \in {"idle", "moving", "building", "reading"}
      BY <2>9 DEF BuildEnds, BuildThrows, world, ears
    <3>2. AfterARebuild
      BY <2>9 DEF BuildEnds, BuildThrows
    <3>3. CASE BeginRebuild
      BY <1>3, <3>1, <3>3
    <3>4. CASE UNCHANGED loaded
      BY <1>1, <3>1, <3>4 DEF Opening, Up
    <3> QED
      BY <1>0, <3>2, <3>3, <3>4, AfterARebuildDoes
  <2>10. ~OpenThrows
    BY DEF OpenThrows
  <2> QED
    BY <1>7, <2>1, <2>2, <2>3, <2>4, <2>5, <2>6, <2>7, <2>8, <2>9, <2>10 DEF RebuildStep
<1>8. CASE Hear
  <2>1. CASE (\E t \in Services : HearSaved(t)) \/ HearConfiguration
    BY <1>4, <1>5, <2>1, MovesDiffer, EventsDiffer
       DEF HearSaved, HearConfiguration, world, watch, rebuild
  <2>2. CASE \E t \in Services : HearMoved(t)
    <3>1. PICK t \in Services : HearMoved(t)
      BY <2>2
    <3>2. /\ UNCHANGED <<start, thrown, present, sessions, stage, todo, at, loaded, targets>>
          /\ events' = events \ {Moved(t)} /\ moved \subseteq moved'
          /\ t \in targets => moved' = moved \union MovedNames(t)
      BY <3>1 DEF HearMoved, world, watch, rebuild
    <3>3. CASE s # t
      BY <1>1, <1>5, <3>2, <3>3, MovesDiffer DEF Opening, Up
    <3>4. CASE s = t
      <4>1. Moved(s) \in events
        BY <3>1, <3>4 DEF HearMoved
      <4>2. s \in targets
        BY <1>0, <1>5, <3>2, <4>1 DEF OthersStay, AsideIsWatched, Up
      <4> QED
        BY <3>2, <3>4, <4>2 DEF MovedNames
    <3> QED
      BY <3>3, <3>4
  <2> QED
    BY <1>8, <2>1, <2>2 DEF Hear
<1>9. CASE TimerFires
  <2>1. UNCHANGED <<start, thrown, present, events, moved, sessions, at>>
    BY <1>9 DEF TimerFires, world, ears
  <2>2. UNCHANGED <<stage, todo, loaded>> \/ (stage = "idle" /\ BeginRebuild)
    BY <1>9 DEF TimerFires, Trigger
  <2> QED
    BY <1>3, <1>4, <2>1, <2>2
<1>10. CASE ComesUp
  <2>1. start = "lookingAside" /\ UNCHANGED <<sessions, loaded>>
    BY <1>10 DEF ComesUp
  <2>2. loaded = 0 /\ \A t \in Named[0] : sessions[t] = 0
    BY <1>0, <2>1 DEF StillUntilUp, QuietUntilUp, Early
  <2> QED
    BY <2>1, <2>2
<1>11. ~(Scan \/ LookAside \/ CloseWatchers)
  BY DEF Scan, LookAside, CloseWatchers, Up
<1>12. CASE (\E t \in Services : Watched(t)) \/ Close \/ UNCHANGED vars
  BY <1>4, <1>12 DEF Watched, Close, vars, world, ears, watch, flags, rebuild
<1> QED
  BY <1>6, <1>7, <1>8, <1>9, <1>10, <1>11, <1>12 DEF Next, StartStep

LEMMA WatchedIfThereKept ==
    ASSUME RestInv, Familiar, [Next]_vars PROVE WatchedIfThere'
<1>0. /\ TypeOK /\ WatchedIfThere /\ StillUntilUp /\ QuietUntilUp /\ AsideIsWatched /\ OthersStay
      /\ TodoIsNamed /\ FollowsWhatLoads
      /\ start \in Starts /\ thrown \in BOOLEAN
      /\ hearing \subseteq repositories
  BY DEF RestInv, WatchInv, TypeOK, HearingIsKnown
<1> DEFINE Fine(s) ==
       \/ s \in hearing
       \/ Moved(s) \in events \/ s \in moved
       \/ Opening(s) /\ (s \in repositories => stage = "reopening")
       \/ stage \in {"openingWatcher", "reopeningWatcher"} /\ at = s
<1> SUFFICES ASSUME Up', ~thrown', NEW s \in Named[loaded'], s \in present'
             PROVE  Fine(s)'
  BY DEF WatchedIfThere, OnTheWay
<1>1. Up /\ ~thrown /\ s \in Named[loaded] /\ s \in present => Fine(s)
  BY <1>0 DEF WatchedIfThere, OnTheWay
<1>5. s \in Services
  BY <1>0, TypeOKKept, WatchAssumption DEF Configs, TypeOK, RestInv, WatchInv
<1>4. ASSUME UNCHANGED <<start, thrown, present, moved, hearing, repositories, stage, todo, at, loaded>>,
             Moved(s) \in events => Moved(s) \in events' \/ s \in moved'
      PROVE  Fine(s)'
  BY <1>1, <1>4 DEF Opening, Up
<1>3. ASSUME BeginRebuild,
             UNCHANGED <<start, thrown, present, events, moved, hearing, repositories>>,
             stage \in {"idle", "moving", "building", "reading"}
      PROVE  Fine(s)'
  <2>1. Up /\ ~thrown /\ s \in present
    BY <1>3 DEF Up
  <2>2. CASE stage' = "moving" /\ UNCHANGED loaded
    BY <1>1, <1>3, <2>1, <2>2 DEF Opening
  <2>3. CASE stage' = "lettingGo" /\ loaded' = config /\ config \in Loads
    <3>1. CASE s \notin repositories
      BY <1>3, <2>3, <3>1 DEF Opening
    <3>2. CASE s \in repositories /\ s \notin MayLeave
      BY <1>0, <1>3, <1>5, <2>1, <3>2 DEF OthersStay, Up
    <3>3. CASE s \in MayLeave
      <4>1. s \in Named[loaded]
        BY <1>0, <2>3, <3>3 DEF Familiar, FollowsWhatLoads
      <4> QED
        BY <1>1, <1>3, <2>1, <4>1 DEF Opening
    <3> QED
      BY <3>1, <3>2, <3>3
  <2> QED
    BY <1>0, <1>3, <2>2, <2>3, BeginRebuildDoes
<1>6. CASE World
  <2>1. CASE (\E t \in Services : Save(t)) \/ EditConfiguration
    BY <1>4, <2>1 DEF Save, EditConfiguration, watch, flags, rebuild
  <2>2. CASE \E t \in Services : Leave(t)
    <3>1. PICK t \in Services : Leave(t)
      BY <2>2
    <3>2. /\ UNCHANGED <<start, thrown, moved, repositories, stage, todo, at, loaded>>
          /\ present' = present \ {t} /\ hearing' = hearing \ {t} /\ events \subseteq events'
      BY <3>1 DEF Leave, watch, flags, rebuild
    <3> QED
      BY <1>1, <3>2 DEF Opening, Up
  <2>3. CASE \E t \in Services : Return(t)
    <3>1. PICK t \in Services : Return(t)
      BY <2>3
    <3>2. CASE s = t
      <4>1. s \in targets
        BY <1>0, <1>5, <3>1, <3>2 DEF Return, OthersStay, AsideIsWatched, Up, watch
      <4> QED
        BY <3>1, <3>2, <4>1 DEF Return, Aside, Up, watch
    <3>3. CASE s # t
      <4>1. /\ UNCHANGED <<start, thrown, moved, hearing, repositories, stage, todo, at, loaded>>
            /\ s \in present /\ events \subseteq events'
        BY <3>1, <3>3 DEF Return, watch, flags, rebuild
      <4> QED
        BY <1>1, <4>1 DEF Opening, Up
    <3> QED
      BY <3>2, <3>3
  <2> QED
    BY <1>6, <2>1, <2>2, <2>3 DEF World
<1>7. CASE RebuildStep
  <2>1. CASE \E t \in Services : LetGo(t)
    <3>1. PICK t \in Services : LetGo(t)
      BY <2>1
    <3>2. /\ stage = "lettingGo" /\ t \in todo
          /\ UNCHANGED <<start, thrown, present, events, moved, stage, at, loaded>>
          /\ repositories' = repositories \ {t} /\ hearing' = hearing \ {t}
      BY <3>1 DEF LetGo, world, flags
    <3>3. s # t
      BY <1>0, <3>2 DEF TodoIsNamed
    <3> QED
      BY <1>1, <3>2, <3>3 DEF Opening, Up
  <2>2. CASE OpenAll
    <3>1. /\ stage = "lettingGo" /\ stage' = "opening" /\ todo' = Named[loaded]
          /\ UNCHANGED <<start, thrown, present, events, moved, hearing, repositories, at, loaded>>
      BY <2>2 DEF OpenAll, ToOpen, world, ears, flags
    <3> QED
      BY <1>1, <3>1 DEF Opening, Up
  <2>3. CASE \E t \in Services : OpenOne(t)
    <3>1. PICK t \in Services : OpenOne(t)
      BY <2>3
    <3>2. /\ stage = "opening" /\ todo' = todo \ {t} /\ at' = t
          /\ stage' = IF t \in present /\ t \notin repositories THEN "openingWatcher" ELSE "opening"
          /\ UNCHANGED <<start, thrown, present, events, moved, hearing, repositories, loaded>>
      BY <3>1 DEF OpenOne, Open, world, ears, flags
    <3>3. CASE s = t
      BY <1>1, <3>2, <3>3 DEF Opening, Up
    <3>4. CASE s # t
      BY <1>1, <3>2, <3>4 DEF Opening, Up
    <3> QED
      BY <3>3, <3>4
  <2>4. ASSUME NEW waits, NEW done, WatcherReady(waits, done),
               <<waits, done>> \in {<<"openingWatcher", "opening">>, <<"reopeningWatcher", "moving">>}
        PROVE  Fine(s)'
    <3>1. /\ stage = waits /\ stage' = done
          /\ repositories' = repositories \union {at} /\ hearing' = hearing \union ({at} \intersect present)
          /\ UNCHANGED <<start, thrown, present, events, moved, todo, at, loaded>>
      BY <2>4 DEF WatcherReady, world, flags
    <3>2. CASE s = at
      BY <3>1, <3>2
    <3>3. CASE s # at
      BY <1>1, <2>4, <3>1, <3>3 DEF Opening, Up
    <3> QED
      BY <3>2, <3>3
  <2>5. CASE Opened
    <3>1. /\ stage = "opening" /\ todo = {} /\ stage' = "moving"
          /\ UNCHANGED <<start, thrown, present, events, moved, hearing, repositories, at, loaded>>
      BY <2>5 DEF Opened, world, ears, watch, flags
    <3> QED
      BY <1>1, <3>1 DEF Opening, Up
  <2>6. CASE \E t \in Services : ReopenMoved(t)
    <3>1. PICK t \in Services : ReopenMoved(t)
      BY <2>6
    <3>2. /\ stage = "moving" /\ moved' = moved \ {t}
          /\ UNCHANGED <<start, thrown, present, events, repositories, loaded>>
          /\ t \in Named[loaded] => stage' = "reopening" /\ at' = t
          /\ hearing \ {t} \subseteq hearing'
      BY <3>1 DEF ReopenMoved, world, watch
    <3>3. CASE s = t
      BY <3>2, <3>3 DEF Opening
    <3>4. CASE s # t
      BY <1>1, <3>2, <3>4 DEF Opening, Up
    <3> QED
      BY <3>3, <3>4
  <2>7. CASE Reopen
    <3>1. /\ stage = "reopening" /\ repositories' = repositories \ {at}
          /\ UNCHANGED <<start, thrown, present, events, moved, hearing, at, loaded>>
          /\ at \in present => stage' = "reopeningWatcher"
      BY <2>7 DEF Reopen, Open, WithoutIt, world, ears, flags
    <3>2. CASE s = at
      BY <3>1, <3>2
    <3>3. CASE s # at
      BY <1>1, <3>1, <3>3 DEF Opening, Up
    <3> QED
      BY <3>2, <3>3
  <2>8. CASE LoadConfig \/ Survey
    <3>1. /\ stage \in {"moving", "building"} /\ stage' \in {"building", "reading"}
          /\ UNCHANGED <<start, thrown, present, events, moved, hearing, repositories, at, loaded>>
      BY <2>8 DEF LoadConfig, Survey, world, ears, watch, flags
    <3> QED
      BY <1>1, <3>1 DEF Opening, Up
  <2>9. CASE BuildEnds \/ BuildThrows
    <3>1. /\ UNCHANGED <<start, thrown, present, events, moved, hearing, repositories>>
          /\ stage \in {"idle", "moving", "building", "reading"}
      BY <2>9 DEF BuildEnds, BuildThrows, world, ears
    <3>2. AfterARebuild
      BY <2>9 DEF BuildEnds, BuildThrows
    <3>3. CASE BeginRebuild
      BY <1>3, <3>1, <3>3
    <3>4. CASE UNCHANGED loaded
      BY <1>1, <3>1, <3>4 DEF Opening, Up
    <3> QED
      BY <1>0, <3>2, <3>3, <3>4, AfterARebuildDoes
  <2>10. ~OpenThrows
    BY DEF OpenThrows
  <2> QED
    BY <1>7, <2>1, <2>2, <2>3, <2>4, <2>5, <2>6, <2>7, <2>8, <2>9, <2>10 DEF RebuildStep
<1>8. CASE Hear
  <2>1. CASE (\E t \in Services : HearSaved(t)) \/ HearConfiguration
    BY <1>4, <1>5, <2>1, MovesDiffer, EventsDiffer
       DEF HearSaved, HearConfiguration, world, watch, rebuild
  <2>2. CASE \E t \in Services : HearMoved(t)
    <3>1. PICK t \in Services : HearMoved(t)
      BY <2>2
    <3>2. /\ UNCHANGED <<start, thrown, present, hearing, repositories, stage, todo, at, loaded, targets>>
          /\ events' = events \ {Moved(t)} /\ moved \subseteq moved'
          /\ t \in targets => moved' = moved \union MovedNames(t)
      BY <3>1 DEF HearMoved, world, watch, rebuild
    <3>3. CASE s # t
      BY <1>4, <1>5, <3>2, <3>3, MovesDiffer, <1>1 DEF Opening, Up
    <3>4. CASE s = t
      <4>1. Moved(s) \in events
        BY <3>1, <3>4 DEF HearMoved
      <4>2. s \in targets
        BY <1>0, <1>5, <3>2, <4>1 DEF OthersStay, AsideIsWatched, Up
      <4> QED
        BY <3>2, <3>4, <4>2 DEF MovedNames
    <3> QED
      BY <3>3, <3>4
  <2> QED
    BY <1>8, <2>1, <2>2 DEF Hear
<1>9. CASE TimerFires
  <2>1. UNCHANGED <<start, thrown, present, events, moved, hearing, repositories, at>>
    BY <1>9 DEF TimerFires, world, ears
  <2>2. UNCHANGED <<stage, todo, loaded>> \/ (stage = "idle" /\ BeginRebuild)
    BY <1>9 DEF TimerFires, Trigger
  <2> QED
    BY <1>3, <1>4, <2>1, <2>2
<1>10. CASE ComesUp
  <2>1. start = "lookingAside" /\ UNCHANGED <<hearing, loaded>>
    BY <1>10 DEF ComesUp, ears
  <2>2. loaded = 0 /\ Named[0] \subseteq hearing
    BY <1>0, <2>1 DEF StillUntilUp, QuietUntilUp, Early
  <2> QED
    BY <2>1, <2>2
<1>11. ~(Scan \/ LookAside \/ CloseWatchers)
  BY DEF Scan, LookAside, CloseWatchers, Up
<1>12. ASSUME NEW t \in Services, Watched(t) PROVE Fine(s)'
  BY <1>12 DEF Watched, Up
<1>13. CASE Close \/ UNCHANGED vars
  BY <1>4, <1>13 DEF Close, vars, world, ears, watch, flags, rebuild
<1> QED
  BY <1>6, <1>7, <1>8, <1>9, <1>10, <1>11, <1>12, <1>13 DEF Next, StartStep

\* A repository of the configuration that may come or go is one the watch is
\* told of.
LEMMA GoingIsTold ==
    ASSUME RestInv, Familiar, Up, config \in Loads, NEW s \in Named[config], s \in MayLeave
    PROVE  s \in targets
<1>1. s \in Named[loaded]
  BY DEF RestInv, FollowsWhatLoads, Familiar
<1> QED
  BY <1>1 DEF RestInv, AsideIsWatched

\* A configuration that could be followed and is not yet has a rebuild to come.
LEMMA EditIsDue ==
    ASSUME RestInv, Up, ~closed, base.config = 0, config \in Loads, loaded # config
    PROVE  ConfigurationEdited \in events \/ Waking
  BY DEF RestInv, WatchInv, NoEditIsForgotten, EditIsPending

LEMMA BuiltOrDueKept ==
    ASSUME RestInv, Familiar, [Next]_vars PROVE BuiltOrDue'
<1>0. /\ TypeOK /\ BuiltOrDue /\ OthersStay /\ MovedIsPending /\ WatchedIfThere
      /\ timer \in BOOLEAN /\ queued \in BOOLEAN /\ closed \in BOOLEAN /\ thrown \in BOOLEAN
  BY DEF RestInv, WatchInv, TypeOK
<1> DEFINE Ready ==
               Up /\ ~closed /\ ~thrown /\ base.config = 0 /\ config \in Loads
           Told(s) == Saved(s) \in events \/ Moved(s) \in events
           Done(s) == \/ stage = "building" /\ s \in todo
                      \/ stage = "reading" /\ took[s] = saves[s]
                      \/ stage = "idle" /\ (failed \/ built[s] = saves[s])
<1> SUFFICES ASSUME Ready', NEW s \in Named[config'], Changed(s)' PROVE (Due \/ Told(s) \/ Done(s))'
  BY DEF BuiltOrDue
<1>1. s \in Services
  BY <1>0, TypeOKKept, WatchAssumption DEF Configs, TypeOK, RestInv, WatchInv
<1>2. Ready /\ s \in Named[config] /\ Changed(s) => Due \/ Told(s) \/ Done(s)
  BY <1>0 DEF BuiltOrDue
<1>3. ASSUME Ready, s \in Named[config], s \in present, s \notin hearing
      PROVE  Due \/ Told(s)
  <2>1. CASE loaded # config
    BY <1>3, <2>1, EditIsDue DEF Due
  <2>2. CASE loaded = config
    <3>1. \/ OnTheWay(s) \/ Opening(s)
          \/ stage \in {"openingWatcher", "reopeningWatcher"} /\ at = s
      BY <1>0, <1>3, <2>2 DEF WatchedIfThere
    <3>2. s \in moved => Waking \/ stage \in Opens \/ stage \in Moves
      BY <1>0, <1>3 DEF MovedIsPending
    <3> QED
      BY <3>1, <3>2 DEF OnTheWay, Opening, Due, Opens, Moves
  <2> QED
    BY <2>1, <2>2
<1>4. ASSUME UNCHANGED <<start, thrown, base, config, closed>> PROVE Ready /\ s \in Named[config]
  BY <1>4 DEF Up
<1>5. ASSUME UNCHANGED <<start, thrown, failed, base, config, closed, saves, stage, todo, took, built>>,
             Due \/ Told(s) => Due' \/ Told(s)'
      PROVE  (Due \/ Told(s) \/ Done(s))'
  <2>1. Changed(s)
    BY <1>5 DEF Changed
  <2> QED
    BY <1>2, <1>4, <1>5, <2>1
<1>6. CASE World
  <2>1. ASSUME NEW t \in Services, Save(t) \/ Leave(t) \/ Return(t), Changed(s) \/ s = t
        PROVE  (Due \/ Told(s) \/ Done(s))'
    <3>1. /\ UNCHANGED <<start, thrown, failed, base, config, closed, timer, queued, stage, todo,
                         took, built>>
          /\ events \subseteq events'
          /\ saves' = [saves EXCEPT ![t] = @ + 1]
      BY <2>1 DEF Save, Leave, Return, watch, flags, rebuild
    <3>6. (timer => timer') /\ (queued => queued')
      BY <3>1
    <3>2. Due \/ Told(s) => (Due \/ Told(s))'
      BY <3>1, <3>6 DEF Due, Waking
    <3>3. Ready /\ s \in Named[config]
      BY <1>4, <3>1
    <3>4. CASE s # t
      <4>1. saves'[s] = saves[s]
        BY <1>0, <1>1, <3>1, <3>4 DEF TypeOK
      <4> QED
        BY <1>2, <2>1, <3>1, <3>2, <3>3, <3>4, <4>1
    <3>5. CASE s = t
      <4>1. CASE Save(s)
        BY <1>3, <3>2, <3>3, <4>1 DEF Save
      <4>2. CASE Leave(s) \/ Return(s)
        <5>1. s \in MayLeave
          BY <1>0, <1>1, <4>2 DEF Leave, Return, OthersStay
        <5>2. s \in targets
          BY <3>3, <5>1, GoingIsTold
        <5> QED
          BY <3>3, <4>2, <5>2 DEF Leave, Return, Aside
      <4> QED
        BY <2>1, <3>5, <4>1, <4>2
    <3> QED
      BY <3>4, <3>5
  <2>2. ASSUME NEW t \in Services, Save(t) \/ Leave(t) \/ Return(t), ~Changed(s)
        PROVE  s = t
    BY <1>0, <1>1, <2>2 DEF Save, Leave, Return, Changed, TypeOK
  <2>3. CASE EditConfiguration
    BY <2>3 DEF EditConfiguration, Due, watch, Up
  <2> QED
    BY <1>6, <2>1, <2>2, <2>3 DEF World
<1>7. CASE RebuildStep
  <2>0. UNCHANGED <<start, base, config, closed, saves, events, timer>>
    BY <1>7 DEF RebuildStep, LetGo, OpenAll, OpenOne, WatcherReady, Opened, ReopenMoved,
       Reopen, LoadConfig, Survey, BuildEnds, BuildThrows, OpenThrows, world, ears, watch, flags
  <2>1. /\ UNCHANGED <<start, base, config, closed, saves, events>>
        /\ timer => timer'
    BY <2>0
  <2>2. UNCHANGED thrown
    BY <1>7 DEF RebuildStep, LetGo, OpenAll, OpenOne, WatcherReady, Opened, ReopenMoved,
       Reopen, LoadConfig, Survey, BuildEnds, BuildThrows, OpenThrows
  <2>3. Ready /\ s \in Named[config] /\ Changed(s)
    BY <1>4, <2>1, <2>2 DEF Changed
  <2>4. CASE \/ \E t \in Services : LetGo(t) \/ OpenOne(t) \/ ReopenMoved(t)
             \/ OpenAll \/ Opened \/ Reopen
             \/ WatcherReady("openingWatcher", "opening") \/ WatcherReady("reopeningWatcher", "moving")
    <3>1. stage' \in Opens \union Moves
      BY <2>4 DEF LetGo, OpenOne, ReopenMoved, OpenAll, Opened, Reopen, WatcherReady, Open, Opens, Moves
    <3> QED
      BY <3>1 DEF Due
  <2>5. CASE LoadConfig
    BY <2>1, <2>5 DEF LoadConfig
  <2>6. CASE Survey
    <3>1. stage = "building" /\ stage' = "reading" /\ UNCHANGED queued
      BY <2>6 DEF Survey, flags
    <3>2. queued => queued'
      BY <3>1
    <3>3. CASE Due \/ Told(s)
      BY <2>1, <3>1, <3>2, <3>3 DEF Due, Waking, Opens, Moves
    <3>4. CASE ~(Due \/ Told(s))
      <4>1. s \in todo
        BY <1>2, <2>3, <3>1, <3>4
      <4> QED
        BY <1>1, <2>1, <2>6, <3>1, <4>1 DEF Survey
    <3> QED
      BY <3>3, <3>4
  <2>7. CASE BuildEnds
    <3>1. stage = "reading" /\ built' = took /\ AfterARebuild
      BY <2>7 DEF BuildEnds
    <3>2. CASE BeginRebuild
      BY <1>0, <3>2, BeginRebuildDoes DEF Due, Opens, Moves
    <3>3. CASE ~queued /\ stage' = "idle"
      <4>1. CASE Due \/ Told(s)
        BY <2>1, <3>1, <3>3, <4>1 DEF Due, Waking, Opens, Moves
      <4>2. CASE ~(Due \/ Told(s))
        BY <1>2, <2>1, <2>3, <3>1, <3>3, <4>2
      <4> QED
        BY <4>1, <4>2
    <3> QED
      BY <1>0, <2>3, <3>1, <3>2, <3>3, AfterARebuildDoes
  <2>8. CASE BuildThrows
    <3>1. failed' = TRUE /\ AfterARebuild
      BY <2>8 DEF BuildThrows
    <3>2. CASE BeginRebuild
      BY <1>0, <3>2, BeginRebuildDoes DEF Due, Opens, Moves
    <3>3. CASE stage' = "idle"
      BY <3>1, <3>3
    <3> QED
      BY <1>0, <2>3, <3>1, <3>2, <3>3, AfterARebuildDoes
  <2>9. ~OpenThrows
    BY DEF OpenThrows
  <2> QED
    BY <1>7, <2>4, <2>5, <2>6, <2>7, <2>8, <2>9 DEF RebuildStep
<1>8. CASE Hear
  <2>0. UNCHANGED <<start, thrown, failed, base, config, closed, saves, stage, todo, took, built>>
    BY <1>8 DEF Hear, HearSaved, HearConfiguration, HearMoved, world, watch, rebuild
  <2>1. CASE timer'
    BY <2>1 DEF Due, Waking
  <2>2. ASSUME NEW t \in Services, HearMoved(t), t \notin targets
        PROVE  (Due \/ Told(s) \/ Done(s))'
    <3>1. /\ events' = events \ {Moved(t)} /\ UNCHANGED <<timer, queued>>
          /\ Moved(t) \in events
      BY <2>2 DEF HearMoved
    <3>2. (timer => timer') /\ (queued => queued')
      BY <3>1
    <3>3. t \in MayLeave
      BY <1>0, <3>1 DEF OthersStay
    <3>4. s # t
      BY <1>4, <2>0, <2>2, <3>3, GoingIsTold
    <3>5. Moved(t) \notin {Moved(s), Saved(s), ConfigurationEdited}
      BY <1>1, <3>4, MovesDiffer, EventsDiffer
    <3>6. Due \/ Told(s) => Due' \/ Told(s)'
      BY <2>0, <3>1, <3>2, <3>5 DEF Due, Waking
    <3> QED
      BY <1>5, <2>0, <3>6
  <2> QED
    BY <1>8, <2>1, <2>2 DEF Hear, HearSaved, HearConfiguration, HearMoved, Touched
<1>9. CASE TimerFires
  <2>1. ~closed /\ (queued' \/ BeginRebuild)
    BY <1>9 DEF TimerFires, Trigger
  <2>2. CASE BeginRebuild
    BY <1>0, <2>2, BeginRebuildDoes DEF Due, Opens, Moves
  <2> QED
    BY <2>1, <2>2 DEF Due, Waking
<1>10. CASE ComesUp
  <2>1. /\ base' = [saves |-> saves, config |-> config] /\ UNCHANGED <<saves, config>>
    BY <1>10 DEF ComesUp, world
  <2>2. saves[s] \in Nat
    BY <1>0, <1>1 DEF TypeOK
  <2>3. base'.saves[s] = saves'[s] /\ base'.config = config'
    BY <2>1
  <2> QED
    BY <2>1, <2>2, <2>3 DEF Changed
<1>11. ~(Scan \/ LookAside \/ CloseWatchers \/ Close)
  BY DEF Scan, LookAside, CloseWatchers, Close, Up
<1>12. \A t \in Services : ~Watched(t)
  BY DEF Watched, Up
<1>13. CASE UNCHANGED vars
  <2>1. UNCHANGED <<start, thrown, failed, base, config, closed, saves, stage, todo, took, built,
                    timer, queued, events>>
    BY <1>13 DEF vars, world, ears, watch, flags, rebuild
  <2>2. (timer => timer') /\ (queued => queued')
    BY <2>1
  <2>3. Due \/ Told(s) => Due' \/ Told(s)'
    BY <2>1, <2>2 DEF Due, Waking
  <2> QED
    BY <1>5, <2>1, <2>3
<1> QED
  BY <1>6, <1>7, <1>8, <1>9, <1>10, <1>11, <1>12, <1>13 DEF Next, StartStep

LEMMA StepKeepsRest ==
    ASSUME Familiar, ~LeavesEarly PROVE RestInv /\ [Next]_vars => RestInv'
<1> SUFFICES ASSUME RestInv, [Next]_vars PROVE RestInv'
  OBVIOUS
<1>1. WatchInv'
  BY StepKeepsWatch DEF RestInv
<1>2. StillUntilUp' /\ FollowsWhatLoads' /\ OthersStay' /\ AsideIsWatched' /\ TodoIsNamed'
  BY StillUntilUpKept, FollowsWhatLoadsKept, OthersStayKept, AsideIsWatchedKept, TodoIsNamedKept
<1>3. EditIsPending' /\ MovedIsPending' /\ HeldAsSaid' /\ WatchedIfThere' /\ BuiltOrDue'
  BY EditIsPendingKept, MovedIsPendingKept, HeldAsSaidKept, WatchedIfThereKept, BuiltOrDueKept
<1> QED
  BY <1>1, <1>2, <1>3 DEF RestInv

LEMMA RestKeeps ==
    ASSUME Familiar, ~LeavesEarly PROVE Spec => []RestInv
  BY InitRest, StepKeepsRest, PTL DEF Spec

\* Nothing that moved is left of a watch at rest, and it follows the configuration.
LEMMA AtRest ==
    ASSUME RestInv, Settled, Followed, ~thrown
    PROVE  /\ loaded = config /\ ~Due
           /\ \A s \in Services : ~OnTheWay(s) /\ ~Opening(s)
<1>1. /\ Up /\ ~closed /\ stage = "idle" /\ ~Waking /\ events = {}
      /\ base.config = 0 /\ config \in Loads
  BY DEF Settled, Followed, Waking
<1>2. loaded = config
  BY <1>1, EditIsDue
<1>3. moved = {}
  BY <1>1 DEF RestInv, MovedIsPending, Opens, Moves
<1> QED
  BY <1>1, <1>2, <1>3 DEF Due, OnTheWay, Opening, Opens, Moves

\* A watch that is quiet, and whose last rebuild printed no error, has built the
\* last of everything that changed since it came up: no save falls between a watcher
\* that was closed and the next one, and none is taken by a rebuild that had surveyed
\* already (trigger() owes it one).
THEOREM QuietMeansBuilt ==
    ASSUME Familiar, ~LeavesEarly PROVE Spec => []UpToDateWhenSettled
<1>1. ASSUME RestInv, Settled, Followed, ~thrown, ~failed, NEW s \in Named[config],
             saves[s] > base.saves[s] \/ config # 0
      PROVE  built[s] = saves[s]
  <2>1. ~Due /\ events = {} /\ stage = "idle" /\ Up /\ ~closed
    BY <1>1, AtRest DEF Settled
  <2> QED
    BY <1>1, <2>1 DEF RestInv, BuiltOrDue, Changed, Followed
<1>2. RestInv => UpToDateWhenSettled
  BY <1>1 DEF UpToDateWhenSettled
<1> QED
  BY <1>2, RestKeeps, PTL

\* And it hears every repository that is there: one that went and came back has
\* its watcher closed and started again (reopenMoved).
THEOREM QuietMeansWatched ==
    ASSUME Familiar, ~LeavesEarly PROVE Spec => []PresentMeansWatched
<1>1. ASSUME RestInv, Settled, Followed, ~thrown, NEW s \in Named[config], s \in present
      PROVE  s \in hearing
  <2>1. loaded = config /\ ~OnTheWay(s) /\ ~Opening(s) /\ stage = "idle" /\ Up
    BY <1>1, AtRest, WatchAssumption DEF Settled, RestInv, WatchInv, TypeOK, Configs
  <2> QED
    BY <1>1, <2>1 DEF RestInv, WatchedIfThere
<1>2. RestInv => PresentMeansWatched
  BY <1>1 DEF PresentMeansWatched
<1> QED
  BY <1>2, RestKeeps, PTL

\* And holds each of them open as the configuration it now follows says, also one
\* that was open before the edit (reload opens every one again).
THEOREM QuietMeansReloaded ==
    ASSUME Familiar, ~LeavesEarly PROVE Spec => []SessionsFollowTheConfiguration
<1>1. ASSUME RestInv, Settled, Followed, ~thrown, NEW s \in Named[config], s \in present
      PROVE  sessions[s] = config
  <2>1. loaded = config /\ ~OnTheWay(s) /\ ~Opening(s) /\ Up
    BY <1>1, AtRest, WatchAssumption DEF Settled, RestInv, WatchInv, TypeOK, Configs
  <2> QED
    BY <1>1, <2>1 DEF RestInv, HeldAsSaid
<1>2. RestInv => SessionsFollowTheConfiguration
  BY <1>1 DEF SessionsFollowTheConfiguration
<1> QED
  BY <1>2, RestKeeps, PTL

-----------------------------------------------------------------------------
(***************************************************************************)
(* That a watch nobody touches comes to rest: it always has a step to take *)
(* until it is at rest, and only so many of them.                          *)
(***************************************************************************)

Repos == Cardinality(Services)

\* How many steps the rebuild that is running may still have, with so many
\* repositories to see to at its stage.
RebuildLeft(where, n) ==
    IF where = "lettingGo" THEN 5 + 7 * Repos + n
    ELSE IF where = "openingWatcher" THEN 5 + 4 * Repos + 3 * n
    ELSE IF where = "opening" THEN 4 + 4 * Repos + 3 * n
    ELSE IF where = "reopening" THEN 5 + 4 * n
    ELSE IF where = "reopeningWatcher" THEN 4 + 4 * n
    ELSE IF where = "moving" THEN 3 + 4 * n
    ELSE IF where = "building" THEN 2
    ELSE IF where = "reading" THEN 1
    ELSE 0

\* One more than a rebuild has at most.
Round == 6 + 8 * Repos

\* How many steps it is to the end of starting and closing.
StartLeft(where, n) ==
    IF where = "firstBuild" THEN 4 + Repos
    ELSE IF where = "scanning" THEN 3 + n
    ELSE IF where = "lookingAside" THEN 2
    ELSE IF where = "up" THEN 1
    ELSE 0

\* How many steps the rebuilds that are owed may have: by the timer, and by queued.
Owed == (IF timer THEN Round + 1 ELSE 0) + (IF queued THEN Round ELSE 0)

\* What the rebuild that runs and the rebuilds that are owed may have between them.
ToRebuild == Owed + RebuildLeft(stage, Cardinality(todo))

\* How many steps there may be until the world changes again: each event sets the
\* timer, the timer begins a rebuild, and a rebuild begins the one that is queued.
StepsLeft ==
    Cardinality(events) * (Round + 2) + ToRebuild
        + StartLeft(start, Cardinality(toWatch)) + (IF closed THEN 0 ELSE 1)

\* What is left to a watch that is not at rest: a rebuild, something it heard, the
\* timer, coming up, or closing.
SomethingGoesOn ==
    \/ stage # "idle"
    \/ events # {}
    \/ timer
    \/ start \in {"firstBuild", "scanning", "lookingAside"}
    \/ Up /\ closed

\* What the watch does, and not the world.
OwnStep == RebuildStep \/ Hear \/ TimerFires \/ StartStep \/ Close \/ CloseWatchers

\* So many repositories can be counted, and one less is one less.
LEMMA RepositoriesAreCounted ==
    ASSUME IsFiniteSet(Services), NEW S \in SUBSET Services
    PROVE  /\ Cardinality(S) \in 0 .. Repos /\ Repos \in Nat
           /\ S = {} => Cardinality(S) = 0
           /\ S # {} => Cardinality(S) > 0
           /\ \A s \in S : Cardinality(S \ {s}) = Cardinality(S) - 1
<1>1. IsFiniteSet(S) /\ Cardinality(S) <= Repos
  BY FS_Subset DEF Repos
<1>2. Cardinality(S) \in Nat /\ Repos \in Nat
  BY <1>1, FS_CardinalityType DEF Repos
<1>3. Cardinality(S) = 0 <=> S = {}
  BY <1>1, FS_EmptySet
<1>4. \A s \in S : Cardinality(S \ {s}) = Cardinality(S) - 1
  BY <1>1, FS_RemoveElement
<1> QED
  BY <1>1, <1>2, <1>3, <1>4

\* What is heard is of finitely many kinds, and what is told is gone.
LEMMA EventsAreCounted ==
    ASSUME IsFiniteSet(Services), NEW S \in SUBSET Events
    PROVE  /\ Cardinality(S) \in Nat
           /\ \A e \in S : Cardinality(S \ {e}) = Cardinality(S) - 1 /\ Cardinality(S) > 0
<1> DEFINE A == {Saved(s) : s \in Services}
           B == {Moved(s) : s \in Services}
<1>1. IsFiniteSet(A)
  <2> DEFINE f == [s \in Services |-> Saved(s)]
  <2>1. f \in Surjection(Services, A)
    BY DEF Surjection
  <2> QED
    BY <2>1, FS_Surjection
<1>2. IsFiniteSet(B)
  <2> DEFINE f == [s \in Services |-> Moved(s)]
  <2>1. f \in Surjection(Services, B)
    BY DEF Surjection
  <2> QED
    BY <2>1, FS_Surjection
<1> HIDE DEF A, B
<1>3. IsFiniteSet({ConfigurationEdited})
  BY FS_Singleton
<1>4. IsFiniteSet(A \union B)
  BY <1>1, <1>2, FS_Union
<1>5. IsFiniteSet((A \union B) \union {ConfigurationEdited})
  BY <1>3, <1>4, FS_Union
<1>6. S \subseteq (A \union B) \union {ConfigurationEdited}
  BY DEF Events, A, B
<1>7. IsFiniteSet(S)
  BY <1>5, <1>6, FS_Subset
<1>8. Cardinality(S) \in Nat
  BY <1>7, FS_CardinalityType
<1>9. \A e \in S : Cardinality(S \ {e}) = Cardinality(S) - 1
  BY <1>7, FS_RemoveElement
<1>10. S # {} => Cardinality(S) # 0
  BY <1>7, FS_EmptySet
<1> QED
  BY <1>8, <1>9, <1>10

\* A rebuild has fewer steps than a round, and some while it runs.
LEMMA ARoundIsEnough ==
    ASSUME IsFiniteSet(Services), NEW where, NEW n \in 0 .. Repos
    PROVE  /\ RebuildLeft(where, n) \in Nat /\ RebuildLeft(where, n) < Round
           /\ where \in Stages \ {"idle"} => RebuildLeft(where, n) > 0
<1>1. Repos \in Nat
  BY RepositoriesAreCounted
<1> QED
  BY <1>1 DEF RebuildLeft, Round, Stages

\* A rebuild that is over leaves less: none, or the one that was owed.
LEMMA WhatIsOwedIsPaid ==
    ASSUME IsFiniteSet(Services), TypeOK, TypeOK', AfterARebuild, stage # "idle", UNCHANGED timer
    PROVE  ToRebuild' < ToRebuild
<1> DEFINE n == Cardinality(todo)
           m == Cardinality(todo')
<1>1. n \in 0 .. Repos /\ m \in 0 .. Repos /\ Repos \in Nat
  BY RepositoriesAreCounted DEF TypeOK
<1>2. /\ RebuildLeft(stage, n) \in Nat /\ RebuildLeft(stage, n) > 0
      /\ RebuildLeft(stage', m) \in Nat /\ RebuildLeft(stage', m) < Round
  BY <1>1, ARoundIsEnough DEF TypeOK
<1>3. Round \in Nat
  BY <1>1 DEF Round
<1>4. ToRebuild = Owed + RebuildLeft(stage, n) /\ ToRebuild' = Owed' + RebuildLeft(stage', m)
  BY DEF ToRebuild
<1> HIDE DEF n, m
<1>5. CASE queued /\ ~closed
  <2>1. queued' = FALSE
    BY <1>5 DEF AfterARebuild
  <2>2. Owed' = Owed - Round
    BY <1>3, <1>5, <2>1 DEF Owed
  <2>3. Owed \in Int
    BY <1>3 DEF Owed
  <2> QED
    BY <1>2, <1>3, <1>4, <2>2, <2>3
<1>6. CASE ~(queued /\ ~closed)
  <2>1. stage' = "idle" /\ queued' = queued
    BY <1>6 DEF AfterARebuild
  <2>2. RebuildLeft(stage', m) = 0
    BY <2>1 DEF RebuildLeft
  <2>3. Owed' = Owed /\ Owed \in Int
    BY <1>3, <2>1 DEF Owed
  <2> QED
    BY <1>2, <1>4, <2>2, <2>3
<1> QED
  BY <1>5, <1>6

\* A step of a rebuild leaves fewer of them.
LEMMA RebuildStepLowers ==
    ASSUME IsFiniteSet(Services), TypeOK, TypeOK', RebuildStep
    PROVE  ToRebuild' < ToRebuild /\ UNCHANGED <<events, start, toWatch, closed>>
<1> DEFINE n == Cardinality(todo)
           m == Cardinality(todo')
<1>1. n \in 0 .. Repos /\ m \in 0 .. Repos /\ Repos \in Nat
  BY RepositoriesAreCounted DEF TypeOK
<1>2. /\ todo = {} => n = 0
      /\ \A s \in todo : n > 0 /\ Cardinality(todo \ {s}) = n - 1
  BY RepositoriesAreCounted DEF TypeOK
<1>3. Round \in Nat
  BY <1>1 DEF Round
<1>4. ToRebuild = Owed + RebuildLeft(stage, n) /\ ToRebuild' = Owed' + RebuildLeft(stage', m)
  BY DEF ToRebuild
<1>5. RebuildLeft(stage, n) \in Nat /\ RebuildLeft(stage', m) \in Nat /\ Owed \in Int
  BY <1>1, <1>3, ARoundIsEnough DEF Owed
<1>6. ASSUME UNCHANGED <<timer, queued>>, RebuildLeft(stage', m) < RebuildLeft(stage, n)
      PROVE  ToRebuild' < ToRebuild
  <2>1. Owed' = Owed
    BY <1>6 DEF Owed
  <2> QED
    BY <1>4, <1>5, <1>6, <2>1
<1>7. ASSUME NEW s \in todo, todo' = todo \ {s} PROVE m = n - 1 /\ n > 0
  BY <1>2, <1>7
<1>8. todo' = todo => m = n
  OBVIOUS
<1>9. todo' = {} => m = 0
  BY FS_EmptySet
<1> HIDE DEF n, m
<1> USE DEF world, ears, watch, flags
<1>10. CASE \E s \in Services : LetGo(s)
  <2>1. stage = "lettingGo" /\ stage' = "lettingGo" /\ m = n - 1
    BY <1>7, <1>10 DEF LetGo
  <2>2. RebuildLeft(stage', m) < RebuildLeft(stage, n)
    BY <1>1, <2>1 DEF RebuildLeft
  <2> QED
    BY <1>6, <1>10, <2>2 DEF LetGo
<1>11. CASE OpenAll
  <2>1. stage = "lettingGo" /\ stage' = "opening"
    BY <1>11 DEF OpenAll
  <2>2. RebuildLeft(stage', m) < RebuildLeft(stage, n)
    BY <1>1, <2>1 DEF RebuildLeft
  <2> QED
    BY <1>6, <1>11, <2>2 DEF OpenAll
<1>12. CASE \E s \in Services : OpenOne(s)
  <2>1. stage = "opening" /\ stage' \in {"opening", "openingWatcher"} /\ m = n - 1
    BY <1>7, <1>12 DEF OpenOne, Open
  <2>2. RebuildLeft(stage', m) < RebuildLeft(stage, n)
    BY <1>1, <2>1 DEF RebuildLeft
  <2> QED
    BY <1>6, <1>12, <2>2 DEF OpenOne
<1>13. CASE WatcherReady("openingWatcher", "opening")
  <2>1. stage = "openingWatcher" /\ stage' = "opening" /\ m = n
    BY <1>8, <1>13 DEF WatcherReady
  <2>2. RebuildLeft(stage', m) < RebuildLeft(stage, n)
    BY <1>1, <2>1 DEF RebuildLeft
  <2> QED
    BY <1>6, <1>13, <2>2 DEF WatcherReady
<1>14. CASE Opened
  <2>1. stage = "opening" /\ stage' = "moving"
    BY <1>14 DEF Opened
  <2>2. RebuildLeft(stage', m) < RebuildLeft(stage, n)
    BY <1>1, <2>1 DEF RebuildLeft
  <2> QED
    BY <1>6, <1>14, <2>2 DEF Opened
<1>15. CASE \E s \in Services : ReopenMoved(s)
  <2>1. stage = "moving" /\ stage' \in {"moving", "reopening"} /\ m = n - 1
    BY <1>7, <1>15 DEF ReopenMoved
  <2>2. RebuildLeft(stage', m) < RebuildLeft(stage, n)
    BY <1>1, <2>1 DEF RebuildLeft
  <2> QED
    BY <1>6, <1>15, <2>2 DEF ReopenMoved
<1>16. CASE Reopen
  <2>1. stage = "reopening" /\ stage' \in {"moving", "reopeningWatcher"} /\ m = n
    BY <1>8, <1>16 DEF Reopen, Open
  <2>2. RebuildLeft(stage', m) < RebuildLeft(stage, n)
    BY <1>1, <2>1 DEF RebuildLeft
  <2> QED
    BY <1>6, <1>16, <2>2 DEF Reopen
<1>17. CASE WatcherReady("reopeningWatcher", "moving")
  <2>1. stage = "reopeningWatcher" /\ stage' = "moving" /\ m = n
    BY <1>8, <1>17 DEF WatcherReady
  <2>2. RebuildLeft(stage', m) < RebuildLeft(stage, n)
    BY <1>1, <2>1 DEF RebuildLeft
  <2> QED
    BY <1>6, <1>17, <2>2 DEF WatcherReady
<1>18. CASE LoadConfig
  <2>1. stage = "moving" /\ stage' = "building"
    BY <1>18 DEF LoadConfig
  <2>2. RebuildLeft(stage', m) < RebuildLeft(stage, n)
    BY <1>1, <2>1 DEF RebuildLeft
  <2> QED
    BY <1>6, <1>18, <2>2 DEF LoadConfig
<1>19. CASE Survey
  <2>1. stage = "building" /\ stage' = "reading"
    BY <1>19 DEF Survey
  <2>2. RebuildLeft(stage', m) < RebuildLeft(stage, n)
    BY <2>1 DEF RebuildLeft
  <2> QED
    BY <1>6, <1>19, <2>2 DEF Survey
<1>20. CASE BuildEnds \/ BuildThrows \/ OpenThrows
  <2>1. AfterARebuild /\ stage # "idle" /\ UNCHANGED timer
    BY <1>20 DEF BuildEnds, BuildThrows, OpenThrows
  <2>2. UNCHANGED <<events, start, toWatch, closed>>
    BY <1>20 DEF BuildEnds, BuildThrows, OpenThrows
  <2> QED
    BY <2>1, <2>2, WhatIsOwedIsPaid
<1> QED
  BY <1>10, <1>11, <1>12, <1>13, <1>14, <1>15, <1>16, <1>17, <1>18, <1>19, <1>20 DEF RebuildStep

\* A timer that fires leaves less than it was counted for.
LEMMA TimerLowers ==
    ASSUME IsFiniteSet(Services), TypeOK, TypeOK', TimerFires
    PROVE  ToRebuild' < ToRebuild /\ UNCHANGED <<events, start, toWatch, closed>>
<1> DEFINE n == Cardinality(todo)
           m == Cardinality(todo')
<1>1. n \in 0 .. Repos /\ m \in 0 .. Repos /\ Repos \in Nat
  BY RepositoriesAreCounted DEF TypeOK
<1>2. /\ RebuildLeft(stage, n) \in Nat
      /\ RebuildLeft(stage', m) \in Nat /\ RebuildLeft(stage', m) < Round
  BY <1>1, ARoundIsEnough
<1>3. Round \in Nat
  BY <1>1 DEF Round
<1>4. ToRebuild = Owed + RebuildLeft(stage, n) /\ ToRebuild' = Owed' + RebuildLeft(stage', m)
  BY DEF ToRebuild
<1>5. UNCHANGED <<stage, todo>> => RebuildLeft(stage', m) = RebuildLeft(stage, n)
  OBVIOUS
<1> HIDE DEF n, m
<1>6. timer /\ timer' = FALSE
  BY DEF TimerFires, TimerDone
<1>7. UNCHANGED <<events, start, toWatch, closed>>
  BY DEF TimerFires, ears
<1>8. CASE closed
  <2>1. UNCHANGED <<queued, stage, todo>>
    BY <1>8 DEF TimerFires, Trigger
  <2> QED
    BY <1>2, <1>3, <1>4, <1>5, <1>6, <1>7, <2>1 DEF Owed
<1>9. CASE ~closed /\ stage # "idle"
  <2>1. queued' = TRUE /\ UNCHANGED <<stage, todo>>
    BY <1>9 DEF TimerFires, Trigger
  <2> QED
    BY <1>2, <1>3, <1>4, <1>5, <1>6, <1>7, <2>1 DEF Owed
<1>10. CASE ~closed /\ stage = "idle"
  <2>1. queued' = queued
    BY <1>10 DEF TimerFires, Trigger
  <2> QED
    BY <1>2, <1>3, <1>4, <1>6, <1>7, <2>1 DEF Owed
<1> QED
  BY <1>8, <1>9, <1>10

\* The steps of starting and closing lead to its end.
LEMMA StartStepLowers ==
    ASSUME IsFiniteSet(Services), TypeOK, TypeOK', StartStep \/ CloseWatchers
    PROVE  /\ StartLeft(start', Cardinality(toWatch')) < StartLeft(start, Cardinality(toWatch))
           /\ UNCHANGED <<events, timer, queued, stage, todo, closed>>
<1> DEFINE n == Cardinality(toWatch)
           m == Cardinality(toWatch')
<1>1. n \in 0 .. Repos /\ m \in 0 .. Repos /\ Repos \in Nat
  BY RepositoriesAreCounted DEF TypeOK
<1>2. \A s \in toWatch : Cardinality(toWatch \ {s}) = n - 1
  BY RepositoriesAreCounted DEF TypeOK
<1>3. ASSUME NEW s \in toWatch, toWatch' = toWatch \ {s} PROVE m = n - 1
  BY <1>2, <1>3
<1>4. StartLeft(start', m) < StartLeft(start, n)
  <2> HIDE DEF n, m
  <2>1. CASE Scan
    BY <1>1, <2>1 DEF Scan, StartLeft
  <2>2. CASE \E s \in Services : Watched(s)
    <3>1. start = "scanning" /\ start' = "scanning" /\ m = n - 1
      BY <1>3, <2>2 DEF Watched
    <3> QED
      BY <1>1, <3>1 DEF StartLeft
  <2>3. CASE LookAside
    BY <1>1, <2>3 DEF LookAside, StartLeft
  <2>4. CASE ComesUp
    BY <2>4 DEF ComesUp, StartLeft
  <2>5. CASE CloseWatchers
    BY <2>5 DEF CloseWatchers, Up, StartLeft
  <2> QED
    BY <2>1, <2>2, <2>3, <2>4, <2>5 DEF StartStep
<1>5. UNCHANGED <<events, timer, queued, stage, todo, closed>>
  BY DEF StartStep, Scan, Watched, LookAside, ComesUp, CloseWatchers, ears, flags, rebuild
<1> QED
  BY <1>4, <1>5

\* What is heard sets the timer, and that is less than it was counted for.
LEMMA HearLowers ==
    ASSUME IsFiniteSet(Services), TypeOK, TypeOK', Hear
    PROVE  /\ Cardinality(events) > 0 /\ Cardinality(events') = Cardinality(events) - 1
           /\ ToRebuild' < ToRebuild + Round + 2
           /\ UNCHANGED <<start, toWatch, closed>>
<1>1. \E e \in events : events' = events \ {e}
  BY DEF Hear, HearSaved, HearConfiguration, HearMoved
<1>2. Cardinality(events) > 0 /\ Cardinality(events') = Cardinality(events) - 1
  BY <1>1, EventsAreCounted DEF TypeOK
<1>3. UNCHANGED <<start, toWatch, closed, queued, stage, todo>>
  BY DEF Hear, HearSaved, HearConfiguration, HearMoved, watch, rebuild
<1>4. RebuildLeft(stage, Cardinality(todo)) \in Nat /\ Round \in Nat
  <2>1. Cardinality(todo) \in 0 .. Repos /\ Repos \in Nat
    BY RepositoriesAreCounted DEF TypeOK
  <2> QED
    BY <2>1, ARoundIsEnough DEF Round
<1>5. RebuildLeft(stage', Cardinality(todo')) = RebuildLeft(stage, Cardinality(todo))
  BY <1>3
<1>6. ToRebuild = Owed + RebuildLeft(stage, Cardinality(todo))
      /\ ToRebuild' = Owed' + RebuildLeft(stage', Cardinality(todo'))
  BY DEF ToRebuild
<1>7. Owed \in Nat /\ Owed' \in Nat /\ Owed' <= Owed + Round + 1
  BY <1>3, <1>4 DEF Owed
<1> QED
  BY <1>2, <1>3, <1>4, <1>5, <1>6, <1>7

\* What is left is a number, before a step and after it.
LEMMA LeftIsANumber ==
    ASSUME IsFiniteSet(Services), TypeOK, TypeOK'
    PROVE  /\ Round \in Nat
           /\ ToRebuild \in Nat /\ ToRebuild' \in Nat
           /\ Cardinality(events) \in Nat /\ Cardinality(events') \in Nat
           /\ StartLeft(start, Cardinality(toWatch)) \in Nat
           /\ StartLeft(start', Cardinality(toWatch')) \in Nat
<1>1. Repos \in Nat /\ Round \in Nat
  BY RepositoriesAreCounted DEF Round
<1>2. \A S \in SUBSET Services : Cardinality(S) \in 0 .. Repos
  BY RepositoriesAreCounted
<1>3. Cardinality(events) \in Nat /\ Cardinality(events') \in Nat
  BY EventsAreCounted DEF TypeOK
<1>4. /\ RebuildLeft(stage, Cardinality(todo)) \in Nat
      /\ RebuildLeft(stage', Cardinality(todo')) \in Nat
  BY <1>2, ARoundIsEnough DEF TypeOK
<1>5. Owed \in Nat /\ Owed' \in Nat
  BY <1>1 DEF Owed
<1>6. ToRebuild \in Nat /\ ToRebuild' \in Nat
  BY <1>4, <1>5 DEF ToRebuild
<1>7. \A where : \A n \in 0 .. Repos : StartLeft(where, n) \in Nat
  BY <1>1 DEF StartLeft
<1>8. /\ StartLeft(start, Cardinality(toWatch)) \in Nat
      /\ StartLeft(start', Cardinality(toWatch')) \in Nat
  BY <1>2, <1>7 DEF TypeOK
<1> QED
  BY <1>1, <1>3, <1>6, <1>8

\* Every step of the watch leaves fewer.
LEMMA OwnStepLowers ==
    ASSUME IsFiniteSet(Services), TypeOK, TypeOK', OwnStep
    PROVE  StepsLeft' \in Nat /\ StepsLeft' < StepsLeft
<1> DEFINE e == Cardinality(events)
           f == Cardinality(events')
           r == Round + 2
           p == e * r
           q == f * r
           a == StartLeft(start, Cardinality(toWatch))
           b == StartLeft(start', Cardinality(toWatch'))
           c == IF closed THEN 0 ELSE 1
           d == IF closed' THEN 0 ELSE 1
           t == ToRebuild
           u == ToRebuild'
<1>1. e \in Nat /\ f \in Nat /\ r \in Nat /\ a \in Nat /\ b \in Nat
  BY LeftIsANumber
<1>2. t \in Nat /\ u \in Nat
  BY LeftIsANumber
<1>3. StepsLeft = p + t + a + c /\ StepsLeft' = q + u + b + d
  BY DEF StepsLeft
<1>4. p \in Nat /\ q \in Nat
  BY <1>1
<1>5. events' = events => q = p
  OBVIOUS
<1>6. UNCHANGED <<start, toWatch>> => a = b
  OBVIOUS
<1>7. UNCHANGED closed => c = d
  OBVIOUS
<1>8. c \in Nat /\ d \in Nat
  OBVIOUS
<1>9. CASE RebuildStep \/ TimerFires
  <2>1. u < t /\ UNCHANGED <<events, start, toWatch, closed>>
    BY <1>9, RebuildStepLowers, TimerLowers
  <2>2. q = p /\ a = b /\ c = d
    BY <1>5, <1>6, <1>7, <2>1
  <2> HIDE DEF a, b, c, d, e, f, p, q, r, t, u
  <2>9. q + u + b + d \in Nat /\ q + u + b + d < p + t + a + c
    BY <1>1, <1>2, <1>4, <1>8, <2>1, <2>2
  <2> QED
    BY <1>3, <2>9
<1>10. CASE Hear
  <2>1. /\ e > 0 /\ f = e - 1 /\ u < t + Round + 2
        /\ UNCHANGED <<start, toWatch, closed>>
    BY <1>10, HearLowers
  <2>2. a = b /\ c = d /\ Round \in Nat
    BY <1>6, <1>7, <2>1, LeftIsANumber
  <2>3. u < t + r
    BY <1>2, <2>1, <2>2
  <2>4. q = p - r
    <3> HIDE DEF e, f, r
    <3> QED
      BY <1>1, <2>1
  <2> HIDE DEF a, b, c, d, e, f, p, q, r, t, u
  <2>9. q + u + b + d \in Nat /\ q + u + b + d < p + t + a + c
    BY <1>1, <1>2, <1>4, <1>8, <2>2, <2>3, <2>4
  <2> QED
    BY <1>3, <2>9
<1>11. CASE StartStep \/ CloseWatchers
  <2>1. b < a /\ UNCHANGED <<events, timer, queued, stage, todo, closed>>
    BY <1>11, StartStepLowers
  <2>2. u = t
    BY <2>1 DEF ToRebuild, Owed
  <2>3. q = p /\ c = d
    BY <1>5, <1>7, <2>1
  <2> HIDE DEF a, b, c, d, e, f, p, q, r, t, u
  <2> QED
    BY <1>1, <1>2, <1>3, <1>4, <1>8, <2>1, <2>2, <2>3
<1>12. CASE Close
  <2>1. /\ ~closed /\ closed' /\ timer' = FALSE
        /\ UNCHANGED <<events, queued, stage, todo, start, toWatch>>
    BY <1>12 DEF Close, ears, watch, rebuild
  <2>2. c = 1 /\ d = 0 /\ q = p /\ a = b
    BY <1>5, <1>6, <2>1
  <2>3. u <= t
    <3>1. RebuildLeft(stage', Cardinality(todo')) = RebuildLeft(stage, Cardinality(todo))
      BY <2>1
    <3>2. RebuildLeft(stage, Cardinality(todo)) \in Nat /\ Round \in Nat
      <4>1. Cardinality(todo) \in 0 .. Repos
        BY RepositoriesAreCounted DEF TypeOK
      <4> QED
        BY <4>1, ARoundIsEnough, LeftIsANumber
    <3>3. Owed' <= Owed /\ Owed \in Nat /\ Owed' \in Nat
      BY <2>1, <3>2 DEF Owed
    <3> QED
      BY <3>1, <3>2, <3>3 DEF ToRebuild
  <2> HIDE DEF a, b, c, d, e, f, p, q, r, t, u
  <2>9. q + u + b + d \in Nat /\ q + u + b + d < p + t + a + c
    BY <1>1, <1>2, <1>4, <1>8, <2>2, <2>3
  <2> QED
    BY <1>3, <2>9
<1> QED
  BY <1>9, <1>10, <1>11, <1>12 DEF OwnStep

\* A rebuild that is owed is begun, unless the watch is closed.
OwedIsBegun == queued => stage # "idle" \/ closed

\* Rebuilds are begun and owed so, whatever the step.
LEMMA OwedIsBegunKept ==
    ASSUME TypeOK, OwedIsBegun, [Next]_vars PROVE OwedIsBegun'
<1> USE DEF OwedIsBegun, world, ears, watch, flags, rebuild
<1>1. BeginRebuild => stage' # "idle"
  BY BeginRebuildDoes
<1>2. CASE World
  BY <1>2 DEF World, Save, Leave, Return, EditConfiguration
<1>3. CASE BuildEnds \/ BuildThrows \/ OpenThrows
  <2>1. AfterARebuild /\ closed' = closed
    BY <1>3 DEF BuildEnds, BuildThrows, OpenThrows
  <2> QED
    BY <1>1, <2>1 DEF AfterARebuild
<1>4. CASE (\E s \in Services : LetGo(s) \/ OpenOne(s) \/ ReopenMoved(s)) \/ OpenAll \/ Opened
           \/ Reopen \/ LoadConfig \/ Survey
           \/ WatcherReady("openingWatcher", "opening") \/ WatcherReady("reopeningWatcher", "moving")
  <2>1. stage' # "idle"
    BY <1>4 DEF LetGo, OpenOne, Open, ReopenMoved, OpenAll, Opened, Reopen, LoadConfig, Survey,
         WatcherReady
  <2> QED
    BY <2>1
<1>5. CASE Hear
  BY <1>5 DEF Hear, HearSaved, HearConfiguration, HearMoved
<1>6. CASE TimerFires
  <2>1. CASE closed
    BY <1>6, <2>1 DEF TimerFires
  <2>2. CASE ~closed /\ stage # "idle"
    BY <1>6, <2>2 DEF TimerFires, Trigger
  <2>3. CASE ~closed /\ stage = "idle"
    <3>1. BeginRebuild
      BY <1>6, <2>3 DEF TimerFires, Trigger
    <3> QED
      BY <1>1, <3>1
  <2> QED
    BY <2>1, <2>2, <2>3
<1>7. CASE StartStep \/ Close \/ CloseWatchers \/ UNCHANGED vars
  BY <1>7 DEF StartStep, Scan, Watched, LookAside, ComesUp, Close, CloseWatchers, vars
<1> QED
  BY <1>2, <1>3, <1>4, <1>5, <1>6, <1>7 DEF Next, RebuildStep

\* A watch nobody touches comes to rest (build/watch.ts), as far as it is for the watch
\* to say: until it is at rest or closed there is something for it to do, and each thing
\* it does leaves fewer, so that neither its own rebuilds, nor the one that is owed, nor
\* a configuration that does not load keep it rebuilding; only the world gives it more.
\* That it does what there is to do is the fairness ComesToRest is checked under.
THEOREM NothingOfItsOwnKeepsItRebuilding ==
    ASSUME IsFiniteSet(Services)
    PROVE  Spec => /\ [](Settled \/ start = "closed" \/ SomethingGoesOn)
                   /\ [][World \/ (StepsLeft' \in Nat /\ StepsLeft' < StepsLeft)]_vars
<1>1. Init => OwedIsBegun
  BY DEF Init, OwedIsBegun
<1>2. TypeOK /\ OwedIsBegun /\ [Next]_vars => OwedIsBegun'
  BY OwedIsBegunKept
<1>3. TypeOK /\ OwedIsBegun => Settled \/ start = "closed" \/ SomethingGoesOn
  BY DEF TypeOK, OwedIsBegun, Settled, Starts, SomethingGoesOn, Up
<1>4. TypeOK /\ [Next]_vars => [World \/ (StepsLeft' \in Nat /\ StepsLeft' < StepsLeft)]_vars
  <2> SUFFICES ASSUME TypeOK, Next, ~World PROVE StepsLeft' \in Nat /\ StepsLeft' < StepsLeft
    OBVIOUS
  <2>1. OwnStep
    BY DEF Next, OwnStep
  <2>2. TypeOK'
    BY TypeOKKept
  <2> QED
    BY <2>1, <2>2, OwnStepLowers
<1> QED
  BY <1>1, <1>2, <1>3, <1>4, TypeCorrect, PTL DEF Spec
=============================================================================
