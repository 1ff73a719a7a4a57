---------------------- MODULE IncrementalBuild_proofs ----------------------
(***************************************************************************)
(* Proofs about IncrementalBuild.                                          *)
(***************************************************************************)
EXTENDS IncrementalBuild, TLAPS

\* What a watch can hold open is open from its start to its death.
SessionsAreOpen ==
    \A b \in Builders, s \in Services :
        Held(b, s) /\ phase[b] # "off" => sessions[b][s] \in Readings

\* A repository that was parsed has a reading.
ParsedHasAReading ==
    \A b \in Builders, s \in Services :
        task[b][s] \in {"parsed", "written", "stamped", "read"} => reading[b][s] \in Readings

\* From its plan on, a build has a survey of everything.
PlannedHasASurvey ==
    \A b \in Builders :
        phase[b] \in {"reading", "linked", "graph written", "report written", "db removed",
                      "outputs written"} =>
            survey[b] \in [Services -> Surveys]

Typed == TypeOK /\ SessionsAreOpen /\ ParsedHasAReading /\ PlannedHasASurvey

-----------------------------------------------------------------------------
LEMMA NowIsAReading ==
    ASSUME disk \in [Services -> [Inputs -> Nat]], NEW s \in Services, NEW c \in Nat
    PROVE  Now(s, c) \in Readings
BY DEF Now, Readings, Versioned

LEMMA SourcesAreReadings ==
    ASSUME TypeOK PROVE Sources \in [Services -> Readings]
BY NowIsAReading DEF Sources, TypeOK

LEMMA OpenedTyped ==
    ASSUME TypeOK, NEW b \in Builders
    PROVE  /\ Opened(b) \in [Services -> MaybeReading]
           /\ \A s \in Services : Held(b, s) => Opened(b)[s] \in Readings
BY NowIsAReading DEF Opened, TypeOK, MaybeReading, NoSession, NoGraph

LEMMA EntryTyped ==
    ASSUME NEW c \in Caches \union {NoCache}, NEW s \in Services
    PROVE  EntryIn(c, s) \in Entries \union {NoEntry}
BY DEF EntryIn, Caches

LEMMA SurveyedTyped ==
    ASSUME TypeOK, NEW s \in Services, NEW e \in Entries \union {NoEntry}
    PROVE  Surveyed(s, e) \in Surveys
<1>1. Stamped(e, disk[s][Installed]) \in Packages
  BY DEF TypeOK, Inputs, Stamped, Packages
<1>2. [f \in Files |-> disk[s][f]] \in Stamps
  BY DEF TypeOK, Inputs, Stamps
<1> QED
  BY <1>1, <1>2 DEF Surveyed, Surveys, TypeOK, Inputs

LEMMA LoadedCacheTyped ==
    ASSUME TypeOK, NEW b \in Builders PROVE LoadedCache(b) \in Caches \union {NoCache}
BY DEF TypeOK, LoadedCache

LEMMA InitTyped == Init => Typed
<1> SUFFICES ASSUME Init PROVE Typed
  OBVIOUS
<1>1. TypeOK
  BY DEF Init, TypeOK, NoReadings, NoStamps, NewTasks, AllOf, MaybeReading, NoGraph, NoFacts,
         NoCache, NoOutput, NoSession, NoBuild, Phases, Tasks
<1>2. SessionsAreOpen
  BY DEF Init, SessionsAreOpen, Held
<1>3. ParsedHasAReading
  BY DEF Init, ParsedHasAReading, NewTasks
<1>4. PlannedHasASurvey
  BY DEF Init, PlannedHasASurvey
<1> QED
  BY <1>1, <1>2, <1>3, <1>4 DEF Typed

LEMMA SaveTyped ==
    ASSUME Typed, NEW s \in Services, NEW i \in Inputs, Save(s, i) PROVE Typed'
<1> USE DEF disks, run, readers, watch, history, Save
<1>1. TypeOK'
  BY DEF Typed, TypeOK
<1>2. SessionsAreOpen'
  BY DEF Typed, SessionsAreOpen, Held, TypeOK
<1>3. ParsedHasAReading'
  BY DEF Typed, ParsedHasAReading, TypeOK
<1>4. PlannedHasASurvey'
  BY DEF Typed, PlannedHasASurvey, TypeOK
<1> QED
  BY <1>1, <1>2, <1>3, <1>4 DEF Typed

LEMMA SaveConfigTyped ==
    ASSUME Typed, SaveConfig PROVE Typed'
<1> USE DEF disks, run, readers, watch, history, SaveConfig
<1>1. TypeOK'
  BY DEF Typed, TypeOK
<1>2. SessionsAreOpen'
  BY DEF Typed, SessionsAreOpen, Held, TypeOK
<1>3. ParsedHasAReading'
  BY DEF Typed, ParsedHasAReading, TypeOK
<1>4. PlannedHasASurvey'
  BY DEF Typed, PlannedHasASurvey, TypeOK
<1> QED
  BY <1>1, <1>2, <1>3, <1>4 DEF Typed

LEMMA DropGraphTyped ==
    ASSUME Typed, NEW s \in Services, DropGraph(s) PROVE Typed'
<1> USE DEF disks, run, readers, watch, history, DropGraph, MaybeReading
<1>1. TypeOK'
  BY DEF Typed, TypeOK
<1>2. SessionsAreOpen'
  BY DEF Typed, SessionsAreOpen, Held, TypeOK
<1>3. ParsedHasAReading'
  BY DEF Typed, ParsedHasAReading, TypeOK
<1>4. PlannedHasASurvey'
  BY DEF Typed, PlannedHasASurvey, TypeOK
<1> QED
  BY <1>1, <1>2, <1>3, <1>4 DEF Typed

LEMMA OpenWatchTyped ==
    ASSUME Typed, NEW b \in Builders, OpenWatch(b) PROVE Typed'
<1> USE DEF disks, run, readers, watch, history, OpenWatch
<1>0. /\ Opened(b) \in [Services -> MaybeReading]
      /\ \A s \in Services : Held(b, s) => Opened(b)[s] \in Readings
  BY OpenedTyped DEF Typed
<1>1. TypeOK'
  BY <1>0 DEF Typed, TypeOK, Phases
<1>2. SessionsAreOpen'
  BY <1>0 DEF Typed, SessionsAreOpen, Held, TypeOK
<1>3. ParsedHasAReading'
  BY DEF Typed, ParsedHasAReading, TypeOK
<1>4. PlannedHasASurvey'
  BY DEF Typed, PlannedHasASurvey, TypeOK
<1> QED
  BY <1>1, <1>2, <1>3, <1>4 DEF Typed

LEMMA ListenTyped ==
    ASSUME Typed, NEW b \in Builders, Listen(b) PROVE Typed'
<1> USE DEF disks, run, readers, watch, history, Listen
<1>1. TypeOK'
  BY DEF Typed, TypeOK
<1>2. SessionsAreOpen'
  BY DEF Typed, SessionsAreOpen, Held, TypeOK
<1>3. ParsedHasAReading'
  BY DEF Typed, ParsedHasAReading, TypeOK
<1>4. PlannedHasASurvey'
  BY DEF Typed, PlannedHasASurvey, TypeOK
<1> QED
  BY <1>1, <1>2, <1>3, <1>4 DEF Typed

LEMMA ToldTyped ==
    ASSUME Typed, NEW b \in Builders, Told(b) PROVE Typed'
<1> USE DEF disks, run, readers, watch, history, Told
<1>1. TypeOK'
  BY DEF Typed, TypeOK
<1>2. SessionsAreOpen'
  BY DEF Typed, SessionsAreOpen, Held, TypeOK
<1>3. ParsedHasAReading'
  BY DEF Typed, ParsedHasAReading, TypeOK
<1>4. PlannedHasASurvey'
  BY DEF Typed, PlannedHasASurvey, TypeOK
<1> QED
  BY <1>1, <1>2, <1>3, <1>4 DEF Typed

LEMMA ReloadTyped ==
    ASSUME Typed, NEW b \in Builders, Reload(b) PROVE Typed'
<1> USE DEF disks, run, readers, watch, history, Reload
<1>0. /\ Opened(b) \in [Services -> MaybeReading]
      /\ \A s \in Services : Held(b, s) => Opened(b)[s] \in Readings
  BY OpenedTyped DEF Typed
<1>1. TypeOK'
  BY <1>0 DEF Typed, TypeOK, Phases
<1>2. SessionsAreOpen'
  BY <1>0 DEF Typed, SessionsAreOpen, Held, TypeOK
<1>3. ParsedHasAReading'
  BY DEF Typed, ParsedHasAReading, TypeOK
<1>4. PlannedHasASurvey'
  BY DEF Typed, PlannedHasASurvey, TypeOK
<1> QED
  BY <1>1, <1>2, <1>3, <1>4 DEF Typed

LEMMA BeginTyped ==
    ASSUME Typed, NEW b \in Builders, NEW selected \in Selections,
           NEW noCache \in BOOLEAN, Begin(b, selected, noCache) PROVE Typed'
<1> USE DEF disks, run, readers, watch, history, Begin
<1>1. TypeOK'
  BY SourcesAreReadings, BuildAssumption DEF Typed, TypeOK, Phases
<1>2. SessionsAreOpen'
  BY DEF Typed, SessionsAreOpen, Held, TypeOK
<1>3. ParsedHasAReading'
  BY DEF Typed, ParsedHasAReading, TypeOK
<1>4. PlannedHasASurvey'
  BY DEF Typed, PlannedHasASurvey, TypeOK
<1> QED
  BY <1>1, <1>2, <1>3, <1>4 DEF Typed

LEMMA SurveyTyped ==
    ASSUME Typed, NEW b \in Builders, Survey(b) PROVE Typed'
<1> USE DEF disks, run, readers, watch, history, Survey
<1>0. LoadedCache(b) \in Caches \union {NoCache}
  BY LoadedCacheTyped DEF Typed
<1>5. [s \in Services |-> Surveyed(s, EntryIn(LoadedCache(b), s))] \in [Services -> Surveys]
  BY <1>0, EntryTyped, SurveyedTyped DEF Typed
<1>1. TypeOK'
  BY <1>0, <1>5 DEF Typed, TypeOK, Phases
<1>2. SessionsAreOpen'
  BY DEF Typed, SessionsAreOpen, Held, TypeOK
<1>3. ParsedHasAReading'
  BY DEF Typed, ParsedHasAReading, TypeOK
<1>4. PlannedHasASurvey'
  BY <1>5 DEF Typed, PlannedHasASurvey, TypeOK
<1> QED
  BY <1>1, <1>2, <1>3, <1>4 DEF Typed

LEMMA FactsTyped ==
    ASSUME TypeOK, NEW b \in Builders, NEW s \in Services, Entry(b, s) # NoEntry
    PROVE  FactsOf(Entry(b, s)) \in Facts
<1>1. Entry(b, s) \in Entries \union {NoEntry}
  BY EntryTyped DEF TypeOK, Entry
<1> QED
  BY <1>1 DEF FactsOf, Facts, Entries

LEMMA ReuseTyped ==
    ASSUME Typed, NEW b \in Builders, NEW s \in Services, Reuse(b, s) PROVE Typed'
<1> USE DEF disks, run, readers, watch, history, Reuse, Moves, Reads
<1>1. TypeOK'
  BY FactsTyped DEF Typed, TypeOK, Tasks
<1>2. SessionsAreOpen'
  BY DEF Typed, SessionsAreOpen, Held, TypeOK
<1>3. ParsedHasAReading'
  BY DEF Typed, ParsedHasAReading, TypeOK
<1>4. PlannedHasASurvey'
  BY DEF Typed, PlannedHasASurvey, TypeOK
<1> QED
  BY <1>1, <1>2, <1>3, <1>4 DEF Typed

LEMMA MissingGraphTyped ==
    ASSUME Typed, NEW b \in Builders, NEW s \in Services, MissingGraph(b, s) PROVE Typed'
<1> USE DEF disks, run, readers, watch, history, MissingGraph, Reads
<1>1. TypeOK'
  BY DEF Typed, TypeOK, Tasks
<1>2. SessionsAreOpen'
  BY DEF Typed, SessionsAreOpen, Held, TypeOK
<1>3. ParsedHasAReading'
  BY DEF Typed, ParsedHasAReading, TypeOK
<1>4. PlannedHasASurvey'
  BY DEF Typed, PlannedHasASurvey, TypeOK
<1> QED
  BY <1>1, <1>2, <1>3, <1>4 DEF Typed

LEMMA ChildParsesTyped ==
    ASSUME Typed, NEW b \in Builders, NEW s \in Services, ChildParses(b, s) PROVE Typed'
<1> USE DEF disks, run, readers, watch, history, ChildParses, Moves, Reads
<1>0. Now(s, config) \in Readings
  BY NowIsAReading DEF Typed, TypeOK
<1>1. TypeOK'
  BY <1>0 DEF Typed, TypeOK, Tasks, MaybeReading
<1>2. SessionsAreOpen'
  BY DEF Typed, SessionsAreOpen, Held, TypeOK
<1>3. ParsedHasAReading'
  BY <1>0 DEF Typed, ParsedHasAReading, TypeOK
<1>4. PlannedHasASurvey'
  BY DEF Typed, PlannedHasASurvey, TypeOK
<1> QED
  BY <1>1, <1>2, <1>3, <1>4 DEF Typed

LEMMA ChildWritesTyped ==
    ASSUME Typed, NEW b \in Builders, NEW s \in Services, ChildWrites(b, s) PROVE Typed'
<1> USE DEF disks, run, readers, watch, history, ChildWrites, Moves, Reads
<1>1. TypeOK'
  BY DEF Typed, TypeOK, Tasks
<1>2. SessionsAreOpen'
  BY DEF Typed, SessionsAreOpen, Held, TypeOK
<1>3. ParsedHasAReading'
  BY DEF Typed, ParsedHasAReading, TypeOK
<1>4. PlannedHasASurvey'
  BY DEF Typed, PlannedHasASurvey, TypeOK
<1> QED
  BY <1>1, <1>2, <1>3, <1>4 DEF Typed

LEMMA ChildStampsTyped ==
    ASSUME Typed, NEW b \in Builders, NEW s \in Services, ChildStamps(b, s) PROVE Typed'
<1> USE DEF disks, run, readers, watch, history, ChildStamps, Moves, Reads
<1>0. [files |-> [f \in Files |-> ChildStamp(b, s, f)], packages |-> disk[s][Installed],
       wants |-> TRUE] \in Facts
  <2>1. ASSUME NEW f \in Files PROVE ChildStamp(b, s, f) \in Nat \union {Vanished}
    BY DEF ChildStamp, StampNow, Typed, TypeOK, ParsedHasAReading, Readings, Inputs, Versioned
  <2>2. disk[s][Installed] \in Packages
    BY DEF Typed, TypeOK, Inputs, Packages
  <2> QED
    BY <2>1, <2>2 DEF Facts, Stamps
<1>1. TypeOK'
  BY <1>0 DEF Typed, TypeOK, Tasks
<1>2. SessionsAreOpen'
  BY DEF Typed, SessionsAreOpen, Held, TypeOK
<1>3. ParsedHasAReading'
  BY DEF Typed, ParsedHasAReading, TypeOK
<1>4. PlannedHasASurvey'
  BY DEF Typed, PlannedHasASurvey, TypeOK
<1> QED
  BY <1>1, <1>2, <1>3, <1>4 DEF Typed

LEMMA CollectTyped ==
    ASSUME Typed, NEW b \in Builders, NEW s \in Services, Collect(b, s) PROVE Typed'
<1> USE DEF disks, run, readers, watch, history, Collect, Moves, Reads
<1>1. TypeOK'
  BY DEF Typed, TypeOK, Tasks
<1>2. SessionsAreOpen'
  BY DEF Typed, SessionsAreOpen, Held, TypeOK
<1>3. ParsedHasAReading'
  BY DEF Typed, ParsedHasAReading, TypeOK
<1>4. PlannedHasASurvey'
  BY DEF Typed, PlannedHasASurvey, TypeOK
<1> QED
  BY <1>1, <1>2, <1>3, <1>4 DEF Typed

LEMMA WarmReadsTyped ==
    ASSUME Typed, NEW b \in Builders, NEW s \in Services, WarmReads(b, s) PROVE Typed'
<1> USE DEF disks, run, readers, watch, history, Moves, Reads
<1>0. PICK r \in WarmReadings(b, s) :
          /\ sessions' = [sessions EXCEPT ![b][s] = r]
          /\ reading' = [reading EXCEPT ![b][s] = r]
  BY DEF WarmReads
<1>5. r \in Readings
  <2>1. sessions[b][s] \in Readings
    BY DEF WarmReads, Typed, SessionsAreOpen
  <2>2. Whole(b, s) \in Readings
    BY <2>1, NowIsAReading DEF Whole, Readings, Versioned, Typed, TypeOK
  <2>3. Part(b, s) \in Readings
    BY <2>1 DEF Part, Refreshed, Touched, Readings, Versioned, Inputs, Typed, TypeOK
  <2> QED
    BY <2>2, <2>3 DEF WarmReadings
<1>1. TypeOK'
  BY <1>0, <1>5 DEF Typed, TypeOK, Tasks, MaybeReading, WarmReads
<1>2. SessionsAreOpen'
  BY <1>0, <1>5 DEF Typed, SessionsAreOpen, Held, TypeOK, WarmReads
<1>3. ParsedHasAReading'
  BY <1>0, <1>5 DEF Typed, ParsedHasAReading, TypeOK, WarmReads
<1>4. PlannedHasASurvey'
  BY DEF Typed, PlannedHasASurvey, TypeOK, WarmReads
<1> QED
  BY <1>1, <1>2, <1>3, <1>4 DEF Typed

LEMMA WarmWritesTyped ==
    ASSUME Typed, NEW b \in Builders, NEW s \in Services, WarmWrites(b, s) PROVE Typed'
<1> USE DEF disks, run, readers, watch, history, WarmWrites, Moves, Reads
<1>0. [files |-> [f \in Files |-> WarmStamp(b, s, f)], packages |-> disk[s][Installed],
       wants |-> TRUE] \in Facts
  <2>1. ASSUME NEW f \in Files PROVE WarmStamp(b, s, f) \in Nat \union {Vanished}
    <3>1. survey[b][s].files \in Stamps
      BY DEF Typed, PlannedHasASurvey, Surveys
    <3>2. reading[b][s] \in Readings
      BY DEF Typed, ParsedHasAReading
    <3> QED
      BY <3>1, <3>2 DEF WarmStamp, StampNow, Typed, TypeOK, Readings, Stamps, Inputs, Versioned
  <2>2. disk[s][Installed] \in Packages
    BY DEF Typed, TypeOK, Inputs, Packages
  <2> QED
    BY <2>1, <2>2 DEF Facts, Stamps
<1>1. TypeOK'
  BY <1>0 DEF Typed, TypeOK, Tasks
<1>2. SessionsAreOpen'
  BY DEF Typed, SessionsAreOpen, Held, TypeOK
<1>3. ParsedHasAReading'
  BY DEF Typed, ParsedHasAReading, TypeOK
<1>4. PlannedHasASurvey'
  BY DEF Typed, PlannedHasASurvey, TypeOK
<1> QED
  BY <1>1, <1>2, <1>3, <1>4 DEF Typed

LEMMA WarmDropsTyped ==
    ASSUME Typed, NEW b \in Builders, NEW s \in Services, WarmDrops(b, s) PROVE Typed'
<1> USE DEF disks, run, readers, watch, history, WarmDrops, Moves, Reads
<1>1. TypeOK'
  BY DEF Typed, TypeOK, Tasks
<1>2. SessionsAreOpen'
  BY DEF Typed, SessionsAreOpen, Held, TypeOK
<1>3. ParsedHasAReading'
  BY DEF Typed, ParsedHasAReading, TypeOK
<1>4. PlannedHasASurvey'
  BY DEF Typed, PlannedHasASurvey, TypeOK
<1> QED
  BY <1>1, <1>2, <1>3, <1>4 DEF Typed

LEMMA ReadFailsTyped ==
    ASSUME Typed, NEW b \in Builders, NEW s \in Services, ReadFails(b, s) PROVE Typed'
<1> USE DEF disks, run, readers, watch, history, ReadFails, Moves
<1>1. TypeOK'
  BY DEF Typed, TypeOK, Tasks
<1>2. SessionsAreOpen'
  BY DEF Typed, SessionsAreOpen, Held, TypeOK
<1>3. ParsedHasAReading'
  BY DEF Typed, ParsedHasAReading, TypeOK
<1>4. PlannedHasASurvey'
  BY DEF Typed, PlannedHasASurvey, TypeOK
<1> QED
  BY <1>1, <1>2, <1>3, <1>4 DEF Typed

LEMMA ReturnsTyped ==
    ASSUME Typed, NEW b \in Builders, NEW to \in Phases, to \in {"idle", "off"}, Returns(b, to)
    PROVE  /\ phase' \in [Builders -> Phases]
           /\ ask' \in [Builders -> [selected : SUBSET Services, noCache : BOOLEAN]]
           /\ conf' \in [Builders -> Nat]
           /\ known' \in [Builders -> Caches \union {NoCache}]
           /\ survey' \in [Builders -> [Services -> Surveys \union {None}]]
           /\ task' \in [Builders -> [Services -> Tasks]]
           /\ reading' \in [Builders -> [Services -> MaybeReading]]
           /\ got' \in [Builders -> [Services -> MaybeReading]]
           /\ seen' \in [Builders -> [Services -> Facts \union {NoFacts}]]
           /\ began' \in [Builders -> [Services -> Readings] \union {NoBuild}]
           /\ said' \in [Services -> MaybeReading] \union {NoOutput}
           /\ ParsedHasAReading'
           /\ PlannedHasASurvey'
<1> USE DEF Returns, Typed, TypeOK
<1>1. ask' \in [Builders -> [selected : SUBSET Services, noCache : BOOLEAN]]
  BY DEF AllOf
<1>2. /\ survey' \in [Builders -> [Services -> Surveys \union {None}]]
      /\ reading' \in [Builders -> [Services -> MaybeReading]]
      /\ got' \in [Builders -> [Services -> MaybeReading]]
  BY DEF NoReadings, NoGraph, MaybeReading
<1>3. seen' \in [Builders -> [Services -> Facts \union {NoFacts}]]
  BY DEF NoStamps
<1>4. task' \in [Builders -> [Services -> Tasks]]
  BY DEF NewTasks, Tasks
<1>5. /\ phase' \in [Builders -> Phases]
      /\ conf' \in [Builders -> Nat]
      /\ known' \in [Builders -> Caches \union {NoCache}]
      /\ began' \in [Builders -> [Services -> Readings] \union {NoBuild}]
      /\ said' \in [Services -> MaybeReading] \union {NoOutput}
  OBVIOUS
<1>6. ParsedHasAReading'
  BY DEF ParsedHasAReading, NewTasks
<1>7. PlannedHasASurvey'
  BY DEF PlannedHasASurvey
<1> QED
  BY <1>1, <1>2, <1>3, <1>4, <1>5, <1>6, <1>7

LEMMA AbandonTyped ==
    ASSUME Typed, NEW b \in Builders, Abandon(b) PROVE Typed'
<1> USE DEF Abandon, disks, watch
<1>1. TypeOK'
  BY ReturnsTyped DEF Typed, TypeOK, Phases
<1>2. SessionsAreOpen'
  BY DEF Typed, SessionsAreOpen, Held, TypeOK, Returns
<1>3. ParsedHasAReading' /\ PlannedHasASurvey'
  BY ReturnsTyped DEF Phases
<1> QED
  BY <1>1, <1>2, <1>3 DEF Typed

LEMMA LinkTyped ==
    ASSUME Typed, NEW b \in Builders, Link(b) PROVE Typed'
<1> USE DEF disks, run, readers, watch, history, Link
<1>1. TypeOK'
  BY DEF Typed, TypeOK, Phases
<1>2. SessionsAreOpen'
  BY DEF Typed, SessionsAreOpen, Held, TypeOK
<1>3. ParsedHasAReading'
  BY DEF Typed, ParsedHasAReading, TypeOK
<1>4. PlannedHasASurvey'
  BY DEF Typed, PlannedHasASurvey, TypeOK
<1> QED
  BY <1>1, <1>2, <1>3, <1>4 DEF Typed

LEMMA WriteTyped ==
    ASSUME Typed, NEW b \in Builders, NEW from \in {"linked", "graph written", "db removed"},
           NEW output \in Output,
           NEW to \in {"graph written", "report written", "outputs written"},
           Write(b, from, output, to) PROVE Typed'
<1> USE DEF disks, run, readers, watch, history, Write
<1>1. TypeOK'
  BY DEF Typed, TypeOK, Phases, Output
<1>2. SessionsAreOpen'
  BY DEF Typed, SessionsAreOpen, Held, TypeOK
<1>3. ParsedHasAReading'
  BY DEF Typed, ParsedHasAReading, TypeOK
<1>4. PlannedHasASurvey'
  BY DEF Typed, PlannedHasASurvey, TypeOK
<1> QED
  BY <1>1, <1>2, <1>3, <1>4 DEF Typed

LEMMA RemoveDbTyped ==
    ASSUME Typed, NEW b \in Builders, RemoveDb(b) PROVE Typed'
<1> USE DEF disks, run, readers, watch, history, RemoveDb
<1>1. TypeOK'
  BY DEF Typed, TypeOK, Phases, Output
<1>2. SessionsAreOpen'
  BY DEF Typed, SessionsAreOpen, Held, TypeOK
<1>3. ParsedHasAReading'
  BY DEF Typed, ParsedHasAReading, TypeOK
<1>4. PlannedHasASurvey'
  BY DEF Typed, PlannedHasASurvey, TypeOK
<1> QED
  BY <1>1, <1>2, <1>3, <1>4 DEF Typed

LEMMA EntryFromTyped ==
    ASSUME Typed, NEW b \in Builders, NEW s \in Services, phase[b] = "outputs written"
    PROVE  EntryFrom(b, s) \in Entries
<1>1. survey[b][s] \in Surveys
  BY DEF Typed, PlannedHasASurvey
<1>2. seen[b] \in [Services -> Facts \union {NoFacts}]
  BY DEF Typed, TypeOK
<1>3. graphs[s] \in MaybeReading
  BY DEF Typed, TypeOK
<1>4. /\ (IF seen[b][s] = NoFacts THEN survey[b][s].files ELSE seen[b][s].files) \in Stamps
      /\ (IF seen[b][s] = NoFacts THEN survey[b][s].packages ELSE seen[b][s].packages)
             \in Packages
      /\ (s \in StandIns /\ seen[b][s] # NoFacts /\ seen[b][s].wants) \in BOOLEAN
      /\ survey[b][s].around \in Nat
  BY <1>1, <1>2 DEF Surveys, Facts
<1> QED
  BY <1>3, <1>4 DEF EntryFrom, Entries

LEMMA SaveCacheTyped ==
    ASSUME Typed, NEW b \in Builders, SaveCache(b) PROVE Typed'
<1> USE DEF SaveCache, disks, watch
<1>0. NextCache(b) \in Caches
  BY EntryFromTyped DEF NextCache, NextEntry, Caches, Typed, TypeOK
<1>1. TypeOK'
  BY ReturnsTyped, <1>0 DEF Typed, TypeOK, Phases
<1>2. SessionsAreOpen'
  BY DEF Typed, SessionsAreOpen, Held, TypeOK, Returns
<1>3. ParsedHasAReading' /\ PlannedHasASurvey'
  BY ReturnsTyped DEF Phases
<1> QED
  BY <1>1, <1>2, <1>3 DEF Typed

LEMMA ThrowTyped ==
    ASSUME Typed, NEW b \in Builders, Throw(b) PROVE Typed'
<1> USE DEF Throw, disks, watch
<1>1. TypeOK'
  BY ReturnsTyped DEF Typed, TypeOK, Phases
<1>2. SessionsAreOpen'
  BY DEF Typed, SessionsAreOpen, Held, TypeOK, Returns
<1>3. ParsedHasAReading' /\ PlannedHasASurvey'
  BY ReturnsTyped DEF Phases
<1> QED
  BY <1>1, <1>2, <1>3 DEF Typed

LEMMA CrashTyped ==
    ASSUME Typed, NEW b \in Builders, Crash(b) PROVE Typed'
<1> USE DEF Crash, disks, watch
<1>1. TypeOK'
  BY ReturnsTyped DEF Typed, TypeOK, Phases, MaybeReading, NoSession, NoGraph
<1>2. SessionsAreOpen'
  BY DEF Typed, SessionsAreOpen, Held, TypeOK, Returns
<1>3. ParsedHasAReading' /\ PlannedHasASurvey'
  BY ReturnsTyped DEF Phases
<1> QED
  BY <1>1, <1>2, <1>3 DEF Typed

-----------------------------------------------------------------------------
LEMMA StepTyped == Typed /\ [Next]_vars => Typed'
<1> SUFFICES ASSUME Typed, [Next]_vars PROVE Typed'
  OBVIOUS
<1>1. CASE World
  BY <1>1, SaveTyped, SaveConfigTyped, DropGraphTyped DEF World
<1>2. ASSUME NEW b \in Builders, BuildStep(b) PROVE Typed'
  <2>1. ASSUME NEW s \in Services, ReadStep(b, s) PROVE Typed'
    BY <2>1, ReuseTyped, MissingGraphTyped, ChildParsesTyped, ChildWritesTyped, ChildStampsTyped,
       CollectTyped, WarmReadsTyped, WarmWritesTyped, WarmDropsTyped, ReadFailsTyped DEF ReadStep
  <2>2. CASE WriteGraph(b) \/ WriteReport(b) \/ WriteDb(b)
    BY <2>2, WriteTyped DEF WriteGraph, WriteReport, WriteDb, Output
  <2>3. CASE \E selected \in Selections, noCache \in BOOLEAN : Begin(b, selected, noCache)
    BY <2>3, BeginTyped
  <2> QED
    BY <1>2, <2>1, <2>2, <2>3, OpenWatchTyped, ListenTyped, ToldTyped, ReloadTyped, SurveyTyped,
       AbandonTyped, LinkTyped, RemoveDbTyped, SaveCacheTyped, ThrowTyped, CrashTyped DEF BuildStep
<1>3. CASE UNCHANGED vars
  BY <1>3 DEF vars, disks, run, readers, watch, history, Typed, TypeOK, SessionsAreOpen,
       ParsedHasAReading, PlannedHasASurvey, Held
<1> QED
  BY <1>1, <1>2, <1>3 DEF Next

\* What every builder holds, and what is on the disk between them, is what
\* the code's types say, whoever builds and whatever is saved: in particular a
\* plan never compares, a stamp never takes and a cache never records what is
\* not there.
THEOREM TypeCorrect == Spec => []TypeOK
<1>1. Typed => TypeOK
  BY DEF Typed
<1> QED
  BY InitTyped, StepTyped, <1>1, PTL DEF Spec

-----------------------------------------------------------------------------
(***************************************************************************)
(* A whole answer stays whole where one process builds: what is written is *)
(* what was read, what was read has a graph, and a build with a failure    *)
(* goes on to write only where something was already missing.              *)
(***************************************************************************)

\* A repository has come to a graph exactly when its reading is done.
DoneMeansGot ==
    \A b \in Builders, s \in Services : task[b][s] = "done" <=> got[b][s] # NoGraph

\* Nothing is linked before every repository was read or has failed.
AnswersAreRead ==
    \A b \in Builders : Answers(b) => \A s \in Services : task[b][s] \in {"done", "failed"}

\* What a failed build may write over is not whole: there was no answer when it
\* linked, and once it has written a graph, that is its own.
FailedWritesOverNothingWhole ==
    \A b \in Builders : Failed(b) =>
        /\ phase[b] = "linked" => outputs["graph"] = NoOutput \/ outputs["db"] = NoOutput
        /\ phase[b] \in {"graph written", "report written", "db removed"} =>
               outputs["graph"] = got[b]

WholeInv == Typed /\ DoneMeansGot /\ AnswersAreRead /\ FailedWritesOverNothingWhole

\* A step of one builder that neither reads nor writes an answer.
QuietStep(b) ==
    /\ UNCHANGED <<task, got, outputs>>
    /\ \E p \in {"off", "idle", "reloaded", "begun", "reading"} :
          phase' = [phase EXCEPT ![b] = p]

LEMMA ShapesOfABuild ==
    ASSUME WholeInv
    PROVE  /\ phase \in [Builders -> Phases]
           /\ task \in [Builders -> [Services -> Tasks]]
           /\ got \in [Builders -> [Services -> MaybeReading]]
           /\ outputs \in [Output -> [Services -> MaybeReading] \union {NoOutput}]
BY DEF WholeInv, Typed, TypeOK

LEMMA QuietStepKeeps ==
    ASSUME WholeInv, Typed', NEW b \in Builders, QuietStep(b)
    PROVE  WholeInv'
<1> USE DEF QuietStep, WholeInv
<1>1. DoneMeansGot'
  BY DEF DoneMeansGot
<1>2. AnswersAreRead'
  BY DEF AnswersAreRead, Answers, Typed, TypeOK
<1>3. FailedWritesOverNothingWhole'
  BY DEF FailedWritesOverNothingWhole, Failed, Typed, TypeOK
<1> QED
  BY <1>1, <1>2, <1>3

LEMMA StillStepKeeps ==
    ASSUME WholeInv, Typed', UNCHANGED <<phase, task, got, outputs>>
    PROVE  WholeInv'
BY DEF WholeInv, DoneMeansGot, AnswersAreRead, Answers, FailedWritesOverNothingWhole, Failed

\* A step of the readings: phases and outputs stay, and a repository is done
\* when it has a graph.
LEMMA ReadStepKeeps ==
    ASSUME WholeInv, Typed', NEW b \in Builders, NEW s \in Services, ReadStep(b, s)
    PROVE  WholeInv'
<1>1. phase[b] = "reading" /\ UNCHANGED <<phase, outputs>>
  BY DEF ReadStep, Reuse, MissingGraph, ChildParses, ChildWrites, ChildStamps, Collect, WarmReads,
         WarmWrites, WarmDrops, ReadFails, Reads, disks
<1>2. \A a \in Builders : a # b => task'[a] = task[a] /\ got'[a] = got[a]
  BY DEF ReadStep, Reuse, MissingGraph, ChildParses, ChildWrites, ChildStamps, Collect, WarmReads,
         WarmWrites, WarmDrops, ReadFails, Moves, WholeInv, Typed, TypeOK
<1>3. DoneMeansGot'
  <2>1. ASSUME NEW q \in Services PROVE task'[b][q] = "done" <=> got'[b][q] # NoGraph
    <3> USE ShapesOfABuild DEF DoneMeansGot
    <3>0. DoneMeansGot
      BY DEF WholeInv
    <3> USE <3>0
    <3>1. CASE Reuse(b, s) \/ Collect(b, s)
      BY <3>1 DEF Reuse, Collect, Moves
    <3>2. CASE MissingGraph(b, s)
      BY <3>2 DEF MissingGraph, Reads
    <3>3. CASE WarmWrites(b, s)
      <4>1. reading[b][s] # NoGraph
        BY <3>3, PlanAssumption DEF WarmWrites, Reads, WholeInv, Typed, ParsedHasAReading, NoGraph
      <4> QED
        BY <3>3, <4>1 DEF WarmWrites, Moves
    <3>4. CASE ChildParses(b, s) \/ ChildWrites(b, s) \/ ChildStamps(b, s)
      BY <3>4 DEF ChildParses, ChildWrites, ChildStamps, Moves, Reads
    <3>5. CASE WarmReads(b, s) \/ WarmDrops(b, s)
      BY <3>5 DEF WarmReads, WarmDrops, Moves, Reads
    <3>6. CASE ReadFails(b, s)
      BY <3>6 DEF ReadFails, Moves
    <3> QED
      BY <3>1, <3>2, <3>3, <3>4, <3>5, <3>6 DEF ReadStep
  <2> QED
    BY <1>2, <2>1 DEF WholeInv, DoneMeansGot
<1>4. AnswersAreRead'
  BY <1>1, <1>2 DEF WholeInv, AnswersAreRead, Answers
<1>5. FailedWritesOverNothingWhole'
  BY <1>1, <1>2 DEF WholeInv, FailedWritesOverNothingWhole, Failed
<1> QED
  BY <1>3, <1>4, <1>5 DEF WholeInv

LEMMA ReturnsKeeps ==
    ASSUME WholeInv, Typed', NEW b \in Builders, NEW to \in {"off", "idle"}, Returns(b, to),
           outputs' = outputs
    PROVE  WholeInv'
<1>0. DoneMeansGot /\ AnswersAreRead /\ FailedWritesOverNothingWhole
  BY DEF WholeInv
<1> USE <1>0, ShapesOfABuild DEF Returns
<1>1. DoneMeansGot'
  BY DEF DoneMeansGot, NewTasks, NoReadings
<1>2. AnswersAreRead'
  BY DEF AnswersAreRead, Answers
<1>3. FailedWritesOverNothingWhole'
  <2>1. ~Answers(b)'
    BY DEF Answers
  <2>2. \A a \in Builders : a # b =>
            phase'[a] = phase[a] /\ task'[a] = task[a] /\ got'[a] = got[a]
    OBVIOUS
  <2> QED
    BY <2>1, <2>2 DEF FailedWritesOverNothingWhole, Failed, Answers
<1> QED
  BY <1>1, <1>2, <1>3 DEF WholeInv

LEMMA LinkKeeps ==
    ASSUME WholeInv, Typed', NEW b \in Builders, Link(b)
    PROVE  WholeInv'
<1>0. DoneMeansGot /\ AnswersAreRead /\ FailedWritesOverNothingWhole
  BY DEF WholeInv
<1> USE <1>0, ShapesOfABuild DEF Link, disks, readers
<1>1. DoneMeansGot'
  BY DEF DoneMeansGot
<1>2. AnswersAreRead'
  BY DEF AnswersAreRead, Answers
<1>3. FailedWritesOverNothingWhole'
  BY DEF FailedWritesOverNothingWhole, Failed, Keeping
<1> QED
  BY <1>1, <1>2, <1>3 DEF WholeInv

\* What a build that is alone does to the answer.
WriteStep(b) == WriteGraph(b) \/ WriteReport(b) \/ RemoveDb(b) \/ WriteDb(b)

LEMMA WriteStepKeeps ==
    ASSUME WholeInv, Typed', NEW b \in Builders, Builders = {b}, WriteStep(b)
    PROVE  WholeInv'
<1>0. DoneMeansGot /\ AnswersAreRead /\ FailedWritesOverNothingWhole
  BY DEF WholeInv
<1> USE <1>0, ShapesOfABuild DEF WriteStep, WriteGraph, WriteReport, RemoveDb, WriteDb, Write, run,
            readers, Output
<1>1. DoneMeansGot'
  BY DEF DoneMeansGot
<1>2. AnswersAreRead'
  BY DEF AnswersAreRead, Answers
<1>3. FailedWritesOverNothingWhole'
  BY DEF FailedWritesOverNothingWhole, Failed
<1> QED
  BY <1>1, <1>2, <1>3 DEF WholeInv

\* An answer is one of the disk, unless the only build there is is replacing
\* its database.
LEMMA CompleteAlone ==
    ASSUME NEW b \in Builders, Builders = {b}
    PROVE  Complete <=> /\ HasThemAll("graph") /\ HasThemAll("report")
                        /\ \/ HasThemAll("db")
                           \/ outputs["db"] = NoOutput /\ phase[b] = "db removed"
BY DEF Complete, Replaced, Output

LEMMA WriteStepLeavesWhole ==
    ASSUME WholeInv, NEW b \in Builders, Builders = {b}, WriteStep(b), Complete
    PROVE  Complete'
<1>0. DoneMeansGot /\ AnswersAreRead /\ FailedWritesOverNothingWhole
  BY DEF WholeInv
<1> USE <1>0, ShapesOfABuild DEF WriteStep, WriteGraph, WriteReport, RemoveDb, WriteDb, Write,
        Output
<1>1. HasThemAll("graph") /\ HasThemAll("report")
  BY CompleteAlone
<1>2. phase[b] # "db removed" => HasThemAll("db")
  BY CompleteAlone
<1>3. ASSUME ~RemoveDb(b) PROVE \A s \in Services : got[b][s] # NoGraph
  <2>1. ~Failed(b)
    <3> SUFFICES ASSUME Failed(b) PROVE FALSE
      OBVIOUS
    <3>1. PICK s \in Services : task[b][s] = "failed"
      BY DEF Failed
    <3>2. got[b][s] = NoGraph
      BY <3>1 DEF DoneMeansGot
    <3>3. phase[b] # "linked"
      BY <1>1, <1>2 DEF FailedWritesOverNothingWhole, HasThemAll
    <3>4. outputs["graph"] = got[b]
      BY <1>3, <3>3 DEF FailedWritesOverNothingWhole
    <3> QED
      BY <1>1, <3>2, <3>4 DEF HasThemAll
  <2> QED
    BY <1>3, <2>1 DEF DoneMeansGot, AnswersAreRead, Answers, Failed
<1>4. got[b] # NoOutput
  <2>1. got[b] \in [Services -> Readings \union {None}]
    BY DEF MaybeReading, NoGraph
  <2>2. None \notin [Services -> Readings \union {None}]
    BY PlanAssumption
  <2> QED
    BY ONLY <2>1, <2>2 DEF NoOutput
<1>5. HasThemAll("graph")' /\ HasThemAll("report")'
  BY <1>1, <1>3, <1>4 DEF HasThemAll
<1>6. HasThemAll("db")' \/ (outputs["db"] = NoOutput /\ phase[b] = "db removed")'
  <2>1. CASE RemoveDb(b)
    BY <2>1
  <2>2. CASE WriteDb(b)
    BY <1>3, <1>4, <2>2 DEF HasThemAll
  <2>3. CASE WriteGraph(b) \/ WriteReport(b)
    BY <1>2, <2>3 DEF HasThemAll
  <2> QED
    BY <2>1, <2>2, <2>3
<1>7. Builders' = {b}
  OBVIOUS
<1> QED
  BY <1>5, <1>6 DEF Complete, Replaced

LEMMA WholeStep ==
    ASSUME NEW only, Builders = {only}, ~DiesReplacing
    PROVE  WholeInv /\ [Next]_vars => WholeInv' /\ (Complete => Complete')
<1> SUFFICES ASSUME WholeInv, [Next]_vars PROVE WholeInv' /\ (Complete => Complete')
  OBVIOUS
<1>0. Typed'
  BY StepTyped DEF WholeInv
<1>1. ASSUME outputs' = outputs, phase[only] = "db removed" => phase'[only] = "db removed"
      PROVE  Complete => Complete'
  BY <1>1 DEF Complete, HasThemAll, Replaced
<1>2. CASE World
  <2>1. UNCHANGED <<phase, task, got, outputs>>
    BY <1>2 DEF World, Save, SaveConfig, DropGraph, readers
  <2> QED
    BY <1>0, <1>1, <2>1, StillStepKeeps
<1>3. ASSUME NEW b \in Builders, BuildStep(b) PROVE WholeInv' /\ (Complete => Complete')
  <2>0. b = only
    OBVIOUS
  <2>1. CASE OpenWatch(b) \/ Reload(b) \/ Survey(b)
            \/ \E selected \in Selections, noCache \in BOOLEAN : Begin(b, selected, noCache)
    <3>1. QuietStep(b) /\ outputs' = outputs /\ phase[b] # "db removed"
      BY <2>1 DEF OpenWatch, Reload, Survey, Begin, QuietStep, disks, readers
    <3> QED
      BY <1>0, <1>1, <2>0, <3>1, QuietStepKeeps
  <2>2. CASE Listen(b) \/ Told(b)
    <3>1. UNCHANGED <<phase, task, got, outputs>>
      BY <2>2 DEF Listen, Told, disks, readers
    <3> QED
      BY <1>0, <1>1, <3>1, StillStepKeeps
  <2>3. ASSUME NEW s \in Services, ReadStep(b, s)
        PROVE  WholeInv' /\ UNCHANGED <<phase, outputs>>
    <3>1. UNCHANGED <<phase, outputs>>
      BY <2>3 DEF ReadStep, Reuse, MissingGraph, ChildParses, ChildWrites, ChildStamps, Collect,
             WarmReads, WarmWrites, WarmDrops, ReadFails, disks
    <3> QED
      BY <1>0, <2>3, <3>1, ReadStepKeeps
  <2>4. CASE Abandon(b) \/ SaveCache(b) \/ Throw(b) \/ Crash(b)
    <3>1. outputs' = outputs /\ \E to \in {"off", "idle"} : Returns(b, to)
      BY <2>4 DEF Abandon, SaveCache, Throw, Crash, disks
    <3>2. phase[b] # "db removed"
      BY <2>4 DEF Abandon, SaveCache, Throw, Crash
    <3> QED
      BY <1>0, <1>1, <2>0, <3>1, <3>2, ReturnsKeeps
  <2>5. CASE Link(b)
    BY <1>0, <1>1, <2>0, <2>5, LinkKeeps DEF Link, disks
  <2>6. CASE WriteStep(b)
    BY <1>0, <2>0, <2>6, WriteStepKeeps, WriteStepLeavesWhole
  <2> QED
    BY <1>1, <1>3, <2>1, <2>2, <2>3, <2>4, <2>5, <2>6 DEF BuildStep, WriteStep
<1>4. CASE UNCHANGED vars
  BY <1>0, <1>1, <1>4, StillStepKeeps DEF vars, disks, readers
<1> QED
  BY <1>2, <1>3, <1>4 DEF Next

LEMMA InitWhole == Init => WholeInv
<1> SUFFICES ASSUME Init PROVE WholeInv
  OBVIOUS
<1>1. DoneMeansGot
  BY DEF Init, DoneMeansGot, NewTasks, NoReadings
<1>2. AnswersAreRead /\ FailedWritesOverNothingWhole
  BY DEF Init, AnswersAreRead, Answers, FailedWritesOverNothingWhole
<1> QED
  BY InitTyped, <1>1, <1>2 DEF WholeInv

\* Where one process builds, and does not end between taking graph.db away and
\* putting the next one there, an answer every repository is part of is never
\* replaced by one that a repository is missing from: whatever is saved, fails,
\* is abandoned, throws or dies, a graph a failed build leaves never reads as a
\* project that is that small.
THEOREM WholeAnswersStayWhole ==
    ASSUME NEW only, Builders = {only}, ~DiesReplacing
    PROVE  Spec => CompleteStaysComplete
<1>1. WholeInv /\ [Next]_vars => WholeInv'
  BY WholeStep
<1>2. WholeInv /\ [Next]_vars => [Complete => Complete']_vars
  BY WholeStep
<1> QED
  BY InitWhole, <1>1, <1>2, PTL DEF Spec, CompleteStaysComplete

-----------------------------------------------------------------------------
(***************************************************************************)
(* Where one process builds, all of it each time, stamps are sound and a   *)
(* repository that is skipped is current: the invariant says how early     *)
(* each thing a build holds was read, and that nothing is remembered with  *)
(* stamps later than the graph they stand for.                             *)
(***************************************************************************)

\* Every save is a text never seen before, of a file that was there and stays,
\* and what is installed is not edited.
PlainSaves ==
    /\ \A i \in Versioned : \A m, n \in Revisions(i) : Text[i][m] = Text[i][n] => m = n
    /\ \A f \in Files : \A n \in Revisions(f) : Text[f][n] # Missing
    /\ Last[Installed] = 0

\* One process builds, all of it each time, and nothing is saved between a
\* child's parse and its stamps.
Alone(b) ==
    /\ Builders = {b}
    /\ Selections = {Services}
    /\ SavesWhileRead => \A s \in Services : Held(b, s)

AtLeast(r, q) == \A i \in Inputs : q[i] <= r[i]
InRange(r) == \A i \in Versioned : r[i] <= Last[i]

\* What was read, was read from what was there.
Past(r, s) == r # NoGraph => AtLeast(disk[s], r) /\ r[Config] <= config

\* Stamps that are no later than a reading.
Within(files, installed, r) ==
    /\ \A f \in Files : files[f] <= r[f]
    /\ installed # NoPackages => installed <= Last[Installed]

\* A reading no earlier than a survey.
Covers(r, v) == (\A f \in Files : v.files[f] <= r[f]) /\ v.around <= r[Around]

DiskInRange ==
    /\ \A s \in Services, i \in Inputs : disk[s][i] <= Last[i]
    /\ config <= Last[Config]

GraphsArePast == \A s \in Services : Past(graphs[s], s)

EntrySound(e) ==
    e # NoEntry =>
        /\ Within(e.files, e.packages, Last)
        /\ e.around <= Last[Around]
        /\ e.graph # NoGraph =>
               /\ InRange(e.graph)
               /\ Within(e.files, e.packages, e.graph)
               /\ e.around <= e.graph[Around]

CacheSound(c) ==
    c # NoCache => \A s \in Services : EntrySound(c.entries[s])

\* An open repository is never behind the graph that is on disk.
SessionsAreAhead(b) == \A s \in Services :
    /\ Past(sessions[b][s], s)
    /\ Held(b, s) /\ phase[b] # "off" /\ graphs[s] # NoGraph =>
           AtLeast(sessions[b][s], graphs[s])

Planned(b) == phase[b] = "reading" \/ Answers(b)

SurveySound(v, s) ==
    /\ \A f \in Files : v.files[f] \in Nat
    /\ Within(v.files, v.packages, disk[s])
    /\ v.around <= disk[s][Around]
    /\ v.graph # NoGraph =>
           /\ InRange(v.graph)
           /\ \A f \in Files : v.graph[f] <= v.files[f]
           /\ v.graph[Around] <= v.around

SurveysArePast(b) ==
    Planned(b) => \A s \in Services : SurveySound(survey[b][s], s)

\* Before a repository is read, what the survey saw of it is what is there.
TodoIsAsSurveyed(b) == \A s \in Services :
    Reads(b, s, "todo") =>
        /\ graphs[s] \in {survey[b][s].graph, NoGraph}
        /\ Held(b, s) /\ survey[b][s].graph # NoGraph =>
               AtLeast(sessions[b][s], survey[b][s].graph)

\* A reading on its way, child's or watch's.
ReadingSound(b, s) ==
    /\ task[b][s] \in {"parsed", "written", "stamped", "read"} =>
           Past(reading[b][s], s) /\ Covers(reading[b][s], survey[b][s])
    /\ task[b][s] = "read" => Held(b, s) /\ reading[b][s] = sessions[b][s]
    /\ task[b][s] \in {"parsed", "written", "stamped"} => ~Held(b, s)
    /\ task[b][s] \in {"parsed", "written"} =>
           \A i \in Inputs : reading[b][s][i] = disk[s][i]
    /\ task[b][s] \in {"written", "stamped"} => graphs[s] \in {reading[b][s], NoGraph}
    /\ task[b][s] = "stamped" /\ facts[s] # NoFacts =>
           Within(facts[s].files, facts[s].packages, reading[b][s])

ReadingsAreSound(b) == \A s \in Services : ReadingSound(b, s)

DoneSound(b, s) ==
    /\ got[b][s] # NoGraph => task[b][s] = "done"
    /\ task[b][s] = "done" =>
           /\ got[b][s] # NoGraph
           /\ graphs[s] \in {got[b][s], NoGraph}
           /\ Past(got[b][s], s)
           /\ Covers(got[b][s], survey[b][s])
           /\ seen[b][s] # NoFacts => Within(seen[b][s].files, seen[b][s].packages, got[b][s])

DoneIsSound(b) == \A s \in Services : DoneSound(b, s)

\* Nothing is read before the plan, nor after the readings.
InOrder(b) ==
    /\ ~Planned(b) => \A s \in Services : task[b][s] = "todo"
    /\ Answers(b) => \A s \in Services : task[b][s] \in {"done", "failed"}
    /\ ask[b].selected = Services

StampInv(b) ==
    /\ Typed
    /\ DiskInRange
    /\ GraphsArePast
    /\ CacheSound(cache)
    /\ CacheSound(known[b])
    /\ SessionsAreAhead(b)
    /\ SurveysArePast(b)
    /\ TodoIsAsSurveyed(b)
    /\ ReadingsAreSound(b)
    /\ DoneIsSound(b)
    /\ InOrder(b)

-----------------------------------------------------------------------------
LEMMA EqualText ==
    ASSUME PlainSaves, NEW i \in Versioned, NEW m \in Nat \union {Vanished},
           NEW n \in Nat \union {Vanished}, m <= Last[i], n <= Last[i], SameText(i, m, n)
    PROVE  m = n /\ m \in Nat
<1>1. Last[i] \in Nat /\ Vanished = -1
  BY PlanAssumption DEF Vanished
<1>2. m \in Nat /\ n \in Nat
  BY DEF SameText
<1>3. m \in Revisions(i) /\ n \in Revisions(i)
  BY <1>1, <1>2 DEF Revisions
<1>4. Text[i][m] = Text[i][n]
  BY DEF SameText
<1> QED
  BY <1>2, <1>3, <1>4 DEF PlainSaves

LEMMA EqualGraphs ==
    ASSUME PlainSaves, NEW r \in MaybeReading, NEW q \in MaybeReading, SameGraph(r, q),
           r # NoGraph => InRange(r), q # NoGraph => InRange(q)
    PROVE  r = q
<1>1. CASE r = NoGraph \/ q = NoGraph
  BY <1>1 DEF SameGraph
<1>2. CASE r # NoGraph /\ q # NoGraph
  <2>1. r \in Readings /\ q \in Readings
    BY <1>2 DEF MaybeReading
  <2>2. ASSUME NEW i \in Versioned PROVE r[i] = q[i]
    <3>1. r[i] \in Nat /\ q[i] \in Nat /\ r[i] <= Last[i] /\ q[i] <= Last[i]
      BY <1>2, <2>1 DEF Readings, InRange
    <3>2. SameText(i, r[i], q[i])
      BY <1>2 DEF SameGraph, SameReading
    <3> QED
      BY <3>1, <3>2, EqualText
  <2> QED
    BY <2>1, <2>2 DEF Readings
<1> QED
  BY <1>1, <1>2

\* A repository whose entry is trusted has the graph the entry was made for,
\* and nothing around its files has moved.
LEMMA Trusted ==
    ASSUME PlainSaves, NEW s \in Services, NEW e \in Entries \union {NoEntry}, NEW v \in Surveys,
           NEW standIns, EntrySound(e), disk \in [Services -> [Inputs -> Nat]],
           DiskInRange, SurveySound(v, s), ~Untrusted(e, v, standIns)
    PROVE  /\ e \in Entries
           /\ e.graph = v.graph
           /\ v.graph # NoGraph
           /\ e.around = v.around
<1>1. e # NoEntry /\ v.graph # NoGraph
  BY DEF Untrusted
<1>2. e \in Entries
  BY <1>1
<1>3. v.graph = e.graph
  <2>1. v.graph \in MaybeReading /\ e.graph \in MaybeReading
    BY <1>2 DEF Surveys, Entries
  <2>2. SameGraph(v.graph, e.graph)
    BY DEF Untrusted
  <2>3. InRange(v.graph)
    BY <1>1 DEF SurveySound
  <2>4. e.graph # NoGraph => InRange(e.graph)
    BY <1>1 DEF EntrySound
  <2> QED
    BY <2>1, <2>2, <2>3, <2>4, EqualGraphs
<1>4. e.around = v.around
  <2>1. e.around \in Nat /\ v.around \in Nat /\ Around \in Versioned
    BY <1>2 DEF Surveys, Entries, Versioned, Inputs
  <2>2. SameText(Around, e.around, v.around)
    BY DEF Untrusted, DependencyChange
  <2>3. e.around <= Last[Around]
    BY <1>1 DEF EntrySound
  <2>4. v.around <= Last[Around]
    <3>1. v.around <= disk[s][Around] /\ disk[s][Around] <= Last[Around]
      BY DEF SurveySound, DiskInRange, Inputs
    <3>2. disk[s][Around] \in Nat /\ Last[Around] \in Nat
      BY PlanAssumption DEF Inputs, Versioned
    <3> QED
      BY <2>1, <3>1, <3>2
  <2> QED
    BY <2>1, <2>2, <2>3, <2>4, EqualText
<1> QED
  BY <1>1, <1>2, <1>3, <1>4

\* A file nothing is said to have touched is as the entry has it.
LEMMA Untouched ==
    ASSUME PlainSaves, NEW s \in Services, NEW e \in Entries, NEW v \in Surveys,
           e # NoEntry, EntrySound(e), disk \in [Services -> [Inputs -> Nat]], DiskInRange,
           SurveySound(v, s), NEW f \in Files, f \notin Touched(e, v)
    PROVE  v.files[f] = e.files[f] /\ e.files[f] \in Nat
<1>1. e.files[f] \in Nat \union {Vanished} /\ v.files[f] \in Nat \union {Vanished}
  BY DEF Entries, Surveys, Stamps
<1>2. SameText(f, e.files[f], v.files[f])
  BY DEF Touched
<1>3. e.files[f] <= Last[f]
  BY DEF EntrySound, Within
<1>4. v.files[f] <= Last[f]
  <2>1. v.files[f] <= disk[s][f] /\ disk[s][f] <= Last[f]
    BY DEF SurveySound, Within, DiskInRange, Inputs
  <2>2. disk[s][f] \in Nat /\ Last[f] \in Nat
    BY PlanAssumption DEF Inputs, Versioned
  <2> QED
    BY <1>1, <2>1, <2>2 DEF Vanished
<1> QED
  BY <1>1, <1>2, <1>3, <1>4, EqualText DEF Versioned, Inputs
LEMMA StampShapes ==
    ASSUME NEW b \in Builders, StampInv(b)
    PROVE  /\ disk \in [Services -> [Inputs -> Nat]] /\ config \in Nat
           /\ graphs \in [Services -> MaybeReading]
           /\ facts \in [Services -> Facts \union {NoFacts}]
           /\ cache \in Caches \union {NoCache}
           /\ known \in [Builders -> Caches \union {NoCache}]
           /\ phase \in [Builders -> Phases]
           /\ task \in [Builders -> [Services -> Tasks]]
           /\ survey \in [Builders -> [Services -> Surveys \union {None}]]
           /\ reading \in [Builders -> [Services -> MaybeReading]]
           /\ got \in [Builders -> [Services -> MaybeReading]]
           /\ seen \in [Builders -> [Services -> Facts \union {NoFacts}]]
           /\ sessions \in [Builders -> [Services -> MaybeReading]]
BY DEF StampInv, Typed, TypeOK

LEMMA StampParts ==
    ASSUME NEW b \in Builders, StampInv(b)
    PROVE  /\ DiskInRange /\ GraphsArePast
           /\ CacheSound(cache) /\ CacheSound(known[b])
           /\ SessionsAreAhead(b) /\ SurveysArePast(b) /\ TodoIsAsSurveyed(b)
           /\ ReadingsAreSound(b) /\ DoneIsSound(b) /\ InOrder(b)
           /\ \A s \in Services : Held(b, s) /\ phase[b] # "off" => sessions[b][s] \in Readings
           /\ \A s \in Services : task[b][s] \in {"parsed", "written", "stamped", "read"} =>
                  reading[b][s] \in Readings
           /\ Planned(b) => survey[b] \in [Services -> Surveys]
BY DEF StampInv, Typed, SessionsAreOpen, ParsedHasAReading, PlannedHasASurvey, Planned, Answers

\* What changes nothing on the disk but what is saved there, and the sources
\* only forwards.
LEMMA SaveKeeps ==
    ASSUME NEW b \in Builders, StampInv(b), Typed',
           UNCHANGED <<graphs, facts, cache, phase, run, readers, sessions>>,
           DiskInRange', config <= config',
           \A s \in Services : AtLeast(disk'[s], disk[s]),
           \A s \in Services : task[b][s] \in {"parsed", "written"} => disk'[s] = disk[s]
    PROVE  StampInv(b)'
<1> USE StampParts, StampShapes
<1>0. disk' \in [Services -> [Inputs -> Nat]] /\ config' \in Nat
  BY DEF Typed, TypeOK
<1>1. ASSUME NEW s \in Services, NEW r \in MaybeReading, r # NoGraph, AtLeast(disk[s], r),
             r[Config] <= config
      PROVE  AtLeast(disk'[s], r) /\ r[Config] <= config'
  <2>1. r \in Readings
    BY <1>1 DEF MaybeReading
  <2>2. r[Config] \in Nat
    BY <2>1 DEF Readings, Versioned
  <2>3. \A i \in Inputs : r[i] \in Nat
    BY <2>1 DEF Readings, Versioned
  <2> QED
    BY <1>0, <1>1, <2>2, <2>3 DEF AtLeast
<1>2. GraphsArePast'
  BY <1>1 DEF GraphsArePast, Past
<1>3. SessionsAreAhead(b)'
  BY <1>1 DEF SessionsAreAhead, Past, Held
<1>4. SurveysArePast(b)'
  <2> SUFFICES ASSUME Planned(b), NEW s \in Services
               PROVE  SurveySound(survey[b][s], s)'
    BY DEF SurveysArePast, Planned, Answers, run
  <2>1. survey[b][s] \in Surveys
    OBVIOUS
  <2>2. \A f \in Files : survey[b][s].files[f] \in Nat \union {Vanished}
    BY <2>1 DEF Surveys, Stamps
  <2>3. survey[b][s].around \in Nat
    BY <2>1 DEF Surveys
  <2>4. SurveySound(survey[b][s], s)
    BY DEF SurveysArePast
  <2>5. survey' = survey
    BY DEF run
  <2>6. Within(survey[b][s].files, survey[b][s].packages, disk'[s])
    <3>1. ASSUME NEW f \in Files PROVE survey[b][s].files[f] <= disk'[s][f]
      <4>1. disk[s][f] \in Nat /\ disk'[s][f] \in Nat /\ disk[s][f] <= disk'[s][f]
        BY <1>0 DEF AtLeast, Inputs
      <4>2. survey[b][s].files[f] <= disk[s][f]
        BY <2>4 DEF SurveySound, Within
      <4> QED
        BY ONLY <2>2, <4>1, <4>2 DEF Vanished
    <3> QED
      BY <2>4, <3>1 DEF SurveySound, Within
  <2>7. survey[b][s].around <= disk'[s][Around]
    BY <1>0, <2>3, <2>4 DEF SurveySound, AtLeast, Inputs
  <2> QED
    BY <2>4, <2>5, <2>6, <2>7 DEF SurveySound
<1>5. TodoIsAsSurveyed(b)'
  BY DEF TodoIsAsSurveyed, Reads, Held, run, readers
<1>6. ReadingsAreSound(b)'
  BY <1>1 DEF ReadingsAreSound, ReadingSound, Past, Held, run, readers
<1>7. DoneIsSound(b)'
  BY <1>1 DEF DoneIsSound, DoneSound, Past, run, readers
<1>8. InOrder(b)' /\ CacheSound(cache)' /\ CacheSound(known[b])'
  BY DEF InOrder, Planned, Answers, run, readers
<1> QED
  BY <1>2, <1>3, <1>4, <1>5, <1>6, <1>7, <1>8 DEF StampInv

LEMMA WorldKeeps ==
    ASSUME NEW b \in Builders, Alone(b), StampInv(b), World PROVE StampInv(b)'
<1> USE StampParts, StampShapes
<1>0. Typed /\ Typed'
  BY StepTyped DEF StampInv, Next
<1>1. ASSUME NEW s \in Services, NEW i \in Inputs, Save(s, i) PROVE StampInv(b)'
  <2>1. UNCHANGED <<graphs, facts, cache, phase, run, readers, sessions, config>>
    BY <1>1 DEF Save, watch
  <2>2. disk[s][i] \in Nat /\ Last[i] \in Nat
    BY PlanAssumption DEF Versioned
  <2>3. disk' = [disk EXCEPT ![s][i] = disk[s][i] + 1] /\ disk[s][i] < Last[i]
    BY <1>1 DEF Save
  <2>4. DiskInRange'
    BY <2>1, <2>2, <2>3 DEF DiskInRange
  <2>5. \A q \in Services : AtLeast(disk'[q], disk[q])
    BY <2>2, <2>3 DEF AtLeast
  <2>6. ASSUME NEW q \in Services, task[b][q] \in {"parsed", "written"} PROVE disk'[q] = disk[q]
    <3>1. ~SavesWhileRead
      BY <2>6 DEF Alone, ReadingsAreSound, ReadingSound
    <3>2. phase[b] = "reading"
      BY <2>6 DEF InOrder, Planned
    <3>3. q # s
      BY <1>1, <2>6, <3>1, <3>2 DEF Save, BetweenParseAndStamp
    <3> QED
      BY <2>3, <3>3
  <2>7. config <= config'
    BY <2>1
  <2> QED
    BY <1>0, <2>1, <2>4, <2>5, <2>6, <2>7, SaveKeeps
<1>2. CASE SaveConfig
  <2>1. UNCHANGED <<graphs, facts, cache, phase, run, readers, sessions, disk>>
    BY <1>2 DEF SaveConfig
  <2>2. config < Last[Config] /\ config' = config + 1 /\ Last[Config] \in Nat
    BY <1>2, PlanAssumption DEF SaveConfig, Versioned
  <2>3. DiskInRange'
    BY <2>1, <2>2 DEF DiskInRange
  <2>4. \A q \in Services : AtLeast(disk'[q], disk[q])
    BY <2>1 DEF AtLeast
  <2>5. config <= config' /\ \A q \in Services : disk'[q] = disk[q]
    BY <2>1, <2>2
  <2> QED
    BY <1>0, <2>1, <2>3, <2>4, <2>5, SaveKeeps
<1>3. ASSUME NEW s \in Services, DropGraph(s) PROVE StampInv(b)'
  <2> USE DEF DropGraph, run, readers, watch
  <2>1. UNCHANGED <<disk, config, facts, cache, phase, run, readers, sessions>>
    BY <1>3
  <2>2. \A q \in Services : graphs'[q] \in {graphs[q], NoGraph}
    BY <1>3
  <2>3. GraphsArePast' /\ DiskInRange'
    BY <2>1, <2>2 DEF GraphsArePast, Past, DiskInRange
  <2>4. SessionsAreAhead(b)'
    BY <2>1, <2>2 DEF SessionsAreAhead, Past, Held
  <2>5. SurveysArePast(b)'
    BY <2>1 DEF SurveysArePast, SurveySound, Planned, Answers
  <2>6. TodoIsAsSurveyed(b)'
    BY <2>1, <2>2 DEF TodoIsAsSurveyed, Reads, Held
  <2>7. ReadingsAreSound(b)'
    BY <2>1, <2>2 DEF ReadingsAreSound, ReadingSound, Past, Held
  <2>8. DoneIsSound(b)'
    BY <2>1, <2>2 DEF DoneIsSound, DoneSound, Past
  <2>9. InOrder(b)' /\ CacheSound(cache)' /\ CacheSound(known[b])'
    BY <2>1 DEF InOrder, Planned, Answers
  <2> QED
    BY <1>0, <2>3, <2>4, <2>5, <2>6, <2>7, <2>8, <2>9 DEF StampInv
<1> QED
  BY <1>1, <1>2, <1>3 DEF World
\* What is opened is read now, so it is behind nothing.
LEMMA OpenedIsNow ==
    ASSUME NEW b \in Builders, StampInv(b), NEW s \in Services
    PROVE  /\ Past(Opened(b)[s], s)
           /\ Held(b, s) /\ graphs[s] # NoGraph => AtLeast(Opened(b)[s], graphs[s])
<1> USE StampParts, StampShapes
<1>1. CASE Held(b, s)
  <2>1. Opened(b)[s] = Now(s, config)
    BY <1>1 DEF Opened
  <2>2. \A i \in Inputs : Now(s, config)[i] = disk[s][i]
    BY PlanAssumption DEF Now, Versioned, Inputs
  <2>3. Now(s, config)[Config] = config
    BY DEF Now, Versioned
  <2>4. Past(Now(s, config), s)
    BY <2>2, <2>3 DEF Past, AtLeast
  <2>5. graphs[s] # NoGraph => AtLeast(Now(s, config), graphs[s])
    BY <2>2 DEF GraphsArePast, Past, AtLeast
  <2> QED
    BY <2>1, <2>4, <2>5
<1>2. CASE ~Held(b, s)
  BY <1>2 DEF Opened, Past, NoSession, NoGraph
<1> QED
  BY <1>1, <1>2

LEMMA OpeningKeeps ==
    ASSUME NEW b \in Builders, StampInv(b), Typed', OpenWatch(b) \/ Reload(b)
    PROVE  StampInv(b)'
<1> USE StampParts, StampShapes DEF OpenWatch, Reload, disks, run, readers
<1>0. UNCHANGED <<disk, config, graphs, facts, cache, ask, known, survey, task, reading, got, seen>>
  OBVIOUS
<1>1. ~Planned(b) /\ ~Planned(b)' /\ \A s \in Services : task[b][s] = "todo"
  BY DEF Planned, Answers, InOrder
<1>2. \/ sessions' = [sessions EXCEPT ![b] = Opened(b)]
      \/ Reload(b) /\ sessions' = sessions
  OBVIOUS
<1>3. SessionsAreAhead(b)'
  <2> SUFFICES ASSUME NEW s \in Services
               PROVE  /\ Past(sessions'[b][s], s)
                      /\ Held(b, s) /\ graphs[s] # NoGraph => AtLeast(sessions'[b][s], graphs[s])
    BY <1>0 DEF SessionsAreAhead, Past, Held
  <2>1. CASE sessions' = [sessions EXCEPT ![b] = Opened(b)]
    BY <2>1, OpenedIsNow
  <2>2. CASE Reload(b) /\ sessions' = sessions
    BY <2>2 DEF SessionsAreAhead
  <2> QED
    BY <1>2, <2>1, <2>2
<1>4. DiskInRange' /\ GraphsArePast' /\ CacheSound(cache)' /\ CacheSound(known[b])'
  BY <1>0 DEF DiskInRange, GraphsArePast, Past
<1>5. SurveysArePast(b)' /\ TodoIsAsSurveyed(b)'
  BY <1>1 DEF SurveysArePast, TodoIsAsSurveyed, Reads, Planned
<1>6. ReadingsAreSound(b)' /\ DoneIsSound(b)'
  BY <1>0, <1>1 DEF ReadingsAreSound, ReadingSound, DoneIsSound, DoneSound
<1>7. InOrder(b)'
  BY <1>0, <1>1 DEF InOrder, Planned
<1> QED
  BY <1>3, <1>4, <1>5, <1>6, <1>7 DEF StampInv

\* What leaves the readings, the graphs and what is remembered of them alone.
LEMMA StillKeeps ==
    ASSUME NEW b \in Builders, StampInv(b), Typed',
           UNCHANGED <<disk, config, graphs, facts, cache>>,
           UNCHANGED <<phase, run, readers, sessions>>
    PROVE  StampInv(b)'
<1> USE StampParts DEF run, readers
<1>1. DiskInRange' /\ GraphsArePast' /\ CacheSound(cache)' /\ CacheSound(known[b])'
  BY DEF DiskInRange, GraphsArePast, Past
<1>2. SessionsAreAhead(b)' /\ SurveysArePast(b)' /\ TodoIsAsSurveyed(b)'
  BY DEF SessionsAreAhead, SurveysArePast, SurveySound, TodoIsAsSurveyed, Past, Held, Reads,
     Planned, Answers
<1>3. ReadingsAreSound(b)'
  BY DEF ReadingsAreSound, ReadingSound, Past, Held
<1>4. DoneIsSound(b)' /\ InOrder(b)'
  BY DEF DoneIsSound, DoneSound, Past, InOrder, Planned, Answers
<1> QED
  BY <1>1, <1>2, <1>3, <1>4 DEF StampInv

\* A step from the readings on that moves a builder forwards and touches no
\* graph, and one that only writes an answer.
LEMMA AnswerKeeps ==
    ASSUME NEW b \in Builders, StampInv(b), Typed', Link(b) \/ WriteStep(b)
    PROVE  StampInv(b)'
<1> USE StampParts, StampShapes DEF Link, WriteStep, WriteGraph, WriteReport, RemoveDb, WriteDb,
        Write, disks, run, readers, watch
<1>0. UNCHANGED <<disk, config, graphs, facts, cache, ask, known, survey, task, reading, got,
                  seen, sessions>>
  OBVIOUS
<1>1. Planned(b) /\ Answers(b)' /\ phase[b] # "off" /\ phase'[b] # "reading"
  BY DEF Planned, Answers
<1>2. \A s \in Services : task[b][s] \in {"done", "failed"}
  BY <1>1 DEF InOrder, Answers
<1>3. DiskInRange' /\ GraphsArePast' /\ CacheSound(cache)' /\ CacheSound(known[b])'
  BY <1>0 DEF DiskInRange, GraphsArePast, Past
<1>4. SessionsAreAhead(b)' /\ SurveysArePast(b)' /\ TodoIsAsSurveyed(b)'
  BY <1>0, <1>1 DEF SessionsAreAhead, SurveysArePast, SurveySound, TodoIsAsSurveyed, Past, Held,
     Reads
<1>5. ReadingsAreSound(b)' /\ DoneIsSound(b)'
  <2>1. ReadingsAreSound(b)'
    BY <1>0 DEF ReadingsAreSound, ReadingSound, Past, Held
  <2>2. DoneIsSound(b)'
    BY <1>0 DEF DoneIsSound, DoneSound, Past
  <2> QED
    BY <2>1, <2>2
<1>6. InOrder(b)'
  BY <1>0, <1>1, <1>2 DEF InOrder, Planned
<1> QED
  BY <1>3, <1>4, <1>5, <1>6 DEF StampInv

LEMMA BeginKeeps ==
    ASSUME NEW b \in Builders, Alone(b), StampInv(b), Typed', NEW selected \in Selections,
           NEW noCache \in BOOLEAN, Begin(b, selected, noCache)
    PROVE  StampInv(b)'
<1> USE StampParts, StampShapes DEF Begin, disks, run, readers, watch
<1>0. UNCHANGED <<disk, config, graphs, facts, cache, known, survey, task, reading, got, seen,
                  sessions>>
  OBVIOUS
<1>1. ~Planned(b) /\ ~Planned(b)' /\ phase'[b] # "reading"
  BY DEF Planned, Answers
<1>2. \A s \in Services : task[b][s] = "todo"
  BY <1>1 DEF InOrder
<1>3. DiskInRange' /\ GraphsArePast' /\ CacheSound(cache)' /\ CacheSound(known[b])'
  BY <1>0 DEF DiskInRange, GraphsArePast, Past
<1>4. SessionsAreAhead(b)'
  <2>1. \A s \in Services : Held(b, s) => phase[b] # "off"
    BY DEF Held
  <2> QED
    BY <1>0, <2>1 DEF SessionsAreAhead, Past, Held
<1>5. SurveysArePast(b)' /\ TodoIsAsSurveyed(b)'
  BY <1>1 DEF SurveysArePast, TodoIsAsSurveyed, Reads, Planned
<1>6. ReadingsAreSound(b)' /\ DoneIsSound(b)'
  BY <1>0, <1>2 DEF ReadingsAreSound, ReadingSound, DoneIsSound, DoneSound
<1>7. InOrder(b)'
  <2>1. ask'[b].selected = Services
    <3>1. ask \in [Builders -> [selected : SUBSET Services, noCache : BOOLEAN]]
      BY DEF StampInv, Typed, TypeOK
    <3> QED
      BY <3>1 DEF Alone
  <2> QED
    BY <1>0, <1>1, <1>2, <2>1 DEF InOrder, Planned
<1> QED
  BY <1>3, <1>4, <1>5, <1>6, <1>7 DEF StampInv

LEMMA SurveyKeeps ==
    ASSUME PlainSaves, NEW b \in Builders, StampInv(b), Typed', Survey(b)
    PROVE  StampInv(b)'
<1> USE StampParts, StampShapes DEF Survey, disks, run, readers, watch
<1>0. UNCHANGED <<disk, config, graphs, facts, cache, ask, task, reading, got, seen, sessions>>
  OBVIOUS
<1>1. ~Planned(b) /\ phase'[b] = "reading" /\ phase[b] # "off"
  BY DEF Planned, Answers
<1>2. \A s \in Services : task[b][s] = "todo"
  BY <1>1 DEF InOrder
<1>3. DiskInRange' /\ GraphsArePast' /\ CacheSound(cache)'
  BY <1>0 DEF DiskInRange, GraphsArePast, Past
<1>4. CacheSound(known[b])'
  <2>1. known'[b] \in {cache, NoCache}
    BY DEF LoadedCache
  <2> QED
    BY <2>1 DEF CacheSound
<1>5. ASSUME NEW s \in Services, NEW e \in Entries \union {NoEntry}
      PROVE  SurveySound(Surveyed(s, e), s)
  <2>1. \A i \in Inputs : disk[s][i] \in Nat /\ disk[s][i] <= Last[i]
    BY DEF DiskInRange
  <2>2. Within([f \in Files |-> disk[s][f]], Stamped(e, disk[s][Installed]), disk[s])
    BY <2>1 DEF Within, Stamped, Inputs
  <2>3. ASSUME graphs[s] # NoGraph
        PROVE  /\ InRange(graphs[s]) /\ \A f \in Files : graphs[s][f] <= disk[s][f]
               /\ graphs[s][Around] <= disk[s][Around]
    <3>1. graphs[s] \in Readings /\ Last[Config] \in Nat
      BY <2>3, PlanAssumption DEF MaybeReading, Versioned
    <3>2. \A i \in Inputs : graphs[s][i] \in Nat /\ Last[i] \in Nat /\ graphs[s][i] <= disk[s][i]
      BY <2>3, <3>1, PlanAssumption DEF GraphsArePast, Past, AtLeast, Readings, Versioned
    <3>3. graphs[s][Config] \in Nat /\ graphs[s][Config] <= config /\ config <= Last[Config]
      BY <2>3, <3>1 DEF GraphsArePast, Past, Readings, Versioned, DiskInRange
    <3> QED
      BY <2>1, <3>1, <3>2, <3>3 DEF InRange, Versioned, Inputs
  <2> QED
    BY <2>1, <2>2, <2>3 DEF Surveyed, SurveySound, Inputs
<1>6. \A s \in Services : survey'[b][s] = Surveyed(s, EntryIn(LoadedCache(b), s))
  OBVIOUS
<1>7. SurveysArePast(b)'
  <2>1. \A s \in Services : SurveySound(survey'[b][s], s)
    <3>1. \A s \in Services : EntryIn(LoadedCache(b), s) \in Entries \union {NoEntry}
      BY LoadedCacheTyped, EntryTyped DEF StampInv, Typed
    <3> QED
      BY <1>5, <1>6, <3>1
  <2> QED
    BY <1>0, <2>1 DEF SurveysArePast, SurveySound
<1>8. SessionsAreAhead(b)'
  BY <1>0, <1>1 DEF SessionsAreAhead, Past, Held
<1>9. TodoIsAsSurveyed(b)'
  <2>1. \A s \in Services : survey'[b][s].graph = graphs[s]
    BY <1>6 DEF Surveyed
  <2> QED
    BY <1>0, <1>1, <2>1 DEF TodoIsAsSurveyed, SessionsAreAhead, Held
<1>10. ReadingsAreSound(b)' /\ DoneIsSound(b)'
  BY <1>0, <1>2 DEF ReadingsAreSound, ReadingSound, DoneIsSound, DoneSound
<1>11. InOrder(b)'
  BY <1>0, <1>1, <1>2 DEF InOrder, Planned, Answers
<1> QED
  BY <1>3, <1>4, <1>7, <1>8, <1>9, <1>10, <1>11 DEF StampInv
\* Nothing to read: the entry is the graph's, and says of every file and of
\* what is around them what the survey says.
LEMMA UnchangedMeans ==
    ASSUME PlainSaves, NEW b \in Builders, StampInv(b), NEW s \in Services,
           Reads(b, s, "todo"), Plan(b, s) \in Skips
    PROVE  /\ Plan(b, s) = "unchanged"
           /\ Entry(b, s) \in Entries /\ Entry(b, s) # NoEntry
           /\ Entry(b, s).graph = survey[b][s].graph
           /\ Entry(b, s).graph # NoGraph
           /\ survey[b][s].around = Entry(b, s).around
           /\ \A f \in Files : /\ survey[b][s].files[f] = Entry(b, s).files[f]
                               /\ Entry(b, s).files[f] \in Nat
           /\ Within(Entry(b, s).files, Entry(b, s).packages, Entry(b, s).graph)
           /\ Covers(Entry(b, s).graph, survey[b][s])
<1> USE StampParts, StampShapes
<1> DEFINE e == Entry(b, s)
           v == survey[b][s]
<1>1. Planned(b) /\ v \in Surveys
  BY DEF Planned, Reads
<1>2. e \in Entries \union {NoEntry}
  BY EntryTyped DEF Entry
<1>3. EntrySound(e)
  BY DEF Entry, EntryIn, CacheSound, EntrySound
<1>4. SurveySound(v, s)
  BY <1>1 DEF SurveysArePast
<1>5. /\ Plan(b, s) = "unchanged"
      /\ ~Untrusted(e, v, s \in StandIns)
      /\ Touched(e, v) = {}
  BY DEF Plan, PlanOne, Skips, InOrder
<1>6. e # NoEntry
  BY <1>5 DEF Untrusted
<1>7. e \in Entries /\ e.graph = v.graph /\ v.graph # NoGraph /\ e.around = v.around
  BY <1>1, <1>2, <1>3, <1>4, <1>5, Trusted
<1>8. \A f \in Files : v.files[f] = e.files[f] /\ e.files[f] \in Nat
  BY <1>1, <1>3, <1>4, <1>5, <1>6, <1>7, Untouched
<1>9. Within(e.files, e.packages, e.graph) /\ e.around <= e.graph[Around]
  BY <1>3, <1>6, <1>7 DEF EntrySound
<1>10. Covers(e.graph, v)
  BY <1>7, <1>8, <1>9 DEF Covers, Within
<1> QED
  BY <1>5, <1>6, <1>7, <1>8, <1>9, <1>10

\* What one reading must show of its own repository for the rest to stand.
LEMMA OneReadingKeeps ==
    ASSUME NEW b \in Builders, StampInv(b), Typed', NEW s \in Services, phase[b] = "reading",
           UNCHANGED <<disk, config, cache, phase, run>>,
           \A q \in Services \ {s} : /\ graphs'[q] = graphs[q] /\ facts'[q] = facts[q]
                                     /\ task'[b][q] = task[b][q] /\ got'[b][q] = got[b][q]
                                     /\ reading'[b][q] = reading[b][q] /\ seen'[b][q] = seen[b][q]
                                     /\ sessions'[b][q] = sessions[b][q],
           task'[b][s] # "todo",
           Past(graphs[s], s)', Past(sessions[b][s], s)',
           Held(b, s) /\ graphs'[s] # NoGraph => AtLeast(sessions'[b][s], graphs'[s]),
           ReadingSound(b, s)', DoneSound(b, s)'
    PROVE  StampInv(b)'
<1> USE StampParts DEF run
<1>1. DiskInRange' /\ CacheSound(cache)' /\ CacheSound(known[b])' /\ SurveysArePast(b)'
  BY DEF DiskInRange, SurveysArePast, SurveySound, Planned, Answers
<1>2. GraphsArePast'
  <2> SUFFICES ASSUME NEW q \in Services \ {s} PROVE Past(graphs[q], q)'
    BY DEF GraphsArePast
  <2> QED
    BY DEF GraphsArePast, Past
<1>3. SessionsAreAhead(b)'
  <2> SUFFICES ASSUME NEW q \in Services \ {s}
               PROVE  /\ Past(sessions[b][q], q)'
                      /\ Held(b, q) /\ graphs'[q] # NoGraph => AtLeast(sessions'[b][q], graphs'[q])
    BY DEF SessionsAreAhead, Held
  <2> QED
    BY DEF SessionsAreAhead, Past
<1>4. TodoIsAsSurveyed(b)'
  <2> SUFFICES ASSUME NEW q \in Services \ {s}, Reads(b, q, "todo")'
               PROVE  /\ graphs'[q] \in {survey[b][q].graph, NoGraph}
                      /\ Held(b, q) /\ survey[b][q].graph # NoGraph =>
                             AtLeast(sessions'[b][q], survey[b][q].graph)
    BY DEF TodoIsAsSurveyed, Held, Reads
  <2> QED
    BY DEF TodoIsAsSurveyed, Reads
<1>5. ReadingsAreSound(b)'
  <2> SUFFICES ASSUME NEW q \in Services \ {s} PROVE ReadingSound(b, q)'
    BY DEF ReadingsAreSound
  <2> QED
    BY DEF ReadingsAreSound, ReadingSound, Past, Held
<1>6. DoneIsSound(b)'
  <2> SUFFICES ASSUME NEW q \in Services \ {s} PROVE DoneSound(b, q)'
    BY DEF DoneIsSound
  <2> QED
    BY DEF DoneIsSound, DoneSound, Past
<1>7. InOrder(b)'
  BY DEF InOrder, Planned, Answers
<1> QED
  BY <1>1, <1>2, <1>3, <1>4, <1>5, <1>6, <1>7 DEF StampInv

LEMMA ReuseKeeps ==
    ASSUME PlainSaves, NEW b \in Builders, StampInv(b), Typed', NEW s \in Services, Reuse(b, s)
    PROVE  StampInv(b)'
<1> USE StampParts, StampShapes
<1>1. /\ phase[b] = "reading" /\ task[b][s] = "todo"
      /\ UNCHANGED <<disk, config, cache, phase, run, graphs, facts, reading, sessions>>
  BY DEF Reuse, Reads, disks, watch
<1>2. /\ got' = [got EXCEPT ![b][s] = graphs[s]]
      /\ task' = [task EXCEPT ![b][s] = "done"]
      /\ seen' = [seen EXCEPT ![b][s] = IF Entry(b, s) = NoEntry THEN NoFacts
                                        ELSE FactsOf(Entry(b, s))]
  BY DEF Reuse, Moves
<1>3. got'[b][s] = graphs[s] /\ task'[b][s] = "done" /\ seen'[b][s] = FactsOf(Entry(b, s))
  BY <1>2, UnchangedMeans DEF Reuse
<1>4. graphs[s] # NoGraph /\ graphs[s] = Entry(b, s).graph
  <2>1. graphs[s] \in {survey[b][s].graph, NoGraph} /\ graphs[s] # NoGraph
    BY DEF Reuse, TodoIsAsSurveyed
  <2> QED
    BY <2>1, UnchangedMeans DEF Reuse
<1>5. Past(graphs[s], s)' /\ Past(sessions[b][s], s)'
  BY <1>1 DEF GraphsArePast, SessionsAreAhead, Past
<1>6. Held(b, s) /\ graphs'[s] # NoGraph => AtLeast(sessions'[b][s], graphs'[s])
  BY <1>1 DEF SessionsAreAhead
<1>7. ReadingSound(b, s)'
  BY <1>3 DEF ReadingSound
<1>8. DoneSound(b, s)'
  <2>1. Covers(graphs[s], survey[b][s])
    BY <1>4, UnchangedMeans DEF Reuse
  <2>2. Within(FactsOf(Entry(b, s)).files, FactsOf(Entry(b, s)).packages, graphs[s])
    BY <1>4, UnchangedMeans DEF Reuse, FactsOf
  <2> QED
    BY <1>1, <1>3, <1>4, <1>5, <2>1, <2>2 DEF DoneSound, Past, run
<1>9. \A q \in Services \ {s} : /\ task'[b][q] = task[b][q] /\ got'[b][q] = got[b][q]
                                /\ seen'[b][q] = seen[b][q]
  BY <1>2
<1> QED
  BY <1>1, <1>3, <1>5, <1>6, <1>7, <1>8, <1>9, OneReadingKeeps
LEMMA MissingGraphKeeps ==
    ASSUME NEW b \in Builders, StampInv(b), Typed', NEW s \in Services, MissingGraph(b, s)
    PROVE  StampInv(b)'
<1> USE StampParts, StampShapes
<1>1. /\ phase[b] = "reading"
      /\ UNCHANGED <<disk, config, cache, phase, ask, known, survey, graphs, facts, reading, got,
                     seen,
                     sessions>>
  BY DEF MissingGraph, Reads, disks, run, watch
<1>2. \A q \in Services : \/ task'[b][q] = "dead" /\ (q = s \/ task[b][q] # "done")
                          \/ task'[b][q] = task[b][q] /\ task[b][q] # "todo"
  BY DEF MissingGraph
<1>3. task[b][s] = "todo"
  BY DEF MissingGraph, Reads
<1>4. DiskInRange' /\ GraphsArePast' /\ CacheSound(cache)' /\ CacheSound(known[b])'
  BY <1>1 DEF DiskInRange, GraphsArePast, Past
<1>5. SessionsAreAhead(b)' /\ SurveysArePast(b)'
  BY <1>1 DEF SessionsAreAhead, SurveysArePast, SurveySound, Past, Held, Planned, Answers
<1>6. TodoIsAsSurveyed(b)'
  BY <1>2 DEF TodoIsAsSurveyed, Reads
<1>7. ReadingsAreSound(b)'
  <2> SUFFICES ASSUME NEW q \in Services PROVE ReadingSound(b, q)'
    BY DEF ReadingsAreSound
  <2>1. CASE task'[b][q] = "dead"
    BY <2>1 DEF ReadingSound
  <2>2. CASE task'[b][q] = task[b][q]
    BY <1>1, <2>2 DEF ReadingsAreSound, ReadingSound, Past, Held
  <2> QED
    BY <1>2, <2>1, <2>2
<1>8. DoneIsSound(b)'
  BY <1>1, <1>2, <1>3 DEF DoneIsSound, DoneSound, Past
<1>9. InOrder(b)'
  BY <1>1 DEF InOrder, Planned, Answers
<1> QED
  BY <1>4, <1>5, <1>6, <1>7, <1>8, <1>9 DEF StampInv

\* What is read of the sources now is no earlier than a survey that is past.
LEMMA NowIsLater ==
    ASSUME NEW b \in Builders, StampInv(b), NEW s \in Services, NEW c \in Nat, c <= config
    PROVE  /\ Now(s, c) \in Readings
           /\ \A i \in Inputs : Now(s, c)[i] = disk[s][i]
           /\ Past(Now(s, c), s)
           /\ Planned(b) => Covers(Now(s, c), survey[b][s])
           /\ graphs[s] # NoGraph => AtLeast(Now(s, c), graphs[s])
<1> USE StampParts, StampShapes
<1>1. Now(s, c) \in Readings
  BY NowIsAReading
<1>2. \A i \in Inputs : Now(s, c)[i] = disk[s][i]
  BY PlanAssumption DEF Now, Versioned, Inputs
<1>3. Now(s, c)[Config] = c
  BY DEF Now, Versioned
<1>4. Past(Now(s, c), s)
  BY <1>2, <1>3 DEF Past, AtLeast
<1>5. Planned(b) => Covers(Now(s, c), survey[b][s])
  BY <1>2 DEF SurveysArePast, SurveySound, Covers, Within, Inputs
<1>6. graphs[s] # NoGraph => AtLeast(Now(s, c), graphs[s])
  BY <1>2 DEF GraphsArePast, Past, AtLeast
<1> QED
  BY <1>1, <1>2, <1>4, <1>5, <1>6

LEMMA ChildParsesKeeps ==
    ASSUME NEW b \in Builders, StampInv(b), Typed', NEW s \in Services, ChildParses(b, s)
    PROVE  StampInv(b)'
<1> USE StampParts, StampShapes
<1>1. /\ phase[b] = "reading" /\ task[b][s] = "todo" /\ ~Held(b, s)
      /\ UNCHANGED <<disk, config, cache, phase, run, graphs, facts, got, seen, sessions>>
  BY DEF ChildParses, Reads, disks, watch
<1>2. /\ reading' = [reading EXCEPT ![b][s] = Now(s, config)]
      /\ task' = [task EXCEPT ![b][s] = "parsed"]
  BY DEF ChildParses, Moves
<1>3. reading'[b][s] = Now(s, config) /\ task'[b][s] = "parsed"
  BY <1>2
<1>4. /\ \A i \in Inputs : Now(s, config)[i] = disk[s][i]
      /\ Past(Now(s, config), s)
      /\ Covers(Now(s, config), survey[b][s])
  BY <1>1, NowIsLater DEF Planned
<1>5. Past(graphs[s], s)' /\ Past(sessions[b][s], s)'
  BY <1>1 DEF GraphsArePast, SessionsAreAhead, Past
<1>6. ReadingSound(b, s)'
  BY <1>1, <1>3, <1>4 DEF ReadingSound, Past, run, Held
<1>7. DoneSound(b, s)'
  BY <1>1, <1>3 DEF DoneSound, DoneIsSound
<1>8. \A q \in Services \ {s} : task'[b][q] = task[b][q] /\ reading'[b][q] = reading[b][q]
  BY <1>2
<1> QED
  BY <1>1, <1>3, <1>5, <1>6, <1>7, <1>8, OneReadingKeeps

LEMMA ChildWritesKeeps ==
    ASSUME NEW b \in Builders, StampInv(b), Typed', NEW s \in Services, ChildWrites(b, s)
    PROVE  StampInv(b)'
<1> USE StampParts, StampShapes
<1>1. /\ phase[b] = "reading" /\ task[b][s] = "parsed"
      /\ UNCHANGED <<disk, config, cache, phase, run, facts, reading, got, seen, sessions>>
  BY DEF ChildWrites, Reads, watch
<1>2. /\ graphs' = [graphs EXCEPT ![s] = reading[b][s]]
      /\ task' = [task EXCEPT ![b][s] = "written"]
  BY DEF ChildWrites, Moves
<1>3. graphs'[s] = reading[b][s] /\ task'[b][s] = "written"
  BY <1>2
<1>4. ReadingSound(b, s) /\ DoneSound(b, s)
  BY DEF ReadingsAreSound, DoneIsSound
<1>5. Past(graphs[s], s)' /\ Past(sessions[b][s], s)'
  BY <1>1, <1>3, <1>4 DEF ReadingSound, SessionsAreAhead, Past
<1>6. ReadingSound(b, s)'
  BY <1>1, <1>3, <1>4 DEF ReadingSound, Past, run, Held
<1>7. DoneSound(b, s)'
  BY <1>1, <1>3, <1>4 DEF DoneSound
<1>8. \A q \in Services \ {s} : task'[b][q] = task[b][q] /\ graphs'[q] = graphs[q]
  BY <1>2
<1>9. ~Held(b, s)
  BY <1>1, <1>4 DEF ReadingSound
<1> QED
  BY <1>1, <1>3, <1>5, <1>6, <1>7, <1>8, <1>9, OneReadingKeeps

LEMMA ChildStampsKeeps ==
    ASSUME PlainSaves, NEW b \in Builders, StampInv(b), Typed', NEW s \in Services,
           ChildStamps(b, s)
    PROVE  StampInv(b)'
<1> USE StampParts, StampShapes
<1>1. /\ phase[b] = "reading" /\ task[b][s] = "written"
      /\ UNCHANGED <<disk, config, cache, phase, run, graphs, reading, got, seen, sessions>>
  BY DEF ChildStamps, Reads, watch
<1>2. /\ facts' = [facts EXCEPT ![s] = [files |-> [f \in Files |-> ChildStamp(b, s, f)],
                                        packages |-> disk[s][Installed], wants |-> TRUE]]
      /\ task' = [task EXCEPT ![b][s] = "stamped"]
  BY DEF ChildStamps, Moves
<1>3. /\ facts'[s].files = [f \in Files |-> ChildStamp(b, s, f)]
      /\ facts'[s].packages = disk[s][Installed]
      /\ task'[b][s] = "stamped"
  BY <1>2
<1>4. ReadingSound(b, s) /\ DoneSound(b, s)
  BY DEF ReadingsAreSound, DoneIsSound
<1>5. Past(graphs[s], s)' /\ Past(sessions[b][s], s)'
  BY <1>1 DEF GraphsArePast, SessionsAreAhead, Past
<1>6. ReadingSound(b, s)'
  <2>1. \A f \in Files : ChildStamp(b, s, f) <= reading[b][s][f]
    <3> SUFFICES ASSUME NEW f \in Files PROVE ChildStamp(b, s, f) <= reading[b][s][f]
      OBVIOUS
    <3>1. reading[b][s][f] = disk[s][f] /\ disk[s][f] \in Nat
      BY <1>1, <1>4 DEF ReadingSound, Inputs
    <3> QED
      BY <3>1 DEF ChildStamp, StampNow, Vanished
  <2>2. disk[s][Installed] <= Last[Installed]
    BY DEF DiskInRange, Inputs
  <2>3. Within(facts'[s].files, facts'[s].packages, reading[b][s])
    BY <1>3, <2>1, <2>2 DEF Within
  <2> QED
    BY <1>1, <1>3, <1>4, <2>3 DEF ReadingSound, Past, run, Held
<1>7. DoneSound(b, s)'
  BY <1>1, <1>3, <1>4 DEF DoneSound
<1>8. \A q \in Services \ {s} : task'[b][q] = task[b][q] /\ facts'[q] = facts[q]
  BY <1>2
<1>9. ~Held(b, s)
  BY <1>1, <1>4 DEF ReadingSound
<1> QED
  BY <1>1, <1>3, <1>5, <1>6, <1>7, <1>8, <1>9, OneReadingKeeps
LEMMA CollectKeeps ==
    ASSUME NEW b \in Builders, StampInv(b), Typed', NEW s \in Services, Collect(b, s)
    PROVE  StampInv(b)'
<1> USE StampParts, StampShapes
<1>1. /\ phase[b] = "reading" /\ task[b][s] = "stamped" /\ graphs[s] # NoGraph
      /\ UNCHANGED <<disk, config, cache, phase, run, graphs, facts, reading, sessions>>
  BY DEF Collect, Reads, disks, watch
<1>2. /\ got' = [got EXCEPT ![b][s] = graphs[s]]
      /\ seen' = [seen EXCEPT ![b][s] = facts[s]]
      /\ task' = [task EXCEPT ![b][s] = "done"]
  BY DEF Collect, Moves
<1>3. got'[b][s] = graphs[s] /\ seen'[b][s] = facts[s] /\ task'[b][s] = "done"
  BY <1>2
<1>4. ReadingSound(b, s)
  BY DEF ReadingsAreSound
<1>5. Past(graphs[s], s)' /\ Past(sessions[b][s], s)'
  BY <1>1 DEF GraphsArePast, SessionsAreAhead, Past
<1>6. ReadingSound(b, s)'
  BY <1>3 DEF ReadingSound
<1>7. DoneSound(b, s)'
  <2>1. graphs[s] = reading[b][s]
    BY <1>1, <1>4 DEF ReadingSound
  <2> QED
    BY <1>1, <1>3, <1>4, <2>1 DEF ReadingSound, DoneSound, Past, run
<1>8. \A q \in Services \ {s} : /\ task'[b][q] = task[b][q] /\ got'[b][q] = got[b][q]
                                /\ seen'[b][q] = seen[b][q]
  BY <1>2
<1>9. ~Held(b, s)
  BY <1>1, <1>4 DEF ReadingSound
<1> QED
  BY <1>1, <1>3, <1>5, <1>6, <1>7, <1>8, <1>9, OneReadingKeeps

\* A repository that is held open is read again, whole or where it moved, from
\* no earlier than the survey and no earlier than its last graph.
LEMMA WarmIsLater ==
    ASSUME PlainSaves, NEW b \in Builders, StampInv(b), NEW s \in Services,
           Reads(b, s, "todo"), Held(b, s), NEW r \in WarmReadings(b, s)
    PROVE  /\ r \in Readings
           /\ Past(r, s)
           /\ Covers(r, survey[b][s])
           /\ graphs[s] # NoGraph => AtLeast(r, graphs[s])
<1> USE StampParts, StampShapes
<1> DEFINE e == Entry(b, s)
           v == survey[b][s]
           moved == Refreshed(Touched(e, v))
<1>1. sessions[b][s] \in Readings /\ Past(sessions[b][s], s)
  BY DEF Reads, SessionsAreAhead
<1>2. sessions[b][s] # NoGraph
  BY <1>1, PlanAssumption DEF NoGraph
<1>3. sessions[b][s][Config] \in Nat /\ sessions[b][s][Config] <= config
  BY <1>1, <1>2 DEF Past, Readings, Versioned
<1>4. Planned(b) /\ v \in Surveys
  BY DEF Planned, Reads
<1>5. CASE r = Whole(b, s)
  BY <1>3, <1>4, <1>5, NowIsLater DEF Whole
<1>6. CASE Plan(b, s) = "partial" /\ r = Part(b, s)
  <2>1. moved \subseteq Files
    BY DEF Refreshed, Touched
  <2>2. /\ r \in [Versioned -> Nat]
        /\ \A i \in Versioned : r[i] = IF i \in moved THEN disk[s][i] ELSE sessions[b][s][i]
    BY <1>1, <1>6, <2>1 DEF Part, Readings, Inputs
  <2>3. r[Config] = sessions[b][s][Config]
    BY <2>1, <2>2, PlanAssumption DEF Versioned
  <2>4. \A i \in Inputs : disk[s][i] \in Nat /\ sessions[b][s][i] \in Nat
        /\ sessions[b][s][i] <= disk[s][i]
    BY <1>1, <1>2 DEF Past, AtLeast, Readings, Versioned
  <2>5. ASSUME NEW i \in Inputs PROVE sessions[b][s][i] <= r[i] /\ r[i] <= disk[s][i]
    <3>1. r[i] = disk[s][i] \/ r[i] = sessions[b][s][i]
      BY <2>2 DEF Versioned
    <3> QED
      BY <2>4, <3>1
  <2>6. Past(r, s)
    BY <1>3, <2>3, <2>5 DEF Past, AtLeast
  <2>7. graphs[s] # NoGraph => AtLeast(r, graphs[s])
    <3> SUFFICES ASSUME graphs[s] # NoGraph, NEW i \in Inputs PROVE graphs[s][i] <= r[i]
      BY DEF AtLeast
    <3>1. graphs[s][i] <= sessions[b][s][i]
      BY DEF SessionsAreAhead, AtLeast, Reads
    <3>2. graphs[s][i] \in Nat /\ r[i] \in Nat
      BY <2>2 DEF MaybeReading, Readings, Versioned
    <3> QED
      BY <2>4, <2>5, <3>1, <3>2
  <2>8. e \in Entries \union {NoEntry} /\ EntrySound(e)
    BY EntryTyped DEF Entry, EntryIn, CacheSound, EntrySound
  <2>9. SurveySound(v, s)
    BY <1>4 DEF SurveysArePast
  <2>10. ~Untrusted(e, v, s \in StandIns)
    BY <1>6 DEF Plan, PlanOne
  <2>11. e \in Entries /\ e.graph = v.graph /\ v.graph # NoGraph /\ e.around = v.around
    BY <1>4, <2>8, <2>9, <2>10, Trusted
  <2>12. e # NoEntry
    BY <2>10 DEF Untrusted
  <2>13. AtLeast(sessions[b][s], v.graph) /\ v.graph \in Readings
    BY <1>4, <2>11 DEF TodoIsAsSurveyed, Surveys, MaybeReading
  <2>14. Within(e.files, e.packages, v.graph) /\ e.around <= v.graph[Around]
    BY <2>8, <2>11, <2>12 DEF EntrySound
  <2>15. \A i \in Inputs : v.graph[i] \in Nat /\ v.graph[i] <= sessions[b][s][i]
    BY <2>13 DEF AtLeast, Readings, Versioned
  <2>16. ASSUME NEW f \in Files PROVE v.files[f] <= r[f]
    <3>1. f \in Inputs /\ f \in Versioned /\ r[f] \in Nat
      BY <2>2 DEF Inputs, Versioned
    <3>2. CASE f \in moved
      BY <2>2, <2>9, <3>1, <3>2 DEF SurveySound, Within
    <3>3. CASE f \notin moved
      <4>1. v.files[f] = e.files[f] /\ e.files[f] \in Nat
        BY <1>4, <2>8, <2>9, <2>11, <2>12, <3>3, Untouched DEF Refreshed
      <4>2. e.files[f] <= v.graph[f]
        BY <2>14 DEF Within
      <4>3. v.graph[f] \in Nat /\ v.graph[f] <= sessions[b][s][f]
        BY <2>15, <3>1
      <4>4. sessions[b][s][f] \in Nat /\ sessions[b][s][f] <= r[f]
        BY <2>4, <2>5, <3>1
      <4> QED
        BY ONLY <3>1, <4>1, <4>2, <4>3, <4>4
    <3> QED
      BY <3>2, <3>3
  <2>17. v.around <= r[Around]
    <3>1. Around \in Inputs /\ r[Around] \in Nat /\ v.around \in Nat
      BY <1>4, <2>2 DEF Inputs, Versioned, Surveys
    <3> QED
      BY <2>4, <2>5, <2>11, <2>14, <2>15, <3>1
  <2> QED
    BY <2>2, <2>6, <2>7, <2>16, <2>17 DEF Covers, Readings
<1> QED
  BY <1>5, <1>6 DEF WarmReadings

LEMMA WarmReadsKeeps ==
    ASSUME PlainSaves, NEW b \in Builders, StampInv(b), Typed', NEW s \in Services, WarmReads(b, s)
    PROVE  StampInv(b)'
<1> USE StampParts, StampShapes
<1>1. /\ phase[b] = "reading" /\ task[b][s] = "todo" /\ Held(b, s)
      /\ UNCHANGED <<disk, config, cache, phase, run, graphs, facts, got, seen>>
  BY DEF WarmReads, Reads, disks
<1>2. PICK r \in WarmReadings(b, s) :
          /\ sessions' = [sessions EXCEPT ![b][s] = r]
          /\ reading' = [reading EXCEPT ![b][s] = r]
  BY DEF WarmReads
<1>3. task' = [task EXCEPT ![b][s] = "read"]
  BY DEF WarmReads, Moves
<1>4. sessions'[b][s] = r /\ reading'[b][s] = r /\ task'[b][s] = "read"
  BY <1>2, <1>3
<1>5. /\ Past(r, s) /\ Covers(r, survey[b][s])
      /\ graphs[s] # NoGraph => AtLeast(r, graphs[s])
  BY WarmIsLater DEF WarmReads
<1>6. Past(graphs[s], s)' /\ Past(sessions[b][s], s)'
  BY <1>1, <1>4, <1>5 DEF GraphsArePast, Past
<1>7. ReadingSound(b, s)'
  BY <1>1, <1>4, <1>5 DEF ReadingSound, Past, run, Held
<1>8. DoneSound(b, s)'
  BY <1>1, <1>4 DEF DoneSound, DoneIsSound
<1>9. \A q \in Services \ {s} : /\ task'[b][q] = task[b][q] /\ reading'[b][q] = reading[b][q]
                                /\ sessions'[b][q] = sessions[b][q]
  BY <1>2, <1>3
<1> QED
  BY <1>1, <1>4, <1>5, <1>6, <1>7, <1>8, <1>9, OneReadingKeeps

LEMMA WarmWritesKeeps ==
    ASSUME PlainSaves, NEW b \in Builders, StampInv(b), Typed', NEW s \in Services, WarmWrites(b, s)
    PROVE  StampInv(b)'
<1> USE StampParts, StampShapes
<1>1. /\ phase[b] = "reading" /\ task[b][s] = "read"
      /\ UNCHANGED <<disk, config, cache, phase, run, facts, reading, sessions>>
  BY DEF WarmWrites, Reads, watch
<1>2. /\ graphs' = [graphs EXCEPT ![s] = reading[b][s]]
      /\ got' = [got EXCEPT ![b][s] = reading[b][s]]
      /\ seen' = [seen EXCEPT ![b][s] = [files |-> [f \in Files |-> WarmStamp(b, s, f)],
                                         packages |-> disk[s][Installed], wants |-> TRUE]]
      /\ task' = [task EXCEPT ![b][s] = "done"]
  BY DEF WarmWrites, Moves
<1>3. /\ graphs'[s] = reading[b][s] /\ got'[b][s] = reading[b][s] /\ task'[b][s] = "done"
      /\ seen'[b][s].files = [f \in Files |-> WarmStamp(b, s, f)]
      /\ seen'[b][s].packages = disk[s][Installed]
  BY <1>2
<1>4. ReadingSound(b, s)
  BY DEF ReadingsAreSound
<1>5. /\ Held(b, s) /\ reading[b][s] = sessions[b][s] /\ reading[b][s] \in Readings
      /\ Past(reading[b][s], s) /\ Covers(reading[b][s], survey[b][s])
  BY <1>1, <1>4 DEF ReadingSound
<1>6. reading[b][s] # NoGraph
  BY <1>5, PlanAssumption DEF NoGraph
<1>7. Past(graphs[s], s)' /\ Past(sessions[b][s], s)'
  BY <1>1, <1>3, <1>5 DEF Past
<1>8. AtLeast(sessions'[b][s], graphs'[s])
  BY <1>1, <1>3, <1>5 DEF AtLeast, Readings, Versioned
<1>9. ReadingSound(b, s)'
  BY <1>3 DEF ReadingSound
<1>10. Within(seen'[b][s].files, seen'[b][s].packages, reading[b][s])
  <2>1. ASSUME NEW f \in Files PROVE WarmStamp(b, s, f) <= reading[b][s][f]
    <3>1. reading[b][s][f] \in Nat
      BY <1>5 DEF Readings, Versioned, Inputs
    <3>2. survey[b][s] \in Surveys /\ SurveySound(survey[b][s], s)
      BY <1>1 DEF SurveysArePast, Planned
    <3>3. survey[b][s].files[f] \in Nat \union {Vanished} /\ survey[b][s].files[f] <= disk[s][f]
      BY <3>2 DEF Surveys, Stamps, SurveySound, Within
    <3>4. CASE ~Holds(reading[b][s], f)
      BY <3>1, <3>4 DEF WarmStamp
    <3>5. CASE Holds(reading[b][s], f) /\ Text[f][survey[b][s].files[f]] # Missing
      BY <1>5, <3>5 DEF WarmStamp, Covers
    <3>6. CASE Holds(reading[b][s], f) /\ Text[f][survey[b][s].files[f]] = Missing
      <4>1. disk[s][f] \in Nat /\ disk[s][f] <= Last[f] /\ Last[f] \in Nat
        BY PlanAssumption DEF DiskInRange, Inputs, Versioned
      <4>2. survey[b][s].files[f] \in Revisions(f)
        BY <3>2, <3>3, <4>1 DEF SurveySound, Revisions
      <4> QED
        BY <3>6, <4>2 DEF PlainSaves
    <3> QED
      BY <3>4, <3>5, <3>6
  <2>2. disk[s][Installed] <= Last[Installed]
    BY DEF DiskInRange, Inputs
  <2> QED
    BY <1>3, <2>1, <2>2 DEF Within
<1>11. DoneSound(b, s)'
  BY <1>1, <1>3, <1>5, <1>6, <1>10 DEF DoneSound, Past, run
<1>12. \A q \in Services \ {s} : /\ task'[b][q] = task[b][q] /\ graphs'[q] = graphs[q]
                                 /\ got'[b][q] = got[b][q] /\ seen'[b][q] = seen[b][q]
  BY <1>2
<1> QED
  BY <1>1, <1>3, <1>7, <1>8, <1>9, <1>11, <1>12, OneReadingKeeps

LEMMA ReadingEndsKeeps ==
    ASSUME NEW b \in Builders, StampInv(b), Typed', NEW s \in Services,
           WarmDrops(b, s) \/ ReadFails(b, s)
    PROVE  StampInv(b)'
<1> USE StampParts, StampShapes
<1>1. /\ phase[b] = "reading" /\ task[b][s] \in {"todo", "parsed", "written", "stamped", "read"}
      /\ UNCHANGED <<disk, config, cache, phase, run, graphs, facts, reading, got, seen, sessions>>
  BY DEF WarmDrops, ReadFails, Reads, disks, watch
<1>2. \E to \in {"dead", "failed"} : task' = [task EXCEPT ![b][s] = to]
  BY DEF WarmDrops, ReadFails, Moves
<1>3. task'[b][s] \in {"dead", "failed"}
  BY <1>2
<1>4. Past(graphs[s], s)' /\ Past(sessions[b][s], s)'
  BY <1>1 DEF GraphsArePast, SessionsAreAhead, Past
<1>5. Held(b, s) /\ graphs'[s] # NoGraph => AtLeast(sessions'[b][s], graphs'[s])
  BY <1>1 DEF SessionsAreAhead
<1>6. ReadingSound(b, s)'
  BY <1>3 DEF ReadingSound
<1>7. DoneSound(b, s)'
  BY <1>1, <1>3 DEF DoneSound, DoneIsSound
<1>8. \A q \in Services \ {s} : task'[b][q] = task[b][q]
  BY <1>2
<1> QED
  BY <1>1, <1>3, <1>4, <1>5, <1>6, <1>7, <1>8, OneReadingKeeps
LEMMA ReturningKeeps ==
    ASSUME NEW b \in Builders, StampInv(b), Typed', NEW to \in {"off", "idle"}, Returns(b, to),
           UNCHANGED <<disk, config, graphs, facts>>, CacheSound(cache)',
           \A s \in Services : sessions'[b][s] = sessions[b][s] \/ sessions'[b][s] = NoSession,
           \A s \in Services : Held(b, s) /\ to # "off" =>
               phase[b] # "off" /\ sessions'[b][s] = sessions[b][s]
    PROVE  StampInv(b)'
<1> USE StampParts, StampShapes DEF Returns
<1>1. /\ phase'[b] = to /\ known'[b] = NoCache
      /\ \A s \in Services : task'[b][s] = "todo" /\ got'[b][s] = NoGraph
  BY DEF NewTasks, NoReadings
<1>2. ~Planned(b)'
  BY <1>1 DEF Planned, Answers
<1>3. DiskInRange' /\ GraphsArePast' /\ CacheSound(known[b])'
  BY <1>1 DEF DiskInRange, GraphsArePast, Past, CacheSound
<1>4. SessionsAreAhead(b)'
  BY <1>1 DEF SessionsAreAhead, Past, Held, NoSession, NoGraph
<1>5. SurveysArePast(b)' /\ TodoIsAsSurveyed(b)'
  BY <1>2 DEF SurveysArePast, TodoIsAsSurveyed, Reads, Planned
<1>6. ReadingsAreSound(b)' /\ DoneIsSound(b)'
  BY <1>1 DEF ReadingsAreSound, ReadingSound, DoneIsSound, DoneSound
<1>7. InOrder(b)'
  <2>1. ask'[b].selected = Services
    <3>1. ask \in [Builders -> [selected : SUBSET Services, noCache : BOOLEAN]]
      BY DEF StampInv, Typed, TypeOK
    <3> QED
      BY <3>1 DEF AllOf
  <2> QED
    BY <1>1, <1>2, <2>1 DEF InOrder, Planned
<1> QED
  BY <1>3, <1>4, <1>5, <1>6, <1>7 DEF StampInv

\* What is remembered of a repository stamps nothing later than its graph.
LEMMA RememberedIsSound ==
    ASSUME NEW b \in Builders, StampInv(b), Answers(b), NEW s \in Services, got[b][s] # NoGraph
    PROVE  EntrySound(EntryFrom(b, s))
<1> USE StampParts, StampShapes
<1> DEFINE e == EntryFrom(b, s)
           r == got[b][s]
           v == survey[b][s]
<1>1. /\ graphs[s] \in {r, NoGraph} /\ Past(r, s) /\ Covers(r, v)
      /\ seen[b][s] # NoFacts => Within(seen[b][s].files, seen[b][s].packages, r)
  BY DEF DoneIsSound, DoneSound
<1>2. SurveySound(v, s) /\ v \in Surveys
  BY DEF SurveysArePast, Planned
<1>3. \A i \in Inputs : /\ r[i] \in Nat /\ disk[s][i] \in Nat /\ Last[i] \in Nat
                        /\ r[i] <= disk[s][i] /\ disk[s][i] <= Last[i]
  <2>1. r \in Readings
    BY DEF MaybeReading
  <2> QED
    BY <1>1, <2>1, PlanAssumption DEF Past, AtLeast, DiskInRange, Readings, Versioned
<1>4. InRange(r)
  <2>1. r[Config] \in Nat /\ r[Config] <= config /\ config <= Last[Config] /\ Last[Config] \in Nat
    BY <1>1, PlanAssumption DEF Past, DiskInRange, MaybeReading, Readings, Versioned
  <2>2. \A i \in Inputs : r[i] <= Last[i]
    BY <1>3
  <2> QED
    BY <2>1, <2>2 DEF InRange, Versioned
<1>5. /\ e.files = IF seen[b][s] = NoFacts THEN v.files ELSE seen[b][s].files
      /\ e.packages = IF seen[b][s] = NoFacts THEN v.packages ELSE seen[b][s].packages
      /\ e.around = v.around
      /\ e.graph = graphs[s]
  BY DEF EntryFrom
<1>6. Within(e.files, e.packages, r)
  <2>1. CASE seen[b][s] = NoFacts
    BY <1>1, <1>2, <1>5, <2>1 DEF Covers, SurveySound, Within
  <2>2. CASE seen[b][s] # NoFacts
    BY <1>1, <1>5, <2>2
  <2> QED
    BY <2>1, <2>2
<1>7. \A f \in Files : e.files[f] \in Nat \union {Vanished}
  BY <1>2, <1>5 DEF Facts, Surveys, Stamps
<1>8. Within(e.files, e.packages, Last)
  <2>1. ASSUME NEW f \in Files PROVE e.files[f] <= Last[f]
    <3>1. e.files[f] <= r[f]
      BY <1>6 DEF Within
    <3>2. r[f] \in Nat /\ disk[s][f] \in Nat /\ Last[f] \in Nat /\ r[f] <= disk[s][f]
          /\ disk[s][f] <= Last[f]
      BY <1>3 DEF Inputs
    <3>3. e.files[f] \in Nat \/ e.files[f] = -1
      BY <1>7 DEF Vanished
    <3> QED
      BY ONLY <3>1, <3>2, <3>3
  <2> QED
    BY <1>6, <2>1 DEF Within
<1>9. e.around <= r[Around] /\ e.around <= Last[Around]
  <2>1. v.around \in Nat
    BY <1>2 DEF Surveys
  <2> QED
    BY <1>1, <1>3, <1>5, <2>1 DEF Covers, Inputs
<1> QED
  BY <1>1, <1>4, <1>5, <1>6, <1>8, <1>9 DEF EntrySound

LEMMA EndsKeep ==
    ASSUME NEW b \in Builders, StampInv(b), Typed',
           Abandon(b) \/ SaveCache(b) \/ Throw(b) \/ Crash(b)
    PROVE  StampInv(b)'
<1> USE StampParts, StampShapes
<1>1. UNCHANGED <<disk, config, graphs, facts>>
  BY DEF Abandon, SaveCache, Throw, Crash, disks
<1>2. CASE Abandon(b) \/ Throw(b)
  <2>1. Returns(b, "idle") /\ UNCHANGED <<cache, sessions>> /\ phase[b] # "off"
    BY <1>2 DEF Abandon, Throw, disks, watch
  <2> QED
    BY <1>1, <2>1, ReturningKeeps
<1>3. CASE SaveCache(b)
  <2>1. Returns(b, "idle") /\ UNCHANGED sessions /\ phase[b] # "off"
        /\ cache' = NextCache(b) /\ Answers(b)
    BY <1>3 DEF SaveCache, watch, Answers
  <2>2. CacheSound(NextCache(b))
    <3>1. ASSUME NEW s \in Services PROVE EntrySound(NextEntry(b, s))
      BY <2>1, RememberedIsSound DEF NextEntry, EntrySound
    <3> QED
      BY <3>1 DEF CacheSound, NextCache
  <2>3. CacheSound(cache)'
    BY <2>1, <2>2
  <2> QED
    BY <1>1, <2>1, <2>3, ReturningKeeps
<1>4. CASE Crash(b)
  <2>1. /\ \E to \in {"off", "idle"} : Returns(b, to) /\ (b \in Watchers => to = "off")
        /\ UNCHANGED cache
        /\ \A s \in Services : sessions'[b][s] = NoSession
    BY <1>4 DEF Crash, disks
  <2> QED
    BY <1>1, <2>1, ReturningKeeps DEF Held
<1> QED
  BY <1>2, <1>3, <1>4

LEMMA InitStamps ==
    ASSUME NEW b \in Builders, Init PROVE StampInv(b)
<1> USE DEF Init
<1>1. DiskInRange
  BY PlanAssumption DEF DiskInRange, Versioned
<1>2. GraphsArePast /\ CacheSound(cache) /\ CacheSound(known[b])
  BY DEF GraphsArePast, Past, NoReadings, CacheSound
<1>3. SessionsAreAhead(b) /\ SurveysArePast(b) /\ TodoIsAsSurveyed(b)
  BY DEF SessionsAreAhead, Past, NoReadings, NoSession, NoGraph, SurveysArePast, Planned, Answers,
         TodoIsAsSurveyed, Reads
<1>4. ReadingsAreSound(b) /\ DoneIsSound(b)
  BY DEF ReadingsAreSound, ReadingSound, DoneIsSound, DoneSound, NewTasks, NoReadings
<1>5. InOrder(b)
  BY DEF InOrder, Planned, Answers, NewTasks, AllOf
<1> QED
  BY InitTyped, <1>1, <1>2, <1>3, <1>4, <1>5 DEF StampInv

LEMMA StampStep ==
    ASSUME PlainSaves, NEW b \in Builders, Alone(b), StampInv(b), [Next]_vars
    PROVE  StampInv(b)'
<1>0. Typed'
  BY StepTyped DEF StampInv
<1>1. CASE World
  BY <1>1, WorldKeeps
<1>2. ASSUME NEW a \in Builders, BuildStep(a) PROVE StampInv(b)'
  <2>0. a = b
    BY DEF Alone
  <2>1. CASE OpenWatch(a) \/ Reload(a)
    BY <1>0, <2>0, <2>1, OpeningKeeps
  <2>2. CASE Listen(a) \/ Told(a)
    <3>1. /\ UNCHANGED <<disk, config, graphs, facts, cache>>
          /\ UNCHANGED <<phase, run, readers, sessions>>
      BY <2>2 DEF Listen, Told, disks
    <3> QED
      BY <1>0, <3>1, StillKeeps
  <2>3. CASE \E selected \in Selections, noCache \in BOOLEAN : Begin(a, selected, noCache)
    BY <1>0, <2>0, <2>3, BeginKeeps
  <2>4. CASE Survey(a)
    BY <1>0, <2>0, <2>4, SurveyKeeps
  <2>5. ASSUME NEW s \in Services, ReadStep(a, s) PROVE StampInv(b)'
    BY <1>0, <2>0, <2>5, ReuseKeeps, MissingGraphKeeps, ChildParsesKeeps, ChildWritesKeeps,
       ChildStampsKeeps, CollectKeeps, WarmReadsKeeps, WarmWritesKeeps,
       ReadingEndsKeeps DEF ReadStep
  <2>6. CASE Link(a) \/ WriteStep(a)
    BY <1>0, <2>0, <2>6, AnswerKeeps
  <2>7. CASE Abandon(a) \/ SaveCache(a) \/ Throw(a) \/ Crash(a)
    BY <1>0, <2>0, <2>7, EndsKeep
  <2> QED
    BY <1>2, <2>1, <2>2, <2>3, <2>4, <2>5, <2>6, <2>7 DEF BuildStep, WriteStep
<1>3. CASE UNCHANGED vars
  <2>1. /\ UNCHANGED <<disk, config, graphs, facts, cache>>
        /\ UNCHANGED <<phase, run, readers, sessions>>
    BY <1>3 DEF vars, disks, watch
  <2> QED
    BY <1>0, <2>1, StillKeeps
<1> QED
  BY <1>1, <1>2, <1>3 DEF Next

LEMMA StampsSound ==
    ASSUME PlainSaves, NEW b \in Builders, Alone(b), StampInv(b)
    PROVE  StampsNeverPassTheReading
<1> USE StampParts, StampShapes
<1> SUFFICES ASSUME cache # NoCache, NEW s \in Services,
                    cache.entries[s] # NoEntry, graphs[s] # NoGraph,
                    SameGraph(cache.entries[s].graph, graphs[s])
             PROVE  /\ \A f \in Files : cache.entries[s].files[f] <= graphs[s][f]
                    /\ cache.entries[s].packages # NoPackages =>
                           cache.entries[s].packages <= graphs[s][Installed]
                    /\ cache.entries[s].around <= graphs[s][Around]
  BY DEF StampsNeverPassTheReading
<1> DEFINE e == cache.entries[s]
<1>1. e \in Entries /\ EntrySound(e)
  BY DEF Caches, CacheSound
<1>2. graphs[s] \in Readings
  BY DEF MaybeReading
<1>3. InRange(graphs[s])
  <2>1. \A i \in Inputs : /\ graphs[s][i] \in Nat /\ disk[s][i] \in Nat /\ Last[i] \in Nat
                          /\ graphs[s][i] <= disk[s][i] /\ disk[s][i] <= Last[i]
    BY <1>2, PlanAssumption DEF GraphsArePast, Past, AtLeast, DiskInRange, Readings, Versioned
  <2>2. /\ graphs[s][Config] \in Nat /\ graphs[s][Config] <= config /\ config <= Last[Config]
        /\ Last[Config] \in Nat
    BY <1>2, PlanAssumption DEF GraphsArePast, Past, DiskInRange, Readings, Versioned
  <2>3. \A i \in Inputs : graphs[s][i] <= Last[i]
    BY <2>1
  <2> QED
    BY <2>2, <2>3 DEF InRange, Versioned
<1>4. e.graph = graphs[s]
  BY <1>1, <1>3, EqualGraphs DEF Entries, EntrySound
<1>5. Within(e.files, e.packages, graphs[s]) /\ e.around <= graphs[s][Around]
  BY <1>1, <1>4 DEF EntrySound
<1>6. e.packages # NoPackages => e.packages <= graphs[s][Installed]
  <2>1. e.packages \in Packages /\ graphs[s][Installed] \in Nat
    BY <1>1, <1>2 DEF Entries, Readings, Versioned, Inputs
  <2> QED
    BY <1>5, <2>1 DEF Within, Packages, PlainSaves
<1> QED
  BY <1>5, <1>6 DEF Within

LEMMA SkipsSound ==
    ASSUME PlainSaves, NEW b \in Builders, Alone(b), StampInv(b)
    PROVE  SkippedMeansCurrent
<1> USE StampParts, StampShapes
<1> SUFFICES ASSUME NEW s \in Services, Reads(b, s, "todo"), Plan(b, s) = "unchanged",
                    graphs[s] # NoGraph
             PROVE  /\ \A f \in Files : SameText(f, graphs[s][f], survey[b][s].files[f])
                    /\ survey[b][s].packages # NoPackages =>
                           SameText(Installed, graphs[s][Installed], survey[b][s].packages)
                    /\ SameText(Around, graphs[s][Around], survey[b][s].around)
  BY DEF SkippedMeansCurrent, Alone
<1> DEFINE e == Entry(b, s)
           v == survey[b][s]
<1>1. Plan(b, s) \in Skips
  BY DEF Skips
<1>2. /\ e \in Entries /\ e.graph = v.graph /\ e.graph # NoGraph /\ v.around = e.around
      /\ \A f \in Files : v.files[f] = e.files[f] /\ e.files[f] \in Nat
      /\ Covers(e.graph, v)
  BY <1>1, UnchangedMeans
<1>3. graphs[s] = v.graph
  BY <1>2 DEF TodoIsAsSurveyed
<1>4. graphs[s] \in Readings
  BY DEF MaybeReading
<1>5. v \in Surveys /\ SurveySound(v, s)
  BY DEF SurveysArePast, Planned, Reads
<1>6. ASSUME NEW f \in Files PROVE SameText(f, graphs[s][f], v.files[f])
  <2>1. graphs[s][f] <= v.files[f] /\ v.files[f] <= graphs[s][f]
    BY <1>2, <1>3, <1>5 DEF SurveySound, Covers
  <2>2. graphs[s][f] \in Nat /\ v.files[f] \in Nat
    BY <1>2, <1>4 DEF Readings, Versioned, Inputs
  <2>3. graphs[s][f] = v.files[f] /\ graphs[s][f] # -1
    BY ONLY <2>1, <2>2
  <2> QED
    BY ONLY <2>3 DEF SameText, Vanished
<1>7. SameText(Around, graphs[s][Around], v.around)
  <2>1. graphs[s][Around] <= v.around /\ v.around <= graphs[s][Around]
    BY <1>2, <1>3, <1>5 DEF SurveySound, Covers
  <2>2. graphs[s][Around] \in Nat /\ v.around \in Nat
    BY <1>4, <1>5 DEF Surveys, Readings, Versioned, Inputs
  <2>3. graphs[s][Around] = v.around /\ graphs[s][Around] # -1
    BY ONLY <2>1, <2>2
  <2> QED
    BY ONLY <2>3 DEF SameText, Vanished
<1>8. v.packages # NoPackages => SameText(Installed, graphs[s][Installed], v.packages)
  <2>1. graphs[s][Installed] \in Nat /\ v.packages \in Packages
    BY <1>4, <1>5 DEF Surveys, Readings, Versioned, Inputs
  <2>2. graphs[s][Installed] = 0
    <3>1. graphs[s][Installed] <= disk[s][Installed] /\ disk[s][Installed] <= Last[Installed]
      BY DEF GraphsArePast, Past, AtLeast, DiskInRange, Inputs
    <3> QED
      BY <2>1, <3>1 DEF PlainSaves, Inputs
  <2>3. v.packages # NoPackages => v.packages = 0
    BY <1>5, <2>1 DEF SurveySound, Within, PlainSaves, Packages
  <2> QED
    BY <2>2, <2>3 DEF SameText, Vanished
<1> QED
  BY <1>6, <1>7, <1>8

\* A cache entry that stands for the graph on disk never stamps an input later
\* than the graph read it, where one process builds everything each time, no
\* save brings back a text, creates or deletes a file or touches what is
\* installed, and none falls between a child's parse and its stamps.
THEOREM StampsAreSound ==
    ASSUME PlainSaves, NEW only \in Builders, Alone(only)
    PROVE  Spec => []StampsNeverPassTheReading
<1>1. Init => StampInv(only)
  BY InitStamps
<1>2. StampInv(only) /\ [Next]_vars => StampInv(only)'
  BY StampStep
<1>3. StampInv(only) => StampsNeverPassTheReading
  BY StampsSound
<1> QED
  BY <1>1, <1>2, <1>3, PTL DEF Spec

\* There, a repository that is skipped since nothing moved is answered by a graph
\* that was read from what the survey found: whatever failed, was abandoned,
\* was killed or was taken away before.
THEOREM SkippedIsCurrent ==
    ASSUME PlainSaves, NEW only \in Builders, Alone(only)
    PROVE  Spec => []SkippedMeansCurrent
<1>1. Init => StampInv(only)
  BY InitStamps
<1>2. StampInv(only) /\ [Next]_vars => StampInv(only)'
  BY StampStep
<1>3. StampInv(only) => SkippedMeansCurrent
  BY SkipsSound
<1> QED
  BY <1>1, <1>2, <1>3, PTL DEF Spec
-----------------------------------------------------------------------------
(***************************************************************************)
(* A quiet build is current: what was read is no earlier than what its     *)
(* build began with, inputs and, where it is settled, configuration.       *)
(***************************************************************************)

\* The configuration is not edited, or nothing is held open with an older one.
SettledConfig(b) == Last[Config] = 0 \/ \A s \in Services : ~Held(b, s)

\* A build began before its survey.
BeganBefore(b) ==
    /\ phase[b] = "begun" \/ Planned(b) =>
           /\ conf[b] <= config
           /\ began[b] \in [Services -> Readings]
           /\ \A s \in Services : began[b][s][Config] = conf[b] /\ AtLeast(disk[s], began[b][s])
    /\ Planned(b) => \A s \in Services :
           /\ \A f \in Files : began[b][s][f] <= survey[b][s].files[f]
           /\ began[b][s][Around] <= survey[b][s].around

\* What is remembered was read with the configuration it is remembered for, or
\* a later one.
Configured(c, settled) ==
    c # NoCache =>
        /\ c.config <= config
        /\ settled => \A s \in Services :
               c.entries[s] # NoEntry /\ c.entries[s].graph # NoGraph =>
                   c.config <= c.entries[s].graph[Config]

KnownIsOurs(b) == Planned(b) /\ known[b] # NoCache => known[b].config = conf[b]

\* And so is what this build has read.
ConfiguredReading(b, s) ==
    /\ task[b][s] \in {"parsed", "written", "stamped", "read"} => conf[b] <= reading[b][s][Config]
    /\ task[b][s] = "done" => conf[b] <= got[b][s][Config]

SinceInv(b, settled) ==
    /\ BeganBefore(b)
    /\ Configured(cache, settled)
    /\ Configured(known[b], settled)
    /\ KnownIsOurs(b)
    /\ settled => \A s \in Services : ConfiguredReading(b, s)

LEMMA QuietShapes ==
    ASSUME NEW b \in Builders, StampInv(b)
    PROVE  /\ conf \in [Builders -> Nat]
           /\ began \in [Builders -> [Services -> Readings] \union {NoBuild}]
BY DEF StampInv, Typed, TypeOK

\* What only moves the sources on, or a builder that is not building.
LEMMA SourcesMoveOn ==
    ASSUME NEW b \in Builders, NEW settled, StampInv(b), StampInv(b)', SinceInv(b, settled),
           UNCHANGED <<conf, began, survey, known, cache, task, reading, got>>,
           phase'[b] = phase[b] \/ phase'[b] = "reloaded",
           config' \in Nat, config <= config', \A s \in Services : AtLeast(disk'[s], disk[s])
    PROVE  SinceInv(b, settled)'
<1> USE StampShapes, QuietShapes DEF SinceInv
<1>1. (phase'[b] = "begun" => phase[b] = "begun") /\ (Planned(b)' => Planned(b))
  BY DEF Planned, Answers
<1>2. ASSUME phase[b] = "begun" \/ Planned(b), NEW s \in Services
      PROVE  AtLeast(disk'[s], began[b][s])
  <2>1. \A i \in Inputs : began[b][s][i] \in Nat /\ disk[s][i] \in Nat /\ disk'[s][i] \in Nat
    BY <1>2 DEF BeganBefore, Readings, Versioned, StampInv, Typed, TypeOK
  <2> QED
    BY <1>2, <2>1 DEF BeganBefore, AtLeast
<1>3. BeganBefore(b)'
  BY <1>1, <1>2 DEF BeganBefore
<1>4. Configured(cache, settled)' /\ Configured(known[b], settled)'
  <2>1. \A c \in Caches : c.config \in Nat
    BY DEF Caches
  <2> QED
    BY <2>1 DEF Configured
<1>5. KnownIsOurs(b)' /\ (settled => \A s \in Services : ConfiguredReading(b, s)')
  BY <1>1 DEF KnownIsOurs, ConfiguredReading
<1> QED
  BY <1>3, <1>4, <1>5

LEMMA BeginIsQuiet ==
    ASSUME NEW b \in Builders, NEW settled, StampInv(b), SinceInv(b, settled),
           NEW selected \in Selections,
           NEW noCache \in BOOLEAN, Begin(b, selected, noCache)
    PROVE  SinceInv(b, settled)'
<1> USE StampShapes, QuietShapes DEF SinceInv, Begin, disks, run, readers, watch
<1>1. /\ phase'[b] = "begun" /\ conf'[b] = config /\ began'[b] = Sources
      /\ UNCHANGED <<disk, config, cache, known, survey, task, reading, got>>
  OBVIOUS
<1>2. ~Planned(b)' /\ \A s \in Services : task'[b][s] = "todo"
  BY <1>1 DEF Planned, Answers, StampInv, InOrder
<1>3. BeganBefore(b)'
  <2>1. Sources \in [Services -> Readings]
    BY SourcesAreReadings DEF StampInv, Typed
  <2>2. \A s \in Services : Sources[s] = Now(s, config)
    BY DEF Sources
  <2>3. \A s \in Services : Sources[s][Config] = config
    BY <2>2 DEF Now, Versioned
  <2>4. \A s \in Services : AtLeast(disk[s], Sources[s])
    <3> SUFFICES ASSUME NEW s \in Services, NEW i \in Inputs PROVE Sources[s][i] <= disk[s][i]
      BY DEF AtLeast
    <3>0. config \in Nat /\ config <= config
      OBVIOUS
    <3>1. Now(s, config)[i] = disk[s][i]
      BY <3>0, NowIsLater
    <3>2. disk[s][i] \in Nat
      OBVIOUS
    <3> QED
      BY <2>2, <3>1, <3>2
  <2> QED
    BY <1>1, <1>2, <2>1, <2>3, <2>4 DEF BeganBefore
<1>4. Configured(cache, settled)' /\ Configured(known[b], settled)' /\ KnownIsOurs(b)'
  BY <1>1, <1>2 DEF Configured, KnownIsOurs
<1>5. settled => \A s \in Services : ConfiguredReading(b, s)'
  BY <1>2 DEF ConfiguredReading
<1> QED
  BY <1>3, <1>4, <1>5

LEMMA SurveyIsQuiet ==
    ASSUME PlainSaves, NEW b \in Builders, NEW settled, StampInv(b), SinceInv(b, settled), Survey(b)
    PROVE  SinceInv(b, settled)'
<1> USE StampShapes, QuietShapes DEF SinceInv, Survey, disks, readers, watch, history
<1>1. /\ phase[b] = "begun" /\ phase'[b] = "reading" /\ known'[b] = LoadedCache(b)
      /\ \A s \in Services : survey'[b][s] = Surveyed(s, EntryIn(LoadedCache(b), s))
      /\ UNCHANGED <<disk, config, cache, conf, began, task, reading, got>>
  OBVIOUS
<1>2. \A s \in Services : task'[b][s] = "todo"
  BY <1>1 DEF Planned, Answers, StampInv, InOrder
<1>3. BeganBefore(b)'
  <2>1. \A s \in Services : /\ survey'[b][s].files = [f \in Files |-> disk[s][f]]
                            /\ survey'[b][s].around = disk[s][Around]
    BY <1>1 DEF Surveyed
  <2>2. ASSUME NEW s \in Services
        PROVE  /\ \A f \in Files : began[b][s][f] <= survey'[b][s].files[f]
               /\ began[b][s][Around] <= survey'[b][s].around
    <3>1. AtLeast(disk[s], began[b][s])
      BY <1>1 DEF BeganBefore
    <3>2. \A f \in Files : survey'[b][s].files[f] = disk[s][f]
      BY <2>1
    <3> QED
      BY <2>1, <3>1, <3>2 DEF AtLeast, Inputs
  <2> QED
    BY <1>1, <2>2 DEF BeganBefore
<1>4. Configured(cache, settled)'
  BY <1>1 DEF Configured
<1>5. Configured(known[b], settled)' /\ KnownIsOurs(b)'
  <2>1. CASE LoadedCache(b) = NoCache
    BY <1>1, <2>1 DEF Configured, KnownIsOurs
  <2>2. CASE LoadedCache(b) # NoCache
    <3>1. LoadedCache(b) = cache /\ SameText(Config, cache.config, conf[b])
      BY <2>2 DEF LoadedCache
    <3>2. cache.config \in Nat /\ conf[b] \in Nat /\ Last[Config] \in Nat /\ Config \in Versioned
      BY <2>2, <3>1, PlanAssumption DEF Caches, Versioned
    <3>3. cache.config <= config /\ conf[b] <= config /\ config <= Last[Config]
      BY <1>1, <2>2, <3>1 DEF Configured, BeganBefore, StampInv, DiskInRange
    <3>4. cache.config <= Last[Config] /\ conf[b] <= Last[Config]
      BY <3>2, <3>3
    <3>5. cache.config = conf[b]
      BY <3>1, <3>2, <3>4, EqualText
    <3> QED
      BY <1>1, <3>1, <3>5 DEF Configured, KnownIsOurs
  <2> QED
    BY <2>1, <2>2
<1>6. settled => \A s \in Services : ConfiguredReading(b, s)'
  BY <1>2 DEF ConfiguredReading
<1> QED
  BY <1>3, <1>4, <1>5, <1>6

LEMMA ReadStepIsQuiet ==
    ASSUME PlainSaves, NEW b \in Builders, NEW settled, StampInv(b), settled => SettledConfig(b),
           SinceInv(b, settled),
           NEW s \in Services, ReadStep(b, s), StampInv(b)'
    PROVE  SinceInv(b, settled)'
<1> USE StampParts, StampShapes, QuietShapes DEF SinceInv
<1>1. /\ phase[b] = "reading"
      /\ UNCHANGED <<disk, config, cache, phase, conf, known, survey, began>>
  BY DEF ReadStep, Reuse, MissingGraph, ChildParses, ChildWrites, ChildStamps, Collect, WarmReads,
         WarmWrites, WarmDrops, ReadFails, Reads, disks, run, history
<1>2. BeganBefore(b)' /\ Configured(cache, settled)' /\ Configured(known[b], settled)'
      /\ KnownIsOurs(b)'
  BY <1>1 DEF BeganBefore, Configured, KnownIsOurs, Planned, Answers
<1>3. conf[b] \in Nat /\ conf[b] <= config
  BY <1>1 DEF BeganBefore, Planned
<1>4. ASSUME settled, NEW q \in Services PROVE ConfiguredReading(b, q)'
  <2>0. ConfiguredReading(b, q)
    BY <1>4
  <2>1. CASE Reuse(b, s)
    <3>1. /\ task' = [task EXCEPT ![b][s] = "done"] /\ reading' = reading
          /\ got' = [got EXCEPT ![b][s] = graphs[s]]
      BY <2>1 DEF Reuse, Moves
    <3>2. graphs[s] = Entry(b, s).graph /\ Entry(b, s) # NoEntry /\ graphs[s] # NoGraph
      BY <2>1, UnchangedMeans DEF Reuse, TodoIsAsSurveyed
    <3>3. known[b] # NoCache /\ Entry(b, s) = known[b].entries[s]
      BY <3>2 DEF Entry, EntryIn
    <3>4. conf[b] <= graphs[s][Config]
      BY <1>1, <1>4, <3>2, <3>3 DEF Configured, KnownIsOurs, Planned
    <3> QED
      BY <1>1, <2>0, <3>1, <3>4 DEF ConfiguredReading
  <2>2. CASE ChildParses(b, s)
    <3>1. /\ task' = [task EXCEPT ![b][s] = "parsed"] /\ got' = got
          /\ reading' = [reading EXCEPT ![b][s] = Now(s, config)]
      BY <2>2 DEF ChildParses, Moves
    <3>2. Now(s, config)[Config] = config
      BY DEF Now, Versioned
    <3> QED
      BY <1>1, <1>3, <2>0, <3>1, <3>2 DEF ConfiguredReading
  <2>3. CASE ChildWrites(b, s) \/ ChildStamps(b, s)
    <3>1. /\ task[b][s] \in {"parsed", "written"} /\ UNCHANGED <<got, reading>>
          /\ \E to \in {"written", "stamped"} : task' = [task EXCEPT ![b][s] = to]
      BY <2>3 DEF ChildWrites, ChildStamps, Moves, Reads
    <3> QED
      BY <1>1, <2>0, <3>1 DEF ConfiguredReading
  <2>4. CASE Collect(b, s) \/ WarmWrites(b, s)
    <3>1. /\ task[b][s] \in {"stamped", "read"} /\ reading' = reading
          /\ task' = [task EXCEPT ![b][s] = "done"]
          /\ got' = [got EXCEPT ![b][s] = reading[b][s]]
      <4>1. CASE Collect(b, s)
        <5>1. graphs[s] = reading[b][s]
          BY <4>1 DEF Collect, Reads, ReadingsAreSound, ReadingSound
        <5> QED
          BY <4>1, <5>1 DEF Collect, Moves, Reads
      <4>2. CASE WarmWrites(b, s)
        BY <4>2 DEF WarmWrites, Moves, Reads
      <4> QED
        BY <2>4, <4>1, <4>2
    <3> QED
      BY <1>1, <2>0, <3>1 DEF ConfiguredReading
  <2>5. CASE WarmReads(b, s)
    <3>1. Held(b, s) /\ got' = got /\ task' = [task EXCEPT ![b][s] = "read"]
      BY <2>5 DEF WarmReads, Moves
    <3>2. PICK r \in WarmReadings(b, s) : reading' = [reading EXCEPT ![b][s] = r]
      BY <2>5 DEF WarmReads
    <3>3. r[Config] \in Nat
      BY <2>5, WarmIsLater DEF WarmReads, Readings, Versioned
    <3>4. conf[b] <= r[Config]
      <4>1. config \in Nat /\ config <= 0
        BY <1>4, <3>1 DEF SettledConfig, DiskInRange
      <4> QED
        BY <1>3, <3>3, <4>1
    <3> QED
      BY <1>1, <2>0, <3>1, <3>2, <3>4 DEF ConfiguredReading
  <2>6. CASE MissingGraph(b, s)
    BY <1>1, <2>0, <2>6 DEF ConfiguredReading, MissingGraph
  <2>7. CASE WarmDrops(b, s) \/ ReadFails(b, s)
    <3>1. /\ UNCHANGED <<got, reading>>
          /\ \E to \in {"dead", "failed"} : task' = [task EXCEPT ![b][s] = to]
      BY <2>7 DEF WarmDrops, ReadFails, Moves
    <3> QED
      BY <1>1, <2>0, <3>1 DEF ConfiguredReading
  <2> QED
    BY <2>1, <2>2, <2>3, <2>4, <2>5, <2>6, <2>7 DEF ReadStep
<1> QED
  BY <1>2, <1>4

LEMMA AnswerIsQuiet ==
    ASSUME NEW b \in Builders, NEW settled, StampInv(b), SinceInv(b, settled),
           Link(b) \/ WriteStep(b)
    PROVE  SinceInv(b, settled)'
<1> USE StampShapes DEF SinceInv, Link, WriteStep, WriteGraph, WriteReport, RemoveDb, WriteDb,
        Write, disks, run, readers, watch, history
<1>1. UNCHANGED <<disk, config, cache, conf, began, survey, known, task, reading, got>>
  OBVIOUS
<1>2. Planned(b) /\ phase'[b] # "begun"
  BY DEF Planned, Answers
<1>3. BeganBefore(b)'
  BY <1>1, <1>2 DEF BeganBefore
<1>4. Configured(cache, settled)' /\ Configured(known[b], settled)' /\ KnownIsOurs(b)'
  BY <1>1, <1>2 DEF Configured, KnownIsOurs
<1>5. settled => \A s \in Services : ConfiguredReading(b, s)'
  BY <1>1 DEF ConfiguredReading
<1> QED
  BY <1>3, <1>4, <1>5

LEMMA EndsAreQuiet ==
    ASSUME NEW b \in Builders, NEW settled, StampInv(b), SinceInv(b, settled),
           Abandon(b) \/ SaveCache(b) \/ Throw(b) \/ Crash(b)
    PROVE  SinceInv(b, settled)'
<1> USE StampParts, StampShapes, QuietShapes DEF SinceInv
<1>1. UNCHANGED <<disk, config>> /\ \E to \in {"off", "idle"} : Returns(b, to)
  BY DEF Abandon, SaveCache, Throw, Crash, disks
<1>2. /\ phase'[b] \in {"off", "idle"} /\ known'[b] = NoCache
      /\ \A s \in Services : task'[b][s] = "todo"
  BY <1>1 DEF Returns, NewTasks
<1>3. ~Planned(b)' /\ phase'[b] # "begun"
  BY <1>2 DEF Planned, Answers
<1>4. BeganBefore(b)' /\ Configured(known[b], settled)' /\ KnownIsOurs(b)'
  BY <1>2, <1>3 DEF BeganBefore, Configured, KnownIsOurs
<1>5. settled => \A s \in Services : ConfiguredReading(b, s)'
  BY <1>2 DEF ConfiguredReading
<1>6. Configured(cache, settled)'
  <2>1. CASE Abandon(b) \/ Throw(b) \/ Crash(b)
    BY <1>1, <2>1 DEF Abandon, Throw, Crash, disks, Configured
  <2>2. CASE SaveCache(b)
    <3>1. cache' = NextCache(b) /\ Answers(b)
      BY <2>2 DEF SaveCache, Answers
    <3>2. cache'.config = conf[b] /\ \A s \in Services : cache'.entries[s] = NextEntry(b, s)
      BY <3>1 DEF NextCache
    <3>3. conf[b] <= config
      BY <3>1 DEF BeganBefore, Planned
    <3>4. ASSUME settled, NEW s \in Services, NextEntry(b, s) # NoEntry, NextEntry(b,
                 s).graph # NoGraph
          PROVE  conf[b] <= NextEntry(b, s).graph[Config]
      <4>1. got[b][s] # NoGraph /\ NextEntry(b, s).graph = graphs[s]
        BY <3>4 DEF NextEntry, EntryFrom
      <4>2. task[b][s] = "done" /\ graphs[s] = got[b][s]
        BY <3>4, <4>1 DEF DoneIsSound, DoneSound
      <4> QED
        BY <3>4, <4>1, <4>2 DEF ConfiguredReading
    <3> QED
      BY <1>1, <3>2, <3>3, <3>4 DEF Configured
  <2> QED
    BY <2>1, <2>2
<1> QED
  BY <1>4, <1>5, <1>6

LEMMA InitQuiet ==
    ASSUME NEW b \in Builders, NEW settled, Init PROVE SinceInv(b, settled)
BY DEF Init, SinceInv, BeganBefore, Planned, Answers, Configured, KnownIsOurs, ConfiguredReading,
   NewTasks

LEMMA QuietStepSound ==
    ASSUME PlainSaves, NEW b \in Builders, NEW settled, Alone(b), settled => SettledConfig(b),
           StampInv(b), SinceInv(b, settled),
           [Next]_vars
    PROVE  SinceInv(b, settled)'
<1>0. StampInv(b)'
  BY StampStep
<1> USE StampShapes
<1>00. config' \in Nat
  BY <1>0 DEF StampInv, Typed, TypeOK
<1>1. CASE World
  <2>1. UNCHANGED <<phase, conf, began, survey, known, cache, task, reading, got>>
    BY <1>1 DEF World, Save, SaveConfig, DropGraph, run, readers, history
  <2>2. config <= config'
    BY <1>1 DEF World, Save, SaveConfig, DropGraph
  <2>3. \A s \in Services : AtLeast(disk'[s], disk[s])
    <3>1. CASE disk' = disk
      BY <3>1 DEF AtLeast
    <3>2. ASSUME NEW s \in Services, NEW i \in Inputs,
                 disk' = [disk EXCEPT ![s][i] = disk[s][i] + 1]
          PROVE  \A q \in Services : AtLeast(disk'[q], disk[q])
      BY <3>2 DEF AtLeast
    <3> QED
      BY <1>1, <3>1, <3>2 DEF World, Save, SaveConfig, DropGraph
  <2> QED
    BY <1>0, <1>00, <2>1, <2>2, <2>3, SourcesMoveOn
<1>2. ASSUME NEW a \in Builders, BuildStep(a) PROVE SinceInv(b, settled)'
  <2>0. a = b
    BY DEF Alone
  <2>1. CASE OpenWatch(a) \/ Reload(a) \/ Listen(a) \/ Told(a)
    <3>1. /\ UNCHANGED <<disk, config, conf, began, survey, known, cache, task, reading, got>>
          /\ phase'[b] = phase[b] \/ phase'[b] = "reloaded"
      BY <2>0, <2>1 DEF OpenWatch, Reload, Listen, Told, disks, run, readers, history
    <3>2. config <= config' /\ \A s \in Services : AtLeast(disk'[s], disk[s])
      BY <3>1 DEF AtLeast
    <3> QED
      BY <1>0, <1>00, <3>1, <3>2, SourcesMoveOn
  <2>2. CASE \E selected \in Selections, noCache \in BOOLEAN : Begin(a, selected, noCache)
    BY <2>0, <2>2, BeginIsQuiet
  <2>3. CASE Survey(a)
    BY <2>0, <2>3, SurveyIsQuiet
  <2>4. ASSUME NEW s \in Services, ReadStep(a, s) PROVE SinceInv(b, settled)'
    BY <1>0, <2>0, <2>4, ReadStepIsQuiet
  <2>5. CASE Link(a) \/ WriteStep(a)
    BY <2>0, <2>5, AnswerIsQuiet
  <2>6. CASE Abandon(a) \/ SaveCache(a) \/ Throw(a) \/ Crash(a)
    BY <2>0, <2>6, EndsAreQuiet
  <2> QED
    BY <1>2, <2>1, <2>2, <2>3, <2>4, <2>5, <2>6 DEF BuildStep, WriteStep
<1>3. CASE UNCHANGED vars
  <2>1. UNCHANGED <<disk, config, phase, conf, began, survey, known, cache, task, reading, got>>
    BY <1>3 DEF vars, disks, run, readers, history
  <2>2. config <= config' /\ \A s \in Services : AtLeast(disk'[s], disk[s])
    BY <2>1 DEF AtLeast
  <2> QED
    BY <1>0, <1>00, <2>1, <2>2, SourcesMoveOn
<1> QED
  BY <1>1, <1>2, <1>3 DEF Next

LEMMA QuietSound ==
    ASSUME PlainSaves, NEW b \in Builders, Alone(b), StampInv(b), SinceInv(b, TRUE)
    PROVE  QuietBuildDescribesTheSources
<1> USE StampParts, StampShapes
<1> SUFFICES ASSUME Answers(b), began[b] = Sources, ~Failed(b), NEW s \in Services
             PROVE  SameReading(got[b][s], Now(s, config))
  BY DEF QuietBuildDescribesTheSources, Alone
<1> DEFINE r == got[b][s]
           v == survey[b][s]
<1>1. Planned(b) /\ task[b][s] = "done"
  BY DEF Planned, InOrder, Failed
<1>2. r # NoGraph /\ Past(r, s) /\ Covers(r, v) /\ conf[b] <= r[Config]
  BY <1>1 DEF DoneIsSound, DoneSound, SinceInv, ConfiguredReading
<1>3. r \in Readings
  BY <1>2 DEF MaybeReading
<1>4. SurveySound(v, s) /\ v \in Surveys
  BY <1>1 DEF SurveysArePast
<1>5. /\ \A i \in Inputs : Now(s, config)[i] = disk[s][i]
      /\ Now(s, config)[Config] = config
  <2>0. config \in Nat /\ config <= config
    OBVIOUS
  <2>1. \A i \in Inputs : Now(s, config)[i] = disk[s][i]
    BY <2>0, NowIsLater
  <2>2. Now(s, config)[Config] = config
    BY DEF Now, Versioned
  <2> QED
    BY <2>1, <2>2
<1>6. began[b][s] = Now(s, config)
  BY DEF Sources
<1>7. \A i \in Inputs : r[i] \in Nat /\ disk[s][i] \in Nat /\ r[i] <= disk[s][i]
  BY <1>2, <1>3 DEF Past, AtLeast, Readings, Versioned
<1>8. ASSUME NEW f \in Files PROVE r[f] = disk[s][f]
  <2>1. disk[s][f] <= v.files[f] /\ v.files[f] <= r[f] /\ v.files[f] \in Nat
    BY <1>1, <1>2, <1>4, <1>5, <1>6 DEF SinceInv, BeganBefore, SurveySound, Covers, Inputs
  <2>2. r[f] \in Nat /\ disk[s][f] \in Nat /\ r[f] <= disk[s][f]
    BY <1>7 DEF Inputs
  <2> QED
    BY ONLY <2>1, <2>2
<1>9. r[Around] = disk[s][Around]
  <2>1. disk[s][Around] <= v.around /\ v.around <= r[Around] /\ v.around \in Nat
    BY <1>1, <1>2, <1>4, <1>5, <1>6 DEF SinceInv, BeganBefore, Covers, Surveys, Inputs
  <2>2. r[Around] \in Nat /\ disk[s][Around] \in Nat /\ r[Around] <= disk[s][Around]
    BY <1>7 DEF Inputs
  <2> QED
    BY ONLY <2>1, <2>2
<1>10. r[Installed] = disk[s][Installed]
  <2>1. Installed \in Inputs /\ disk[s][Installed] <= 0
    BY DEF DiskInRange, PlainSaves, Inputs
  <2> QED
    BY <1>7, <2>1
<1>11. r[Config] = config
  <2>1. conf[b] = config
    BY <1>1, <1>5, <1>6 DEF SinceInv, BeganBefore
  <2>2. r[Config] \in Nat /\ r[Config] <= config
    BY <1>2, <1>3 DEF Past, Readings, Versioned
  <2>3. config \in Nat /\ conf[b] <= r[Config]
    BY <1>2
  <2> QED
    BY ONLY <2>1, <2>2, <2>3
<1>12. \A i \in Versioned : r[i] = Now(s, config)[i] /\ r[i] \in Nat
  BY <1>3, <1>5, <1>8, <1>9, <1>10, <1>11 DEF Versioned, Inputs, Readings
<1> QED
  BY <1>12 DEF SameReading, SameText, Vanished

\* There, and where the configuration stays as it was or nothing is held open
\* with an older one, a build that reads every repository while nothing is saved
\* answers with the sources as they are.
THEOREM QuietIsCurrent ==
    ASSUME PlainSaves, NEW only \in Builders, Alone(only), SettledConfig(only)
    PROVE  Spec => []QuietBuildDescribesTheSources
<1>1. Init => StampInv(only) /\ SinceInv(only, TRUE)
  BY InitStamps, InitQuiet
<1>2. StampInv(only) /\ SinceInv(only, TRUE) /\ [Next]_vars => StampInv(only)' /\ SinceInv(only,
      TRUE)'
  BY StampStep, QuietStepSound
<1>3. StampInv(only) /\ SinceInv(only, TRUE) => QuietBuildDescribesTheSources
  BY QuietSound
<1> QED
  BY <1>1, <1>2, <1>3, PTL DEF Spec
-----------------------------------------------------------------------------
(***************************************************************************)
(* The builds of one process implement ProjectAnswer.                      *)
(***************************************************************************)

\* What the mapping says a build began with.
Since == [b \in Builders |-> IF began[b] = NoBuild THEN None ELSE OnlyInputs(began[b])]

\* graph.db says what it last said, but while it is being replaced; and a build
\* with a failure replaces nothing.
Replaces(b) == phase[b] \in {"linked", "graph written", "report written", "db removed"}
AnswerInv(b) ==
    /\ began[b] = NoBuild \/ phase[b] = "begun" \/ Planned(b)
    /\ outputs["db"] = IF phase[b] = "db removed" THEN NoOutput ELSE said
    /\ said # NoOutput \/ phase[b] \in {"graph written", "report written", "db removed"} =>
           outputs["graph"] # NoOutput
    /\ Failed(b) /\ Replaces(b) => said = NoOutput

LEMMA AnswerShapes ==
    ASSUME NEW b \in Builders, StampInv(b)
    PROVE  /\ outputs \in [Output -> [Services -> MaybeReading] \union {NoOutput}]
           /\ began \in [Builders -> [Services -> Readings] \union {NoBuild}]
           /\ got[b] # NoOutput
<1>1. /\ outputs \in [Output -> [Services -> MaybeReading] \union {NoOutput}]
      /\ began \in [Builders -> [Services -> Readings] \union {NoBuild}]
  BY DEF StampInv, Typed, TypeOK
<1>2. got[b] \in [Services -> Readings \union {None}]
  BY StampShapes DEF MaybeReading, NoGraph
<1>3. None \notin [Services -> Readings \union {None}]
  BY PlanAssumption
<1>4. got[b] # NoOutput
  BY ONLY <1>2, <1>3 DEF NoOutput
<1> QED
  BY <1>1, <1>4

LEMMA AnswerInvKept ==
    ASSUME NEW b \in Builders, Alone(b), ~DiesReplacing, StampInv(b), AnswerInv(b), [Next]_vars
    PROVE  AnswerInv(b)'
<1> USE StampShapes, AnswerShapes DEF AnswerInv
<1>1. ASSUME UNCHANGED <<began, outputs, said, task>>, phase'[b] = phase[b]
      PROVE  AnswerInv(b)'
  BY <1>1 DEF Planned, Answers, Failed, Replaces
<1>2. CASE World
  BY <1>1, <1>2 DEF World, Save, SaveConfig, DropGraph, history, readers
<1>3. ASSUME NEW a \in Builders, BuildStep(a) PROVE AnswerInv(b)'
  <2>0. a = b
    BY DEF Alone
  <2>1. CASE Listen(a) \/ Told(a)
    BY <1>1, <2>1 DEF Listen, Told, disks, history, readers
  <2>2. CASE OpenWatch(a) \/ Reload(a)
    <3>1. /\ UNCHANGED <<began, outputs, said>>
          /\ phase[b] \in {"off", "idle"} /\ phase'[b] = "reloaded"
      BY <2>0, <2>2 DEF OpenWatch, Reload, disks, history
    <3> QED
      BY <3>1 DEF Planned, Answers, Replaces
  <2>3. CASE \E selected \in Selections, noCache \in BOOLEAN : Begin(a, selected, noCache)
    <3>1. UNCHANGED <<outputs, said>> /\ phase[b] \in {"reloaded", "idle"} /\ phase'[b] = "begun"
      BY <2>0, <2>3 DEF Begin, disks
    <3> QED
      BY <3>1 DEF Replaces
  <2>4. CASE Survey(a)
    <3>1. /\ UNCHANGED <<began, outputs, said>>
          /\ phase[b] = "begun" /\ phase'[b] = "reading"
      BY <2>0, <2>4 DEF Survey, disks, history
    <3> QED
      BY <3>1 DEF Planned, Replaces
  <2>5. ASSUME NEW s \in Services, ReadStep(a, s) PROVE AnswerInv(b)'
    <3>1. UNCHANGED <<phase, began, outputs, said>> /\ phase[b] = "reading"
      BY <2>0, <2>5 DEF ReadStep, Reuse, MissingGraph, ChildParses, ChildWrites, ChildStamps,
         Collect,
             WarmReads, WarmWrites, WarmDrops, ReadFails, Reads, disks, history
    <3> QED
      BY <3>1 DEF Planned, Replaces
  <2>6. CASE Link(a)
    <3>1. /\ UNCHANGED <<began, outputs, said, task>> /\ phase[b] = "reading"
          /\ phase'[b] = IF Keeping(b) THEN "outputs written" ELSE "linked"
      BY <2>0, <2>6 DEF Link, disks, history, readers
    <3> QED
      BY <3>1 DEF Planned, Answers, Replaces, Failed, Keeping
  <2>7. CASE WriteStep(a)
    <3> USE DEF WriteStep, WriteGraph, WriteReport, RemoveDb, WriteDb, Write, Output
    <3>1. UNCHANGED <<began, task>>
      BY <2>7 DEF readers, history
    <3>2. CASE WriteGraph(a)
      BY <2>0, <3>1, <3>2 DEF Planned, Answers, Replaces, Failed
    <3>3. CASE WriteReport(a)
      BY <2>0, <3>1, <3>3 DEF Planned, Answers, Replaces, Failed
    <3>4. CASE RemoveDb(a)
      BY <2>0, <3>1, <3>4 DEF Planned, Answers, Replaces, Failed, history
    <3>5. CASE WriteDb(a)
      BY <2>0, <3>1, <3>5 DEF Planned, Answers, Replaces, Failed
    <3> QED
      BY <2>7, <3>2, <3>3, <3>4, <3>5
  <2>8. CASE Abandon(a) \/ SaveCache(a) \/ Throw(a) \/ Crash(a)
    <3>1. /\ \E to \in {"off", "idle"} : Returns(b, to)
          /\ outputs' = outputs /\ phase[b] # "db removed"
      BY <2>0, <2>8 DEF Abandon, SaveCache, Throw, Crash, disks
    <3>2. said' = said /\ began'[b] = NoBuild /\ phase'[b] \in {"off", "idle"}
      BY <3>1 DEF Returns
    <3> QED
      BY <3>1, <3>2 DEF Replaces
  <2> QED
    BY <1>3, <2>1, <2>2, <2>3, <2>4, <2>5, <2>6, <2>7, <2>8 DEF BuildStep, WriteStep
<1>4. CASE UNCHANGED vars
  BY <1>1, <1>4 DEF vars, disks, history, readers
<1> QED
  BY <1>2, <1>3, <1>4 DEF Next
LEMMA OnlyInputsTyped ==
    ASSUME NEW r \in [Services -> Readings]
    PROVE  /\ OnlyInputs(r) \in [Services -> [Inputs -> Nat]]
           /\ OnlyInputs(r) # None
           /\ \A s \in Services, i \in Inputs : OnlyInputs(r)[s][i] = r[s][i]
<1>1. OnlyInputs(r) \in [Services -> [Inputs -> Nat]]
  BY DEF OnlyInputs, Readings, Versioned
<1>2. \A s \in Services, i \in Inputs : OnlyInputs(r)[s][i] = r[s][i]
  BY DEF OnlyInputs
<1> QED
  BY <1>1, <1>2, BuildAssumption

\* What a build has read of a repository is of its time.
LEMMA GotOfItsTime ==
    ASSUME PlainSaves, NEW b \in Builders, StampInv(b), BeganBefore(b), Answers(b),
           NEW s \in Services, got[b][s] # NoGraph, NEW i \in Inputs
    PROVE  began[b][s][i] <= got[b][s][i] /\ got[b][s][i] <= disk[s][i]
<1> USE StampParts, StampShapes
<1> DEFINE r == got[b][s]
           v == survey[b][s]
<1>1. Planned(b) /\ task[b][s] = "done"
  BY DEF Planned, DoneIsSound, DoneSound
<1>2. Past(r, s) /\ Covers(r, v)
  BY <1>1 DEF DoneIsSound, DoneSound
<1>3. SurveySound(v, s) /\ v \in Surveys
  BY <1>1 DEF SurveysArePast
<1>4. r[i] \in Nat /\ disk[s][i] \in Nat /\ r[i] <= disk[s][i]
  BY <1>2 DEF Past, AtLeast, MaybeReading, Readings, Versioned
<1>5. began[b][s][i] \in Nat
  BY <1>1 DEF BeganBefore, Readings, Versioned
<1>6. CASE i \in Files
  <2>1. began[b][s][i] <= v.files[i] /\ v.files[i] <= r[i] /\ v.files[i] \in Nat
    BY <1>1, <1>2, <1>3, <1>6 DEF BeganBefore, Covers, SurveySound
  <2> QED
    BY ONLY <1>4, <1>5, <2>1
<1>7. CASE i = Around
  <2>1. began[b][s][i] <= v.around /\ v.around <= r[i] /\ v.around \in Nat
    BY <1>1, <1>2, <1>3, <1>7 DEF BeganBefore, Covers, Surveys
  <2> QED
    BY ONLY <1>4, <1>5, <2>1
<1>8. CASE i = Installed
  <2>1. began[b][s][i] <= disk[s][i] /\ disk[s][i] <= 0
    BY <1>1, <1>8 DEF BeganBefore, AtLeast, DiskInRange, PlainSaves
  <2> QED
    BY ONLY <1>4, <1>5, <2>1
<1> QED
  BY <1>6, <1>7, <1>8 DEF Inputs
LEMMA AnswerStutters ==
    ASSUME UNCHANGED <<disk, began, said>>, outputs'["db"] = outputs["db"]
    PROVE  UNCHANGED Answer!vars
BY DEF Answer!vars

LEMMA AnswerInit == Init => Answer!Init
<1> SUFFICES ASSUME Init PROVE Answer!Init
  OBVIOUS
<1>1. disk \in [Services -> [Inputs -> Nat]]
  BY DEF Init
<1>2. outputs["db"] = None /\ said = None
  BY DEF Init, Output, NoOutput
<1>3. Since = [b \in Builders |-> None]
  BY DEF Init, Since
<1> QED
  BY <1>1, <1>2, <1>3 DEF Answer!Init, Answer!Revisions, Since

LEMMA AnswerStep ==
    ASSUME PlainSaves, NEW b \in Builders, Alone(b), ~DiesReplacing, StampInv(b), StampInv(b)',
           SinceInv(b, FALSE), AnswerInv(b), [Next]_vars
    PROVE  Answer!Next \/ UNCHANGED Answer!vars
<1>5. disk \in [Services -> [Inputs -> Nat]] /\ config \in Nat
  BY StampShapes
<1> USE StampShapes, AnswerShapes DEF AnswerInv, NoOutput
<1>0. disk' \in [Services -> [Inputs -> Nat]]
  BY DEF StampInv, Typed, TypeOK
<1>1. CASE World
  <2>1. CASE \E s \in Services, i \in Inputs : Save(s, i)
    <3>1. PICK s \in Services, i \in Inputs : Save(s, i)
      BY <2>1
    <3>2. \A q \in Services, j \in Inputs : disk'[q][j] >= disk[q][j]
      <4>1. disk' = [disk EXCEPT ![s][i] = disk[s][i] + 1]
        BY <3>1 DEF Save
      <4> QED
        BY ONLY <1>5, <4>1
    <3>3. UNCHANGED <<outputs, began, said>>
      BY <3>1 DEF Save, history
    <3>4. Answer!Change
      BY <1>0, <3>2, <3>3 DEF Answer!Change, Answer!Revisions
    <3> QED
      BY <3>4 DEF Answer!Next
  <2>2. CASE SaveConfig \/ \E s \in Services : DropGraph(s)
    BY <2>2, AnswerStutters DEF SaveConfig, DropGraph, history
  <2> QED
    BY <1>1, <2>1, <2>2 DEF World
<1>2. ASSUME NEW a \in Builders, BuildStep(a) PROVE Answer!Next \/ UNCHANGED Answer!vars
  <2>0. a = b
    BY DEF Alone
  <2>1. CASE Listen(a) \/ Told(a) \/ OpenWatch(a) \/ Reload(a) \/ Survey(a) \/ Link(a)
    BY <2>1, AnswerStutters DEF Listen, Told, OpenWatch, Reload, Survey, Link, disks, history
  <2>2. ASSUME NEW s \in Services, ReadStep(a, s) PROVE UNCHANGED Answer!vars
    <3>1. UNCHANGED <<disk, began, said, outputs>>
      BY <2>2 DEF ReadStep, Reuse, MissingGraph, ChildParses, ChildWrites, ChildStamps, Collect,
             WarmReads, WarmWrites, WarmDrops, ReadFails, disks, history
    <3> QED
      BY <3>1, AnswerStutters
  <2>3. CASE WriteGraph(a) \/ WriteReport(a)
    <3>1. UNCHANGED <<disk, began, said>> /\ outputs'["db"] = outputs["db"]
      BY <2>3 DEF WriteGraph, WriteReport, Write, Output
    <3> QED
      BY <3>1, AnswerStutters
  <2>4. CASE \E selected \in Selections, noCache \in BOOLEAN : Begin(a, selected, noCache)
    <3>1. /\ UNCHANGED <<disk, outputs, said>> /\ phase[b] \in {"reloaded", "idle"}
          /\ began' = [began EXCEPT ![b] = Sources]
      BY <2>0, <2>4 DEF Begin, disks
    <3>2. began[b] = NoBuild
      BY <3>1 DEF Planned, Answers
    <3>3. Sources \in [Services -> Readings] /\ Sources # NoBuild
      <4>1. Sources \in [Services -> Readings]
        BY SourcesAreReadings DEF StampInv, Typed
      <4> QED
        BY <4>1, PlanAssumption DEF NoBuild
    <3>4. OnlyInputs(Sources) = disk
      <4>1. ASSUME NEW s \in Services, NEW i \in Inputs PROVE Sources[s][i] = disk[s][i]
        <5>1. config \in Nat /\ config <= config
          BY ONLY <1>5
        <5> QED
          BY <5>1, NowIsLater DEF Sources
      <4> QED
        BY ONLY <1>5, <4>1 DEF OnlyInputs
    <3>5. Since[b] = None /\ Since' = [Since EXCEPT ![b] = disk]
      BY <3>1, <3>2, <3>3, <3>4 DEF Since
    <3>6. Answer!Begin(b)
      BY <3>1, <3>5 DEF Answer!Begin, Since
    <3> QED
      BY <3>6 DEF Answer!Next
  <2>5. ASSUME Answers(b)
        PROVE  /\ began[b] \in [Services -> Readings]
               /\ Since[b] = OnlyInputs(began[b]) /\ Since[b] # None
    <3>1. began[b] \in [Services -> Readings]
      BY <2>5 DEF SinceInv, BeganBefore, Planned
    <3>2. began[b] # NoBuild
      BY <3>1, PlanAssumption DEF NoBuild
    <3> QED
      BY <3>1, <3>2, OnlyInputsTyped DEF Since
  <2>6. CASE RemoveDb(a)
    <3>1. /\ UNCHANGED <<disk, began, said>> /\ outputs'["db"] = None /\ Answers(b)
      BY <2>0, <2>6 DEF RemoveDb, Answers, Output, history
    <3>2. Answer!Withdraw(b)
      BY <2>5, <3>1 DEF Answer!Withdraw, Since
    <3> QED
      BY <3>2 DEF Answer!Next
  <2>7. CASE WriteDb(a)
    <3>1. /\ UNCHANGED <<disk, began>> /\ outputs'["db"] = got[b] /\ said' = got[b]
          /\ phase[b] = "db removed"
      BY <2>0, <2>7 DEF WriteDb, Write, Output
    <3>2. Answers(b)
      BY <3>1 DEF Answers
    <3>3. ASSUME NEW s \in Services
          PROVE  IF got[b][s] = None THEN said = None
                 ELSE \A i \in Inputs : Since[b][s][i] <= got[b][s][i] /\ got[b][s][i] <= disk[s][i]
      <4>1. CASE got[b][s] = None
        <5>1. task[b][s] # "done" /\ task[b][s] \in {"done", "failed"}
          BY <3>2, <4>1, StampParts DEF DoneIsSound, DoneSound, InOrder, NoGraph
        <5>2. Failed(b)
          BY <5>1 DEF Failed
        <5> QED
          BY <3>1, <4>1, <5>2 DEF Replaces
      <4>2. CASE got[b][s] # None
        <5>1. \A i \in Inputs : Since[b][s][i] = began[b][s][i]
          BY <2>5, <3>2, OnlyInputsTyped
        <5>2. \A i \in Inputs : began[b][s][i] <= got[b][s][i] /\ got[b][s][i] <= disk[s][i]
          BY <3>2, <4>2, GotOfItsTime DEF SinceInv, NoGraph
        <5> QED
          BY <4>2, <5>1, <5>2
      <4> QED
        BY <4>1, <4>2
    <3>4. Answer!Answer(b)
      <4>1. Since[b] # None /\ outputs'["db"] # None /\ said' = outputs'["db"]
                        /\ UNCHANGED <<disk, began>>
        BY <2>5, <3>1, <3>2
      <4> QED
        BY <3>1, <3>3, <4>1 DEF Answer!Answer, Answer!OfItsTime, Since
    <3> QED
      BY <3>4 DEF Answer!Next
  <2>8. CASE Abandon(a) \/ SaveCache(a) \/ Throw(a) \/ Crash(a)
    <3>1. /\ \E to \in {"off", "idle"} : Returns(b, to)
          /\ UNCHANGED <<disk, outputs>> /\ phase[b] # "db removed"
      BY <2>0, <2>8 DEF Abandon, SaveCache, Throw, Crash, disks
    <3>2. said' = said /\ began' = [began EXCEPT ![b] = NoBuild]
      BY <3>1 DEF Returns
    <3>3. Since' = [Since EXCEPT ![b] = None]
      BY <3>2 DEF Since
    <3>4. Answer!End(b)
      BY <3>1, <3>2, <3>3 DEF Answer!End, Since
    <3> QED
      BY <3>4 DEF Answer!Next
  <2> QED
    BY <1>2, <2>1, <2>2, <2>3, <2>4, <2>6, <2>7, <2>8 DEF BuildStep
<1>3. CASE UNCHANGED vars
  BY <1>3, AnswerStutters DEF vars, disks, history
<1> QED
  BY <1>1, <1>2, <1>3 DEF Next

\* The builds of one process implement ProjectAnswer, where a build is not killed
\* between taking graph.db away and putting the next one there: whatever is
\* cached, stamped, reused, abandoned or killed, an answer has every repository's
\* sources as they were at some moment since its build began, a repository is
\* missing only from a first answer, and no build ends with the answer gone.
THEOREM BuildsImplementProjectAnswer ==
    ASSUME PlainSaves, NEW only \in Builders, Alone(only), ~DiesReplacing
    PROVE  Spec => ImplementsProjectAnswer
<1> DEFINE Inv == StampInv(only) /\ SinceInv(only, FALSE) /\ AnswerInv(only)
<1>1. Init => Inv
  <2>1. Init => AnswerInv(only)
    BY DEF Init, AnswerInv, Replaces, Output, NoOutput
  <2> QED
    BY <2>1, InitStamps, InitQuiet
<1>2. Inv /\ [Next]_vars => Inv'
  BY StampStep, QuietStepSound, AnswerInvKept
<1>3. Inv /\ [Next]_vars => [Answer!Next]_(Answer!vars)
  BY StampStep, AnswerStep
<1>4. Init => Answer!Init
  BY AnswerInit
<1> QED
  BY <1>1, <1>2, <1>3, <1>4, PTL DEF Spec, ImplementsProjectAnswer, Answer!Spec
=============================================================================
