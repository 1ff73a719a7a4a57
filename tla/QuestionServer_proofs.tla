----------------------- MODULE QuestionServer_proofs -----------------------
(***************************************************************************)
(* Proofs about QuestionServer: what it answers with, what it keeps of a   *)
(* database and what it tells its client, for any number of builds and     *)
(* saves, and whatever files change or vanish between two looks at them.   *)
(***************************************************************************)
EXTENDS QuestionServer, TLAPS

-----------------------------------------------------------------------------
(***************************************************************************)
(* What is read once a database.                                           *)
(***************************************************************************)

LEMMA FactsStay ==
    FactsAreOfTheOpenDatabase /\ [Next]_vars => FactsAreOfTheOpenDatabase'
<1> SUFFICES ASSUME FactsAreOfTheOpenDatabase, [Next]_vars
             PROVE FactsAreOfTheOpenDatabase'
  OBVIOUS
<1> USE DEF FactsAreOfTheOpenDatabase, vars, opened, listing
<1>1. CASE World
  BY <1>1 DEF World, RemoveDb, RenameDb, SaveObserved
<1>2. CASE Connect \/ Poll \/ \E request \in Request \ {"poll"} : Ask(request)
  BY <1>2 DEF Connect, Poll, Ask
<1>3. CASE Disconnect
  BY <1>3 DEF Disconnect
<1>4. CASE Exists
  BY <1>4 DEF Exists
<1>5. CASE Vanished
  BY <1>5 DEF Vanished
<1>6. CASE Stat
  BY <1>6 DEF Stat
<1>7. CASE OpenDb
  BY <1>7 DEF OpenDb, CurrentAfter
<1>8. CASE Decide
  BY <1>8 DEF Decide
<1>9. CASE StampIt
  BY <1>9 DEF StampIt
<1>10. CASE UNCHANGED vars
  BY <1>10
<1> QED
  BY <1>1, <1>2, <1>3, <1>4, <1>5, <1>6, <1>7, <1>8, <1>9, <1>10 DEF Next, Serve

\* The facts the tools are listed by are of the database that is open: what was
\* read of one is never taken for what the next holds.
THEOREM FactsAreOfThisDatabase == Spec => []FactsAreOfTheOpenDatabase
<1>1. Init => FactsAreOfTheOpenDatabase
  BY DEF Init, FactsAreOfTheOpenDatabase
<1> QED
  BY <1>1, FactsStay, PTL DEF Spec

-----------------------------------------------------------------------------
(***************************************************************************)
(* What the client knows of the list.                                      *)
(***************************************************************************)

\* A client that has a list has the one its calls are held to, was told of
\* another, or is about to be.
ToldOrAboutTo == listed # NoFacts => listed = enabled \/ told = TRUE \/ changed = TRUE

\* What has changed is only held until the stamp is taken.
ChangedIsToldNext == changed = TRUE => pc = "stamp"

\* A list is asked for on its own behalf.
ListsOnlyRefresh == job.request = "list" => job.purpose = "refresh"

Jobs == [request : Request \union {"none"}, purpose : Purpose \union {"none"}]
Flags == changed \in BOOLEAN /\ told \in BOOLEAN

ClientInv == ToldOrAboutTo /\ ChangedIsToldNext /\ ListsOnlyRefresh /\ Flags

JobTyped == job \in Jobs

LEMMA JobsStay == JobTyped /\ [Next]_vars => JobTyped'
<1> SUFFICES ASSUME JobTyped, [Next]_vars PROVE JobTyped'
  OBVIOUS
<1> USE DEF JobTyped, Jobs, Request, Purpose, vars, doing
<1>1. CASE World
  BY <1>1 DEF World, RemoveDb, RenameDb, SaveObserved
<1>2. CASE Connect \/ Disconnect
  BY <1>2 DEF Connect, Disconnect
<1>3. CASE Poll \/ \E request \in Request \ {"poll"} : Ask(request)
  BY <1>3 DEF Poll, Ask
<1>4. CASE Exists
  BY <1>4 DEF Exists, OpenedFor, Replies, Idle
<1>5. CASE Vanished \/ Stat
  BY <1>5 DEF Vanished, Stat, Replies, Idle
<1>6. CASE OpenDb
  BY <1>6 DEF OpenDb, OpenedFor, Replies, Idle
<1>7. CASE Decide
  BY <1>7 DEF Decide
<1>8. CASE StampIt
  BY <1>8 DEF StampIt, Finishes, Replies, Idle
<1>9. CASE UNCHANGED vars
  BY <1>9
<1> QED
  BY <1>1, <1>2, <1>3, <1>4, <1>5, <1>6, <1>7, <1>8, <1>9 DEF Next, Serve

LEMMA ClientStays == ClientInv /\ JobTyped /\ [Next]_vars => ClientInv'
<1> SUFFICES ASSUME ClientInv, JobTyped, [Next]_vars PROVE ClientInv'
  OBVIOUS
<1> USE DEF ClientInv, ToldOrAboutTo, ChangedIsToldNext, ListsOnlyRefresh,
            Flags, JobTyped, Jobs, Request, Purpose, vars, listing, client, doing
<1>1. CASE World
  BY <1>1 DEF World, RemoveDb, RenameDb, SaveObserved
<1>2. CASE Connect \/ Disconnect
  BY <1>2 DEF Connect, Disconnect
<1>3. CASE Poll \/ \E request \in Request \ {"poll"} : Ask(request)
  BY <1>3 DEF Poll, Ask
<1>4. CASE Exists
  BY <1>4 DEF Exists, OpenedFor, Replies, Idle, Refreshing
<1>5. CASE Vanished
  BY <1>5 DEF Vanished, Replies, Idle
<1>6. CASE Stat
  BY <1>6 DEF Stat, Idle
<1>7. CASE OpenDb
  BY <1>7 DEF OpenDb, OpenedFor, Replies, Idle, Refreshing
<1>8. CASE Decide
  BY <1>8 DEF Decide
<1>9. CASE StampIt
  <2>1. changed' = FALSE /\ enabled' = enabled
    BY <1>9 DEF StampIt
  <2>2. ListsOnlyRefresh'
    BY <1>9 DEF StampIt, Finishes, Replies, Idle
  <2>3. CASE job.request = "list"
    <3>1. listed' = enabled /\ told' = FALSE
      BY <1>9, <2>3 DEF StampIt, Finishes
    <3> QED
      BY <2>1, <2>2, <3>1
  <2>4. CASE job.request # "list"
    <3>1. listed' = listed /\ told' = (told \/ changed)
      BY <1>9, <2>4 DEF StampIt, Finishes, Tells
    <3>2. told' \in BOOLEAN /\ (told = TRUE \/ changed = TRUE => told' = TRUE)
      BY <3>1
    <3> QED
      BY <2>1, <2>2, <3>1, <3>2
  <2> QED
    BY <2>3, <2>4
<1>10. CASE UNCHANGED vars
  BY <1>10
<1> QED
  BY <1>1, <1>2, <1>3, <1>4, <1>5, <1>6, <1>7, <1>8, <1>9, <1>10 DEF Next, Serve

\* A client that has a list of tools has the one its calls are held to, or was
\* told that there is another.
THEOREM ClientsAreTold == Spec => []ClientKnowsOrIsTold
<1>1. Init => ClientInv
  <2> SUFFICES ASSUME Init PROVE ClientInv
    OBVIOUS
  <2>1. ToldOrAboutTo /\ ListsOnlyRefresh
    BY DEF Init, ToldOrAboutTo, ListsOnlyRefresh, Idle
  <2>2. ChangedIsToldNext /\ Flags
    BY DEF Init, ChangedIsToldNext, Flags
  <2> QED
    BY <2>1, <2>2 DEF ClientInv
<1>2. Init => JobTyped
  BY DEF Init, Idle, JobTyped, Jobs, Request, Purpose
<1>3. ClientInv => ClientKnowsOrIsTold
  BY DEF ClientInv, ToldOrAboutTo, ChangedIsToldNext, Flags, ClientKnowsOrIsTold
<1> QED
  BY <1>1, <1>2, <1>3, ClientStays, JobsStay, PTL DEF Spec
-----------------------------------------------------------------------------
(***************************************************************************)
(* What a request is answered with.                                        *)
(***************************************************************************)

Databases == [build : Nat, ours : BOOLEAN]

Numbers ==
    /\ builds \in Nat
    /\ openedAt \in Nat
    /\ modified \in Nat
    /\ replacing \in BOOLEAN
    /\ db \in Databases \union {NoDb}
    /\ handle \in Databases \union {NoDb}

\* What is there is the work of the last build that began.
TheLastIsThere == db # NoDb => replacing = FALSE /\ db.build = builds

\* A database is held under no later time than its own, and of all builds only
\* one has a number.
HeldUnderNoLaterTime ==
    handle # NoDb =>
        /\ openedAt <= handle.build
        /\ handle.build <= builds
        /\ replacing = TRUE => handle.build < builds
        /\ db # NoDb /\ db.build = handle.build => db = handle

ClosedToOpen == pc = "open" => handle = NoDb /\ modified <= builds

Refusable == \E d \in since : ~Usable(d)

SinceIsKept == pc # "idle" => db \in since

\* What has been opened was there since the request, or there was none.
OpenedIsOfItsTime ==
    pc \in {"beside", "stamp"} => IF handle = NoDb THEN Refusable ELSE handle \in since

RefusedForAReason == pc # "idle" /\ answer = Failure => Refusable

AnswerInv ==
    /\ Numbers
    /\ TheLastIsThere
    /\ HeldUnderNoLaterTime
    /\ ClosedToOpen
    /\ SinceIsKept
    /\ OpenedIsOfItsTime
    /\ RefusedForAReason
    /\ AnswersAreCurrent

LEMMA Different ==
    /\ NoDb \notin Databases
    /\ NoAnswer \notin Databases
    /\ Failure \notin Databases
    /\ NoAnswer # Failure
  BY QuestionServerAssumption DEF Databases

LEMMA InitAnswers == Init => AnswerInv
<1> SUFFICES ASSUME Init PROVE AnswerInv
  OBVIOUS
<1>1. Numbers
  BY DEF Init, Numbers
<1>2. TheLastIsThere /\ HeldUnderNoLaterTime
  BY DEF Init, TheLastIsThere, HeldUnderNoLaterTime
<1>3. ClosedToOpen /\ SinceIsKept /\ OpenedIsOfItsTime /\ RefusedForAReason
  BY DEF Init, ClosedToOpen, SinceIsKept, OpenedIsOfItsTime, RefusedForAReason
<1>4. AnswersAreCurrent
  BY DEF Init, AnswersAreCurrent
<1> QED
  BY <1>1, <1>2, <1>3, <1>4 DEF AnswerInv

\* A request goes on while what is there changes: it is added to what was.
LEMMA WorldAnswers == AnswerInv /\ World => AnswerInv'
<1> SUFFICES ASSUME AnswerInv, World PROVE AnswerInv'
  OBVIOUS
<1>1. /\ UNCHANGED <<opened, listing, doing, client, answer>>
      /\ since \subseteq since'
      /\ db' = db \/ db' \in since'
  BY DEF World, RemoveDb, RenameDb, SaveObserved, history
<1>2. Numbers' /\ TheLastIsThere' /\ HeldUnderNoLaterTime' /\ builds <= builds'
  <2> USE DEF AnswerInv, Numbers, TheLastIsThere, HeldUnderNoLaterTime, opened, doing
  <2>0. handle # NoDb => handle.build \in Nat
    BY DEF Databases
  <2>1. CASE RemoveDb
    <3>1. /\ replacing = FALSE /\ replacing' = TRUE
          /\ builds' = builds + 1
          /\ db' = NoDb
      BY <2>1 DEF RemoveDb
    <3> QED
      BY <1>1, <2>0, <3>1
  <2>2. CASE \E ours \in BOOLEAN : RenameDb(ours)
    <3>1. PICK ours \in BOOLEAN : RenameDb(ours)
      BY <2>2
    <3>2. db' = [build |-> builds, ours |-> ours] /\ db' \in Databases /\ db'.build = builds
      BY <3>1 DEF RenameDb, Databases
    <3>3. replacing = TRUE /\ replacing' = FALSE /\ builds' = builds
      BY <3>1 DEF RenameDb
    <3>4. Numbers' /\ TheLastIsThere'
      BY <1>1, <3>2, <3>3
    <3>5. HeldUnderNoLaterTime'
      BY <1>1, <2>0, <3>2, <3>3
    <3> QED
      BY <3>3, <3>4, <3>5
  <2>3. CASE SaveObserved
    BY <1>1, <2>3 DEF SaveObserved, history
  <2> QED
    BY <2>1, <2>2, <2>3 DEF World
<1>3. Refusable => Refusable'
  BY <1>1 DEF Refusable, Usable
<1>4. ClosedToOpen'
  BY <1>1, <1>2 DEF AnswerInv, Numbers, ClosedToOpen, opened, doing
<1>5. SinceIsKept' /\ OpenedIsOfItsTime' /\ RefusedForAReason'
  BY <1>1, <1>3 DEF AnswerInv, SinceIsKept, OpenedIsOfItsTime, RefusedForAReason, opened, doing
<1>6. AnswersAreCurrent'
  BY <1>1 DEF AnswerInv, AnswersAreCurrent, doing
<1> QED
  BY <1>2, <1>4, <1>5, <1>6 DEF AnswerInv

LEMMA RequestAnswers ==
    ASSUME AnswerInv,
           Connect \/ Disconnect \/ Poll \/ \E request \in Request \ {"poll"} : Ask(request)
    PROVE  AnswerInv'
<1> USE DEF disk, opened, listing, client, history, doing
<1>1. CASE Connect
  <2>1. UNCHANGED <<disk, opened, listing, doing, history>>
    BY <1>1 DEF Connect
  <2> QED
    BY <2>1 DEF AnswerInv, Numbers, TheLastIsThere, HeldUnderNoLaterTime, ClosedToOpen,
                SinceIsKept, OpenedIsOfItsTime, RefusedForAReason, Refusable, AnswersAreCurrent
<1>2. CASE Disconnect
  <2>1. /\ pc' = "idle" /\ handle' = NoDb /\ openedAt' = 0 /\ answer' = NoAnswer
        /\ UNCHANGED <<disk, modified>>
    BY <1>2 DEF Disconnect
  <2>2. Numbers' /\ TheLastIsThere' /\ HeldUnderNoLaterTime'
    BY <2>1 DEF AnswerInv, Numbers, TheLastIsThere, HeldUnderNoLaterTime
  <2> QED
    BY <2>1, <2>2 DEF AnswerInv, ClosedToOpen, SinceIsKept, OpenedIsOfItsTime,
                RefusedForAReason, AnswersAreCurrent
<1>3. CASE Poll \/ \E request \in Request \ {"poll"} : Ask(request)
  <2>1. /\ pc' = "exists" /\ since' = {db} /\ answer' = NoAnswer
        /\ UNCHANGED <<disk, opened, modified>>
    BY <1>3 DEF Poll, Ask
  <2>2. Numbers' /\ TheLastIsThere' /\ HeldUnderNoLaterTime'
    BY <2>1 DEF AnswerInv, Numbers, TheLastIsThere, HeldUnderNoLaterTime
  <2> QED
    BY <2>1, <2>2, Different DEF AnswerInv, ClosedToOpen, SinceIsKept, OpenedIsOfItsTime,
                RefusedForAReason, AnswersAreCurrent
<1> QED
  BY <1>1, <1>2, <1>3

\* What comes of opening the database is of its time if what was opened is, and
\* if none was opened there was none.
LEMMA OpeningAnswers ==
    ASSUME AnswerInv, NEW with, NEW isNews \in BOOLEAN, OpenedFor(with, isNews),
           pc # "idle", UNCHANGED <<disk, client>>,
           Numbers', HeldUnderNoLaterTime',
           with = IF handle' = NoDb THEN Failure ELSE handle',
           handle' = NoDb => Refusable,
           handle' # NoDb => handle' \in since
    PROVE  AnswerInv'
<1> USE DEF disk
<1>1. since' = since /\ (Refusable <=> Refusable')
  BY DEF OpenedFor, Replies, history, Refusable, Usable
<1>2. TheLastIsThere'
  BY DEF AnswerInv, TheLastIsThere
<1>3. \/ pc' = "beside" /\ answer' = answer
      \/ pc' = "exists" /\ answer' = with
      \/ pc' = "idle" /\ answer' = with
  BY DEF OpenedFor, Replies, history
<1>4. ClosedToOpen' /\ SinceIsKept' /\ OpenedIsOfItsTime'
  BY <1>1, <1>3 DEF AnswerInv, ClosedToOpen, SinceIsKept, OpenedIsOfItsTime
<1>5. with = Failure => Refusable
  BY Different DEF Numbers
<1>6. RefusedForAReason'
  BY <1>1, <1>3, <1>5 DEF AnswerInv, RefusedForAReason
<1>7. AnswersAreCurrent'
  BY <1>1, <1>3, <1>5, Different DEF AnswersAreCurrent, Refusable
<1> QED
  BY <1>2, <1>4, <1>6, <1>7 DEF AnswerInv

LEMMA ExistsAnswers == ASSUME AnswerInv, Exists PROVE AnswerInv'
<1> USE DEF disk, opened, listing, client, history
<1>1. CASE db = NoDb
  <2>1. handle' = NoDb /\ openedAt' = 0 /\ UNCHANGED <<disk, client>>
    BY <1>1 DEF Exists
  <2>2. OpenedFor(Failure, handle # NoDb)
    BY <1>1 DEF Exists
  <2>3. Refusable
    BY <1>1 DEF Exists, AnswerInv, SinceIsKept, Refusable, Usable
  <2>4. modified' \in Nat
    BY <2>2 DEF OpenedFor, Replies, AnswerInv, Numbers
  <2>5. Numbers' /\ HeldUnderNoLaterTime'
    BY <2>1, <2>4 DEF AnswerInv, Numbers, HeldUnderNoLaterTime
  <2> QED
    BY <2>1, <2>2, <2>3, <2>5, OpeningAnswers DEF Exists
<1>2. CASE db # NoDb
  <2>1. pc = "exists" /\ pc' = "stat" /\ UNCHANGED <<disk, opened, modified, history>>
    BY <1>2 DEF Exists
  <2> QED
    BY <2>1 DEF AnswerInv, Numbers, TheLastIsThere, HeldUnderNoLaterTime, ClosedToOpen,
                SinceIsKept, OpenedIsOfItsTime, RefusedForAReason, Refusable, AnswersAreCurrent
<1> QED
  BY <1>1, <1>2

LEMMA VanishedAnswers == ASSUME AnswerInv, Vanished PROVE AnswerInv'
<1> USE DEF disk, opened, listing, client, history
<1>1. Refusable
  BY DEF Vanished, AnswerInv, SinceIsKept, Refusable, Usable
<1>2. /\ UNCHANGED <<disk, opened, since>>
      /\ \/ pc' = "down" /\ answer' = answer
         \/ pc' = "idle" /\ answer' = Failure
      /\ modified' \in Nat
      /\ pc = "stat"
  BY DEF Vanished, Replies, AnswerInv, Numbers
<1>3. Numbers' /\ TheLastIsThere' /\ HeldUnderNoLaterTime'
  BY <1>2 DEF AnswerInv, Numbers, TheLastIsThere, HeldUnderNoLaterTime
<1>4. ClosedToOpen' /\ SinceIsKept' /\ OpenedIsOfItsTime'
  BY <1>2 DEF AnswerInv, ClosedToOpen, SinceIsKept, OpenedIsOfItsTime
<1>5. RefusedForAReason' /\ AnswersAreCurrent'
  BY <1>1, <1>2 DEF RefusedForAReason, AnswersAreCurrent, Refusable
<1> QED
  BY <1>3, <1>4, <1>5 DEF AnswerInv

\* The database that is open is the one that is there when their times agree:
\* it is held under no later a time than its own, and none was built since.
LEMMA SameTimeSameDatabase ==
    ASSUME AnswerInv, db # NoDb, SameAsOpen(TimeOf(db)) PROVE handle = db
<1>1. handle # NoDb /\ openedAt = db.build
  BY DEF SameAsOpen, TimeOf
<1>2. handle.build \in Nat /\ db.build \in Nat /\ openedAt \in Nat
  BY <1>1 DEF AnswerInv, Numbers, Databases
<1>3. openedAt <= handle.build /\ handle.build <= builds /\ db.build = builds
  BY <1>1 DEF AnswerInv, HeldUnderNoLaterTime, TheLastIsThere
<1>4. handle.build = db.build
  BY <1>1, <1>2, <1>3
<1> QED
  BY <1>1, <1>4 DEF AnswerInv, HeldUnderNoLaterTime

LEMMA StatAnswers == ASSUME AnswerInv, Stat PROVE AnswerInv'
<1> USE DEF disk, opened, listing, client, history
<1>1. pc = "stat" /\ db # NoDb /\ db \in since /\ UNCHANGED disk
  BY DEF Stat, AnswerInv, SinceIsKept
<1>2. TimeOf(db) \in Nat /\ TimeOf(db) = builds
  BY <1>1 DEF TimeOf, AnswerInv, Numbers, TheLastIsThere, Databases
<1>3. modified' = TimeOf(db) /\ since' = since
  BY DEF Stat
<1>4. CASE SameAsOpen(TimeOf(db))
  <2>1. handle = db
    BY <1>1, <1>4, SameTimeSameDatabase
  <2>2. UNCHANGED opened
    BY <1>4 DEF Stat
  <2>3. (pc' = "beside" /\ answer' = answer) \/ (pc' = "idle" /\ answer' = handle)
    BY <1>4 DEF Stat
  <2>4. Numbers' /\ TheLastIsThere' /\ HeldUnderNoLaterTime'
    BY <1>1, <1>2, <1>3, <2>2 DEF AnswerInv, Numbers, TheLastIsThere, HeldUnderNoLaterTime
  <2>5. ClosedToOpen' /\ SinceIsKept' /\ OpenedIsOfItsTime' /\ RefusedForAReason'
    BY <1>1, <1>3, <2>1, <2>2, <2>3
       DEF AnswerInv, ClosedToOpen, SinceIsKept, OpenedIsOfItsTime, RefusedForAReason, Refusable
  <2>6. handle # Failure
    BY <1>1, <2>1, Different DEF AnswerInv, Numbers
  <2>7. AnswersAreCurrent'
    BY <1>1, <1>3, <2>1, <2>3, <2>6 DEF AnswersAreCurrent
  <2> QED
    BY <2>4, <2>5, <2>7 DEF AnswerInv
<1>5. CASE ~SameAsOpen(TimeOf(db))
  <2>1. handle' = NoDb /\ openedAt' = 0 /\ pc' = "open" /\ answer' = answer
    BY <1>5 DEF Stat
  <2>2. Numbers' /\ TheLastIsThere' /\ HeldUnderNoLaterTime'
    BY <1>1, <1>2, <1>3, <2>1 DEF AnswerInv, Numbers, TheLastIsThere, HeldUnderNoLaterTime
  <2>3. ClosedToOpen'
    BY <1>1, <1>2, <1>3, <2>1 DEF AnswerInv, Numbers, ClosedToOpen
  <2> QED
    BY <1>1, <1>3, <2>1, <2>2, <2>3
       DEF AnswerInv, SinceIsKept, OpenedIsOfItsTime, RefusedForAReason, Refusable,
           AnswersAreCurrent
<1> QED
  BY <1>4, <1>5

LEMMA OpenDbAnswers == ASSUME AnswerInv, OpenDb PROVE AnswerInv'
<1> USE DEF disk, opened, listing, client, history
<1>1. pc = "open" /\ handle = NoDb /\ modified <= builds /\ db \in since /\ UNCHANGED <<disk, client>>
  BY DEF OpenDb, AnswerInv, ClosedToOpen, SinceIsKept
<1>2. CASE Usable(db)
  <2>1. handle' = db /\ openedAt' = modified /\ OpenedFor(db, TRUE) /\ db # NoDb
    BY <1>2 DEF OpenDb, Usable
  <2>2. modified' \in Nat
    BY <2>1 DEF OpenedFor, Replies, AnswerInv, Numbers
  <2>3. Numbers'
    BY <1>1, <2>1, <2>2 DEF AnswerInv, Numbers
  <2>4. HeldUnderNoLaterTime'
    BY <1>1, <2>1 DEF AnswerInv, Numbers, Databases, TheLastIsThere, HeldUnderNoLaterTime
  <2> QED
    BY <1>1, <2>1, <2>3, <2>4, OpeningAnswers
<1>3. CASE ~Usable(db)
  <2>1. UNCHANGED opened /\ OpenedFor(Failure, FALSE)
    BY <1>3 DEF OpenDb
  <2>2. modified' \in Nat
    BY <2>1 DEF OpenedFor, Replies, AnswerInv, Numbers
  <2>3. Numbers' /\ HeldUnderNoLaterTime'
    BY <1>1, <2>1, <2>2 DEF AnswerInv, Numbers, HeldUnderNoLaterTime
  <2>4. Refusable
    BY <1>1, <1>3 DEF Refusable
  <2> QED
    BY <1>1, <2>1, <2>3, <2>4, OpeningAnswers
<1> QED
  BY <1>2, <1>3

LEMMA DecideAnswers == ASSUME AnswerInv, Decide PROVE AnswerInv'
<1>1. pc = "beside" /\ pc' = "stamp"
  BY DEF Decide
<1>2. UNCHANGED <<disk, handle, openedAt, modified, history>>
  BY DEF Decide
<1> QED
  BY <1>1, <1>2 DEF AnswerInv, Numbers, TheLastIsThere, HeldUnderNoLaterTime, ClosedToOpen,
                    SinceIsKept, OpenedIsOfItsTime, RefusedForAReason, Refusable,
                    AnswersAreCurrent, disk, history

LEMMA StampItAnswers == ASSUME AnswerInv, StampIt PROVE AnswerInv'
<1> USE DEF disk, opened, history
<1>1. pc = "stamp" /\ since' = since /\ modified' \in Nat /\ UNCHANGED <<disk, opened>>
  BY DEF StampIt, Finishes, Replies, AnswerInv, Numbers
<1>2. \/ pc' = "idle" /\ answer' = NoAnswer
      \/ pc' = "idle" /\ answer' = IF answer = Failure \/ handle = NoDb THEN Failure ELSE handle
      \/ pc' = "exists" /\ answer' = answer
  BY DEF StampIt, Finishes, Replies
<1>3. Numbers' /\ TheLastIsThere' /\ HeldUnderNoLaterTime'
  BY <1>1 DEF AnswerInv, Numbers, TheLastIsThere, HeldUnderNoLaterTime
<1>4. ClosedToOpen' /\ SinceIsKept' /\ OpenedIsOfItsTime' /\ RefusedForAReason'
  BY <1>1, <1>2 DEF AnswerInv, ClosedToOpen, SinceIsKept, OpenedIsOfItsTime,
                    RefusedForAReason, Refusable
<1>5. answer = Failure \/ handle = NoDb => Refusable
  BY <1>1 DEF AnswerInv, RefusedForAReason, OpenedIsOfItsTime
<1>6. handle # NoDb => handle \in since /\ handle # Failure
  BY <1>1, Different DEF AnswerInv, OpenedIsOfItsTime, Numbers
<1>7. AnswersAreCurrent'
  BY <1>1, <1>2, <1>5, <1>6, Different DEF AnswersAreCurrent, Refusable
<1> QED
  BY <1>3, <1>4, <1>7 DEF AnswerInv

\* Whatever is replaced or removed between any two looks, a request is answered
\* from a database that was there since it was asked, and refused only if at
\* some time since there was none that could be read.
THEOREM AnswersAreOfTheirTime == Spec => []AnswersAreCurrent
<1>1. AnswerInv /\ [Next]_vars => AnswerInv'
  <2>1. ASSUME AnswerInv, UNCHANGED vars PROVE AnswerInv'
    BY <2>1 DEF AnswerInv, Numbers, TheLastIsThere, HeldUnderNoLaterTime, ClosedToOpen,
                SinceIsKept, OpenedIsOfItsTime, RefusedForAReason, Refusable,
                AnswersAreCurrent, vars, disk, opened, doing, history
  <2> QED
    BY <2>1, WorldAnswers, RequestAnswers, ExistsAnswers, VanishedAnswers, StatAnswers,
       OpenDbAnswers, DecideAnswers, StampItAnswers DEF Next, Serve
<1>2. AnswerInv => AnswersAreCurrent
  BY DEF AnswerInv
<1> QED
  BY <1>1, <1>2, InitAnswers, PTL DEF Spec
=============================================================================
