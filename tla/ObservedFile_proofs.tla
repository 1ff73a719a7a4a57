------------------------- MODULE ObservedFile_proofs -------------------------
(***************************************************************************)
(* Proofs about the observed file.                                         *)
(*                                                                         *)
(* Its writers, ObservedFile: for any number of processes, whatever they   *)
(* do between one call and the next and whenever they die, one writes at a *)
(* time and nothing saved is lost until a process has unlinked what a      *)
(* running one created, having looked at another's lock or waited long     *)
(* enough for its pid; and who has waited long enough asks only so often   *)
(* again.                                                                  *)
(*                                                                         *)
(* What they make of it, ObservedWindow: however trace files are spread    *)
(* over runs, the hours the window never cut hold every span once and show *)
(* the failures one run would, for any files, any clock and any windows.   *)
(***************************************************************************)
EXTENDS ObservedFile, ObservedWindow, FiniteSetTheorems, WellFoundedInduction, TLAPS

\* Who creates a lock has stopped asking for good.
Began == Holding \union {"ended", "dead"}

\* A lock says its creator or nothing, whether it is at the path or was when a
\* process looked.
Signed(l) == l.says \in {Empty, l.by} /\ (l.by \in Writers => pc[l.by] \in Began)

LocksAreSigned == lock # NoLock => Signed(lock)

LooksAreSigned ==
    \A p \in Writers : pc[p] \in {"judge", "unlink"} => looked[p] \in Locks /\ Signed(looked[p])

\* What was found stale when it was judged is stale when the lock is unlinked:
\* a process that is gone stays so.
JudgementsStand == \A p \in Writers : pc[p] = "unlink" => Stale(p)

\* Who holds the lock has created what is at the path, and has written its pid
\* unless it is about to.
HoldersHaveIt ==
    \A p \in Writers : pc[p] \in Holding =>
        /\ lock # NoLock
        /\ lock.by = p
        /\ lock.says = IF pc[p] = "created" THEN Empty ELSE p

\* What a writer has read is what is in the file.
CopiesAreCurrent == \A p \in Writers : pc[p] = "loaded" => copy[p] = file

LookInv == TypeOK /\ LocksAreSigned /\ LooksAreSigned /\ JudgementsStand

FileInv ==
    /\ LookInv
    /\ ~mistaken => HoldersHaveIt /\ CopiesAreCurrent /\ NothingSavedIsLost

-----------------------------------------------------------------------------
LEMMA InitHolds == Init => FileInv
<1> SUFFICES ASSUME Init PROVE FileInv
  OBVIOUS
<1> USE DEF Init, Nothing
<1>1. TypeOK
  <2>1. lock \in Locks \union {NoLock}
    BY DEF Locks
  <2>2. mistaken \in BOOLEAN
    OBVIOUS
  <2>3. copy \in [Writers -> [Writers -> Nat]]
    OBVIOUS
  <2> QED
    BY <2>1, <2>2, <2>3 DEF TypeOK
<1>2. LocksAreSigned
  BY ObservedFileAssumption DEF LocksAreSigned, Signed
<1>3. LooksAreSigned /\ JudgementsStand
  BY DEF LooksAreSigned, JudgementsStand
<1>4. HoldersHaveIt /\ CopiesAreCurrent /\ NothingSavedIsLost
  BY DEF HoldersHaveIt, Holding, Writing, CopiesAreCurrent, NothingSavedIsLost
<1> QED
  BY <1>1, <1>2, <1>3, <1>4 DEF FileInv, LookInv

LEMMA StopsTyped ==
    ASSUME TypeOK, NEW p \in Writers, StopsAsking(p)
    PROVE  /\ looked' \in [Writers -> Locks \union {NoLock}]
           /\ empties' \in [Writers -> Nat]
           /\ late' \in [Writers -> BOOLEAN]
<1>1. looked' \in [Writers -> Locks \union {NoLock}]
  BY DEF TypeOK, StopsAsking
<1>2. empties' \in [Writers -> Nat]
  BY DEF TypeOK, StopsAsking
<1>3. late' \in [Writers -> BOOLEAN]
  BY DEF TypeOK, StopsAsking
<1> QED
  BY <1>1, <1>2, <1>3

\* The types a step keeps.
LEMMA StepTyped ==
    ASSUME TypeOK, NEW p \in Writers, Step(p) PROVE TypeOK'
<1> USE DEF TypeOK, Goes, wait, data
<1>1. CASE Start(p)
  BY <1>1 DEF Start, Asking
<1>2. CASE Open(p)
  <2>1. CASE lock = NoLock
    BY <1>2, <2>1, StopsTyped DEF Open, Asking, Holding, Locks
  <2>2. CASE lock # NoLock
    BY <1>2, <2>2 DEF Open, Asking
  <2> QED
    BY <2>1, <2>2
<1>3. CASE WritePid(p)
  BY <1>3 DEF WritePid, Holding, Writing, Locks
<1>4. CASE Look(p)
  <2>1. CASE lock = NoLock
    BY <1>4, <2>1 DEF Look, Asking
  <2>2. CASE lock # NoLock
    <3>1. looked' \in [Writers -> Locks \union {NoLock}]
      BY <1>4, <2>2 DEF Look
    <3>2. empties' \in [Writers -> Nat]
      BY <1>4, <2>2 DEF Look
    <3> QED
      BY <1>4, <2>2, <3>1, <3>2 DEF Look, Asking
  <2> QED
    BY <2>1, <2>2
<1>5. CASE Judge(p)
  <2>0. AfterLooking(p) \in {"unlink", "refused", "open"}
    BY DEF AfterLooking
  <2>1. CASE ~Stale(p) /\ late[p]
    BY <1>5, <2>0, <2>1, StopsTyped DEF Judge, Asking, Gone
  <2>2. CASE ~(~Stale(p) /\ late[p])
    BY <1>5, <2>0, <2>2 DEF Judge, Asking, Gone
  <2> QED
    BY <2>1, <2>2
<1>6. CASE Unlink(p)
  BY <1>6 DEF Unlink, Asking
<1>7. CASE TimePasses(p)
  BY <1>7 DEF TimePasses
<1>8. CASE Load(p)
  BY <1>8 DEF Load, Loaded, Holding, Writing
<1>9. CASE Save(p)
  <2>1. [copy[p] EXCEPT ![p] = @ + 1] \in [Writers -> Nat]
    OBVIOUS
  <2> QED
    BY <1>9, <2>1 DEF Save, Nothing, Holding, Writing
<1>10. CASE Leave(p)
  BY <1>10 DEF Leave, Nothing, Holding
<1>11. CASE Check(p)
  BY <1>11 DEF Check, Holding, Gone
<1>12. CASE Remove(p)
  BY <1>12 DEF Remove, Gone
<1>13. CASE Die(p)
  BY <1>13, StopsTyped DEF Die, Nothing, Gone
<1> QED
  BY <1>1, <1>2, <1>3, <1>4, <1>5, <1>6, <1>7, <1>8, <1>9, <1>10, <1>11, <1>12, <1>13
     DEF Step, Proceed

-----------------------------------------------------------------------------
(***************************************************************************)
(* One step of a process p keeps what is known of looks, whatever others   *)
(* have done to the lock since.                                            *)
(***************************************************************************)

\* Only p has done anything.
Alone(p) ==
    \A q \in Writers : q # p =>
        pc'[q] = pc[q] /\ looked'[q] = looked[q] /\ empties'[q] = empties[q]

LEMMA OnlyItself ==
    ASSUME TypeOK, NEW p \in Writers, Step(p) PROVE Alone(p)
BY DEF Alone, TypeOK, Step, Proceed, Start, Open, WritePid, Look, Judge, Unlink, TimePasses, Load,
       Save, Leave, Check, Remove, Die, Goes, StopsAsking, wait

\* Where a step leads: who has begun asks no more, and who is gone stays so.
LEMMA Onward ==
    ASSUME TypeOK, NEW p \in Writers, Step(p), NEW q \in Writers
    PROVE  /\ pc[q] \in Began => pc'[q] \in Began
           /\ pc[q] \in Began /\ ~Running(q) => ~Running(q)'
           /\ pc'[q] \in Holding => pc[q] \in Holding \/ (q = p /\ Open(p) /\ lock = NoLock)
<1>1. Alone(p)
  BY OnlyItself
<1>2. CASE q # p
  BY <1>1, <1>2 DEF Alone, Running
<1>3. CASE q = p
  <2> USE <1>3 DEF TypeOK, Goes, Began, Holding, Writing, Gone, Running
  <2>1. CASE Start(p) \/ WritePid(p) \/ Check(p) \/ Remove(p)
    BY <2>1 DEF Start, WritePid, Check, Remove
  <2>2. CASE Open(p)
    BY <2>2 DEF Open
  <2>3. CASE Look(p) \/ Unlink(p) \/ TimePasses(p)
    BY <2>3 DEF Look, Unlink, TimePasses, Asking
  <2>4. CASE Judge(p)
    BY <2>4 DEF Judge, AfterLooking
  <2>5. CASE Load(p) \/ Save(p) \/ Leave(p) \/ Die(p)
    BY <2>5 DEF Load, Save, Leave, Die
  <2> QED
    BY <2>1, <2>2, <2>3, <2>4, <2>5 DEF Step, Proceed
<1> QED
  BY <1>2, <1>3

\* The lock after a step is the one before, one just created, or none.
LEMMA LockAfter ==
    ASSUME LookInv, NEW p \in Writers, Step(p)
    PROVE  \/ lock' = lock
           \/ lock' = NoLock /\ (Unlink(p) \/ Remove(p))
           \/ Open(p) /\ lock = NoLock /\ lock' = [by |-> p, says |-> Empty]
           \/ WritePid(p) /\ lock # NoLock /\ lock.by = p /\ lock' = [by |-> p, says |-> p]
<1>1. CASE WritePid(p)
  <2>1. CASE lock # NoLock /\ lock.by = p
    <3>1. lock \in Locks
      BY <2>1 DEF LookInv, TypeOK
    <3> QED
      BY <1>1, <2>1, <3>1 DEF WritePid, Locks
  <2>2. CASE ~(lock # NoLock /\ lock.by = p)
    BY <1>1, <2>2 DEF WritePid
  <2> QED
    BY <2>1, <2>2
<1>2. CASE Open(p)
  BY <1>2 DEF Open
<1>3. CASE Unlink(p) \/ Remove(p)
  BY <1>3 DEF Unlink, Remove
<1>4. CASE \/ Start(p) \/ Look(p) \/ Judge(p) \/ TimePasses(p) \/ Load(p) \/ Save(p)
          \/ Leave(p) \/ Check(p) \/ Die(p)
  BY <1>4 DEF Start, Look, Judge, TimePasses, Load, Save, Leave, Check, Die
<1> QED
  BY <1>1, <1>2, <1>3, <1>4 DEF Step, Proceed

LEMMA SignedStays ==
    ASSUME TypeOK, NEW p \in Writers, Step(p), NEW l, Signed(l)
    PROVE  l.says \in {Empty, l.by} /\ (l.by \in Writers => pc'[l.by] \in Began)
BY Onward DEF Signed

LEMMA LookStep ==
    ASSUME LookInv, NEW p \in Writers, Step(p) PROVE LookInv'
<1> USE DEF LookInv
<1>1. TypeOK' /\ Alone(p)
  BY StepTyped, OnlyItself
<1>2. LocksAreSigned'
  <2>1. CASE lock' = lock
    BY <2>1, SignedStays DEF LocksAreSigned, Signed
  <2>2. CASE Open(p) /\ lock = NoLock /\ lock' = [by |-> p, says |-> Empty]
    <3>1. pc'[p] = "created"
      BY <2>2 DEF Open, Goes, TypeOK
    <3> QED
      BY <2>2, <3>1 DEF LocksAreSigned, Signed, Began, Holding
  <2>3. CASE WritePid(p) /\ lock' = [by |-> p, says |-> p]
    <3>1. pc'[p] = "held"
      BY <2>3 DEF WritePid, Goes, TypeOK
    <3> QED
      BY <2>3, <3>1 DEF LocksAreSigned, Signed, Began, Holding, Writing
  <2>4. CASE lock' = NoLock
    BY <2>4 DEF LocksAreSigned
  <2> QED
    BY <2>1, <2>2, <2>3, <2>4, LockAfter
<1>3. LooksAreSigned'
  <2> SUFFICES ASSUME NEW q \in Writers, pc'[q] \in {"judge", "unlink"}
               PROVE  /\ looked'[q] \in Locks
                      /\ looked'[q].says \in {Empty, looked'[q].by}
                      /\ looked'[q].by \in Writers => pc'[looked'[q].by] \in Began
    BY DEF LooksAreSigned, Signed
  <2>1. CASE q = p /\ Look(p)
    <3>1. looked'[p] = lock /\ lock # NoLock /\ lock \in Locks
      BY <2>1 DEF Look, Goes, TypeOK
    <3>2. Signed(lock)
      BY <3>1 DEF LocksAreSigned
    <3> QED
      BY <2>1, <3>1, <3>2, SignedStays
  <2>2. CASE ~(q = p /\ Look(p))
    <3>1. pc[q] \in {"judge", "unlink"} /\ looked'[q] = looked[q]
      <4>1. CASE q # p
        BY <1>1, <4>1 DEF Alone
      <4>2. CASE q = p
        <5>1. Judge(p) \/ TimePasses(p)
          BY <2>2, <4>2 DEF TypeOK, Step, Proceed, Start, Open, WritePid, Unlink, Load, Save,
                            Leave, Check, Remove, Die, Goes
        <5> QED
          BY <4>2, <5>1 DEF Judge, TimePasses, Goes, AfterLooking, TypeOK, wait
      <4> QED
        BY <4>1, <4>2
    <3>2. looked[q] \in Locks /\ Signed(looked[q])
      BY <3>1 DEF LooksAreSigned
    <3> QED
      BY <3>1, <3>2, SignedStays
  <2> QED
    BY <2>1, <2>2
<1>4. JudgementsStand'
  <2> SUFFICES ASSUME NEW q \in Writers, pc'[q] = "unlink" PROVE Stale(q)'
    BY DEF JudgementsStand
  <2>1. /\ pc[q] \in {"judge", "unlink"} /\ Stale(q)
        /\ looked'[q] = looked[q] /\ empties'[q] = empties[q]
    <3>1. CASE q # p
      BY <1>1, <3>1 DEF Alone, JudgementsStand
    <3>2. CASE q = p
      <4>1. Judge(p) \/ TimePasses(p)
        BY <3>2 DEF TypeOK, Step, Proceed, Start, Open, WritePid, Look, Unlink, Load, Save, Leave,
                    Check, Remove, Die, Goes
      <4> QED
        BY <3>2, <4>1 DEF Judge, TimePasses, Goes, AfterLooking, TypeOK, wait, JudgementsStand
    <3> QED
      BY <3>1, <3>2
  <2>2. PICK r : r = looked[q].says
    OBVIOUS
  <2>3. ~Running(r) => ~Running(r)'
    <3>1. CASE r \in Writers
      <4>1. pc[r] \in Began
        BY <2>1, <2>2, <3>1, ObservedFileAssumption DEF LooksAreSigned, Signed
      <4> QED
        BY <3>1, <4>1, Onward
    <3>2. CASE r \notin Writers
      BY <3>2 DEF Running
    <3> QED
      BY <3>1, <3>2
  <2>4. r # Empty => ~Running(r)
    BY <2>1, <2>2 DEF Stale
  <2>5. IF r = Empty THEN empties'[q] > EmptyLooks ELSE ~Running(r)'
    BY <2>1, <2>2, <2>3, <2>4 DEF Stale
  <2> QED
    BY <2>1, <2>2, <2>5 DEF Stale, Running
<1> QED
  BY <1>1, <1>2, <1>3, <1>4

-----------------------------------------------------------------------------
(***************************************************************************)
(* What the lock is for.                                                   *)
(***************************************************************************)

\* Until a lock is unlinked by mistake, what a process unlinks or removes is
\* nobody else's who is at work.
LEMMA NobodyElsesGoes ==
    ASSUME FileInv, ~mistaken, ~mistaken', NEW p \in Writers, Unlink(p) \/ Remove(p),
           NEW q \in Writers, pc[q] \in Holding
    PROVE  q = p
<1>1. lock # NoLock /\ lock.by = q
  BY DEF FileInv, HoldersHaveIt
<1>2. CASE Remove(p)
  BY <1>1, <1>2 DEF Remove, Goes, FileInv, HoldersHaveIt, Holding
<1>3. CASE Unlink(p)
  <2>1. pc[p] = "unlink" /\ ~Mistakes(p)
    BY <1>3 DEF Unlink, Goes
  <2>2. Running(lock.by)
    BY <1>1 DEF Running, Holding, Writing, Gone
  <2>3. lock.by = looked[p].by /\ ~(looked[p].says = Empty /\ empties[p] > EmptyLooks)
    BY <1>1, <2>1, <2>2 DEF Mistakes
  <2>4. Stale(p) /\ looked[p].says \in {Empty, looked[p].by}
    BY <2>1 DEF FileInv, LookInv, JudgementsStand, LooksAreSigned, Signed
  <2>5. FALSE
    BY <2>2, <2>3, <2>4 DEF Stale
  <2> QED
    BY <2>5
<1> QED
  BY <1>2, <1>3

LEMMA HoldersStep ==
    ASSUME FileInv, ~mistaken, ~mistaken', NEW p \in Writers, Step(p) PROVE HoldersHaveIt'
<1> USE DEF FileInv, LookInv
<1>0. Alone(p)
  BY OnlyItself
<1> SUFFICES ASSUME NEW q \in Writers, pc'[q] \in Holding
             PROVE  /\ lock' # NoLock
                    /\ lock'.by = q
                    /\ lock'.says = IF pc'[q] = "created" THEN Empty ELSE q
  BY DEF HoldersHaveIt
<1>1. CASE q = p /\ Open(p) /\ lock = NoLock
  <2>1. lock' = [by |-> p, says |-> Empty] /\ pc'[p] = "created"
    BY <1>1 DEF Open, Goes, TypeOK
  <2>2. lock' # NoLock
    BY <2>1, ObservedFileAssumption DEF Locks
  <2> QED
    BY <1>1, <2>1, <2>2
<1>2. CASE pc[q] \in Holding
  <2>1. /\ lock # NoLock /\ lock.by = q
        /\ lock.says = IF pc[q] = "created" THEN Empty ELSE q
    BY <1>2 DEF HoldersHaveIt
  <2>2. CASE lock' = lock
    <3>1. pc'[q] = "created" <=> pc[q] = "created"
      <4>1. CASE q # p
        BY <1>0, <4>1 DEF Alone
      <4>2. CASE q = p
        <5>1. ~Open(p)
          BY <1>2, <4>2 DEF Open, Goes, Holding, Writing
        <5>2. pc'[p] = "created" => pc[p] = "created"
          BY <4>2, <5>1 DEF TypeOK, Step, Proceed, Start, WritePid, Look, Judge, AfterLooking,
                            Unlink, TimePasses, Load, Save, Leave, Check, Remove, Die, Goes
        <5>3. WritePid(p) => lock' = [lock EXCEPT !.says = p]
          BY <2>1, <4>2 DEF WritePid
        <5>4. WritePid(p) => lock'.says = p
          <6>1. lock \in Locks
            BY <2>1 DEF TypeOK
          <6> QED
            BY <5>3, <6>1 DEF Locks
        <5>5. WritePid(p) => FALSE
          BY <2>1, <2>2, <4>2, <5>4, ObservedFileAssumption DEF WritePid, Goes
        <5>6. pc[p] = "created" => pc'[p] = "created"
          BY <1>2, <4>2, <5>1, <5>5, <1>0 DEF TypeOK, Step, Proceed, Start, Look, Judge, Unlink,
                 TimePasses, Load, Save, Leave, Check, Remove, Die, Goes, Asking, Writing, Holding
        <5> QED
          BY <4>2, <5>2, <5>6
      <4> QED
        BY <4>1, <4>2
    <3> QED
      BY <2>1, <2>2, <3>1
  <2>3. CASE lock' = NoLock /\ (Unlink(p) \/ Remove(p))
    <3>1. q = p
      BY <1>2, <2>3, NobodyElsesGoes
    <3>2. pc'[p] \notin Holding
      BY <2>3 DEF Unlink, Remove, Goes, TypeOK, Holding, Writing
    <3> QED
      BY <3>1, <3>2
  <2>4. CASE WritePid(p) /\ lock.by = p /\ lock' = [by |-> p, says |-> p]
    <3>1. q = p /\ pc'[p] = "held" /\ lock' # NoLock
      BY <2>1, <2>4, ObservedFileAssumption DEF WritePid, Goes, TypeOK, Locks
    <3> QED
      BY <2>4, <3>1
  <2> QED
    BY <2>1, <2>2, <2>3, <2>4, LockAfter
<1> QED
  BY <1>1, <1>2, Onward

LEMMA OneHolder == HoldersHaveIt => OneWriter
BY DEF OneWriter, HoldersHaveIt, Holding

\* Once mistaken, for ever.
LEMMA MistakesStay ==
    ASSUME TypeOK, NEW p \in Writers, Step(p), ~mistaken' PROVE ~mistaken
BY DEF Step, Proceed, Start, Open, WritePid, Look, Judge, Unlink, TimePasses, Load, Save, Leave,
       Check, Remove, Die, data

LEMMA FileStep ==
    ASSUME FileInv, NEW p \in Writers, Step(p) PROVE FileInv'
<1> USE DEF FileInv
<1>0. LookInv'
  BY LookStep
<1> SUFFICES ASSUME ~mistaken' PROVE (HoldersHaveIt /\ CopiesAreCurrent /\ NothingSavedIsLost)'
  BY <1>0
<1>1. /\ ~mistaken /\ HoldersHaveIt /\ CopiesAreCurrent /\ NothingSavedIsLost
      /\ TypeOK /\ OneWriter /\ HoldersHaveIt'
  BY MistakesStay, HoldersStep, OneHolder DEF LookInv
<1>2. CASE Save(p)
  <2>1. copy[p] = file /\ file = saved
    BY <1>1, <1>2 DEF Save, Goes, CopiesAreCurrent, NothingSavedIsLost
  <2>2. NothingSavedIsLost'
    BY <1>2, <2>1 DEF Save, NothingSavedIsLost
  <2>3. \A q \in Writers : pc'[q] # "loaded"
    BY <1>1, <1>2 DEF Save, Goes, OneWriter, Writing, TypeOK
  <2> QED
    BY <1>1, <2>2, <2>3 DEF CopiesAreCurrent
<1>3. CASE Load(p)
  BY <1>1, <1>3 DEF Load, Loaded, Goes, TypeOK, CopiesAreCurrent, NothingSavedIsLost
<1>4. CASE \/ Start(p) \/ Open(p) \/ WritePid(p) \/ Look(p) \/ Judge(p) \/ Unlink(p)
          \/ TimePasses(p) \/ Leave(p) \/ Check(p) \/ Remove(p) \/ Die(p)
  <2>1. UNCHANGED <<file, saved>>
    BY <1>4 DEF Start, Open, WritePid, Look, Judge, Unlink, TimePasses, Leave, Check, Remove, Die,
                data
  <2>2. \A q \in Writers : pc'[q] = "loaded" => pc[q] = "loaded" /\ copy'[q] = copy[q]
    BY <1>1, <1>4 DEF Start, Open, WritePid, Look, Judge, Unlink, TimePasses, Leave, Check, Remove,
                Die, data, Goes, AfterLooking, TypeOK
  <2> QED
    BY <1>1, <2>1, <2>2 DEF CopiesAreCurrent, NothingSavedIsLost
<1> QED
  BY <1>2, <1>3, <1>4 DEF Step, Proceed

LEMMA StutterKeeps ==
    ASSUME FileInv, UNCHANGED vars PROVE FileInv'
BY DEF FileInv, LookInv, TypeOK, HoldersHaveIt, LocksAreSigned, LooksAreSigned, JudgementsStand,
       Signed, Stale, CopiesAreCurrent, NothingSavedIsLost, Running, vars, wait, data

LEMMA FileInvHolds == Spec => []FileInv
<1>1. FileInv /\ [Next]_vars => FileInv'
  BY FileStep, StutterKeeps DEF Next
<1> QED
  BY InitHolds, <1>1, PTL DEF Spec

\* Whatever order the calls come in, what a writer holds and counts, and what
\* the lock and the file say, is what the code's types say.
THEOREM TypeCorrect == Spec => []TypeOK
<1>1. FileInv => TypeOK
  BY DEF FileInv, LookInv
<1> QED
  BY FileInvHolds, <1>1, PTL

\* However many processes ask for the observed file's lock, look at it, take it
\* over, die holding it or give up, in whatever order their calls come, two write
\* the file at a time only after one has unlinked what a running process created
\* (observe/store.ts, unlinkSync of a path looked at before).
THEOREM WritersAreAlone == Spec => []OneWriterUnlessMistaken
<1>1. FileInv => OneWriterUnlessMistaken
  BY OneHolder DEF FileInv, OneWriterUnlessMistaken
<1> QED
  BY FileInvHolds, <1>1, PTL

\* And only then is what one writer has saved not in the file after another has.
THEOREM SavesAreKept == Spec => []SavesAreKeptUnlessMistaken
<1>1. FileInv => SavesAreKeptUnlessMistaken
  BY DEF FileInv, SavesAreKeptUnlessMistaken
<1> QED
  BY FileInvHolds, <1>1, PTL

\* And only by that unlinking does a process at work lose its lock.
THEOREM LocksAreKept == Spec => LockIsKeptUnlessMistaken
<1> DEFINE Kept == \A p \in Writers :
        /\ ~mistaken'
        /\ lock # NoLock /\ lock.by = p /\ pc[p] \in Writing /\ pc'[p] \in Writing
        => lock' # NoLock /\ lock'.by = p
<1>1. FileInv /\ [Next]_vars => [Kept]_vars
  <2> SUFFICES ASSUME FileInv, NEW q \in Writers, Step(q), NEW p \in Writers, ~mistaken',
                      lock # NoLock, lock.by = p, pc[p] \in Writing, pc'[p] \in Writing
               PROVE  lock' # NoLock /\ lock'.by = p
    BY DEF Next
  <2>1. HoldersHaveIt'
    BY HoldersStep, MistakesStay DEF FileInv, LookInv
  <2> QED
    BY <2>1 DEF HoldersHaveIt, Holding
<1> QED
  BY FileInvHolds, <1>1, PTL DEF Spec, LockIsKeptUnlessMistaken

-----------------------------------------------------------------------------
(***************************************************************************)
(* That who asks is answered: once the deadline has passed it asks only so *)
(* often.                                                                  *)
(***************************************************************************)

\* Who may still create a lock.
MayCreate == {q \in Writers : pc[q] \in {"out"} \union Asking}

\* How many steps it is to an answer, if nobody else creates a lock meanwhile.
ToGo(where, free) ==
    IF where = "open" /\ free THEN 1
    ELSE IF where = "unlink" \/ (where = "look" /\ free) THEN 2
    ELSE IF where = "judge" THEN 3
    ELSE IF where = "look" THEN 4
    ELSE 5

\* How many steps a process that is late may still ask: a lock that another creates
\* sets it back by four at most, and each creates one.
StepsToAnswer(p) ==
    IF pc[p] \in Asking
        THEN 5 * Cardinality(MayCreate) + ToGo(pc[p], lock = NoLock) ELSE 0

\* Who creates locks is counted, and fewer are fewer.
LEMMA CreatorsAreCounted ==
    ASSUME IsFiniteSet(Writers), NEW S \in SUBSET Writers
    PROVE  /\ Cardinality(S) \in Nat
           /\ \A T \in SUBSET S : /\ Cardinality(T) \in Nat
                                  /\ Cardinality(T) <= Cardinality(S)
                                  /\ T # S => Cardinality(T) < Cardinality(S)
<1>1. IsFiniteSet(S) /\ Cardinality(S) \in Nat
  BY FS_Subset, FS_CardinalityType
<1>2. ASSUME NEW T \in SUBSET S
      PROVE  /\ Cardinality(T) \in Nat
             /\ Cardinality(T) <= Cardinality(S)
             /\ T # S => Cardinality(T) < Cardinality(S)
  <2>1. /\ IsFiniteSet(T) /\ Cardinality(T) <= Cardinality(S)
        /\ Cardinality(S) = Cardinality(T) => S = T
    BY <1>1, FS_Subset
  <2>2. Cardinality(T) \in Nat
    BY <2>1, FS_CardinalityType
  <2> QED
    BY <1>1, <2>1, <2>2
<1> QED
  BY <1>1, <1>2

\* No step creates a lock but that of a process which then will not create another.
LEMMA OneCreatesOnce ==
    ASSUME TypeOK, NEW q \in Writers, Step(q)
    PROVE  /\ \A p \in Writers \ {q} : pc'[p] = pc[p]
           /\ MayCreate' \subseteq MayCreate
           /\ lock = NoLock /\ lock' # NoLock => q \in MayCreate /\ q \notin MayCreate'
<1>1. pc \in [Writers -> {"out"} \union Asking \union Holding \union Gone]
  BY DEF TypeOK
<1>2. /\ pc' = [pc EXCEPT ![q] = pc'[q]]
      /\ pc'[q] \in {"out"} \union Asking => pc[q] \in {"out"} \union Asking
  <2> USE <1>1 DEF Goes, Asking, Holding, Writing, Gone
  <2>1. CASE Start(q)
    BY <2>1 DEF Start
  <2>2. CASE Open(q)
    BY <2>2 DEF Open
  <2>3. CASE WritePid(q) \/ Unlink(q) \/ Remove(q) \/ Check(q)
    BY <2>3 DEF WritePid, Unlink, Remove, Check
  <2>4. CASE Look(q)
    BY <2>4 DEF Look
  <2>5. CASE Judge(q)
    BY <2>5 DEF Judge, AfterLooking
  <2>6. CASE TimePasses(q)
    BY <2>6 DEF TimePasses
  <2>7. CASE Load(q) \/ Save(q) \/ Leave(q) \/ Die(q)
    BY <2>7 DEF Load, Save, Leave, Die
  <2> QED
    BY <2>1, <2>2, <2>3, <2>4, <2>5, <2>6, <2>7 DEF Step, Proceed
<1>3. lock = NoLock /\ lock' # NoLock => pc[q] \in Asking /\ pc'[q] = "created"
  <2> SUFFICES ASSUME lock = NoLock, lock' # NoLock
               PROVE  pc[q] \in Asking /\ pc'[q] = "created"
    OBVIOUS
  <2>1. Open(q)
    BY DEF Step, Proceed, Start, WritePid, Look, Judge, Unlink, TimePasses, Check, Remove,
           Load, Save, Leave, Die
  <2> QED
    BY <1>1, <2>1 DEF Open, Goes, Asking
<1>4. \A p \in Writers \ {q} : pc'[p] = pc[p]
  BY <1>1, <1>2
<1>5. MayCreate' \subseteq MayCreate
  BY <1>2, <1>4 DEF MayCreate
<1>6. pc'[q] = "created" => q \notin MayCreate'
  BY DEF MayCreate, Asking
<1> QED
  BY <1>3, <1>4, <1>5, <1>6 DEF MayCreate

\* What others do sets a process that asks back by less than the locks they can create.
LEMMA OthersDoNotSetBack ==
    ASSUME IsFiniteSet(Writers), TypeOK, NEW p \in Writers, pc[p] \in Asking,
           NEW q \in Writers \ {p}, Step(q)
    PROVE  StepsToAnswer(p)' \in Nat /\ StepsToAnswer(p)' <= StepsToAnswer(p)
<1> DEFINE c == Cardinality(MayCreate)
           d == Cardinality(MayCreate')
<1>1. MayCreate \in SUBSET Writers /\ MayCreate' \in SUBSET MayCreate
  BY OneCreatesOnce DEF MayCreate
<1>2. c \in Nat /\ d \in Nat /\ d <= c /\ (MayCreate' # MayCreate => d < c)
  BY <1>1, CreatorsAreCounted
<1>3. pc'[p] = pc[p]
  BY OneCreatesOnce
<1>4. lock = NoLock /\ lock' # NoLock => d < c
  BY <1>2, OneCreatesOnce
<1>5. StepsToAnswer(p) = 5 * c + ToGo(pc[p], lock = NoLock)
  BY DEF StepsToAnswer
<1>6. StepsToAnswer(p)' = 5 * d + ToGo(pc[p], lock' = NoLock)
  BY <1>3 DEF StepsToAnswer
<1> HIDE DEF c, d
<1>7. ToGo(pc[p], lock = NoLock) \in 1 .. 5 /\ ToGo(pc[p], lock' = NoLock) \in 1 .. 5
  BY DEF ToGo
<1>8. CASE d < c
  BY <1>2, <1>5, <1>6, <1>7, <1>8
<1>9. CASE ~(lock = NoLock /\ lock' # NoLock)
  <2>1. ToGo(pc[p], lock' = NoLock) <= ToGo(pc[p], lock = NoLock)
    BY <1>9 DEF ToGo
  <2> QED
    BY <1>2, <1>5, <1>6, <1>7, <2>1
<1> QED
  BY <1>4, <1>8, <1>9

\* A step of a process that is late brings it nearer to an answer.
LEMMA TheLateComeNearer ==
    ASSUME IsFiniteSet(Writers), TypeOK, NEW p \in Writers, pc[p] \in Asking, late[p],
           Step(p)
    PROVE  /\ StepsToAnswer(p)' \in Nat /\ StepsToAnswer(p)' <= StepsToAnswer(p)
           /\ Proceed(p) => StepsToAnswer(p)' < StepsToAnswer(p)
<1> DEFINE c == Cardinality(MayCreate)
<1>1. pc \in [Writers -> {"out"} \union Asking \union Holding \union Gone]
  BY DEF TypeOK
<1>2. c \in Nat
  BY CreatorsAreCounted DEF MayCreate
<1>3. StepsToAnswer(p) = 5 * c + ToGo(pc[p], lock = NoLock)
  BY DEF StepsToAnswer
<1>4. pc'[p] \notin Asking => StepsToAnswer(p)' = 0
  BY DEF StepsToAnswer
<1>5. ToGo(pc[p], lock = NoLock) \in 1 .. 5
  BY DEF ToGo
<1>6. ASSUME pc'[p] \in Asking, \A q \in Writers \ {p} : pc'[q] = pc[q]
      PROVE  StepsToAnswer(p)' = 5 * c + ToGo(pc'[p], lock' = NoLock)
  <2>1. MayCreate' = MayCreate
    BY <1>6 DEF MayCreate
  <2> QED
    BY <1>6, <2>1 DEF StepsToAnswer
<1>7. \A q \in Writers \ {p} : pc'[q] = pc[q]
  BY OneCreatesOnce
<1> HIDE DEF c
<1>8. CASE pc'[p] \notin Asking
  BY <1>2, <1>3, <1>4, <1>5, <1>8
<1>9. CASE pc'[p] \in Asking
  <2>1. StepsToAnswer(p)' = 5 * c + ToGo(pc'[p], lock' = NoLock)
    BY <1>6, <1>7, <1>9
  <2>2. ToGo(pc'[p], lock' = NoLock) \in 1 .. 5
    BY DEF ToGo
  <2>3. ToGo(pc'[p], lock' = NoLock) < ToGo(pc[p], lock = NoLock)
    <3> USE <1>1 DEF Goes, Asking, Gone
    <3>1. CASE Open(p)
      BY <1>9, <3>1 DEF Open, ToGo
    <3>2. CASE Look(p)
      BY <3>2 DEF Look, ToGo
    <3>3. CASE Judge(p)
      BY <1>9, <3>3 DEF Judge, AfterLooking, ToGo
    <3>4. CASE Unlink(p)
      BY <3>4 DEF Unlink, ToGo
    <3>5. ~TimePasses(p)
      BY DEF TimePasses
    <3>6. ~Start(p) /\ ~WritePid(p) /\ ~Check(p) /\ ~Remove(p) /\ ~Load(p) /\ ~Save(p)
      BY DEF Start, WritePid, Check, Remove, Load, Save
    <3>7. ~Leave(p) /\ ~Die(p)
      BY <1>9 DEF Leave, Die, Writing
    <3> QED
      BY <3>1, <3>2, <3>3, <3>4, <3>5, <3>6, <3>7 DEF Step, Proceed
  <2> QED
    BY <1>2, <1>3, <1>5, <2>1, <2>2, <2>3
<1> QED
  BY <1>8, <1>9

\* Who asks for the lock is answered (observe/store.ts, acquireObservedLock), as far as
\* it is for the processes to say: no guard of one that asks waits for another, and once
\* its deadline has passed each of its steps brings it nearer to the lock or to a refusal,
\* however many others take the lock, let it go, take it over or die with it meanwhile.
\* That steps are taken, and that the deadline passes, is the fairness EveryoneIsAnswered
\* is checked under.
THEOREM NothingKeepsTheLateAsking ==
    ASSUME IsFiniteSet(Writers)
    PROVE  Spec =>
             [][\A p \in Writers : pc[p] \in Asking /\ late[p] =>
                    /\ StepsToAnswer(p)' \in Nat /\ StepsToAnswer(p)' <= StepsToAnswer(p)
                    /\ Proceed(p) => StepsToAnswer(p)' < StepsToAnswer(p)]_vars
<1> DEFINE Nearer == \A p \in Writers : pc[p] \in Asking /\ late[p] =>
               /\ StepsToAnswer(p)' \in Nat /\ StepsToAnswer(p)' <= StepsToAnswer(p)
               /\ Proceed(p) => StepsToAnswer(p)' < StepsToAnswer(p)
<1>1. TypeOK /\ [Next]_vars => [Nearer]_vars
  <2> SUFFICES ASSUME TypeOK, NEW q \in Writers, Step(q),
                      NEW p \in Writers, pc[p] \in Asking, late[p]
               PROVE  /\ StepsToAnswer(p)' \in Nat /\ StepsToAnswer(p)' <= StepsToAnswer(p)
                      /\ Proceed(p) => StepsToAnswer(p)' < StepsToAnswer(p)
    BY DEF Next
  <2>1. CASE Proceed(p) \/ q = p
    BY <2>1, TheLateComeNearer DEF Step
  <2>2. CASE ~Proceed(p) /\ q # p
    BY <2>2, OthersDoNotSetBack
  <2> QED
    BY <2>1, <2>2
<1> QED
  BY <1>1, TypeCorrect, PTL DEF Spec

-----------------------------------------------------------------------------
(***************************************************************************)
(* What the runs of `flowatlas observe` make of the file: ObservedWindow.  *)
(***************************************************************************)

\* How many of some files have their request in an hour.
CountIn(S, h) == Cardinality({f \in S : at[f] = h})

LEMMA CountsAreNumbers ==
    ASSUME NEW S \in SUBSET Files, NEW h PROVE CountIn(S, h) \in Nat
<1>1. IsFiniteSet({f \in S : at[f] = h})
  BY FS_Subset, WindowAssumption
<1> QED
  BY <1>1, FS_CardinalityType DEF CountIn

\* What a run adds to an hour is what it is the first to read.
LEMMA CountsAddUp ==
    ASSUME NEW S \in SUBSET Files, NEW T \in SUBSET Files, NEW h
    PROVE  CountIn(S \union T, h) = CountIn(S, h) + CountIn(T \ S, h)
<1> DEFINE A == {f \in S : at[f] = h}
           B == {f \in T \ S : at[f] = h}
<1>1. IsFiniteSet(A) /\ IsFiniteSet(B)
  BY FS_Subset, WindowAssumption
<1>2. A \intersect B = {} /\ A \union B = {f \in S \union T : at[f] = h}
  OBVIOUS
<1>3. Cardinality(A \union B) = Cardinality(A) + Cardinality(B) - Cardinality(A \intersect B)
  BY <1>1, FS_Union
<1>4. Cardinality(A) \in Nat /\ Cardinality(B) \in Nat
  BY <1>1, FS_CardinalityType
<1>5. /\ CountIn(S, h) = Cardinality(A)
      /\ CountIn(T \ S, h) = Cardinality(B)
      /\ CountIn(S \union T, h) = Cardinality(A \union B)
  BY <1>2 DEF CountIn
<1> HIDE DEF A, B
<1>6. Cardinality(A \intersect B) = 0
  BY <1>2, FS_EmptySet, Zenon
<1> QED
  BY <1>3, <1>4, <1>5, <1>6

LEMMA NothingIsCountedInNothing == ASSUME NEW h PROVE CountIn({}, h) = 0
<1>1. {f \in {} : at[f] = h} = {}
  OBVIOUS
<1> QED
  BY <1>1, FS_EmptySet DEF CountIn

Kept ==
    /\ at \in [Files -> Hours]
    /\ clock \in Nat
    /\ hours \in [Hours -> Nat]
    /\ sources \in SUBSET Files
    /\ window \in Windows \union {All}
    /\ furthest \in Nat

WindowInv == Kept /\ CountsAreOneRuns

LEMMA CountedIs == ASSUME NEW h PROVE Counted(h) = CountIn(sources, h)
  BY DEF Counted, CountIn

LEMMA InitWindow == WindowInit => WindowInv
<1> SUFFICES ASSUME WindowInit PROVE WindowInv
  OBVIOUS
<1>1. Kept
  BY WindowAssumption DEF WindowInit, Kept, NoSpans, Hours, All
<1>2. ASSUME NEW h \in Hours PROVE hours[h] = 0 /\ Counted(h) = 0
  BY CountedIs, NothingIsCountedInNothing DEF WindowInit, NoSpans
<1> QED
  BY <1>1, <1>2 DEF WindowInv, CountsAreOneRuns

LEMMA RunKeeps ==
    ASSUME WindowInv, NEW named \in SUBSET Files, NEW since \in Windows \union {All, Unsaid},
           NEW reset \in BOOLEAN, NEW samples \in BOOLEAN, Run(named, since, reset, samples)
    PROVE  WindowInv'
<1> DEFINE base == IF reset THEN NoFile ELSE File
           read == named \ base.sources
           cut == IF since = Unsaid THEN base.window ELSE since
           last == IF reset THEN 0 ELSE furthest
<1>1. /\ base.sources \in SUBSET Files
      /\ base.window \in Windows \union {All}
      /\ base.hours \in [Hours -> Nat]
      /\ last \in Nat
  BY DEF WindowInv, Kept, NoFile, File, NoSpans
<1>2. /\ at' = at /\ clock' = clock
      /\ sources' = base.sources \union named
      /\ window' = cut
      /\ furthest' = IF Cutoff(cut) > last THEN Cutoff(cut) ELSE last
      /\ hours' = [h \in Hours |-> IF Inside(h, cut)
                                    THEN Merged(base.hours, SpansOf(read))[h] ELSE 0]
  BY DEF Run, Fresh, world
<1>3. cut \in Windows \union {All}
  BY <1>1
<1> HIDE DEF base, read, cut, last
<1>4. Cutoff(cut) \in Int
  <2>1. clock \in Nat /\ (cut = All \/ cut \in Nat)
    BY <1>3, WindowAssumption DEF WindowInv, Kept
  <2> QED
    BY <2>1 DEF Cutoff
<1>5. furthest' \in Nat /\ furthest' >= Cutoff(cut) /\ furthest' >= last
  BY <1>1, <1>2, <1>4
<1>6. ASSUME NEW h \in Hours
      PROVE  /\ base.hours[h] <= CountIn(base.sources, h)
             /\ h + 1 >= last => base.hours[h] = CountIn(base.sources, h)
  <2>1. CASE reset
    BY <2>1, NothingIsCountedInNothing DEF base, NoFile, NoSpans
  <2>2. CASE ~reset
    BY <2>2, CountedIs DEF base, last, File, WindowInv, CountsAreOneRuns, NeverCut
  <2> QED
    BY <2>1, <2>2
<1>7. ASSUME NEW h \in Hours
      PROVE  Merged(base.hours, SpansOf(read))[h] = base.hours[h] + CountIn(read, h)
  BY <1>7 DEF Merged, SpansOf, CountIn
<1>8. ASSUME NEW h \in Hours
      PROVE  /\ CountIn(base.sources, h) \in Nat
             /\ CountIn(read, h) \in Nat
             /\ base.hours[h] \in Nat
             /\ Counted(h)' = CountIn(base.sources, h) + CountIn(read, h)
  <2>1. read \in SUBSET Files
    BY DEF read
  <2>2. CountIn(base.sources \union named, h) = CountIn(base.sources, h) + CountIn(read, h)
    BY <1>1, CountsAddUp DEF read
  <2>3. Counted(h)' = CountIn(base.sources \union named, h)
    BY <1>2 DEF Counted, CountIn
  <2> QED
    BY <1>1, <2>1, <2>2, <2>3, CountsAreNumbers
<1>9. Kept'
  BY <1>1, <1>2, <1>3, <1>5, <1>7, <1>8 DEF WindowInv, Kept
<1>10. ASSUME NEW h \in Hours
       PROVE  /\ hours'[h] <= Counted(h)'
              /\ NeverCut(h)' => hours'[h] = Counted(h)'
  <2>1. CASE Inside(h, cut)
    <3>1. hours'[h] = base.hours[h] + CountIn(read, h)
      BY <1>2, <1>7, <2>1
    <3>2. NeverCut(h)' => h + 1 >= last
      BY <1>1, <1>5 DEF NeverCut, Hours
    <3> QED
      BY <1>6, <1>8, <3>1, <3>2
  <2>2. CASE ~Inside(h, cut)
    <3>1. hours'[h] = 0
      BY <1>2, <2>2
    <3>2. ~NeverCut(h)'
      BY <1>4, <1>5, <2>2 DEF Inside, NeverCut, Hours
    <3> QED
      BY <1>8, <3>1, <3>2
  <2> QED
    BY <2>1, <2>2
<1> QED
  BY <1>9, <1>10 DEF WindowInv, CountsAreOneRuns

LEMMA StepKeepsWindow ==
    ASSUME WindowInv, [WindowNext]_windowVars PROVE WindowInv'
<1>1. CASE Tick
  BY <1>1, WindowAssumption
     DEF Tick, world, observed, history, WindowInv, Kept, CountsAreOneRuns, Counted, NeverCut
<1>2. CASE UNCHANGED windowVars
  BY <1>2
     DEF windowVars, world, observed, history, WindowInv, Kept, CountsAreOneRuns, Counted,
         NeverCut
<1>3. CASE \E named \in SUBSET Files \ {{}}, since \in Windows \union {All, Unsaid},
              reset, samples \in BOOLEAN : Run(named, since, reset, samples)
  BY <1>3, RunKeeps
<1> QED
  BY <1>1, <1>2, <1>3 DEF WindowNext

\* However the files were spread over runs, read again, and the window moved,
\* widened or reset between them, an hour no cut has reached has every span of
\* every source, once, and no hour has more.
THEOREM HoursAreOneRuns == WindowSpec => []CountsAreOneRuns
<1>1. WindowInv /\ [WindowNext]_windowVars => WindowInv'
  BY StepKeepsWindow
<1>2. WindowInv => CountsAreOneRuns
  BY DEF WindowInv
<1> QED
  BY <1>1, <1>2, InitWindow, PTL DEF WindowSpec

-----------------------------------------------------------------------------
(***************************************************************************)
(* The few that are shown.  Which come first is an order; keeping a few of *)
(* two lists of a few is keeping a few of all there was, because what is   *)
(* left out of a list has enough before it that are on it.                 *)
(***************************************************************************)

LEMMA SomeIsLeast ==
    ASSUME NEW T \in SUBSET Nat, T # {}
    PROVE  \E n \in T : \A m \in T : n <= m
<1>1. PICK n \in T : \A m \in T : <<m, n>> \notin OpToRel(<, Nat)
  BY NatLessThanWellFounded, WFMin
<1>2. ASSUME NEW m \in T PROVE ~(m < n)
  BY <1>1 DEF OpToRel
<1> QED
  BY <1>2

\* Those of S that are shown before f.
Ahead(S, by, f) == {g \in S : Before(by, g, f)}

\* The order is strict: nothing is before itself, and before is transitive.
Ordered(by) ==
    /\ \A f \in Files : ~Before(by, f, f)
    /\ \A f, g, h \in Files : Before(by, f, g) /\ Before(by, g, h) => Before(by, f, h)

LEMMA AheadIsFinite ==
    ASSUME NEW S \in SUBSET Files, NEW by, NEW f
    PROVE  IsFiniteSet(Ahead(S, by, f)) /\ Cardinality(Ahead(S, by, f)) \in Nat
<1>1. IsFiniteSet(S)
  BY FS_Subset, WindowAssumption
<1>2. Ahead(S, by, f) \in SUBSET S
  BY DEF Ahead
<1> QED
  BY <1>1, <1>2, FS_Subset, FS_CardinalityType

LEMMA FewIs ==
    ASSUME NEW S, NEW by
    PROVE  Few(S, by) = {f \in S : Cardinality(Ahead(S, by, f)) < PerEntry}
  BY DEF Few, Ahead

\* What is left out of a list has as many on the list before it as it holds.
LEMMA EnoughAreAhead ==
    ASSUME NEW S \in SUBSET Files, NEW by, Ordered(by), NEW f \in S \ Few(S, by)
    PROVE  \E g \in S \ Few(S, by) :
               /\ g = f \/ Before(by, g, f)
               /\ Ahead(S, by, g) \subseteq Few(S, by)
<1> DEFINE Left == {g \in S \ Few(S, by) : g = f \/ Before(by, g, f)}
           Size(g) == Cardinality(Ahead(S, by, g))
           Sizes == {Size(g) : g \in Left}
<1>1. Sizes \in SUBSET Nat /\ Sizes # {}
  BY AheadIsFinite
<1>2. PICK g \in Left : \A h \in Left : Size(g) <= Size(h)
  <2>1. PICK n \in Sizes : \A m \in Sizes : n <= m
    BY <1>1, SomeIsLeast, Zenon
  <2> QED
    BY <2>1
<1>3. ASSUME NEW h \in Ahead(S, by, g), h \notin Few(S, by) PROVE FALSE
  <2>1. h \in S /\ Before(by, h, g) /\ g \in S /\ f \in S
    BY <1>2 DEF Ahead
  <2>2. h \in Left
    BY <1>2, <1>3, <2>1 DEF Ordered
  <2>3. Ahead(S, by, h) \in SUBSET Ahead(S, by, g)
    BY <2>1 DEF Ahead, Ordered
  <2>4. h \notin Ahead(S, by, h)
    BY <2>1 DEF Ahead, Ordered
  <2>5. /\ Size(h) <= Size(g)
        /\ Size(h) # Size(g)
    BY <1>3, <2>3, <2>4, AheadIsFinite, FS_Subset
  <2>6. Size(h) \in Nat /\ Size(g) \in Nat /\ Size(g) <= Size(h)
    BY <1>2, <2>2, AheadIsFinite
  <2> QED
    BY ONLY <2>5, <2>6
<1> QED
  BY <1>2, <1>3

\* The few of two lists of a few are the few of all that was listed.
LEMMA FewOfFews ==
    ASSUME NEW A \in SUBSET Files, NEW B \in SUBSET Files, NEW by, Ordered(by)
    PROVE  Few(Few(A, by) \union Few(B, by), by) = Few(A \union B, by)
<1> DEFINE U == Few(A, by) \union Few(B, by)
<1>1. U \in SUBSET (A \union B) /\ U \in SUBSET Files
  BY DEF Few
<1>2. ASSUME NEW S \in SUBSET Files, NEW T \in SUBSET S, NEW f
      PROVE  Cardinality(Ahead(T, by, f)) <= Cardinality(Ahead(S, by, f))
  <2>1. Ahead(T, by, f) \in SUBSET Ahead(S, by, f)
    BY DEF Ahead
  <2> QED
    BY <2>1, AheadIsFinite, FS_Subset
<1>3. ASSUME NEW S \in SUBSET Files, NEW T \in SUBSET S, NEW f \in T, f \in Few(S, by)
      PROVE  f \in Few(T, by)
  <2>1. /\ Cardinality(Ahead(T, by, f)) <= Cardinality(Ahead(S, by, f))
        /\ Cardinality(Ahead(T, by, f)) \in Nat /\ Cardinality(Ahead(S, by, f)) \in Nat
        /\ Cardinality(Ahead(S, by, f)) < PerEntry
    BY <1>2, <1>3, AheadIsFinite, FewIs
  <2>2. Cardinality(Ahead(T, by, f)) < PerEntry
    BY <2>1, WindowAssumption
  <2> QED
    BY <2>2, FewIs
<1>4. ASSUME NEW f \in Few(A \union B, by) PROVE f \in Few(U, by)
  <2>1. f \in A \union B
    BY DEF Few
  <2>2. f \in U
    BY <1>3, <2>1
  <2> QED
    BY <1>1, <1>3, <2>2
<1>5. ASSUME NEW f \in Few(U, by), NEW S \in {A, B}, NEW h \in S \ Few(S, by), Before(by, h, f)
      PROVE  FALSE
  <2>1. f \in U /\ f \in Files /\ S \in SUBSET Files /\ Few(S, by) \subseteq U /\ h \in Files
    BY <1>1, <1>5 DEF Few
  <2>2. PICK g \in S \ Few(S, by) :
            (g = h \/ Before(by, g, h)) /\ Ahead(S, by, g) \subseteq Few(S, by)
    BY <1>5, <2>1, EnoughAreAhead
  <2>3. Before(by, g, f) /\ g \in Files
    BY <1>5, <2>1, <2>2 DEF Ordered
  <2>4. Ahead(S, by, g) \in SUBSET Ahead(U, by, f)
    BY <2>1, <2>2, <2>3 DEF Ahead, Ordered
  <2>5. Cardinality(Ahead(S, by, g)) <= Cardinality(Ahead(U, by, f))
    BY <1>1, <2>4, AheadIsFinite, FS_Subset
  <2>6. /\ ~(Cardinality(Ahead(S, by, g)) < PerEntry)
        /\ Cardinality(Ahead(U, by, f)) < PerEntry
    BY <1>5, <2>2, FewIs
  <2> QED
    BY <1>1, <2>1, <2>5, <2>6, AheadIsFinite, WindowAssumption
<1>6. ASSUME NEW f \in Few(U, by) PROVE f \in Few(A \union B, by)
  <2>1. f \in A \union B
    BY <1>1 DEF Few
  <2>2. Ahead(A \union B, by, f) = Ahead(U, by, f)
    BY <1>1, <1>5, <1>6 DEF Ahead
  <2>3. Cardinality(Ahead(U, by, f)) < PerEntry
    BY FewIs
  <2> QED
    BY <2>1, <2>2, <2>3, FewIs
<1> QED
  BY <1>4, <1>6

\* Where what is before any of N is in N, the few of those in N are those of
\* the few that are in N.
LEMMA FewWithin ==
    ASSUME NEW S, NEW N, NEW by, \A f, g \in S : f \in N /\ Before(by, g, f) => g \in N
    PROVE  Few(S \intersect N, by) = Few(S, by) \intersect N
<1>1. ASSUME NEW f \in S \intersect N PROVE Ahead(S \intersect N, by, f) = Ahead(S, by, f)
  BY DEF Ahead
<1>2. ASSUME NEW f PROVE f \in Few(S \intersect N, by) <=> f \in Few(S, by) \intersect N
  BY <1>1, FewIs
<1> QED
  BY <1>2

LEMMA LaterIsAnOrder ==
    ASSUME at \in [Files -> Hours] PROVE Ordered("latest")
<1>1. ASSUME NEW f \in Files PROVE f \in Nat /\ at[f] \in Nat
  BY WindowAssumption DEF Hours
<1> QED
  BY <1>1 DEF Ordered, Before, Later

ShownInv ==
    /\ WindowInv
    /\ failing \in SUBSET Files
    /\ sampled \in SUBSET sources
    /\ FailingAreOneRuns

\* Since is how far a cut has gone: the files of the hours it has not reached.
Reached(last) == {f \in Files : at[f] + 1 >= last}

LEMMA ReachedIsUpward ==
    ASSUME at \in [Files -> Hours], NEW last \in Nat, NEW S \in SUBSET Files
    PROVE  Few(S \intersect Reached(last), "latest") = Few(S, "latest") \intersect Reached(last)
<1>1. ASSUME NEW f \in S, NEW g \in S, f \in Reached(last), Before("latest", g, f)
      PROVE  g \in Reached(last)
  <2>1. at[f] \in Nat /\ at[g] \in Nat
    BY DEF Hours
  <2> QED
    BY <1>1, <2>1 DEF Reached, Before, Later
<1> QED
  BY <1>1, FewWithin

LEMMA ShownIs ==
    ASSUME failing \in SUBSET Files, sampled \in SUBSET Files
    PROVE  FailingAreOneRuns <=>
               failing \intersect Reached(furthest) =
                   Few(sampled \intersect Reached(furthest), "latest")
<1>1. /\ {f \in failing : NeverCut(at[f])} = failing \intersect Reached(furthest)
      /\ {f \in sampled : NeverCut(at[f])} = sampled \intersect Reached(furthest)
  BY DEF Reached, NeverCut
<1> QED
  BY <1>1 DEF FailingAreOneRuns

LEMMA FewOfNothing == ASSUME NEW by PROVE Few({}, by) = {}
  BY DEF Few

LEMMA InitShown == WindowInit => ShownInv
<1> SUFFICES ASSUME WindowInit PROVE ShownInv
  OBVIOUS
<1>1. failing = {} /\ sampled = {} /\ sources = {}
  BY DEF WindowInit
<1> QED
  BY <1>1, InitWindow, FewOfNothing, ShownIs DEF ShownInv

LEMMA RunShows ==
    ASSUME ShownInv, NEW named \in SUBSET Files, NEW since \in Windows \union {All, Unsaid},
           NEW reset \in BOOLEAN, NEW samples \in BOOLEAN, Run(named, since, reset, samples)
    PROVE  ShownInv'
<1> DEFINE base == IF reset THEN NoFile ELSE File
           read == named \ base.sources
           cut == IF since = Unsaid THEN base.window ELSE since
           last == IF reset THEN 0 ELSE furthest
           seen == IF reset THEN {} ELSE sampled
           kept == Few(base.failing \union Few(read, "latest"), "latest")
<1>1. /\ base.sources \in SUBSET Files /\ base.failing \in SUBSET Files
      /\ base.window \in Windows \union {All} /\ seen \in SUBSET base.sources
      /\ last \in Nat /\ at \in [Files -> Hours] /\ clock \in Nat
  BY DEF ShownInv, WindowInv, Kept, NoFile, File
<1>2. /\ at' = at
      /\ failing' = IF samples THEN Cut(kept, cut) ELSE {}
      /\ sampled' = IF ~samples THEN {} ELSE read \union seen
      /\ sources' = base.sources \union named
      /\ furthest' = IF Cutoff(cut) > last THEN Cutoff(cut) ELSE last
  BY DEF Run, Fresh, KeepFew, world
<1>3. base.failing \intersect Reached(last) = Few(seen \intersect Reached(last), "latest")
  <2>1. CASE reset
    BY <2>1, FewOfNothing DEF NoFile
  <2>2. CASE ~reset
    BY <2>2, ShownIs DEF ShownInv, WindowInv, Kept, File
  <2> QED
    BY <2>1, <2>2
<1>4. cut \in Windows \union {All} /\ read \in SUBSET Files
  BY <1>1
<1> HIDE DEF base, read, cut, last, seen
<1>5. Cutoff(cut) \in Int
  <2>1. clock \in Nat /\ (cut = All \/ cut \in Nat)
    BY <1>1, <1>4, WindowAssumption
  <2> QED
    BY <2>1 DEF Cutoff
<1>6. furthest' \in Nat /\ furthest' >= Cutoff(cut) /\ furthest' >= last
  BY <1>1, <1>2, <1>5
<1>7. WindowInv'
  BY RunKeeps DEF ShownInv
<1>8. failing' \in SUBSET Files /\ sampled' \in SUBSET sources' /\ seen \in SUBSET Files
  <2>1. kept \in SUBSET Files
    BY <1>1, <1>4 DEF Few
  <2> QED
    BY <1>1, <1>2, <1>4, <2>1 DEF Cut, read
<1> DEFINE still == Reached(furthest')
<1>9. still \subseteq Reached(last) /\ \A f \in still : Inside(at[f], cut)
  <2>1. ASSUME NEW f \in still PROVE at[f] \in Nat /\ at[f] + 1 >= furthest'
    BY <1>1 DEF Reached, Hours
  <2>2. ASSUME NEW f \in still PROVE f \in Reached(last) /\ Inside(at[f], cut)
    <3>1. at[f] \in Nat /\ at[f] + 1 >= furthest' /\ f \in Files
      BY <2>1 DEF Reached
    <3>2. at[f] + 1 >= last /\ at[f] + 1 >= Cutoff(cut)
      BY <1>1, <1>5, <1>6, <3>1
    <3> QED
      BY <3>1, <3>2 DEF Reached, Inside
  <2> QED
    BY <2>2
<1>10. ASSUME NEW S \in SUBSET Files
       PROVE  Few(S \intersect still, "latest") = Few(S, "latest") \intersect still
  BY <1>1, <1>6, ReachedIsUpward
<1>11. base.failing \intersect still = Few(seen \intersect still, "latest")
  <2>1. base.failing \intersect still = Few(seen, "latest") \intersect still
    BY <1>1, <1>3, <1>8, <1>9, ReachedIsUpward
  <2> QED
    BY <1>8, <1>10, <2>1
<1> DEFINE A == seen \intersect still
           B == read \intersect still
<1>12. ASSUME samples
       PROVE  failing' \intersect still = Few(sampled' \intersect still, "latest")
  <2>1. failing' \intersect still = kept \intersect still
    BY <1>2, <1>9, <1>12 DEF Cut
  <2>2. base.failing \union Few(read, "latest") \in SUBSET Files
    BY <1>1, <1>4 DEF Few
  <2>3. kept \intersect still =
            Few((base.failing \union Few(read, "latest")) \intersect still, "latest")
    BY <1>10, <2>2
  <2>4. (base.failing \union Few(read, "latest")) \intersect still =
            Few(A, "latest") \union Few(B, "latest")
    BY <1>4, <1>10, <1>11
  <2>5. Few(Few(A, "latest") \union Few(B, "latest"), "latest") = Few(A \union B, "latest")
    BY <1>1, <1>4, <1>8, LaterIsAnOrder, FewOfFews
  <2>6. A \union B = sampled' \intersect still
    BY <1>2, <1>12
  <2> QED
    BY <2>1, <2>3, <2>4, <2>5, <2>6
<1>13. ASSUME ~samples
       PROVE  failing' \intersect still = Few(sampled' \intersect still, "latest")
  <2>1. failing' = {} /\ sampled' = {}
    BY <1>2, <1>13
  <2> QED
    BY <2>1, FewOfNothing
<1>14. failing' \intersect still = Few(sampled' \intersect still, "latest")
  BY <1>12, <1>13
<1>15. FailingAreOneRuns'
  <2>1. /\ {f \in failing : NeverCut(at[f])}' = failing' \intersect still
        /\ {f \in sampled : NeverCut(at[f])}' = sampled' \intersect still
    BY <1>2, <1>7, <1>8 DEF Reached, NeverCut, WindowInv, Kept
  <2>2. ASSUME NEW S PROVE Few(S, "latest")' = Few(S', "latest")
    BY <1>2 DEF Few, Before, Later
  <2>3. Few({f \in sampled : NeverCut(at[f])}, "latest")' = Few(sampled' \intersect still, "latest")
    BY <2>1, <2>2
  <2> QED
    BY <1>14, <2>1, <2>3 DEF FailingAreOneRuns
<1> QED
  BY <1>7, <1>8, <1>15 DEF ShownInv

\* The failing requests shown of the hours no cut has reached are the latest few
\* of all that was read: mergeObserved keeps few of what two lists keep of many,
\* and loses none by it, and what ages out of the window is never in the way.
THEOREM FailuresShownAreOneRuns == WindowSpec => []FailingAreOneRuns
<1>1. ShownInv /\ [WindowNext]_windowVars => ShownInv'
  <2> SUFFICES ASSUME ShownInv, [WindowNext]_windowVars PROVE ShownInv'
    OBVIOUS
  <2>1. WindowInv'
    BY StepKeepsWindow DEF ShownInv
  <2>2. CASE Tick \/ UNCHANGED windowVars
    <3>1. UNCHANGED <<at, failing, sampled, sources, furthest>>
      BY <2>2 DEF Tick, windowVars, world, observed, history
    <3>2. FailingAreOneRuns'
      BY <3>1 DEF ShownInv, FailingAreOneRuns, NeverCut, Few, Before, Later
    <3> QED
      BY <2>1, <3>1, <3>2 DEF ShownInv
  <2>3. CASE \E named \in SUBSET Files \ {{}}, since \in Windows \union {All, Unsaid},
                reset, samples \in BOOLEAN : Run(named, since, reset, samples)
    BY <2>3, RunShows
  <2> QED
    BY <2>2, <2>3 DEF WindowNext
<1>2. ShownInv => FailingAreOneRuns
  BY DEF ShownInv
<1> QED
  BY <1>1, <1>2, InitShown, PTL DEF WindowSpec
=============================================================================
