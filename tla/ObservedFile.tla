---------------------------- MODULE ObservedFile ----------------------------
(***************************************************************************)
(* The observed file and the lock its writers hold: acquireObservedLock,   *)
(* withObservedLock and saveObserved of packages/cli/src/observe/store.ts, *)
(* as `observe <files>` (commands/observe.ts) and a listener               *)
(* (observe/listen.ts) use them.                                           *)
(*                                                                         *)
(* A writer is a process: it takes the lock, reads the file, adds what it  *)
(* read to it and saves, once for `observe`, at every flush for a          *)
(* listener, and lets the lock go.  A step is one call of the file system: *)
(* between any two of them the other processes run, and a process may die. *)
(* The lock is found by its path; the file at that path has an identity of *)
(* its own, the process that created it.                                   *)
(***************************************************************************)
EXTENDS Naturals

CONSTANTS
    Writers,        \* the processes
    Nobody,         \* a process that died long ago, or none
    NoLock,         \* no file at the lock's path
    Empty,          \* what a lock says until its creator has written its pid
    EmptyLooks,     \* how often an empty lock is waited for (10 in the code)
    Additions       \* how often each writer saves at most

\* What may be at the lock's path: who created it, and what it says.
Locks == [by : Writers \union {Nobody}, says : Writers \union {Nobody, Empty}]

ASSUME ObservedFileAssumption ==
    /\ Nobody \notin Writers
    /\ Empty \notin Writers \union {Nobody}
    /\ NoLock \notin Locks
    /\ EmptyLooks \in Nat
    /\ Additions \in [Writers -> Nat]

VARIABLES
    lock,       \* observed.lock: who created it and what it says
    pc,         \* where each writer is
    looked,     \* the lock as the writer last read it, until it acts on that
    empties,    \* how often it has read an empty one
    late,       \* whether it has waited LOCK_WAIT_MS
    file,       \* observed.json: how much of each writer's is in it
    copy,       \* what the writer read before it adds to it
    saved,      \* history: how often each writer has saved
    mistaken    \* history: whether a process unlinked what a running one created

wait == <<looked, empties, late>>
data == <<file, copy, saved, mistaken>>
vars == <<lock, pc, wait, data>>

Asking == {"open", "look", "judge", "unlink"}
Writing == {"held", "loaded"}
Holding == {"created", "check", "remove"} \union Writing
Gone == {"ended", "refused", "dead"}

Nothing == [p \in Writers |-> 0]

\* A lock of a process that died before any of these started may be there.
Init ==
    /\ lock \in {NoLock, [by |-> Nobody, says |-> Nobody], [by |-> Nobody, says |-> Empty]}
    /\ pc = [p \in Writers |-> "out"]
    /\ looked = [p \in Writers |-> NoLock]
    /\ empties = [p \in Writers |-> 0]
    /\ late = [p \in Writers |-> FALSE]
    /\ file = Nothing
    /\ copy = [p \in Writers |-> Nothing]
    /\ saved = Nothing
    /\ mistaken = FALSE

Goes(p, from, to) == pc[p] = from /\ pc' = [pc EXCEPT ![p] = to]

\* Whether a process of that pid is running.
Running(q) == q \in Writers /\ pc[q] \notin {"out"} \union Gone

\* acquireObservedLock has returned, thrown or died; what it counted is gone.
StopsAsking(p) ==
    /\ looked' = [looked EXCEPT ![p] = NoLock]
    /\ empties' = [empties EXCEPT ![p] = 0]
    /\ late' = [late EXCEPT ![p] = FALSE]

-----------------------------------------------------------------------------
(***************************************************************************)
(* Taking the lock.                                                        *)
(***************************************************************************)

Start(p) ==
    /\ Goes(p, "out", "open")
    /\ UNCHANGED <<lock, wait, data>>

\* The file is created, if there is none.
Open(p) ==
    /\ IF lock = NoLock
       THEN /\ lock' = [by |-> p, says |-> Empty]
            /\ Goes(p, "open", "created")
            /\ StopsAsking(p)
       ELSE /\ Goes(p, "open", "look")
            /\ UNCHANGED <<lock, wait>>
    /\ UNCHANGED data

\* The pid goes to the file this process created, wherever that is now.
WritePid(p) ==
    /\ Goes(p, "created", "held")
    /\ lock' = IF lock # NoLock /\ lock.by = p THEN [lock EXCEPT !.says = p] ELSE lock
    /\ UNCHANGED <<wait, data>>

Look(p) ==
    /\ IF lock = NoLock
       THEN /\ Goes(p, "look", "open")
            /\ UNCHANGED <<looked, empties>>
       ELSE /\ Goes(p, "look", "judge")
            /\ looked' = [looked EXCEPT ![p] = lock]
            /\ empties' = IF lock.says = Empty THEN [empties EXCEPT ![p] = @ + 1] ELSE empties
    /\ UNCHANGED <<lock, late, data>>

\* Mutation of Stale: the wait for an empty lock is one look short of nothing.
StaleAtOnce(p) == looked[p].says = Empty \/ ~Running(looked[p].says)

\* A lock of a process that is gone; an empty one seen too often is one too.
Stale(p) ==
    IF looked[p].says = Empty THEN empties[p] > EmptyLooks ELSE ~Running(looked[p].says)

\* Mutation of AfterLooking: a lock that is held is waited for without an end.
WaitsForEver(p) == IF Stale(p) THEN "unlink" ELSE "open"

AfterLooking(p) == IF Stale(p) THEN "unlink" ELSE IF late[p] THEN "refused" ELSE "open"

Judge(p) ==
    /\ Goes(p, "judge", AfterLooking(p))
    /\ IF Stale(p)
       THEN UNCHANGED wait
       ELSE IF late[p]
       THEN StopsAsking(p)
       ELSE looked' = [looked EXCEPT ![p] = NoLock] /\ UNCHANGED <<empties, late>>
    /\ UNCHANGED <<lock, data>>

\* What p is about to unlink was created by a process that is running: it came
\* after the lock p had looked at, or was empty for more looks than p waits.
Mistakes(p) ==
    /\ lock # NoLock
    /\ Running(lock.by)
    /\ lock.by # looked[p].by \/ (looked[p].says = Empty /\ empties[p] > EmptyLooks)

\* Whatever is at the path is unlinked; none there is no error.
Unlink(p) ==
    /\ Goes(p, "unlink", "open")
    /\ lock' = NoLock
    /\ looked' = [looked EXCEPT ![p] = NoLock]
    /\ empties' = [empties EXCEPT ![p] = 0]
    /\ mistaken' = (mistaken \/ Mistakes(p))
    /\ UNCHANGED <<late, file, copy, saved>>

\* The deadline passes.
TimePasses(p) ==
    /\ pc[p] \in Asking
    /\ ~late[p]
    /\ late' = [late EXCEPT ![p] = TRUE]
    /\ UNCHANGED <<lock, pc, looked, empties, data>>

-----------------------------------------------------------------------------
(***************************************************************************)
(* Holding it.                                                             *)
(***************************************************************************)

\* Mutation of Loaded: what was saved last is added to, without a look at the file.
SavedLast(p) == [Nothing EXCEPT ![p] = saved[p]]

\* The file is read whole.  (One that cannot be read is refused, which is Leave,
\* unless --reset says to begin without it, which is not modelled.)
Loaded(p) == file

Load(p) ==
    /\ saved[p] < Additions[p]
    /\ Goes(p, "held", "loaded")
    /\ copy' = [copy EXCEPT ![p] = Loaded(p)]
    /\ UNCHANGED <<lock, wait, file, saved, mistaken>>

\* What was read, and what this writer adds, is renamed over it.
Save(p) ==
    /\ Goes(p, "loaded", "held")
    /\ file' = [copy[p] EXCEPT ![p] = @ + 1]
    /\ saved' = [saved EXCEPT ![p] = @ + 1]
    /\ copy' = [copy EXCEPT ![p] = Nothing]
    /\ UNCHANGED <<lock, wait, mistaken>>

\* It ends: all is saved, or a step of it failed and nothing more will be.
Leave(p) ==
    /\ pc[p] \in Writing
    /\ pc' = [pc EXCEPT ![p] = "check"]
    /\ copy' = [copy EXCEPT ![p] = Nothing]
    /\ UNCHANGED <<lock, wait, file, saved, mistaken>>

\* The lock is removed only while it is still this process's.
StillMine(p) == lock # NoLock /\ lock.says = p

Check(p) ==
    /\ Goes(p, "check", IF StillMine(p) THEN "remove" ELSE "ended")
    /\ UNCHANGED <<lock, wait, data>>

Remove(p) ==
    /\ Goes(p, "remove", "ended")
    /\ lock' = NoLock
    /\ UNCHANGED <<wait, data>>

\* A process is killed; a lock it holds stays.
Die(p) ==
    /\ pc[p] \notin {"out"} \union Gone
    /\ pc' = [pc EXCEPT ![p] = "dead"]
    /\ copy' = [copy EXCEPT ![p] = Nothing]
    /\ StopsAsking(p)
    /\ UNCHANGED <<lock, file, saved, mistaken>>

-----------------------------------------------------------------------------
\* What a running process does by itself.
Proceed(p) ==
    \/ Open(p)
    \/ WritePid(p)
    \/ Look(p)
    \/ Judge(p)
    \/ Unlink(p)
    \/ TimePasses(p)
    \/ Check(p)
    \/ Remove(p)

Step(p) ==
    \/ Start(p)
    \/ Proceed(p)
    \/ Load(p)
    \/ Save(p)
    \/ Leave(p)
    \/ Die(p)

Next == \E p \in Writers : Step(p)

\* A process goes on with its calls, and the deadline passes.  A holder may
\* hold the lock for ever.
Fairness ==
    \A p \in Writers : WF_vars(Proceed(p) /\ pc' # pc) /\ WF_vars(TimePasses(p))

Spec == Init /\ [][Next]_vars /\ Fairness

-----------------------------------------------------------------------------
(***************************************************************************)
(* Properties.                                                             *)
(***************************************************************************)

TypeOK ==
    /\ lock \in Locks \union {NoLock}
    /\ pc \in [Writers -> {"out"} \union Asking \union Holding \union Gone]
    /\ looked \in [Writers -> Locks \union {NoLock}]
    /\ empties \in [Writers -> Nat]
    /\ late \in [Writers -> BOOLEAN]
    /\ file \in [Writers -> Nat]
    /\ copy \in [Writers -> [Writers -> Nat]]
    /\ saved \in [Writers -> Nat]
    /\ mistaken \in BOOLEAN

\* One process writes the observed file at a time, from the moment it has
\* taken the lock until it starts to let it go.  The code does not keep this:
\* a lock is unlinked by its path, whoever's it is by then.
OneWriter ==
    \A p, q \in Writers : pc[p] \in Writing /\ pc[q] \in Writing => p = q

\* Everything a writer has saved stays in the file, whoever saves after it.
NothingSavedIsLost == file = saved

\* Whatever processes do between one call and the next, die of or give up, two
\* write at a time only after one has unlinked the lock of a process that runs:
\* one that came after the lock it looked at, or one too long without a pid.
OneWriterUnlessMistaken == ~mistaken => OneWriter

\* And only then is anything that was saved lost.
SavesAreKeptUnlessMistaken == ~mistaken => NothingSavedIsLost

\* And only by that does a process at work lose its lock: a release, a takeover
\* of a dead process's lock or a late pid never takes it away.
LockIsKeptUnlessMistaken ==
    [][\A p \in Writers :
           /\ ~mistaken'
           /\ lock # NoLock /\ lock.by = p /\ pc[p] \in Writing /\ pc'[p] \in Writing
           => lock' # NoLock /\ lock'.by = p]_vars

\* Who asks for the lock is told: it gets it, or hears who holds it.
EveryoneIsAnswered ==
    \A p \in Writers : pc[p] \in Asking ~> pc[p] \notin Asking
=============================================================================
