------------------------------ MODULE ReadPool ------------------------------
(***************************************************************************)
(* The pool a build reads its repositories in: inPools of                  *)
(* packages/cli/src/commands/build.ts.                                     *)
(*                                                                         *)
(* Items are known by their position, 1 .. Items.  A worker is a coroutine *)
(* of one JavaScript thread, so what it does between two awaits is one     *)
(* step: it starts on the next item, or it stops.  The work itself is      *)
(* somebody else's (a child process, an open repository) and ends when it  *)
(* likes, well or badly.                                                   *)
(***************************************************************************)
EXTENDS Integers, Sequences

CONSTANTS
    Items,      \* how many items there are to work on
    Limit       \* how many may be worked on at once, as it was asked for

ASSUME PoolAssumption == Items \in Nat /\ Limit \in Int

\* Math.min(Math.max(limit, 1), items.length): a limit below one still reads.
AtLeastOne == IF Limit < 1 THEN 1 ELSE Limit
Width == IF AtLeastOne < Items THEN AtLeastOne ELSE Items
Workers == 1 .. Width

VARIABLES
    next,       \* the item the next free worker takes
    job,        \* job[w] is the item worker w is on, 0 when it is on none
    live,       \* the workers that have not returned
    results,    \* the items whose result has been filed
    failure,    \* the item whose error is kept, 0 while nothing failed
    rejected,   \* history: the items that failed, in the order they did
    outcome     \* what the caller of the pool has: "pending" until it settles

vars == <<next, job, live, results, failure, rejected, outcome>>

Outcomes == {"idle", "pending", "returned", "thrown"}

TypeOK ==
    /\ next \in Nat \ {0}
    /\ job \in [Workers -> 0 .. Items]
    /\ live \in SUBSET Workers
    /\ results \in SUBSET (1 .. Items)
    /\ failure \in 0 .. Items
    /\ rejected \in Seq(1 .. Items)
    /\ outcome \in Outcomes

Init ==
    /\ next = 1
    /\ job = [w \in Workers |-> 0]
    /\ live = {}
    /\ results = {}
    /\ failure = 0
    /\ rejected = << >>
    /\ outcome = "idle"

(***************************************************************************)
(* The call: every worker runs to its first await before the caller gets a *)
(* promise back, so the first items are all started together.              *)
(***************************************************************************)
Start ==
    /\ outcome = "idle"
    /\ outcome' = "pending"
    /\ live' = Workers
    /\ job' = [w \in Workers |-> w]
    /\ next' = Width + 1
    /\ UNCHANGED <<results, failure, rejected>>

\* The head of the worker's loop, reached with something failed: it returns.
Stop(w) ==
    /\ live' = live \ {w}
    /\ job' = [job EXCEPT ![w] = 0]
    /\ UNCHANGED next

\* The head of it, reached with nothing failed: the next item is taken if there
\* is one, or else the worker returns.
Take(w) ==
    /\ next' = next + 1
    /\ IF next <= Items
       THEN job' = [job EXCEPT ![w] = next] /\ UNCHANGED live
       ELSE job' = [job EXCEPT ![w] = 0] /\ live' = live \ {w}

\* Mutation of AfterAJob: a worker that does one job only.
OneJobOnly(w) == Stop(w)

\* Round the worker's loop again.
AfterAJob(w) == IF failure = 0 THEN Take(w) ELSE Stop(w)

\* A job ends well: its result is filed and the worker goes round its loop.
Resolve(w) ==
    /\ job[w] # 0
    /\ results' = results \union {job[w]}
    /\ AfterAJob(w)
    /\ UNCHANGED <<failure, rejected, outcome>>

\* Mutation of Keep: the last error overwrites the first.
KeepTheLast(error) == error

\* The error that is kept: the first one, whatever comes after it.
Keep(error) == IF failure = 0 THEN error ELSE failure

\* A job ends badly: the first to do so is what the pool will throw, and the
\* signal every job was handed is aborted by that.  The worker returns.
Reject(w) ==
    /\ job[w] # 0
    /\ failure' = Keep(job[w])
    /\ rejected' = Append(rejected, job[w])
    /\ Stop(w)
    /\ UNCHANGED <<results, outcome>>

\* Mutations of AllReturned: Promise.all over the jobs themselves, which the
\* first rejection settles; and a pool that waits for a result from everyone.
ReturnedOrFailed == live = {} \/ failure # 0
EveryResultIn == live = {} /\ failure = 0

\* What the pool waits for before it settles.
AllReturned == live = {}

\* Promise.all over the workers, then the throw or the return.
Settle ==
    /\ outcome = "pending"
    /\ AllReturned
    /\ outcome' = IF failure = 0 THEN "returned" ELSE "thrown"
    /\ UNCHANGED <<next, job, live, results, failure, rejected>>

\* The call is over; nothing else happens to this pool.
Settled ==
    /\ outcome \in {"returned", "thrown"}
    /\ UNCHANGED vars

JobEnds(w) == Resolve(w) \/ Reject(w)

Next ==
    \/ Start
    \/ \E w \in Workers : Resolve(w)
    \/ \E w \in Workers : Reject(w)
    \/ Settle
    \/ Settled

(***************************************************************************)
(* The call is made, every job ends (a reader is a finite computation, and *)
(* a child that overruns is killed by the signal or by its own heap limit) *)
(* and the runtime runs the continuation of a promise that is settled.     *)
(***************************************************************************)
Fairness ==
    /\ WF_vars(Start)
    /\ \A w \in Workers : WF_vars(JobEnds(w))
    /\ WF_vars(Settle)

Spec == Init /\ [][Next]_vars

FairSpec == Spec /\ Fairness

-----------------------------------------------------------------------------
(***************************************************************************)
(* Properties.                                                             *)
(***************************************************************************)

\* Every worker has something to do for as long as there are items nobody has
\* taken and nothing has failed: "keeping the pool full".
PoolStaysFull ==
    outcome = "pending" /\ failure = 0 /\ next <= Items =>
        \A w \in Workers : job[w] # 0

\* Once the caller has its answer, no job it started is still running: the
\* writer nobody could see, which used to outlive a failed build, is gone.
NothingOutlivesThePool ==
    outcome \in {"returned", "thrown"} => \A w \in Workers : job[w] = 0

\* A pool that returns has the result of every item, and it returns only when
\* no job failed.
ReturnsEveryResult ==
    outcome = "returned" => results = 1 .. Items /\ rejected = << >>

\* What is thrown is the first failure and not what a sibling said on its way
\* down.
ThrowsTheFirstFailure ==
    outcome = "thrown" => rejected # << >> /\ failure = Head(rejected)

\* No item is worked on twice: not by two workers at once, and not again after
\* it has ended.
EachItemOnce ==
    \A w \in Workers : job[w] # 0 =>
        /\ job[w] \notin results
        /\ \A i \in 1 .. Len(rejected) : rejected[i] # job[w]
        /\ \A v \in Workers : v # w => job[v] # job[w]

\* After the first failure no further item is taken.
NothingStartsAfterAFailure ==
    [][failure # 0 => \A w \in Workers : job'[w] \in {0, job[w]}]_vars

\* A pool that was called settles.
PoolSettles == <>(outcome \in {"returned", "thrown"})
=============================================================================
