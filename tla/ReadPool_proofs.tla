--------------------------- MODULE ReadPool_proofs ---------------------------
(***************************************************************************)
(* ReadPool, for any number of items and any limit: what it returns and    *)
(* throws, that it stays full, and that nothing keeps it from settling.    *)
(***************************************************************************)
EXTENDS ReadPool, FiniteSetTheorems, TLAPS

USE DEF Workers

(***************************************************************************)
(* The inductive invariant: an item below next is with a worker or has     *)
(* ended, a worker is live exactly while it has a job, and one that        *)
(* returned did so because something had failed or nothing was left.       *)
(***************************************************************************)
Untouched ==
    outcome = "idle" =>
        /\ next = 1
        /\ live = {}
        /\ results = {}
        /\ failure = 0
        /\ rejected = << >>

LiveMeansBusy == \A w \in Workers : w \in live <=> job[w] # 0

TakenIsBelowNext ==
    /\ \A w \in Workers : job[w] < next
    /\ \A i \in results : i < next
    /\ \A k \in 1 .. Len(rejected) : rejected[k] < next

NoneForgotten ==
    \A i \in 1 .. Items : i < next =>
        \/ i \in results
        \/ \E w \in Workers : job[w] = i
        \/ \E k \in 1 .. Len(rejected) : rejected[k] = i

FailureIsTheFirst ==
    /\ failure = 0 <=> rejected = << >>
    /\ failure # 0 => failure = rejected[1]

ReturnedForAReason ==
    outcome # "idle" => \A w \in Workers \ live : failure # 0 \/ next > Items

SettledIsQuiet ==
    outcome \in {"returned", "thrown"} =>
        live = {} /\ (outcome = "returned" <=> failure = 0)

Inv ==
    /\ TypeOK
    /\ Untouched
    /\ LiveMeansBusy
    /\ TakenIsBelowNext
    /\ NoneForgotten
    /\ FailureIsTheFirst
    /\ EachItemOnce
    /\ ReturnedForAReason
    /\ SettledIsQuiet

\* The width of the pool is a number, and no wider than the items.
LEMMA WidthIsBounded ==
    Width \in 0 .. Items /\ (Width = 0 => Items = 0)
BY PoolAssumption DEF Width, AtLeastOne

\* The invariant holds before the call.
LEMMA InitInv == Init => Inv
BY WidthIsBounded, PoolAssumption
DEF Init, Inv, TypeOK, Untouched, LiveMeansBusy, TakenIsBelowNext, NoneForgotten,
    FailureIsTheFirst, EachItemOnce, ReturnedForAReason, SettledIsQuiet, Outcomes

\* The first items are handed out together, each to its own worker.
LEMMA StartInv == Inv /\ Start => Inv'
<1> SUFFICES ASSUME Inv, Start PROVE Inv'
  OBVIOUS
<1> USE WidthIsBounded, PoolAssumption
<1>1. TypeOK'
  BY DEF Inv, TypeOK, Start, Outcomes
<1>2. /\ failure' = 0 /\ rejected' = << >> /\ results' = {}
      /\ live' = Workers /\ next' = Width + 1 /\ outcome' = "pending"
      /\ job' = [w \in Workers |-> w]
  BY DEF Inv, Untouched, Start
<1>3. NoneForgotten'
  <2> SUFFICES ASSUME NEW i \in 1 .. Items, i < Width + 1
               PROVE \E w \in Workers : job'[w] = i
    BY <1>2 DEF NoneForgotten
  <2>1. i \in Workers /\ job'[i] = i
    BY <1>2
  <2> QED BY <2>1
<1>4. EachItemOnce'
  BY <1>2 DEF EachItemOnce
<1>5. Untouched' /\ LiveMeansBusy' /\ TakenIsBelowNext' /\ FailureIsTheFirst'
      /\ ReturnedForAReason' /\ SettledIsQuiet'
  BY <1>2 DEF Untouched, LiveMeansBusy, TakenIsBelowNext, FailureIsTheFirst,
      ReturnedForAReason, SettledIsQuiet
<1> QED BY <1>1, <1>3, <1>4, <1>5 DEF Inv

\* A job that ends well files a result nobody else will file.
LEMMA ResolveInv == ASSUME Inv, NEW w \in Workers, Resolve(w) PROVE Inv'
<1> USE WidthIsBounded, PoolAssumption
<1> DEFINE done == job[w]
<1>0. /\ done \in 1 .. Items /\ w \in live /\ outcome = "pending" /\ done < next
      /\ outcome' = outcome /\ failure' = failure /\ rejected' = rejected
      /\ results' = results \union {done}
  BY DEF Inv, TypeOK, LiveMeansBusy, TakenIsBelowNext, Untouched, SettledIsQuiet,
      Resolve, Outcomes
<1>1. CASE failure = 0 /\ next <= Items
  <2>1. next' = next + 1 /\ job' = [job EXCEPT ![w] = next] /\ live' = live
    BY <1>1 DEF Resolve, AfterAJob, Take
  <2>2. TypeOK'
    <3>1. next' \in Nat \ {0} /\ job' \in [Workers -> 0 .. Items]
      BY <1>0, <1>1, <2>1 DEF Inv, TypeOK
    <3>2. live' \in SUBSET Workers /\ results' \in SUBSET (1 .. Items)
      BY <1>0, <2>1 DEF Inv, TypeOK
    <3>3. failure' \in 0 .. Items /\ rejected' \in Seq(1 .. Items) /\ outcome' \in Outcomes
      BY <1>0 DEF Inv, TypeOK
    <3> QED BY <3>1, <3>2, <3>3 DEF TypeOK
  <2>3. TakenIsBelowNext'
    <3>1. next' \in Nat /\ next <= next' /\ (\A v \in Workers : job'[v] < next')
      BY <1>0, <1>1, <2>1 DEF Inv, TypeOK, TakenIsBelowNext
    <3>2. \A i \in results' : i < next'
      BY <1>0, <3>1 DEF Inv, TypeOK, TakenIsBelowNext
    <3>3. \A k \in 1 .. Len(rejected') : rejected'[k] < next'
      <4> SUFFICES ASSUME NEW k \in 1 .. Len(rejected) PROVE rejected[k] < next'
        BY <1>0
      <4>1. rejected[k] \in Int /\ rejected[k] < next
        BY DEF Inv, TypeOK, TakenIsBelowNext
      <4> QED BY <4>1, <3>1 DEF Inv, TypeOK
    <3> QED BY <3>1, <3>2, <3>3 DEF TakenIsBelowNext
  <2>4. LiveMeansBusy' /\ ReturnedForAReason'
    BY <1>0, <1>1, <2>1 DEF Inv, TypeOK, LiveMeansBusy, ReturnedForAReason
  <2>5. FailureIsTheFirst' /\ Untouched' /\ SettledIsQuiet'
    BY <1>0 DEF Inv, Untouched, FailureIsTheFirst, SettledIsQuiet
  <2>6. NoneForgotten'
    <3> SUFFICES ASSUME NEW i \in 1 .. Items, i < next + 1
                 PROVE \/ i \in results'
                       \/ \E v \in Workers : job'[v] = i
                       \/ \E k \in 1 .. Len(rejected) : rejected[k] = i
      BY <1>0, <2>1 DEF NoneForgotten
    <3>1. CASE i = next
      BY <2>1, <3>1 DEF Inv, TypeOK
    <3>2. CASE i < next
      <4>1. \A v \in Workers : job[v] = i => i = done \/ job'[v] = i
        BY <2>1 DEF Inv, TypeOK
      <4> QED BY <4>1, <3>2, <1>0 DEF Inv, NoneForgotten
    <3> QED BY <3>1, <3>2, <2>1 DEF Inv, TypeOK
  <2>7. EachItemOnce'
    BY <1>0, <2>1 DEF Inv, TypeOK, EachItemOnce, TakenIsBelowNext
  <2> QED BY <2>2, <2>3, <2>4, <2>5, <2>6, <2>7 DEF Inv
<1>2. CASE ~(failure = 0 /\ next <= Items)
  <2>1. /\ next' \in {next, next + 1} /\ job' = [job EXCEPT ![w] = 0]
        /\ live' = live \ {w} /\ (failure # 0 \/ next > Items)
        /\ next' # next => next > Items
    BY <1>2 DEF Resolve, AfterAJob, Take, Stop, Inv, TypeOK
  <2>2. TypeOK'
    <3>1. next' \in Nat \ {0} /\ job' \in [Workers -> 0 .. Items]
      BY <1>0, <2>1 DEF Inv, TypeOK
    <3>2. live' \in SUBSET Workers /\ results' \in SUBSET (1 .. Items)
      BY <1>0, <2>1 DEF Inv, TypeOK
    <3>3. failure' \in 0 .. Items /\ rejected' \in Seq(1 .. Items) /\ outcome' \in Outcomes
      BY <1>0 DEF Inv, TypeOK
    <3> QED BY <3>1, <3>2, <3>3 DEF TypeOK
  <2>3. TakenIsBelowNext'
    <3>1. next' \in Nat /\ next <= next' /\ (\A v \in Workers : job'[v] < next')
      BY <1>0, <2>1 DEF Inv, TypeOK, TakenIsBelowNext
    <3>2. \A i \in results' : i < next'
      BY <1>0, <3>1 DEF Inv, TypeOK, TakenIsBelowNext
    <3>3. \A k \in 1 .. Len(rejected') : rejected'[k] < next'
      <4> SUFFICES ASSUME NEW k \in 1 .. Len(rejected) PROVE rejected[k] < next'
        BY <1>0
      <4>1. rejected[k] \in Int /\ rejected[k] < next
        BY DEF Inv, TypeOK, TakenIsBelowNext
      <4> QED BY <4>1, <3>1 DEF Inv, TypeOK
    <3> QED BY <3>1, <3>2, <3>3 DEF TakenIsBelowNext
  <2>4. LiveMeansBusy' /\ ReturnedForAReason'
    BY <1>0, <2>1 DEF Inv, TypeOK, LiveMeansBusy, ReturnedForAReason
  <2>5. FailureIsTheFirst' /\ Untouched' /\ SettledIsQuiet'
    BY <1>0 DEF Inv, Untouched, FailureIsTheFirst, SettledIsQuiet
  <2>6. NoneForgotten'
    <3>1. \A i \in 1 .. Items : i < next' => i < next
      BY <2>1 DEF Inv, TypeOK
    <3>2. \A v \in Workers : job[v] = done \/ job'[v] = job[v]
      BY <2>1 DEF Inv, TypeOK
    <3> QED BY <3>1, <3>2, <1>0 DEF Inv, NoneForgotten
  <2>7. EachItemOnce'
    BY <1>0, <2>1 DEF Inv, TypeOK, EachItemOnce
  <2> QED BY <2>2, <2>3, <2>4, <2>5, <2>6, <2>7 DEF Inv
<1> QED BY <1>1, <1>2

\* A job that ends badly is remembered, and its worker returns.
LEMMA RejectInv == ASSUME Inv, NEW w \in Workers, Reject(w) PROVE Inv'
<1> USE WidthIsBounded, PoolAssumption
<1> DEFINE done == job[w]
<1>0. /\ done \in 1 .. Items /\ w \in live /\ outcome = "pending" /\ done < next
      /\ outcome' = outcome /\ results' = results /\ next' = next
      /\ rejected' = Append(rejected, done)
      /\ job' = [job EXCEPT ![w] = 0] /\ live' = live \ {w}
      /\ failure' = IF failure = 0 THEN done ELSE failure
  BY DEF Inv, TypeOK, LiveMeansBusy, TakenIsBelowNext, Untouched, SettledIsQuiet,
      Reject, Stop, Keep, Outcomes
<1>1. /\ rejected \in Seq(1 .. Items) /\ Len(rejected) \in Nat
      /\ Len(rejected') = Len(rejected) + 1
      /\ \A k \in 1 .. Len(rejected) : rejected'[k] = rejected[k]
      /\ rejected'[Len(rejected) + 1] = done
      /\ rejected' \in Seq(1 .. Items)
  BY <1>0 DEF Inv, TypeOK
<1>2. TypeOK' /\ Untouched' /\ LiveMeansBusy' /\ ReturnedForAReason' /\ SettledIsQuiet'
  BY <1>0, <1>1 DEF Inv, TypeOK, Untouched, LiveMeansBusy, ReturnedForAReason,
      SettledIsQuiet, Outcomes
<1>3. TakenIsBelowNext'
  BY <1>0, <1>1 DEF Inv, TypeOK, TakenIsBelowNext
<1>4. FailureIsTheFirst'
  <2>1. rejected' # << >> /\ failure' # 0
    BY <1>0, <1>1
  <2>2. CASE failure = 0
    BY <2>1, <2>2, <1>0, <1>1 DEF Inv, FailureIsTheFirst
  <2>3. CASE failure # 0
    <3>1. Len(rejected) >= 1
      BY <2>3, <1>1 DEF Inv, FailureIsTheFirst
    <3> QED BY <3>1, <2>1, <2>3, <1>0, <1>1 DEF Inv, FailureIsTheFirst
  <2> QED BY <2>2, <2>3
<1>5. NoneForgotten'
  <2>1. \A v \in Workers : job[v] = done \/ job'[v] = job[v]
    BY <1>0 DEF Inv, TypeOK
  <2> SUFFICES ASSUME NEW i \in 1 .. Items, i < next
               PROVE \/ i \in results
                     \/ \E v \in Workers : job'[v] = i
                     \/ \E k \in 1 .. Len(rejected') : rejected'[k] = i
    BY <1>0 DEF NoneForgotten
  <2>2. CASE i = done
    BY <2>2, <1>1
  <2>3. CASE i # done /\ \E v \in Workers : job[v] = i
    BY <2>3, <2>1
  <2>4. CASE \E k \in 1 .. Len(rejected) : rejected[k] = i
    BY <2>4, <1>1
  <2> QED BY <2>2, <2>3, <2>4 DEF Inv, NoneForgotten
<1>6. EachItemOnce'
  <2> SUFFICES ASSUME NEW u \in Workers, job'[u] # 0
               PROVE /\ job'[u] \notin results
                     /\ \A k \in 1 .. Len(rejected') : rejected'[k] # job'[u]
                     /\ \A v \in Workers : v # u => job'[v] # job'[u]
    BY <1>0 DEF EachItemOnce
  <2>1. u # w /\ job'[u] = job[u] /\ job[u] # done
    BY <1>0 DEF Inv, TypeOK, EachItemOnce
  <2>2. \A k \in 1 .. Len(rejected') : rejected'[k] # job[u]
    <3> SUFFICES ASSUME NEW k \in 1 .. Len(rejected') PROVE rejected'[k] # job[u]
      OBVIOUS
    <3>1. CASE k = Len(rejected) + 1
      BY <3>1, <2>1, <1>1
    <3>2. CASE k # Len(rejected) + 1
      <4>1. k \in 1 .. Len(rejected)
        BY <3>2, <1>1
      <4> QED BY <4>1, <2>1, <1>1 DEF Inv, EachItemOnce
    <3> QED BY <3>1, <3>2
  <2> QED BY <2>1, <2>2, <1>0 DEF Inv, TypeOK, EachItemOnce
<1> QED BY <1>2, <1>3, <1>4, <1>5, <1>6 DEF Inv

\* Settling only writes down what the workers left.
LEMMA SettleInv == Inv /\ Settle => Inv'
BY DEF Inv, Settle, AllReturned, TypeOK, Outcomes, Untouched, LiveMeansBusy,
    TakenIsBelowNext, NoneForgotten, FailureIsTheFirst, EachItemOnce,
    ReturnedForAReason, SettledIsQuiet

\* A step that changes nothing keeps the invariant.
LEMMA StutterInv == Inv /\ UNCHANGED vars => Inv'
BY DEF Inv, vars, TypeOK, Untouched, LiveMeansBusy, TakenIsBelowNext, NoneForgotten,
    FailureIsTheFirst, EachItemOnce, ReturnedForAReason, SettledIsQuiet

\* The invariant is inductive, whatever the number of items and the limit.
THEOREM Invariant == Spec => []Inv
<1>1. Inv /\ [Next]_vars => Inv'
  <2> SUFFICES ASSUME Inv, [Next]_vars PROVE Inv'
    OBVIOUS
  <2>1. CASE Start
    BY <2>1, StartInv
  <2>2. CASE \E w \in Workers : Resolve(w)
    BY <2>2, ResolveInv
  <2>3. CASE \E w \in Workers : Reject(w)
    BY <2>3, RejectInv
  <2>4. CASE Settle
    BY <2>4, SettleInv
  <2>5. CASE Settled
    BY <2>5, StutterInv DEF Settled
  <2>6. CASE UNCHANGED vars
    BY <2>6, StutterInv
  <2> QED BY <2>1, <2>2, <2>3, <2>4, <2>5, <2>6 DEF Next
<1> QED BY <1>1, InitInv, PTL DEF Spec

\* The variables have their types in every reachable state.
THEOREM TypeCorrect == Spec => []TypeOK
<1>1. Inv => TypeOK
  BY DEF Inv
<1> QED BY <1>1, Invariant, PTL

\* No job is running once the caller has its answer.
THEOREM QuietOnceSettled == Spec => []NothingOutlivesThePool
<1>1. Inv => NothingOutlivesThePool
  BY DEF Inv, SettledIsQuiet, LiveMeansBusy, NothingOutlivesThePool
<1> QED BY <1>1, Invariant, PTL

\* What the pool throws is the first of its failures.
THEOREM FirstFailureIsThrown == Spec => []ThrowsTheFirstFailure
<1>1. Inv => ThrowsTheFirstFailure
  <2> SUFFICES ASSUME Inv, outcome = "thrown"
               PROVE rejected # << >> /\ failure = Head(rejected)
    BY DEF ThrowsTheFirstFailure
  <2>1. failure # 0 /\ rejected # << >> /\ failure = rejected[1]
    BY DEF Inv, SettledIsQuiet, FailureIsTheFirst
  <2>2. Head(rejected) = rejected[1]
    BY <2>1 DEF Inv, TypeOK
  <2> QED BY <2>1, <2>2
<1> QED BY <1>1, Invariant, PTL

\* A pool that returns has run every item and none of them failed.
THEOREM ResultsAreComplete == Spec => []ReturnsEveryResult
<1>1. Inv => ReturnsEveryResult
  <2> SUFFICES ASSUME Inv, outcome = "returned"
               PROVE results = 1 .. Items /\ rejected = << >>
    BY DEF ReturnsEveryResult
  <2> USE WidthIsBounded, PoolAssumption
  <2>1. live = {} /\ failure = 0 /\ rejected = << >>
    BY DEF Inv, SettledIsQuiet, FailureIsTheFirst
  <2>2. \A w \in Workers : job[w] = 0
    BY <2>1 DEF Inv, LiveMeansBusy
  <2>3. Items = 0 \/ next > Items
    BY <2>1 DEF Inv, ReturnedForAReason
  <2>4. \A i \in 1 .. Items : i \in results
    BY <2>1, <2>2, <2>3 DEF Inv, TypeOK, NoneForgotten
  <2> QED BY <2>1, <2>4 DEF Inv, TypeOK
<1> QED BY <1>1, Invariant, PTL

\* The pool is full while there is something nobody has taken.
THEOREM FullWhileItemsAreLeft == Spec => []PoolStaysFull
<1>1. Inv => PoolStaysFull
  BY PoolAssumption DEF Inv, TypeOK, LiveMeansBusy, ReturnedForAReason, PoolStaysFull
<1> QED BY <1>1, Invariant, PTL

\* Nothing further is taken after the first failure.
THEOREM NothingTakenAfterAFailure == Spec => NothingStartsAfterAFailure
<1>1. Inv /\ [Next]_vars => [failure # 0 => \A w \in Workers : job'[w] \in {0, job[w]}]_vars
  <2> SUFFICES ASSUME Inv, Next, failure # 0, NEW v \in Workers
               PROVE job'[v] \in {0, job[v]}
    OBVIOUS
  <2>1. outcome # "idle"
    BY DEF Inv, Untouched
  <2> QED BY <2>1 DEF Next, Start, Resolve, AfterAJob, Reject, Stop, Settle, Settled, vars, Inv, TypeOK
<1> QED BY <1>1, Invariant, PTL DEF NothingStartsAfterAFailure, Spec

-----------------------------------------------------------------------------
(***************************************************************************)
(* That nothing keeps the pool from settling, but a job that never ends.   *)
(***************************************************************************)

Untaken == IF next <= Items THEN Items + 1 - next ELSE 0

\* How many steps there may still be: the call, a step for every item not taken and
\* for every worker that has not returned, and the settling.
StepsLeft ==
    IF outcome = "idle" THEN 2 * Items + 2
    ELSE IF outcome = "pending" THEN 1 + Untaken + Cardinality(live)
    ELSE 0

\* What goes on of itself: the call, a job, or the settling once all returned.
SomethingGoesOn ==
    \/ outcome = "idle"
    \/ \E w \in Workers : job[w] # 0
    \/ outcome = "pending" /\ AllReturned

\* The workers that have not returned can be counted, and when one returns they
\* are one less.
LEMMA LiveAreCounted ==
    ASSUME Inv
    PROVE  /\ Cardinality(live) \in Nat
           /\ \A w \in live : /\ Cardinality(live \ {w}) \in Nat
                              /\ Cardinality(live \ {w}) < Cardinality(live)
<1>1. IsFiniteSet(Workers)
  BY WidthIsBounded, PoolAssumption, FS_Interval
<1>2. live \in SUBSET Workers
  BY DEF Inv, TypeOK
<1>3. IsFiniteSet(live)
  BY <1>1, <1>2, FS_Subset
<1>4. Cardinality(live) \in Nat
  BY <1>3, FS_CardinalityType
<1>5. ASSUME NEW w \in live
      PROVE  Cardinality(live \ {w}) \in Nat /\ Cardinality(live \ {w}) < Cardinality(live)
  <2>1. IsFiniteSet(live \ {w}) /\ Cardinality(live \ {w}) = Cardinality(live) - 1
    BY <1>3, FS_RemoveElement
  <2>2. Cardinality(live \ {w}) \in Nat
    BY <2>1, FS_CardinalityType
  <2> QED BY <1>4, <2>1, <2>2
<1> QED BY <1>4, <1>5

\* A job that ends leaves fewer steps: an item less to take, or a worker less.
LEMMA JobEndsLowers ==
    ASSUME Inv, NEW w \in Workers, Resolve(w) \/ Reject(w)
    PROVE  StepsLeft' \in Nat /\ StepsLeft' < StepsLeft
<1> USE WidthIsBounded, PoolAssumption
<1>1. w \in live /\ outcome = "pending" /\ outcome' = "pending" /\ next \in Nat
  BY DEF Inv, TypeOK, LiveMeansBusy, Untouched, SettledIsQuiet, Outcomes, Resolve, Reject
<1>2. \/ next <= Items /\ next' = next + 1 /\ live' = live
      \/ (next' = next \/ (next > Items /\ next' = next + 1)) /\ live' = live \ {w}
  BY <1>1 DEF Resolve, Reject, AfterAJob, Take, Stop
<1>3. /\ Cardinality(live) \in Nat /\ Cardinality(live \ {w}) \in Nat
      /\ Cardinality(live \ {w}) < Cardinality(live)
  BY <1>1, LiveAreCounted
<1>4. Untaken \in Nat /\ Untaken' \in Nat
  BY <1>1, <1>2 DEF Untaken
<1>5. CASE next <= Items /\ next' = next + 1 /\ live' = live
  <2>1. Untaken' < Untaken
    BY <1>1, <1>5 DEF Untaken
  <2> QED BY <1>1, <1>3, <1>4, <1>5, <2>1 DEF StepsLeft
<1>6. CASE (next' = next \/ (next > Items /\ next' = next + 1)) /\ live' = live \ {w}
  <2>1. Untaken' = Untaken
    BY <1>1, <1>6 DEF Untaken
  <2> QED BY <1>1, <1>3, <1>4, <1>6, <2>1 DEF StepsLeft
<1> QED BY <1>2, <1>5, <1>6

\* The call leaves a step for every item and one for settling.
LEMMA StartLowers ==
    ASSUME Inv, Start
    PROVE  StepsLeft' \in Nat /\ StepsLeft' < StepsLeft
<1> USE WidthIsBounded, PoolAssumption
<1>1. outcome = "idle" /\ outcome' = "pending" /\ next' = Width + 1 /\ live' = Workers
  BY DEF Start
<1>2. Cardinality(Workers) = Width
  BY FS_Interval
<1>3. Untaken' = Items - Width
  BY <1>1 DEF Untaken
<1> QED BY <1>1, <1>2, <1>3 DEF StepsLeft

\* A pool that was called settles (build.ts, inPools), as far as it is for the pool
\* to say: until it has settled there is a job under way or a step of its own to
\* take, and every step leaves fewer to be taken, no more than twice the items and
\* two from the start. That jobs end and continuations run is the fairness
\* PoolSettles is checked under.
THEOREM NothingKeepsItFromSettling ==
    Spec => /\ [](outcome \notin {"returned", "thrown"} => SomethingGoesOn)
            /\ [][StepsLeft' \in Nat /\ StepsLeft' < StepsLeft]_vars
<1>1. Inv => (outcome \notin {"returned", "thrown"} => SomethingGoesOn)
  BY DEF Inv, TypeOK, Outcomes, LiveMeansBusy, SomethingGoesOn, AllReturned
<1>2. Inv /\ [Next]_vars => [StepsLeft' \in Nat /\ StepsLeft' < StepsLeft]_vars
  <2> SUFFICES ASSUME Inv, Next, vars' # vars
               PROVE  StepsLeft' \in Nat /\ StepsLeft' < StepsLeft
    OBVIOUS
  <2>1. CASE Start
    BY <2>1, StartLowers
  <2>2. CASE \E w \in Workers : Resolve(w) \/ Reject(w)
    BY <2>2, JobEndsLowers
  <2>3. CASE Settle
    <3>1. live = {} /\ next \in Nat /\ outcome = "pending" /\ outcome' \in {"returned", "thrown"}
      BY <2>3 DEF Inv, TypeOK, Settle, AllReturned
    <3>2. Untaken \in Nat /\ Cardinality(live) \in Nat
      BY <3>1, PoolAssumption, LiveAreCounted DEF Untaken
    <3> QED BY <3>1, <3>2 DEF StepsLeft
  <2>4. CASE Settled
    BY <2>4 DEF Settled
  <2> QED BY <2>1, <2>2, <2>3, <2>4 DEF Next
<1> QED BY <1>1, <1>2, Invariant, PTL DEF Spec
=============================================================================
