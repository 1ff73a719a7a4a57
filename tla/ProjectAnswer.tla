---------------------------- MODULE ProjectAnswer ----------------------------
(***************************************************************************)
(* What a build promises to whoever reads graph.db, however it came to its *)
(* answer: nothing here knows of caches, stamps, children or sessions.     *)
(*                                                                         *)
(* The sources of each repository have revisions that only grow.  A build  *)
(* that began when they were at some revisions answers, if it answers,     *)
(* with every input of every repository as it was at some moment since     *)
(* then: never with what was already out of date when it was asked.        *)
(* A repository may be missing from an answer only where there was none    *)
(* before.                                                                 *)
(***************************************************************************)
EXTENDS Integers

CONSTANTS
    Services,       \* the repositories
    Versioned,      \* what each of them is read from
    Builders,       \* the processes that build
    Nothing         \* no answer, no reading, no build

VARIABLES
    now,            \* the revision of every input of every repository
    since,          \* those revisions when each build began
    answer,         \* what graph.db says
    last            \* what it says, or last said

vars == <<now, since, answer, last>>

Revisions == [Services -> [Versioned -> Nat]]

Init ==
    /\ now \in Revisions
    /\ since = [b \in Builders |-> Nothing]
    /\ answer = Nothing
    /\ last = Nothing

\* Inputs change, and never back to an earlier revision.
Change ==
    /\ now' \in Revisions
    /\ \A s \in Services, i \in Versioned : now'[s][i] >= now[s][i]
    /\ UNCHANGED <<since, answer, last>>

Begin(b) ==
    /\ since[b] = Nothing
    /\ since' = [since EXCEPT ![b] = now]
    /\ UNCHANGED <<now, answer, last>>

\* The last answer goes just before the next one comes.
Withdraw(b) ==
    /\ since[b] # Nothing
    /\ answer' = Nothing
    /\ UNCHANGED <<now, since, last>>

\* Whether a reading has every input as it was at some moment since.
OfItsTime(b, s, reading) ==
    \A i \in Versioned : since[b][s][i] <= reading[i] /\ reading[i] <= now[s][i]

Answer(b) ==
    /\ since[b] # Nothing
    /\ answer' # Nothing
    /\ last' = answer'
    /\ \A s \in Services :
          IF answer'[s] = Nothing THEN last = Nothing ELSE OfItsTime(b, s, answer'[s])
    /\ UNCHANGED <<now, since>>

\* A build is over: it answered, kept the answer before it, or failed.  None
\* ends with the last answer withdrawn.
End(b) ==
    /\ answer = last
    /\ since' = [since EXCEPT ![b] = Nothing]
    /\ UNCHANGED <<now, answer, last>>

Next == Change \/ \E b \in Builders : Begin(b) \/ Withdraw(b) \/ Answer(b) \/ End(b)

Spec == Init /\ [][Next]_vars
=============================================================================
