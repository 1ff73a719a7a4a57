--------------------------- MODULE ObservedWindow ---------------------------
(***************************************************************************)
(* What runs of `flowatlas observe` make of the observed file:             *)
(* mergeObserved of packages/core/src/observed.ts and the samples a run    *)
(* takes in packages/cli/src/observe/match.ts.                             *)
(*                                                                         *)
(* One entry of the graph is looked at, and trace files that each hold one *)
(* request to it, failed, of a trace of its own.  A file is a number, which *)
(* is also the place of its trace among the ids.  The figures of an hour   *)
(* are the one that shows how figures are added up: how many spans.        *)
(*                                                                         *)
(* The specification's parts are named apart from ObservedFile's, which    *)
(* says how the same file is written: the proofs extend both.              *)
(***************************************************************************)
EXTENDS Integers, FiniteSets

CONSTANTS
    Files,          \* the trace files
    LastHour,       \* the bound on the clock
    Slowest,        \* the bound on how long a request took
    PerEntry,       \* SAMPLES_PER_ENTRY
    Windows         \* what --since may say, in hours

Hours == 0 .. LastHour
All == -1           \* --since all, and a file that names no window
Unsaid == -2        \* no --since

ASSUME WindowAssumption ==
    /\ Files \subseteq Nat /\ IsFiniteSet(Files)
    /\ LastHour \in Nat
    /\ Slowest \in Nat
    /\ PerEntry \in Nat \ {0}
    /\ Windows \subseteq Nat

VARIABLES
    at,         \* the hour of each file's request
    took,       \* how long it took
    clock,      \* the hour it is
    hours,      \* the file: how many spans of each hour
    slow,       \* the file: the slow requests shown
    failing,    \* the file: the failing requests shown
    sources,    \* the file: the trace files it has read
    window,     \* the file: the window it is cut to
    ranAt,      \* history: when the last run was
    furthest,   \* history: the furthest any cut has gone since a reset
    sampled     \* history: the files read since samples were last removed

world == <<at, took>>
observed == <<hours, slow, failing, sources, window>>
history == <<ranAt, furthest, sampled>>
windowVars == <<world, clock, observed, history>>

NoSpans == [h \in Hours |-> 0]

WindowInit ==
    /\ at \in [Files -> Hours]
    /\ took \in [Files -> 1 .. Slowest]
    /\ clock = 0
    /\ hours = NoSpans
    /\ slow = {}
    /\ failing = {}
    /\ sources = {}
    /\ window = All
    /\ ranAt = 0
    /\ furthest = 0
    /\ sampled = {}

Tick ==
    /\ clock < LastHour
    /\ clock' = clock + 1
    /\ UNCHANGED <<world, observed, history>>

-----------------------------------------------------------------------------
\* bySlowest and byLatest: whether f is shown before g.
Later(f, g) == at[f] > at[g] \/ (at[f] = at[g] /\ f < g)
Slower(f, g) == took[f] > took[g] \/ (took[f] = took[g] /\ Later(f, g))
Before(by, f, g) == IF by = "slowest" THEN Slower(f, g) ELSE Later(f, g)

Few(S, by) == {f \in S : Cardinality({g \in S : Before(by, g, f)}) < PerEntry}

\* Mutation of KeepFew: what a run brings is shown first.
KeepTheNewer(older, newer, by) ==
    IF Cardinality(newer) = PerEntry THEN newer ELSE Few(older \union newer, by)

\* The few of two lists of a few.
KeepFew(older, newer, by) == Few(older \union newer, by)

\* Whether an hour is inside the window, from the time of the run.
Cutoff(since) == IF since = All THEN 0 ELSE clock - since
Inside(h, since) == since = All \/ h + 1 >= Cutoff(since)

\* The requests whose hour is inside the window.
Cut(S, since) == {f \in S : Inside(at[f], since)}

\* What one run says of the files it reads: each hour, and a few of them.
SpansOf(read) == [h \in Hours |-> Cardinality({f \in read : at[f] = h})]

\* Mutation of Fresh: a file read before is read again.
Anything(named, base) == named

\* A file whose text has been read before is not read again.
Fresh(named, base) == named \ base.sources

Merged(a, b) == [h \in Hours |-> a[h] + b[h]]

NoFile == [hours |-> NoSpans, slow |-> {}, failing |-> {}, sources |-> {}, window |-> All]
File == [hours |-> hours, slow |-> slow, failing |-> failing, sources |-> sources,
         window |-> window]

\* One run: what the file held, plus what the run read, cut to the window.
Run(named, since, reset, samples) ==
    LET base == IF reset THEN NoFile ELSE File
        read == Fresh(named, base)
        cut == IF since = Unsaid THEN base.window ELSE since
        Shown(S) == IF samples THEN Cut(S, cut) ELSE {}
        added == Merged(base.hours, SpansOf(read))
        last == IF reset THEN 0 ELSE furthest
    IN
    /\ \A f \in named : at[f] <= clock
    /\ hours' = [h \in Hours |-> IF Inside(h, cut) THEN added[h] ELSE 0]
    /\ slow' = Shown(KeepFew(base.slow, Few(read, "slowest"), "slowest"))
    /\ failing' = Shown(KeepFew(base.failing, Few(read, "latest"), "latest"))
    /\ sources' = base.sources \union named
    /\ window' = cut
    /\ ranAt' = clock
    /\ furthest' = IF Cutoff(cut) > last THEN Cutoff(cut) ELSE last
    /\ sampled' = IF ~samples THEN {} ELSE read \union IF reset THEN {} ELSE sampled
    /\ UNCHANGED <<world, clock>>

WindowNext ==
    \/ Tick
    \/ \E named \in SUBSET Files \ {{}}, since \in Windows \union {All, Unsaid},
          reset, samples \in BOOLEAN : Run(named, since, reset, samples)

WindowSpec == WindowInit /\ [][WindowNext]_windowVars

-----------------------------------------------------------------------------
(***************************************************************************)
(* Properties.                                                             *)
(***************************************************************************)

\* What the file holds, and what is kept to say what it should.
WindowTypeOK ==
    /\ at \in [Files -> Hours]
    /\ took \in [Files -> 1 .. Slowest]
    /\ clock \in Hours
    /\ hours \in [Hours -> 0 .. Cardinality(Files)]
    /\ slow \subseteq Files
    /\ failing \subseteq Files
    /\ sources \subseteq Files
    /\ window \in Windows \union {All}
    /\ ranAt \in Hours
    /\ furthest \in Hours
    /\ sampled \subseteq sources

Counted(h) == Cardinality({f \in sources : at[f] = h})
NeverCut(h) == h + 1 >= furthest

\* However the files were spread over the runs, repeated, and the window moved
\* or widened between them: an hour that was never outside the window has
\* every span of every source, once, and no hour has more.
CountsAreOneRuns ==
    \A h \in Hours : hours[h] <= Counted(h) /\ (NeverCut(h) => hours[h] = Counted(h))

\* The failing requests shown of those hours are the latest few of all that
\* were read, as if one run had read them: what ages out of the window was
\* never in the way of what stays.
FailingAreOneRuns ==
    {f \in failing : NeverCut(at[f])} = Few({f \in sampled : NeverCut(at[f])}, "latest")

\* "The same spans read in two runs give the same file as one run over both":
\* where the last cut is the furthest, the slow requests shown are those one
\* run over everything would show.
TwoRunsAreOneRun ==
    ranAt = clock /\ furthest = Cutoff(window) =>
        slow = Cut(Few(sampled, "slowest"), window)
=============================================================================
