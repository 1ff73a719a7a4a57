------------------------------ MODULE Listener ------------------------------
(***************************************************************************)
(* `observe --listen`: startListener of packages/cli/src/observe/listen.ts.*)
(*                                                                         *)
(* Exporters post bodies of spans.  The listener holds each span until its *)
(* trace is whole (TraceBuffer), matches traces against the graph, adds    *)
(* what they came to to what the next flush writes, and at a flush adds    *)
(* that to the observed file.  It is one thread: a step is one turn of its *)
(* event loop, a body read to its end, a timer, the end of the server.     *)
(* The lock it holds meanwhile is ObservedFile's, so nobody else writes.   *)
(*                                                                         *)
(* What a span counts for is the number of times it is in the file.        *)
(***************************************************************************)
EXTENDS TraceBuffer

CONSTANTS
    Bodies,         \* the bodies exporters post
    Carries,        \* the trace of each of its spans, in order
    Filed,          \* those `observe <files>` has read before
    KnownBodies,    \* KNOWN_BODIES: how many are remembered
    MaxLives,       \* how often the listener is started
    MayDie,         \* whether it may be killed
    Graphs,         \* how a build may leave graph.db: new, absent, unreadable
    MayFailAtClose  \* whether the last flush may find a file that it can neither
                    \* read nor write

ASSUME ListenerAssumption ==
    /\ \A b \in Bodies : Carries[b] \in Seq(ToSet(Carries[b]))
    /\ Filed \subseteq Bodies /\ IsFiniteSet(Filed)
    /\ KnownBodies \in Nat
    /\ MaxLives \in Nat
    /\ Graphs \subseteq {"new", "absent", "unreadable"}

VARIABLES
    phase,      \* where the listener is
    inflight,   \* the bodies being received
    known,      \* the bodies it remembers, oldest first
    buffer,     \* the trace buffer
    pending,    \* what the next flush writes: how often each span
    bodies,     \* the bodies first read since the last flush
    firstFlush, \* whether it has not flushed yet
    reset,      \* whether it was started with --reset
    file,       \* the observed file: how often each span is in it
    sources,    \* and the bodies it names as files read
    spoilt,     \* whether the file is one that cannot be read
    graph,      \* graph.db, as against the one the listener has read
    lives,      \* how often the listener was started
    accepted,   \* history: the bodies read since it was started
    base,       \* history: what the file held of before
    forgotten   \* history: the bodies it remembered once and no longer does

memory == <<known, buffer, pending, bodies, firstFlush, reset>>
world == <<file, sources, spoilt, graph>>
history == <<accepted, base, forgotten>>
vars == <<phase, inflight, memory, world, lives, history>>

SpansIn(b) == [i \in DOMAIN Carries[b] |-> [body |-> b, at |-> i, trace |-> Carries[b][i]]]
Span(b) == ToSet(SpansIn(b))
Spans == UNION {Span(b) : b \in Bodies}

None == [s \in Spans |-> 0]
Plus(counts, spans) == [s \in Spans |-> counts[s] + IF s \in spans THEN 1 ELSE 0]
Sum(a, b) == [s \in Spans |-> a[s] + b[s]]

\* What a process held is gone with it.
Forgets ==
    /\ known' = <<>>
    /\ buffer' = NoTraces
    /\ pending' = None
    /\ bodies' = {}
    /\ firstFlush' = TRUE
    /\ reset' = FALSE
    /\ inflight' = {}

Init ==
    /\ phase = "off"
    /\ inflight = {}
    /\ known = <<>>
    /\ buffer = NoTraces
    /\ pending = None
    /\ bodies = {}
    /\ firstFlush = TRUE
    /\ reset = FALSE
    /\ file = [s \in Spans |-> IF s.body \in Filed THEN 1 ELSE 0]
    /\ sources = Filed
    /\ spoilt = FALSE
    /\ graph = "read"
    /\ lives = 0
    /\ accepted = {}
    /\ base = file
    /\ forgotten = {}

-----------------------------------------------------------------------------
(***************************************************************************)
(* Around it.                                                              *)
(***************************************************************************)

\* Time passes.
Tick ==
    /\ buffer # Older(buffer)
    /\ buffer' = Older(buffer)
    /\ UNCHANGED <<phase, inflight, known, pending, bodies, firstFlush, reset, world, lives, history>>

\* The observed file is replaced by one that cannot be read, or put right.
Spoil ==
    /\ phase = "listening" \/ (phase = "closing" /\ MayFailAtClose)
    /\ spoilt' = ~spoilt
    /\ UNCHANGED <<phase, inflight, memory, file, sources, graph, lives, history>>

\* graph.db is replaced, is gone for the moment, or is one that this listener
\* cannot read.
Rebuild(left) ==
    /\ graph # left
    /\ graph' = left
    /\ UNCHANGED <<phase, inflight, memory, file, sources, spoilt, lives, history>>

\* A body is posted, for the first time or again.
Post(b) ==
    /\ phase = "listening"
    /\ b \notin inflight
    /\ inflight' = inflight \union {b}
    /\ UNCHANGED <<phase, memory, world, lives, history>>

\* Mutation of MayHangUp: the connections of a server that closes are left open.
NobodyIsCutOff(b) == b \in inflight /\ phase = "listening"

\* The sender hangs up, or is cut off while the server closes.
MayHangUp(b) == b \in inflight

HangUp(b) ==
    /\ MayHangUp(b)
    /\ inflight' = inflight \ {b}
    /\ UNCHANGED <<phase, memory, world, lives, history>>

-----------------------------------------------------------------------------
(***************************************************************************)
(* The listener.                                                           *)
(***************************************************************************)

\* Mutation of KnownAtStart: what the file holds already is not remembered.
KnowsNothing(startOver) == {}

\* The bodies the file names as files read before.
KnownAtStart(startOver) == IF startOver THEN {} ELSE sources

\* As many as are remembered, the oldest forgotten first.
Newest(seen) ==
    SubSeq(seen, IF Len(seen) > KnownBodies THEN Len(seen) - KnownBodies + 1 ELSE 1, Len(seen))

Start(startOver) ==
    /\ phase \in {"off", "closed"}
    /\ lives < MaxLives
    /\ graph \notin {"absent", "unreadable"}
    /\ spoilt => startOver
    /\ graph' = "read"
    /\ phase' = "listening"
    /\ lives' = lives + 1
    /\ known' = Newest(SetToSeq(KnownAtStart(startOver)))
    /\ reset' = startOver
    /\ accepted' = {}
    /\ base' = file
    /\ forgotten' = KnownAtStart(startOver) \ ToSet(known')
    /\ UNCHANGED <<inflight, buffer, pending, bodies, firstFlush, file, sources, spoilt>>

\* The first n traces of a buffer are matched against the graph, which is read
\* again if it is a new one; one that is absent leaves the one read before.  If
\* it cannot be read the match throws, and they are gone from the buffer.
Throws(held, n) == graph = "unreadable" /\ First(held, n) # NoTraces
Matched(held, n) ==
    IF Throws(held, n) THEN pending ELSE Plus(pending, SpansOf(First(held, n)))
Match(held, n) ==
    graph' = IF graph = "new" /\ First(held, n) # NoTraces THEN "read" ELSE graph

\* A body read before is answered and not read again.
TakeAgain(b) ==
    /\ phase \in {"listening", "closing"}
    /\ b \in inflight
    /\ b \in ToSet(known)
    /\ inflight' = inflight \ {b}
    /\ UNCHANGED <<phase, memory, world, lives, history>>

\* A body is read: its spans go into the buffer, which lets go of what it has
\* no room for.  Nobody posts again what has been forgotten since.
Take(b) ==
    /\ phase \in {"listening", "closing"}
    /\ b \in inflight
    /\ b \notin ToSet(known)
    /\ b \notin forgotten
    /\ inflight' = inflight \ {b}
    /\ known' = Newest(Append(known, b))
    /\ forgotten' = forgotten \union (ToSet(Append(known, b)) \ ToSet(known'))
    /\ bodies' = bodies \union {b}
    /\ LET held == Added(buffer, SpansIn(b))
           n == CutShort(held)
       IN /\ buffer' = Rest(held, n)
          /\ pending' = Matched(held, n)
          /\ Match(held, n)
    /\ accepted' = accepted \union {b}
    /\ UNCHANGED <<phase, firstFlush, reset, file, sources, spoilt, lives, base>>

\* The traces whose wait is over are matched.
Sweep ==
    /\ phase = "listening"
    /\ Expired(buffer) > 0
    /\ buffer' = Rest(buffer, Expired(buffer))
    /\ pending' = Matched(buffer, Expired(buffer))
    /\ Match(buffer, Expired(buffer))
    /\ UNCHANGED <<phase, inflight, known, bodies, firstFlush, reset, file, sources, spoilt,
                   lives, history>>

\* Whether there is a file to add to.
Readable == (reset /\ firstFlush) \/ ~spoilt

\* What the file is taken to hold when it is added to.
Before == IF reset /\ firstFlush THEN None ELSE file

Nothing(counts) == counts = None /\ bodies = {}

\* Whether a flush of the first n traces writes the file: no match throws, there
\* is something to write, and the file can be read and saved.
Writes(n, saves) ==
    ~Throws(buffer, n) /\ ~Nothing(Matched(buffer, n)) /\ Readable /\ saves

Saves(n, saves) ==
    /\ Match(buffer, n)
    /\ IF Writes(n, saves)
       THEN /\ file' = Sum(Before, Matched(buffer, n))
            /\ sources' = IF reset /\ firstFlush THEN {} ELSE sources
            /\ spoilt' = FALSE
            /\ base' = IF reset /\ firstFlush THEN None ELSE base
       ELSE UNCHANGED <<file, sources, spoilt, base>>

\* Mutation of LeftPending: what is written is pending still.
AllLeftPending(n, saves) == Matched(buffer, n)

\* Mutation of LeftPending: what was not written is let go of too.
NothingLeftPending(n, saves) == None

\* What is written is let go of, and only that.
LeftPending(n, saves) == IF Writes(n, saves) THEN None ELSE Matched(buffer, n)

\* The timer.
FlushTimer(saves) ==
    /\ phase = "listening"
    /\ LET n == Expired(buffer) IN
       /\ Saves(n, saves)
       /\ buffer' = Rest(buffer, n)
       /\ pending' = LeftPending(n, saves)
       /\ bodies' = IF Writes(n, saves) THEN {} ELSE bodies
       /\ firstFlush' = (firstFlush /\ ~Writes(n, saves))
    /\ UNCHANGED <<phase, inflight, known, reset, lives, accepted, forgotten>>

\* A signal: the timers stop, and the server takes no more.
Close ==
    /\ phase = "listening"
    /\ ~Readable => MayFailAtClose
    /\ phase' = "closing"
    /\ UNCHANGED <<inflight, memory, world, lives, history>>

\* Mutation of AtTheEnd: what still waits is not matched.
OnlyTheExpired == Expired(buffer)

AtTheEnd == Len(buffer)

\* The last request has been answered or cut: everything held is matched and
\* written, and the process ends whatever became of that.
Closed(saves) ==
    /\ phase = "closing"
    /\ inflight = {}
    /\ ~saves => MayFailAtClose
    /\ Saves(AtTheEnd, saves)
    /\ phase' = "closed"
    /\ Forgets
    /\ UNCHANGED <<lives, accepted, forgotten>>

Die ==
    /\ MayDie
    /\ phase \in {"listening", "closing"}
    /\ phase' = "off"
    /\ Forgets
    /\ accepted' = {}
    /\ base' = file
    /\ forgotten' = {}
    /\ UNCHANGED <<world, lives>>

-----------------------------------------------------------------------------
Next ==
    \/ Tick
    \/ Spoil
    \/ \E left \in Graphs : Rebuild(left)
    \/ \E b \in Bodies : Post(b) \/ HangUp(b) \/ TakeAgain(b) \/ Take(b)
    \/ \E startOver \in BOOLEAN : Start(startOver)
    \/ Sweep
    \/ \E saves \in BOOLEAN : FlushTimer(saves) \/ Closed(saves)
    \/ Close
    \/ Die

\* Time passes, the timers fire, a save works in the end, and a server that
\* closes cuts off who does not.
Fairness ==
    /\ WF_vars(Tick)
    /\ WF_vars(FlushTimer(TRUE))
    /\ WF_vars(phase = "closing" /\ \E b \in Bodies : HangUp(b))
    /\ WF_vars(Closed(TRUE))

Spec == Init /\ [][Next]_vars /\ Fairness

-----------------------------------------------------------------------------
(***************************************************************************)
(* Properties.                                                             *)
(***************************************************************************)

Counts == [Spans -> Nat]
Helds == [trace : UNION {ToSet(Carries[b]) : b \in Bodies}, spans : SUBSET Spans, age : 0 .. Wait]

TypeOK ==
    /\ phase \in {"off", "listening", "closing", "closed"}
    /\ inflight \subseteq Bodies
    /\ known \in Seq(Bodies)
    /\ buffer \in Seq(Helds)
    /\ pending \in Counts
    /\ bodies \subseteq Bodies
    /\ firstFlush \in BOOLEAN
    /\ reset \in BOOLEAN
    /\ file \in Counts
    /\ sources \subseteq Filed
    /\ spoilt \in BOOLEAN
    /\ graph \in {"read", "new", "absent", "unreadable"}
    /\ lives \in 0 .. MaxLives
    /\ accepted \subseteq Bodies
    /\ base \in Counts
    /\ forgotten \subseteq Bodies

Running == phase \in {"listening", "closing"}
Waiting(s) == Cardinality({i \in DOMAIN buffer : s \in buffer[i].spans})
Counted(s) == file[s] - base[s]
AllIsWritten == \A b \in accepted : \A s \in Span(b) : Counted(s) = 1

\* Every span of a body that was answered is in one place, once: it waits for
\* its trace, it is to be written, or it is in the file.
EachSpanIsKeptOnce ==
    Running => \A s \in Spans :
        Waiting(s) + pending[s] + Counted(s) = IF s.body \in accepted THEN 1 ELSE 0

\* A body equal to a file read before is that file: what it says is in the
\* observed file once, however often it is posted.
WhatAFileSaidIsCountedOnce ==
    \A s \in Spans :
        s.body \in sources /\ ~(reset /\ firstFlush) => Waiting(s) + pending[s] + file[s] = 1

\* A listener that was stopped has written all it took.
StoppedMeansWritten ==
    phase = "closed" => AllIsWritten

\* How long ago a span was added to a trace, the body this step takes included.
Age(held) ==
    IF \E b \in accepted' \ accepted : held.trace \in ToSet(Carries[b]) THEN 0 ELSE held.age

\* What is let go of is never younger than what is kept.
TheOldestGoesFirst ==
    [][\A held \in ToSet(buffer), kept \in ToSet(buffer') :
          (\A other \in ToSet(buffer') : other.trace # held.trace) => Age(held) >= kept.age]_vars

\* No trace outstays its wait: a sweep, which stops at the first trace that
\* still waits, reaches every one that is due.
ASweepReachesAllThatIsDue ==
    \A held \in ToSet(Rest(buffer, Expired(buffer))) : held.age < Wait

\* What is taken is written, unless the listener ends first: if from some
\* moment on the file can be read.
TakenIsWritten ==
    <>[]~spoilt => (phase = "listening" ~> (phase # "listening" \/ AllIsWritten))

\* A listener that is told to stop stops.
ClosingEnds == phase = "closing" ~> phase # "closing"
=============================================================================
