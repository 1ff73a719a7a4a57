---------------------------- MODULE TraceBuffer ----------------------------
(***************************************************************************)
(* The spans a listener holds until their trace is whole: class            *)
(* TraceBuffer of packages/cli/src/observe/trace-buffer.ts.                *)
(*                                                                         *)
(* A buffer is the sequence its Map iterates over: the traces held, each   *)
(* with its spans and with how long ago one was last added to it, told     *)
(* apart as far as Wait and no further.                                    *)
(***************************************************************************)
EXTENDS Naturals, Sequences, FiniteSets, SequencesExt

CONSTANTS
    Wait,       \* waitMs
    MaxSpans,   \* TRACE_BUFFER_SPANS
    MaxTraces   \* TRACE_BUFFER_TRACES

ASSUME TraceBufferAssumption == Wait \in Nat /\ MaxSpans \in Nat /\ MaxTraces \in Nat

NoTraces == <<>>

SpansOf(buffer) == UNION {held.spans : held \in ToSet(buffer)}
SpanCount(buffer) == Cardinality(SpansOf(buffer))

\* Where a trace is in the buffer: nowhere, or in one place.
Places(buffer, trace) == {i \in DOMAIN buffer : buffer[i].trace = trace}
Of(buffer, trace) == CHOOSE i \in Places(buffer, trace) : TRUE

\* Mutation of AddSpan: the trace stays where it was in the map.
AddInPlace(buffer, span) ==
    IF Places(buffer, span.trace) = {}
    THEN Append(buffer, [trace |-> span.trace, spans |-> {span}, age |-> 0])
    ELSE [i \in DOMAIN buffer |->
             IF buffer[i].trace # span.trace THEN buffer[i]
             ELSE [buffer[i] EXCEPT !.spans = @ \union {span}, !.age = 0]]

\* A span goes to its trace, which is taken out and put back, so at the end.
AddSpan(buffer, span) ==
    IF Places(buffer, span.trace) = {}
    THEN Append(buffer, [trace |-> span.trace, spans |-> {span}, age |-> 0])
    ELSE LET i == Of(buffer, span.trace)
         IN  Append(RemoveAt(buffer, i), [buffer[i] EXCEPT !.spans = @ \union {span}, !.age = 0])

Added(buffer, spans) ==
    LET after[n \in 0 .. Len(spans)] ==
            IF n = 0 THEN buffer ELSE AddSpan(after[n - 1], spans[n])
    IN  after[Len(spans)]

Over(buffer) == SpanCount(buffer) > MaxSpans \/ Len(buffer) > MaxTraces

First(buffer, n) == SubSeq(buffer, 1, n)
Rest(buffer, n) == SubSeq(buffer, n + 1, Len(buffer))

\* Mutation of Expired: a trace is due only past its wait.
ExpiredLater(buffer) ==
    Min({n \in 0 .. Len(buffer) : n < Len(buffer) => buffer[n + 1].age <= Wait})

\* How many traces, from the first on, are let go for the bounds, and for their
\* wait being over: the latter stops at the first trace that still waits.
CutShort(buffer) == Min({n \in 0 .. Len(buffer) : ~Over(Rest(buffer, n))})
Expired(buffer) ==
    Min({n \in 0 .. Len(buffer) : n < Len(buffer) => buffer[n + 1].age < Wait})

Older(buffer) ==
    [i \in DOMAIN buffer |-> [buffer[i] EXCEPT !.age = IF @ < Wait THEN @ + 1 ELSE @]]
=============================================================================
