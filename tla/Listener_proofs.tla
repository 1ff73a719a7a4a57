--------------------------- MODULE Listener_proofs ---------------------------
(***************************************************************************)
(* Proofs about Listener: the traces it holds leave it from the oldest on, *)
(* a sweep reaches all that is due, and no trace file is counted twice -   *)
(* for any bodies and spans, any bounds and any number of lives.  Every    *)
(* span that was read is kept, once, where no build leaves a graph that    *)
(* cannot be read; and a listener that stops has written all of them where *)
(* besides the file can be written at the end.                             *)
(***************************************************************************)
EXTENDS Listener, FiniteSetTheorems, WellFoundedInduction, TLAPS

-----------------------------------------------------------------------------
(***************************************************************************)
(* The invariant.                                                          *)
(***************************************************************************)

\* The traces held are told apart, hold their own spans only, and stand in the
\* order a span was last added to them.
Sound(held) ==
    /\ held \in Seq(Helds)
    /\ \A i, j \in DOMAIN held : held[i].trace = held[j].trace => i = j
    /\ \A i \in DOMAIN held : \A s \in held[i].spans : s.trace = held[i].trace
    /\ \A i, j \in DOMAIN held : i < j => held[i].age >= held[j].age

\* A process that is not there holds nothing.
GoneWithIt ==
    ~Running => buffer = NoTraces /\ pending = None /\ bodies = {} /\ firstFlush /\ ~reset

\* What was read is remembered, or was until there was no room for it; and so is
\* what the file named, which is never read then.
ReadIsRemembered ==
    Running =>
        /\ accepted \subseteq ToSet(known) \union forgotten
        /\ ~reset => sources \subseteq ToSet(known) \union forgotten /\ accepted \intersect sources = {}

\* Only what was read waits.
WaitsWasRead ==
    \A s \in Spans : s \in SpansOf(buffer) \/ pending[s] # 0 => s.body \in accepted

\* What the file names as read is in it once.
NamedIsInIt == \A s \in Spans : s.body \in sources => file[s] = 1

\* The first flush of a listener that starts over lets go of what the file held
\* and named, and nothing is written before.
StartsOver ==
    /\ reset /\ ~firstFlush => sources = {}
    /\ Running /\ reset /\ firstFlush => file = base

ListenerInv ==
    /\ TypeOK
    /\ Sound(buffer)
    /\ GoneWithIt
    /\ ReadIsRemembered
    /\ WaitsWasRead
    /\ NamedIsInIt
    /\ StartsOver

\* Where no build leaves a graph.db that cannot be read, what is read is kept.
KeptInv ==
    /\ ListenerInv
    /\ graph # "unreadable"
    /\ EachSpanIsKeptOnce

\* And where besides the file can be written at the end, it is.
StoppedInv ==
    /\ KeptInv
    /\ phase = "closing" => Readable
    /\ StoppedMeansWritten
-----------------------------------------------------------------------------
(***************************************************************************)
(* The trace buffer.                                                       *)
(***************************************************************************)

Traces == UNION {ToSet(Carries[b]) : b \in Bodies}

LEMMA SomeIsLeast ==
    ASSUME NEW T \in SUBSET Nat, T # {}
    PROVE  \E n \in T : \A m \in T : n <= m
<1>1. PICK n \in T : \A m \in T : <<m, n>> \notin OpToRel(<, Nat)
  BY NatLessThanWellFounded, WFMin
<1>2. ASSUME NEW m \in T PROVE ~(m < n)
  BY <1>1 DEF OpToRel
<1> QED
  BY <1>2

LEMMA MinIsLeast ==
    ASSUME NEW T \in SUBSET Nat, T # {}
    PROVE  Min(T) \in T /\ \A m \in T : Min(T) <= m
  BY SomeIsLeast DEF Min

LEMMA ToSetIs == ASSUME NEW S, NEW s \in Seq(S) PROVE ToSet(s) = {s[i] : i \in 1 .. Len(s)}
  BY DEF ToSet

LEMMA RemoveAtIs ==
    ASSUME NEW S, NEW s \in Seq(S), NEW i \in 1 .. Len(s)
    PROVE  /\ RemoveAt(s, i) \in Seq(S)
           /\ Len(RemoveAt(s, i)) = Len(s) - 1
           /\ \A j \in 1 .. Len(s) - 1 : RemoveAt(s, i)[j] = IF j < i THEN s[j] ELSE s[j + 1]
<1>1. /\ SubSeq(s, 1, i - 1) \in Seq(S) /\ Len(SubSeq(s, 1, i - 1)) = i - 1
      /\ \A j \in 1 .. i - 1 : SubSeq(s, 1, i - 1)[j] = s[j]
  OBVIOUS
<1>2. /\ SubSeq(s, i + 1, Len(s)) \in Seq(S) /\ Len(SubSeq(s, i + 1, Len(s))) = Len(s) - i
      /\ \A j \in 1 .. Len(s) - i : SubSeq(s, i + 1, Len(s))[j] = s[i + j]
  OBVIOUS
<1> DEFINE l == SubSeq(s, 1, i - 1)
           r == SubSeq(s, i + 1, Len(s))
<1>3. RemoveAt(s, i) = l \o r
  BY DEF RemoveAt
<1> HIDE DEF l, r
<1>4. /\ l \o r \in Seq(S) /\ Len(l \o r) = Len(s) - 1
      /\ \A j \in 1 .. Len(s) - 1 : (l \o r)[j] = IF j < i THEN s[j] ELSE s[j + 1]
  <2>1. l \in Seq(S) /\ r \in Seq(S) /\ Len(l) = i - 1 /\ Len(r) = Len(s) - i
    BY <1>1, <1>2 DEF l, r
  <2>2. l \o r \in Seq(S) /\ Len(l \o r) = Len(s) - 1
    BY <2>1
  <2>3. ASSUME NEW j \in 1 .. Len(s) - 1 PROVE (l \o r)[j] = IF j < i THEN s[j] ELSE s[j + 1]
    <3>1. CASE j < i
      BY <1>1, <2>1, <3>1 DEF l
    <3>2. CASE ~(j < i)
      <4>1. (l \o r)[j] = r[j - (i - 1)]
        BY <2>1, <3>2
      <4>2. j - (i - 1) \in 1 .. Len(s) - i /\ i + (j - (i - 1)) = j + 1
        BY <3>2
      <4> QED
        BY <1>2, <3>2, <4>1, <4>2 DEF r
    <3> QED
      BY <3>1, <3>2
  <2> QED
    BY <2>2, <2>3
<1> QED
  BY <1>3, <1>4

LEMMA RestIs ==
    ASSUME NEW S, NEW s \in Seq(S), NEW n \in 0 .. Len(s)
    PROVE  /\ Rest(s, n) \in Seq(S) /\ Len(Rest(s, n)) = Len(s) - n
           /\ \A j \in 1 .. Len(s) - n : Rest(s, n)[j] = s[n + j]
           /\ First(s, n) \in Seq(S) /\ Len(First(s, n)) = n
           /\ \A j \in 1 .. n : First(s, n)[j] = s[j]
  BY DEF Rest, First

LEMMA SoundRest ==
    ASSUME NEW held, Sound(held), NEW n \in 0 .. Len(held)
    PROVE  Sound(Rest(held, n))
<1>1. held \in Seq(Helds) /\ Len(held) \in Nat
  BY DEF Sound
<1>2. /\ Rest(held, n) \in Seq(Helds) /\ Len(Rest(held, n)) = Len(held) - n
      /\ \A j \in 1 .. Len(held) - n : Rest(held, n)[j] = held[n + j]
  BY <1>1, RestIs
<1>5. \A j \in 1 .. Len(held) - n : n + j \in 1 .. Len(held)
  BY <1>1
<1>3. DOMAIN Rest(held, n) = 1 .. Len(held) - n /\ DOMAIN held = 1 .. Len(held)
  BY <1>1, <1>2
<1> DEFINE rest == Rest(held, n)
<1> HIDE DEF rest
<1>4. ASSUME NEW i \in 1 .. Len(held) - n, NEW j \in 1 .. Len(held) - n
      PROVE  /\ rest[i].trace = rest[j].trace => i = j
             /\ \A s \in rest[i].spans : s.trace = rest[i].trace
             /\ i < j => rest[i].age >= rest[j].age
  <2>1. rest[i] = held[n + i] /\ rest[j] = held[n + j] /\ n + i \in DOMAIN held /\ n + j \in DOMAIN held
    BY <1>2, <1>3, <1>5 DEF rest
  <2>2. (n + i = n + j => i = j) /\ (i < j => n + i < n + j)
    OBVIOUS
  <2> QED
    BY <2>1, <2>2 DEF Sound
<1> QED
  BY <1>2, <1>3, <1>4 DEF Sound, rest

\* What is held is either of the first n or of the rest, and of one of them only.
LEMMA FirstOrRest ==
    ASSUME NEW held, Sound(held), NEW n \in 0 .. Len(held)
    PROVE  /\ SpansOf(First(held, n)) \union SpansOf(Rest(held, n)) = SpansOf(held)
           /\ SpansOf(First(held, n)) \intersect SpansOf(Rest(held, n)) = {}
<1>1. held \in Seq(Helds) /\ Len(held) \in Nat /\ DOMAIN held = 1 .. Len(held)
  BY DEF Sound
<1>2. ASSUME NEW s
      PROVE  /\ s \in SpansOf(held) <=> \E i \in 1 .. Len(held) : s \in held[i].spans
             /\ s \in SpansOf(First(held, n)) <=> \E i \in 1 .. n : s \in held[i].spans
             /\ s \in SpansOf(Rest(held, n)) <=> \E j \in 1 .. Len(held) - n : s \in held[n + j].spans
  <2>1. ASSUME NEW b \in Seq(Helds)
        PROVE  s \in SpansOf(b) <=> \E i \in 1 .. Len(b) : s \in b[i].spans
    BY ToSetIs DEF SpansOf
  <2>2. /\ First(held, n) \in Seq(Helds) /\ Len(First(held, n)) = n
        /\ \A j \in 1 .. n : First(held, n)[j] = held[j]
        /\ Rest(held, n) \in Seq(Helds) /\ Len(Rest(held, n)) = Len(held) - n
        /\ \A j \in 1 .. Len(held) - n : Rest(held, n)[j] = held[n + j]
    BY <1>1, RestIs
  <2>3. s \in SpansOf(First(held, n)) <=> \E i \in 1 .. n : s \in First(held, n)[i].spans
    BY <2>1, <2>2
  <2>4. s \in SpansOf(Rest(held, n)) <=> \E j \in 1 .. Len(held) - n : s \in Rest(held, n)[j].spans
    BY <2>1, <2>2
  <2> QED
    BY <1>1, <2>1, <2>2, <2>3, <2>4
<1>3. ASSUME NEW i \in 1 .. Len(held), NEW j \in 1 .. Len(held), NEW s,
             s \in held[i].spans, s \in held[j].spans
      PROVE  i = j
  BY <1>1, <1>3 DEF Sound
<1>4. \A i \in 1 .. Len(held) : i \in 1 .. n \/ (i - n \in 1 .. Len(held) - n /\ n + (i - n) = i)
  BY <1>1
<1>5. ASSUME NEW s \in SpansOf(held) PROVE s \in SpansOf(First(held, n)) \union SpansOf(Rest(held, n))
  <2>1. PICK i \in 1 .. Len(held) : s \in held[i].spans
    BY <1>2
  <2>2. CASE i \in 1 .. n
    BY <1>2, <2>1, <2>2
  <2>3. CASE i - n \in 1 .. Len(held) - n /\ n + (i - n) = i
    BY <1>2, <2>1, <2>3
  <2> QED
    BY <1>4, <2>2, <2>3
<1>6. ASSUME NEW s \in SpansOf(First(held, n)) \union SpansOf(Rest(held, n)) PROVE s \in SpansOf(held)
  <2>1. PICK i \in 1 .. Len(held) : s \in held[i].spans
    BY <1>1, <1>2
  <2> QED
    BY <1>2, <2>1
<1>7. ASSUME NEW s \in SpansOf(First(held, n)), s \in SpansOf(Rest(held, n)) PROVE FALSE
  <2>1. PICK i \in 1 .. n : s \in held[i].spans
    BY <1>2
  <2>2. PICK j \in 1 .. Len(held) - n : s \in held[n + j].spans
    BY <1>2, <1>7
  <2>3. i \in 1 .. Len(held) /\ n + j \in 1 .. Len(held) /\ i # n + j
    BY <1>1
  <2> QED
    BY <1>3, <2>1, <2>2, <2>3
<1> QED
  BY <1>5, <1>6, <1>7

LEMMA CutShortIs ==
    ASSUME NEW held, Sound(held) PROVE CutShort(held) \in 0 .. Len(held)
<1>1. held \in Seq(Helds) /\ Len(held) \in Nat
  BY DEF Sound
<1>2. ~Over(Rest(held, Len(held)))
  <2>1. Rest(held, Len(held)) = <<>>
    BY <1>1, RestIs
  <2>2. SpansOf(<<>>) = {}
    BY DEF SpansOf, ToSet
  <2> QED
    BY <2>1, <2>2, FS_EmptySet, TraceBufferAssumption DEF Over, SpanCount
<1> DEFINE T == {n \in 0 .. Len(held) : ~Over(Rest(held, n))}
<1>3. T \in SUBSET Nat /\ T # {}
  BY <1>1, <1>2
<1> QED
  BY <1>3, MinIsLeast DEF CutShort

LEMMA ExpiredIs ==
    ASSUME NEW held, Sound(held)
    PROVE  /\ Expired(held) \in 0 .. Len(held)
           /\ Expired(held) < Len(held) => held[Expired(held) + 1].age < Wait
<1>1. held \in Seq(Helds) /\ Len(held) \in Nat
  BY DEF Sound
<1> DEFINE T == {n \in 0 .. Len(held) : n < Len(held) => held[n + 1].age < Wait}
<1>2. T \in SUBSET Nat /\ T # {}
  BY <1>1
<1>3. Expired(held) \in T
  BY <1>2, MinIsLeast DEF Expired
<1> QED
  BY <1>3

LEMMA SpansHeld ==
    ASSUME NEW held \in Seq(Helds), NEW s
    PROVE  s \in SpansOf(held) <=> \E i \in 1 .. Len(held) : s \in held[i].spans
  BY ToSetIs DEF SpansOf

LEMMA AppendIs ==
    ASSUME NEW S, NEW s \in Seq(S), NEW e \in S
    PROVE  /\ Append(s, e) \in Seq(S) /\ Len(Append(s, e)) = Len(s) + 1
           /\ \A i \in 1 .. Len(s) : Append(s, e)[i] = s[i]
           /\ Append(s, e)[Len(s) + 1] = e
  OBVIOUS

\* A trace that is not held goes to the end.
LEMMA SoundAppend ==
    ASSUME NEW held, Sound(held), NEW one \in Helds, one.age = 0,
           \A s \in one.spans : s.trace = one.trace,
           \A i \in 1 .. Len(held) : held[i].trace # one.trace
    PROVE  /\ Sound(Append(held, one))
           /\ \A s : s \in SpansOf(Append(held, one)) <=> s \in SpansOf(held) \/ s \in one.spans
<1> DEFINE now == Append(held, one)
<1>1. held \in Seq(Helds) /\ Len(held) \in Nat /\ DOMAIN held = 1 .. Len(held)
  BY DEF Sound
<1>2. /\ now \in Seq(Helds) /\ Len(now) = Len(held) + 1 /\ DOMAIN now = 1 .. Len(held) + 1
      /\ \A i \in 1 .. Len(held) : now[i] = held[i]
      /\ now[Len(held) + 1] = one
  BY <1>1
<1> HIDE DEF now
<1>3. ASSUME NEW i \in 1 .. Len(held) + 1
      PROVE  i \in 1 .. Len(held) \/ i = Len(held) + 1
  BY <1>1
<1>4. ASSUME NEW i \in 1 .. Len(held) PROVE held[i].age \in Nat
  <2>1. held[i] \in Helds
    BY <1>1
  <2> QED
    BY <2>1, TraceBufferAssumption DEF Helds
<1>5. ASSUME NEW i \in 1 .. Len(held) + 1, NEW j \in 1 .. Len(held) + 1
      PROVE  /\ now[i].trace = now[j].trace => i = j
             /\ \A s \in now[i].spans : s.trace = now[i].trace
             /\ i < j => now[i].age >= now[j].age
  <2>1. CASE i \in 1 .. Len(held) /\ j \in 1 .. Len(held)
    BY <1>1, <1>2, <2>1 DEF Sound
  <2>2. CASE i = Len(held) + 1 /\ j \in 1 .. Len(held)
    BY <1>1, <1>2, <2>2
  <2>3. CASE i \in 1 .. Len(held) /\ j = Len(held) + 1
    BY <1>1, <1>2, <1>4, <2>3 DEF Sound
  <2>4. CASE i = Len(held) + 1 /\ j = Len(held) + 1
    BY <1>1, <1>2, <2>4
  <2> QED
    BY <1>3, <2>1, <2>2, <2>3, <2>4
<1>6. Sound(now)
  BY <1>2, <1>5 DEF Sound
<1>7. ASSUME NEW s PROVE s \in SpansOf(now) <=> s \in SpansOf(held) \/ s \in one.spans
  <2>1. s \in SpansOf(now) <=> \E i \in 1 .. Len(held) + 1 : s \in now[i].spans
    BY <1>2, SpansHeld
  <2>2. s \in SpansOf(held) <=> \E i \in 1 .. Len(held) : s \in held[i].spans
    BY <1>1, SpansHeld
  <2> QED
    BY <1>1, <1>2, <1>3, <2>1, <2>2
<1> QED
  BY <1>6, <1>7 DEF now

\* Without one of its traces a buffer holds the others as it did.
LEMMA SoundRemoveAt ==
    ASSUME NEW held, Sound(held), NEW i \in 1 .. Len(held)
    PROVE  /\ Sound(RemoveAt(held, i)) /\ Len(RemoveAt(held, i)) = Len(held) - 1
           /\ \A j \in 1 .. Len(held) - 1 : RemoveAt(held, i)[j].trace # held[i].trace
           /\ \A j \in 1 .. Len(held) :
                  j # i => \E k \in 1 .. Len(held) - 1 : RemoveAt(held, i)[k] = held[j]
           /\ \A s : s \in SpansOf(held) <=> s \in SpansOf(RemoveAt(held, i)) \/ s \in held[i].spans
<1> DEFINE others == RemoveAt(held, i)
           Was(j) == IF j < i THEN j ELSE j + 1
<1>1. held \in Seq(Helds) /\ Len(held) \in Nat /\ DOMAIN held = 1 .. Len(held)
  BY DEF Sound
<1>2. /\ others \in Seq(Helds) /\ Len(others) = Len(held) - 1
      /\ \A j \in 1 .. Len(held) - 1 : others[j] = IF j < i THEN held[j] ELSE held[j + 1]
  BY <1>1, RemoveAtIs
<1>3. ASSUME NEW j \in 1 .. Len(held) - 1
      PROVE  others[j] = held[Was(j)] /\ Was(j) \in 1 .. Len(held) /\ Was(j) # i
  BY <1>1, <1>2
<1>4. ASSUME NEW j \in 1 .. Len(held) - 1, NEW k \in 1 .. Len(held) - 1
      PROVE  (Was(j) = Was(k) => j = k) /\ (j < k => Was(j) < Was(k))
  BY <1>1
<1>5. DOMAIN others = 1 .. Len(held) - 1
  BY <1>1, <1>2
<1>6. ASSUME NEW j \in 1 .. Len(held), j # i
      PROVE  \E k \in 1 .. Len(held) - 1 : Was(k) = j
  <2>1. CASE j < i
    <3>1. j \in 1 .. Len(held) - 1 /\ Was(j) = j
      BY <1>1, <2>1
    <3> QED
      BY <3>1
  <2>2. CASE j > i
    <3>1. j - 1 \in 1 .. Len(held) - 1 /\ Was(j - 1) = j
      BY <1>1, <2>2
    <3> QED
      BY <3>1
  <2> QED
    BY <1>6, <2>1, <2>2
<1> HIDE DEF others, Was
<1>7. ASSUME NEW j \in 1 .. Len(held) - 1, NEW k \in 1 .. Len(held) - 1
      PROVE  /\ others[j].trace = others[k].trace => j = k
             /\ \A s \in others[j].spans : s.trace = others[j].trace
             /\ j < k => others[j].age >= others[k].age
  BY <1>1, <1>3, <1>4 DEF Sound
<1>8. Sound(others)
  BY <1>2, <1>5, <1>7 DEF Sound
<1>9. ASSUME NEW j \in 1 .. Len(held) - 1 PROVE others[j].trace # held[i].trace
  BY <1>1, <1>3 DEF Sound
<1>10. ASSUME NEW s PROVE s \in SpansOf(held) <=> s \in SpansOf(others) \/ s \in held[i].spans
  <2>1. s \in SpansOf(others) <=> \E j \in 1 .. Len(held) - 1 : s \in others[j].spans
    BY <1>2, SpansHeld
  <2>2. s \in SpansOf(held) <=> \E j \in 1 .. Len(held) : s \in held[j].spans
    BY <1>1, SpansHeld
  <2> QED
    BY <1>3, <1>6, <2>1, <2>2
<1> QED
  BY <1>2, <1>3, <1>6, <1>8, <1>9, <1>10 DEF others

\* Whose traces a body says something of are of no age once it is read.
AgeAfter(held, traces) == IF held.trace \in traces THEN 0 ELSE held.age

LEMMA AddSpanIs ==
    ASSUME NEW held, Sound(held), NEW span \in Spans, span.trace \in Traces
    PROVE  LET now == AddSpan(held, span) IN
           /\ Sound(now)
           /\ \A s : s \in SpansOf(now) <=> s \in SpansOf(held) \/ s = span
           /\ \A i \in 1 .. Len(held) : \E j \in 1 .. Len(now) :
                  now[j].trace = held[i].trace /\ now[j].age = AgeAfter(held[i], {span.trace})
<1> DEFINE now == AddSpan(held, span)
<1>1. held \in Seq(Helds) /\ Len(held) \in Nat /\ DOMAIN held = 1 .. Len(held)
  BY DEF Sound
<1>2. CASE Places(held, span.trace) = {}
  <2> DEFINE one == [trace |-> span.trace, spans |-> {span}, age |-> 0]
  <2>1. now = Append(held, one)
    BY <1>2 DEF AddSpan
  <2>2. one \in Helds
    BY TraceBufferAssumption DEF Helds, Traces
  <2>3. \A i \in 1 .. Len(held) : held[i].trace # one.trace
    BY <1>1, <1>2 DEF Places
  <2>4. Sound(now) /\ \A s : s \in SpansOf(now) <=> s \in SpansOf(held) \/ s \in one.spans
    BY <2>1, <2>2, <2>3, SoundAppend
  <2>5. ASSUME NEW i \in 1 .. Len(held)
        PROVE  i \in 1 .. Len(now) /\ now[i] = held[i]
    BY <1>1, <2>1, <2>2
  <2> QED
    BY <2>3, <2>4, <2>5 DEF AgeAfter
<1>3. CASE Places(held, span.trace) # {}
  <2> DEFINE i == Of(held, span.trace)
             others == RemoveAt(held, i)
             one == [held[i] EXCEPT !.spans = @ \union {span}, !.age = 0]
  <2>1. i \in 1 .. Len(held) /\ held[i].trace = span.trace
    BY <1>1, <1>3 DEF Places, Of
  <2>2. now = Append(others, one)
    BY <1>3 DEF AddSpan
  <2> HIDE DEF i
  <2>3. /\ held[i] \in Helds /\ one \in Helds
        /\ one.trace = span.trace /\ one.spans = held[i].spans \union {span} /\ one.age = 0
    <3>1. held[i] \in Helds
      BY <1>1, <2>1
    <3>2. 0 \in 0 .. Wait
      BY TraceBufferAssumption
    <3> QED
      BY <2>1, <3>1, <3>2 DEF Helds
  <2>4. \A s \in one.spans : s.trace = one.trace
    BY <1>1, <2>1, <2>3 DEF Sound
  <2>5. /\ Sound(others) /\ Len(others) = Len(held) - 1
        /\ \A j \in 1 .. Len(held) - 1 : others[j].trace # held[i].trace
        /\ \A j \in 1 .. Len(held) : j # i => \E k \in 1 .. Len(held) - 1 : others[k] = held[j]
        /\ \A s : s \in SpansOf(held) <=> s \in SpansOf(others) \/ s \in held[i].spans
    BY <2>1, SoundRemoveAt
  <2>9. others \in Seq(Helds)
    BY <2>5 DEF Sound
  <2>10. \A j \in 1 .. Len(others) : others[j].trace # one.trace
    BY <2>1, <2>3, <2>5
  <2> HIDE DEF others, one, now
  <2>6. Sound(now) /\ \A s : s \in SpansOf(now) <=> s \in SpansOf(others) \/ s \in one.spans
    BY <2>2, <2>3, <2>4, <2>5, <2>10, SoundAppend
  <2>7. /\ Len(now) = Len(held) /\ now[Len(held)] = one
        /\ \A k \in 1 .. Len(held) - 1 : now[k] = others[k]
    <3>1. Len(others) + 1 = Len(held)
      BY <1>1, <2>5
    <3>2. /\ Len(now) = Len(others) + 1 /\ now[Len(others) + 1] = one
          /\ \A k \in 1 .. Len(others) : now[k] = others[k]
      BY <2>2, <2>3, <2>9, AppendIs
    <3> QED
      BY <2>5, <3>1, <3>2
  <2>8. ASSUME NEW j \in 1 .. Len(held)
        PROVE  \E k \in 1 .. Len(now) :
                  now[k].trace = held[j].trace /\ now[k].age = AgeAfter(held[j], {span.trace})
    <3>1. CASE j = i
      BY <1>1, <2>1, <2>3, <2>7, <3>1 DEF AgeAfter
    <3>2. CASE j # i
      <4>1. PICK k \in 1 .. Len(held) - 1 : others[k] = held[j]
        BY <2>5, <3>2
      <4>2. k \in 1 .. Len(now) /\ now[k] = held[j] /\ held[j].trace # span.trace
        BY <1>1, <2>1, <2>5, <2>7, <4>1
      <4> QED
        BY <4>2 DEF AgeAfter
    <3> QED
      BY <3>1, <3>2
  <2> QED
    BY <2>3, <2>5, <2>6, <2>8 DEF now
<1> QED
  BY <1>2, <1>3

\* Adding spans one after another is a function of how many were added.
LEMMA AddedInTurn ==
    ASSUME NEW held, NEW spans, Len(spans) \in Nat
    PROVE  \E after :
               /\ after[0] = held
               /\ \A n \in 1 .. Len(spans) : after[n] = AddSpan(after[n - 1], spans[n])
               /\ Added(held, spans) = after[Len(spans)]
<1> DEFINE Next1(f, n) == IF n = 0 THEN held ELSE AddSpan(f[n - 1], spans[n])
           Is(f, k) == f = [n \in 0 .. k |-> Next1(f, n)]
           T == {k \in Nat : ~\E f : Is(f, k)}
<1>1. ASSUME NEW k \in T, \A m \in T : k <= m PROVE FALSE
  <2>1. CASE k = 0
    <3> DEFINE f == [n \in 0 .. 0 |-> held]
    <3>1. f = [n \in 0 .. 0 |-> Next1(f, n)]
      OBVIOUS
    <3>2. Is(f, 0)
      BY <3>1
    <3> QED
      BY <2>1, <3>2
  <2>2. CASE k # 0
    <3>1. k - 1 \in Nat /\ k - 1 \notin T
      <4>1. k \in Nat
        OBVIOUS
      <4>2. k - 1 \in Nat /\ ~(k <= k - 1)
        BY <2>2, <4>1
      <4> HIDE DEF T
      <4> QED
        BY <1>1, <4>2
    <3>2. PICK g : Is(g, k - 1)
      BY <3>1
    <3> DEFINE f == [n \in 0 .. k |-> IF n = k THEN AddSpan(g[k - 1], spans[k]) ELSE g[n]]
    <3>3. ASSUME NEW n \in 0 .. k PROVE f[n] = Next1(f, n)
      <4>1. CASE n = k
        <5>1. f[k - 1] = g[k - 1] /\ k # 0
          BY <2>2
        <5> QED
          BY <4>1, <5>1
      <4>2. CASE n # k
        <5>1. f[n] = Next1(g, n) /\ n \in 0 .. k - 1
          BY <3>2, <4>2
        <5>2. n # 0 => f[n - 1] = g[n - 1]
          BY <4>2
        <5> QED
          BY <5>1, <5>2
      <4> QED
        BY <4>1, <4>2
    <3>4. f = [n \in 0 .. k |-> Next1(f, n)]
      <4>1. f = [n \in 0 .. k |-> f[n]]
        OBVIOUS
      <4> HIDE DEF f, Next1
      <4> QED
        BY <3>3, <4>1
    <3>5. Is(f, k)
      BY <3>4
    <3> QED
      BY <3>5
  <2> QED
    BY <2>1, <2>2
<1>2. T = {}
  <2>1. T \in SUBSET Nat
    OBVIOUS
  <2> HIDE DEF T
  <2> QED
    BY <1>1, <2>1, SomeIsLeast
<1>3. \E f : Is(f, Len(spans))
  BY <1>2
<1> DEFINE after == CHOOSE f : Is(f, Len(spans))
<1>4. Is(after, Len(spans))
  BY <1>3
<1>5. Added(held, spans) = after[Len(spans)]
  BY DEF Added
<1> HIDE DEF after
<1>6. /\ after[0] = held
      /\ \A n \in 1 .. Len(spans) : after[n] = AddSpan(after[n - 1], spans[n])
  BY <1>4
<1> QED
  BY <1>5, <1>6

\* What is added to a buffer is held in it, with what was; the traces it adds to
\* are of no age, and the others are as old as they were.
LEMMA AddedIs ==
    ASSUME NEW held, Sound(held), NEW spans \in Seq(Spans),
           \A i \in 1 .. Len(spans) : spans[i].trace \in Traces
    PROVE  LET now == Added(held, spans) IN
           /\ Sound(now)
           /\ \A s : s \in SpansOf(now) <=> s \in SpansOf(held) \/ s \in ToSet(spans)
           /\ \A i \in 1 .. Len(held) : \E j \in 1 .. Len(now) :
                  /\ now[j].trace = held[i].trace
                  /\ now[j].age = AgeAfter(held[i], {s.trace : s \in ToSet(spans)})
<1> DEFINE N == Len(spans)
           Some(n) == {spans[i] : i \in 1 .. n}
           Right(now, n) ==
               /\ Sound(now)
               /\ \A s : s \in SpansOf(now) <=> s \in SpansOf(held) \/ s \in Some(n)
               /\ \A i \in 1 .. Len(held) : \E j \in 1 .. Len(now) :
                      /\ now[j].trace = held[i].trace
                      /\ now[j].age = AgeAfter(held[i], {s.trace : s \in Some(n)})
<1>1. N \in Nat /\ ToSet(spans) = Some(N)
  BY ToSetIs
<1>2. PICK after :
          /\ after[0] = held
          /\ \A n \in 1 .. N : after[n] = AddSpan(after[n - 1], spans[n])
          /\ Added(held, spans) = after[N]
  BY <1>1, AddedInTurn
<1> DEFINE T == {n \in 0 .. N : ~Right(after[n], n)}
<1>3. Right(after[0], 0)
  <2>1. Some(0) = {}
    OBVIOUS
  <2>2. \A i \in 1 .. Len(held) : AgeAfter(held[i], {s.trace : s \in Some(0)}) = held[i].age
    BY <2>1 DEF AgeAfter
  <2> HIDE DEF Some
  <2> QED
    BY <1>2, <2>1, <2>2
<1>4. ASSUME NEW n \in 1 .. N, Right(after[n - 1], n - 1) PROVE Right(after[n], n)
  <2> DEFINE was == after[n - 1]
             now == after[n]
             span == spans[n]
  <2>1. now = AddSpan(was, span) /\ span \in Spans /\ span.trace \in Traces
    BY <1>2
  <2>2. Some(n) = Some(n - 1) \union {span}
    <3>1. \A i \in 1 .. n : i \in 1 .. n - 1 \/ i = n
      OBVIOUS
    <3>2. \A i \in 1 .. n - 1 : i \in 1 .. n
      OBVIOUS
    <3>3. n \in 1 .. n
      OBVIOUS
    <3> QED
      BY <3>1, <3>2, <3>3
  <2>3. Right(was, n - 1)
    BY <1>4
  <2> HIDE DEF was, now, span, Some
  <2>8. Sound(was)
    BY <2>3
  <2>4. /\ Sound(now)
        /\ \A s : s \in SpansOf(now) <=> s \in SpansOf(was) \/ s = span
        /\ \A i \in 1 .. Len(was) : \E j \in 1 .. Len(now) :
               now[j].trace = was[i].trace /\ now[j].age = AgeAfter(was[i], {span.trace})
    <3> HIDE DEF Right
    <3>1. /\ Sound(AddSpan(was, span))
          /\ \A s : s \in SpansOf(AddSpan(was, span)) <=> s \in SpansOf(was) \/ s = span
          /\ \A i \in 1 .. Len(was) : \E j \in 1 .. Len(AddSpan(was, span)) :
                 /\ AddSpan(was, span)[j].trace = was[i].trace
                 /\ AddSpan(was, span)[j].age = AgeAfter(was[i], {span.trace})
      <4>1. span \in Spans /\ span.trace \in Traces
        BY <2>1
      <4> QED
        BY <2>8, <4>1, AddSpanIs
    <3> QED
      BY <2>1, <3>1
  <2>5. \A s : s \in SpansOf(now) <=> s \in SpansOf(held) \/ s \in Some(n)
    BY <2>2, <2>3, <2>4
  <2>6. ASSUME NEW i \in 1 .. Len(held)
        PROVE  \E j \in 1 .. Len(now) :
                  /\ now[j].trace = held[i].trace
                  /\ now[j].age = AgeAfter(held[i], {s.trace : s \in Some(n)})
    <3>1. PICK k \in 1 .. Len(was) :
              /\ was[k].trace = held[i].trace
              /\ was[k].age = AgeAfter(held[i], {s.trace : s \in Some(n - 1)})
      BY <2>3
    <3>2. PICK j \in 1 .. Len(now) :
              now[j].trace = was[k].trace /\ now[j].age = AgeAfter(was[k], {span.trace})
      BY <2>4
    <3>3. {s.trace : s \in Some(n)} = {s.trace : s \in Some(n - 1)} \union {span.trace}
      BY <2>2
    <3>4. now[j].age = AgeAfter(held[i], {s.trace : s \in Some(n)})
      BY <3>1, <3>2, <3>3 DEF AgeAfter
    <3> QED
      BY <3>1, <3>2, <3>4
  <2>7. Right(now, n)
    BY <2>4, <2>5, <2>6
  <2> QED
    BY <2>7 DEF now
<1>5. T = {}
  <2>1. T \in SUBSET Nat
    OBVIOUS
  <2>2. ASSUME NEW n \in T, \A m \in T : n <= m PROVE FALSE
    <3>1. n # 0 /\ n \in 0 .. N /\ ~Right(after[n], n)
      BY <1>3, <2>2
    <3>2. n \in 1 .. N /\ n - 1 \in 0 .. N /\ ~(n <= n - 1)
      BY <1>1, <3>1
    <3>3. Right(after[n - 1], n - 1)
      BY <2>2, <3>2
    <3> HIDE DEF Right
    <3> QED
      BY <1>4, <3>1, <3>2, <3>3
  <2> HIDE DEF T
  <2> QED
    BY <2>1, <2>2, SomeIsLeast
<1>6. Right(after[N], N)
  <2>1. N \in 0 .. N
    BY <1>1
  <2> HIDE DEF Right, N
  <2> QED
    BY <1>5, <2>1
<1> QED
  BY <1>1, <1>2, <1>6

LEMMA SoundNothing == Sound(NoTraces) /\ SpansOf(NoTraces) = {}
  BY DEF Sound, NoTraces, SpansOf, ToSet

\* Time passes for all that is held.
LEMMA SoundOlder ==
    ASSUME NEW held, Sound(held)
    PROVE  /\ Sound(Older(held)) /\ Len(Older(held)) = Len(held)
           /\ \A i \in 1 .. Len(held) :
                  Older(held)[i].trace = held[i].trace /\ Older(held)[i].spans = held[i].spans
<1> DEFINE now == Older(held)
<1>1. held \in Seq(Helds) /\ Len(held) \in Nat /\ DOMAIN held = 1 .. Len(held)
  BY DEF Sound
<1>2. ASSUME NEW i \in 1 .. Len(held)
      PROVE  /\ now[i] \in Helds
             /\ now[i].trace = held[i].trace /\ now[i].spans = held[i].spans
             /\ now[i].age = IF held[i].age < Wait THEN held[i].age + 1 ELSE held[i].age
  <2>0. held[i] \in Helds
    BY <1>1
  <2>1. held[i] \in Helds /\ held[i].age \in 0 .. Wait
    BY <2>0 DEF Helds
  <2>2. now[i] = [held[i] EXCEPT !.age = IF @ < Wait THEN @ + 1 ELSE @]
    BY <1>1 DEF Older
  <2>3. (IF held[i].age < Wait THEN held[i].age + 1 ELSE held[i].age) \in 0 .. Wait
    BY <2>1, TraceBufferAssumption
  <2> QED
    BY <2>1, <2>2, <2>3 DEF Helds
<1>3. now \in Seq(Helds) /\ Len(now) = Len(held) /\ DOMAIN now = 1 .. Len(held)
  <2>1. now = [i \in 1 .. Len(held) |-> now[i]]
    BY <1>1 DEF Older
  <2> HIDE DEF now
  <2> QED
    BY <1>1, <1>2, <2>1
<1>4. \A i \in 1 .. Len(held) : held[i].age \in Nat
  <2>1. \A i \in 1 .. Len(held) : held[i] \in Helds
    BY <1>1
  <2> QED
    BY <2>1, TraceBufferAssumption DEF Helds
<1> HIDE DEF now
<1>5. ASSUME NEW i \in 1 .. Len(held), NEW j \in 1 .. Len(held)
      PROVE  /\ now[i].trace = now[j].trace => i = j
             /\ \A s \in now[i].spans : s.trace = now[i].trace
             /\ i < j => now[i].age >= now[j].age
  <2>1. i < j => held[i].age >= held[j].age
    BY <1>1 DEF Sound
  <2>2. i < j => now[i].age >= now[j].age
    BY <1>2, <1>4, <2>1, TraceBufferAssumption
  <2> QED
    BY <1>1, <1>2, <2>2 DEF Sound
<1> QED
  BY <1>2, <1>3, <1>5 DEF Sound, now

LEMMA OlderHolds ==
    ASSUME NEW held, Sound(held) PROVE SpansOf(Older(held)) = SpansOf(held)
<1>1. held \in Seq(Helds) /\ Older(held) \in Seq(Helds)
  BY SoundOlder DEF Sound
<1>2. ASSUME NEW s PROVE s \in SpansOf(Older(held)) <=> s \in SpansOf(held)
  BY <1>1, SpansHeld, SoundOlder
<1> QED
  BY <1>2

\* A span waits in one place, or in none.
LEMMA WaitsInOnePlace ==
    ASSUME NEW held, Sound(held), NEW s
    PROVE  Cardinality({i \in DOMAIN held : s \in held[i].spans}) = IF s \in SpansOf(held) THEN 1 ELSE 0
<1>1. held \in Seq(Helds) /\ DOMAIN held = 1 .. Len(held)
  BY DEF Sound
<1>2. CASE s \in SpansOf(held)
  <2>1. PICK i \in 1 .. Len(held) : s \in held[i].spans
    BY <1>1, <1>2, SpansHeld
  <2>2. {j \in DOMAIN held : s \in held[j].spans} = {i}
    BY <1>1, <2>1 DEF Sound
  <2> QED
    BY <1>2, <2>2, FS_Singleton
<1>3. CASE s \notin SpansOf(held)
  <2>1. {j \in DOMAIN held : s \in held[j].spans} = {}
    BY <1>1, <1>3, SpansHeld
  <2> QED
    BY <1>3, <2>1, FS_EmptySet
<1> QED
  BY <1>2, <1>3

-----------------------------------------------------------------------------
(***************************************************************************)
(* Bodies, and what is remembered of them.                                 *)
(***************************************************************************)

LEMMA SpansAre ==
    ASSUME NEW b \in Bodies
    PROVE  /\ SpansIn(b) \in Seq(Spans)
           /\ \A i \in 1 .. Len(SpansIn(b)) : SpansIn(b)[i].trace \in Traces
           /\ ToSet(SpansIn(b)) = Span(b)
           /\ \A s \in Span(b) : s.body = b
           /\ {s.trace : s \in Span(b)} = ToSet(Carries[b])
<1>1. Carries[b] \in Seq(ToSet(Carries[b])) /\ DOMAIN Carries[b] = 1 .. Len(Carries[b])
  BY ListenerAssumption
<1>2. /\ DOMAIN SpansIn(b) = 1 .. Len(Carries[b]) /\ Len(Carries[b]) \in Nat
      /\ \A i \in 1 .. Len(Carries[b]) :
             SpansIn(b)[i] = [body |-> b, at |-> i, trace |-> Carries[b][i]]
  BY <1>1 DEF SpansIn
<1>3. \A i \in 1 .. Len(Carries[b]) : SpansIn(b)[i] \in Span(b) /\ Carries[b][i] \in Traces
  BY <1>1, <1>2 DEF Span, ToSet, Traces
<1>4. Span(b) \subseteq Spans
  BY DEF Spans
<1>5. SpansIn(b) \in Seq(Spans) /\ Len(SpansIn(b)) = Len(Carries[b])
  <2>1. SpansIn(b) = [i \in 1 .. Len(Carries[b]) |-> SpansIn(b)[i]]
    BY <1>1 DEF SpansIn
  <2> QED
    BY <1>2, <1>3, <1>4, <2>1
<1> DEFINE One(i) == [body |-> b, at |-> i, trace |-> Carries[b][i]]
<1>6. /\ Span(b) = {One(i) : i \in 1 .. Len(Carries[b])}
      /\ ToSet(Carries[b]) = {Carries[b][i] : i \in 1 .. Len(Carries[b])}
  BY <1>1, <1>2 DEF Span, ToSet
<1>7. \A i : One(i).body = b /\ One(i).trace = Carries[b][i]
  OBVIOUS
<1> HIDE DEF One
<1>8. {s.trace : s \in Span(b)} = ToSet(Carries[b])
  BY <1>6, <1>7
<1>9. \A s \in Span(b) : s.body = b
  BY <1>6, <1>7
<1>10. \A i \in 1 .. Len(SpansIn(b)) : SpansIn(b)[i].trace \in Traces
  <2>1. ASSUME NEW i \in 1 .. Len(Carries[b]) PROVE SpansIn(b)[i].trace = Carries[b][i]
    <3>1. SpansIn(b)[i] = One(i)
      BY <1>2 DEF One
    <3> QED
      BY <1>7, <3>1
  <2> QED
    BY <1>3, <1>5, <2>1
<1> QED
  BY <1>5, <1>8, <1>9, <1>10 DEF Span

LEMMA SpanOf == ASSUME NEW s \in Spans PROVE s.body \in Bodies /\ s \in Span(s.body)
  BY SpansAre DEF Spans

LEMMA NewestAre ==
    ASSUME NEW S, NEW seen \in Seq(S)
    PROVE  Newest(seen) \in Seq(S)
<1>1. KnownBodies \in Nat /\ Len(seen) \in Nat
  BY ListenerAssumption
<1> QED
  BY <1>1 DEF Newest

LEMMA ListedOnce ==
    ASSUME NEW S, IsFiniteSet(S) PROVE SetToSeq(S) \in Seq(S)
<1>1. PICK f : f \in Bijection(1 .. Cardinality(S), S)
  BY FS_CardinalityType DEF ExistsBijection
<1>2. Cardinality(S) \in Nat
  BY FS_CardinalityType
<1>3. f \in [1 .. Cardinality(S) -> S] /\ IsInjective(f)
  BY <1>1 DEF Bijection, Injection, IsInjective
<1>4. SetToSeq(S) \in [1 .. Cardinality(S) -> S]
  BY <1>3 DEF SetToSeq
<1> QED
  BY <1>2, <1>4

LEMMA AppendHolds ==
    ASSUME NEW S, NEW s \in Seq(S), NEW e \in S
    PROVE  ToSet(Append(s, e)) = ToSet(s) \union {e}
<1>1. Append(s, e) \in Seq(S) /\ Len(s) \in Nat /\ Len(Append(s, e)) = Len(s) + 1
  OBVIOUS
<1>2. /\ ToSet(Append(s, e)) = {Append(s, e)[i] : i \in 1 .. Len(s) + 1}
      /\ ToSet(s) = {s[i] : i \in 1 .. Len(s)}
  BY <1>1, ToSetIs
<1>3. ASSUME NEW i \in 1 .. Len(s) + 1 PROVE i \in 1 .. Len(s) \/ i = Len(s) + 1
  BY <1>1
<1>4. \A i \in 1 .. Len(s) : Append(s, e)[i] = s[i] /\ i \in 1 .. Len(s) + 1
  BY <1>1
<1>5. Append(s, e)[Len(s) + 1] = e /\ Len(s) + 1 \in 1 .. Len(s) + 1
  BY <1>1
<1> QED
  BY <1>2, <1>3, <1>4, <1>5

LEMMA ToSetWithin == ASSUME NEW S, NEW s \in Seq(S) PROVE ToSet(s) \subseteq S
  BY ToSetIs

LEMMA CountsAre ==
    /\ None \in Counts
    /\ \A s \in Spans : None[s] = 0
    /\ \A a, c \in Counts :
           Sum(a, c) \in Counts /\ \A s \in Spans : Sum(a, c)[s] = a[s] + c[s]
  BY DEF None, Counts, Sum

\* What is matched is added to what is to be written, each span once.
LEMMA MatchedIs ==
    ASSUME NEW held, Sound(held), NEW n \in 0 .. Len(held), pending \in Counts
    PROVE  /\ Matched(held, n) \in Counts
           /\ Throws(held, n) => Matched(held, n) = pending
           /\ ~Throws(held, n) => \A s \in Spans : Matched(held, n)[s] =
                  pending[s] + IF s \in SpansOf(First(held, n)) THEN 1 ELSE 0
<1> DEFINE gone == SpansOf(First(held, n))
           more == [s \in Spans |-> pending[s] + IF s \in gone THEN 1 ELSE 0]
<1>1. Matched(held, n) = IF Throws(held, n) THEN pending ELSE more
  BY DEF Matched, Plus
<1>2. more \in Counts /\ \A s \in Spans : more[s] = pending[s] + IF s \in gone THEN 1 ELSE 0
  BY DEF Counts
<1> HIDE DEF more, gone
<1>3. CASE Throws(held, n)
  BY <1>1, <1>3
<1>4. CASE ~Throws(held, n)
  BY <1>1, <1>2, <1>4 DEF gone
<1> QED
  BY <1>3, <1>4

\* What a match leaves pending was pending, or was held.
LEMMA MatchedWasHeld ==
    ASSUME NEW held, Sound(held), NEW n \in 0 .. Len(held), pending \in Counts,
           NEW s \in Spans, Matched(held, n)[s] # 0
    PROVE  pending[s] # 0 \/ s \in SpansOf(held)
<1>1. CASE Throws(held, n)
  BY <1>1, MatchedIs
<1>2. CASE ~Throws(held, n)
  <2>1. Matched(held, n)[s] = pending[s] + IF s \in SpansOf(First(held, n)) THEN 1 ELSE 0
    BY <1>2, MatchedIs
  <2>2. pending[s] # 0 \/ s \in SpansOf(First(held, n))
    BY <2>1
  <2> QED
    BY <2>2, FirstOrRest
<1> QED
  BY <1>1, <1>2

LEMMA MatchIs ==
    ASSUME graph \in {"read", "new", "absent", "unreadable"}, NEW held, NEW n, Match(held, n)
    PROVE  graph' \in {"read", "new", "absent", "unreadable"} /\ (graph' = graph \/ graph' = "read")
  BY DEF Match

-----------------------------------------------------------------------------
(***************************************************************************)
(* The steps.                                                              *)
(***************************************************************************)

\* What is neither the buffer nor what it is matched into.
Waits(s) == s \in SpansOf(buffer)

LEMMA WaitingIs ==
    ASSUME Sound(buffer), NEW s PROVE Waiting(s) = IF Waits(s) THEN 1 ELSE 0
  BY WaitsInOnePlace DEF Waiting, Waits

\* A step that touches neither what the listener holds nor the file.
LEMMA AsideKeeps ==
    ASSUME ListenerInv, TypeOK', UNCHANGED <<memory, file, sources, history>>, Running' = Running
    PROVE  ListenerInv'
<1>1. UNCHANGED <<known, buffer, pending, bodies, firstFlush, reset, file, sources, accepted, base,
                  forgotten>>
  BY DEF memory, history
<1>2. Sound(buffer)'
  BY <1>1 DEF ListenerInv, Sound
<1>3. GoneWithIt'
  BY <1>1 DEF ListenerInv, GoneWithIt
<1>4. ReadIsRemembered'
  BY <1>1 DEF ListenerInv, ReadIsRemembered
<1>5. WaitsWasRead' /\ NamedIsInIt'
  BY <1>1 DEF ListenerInv, WaitsWasRead, NamedIsInIt
<1>6. StartsOver'
  BY <1>1 DEF ListenerInv, StartsOver
<1> QED
  BY <1>2, <1>3, <1>4, <1>5, <1>6 DEF ListenerInv

LEMMA TickKeeps == ASSUME ListenerInv, Tick PROVE ListenerInv'
<1>1. /\ buffer' = Older(buffer) /\ Sound(buffer)
      /\ UNCHANGED <<phase, inflight, known, pending, bodies, firstFlush, reset, file, sources,
                     spoilt, graph, lives, accepted, base, forgotten>>
  BY DEF Tick, world, history, ListenerInv
<1>2. Sound(buffer') /\ SpansOf(buffer') = SpansOf(buffer)
  BY <1>1, SoundOlder, OlderHolds
<1>3. TypeOK'
  BY <1>1, <1>2 DEF ListenerInv, TypeOK, Sound
<1>4. Running' = Running
  BY <1>1 DEF Running
<1>5. GoneWithIt'
  <2>1. buffer = NoTraces => buffer' = NoTraces
    BY DEF Tick, Older, NoTraces
  <2> QED
    BY <1>1, <1>4, <2>1 DEF ListenerInv, GoneWithIt
<1>6. ReadIsRemembered'
  BY <1>1, <1>4 DEF ListenerInv, ReadIsRemembered
<1>7. WaitsWasRead' /\ NamedIsInIt'
  <2>1. SpansOf(buffer)' = SpansOf(buffer)
    BY <1>2
  <2> QED
    BY <1>1, <2>1 DEF ListenerInv, WaitsWasRead, NamedIsInIt
<1>8. StartsOver'
  BY <1>1, <1>4 DEF ListenerInv, StartsOver
<1>9. Sound(buffer)'
  BY <1>2 DEF Sound
<1> QED
  BY <1>3, <1>5, <1>6, <1>7, <1>8, <1>9 DEF ListenerInv

LEMMA StartKeeps == ASSUME ListenerInv, NEW startOver \in BOOLEAN, Start(startOver) PROVE ListenerInv'
<1> DEFINE seen == SetToSeq(KnownAtStart(startOver))
<1>1. /\ phase \in {"off", "closed"} /\ phase' = "listening" /\ graph' = "read"
      /\ lives < MaxLives /\ lives' = lives + 1
      /\ known' = Newest(seen) /\ reset' = startOver
      /\ accepted' = {} /\ base' = file
      /\ forgotten' = KnownAtStart(startOver) \ ToSet(known')
      /\ UNCHANGED <<inflight, buffer, pending, bodies, firstFlush, file, sources, spoilt>>
  BY DEF Start
<1>2. ~Running /\ Running'
  BY <1>1 DEF Running
<1>3. buffer = NoTraces /\ pending = None /\ bodies = {} /\ firstFlush
  BY <1>2 DEF ListenerInv, GoneWithIt
<1>4. KnownAtStart(startOver) \subseteq sources /\ (~startOver => KnownAtStart(startOver) = sources)
  BY DEF KnownAtStart
<1>5. known' \in Seq(Bodies)
  <2>1. sources \subseteq Filed
    BY DEF ListenerInv, TypeOK
  <2>2. IsFiniteSet(KnownAtStart(startOver))
    BY <1>4, <2>1, FS_Subset, ListenerAssumption
  <2>3. seen \in Seq(KnownAtStart(startOver))
    BY <2>2, ListedOnce
  <2>4. seen \in Seq(Bodies)
    BY <1>4, <2>1, <2>3, ListenerAssumption
  <2> QED
    BY <1>1, <2>4, NewestAre
<1>6. TypeOK'
  <2>1. forgotten' \subseteq Bodies
    BY <1>1, <1>4, ListenerAssumption DEF ListenerInv, TypeOK
  <2>2. lives' \in 0 .. MaxLives
    BY <1>1, ListenerAssumption DEF ListenerInv, TypeOK
  <2> QED
    BY <1>1, <1>5, <2>1, <2>2 DEF ListenerInv, TypeOK
<1>7. Sound(buffer)'
  BY <1>1 DEF ListenerInv, Sound
<1>8. ReadIsRemembered'
  BY <1>1, <1>4 DEF ReadIsRemembered
<1>9. WaitsWasRead'
  BY <1>1, <1>3, SoundNothing, CountsAre DEF WaitsWasRead
<1>10. NamedIsInIt'
  BY <1>1 DEF ListenerInv, NamedIsInIt
<1>11. StartsOver'
  <2>1. firstFlush' = TRUE
    BY <1>1, <1>3
  <2> QED
    BY <1>1, <2>1 DEF StartsOver
<1>12. GoneWithIt'
  BY <1>2 DEF GoneWithIt
<1> QED
  BY <1>6, <1>7, <1>8, <1>9, <1>10, <1>11, <1>12 DEF ListenerInv

\* What a body brings: its spans are held with what was.
LEMMA TakenIs ==
    ASSUME ListenerInv, NEW b \in Bodies
    PROVE  LET held == Added(buffer, SpansIn(b)) IN
           /\ Sound(held) /\ CutShort(held) \in 0 .. Len(held)
           /\ \A s : s \in SpansOf(held) <=> s \in SpansOf(buffer) \/ s \in Span(b)
           /\ \A i \in 1 .. Len(buffer) : \E j \in 1 .. Len(held) :
                  /\ held[j].trace = buffer[i].trace
                  /\ held[j].age = AgeAfter(buffer[i], ToSet(Carries[b]))
<1> DEFINE held == Added(buffer, SpansIn(b))
<1>1. /\ SpansIn(b) \in Seq(Spans) /\ ToSet(SpansIn(b)) = Span(b)
      /\ \A i \in 1 .. Len(SpansIn(b)) : SpansIn(b)[i].trace \in Traces
      /\ {s.trace : s \in Span(b)} = ToSet(Carries[b])
  BY SpansAre
<1>2. /\ Sound(held)
      /\ \A s : s \in SpansOf(held) <=> s \in SpansOf(buffer) \/ s \in ToSet(SpansIn(b))
      /\ \A i \in 1 .. Len(buffer) : \E j \in 1 .. Len(held) :
             /\ held[j].trace = buffer[i].trace
             /\ held[j].age = AgeAfter(buffer[i], {s.trace : s \in ToSet(SpansIn(b))})
  BY <1>1, AddedIs DEF ListenerInv
<1> HIDE DEF held
<1>3. CutShort(held) \in 0 .. Len(held)
  BY <1>2, CutShortIs
<1> QED
  BY <1>1, <1>2, <1>3 DEF held

\* What is remembered or was, after a body is read.
LEMMA TakenIsRemembered ==
    ASSUME ListenerInv, NEW b \in Bodies, Take(b)
    PROVE  /\ known' \in Seq(Bodies) /\ forgotten' \subseteq Bodies
           /\ ToSet(known) \union forgotten \union {b} \subseteq ToSet(known') \union forgotten'
<1>1. /\ known' = Newest(Append(known, b))
      /\ forgotten' = forgotten \union (ToSet(Append(known, b)) \ ToSet(known'))
      /\ known \in Seq(Bodies) /\ forgotten \subseteq Bodies
  BY DEF Take, ListenerInv, TypeOK
<1>2. ToSet(Append(known, b)) = ToSet(known) \union {b} /\ ToSet(known) \subseteq Bodies
  BY <1>1, AppendHolds, ToSetWithin
<1>3. known' \in Seq(Bodies)
  <2>1. Append(known, b) \in Seq(Bodies)
    BY <1>1
  <2> QED
    BY <1>1, <2>1, NewestAre
<1> QED
  BY <1>1, <1>2, <1>3

LEMMA TakeKeeps == ASSUME ListenerInv, NEW b \in Bodies, Take(b) PROVE ListenerInv'
<1> DEFINE held == Added(buffer, SpansIn(b))
           n == CutShort(held)
<1>1. /\ phase \in {"listening", "closing"} /\ phase' = phase
      /\ b \notin ToSet(known) /\ b \notin forgotten
      /\ inflight' = inflight \ {b} /\ bodies' = bodies \union {b}
      /\ buffer' = Rest(held, n) /\ pending' = Matched(held, n) /\ Match(held, n)
      /\ accepted' = accepted \union {b}
      /\ UNCHANGED <<firstFlush, reset, file, sources, spoilt, lives, base>>
  BY DEF Take
<1>2. /\ Sound(held) /\ n \in 0 .. Len(held)
      /\ \A s : s \in SpansOf(held) <=> s \in SpansOf(buffer) \/ s \in Span(b)
  BY TakenIs
<1>3. /\ known' \in Seq(Bodies) /\ forgotten' \subseteq Bodies
      /\ ToSet(known) \union forgotten \union {b} \subseteq ToSet(known') \union forgotten'
  BY TakenIsRemembered
<1> HIDE DEF held, n
<1>4. Running /\ Running'
  BY <1>1 DEF Running
<1>5. Sound(buffer')
  BY <1>1, <1>2, SoundRest
<1>6. pending \in Counts /\ pending' \in Counts
  BY <1>1, <1>2, MatchedIs DEF ListenerInv, TypeOK
<1>7. TypeOK'
  <2>1. graph' \in {"read", "new", "absent", "unreadable"}
    BY <1>1, MatchIs DEF ListenerInv, TypeOK
  <2>2. buffer' \in Seq(Helds)
    BY <1>5 DEF Sound
  <2> QED
    BY <1>1, <1>3, <1>6, <2>1, <2>2 DEF ListenerInv, TypeOK
<1>8. Sound(buffer)'
  BY <1>5 DEF Sound
<1>9. GoneWithIt'
  BY <1>4 DEF GoneWithIt
<1>10. ReadIsRemembered'
  <2>1. accepted' \subseteq ToSet(known') \union forgotten'
    BY <1>1, <1>3, <1>4 DEF ListenerInv, ReadIsRemembered
  <2>2. ASSUME ~reset
        PROVE  sources' \subseteq ToSet(known') \union forgotten' /\ accepted' \intersect sources' = {}
    BY <1>1, <1>3, <1>4, <2>2 DEF ListenerInv, ReadIsRemembered
  <2>3. ~reset' => ~reset
    BY <1>1
  <2> QED
    BY <2>1, <2>2, <2>3 DEF ReadIsRemembered
<1>11. WaitsWasRead'
  <2>1. ASSUME NEW s \in Spans, s \in SpansOf(buffer') \/ pending'[s] # 0
        PROVE  s.body \in accepted'
    <3>1. s \in SpansOf(held) \/ pending[s] # 0
      BY <1>1, <1>2, <1>6, <2>1, FirstOrRest, MatchedWasHeld
    <3>2. s \in SpansOf(buffer) \/ pending[s] # 0 => s.body \in accepted
      BY DEF ListenerInv, WaitsWasRead
    <3>3. s \in Span(b) => s.body = b
      BY SpansAre
    <3> QED
      BY <1>1, <1>2, <3>1, <3>2, <3>3
  <2> QED
    BY <2>1 DEF WaitsWasRead
<1>12. NamedIsInIt' /\ StartsOver'
  <2>1. NamedIsInIt'
    BY <1>1 DEF ListenerInv, NamedIsInIt
  <2>2. StartsOver'
    BY <1>1, <1>4 DEF ListenerInv, StartsOver
  <2> QED
    BY <2>1, <2>2
<1> QED
  BY <1>7, <1>8, <1>9, <1>10, <1>11, <1>12 DEF ListenerInv

LEMMA ExpiredRest ==
    ASSUME ListenerInv
    PROVE  /\ Expired(buffer) \in 0 .. Len(buffer)
           /\ Sound(Rest(buffer, Expired(buffer)))
           /\ Matched(buffer, Expired(buffer)) \in Counts
           /\ \A s \in Spans : s \in SpansOf(Rest(buffer, Expired(buffer)))
                                  \/ Matched(buffer, Expired(buffer))[s] # 0 => s.body \in accepted
<1>1. Sound(buffer) /\ pending \in Counts
  BY DEF ListenerInv, TypeOK
<1>2. Expired(buffer) \in 0 .. Len(buffer)
  BY <1>1, ExpiredIs
<1>3. ASSUME NEW s \in Spans, s \in SpansOf(Rest(buffer, Expired(buffer)))
                                  \/ Matched(buffer, Expired(buffer))[s] # 0
      PROVE  s.body \in accepted
  <2>1. s \in SpansOf(buffer) \/ pending[s] # 0
    BY <1>1, <1>2, <1>3, FirstOrRest, MatchedWasHeld
  <2> QED
    BY <2>1 DEF ListenerInv, WaitsWasRead
<1> QED
  BY <1>1, <1>2, <1>3, SoundRest, MatchedIs

LEMMA SweepKeeps == ASSUME ListenerInv, Sweep PROVE ListenerInv'
<1>1. /\ phase = "listening" /\ phase' = phase
      /\ buffer' = Rest(buffer, Expired(buffer))
      /\ pending' = Matched(buffer, Expired(buffer))
      /\ Match(buffer, Expired(buffer))
      /\ UNCHANGED <<inflight, known, bodies, firstFlush, reset, file, sources, spoilt, lives,
                     accepted, base, forgotten>>
  BY DEF Sweep, history
<1>2. Sound(buffer') /\ pending' \in Counts
  BY <1>1, ExpiredRest
<1>3. Running /\ Running'
  BY <1>1 DEF Running
<1>4. TypeOK'
  <2>1. graph' \in {"read", "new", "absent", "unreadable"}
    BY <1>1, MatchIs DEF ListenerInv, TypeOK
  <2>2. buffer' \in Seq(Helds)
    BY <1>2 DEF Sound
  <2> QED
    BY <1>1, <1>2, <2>1, <2>2 DEF ListenerInv, TypeOK
<1>5. Sound(buffer)'
  BY <1>2 DEF Sound
<1>6. GoneWithIt'
  BY <1>3 DEF GoneWithIt
<1>7. ReadIsRemembered'
  BY <1>1, <1>3 DEF ListenerInv, ReadIsRemembered
<1>8. WaitsWasRead'
  BY <1>1, ExpiredRest DEF WaitsWasRead
<1>9. NamedIsInIt' /\ StartsOver'
  <2>1. NamedIsInIt'
    BY <1>1 DEF ListenerInv, NamedIsInIt
  <2>2. StartsOver'
    BY <1>1, <1>3 DEF ListenerInv, StartsOver
  <2> QED
    BY <2>1, <2>2
<1> QED
  BY <1>4, <1>5, <1>6, <1>7, <1>8, <1>9 DEF ListenerInv

\* What a flush makes of the file: what it names is in it once still, since what
\* is added to it is of bodies it does not name.
LEMMA SavesKeeps ==
    ASSUME ListenerInv, Running, NEW n \in 0 .. Len(buffer), NEW saves \in BOOLEAN, Saves(n, saves)
    PROVE  /\ file' \in Counts /\ base' \in Counts /\ sources' \subseteq sources
           /\ spoilt' \in BOOLEAN /\ graph' \in {"read", "new", "absent", "unreadable"}
           /\ NamedIsInIt'
           /\ Writes(n, saves) /\ reset => sources' = {}
           /\ ~Writes(n, saves) => UNCHANGED <<file, sources, spoilt, base>>
<1>0. Sound(buffer) /\ pending \in Counts /\ file \in Counts /\ base \in Counts /\ TypeOK
  BY DEF ListenerInv, TypeOK
<1>1. Matched(buffer, n) \in Counts
  BY <1>0, MatchedIs
<1>2. Before \in Counts
  BY <1>0, CountsAre DEF Before
<1>3. graph' \in {"read", "new", "absent", "unreadable"}
  BY <1>0, MatchIs DEF Saves, TypeOK
<1>4. CASE Writes(n, saves)
  <2>1. /\ file' = Sum(Before, Matched(buffer, n))
        /\ sources' = IF reset /\ firstFlush THEN {} ELSE sources
        /\ spoilt' = FALSE
        /\ base' = IF reset /\ firstFlush THEN None ELSE base
    BY <1>4 DEF Saves
  <2>2. file' \in Counts /\ \A s \in Spans : file'[s] = Before[s] + Matched(buffer, n)[s]
    BY <1>1, <1>2, <2>1, CountsAre
  <2>3. base' \in Counts
    BY <1>0, <2>1, CountsAre
  <2>4. reset => sources' = {}
    BY <2>1 DEF ListenerInv, StartsOver
  <2>5. ASSUME NEW s \in Spans, s.body \in sources' PROVE file'[s] = 1
    <3>1. ~reset /\ s.body \in sources
      BY <2>1, <2>4, <2>5
    <3>2. s.body \notin accepted
      BY <3>1 DEF ListenerInv, ReadIsRemembered
    <3>3. Matched(buffer, n)[s] = 0
      <4>1. Matched(buffer, n)[s] # 0 => pending[s] # 0 \/ s \in SpansOf(buffer)
        BY <1>0, MatchedWasHeld
      <4> QED
        BY <3>2, <4>1 DEF ListenerInv, WaitsWasRead
    <3>4. Before[s] = file[s] /\ file[s] = 1
      BY <3>1 DEF Before, ListenerInv, NamedIsInIt
    <3> QED
      BY <2>2, <3>3, <3>4
  <2>6. NamedIsInIt'
    BY <2>5 DEF NamedIsInIt
  <2> QED
    BY <1>3, <1>4, <2>1, <2>2, <2>3, <2>4, <2>6
<1>5. CASE ~Writes(n, saves)
  <2>1. UNCHANGED <<file, sources, spoilt, base>>
    BY <1>5 DEF Saves
  <2>2. NamedIsInIt'
    BY <2>1 DEF ListenerInv, NamedIsInIt
  <2> QED
    BY <1>0, <1>3, <1>5, <2>1, <2>2 DEF TypeOK
<1> QED
  BY <1>4, <1>5

LEMMA FlushKeeps == ASSUME ListenerInv, NEW saves \in BOOLEAN, FlushTimer(saves) PROVE ListenerInv'
<1> DEFINE n == Expired(buffer)
<1>1. /\ phase = "listening" /\ phase' = phase
      /\ Saves(n, saves)
      /\ buffer' = Rest(buffer, n)
      /\ pending' = LeftPending(n, saves)
      /\ bodies' = IF Writes(n, saves) THEN {} ELSE bodies
      /\ firstFlush' = (firstFlush /\ ~Writes(n, saves))
      /\ UNCHANGED <<inflight, known, reset, lives, accepted, forgotten>>
  BY DEF FlushTimer
<1>2. /\ n \in 0 .. Len(buffer) /\ Sound(buffer')
      /\ Matched(buffer, n) \in Counts
      /\ \A s \in Spans : s \in SpansOf(buffer') \/ Matched(buffer, n)[s] # 0 => s.body \in accepted
  BY <1>1, ExpiredRest
<1>3. Running /\ Running'
  BY <1>1 DEF Running
<1> HIDE DEF n
<1>4. /\ file' \in Counts /\ base' \in Counts /\ sources' \subseteq sources
      /\ spoilt' \in BOOLEAN /\ graph' \in {"read", "new", "absent", "unreadable"}
      /\ NamedIsInIt'
      /\ Writes(n, saves) /\ reset => sources' = {}
      /\ ~Writes(n, saves) => UNCHANGED <<file, sources, spoilt, base>>
  BY <1>1, <1>2, <1>3, SavesKeeps
<1>5. pending' \in Counts
  BY <1>1, <1>2, CountsAre DEF LeftPending
<1>6. TypeOK'
  <2>1. buffer' \in Seq(Helds)
    BY <1>2 DEF Sound
  <2>2. firstFlush' \in BOOLEAN /\ reset' \in BOOLEAN
    BY <1>1 DEF ListenerInv, TypeOK
  <2> QED
    BY <1>1, <1>4, <1>5, <2>1, <2>2 DEF ListenerInv, TypeOK
<1>7. Sound(buffer)'
  BY <1>2 DEF Sound
<1>8. GoneWithIt'
  BY <1>3 DEF GoneWithIt
<1>9. ReadIsRemembered'
  BY <1>1, <1>3, <1>4 DEF ListenerInv, ReadIsRemembered
<1>10. WaitsWasRead'
  <2>1. \A s \in Spans : pending'[s] # 0 => Matched(buffer, n)[s] # 0
    BY <1>1, CountsAre DEF LeftPending
  <2> QED
    BY <1>1, <1>2, <2>1 DEF WaitsWasRead
<1>11. StartsOver'
  <2>1. CASE Writes(n, saves)
    <3>1. firstFlush' = FALSE /\ (reset => sources' = {}) /\ reset' = reset
      BY <1>1, <1>4, <2>1
    <3> QED
      BY <3>1 DEF StartsOver
  <2>2. CASE ~Writes(n, saves)
    <3>1. UNCHANGED <<file, sources, base, reset>> /\ firstFlush' = firstFlush
      BY <1>1, <1>4, <2>2 DEF ListenerInv, TypeOK
    <3> QED
      BY <1>3, <3>1 DEF ListenerInv, StartsOver
  <2> QED
    BY <2>1, <2>2
<1> QED
  BY <1>4, <1>6, <1>7, <1>8, <1>9, <1>10, <1>11 DEF ListenerInv

\* What is gone with its process is nothing.
LEMMA GoneKeeps ==
    ASSUME TypeOK', NamedIsInIt', ~Running', Forgets
    PROVE  ListenerInv'
<1>1. buffer' = NoTraces /\ pending' = None /\ bodies' = {} /\ firstFlush' = TRUE /\ reset' = FALSE
  BY DEF Forgets
<1>2. Sound(buffer)'
  BY <1>1, SoundNothing DEF Sound
<1>3. GoneWithIt'
  BY <1>1 DEF GoneWithIt
<1>4. ReadIsRemembered' /\ StartsOver'
  BY <1>1 DEF ReadIsRemembered, StartsOver
<1>5. WaitsWasRead'
  BY <1>1, SoundNothing, CountsAre DEF WaitsWasRead
<1> QED
  BY <1>2, <1>3, <1>4, <1>5 DEF ListenerInv

LEMMA ForgottenIsTyped ==
    ASSUME Forgets
    PROVE  /\ inflight' = {} /\ known' \in Seq(Bodies) /\ buffer' \in Seq(Helds)
           /\ pending' \in Counts /\ bodies' = {} /\ firstFlush' \in BOOLEAN /\ reset' \in BOOLEAN
<1>1. <<>> \in Seq(Bodies) /\ <<>> \in Seq(Helds)
  OBVIOUS
<1>2. None \in Counts
  BY CountsAre
<1> QED
  BY <1>1, <1>2 DEF Forgets, NoTraces

LEMMA ClosedKeeps == ASSUME ListenerInv, NEW saves \in BOOLEAN, Closed(saves) PROVE ListenerInv'
<1>1. /\ phase = "closing" /\ phase' = "closed" /\ Saves(Len(buffer), saves) /\ Forgets
      /\ UNCHANGED <<lives, accepted, forgotten>>
  BY DEF Closed, AtTheEnd
<1>2. Running /\ ~Running'
  BY <1>1 DEF Running
<1>3. Len(buffer) \in 0 .. Len(buffer)
  BY DEF ListenerInv, TypeOK
<1>4. /\ file' \in Counts /\ base' \in Counts /\ sources' \subseteq sources
      /\ spoilt' \in BOOLEAN /\ graph' \in {"read", "new", "absent", "unreadable"}
      /\ NamedIsInIt'
  BY <1>1, <1>2, <1>3, SavesKeeps
<1>5. TypeOK'
  BY <1>1, <1>4, ForgottenIsTyped DEF ListenerInv, TypeOK
<1> QED
  BY <1>1, <1>2, <1>4, <1>5, GoneKeeps

LEMMA DieKeeps == ASSUME ListenerInv, Die PROVE ListenerInv'
<1>1. /\ phase' = "off" /\ Forgets /\ accepted' = {} /\ base' = file /\ forgotten' = {}
      /\ UNCHANGED <<file, sources, spoilt, graph, lives>>
  BY DEF Die, world
<1>2. TypeOK'
  BY <1>1, ForgottenIsTyped DEF ListenerInv, TypeOK
<1>3. NamedIsInIt' /\ ~Running'
  BY <1>1 DEF ListenerInv, NamedIsInIt, Running
<1> QED
  BY <1>1, <1>2, <1>3, GoneKeeps

\* The world, what is posted, what is answered again, and a signal.
LEMMA OthersKeep ==
    ASSUME ListenerInv,
           \/ Spoil
           \/ \E left \in Graphs : Rebuild(left)
           \/ \E b \in Bodies : Post(b) \/ HangUp(b) \/ TakeAgain(b)
           \/ Close
           \/ UNCHANGED vars
    PROVE  ListenerInv'
<1>1. UNCHANGED <<memory, file, sources, lives, history>>
  BY DEF Spoil, Rebuild, Post, HangUp, TakeAgain, Close, vars, world
<1>2. /\ phase' = phase \/ (phase = "listening" /\ phase' = "closing")
      /\ inflight' \subseteq Bodies
      /\ spoilt' \in BOOLEAN
      /\ graph' \in {"read", "new", "absent", "unreadable"}
  BY ListenerAssumption
     DEF Spoil, Rebuild, Post, HangUp, TakeAgain, Close, vars, world, ListenerInv, TypeOK
<1>3. TypeOK'
  BY <1>1, <1>2 DEF ListenerInv, TypeOK, memory, history
<1>4. Running' = Running
  BY <1>2 DEF Running
<1> QED
  BY <1>1, <1>3, <1>4, AsideKeeps

LEMMA InitListener == Init => ListenerInv
<1> SUFFICES ASSUME Init PROVE ListenerInv
  OBVIOUS
<1>1. /\ phase = "off" /\ inflight = {} /\ known = <<>> /\ buffer = NoTraces /\ pending = None
      /\ bodies = {} /\ firstFlush = TRUE /\ reset = FALSE
      /\ file = [s \in Spans |-> IF s.body \in Filed THEN 1 ELSE 0]
      /\ sources = Filed /\ spoilt = FALSE /\ graph = "read" /\ lives = 0 /\ accepted = {}
      /\ base = file /\ forgotten = {}
  BY DEF Init
<1>2. TypeOK
  <2>1. known \in Seq(Bodies) /\ buffer \in Seq(Helds)
    BY <1>1 DEF NoTraces
  <2>2. file \in Counts
    BY <1>1 DEF Counts
  <2>3. lives \in 0 .. MaxLives
    BY <1>1, ListenerAssumption
  <2>4. pending \in Counts
    BY <1>1, CountsAre
  <2> QED
    BY <1>1, <2>1, <2>2, <2>3, <2>4 DEF TypeOK
<1>3. Sound(buffer)
  BY <1>1, SoundNothing
<1>4. ~Running
  BY <1>1 DEF Running
<1>5. GoneWithIt /\ ReadIsRemembered /\ StartsOver
  BY <1>1, <1>4 DEF GoneWithIt, ReadIsRemembered, StartsOver
<1>6. WaitsWasRead /\ NamedIsInIt
  BY <1>1, SoundNothing, CountsAre DEF WaitsWasRead, NamedIsInIt
<1> QED
  BY <1>2, <1>3, <1>5, <1>6 DEF ListenerInv

LEMMA NextKeeps == ListenerInv /\ [Next]_vars => ListenerInv'
<1> SUFFICES ASSUME ListenerInv, [Next]_vars PROVE ListenerInv'
  OBVIOUS
<1>1. CASE Tick
  BY <1>1, TickKeeps
<1>2. CASE \E startOver \in BOOLEAN : Start(startOver)
  BY <1>2, StartKeeps
<1>3. CASE \E b \in Bodies : Take(b)
  BY <1>3, TakeKeeps
<1>4. CASE Sweep
  BY <1>4, SweepKeeps
<1>5. CASE \E saves \in BOOLEAN : FlushTimer(saves)
  BY <1>5, FlushKeeps
<1>6. CASE \E saves \in BOOLEAN : Closed(saves)
  BY <1>6, ClosedKeeps
<1>7. CASE Die
  BY <1>7, DieKeeps
<1>8. CASE \/ Spoil
           \/ \E left \in Graphs : Rebuild(left)
           \/ \E b \in Bodies : Post(b) \/ HangUp(b) \/ TakeAgain(b)
           \/ Close
           \/ UNCHANGED vars
  BY <1>8, OthersKeep
<1> QED
  BY <1>1, <1>2, <1>3, <1>4, <1>5, <1>6, <1>7, <1>8 DEF Next

LEMMA ListenerKeeps == Spec => []ListenerInv
  BY InitListener, NextKeeps, PTL DEF Spec

\* The listener's state is what it says it is, for any bodies, bounds and builds.
THEOREM TypeCorrect == Spec => []TypeOK
<1>1. ListenerInv => TypeOK
  BY DEF ListenerInv
<1> QED
  BY <1>1, ListenerKeeps, PTL

\* A trace whose wait is over is reached by the next sweep (TraceBuffer.expired):
\* it stops at the first that still waits, and those behind it wait no less.
THEOREM SweepsReachAll == Spec => []ASweepReachesAllThatIsDue
<1>1. ASSUME ListenerInv, NEW held \in ToSet(Rest(buffer, Expired(buffer))) PROVE held.age < Wait
  <2> DEFINE n == Expired(buffer)
             rest == Rest(buffer, n)
  <2>1. Sound(buffer) /\ buffer \in Seq(Helds) /\ Len(buffer) \in Nat /\ DOMAIN buffer = 1 .. Len(buffer)
    BY <1>1 DEF ListenerInv, Sound
  <2>2. n \in 0 .. Len(buffer) /\ (n < Len(buffer) => buffer[n + 1].age < Wait)
    BY <2>1, ExpiredIs
  <2> HIDE DEF n
  <2>3. /\ rest \in Seq(Helds) /\ Len(rest) = Len(buffer) - n
        /\ \A j \in 1 .. Len(buffer) - n : rest[j] = buffer[n + j]
    BY <2>1, <2>2, RestIs
  <2>4. held \in ToSet(rest)
    BY <1>1 DEF n
  <2> HIDE DEF rest
  <2>5. PICK j \in 1 .. Len(buffer) - n : held = buffer[n + j]
    <3>1. ToSet(rest) = {rest[j] : j \in 1 .. Len(buffer) - n}
      BY <2>3, ToSetIs
    <3> QED
      BY <2>3, <2>4, <3>1
  <2>6. n + 1 \in 1 .. Len(buffer) /\ n + j \in 1 .. Len(buffer) /\ n < Len(buffer)
    BY <2>1, <2>2
  <2>7. \A i \in 1 .. Len(buffer) : buffer[i].age \in Nat
    <3>1. \A i \in 1 .. Len(buffer) : buffer[i] \in Helds
      BY <2>1
    <3> QED
      BY <3>1, TraceBufferAssumption DEF Helds
  <2>8. n + 1 = n + j \/ n + 1 < n + j
    BY <2>2
  <2>9. buffer[n + 1].age >= buffer[n + j].age
    BY <2>1, <2>6, <2>7, <2>8 DEF Sound
  <2> QED
    BY <2>2, <2>5, <2>6, <2>7, <2>9, TraceBufferAssumption
<1>2. ListenerInv => ASweepReachesAllThatIsDue
  BY <1>1 DEF ASweepReachesAllThatIsDue
<1> QED
  BY <1>2, ListenerKeeps, PTL

\* What a file said that was read before is in the observed file once, however
\* often it is posted to the listener: what the file names is remembered from the
\* start, or was forgotten, and is not read again (remember, KNOWN_BODIES).
THEOREM FilesAreCountedOnce == Spec => []WhatAFileSaidIsCountedOnce
<1>1. ASSUME ListenerInv, NEW s \in Spans, s.body \in sources, ~(reset /\ firstFlush)
      PROVE  Waiting(s) + pending[s] + file[s] = 1
  <2>1. file[s] = 1
    BY <1>1 DEF ListenerInv, NamedIsInIt
  <2>2. Sound(buffer) /\ pending \in Counts
    BY <1>1 DEF ListenerInv, TypeOK
  <2>3. ~Waits(s) /\ pending[s] = 0
    <3>1. CASE Running
      <4>1. s.body \notin accepted
        BY <1>1, <3>1 DEF ListenerInv, ReadIsRemembered, StartsOver
      <4> QED
        BY <1>1, <4>1 DEF ListenerInv, WaitsWasRead, Waits
    <3>2. CASE ~Running
      BY <1>1, <3>2, SoundNothing, CountsAre DEF ListenerInv, GoneWithIt, Waits
    <3> QED
      BY <3>1, <3>2
  <2>4. Waiting(s) = 0
    BY <2>2, <2>3, WaitingIs
  <2> QED
    BY <2>1, <2>3, <2>4
<1>2. ListenerInv => WhatAFileSaidIsCountedOnce
  BY <1>1 DEF WhatAFileSaidIsCountedOnce
<1> QED
  BY <1>2, ListenerKeeps, PTL

-----------------------------------------------------------------------------
(***************************************************************************)
(* Where no match throws: every span that was read is in one place.        *)
(***************************************************************************)

\* Every span of a body that was answered is in one place, as the state has it.
InOnePlace(s) ==
    (IF Waits(s) THEN 1 ELSE 0) + pending[s] + Counted(s) = IF s.body \in accepted THEN 1 ELSE 0

LEMMA KeptIs ==
    ASSUME Sound(buffer)
    PROVE  EachSpanIsKeptOnce <=> (Running => \A s \in Spans : InOnePlace(s))
<1>1. \A s \in Spans : Waiting(s) = IF Waits(s) THEN 1 ELSE 0
  BY WaitingIs
<1> QED
  BY <1>1 DEF EachSpanIsKeptOnce, InOnePlace

\* A graph that can be read, or that was read once, is matched against.
LEMMA NeverUnreadable ==
    ASSUME "unreadable" \notin Graphs, graph # "unreadable", [Next]_vars
    PROVE  graph' # "unreadable"
<1>1. ASSUME NEW n, NEW held, Match(held, n) PROVE graph' # "unreadable"
  BY <1>1 DEF Match
<1>2. CASE \E left \in Graphs : Rebuild(left)
  BY <1>2 DEF Rebuild
<1>3. CASE Tick \/ Spoil \/ Close \/ Die \/ UNCHANGED vars
  BY <1>3 DEF Tick, Spoil, Close, Die, vars, world
<1>4. CASE \E b \in Bodies : Post(b) \/ HangUp(b) \/ TakeAgain(b)
  BY <1>4 DEF Post, HangUp, TakeAgain, world
<1>5. CASE \E b \in Bodies : Take(b)
  BY <1>1, <1>5 DEF Take
<1>6. CASE \E startOver \in BOOLEAN : Start(startOver)
  BY <1>6 DEF Start
<1>7. CASE Sweep
  BY <1>1, <1>7 DEF Sweep
<1>8. CASE \E saves \in BOOLEAN : FlushTimer(saves) \/ Closed(saves)
  BY <1>1, <1>8 DEF FlushTimer, Closed, Saves
<1> QED
  BY <1>2, <1>3, <1>4, <1>5, <1>6, <1>7, <1>8 DEF Next

\* Letting go of the first n traces: what waited waits, or is to be written.
LEMMA LetGoIsOnce ==
    ASSUME NEW held, Sound(held), NEW n \in 0 .. Len(held), pending \in Counts,
           graph # "unreadable", NEW s \in Spans
    PROVE  (IF s \in SpansOf(Rest(held, n)) THEN 1 ELSE 0) + Matched(held, n)[s] =
               (IF s \in SpansOf(held) THEN 1 ELSE 0) + pending[s]
<1>1. Matched(held, n)[s] = pending[s] + IF s \in SpansOf(First(held, n)) THEN 1 ELSE 0
  BY MatchedIs DEF Throws
<1>2. /\ s \in SpansOf(held) <=> s \in SpansOf(First(held, n)) \/ s \in SpansOf(Rest(held, n))
      /\ ~(s \in SpansOf(First(held, n)) /\ s \in SpansOf(Rest(held, n)))
  BY FirstOrRest
<1>3. pending[s] \in Nat
  BY DEF Counts
<1> QED
  BY <1>1, <1>2, <1>3

\* The places of a span whose body has not been read, and of one that has.
LEMMA PlacesAre ==
    ASSUME KeptInv, NEW s \in Spans, Running
    PROVE  /\ InOnePlace(s)
           /\ pending[s] \in Nat /\ file[s] \in Nat /\ base[s] \in Nat
           /\ s.body \notin accepted => ~Waits(s) /\ pending[s] = 0 /\ Counted(s) = 0
<1>1. InOnePlace(s)
  BY KeptIs DEF KeptInv, ListenerInv
<1>2. pending[s] \in Nat /\ file[s] \in Nat /\ base[s] \in Nat
  BY DEF KeptInv, ListenerInv, TypeOK, Counts
<1>3. ASSUME s.body \notin accepted PROVE ~Waits(s) /\ pending[s] = 0
  BY <1>3 DEF KeptInv, ListenerInv, WaitsWasRead, Waits
<1>4. Counted(s) \in Int
  BY <1>2 DEF Counted
<1>5. ASSUME s.body \notin accepted PROVE Counted(s) = 0
  BY <1>1, <1>3, <1>4, <1>5 DEF InOnePlace
<1> QED
  BY <1>1, <1>2, <1>3, <1>5

\* A body that is read brings each of its spans once, and moves no other.
LEMMA TakeIsKept ==
    ASSUME KeptInv, NEW b \in Bodies, Take(b), NEW s \in Spans PROVE InOnePlace(s)'
<1> DEFINE held == Added(buffer, SpansIn(b))
           n == CutShort(held)
<1>1. /\ b \notin ToSet(known) /\ b \notin forgotten /\ Running
      /\ buffer' = Rest(held, n) /\ pending' = Matched(held, n)
      /\ accepted' = accepted \union {b}
      /\ UNCHANGED <<file, base>>
  BY DEF Take, Running
<1>2. /\ Sound(held) /\ n \in 0 .. Len(held)
      /\ s \in SpansOf(held) <=> s \in SpansOf(buffer) \/ s \in Span(b)
  BY TakenIs DEF KeptInv
<1> HIDE DEF held, n
<1>3. (IF s \in SpansOf(buffer') THEN 1 ELSE 0) + pending'[s] =
          (IF s \in SpansOf(held) THEN 1 ELSE 0) + pending[s]
  BY <1>1, <1>2, LetGoIsOnce DEF KeptInv, ListenerInv, TypeOK
<1>4. InOnePlace(s) /\ (s.body \notin accepted => ~Waits(s) /\ pending[s] = 0 /\ Counted(s) = 0)
  BY <1>1, PlacesAre
<1>5. Counted(s)' = Counted(s)
  BY <1>1 DEF Counted
<1>6. pending[s] \in Nat /\ Counted(s) \in Int
  BY <1>1, PlacesAre DEF Counted
<1>7. pending'[s] \in Nat
  BY <1>1, <1>2, MatchedIs DEF KeptInv, ListenerInv, TypeOK, Counts
<1>8. s \in Span(b) <=> s.body = b
  BY SpanOf, SpansAre
<1>9. b \notin accepted
  BY <1>1 DEF KeptInv, ListenerInv, ReadIsRemembered
<1>10. CASE s.body = b
  <2>1. s \in SpansOf(held) /\ pending[s] = 0 /\ Counted(s) = 0 /\ s.body \in accepted'
    BY <1>1, <1>2, <1>4, <1>8, <1>9, <1>10
  <2>2. (IF s \in SpansOf(buffer') THEN 1 ELSE 0) + pending'[s] = 1
    BY <1>3, <2>1
  <2>3. (IF s \in SpansOf(buffer') THEN 1 ELSE 0) + pending'[s] + Counted(s)' = 1
    BY <1>5, <1>7, <2>1, <2>2
  <2> QED
    BY <2>1, <2>3 DEF InOnePlace, Waits
<1>11. CASE s.body # b
  <2>1. (s \in SpansOf(held) <=> Waits(s)) /\ (s.body \in accepted' <=> s.body \in accepted)
    BY <1>1, <1>2, <1>8, <1>11 DEF Waits
  <2>2. (IF s \in SpansOf(buffer') THEN 1 ELSE 0) + pending'[s] =
            (IF Waits(s) THEN 1 ELSE 0) + pending[s]
    BY <1>3, <2>1
  <2>3. (IF s \in SpansOf(buffer') THEN 1 ELSE 0) + pending'[s] + Counted(s)' =
            IF s.body \in accepted' THEN 1 ELSE 0
    BY <1>4, <1>5, <2>1, <2>2 DEF InOnePlace
  <2> QED
    BY <2>3 DEF InOnePlace, Waits
<1> QED
  BY <1>10, <1>11

LEMMA SweepIsKept == ASSUME KeptInv, Sweep, NEW s \in Spans PROVE InOnePlace(s)'
<1>1. /\ Running
      /\ buffer' = Rest(buffer, Expired(buffer)) /\ pending' = Matched(buffer, Expired(buffer))
      /\ UNCHANGED <<file, base, accepted>>
  BY DEF Sweep, Running, history
<1>2. Expired(buffer) \in 0 .. Len(buffer) /\ Sound(buffer) /\ pending \in Counts
  BY ExpiredRest DEF KeptInv, ListenerInv, TypeOK
<1>3. (IF s \in SpansOf(buffer') THEN 1 ELSE 0) + pending'[s] =
          (IF s \in SpansOf(buffer) THEN 1 ELSE 0) + pending[s]
  BY <1>1, <1>2, LetGoIsOnce DEF KeptInv
<1>4. InOnePlace(s)
  BY <1>1, PlacesAre
<1>5. Counted(s)' = Counted(s)
  BY <1>1 DEF Counted
<1> QED
  BY <1>1, <1>3, <1>4, <1>5 DEF InOnePlace, Waits

\* What a flush does with a span: what was let go is written, or is pending still.
LEMMA SavedIsCounted ==
    ASSUME KeptInv, Running, NEW n \in 0 .. Len(buffer), NEW saves \in BOOLEAN, Saves(n, saves),
           NEW s \in Spans
    PROVE  LeftPending(n, saves)[s] + Counted(s)' = Matched(buffer, n)[s] + Counted(s)
<1>1. /\ pending[s] \in Nat /\ file[s] \in Nat /\ base[s] \in Nat
  BY PlacesAre
<1>2. Matched(buffer, n) \in Counts /\ Matched(buffer, n)[s] \in Nat
  BY MatchedIs DEF KeptInv, ListenerInv, TypeOK, Counts
<1>3. CASE Writes(n, saves)
  <2>1. /\ file' = Sum(Before, Matched(buffer, n))
        /\ base' = IF reset /\ firstFlush THEN None ELSE base
        /\ LeftPending(n, saves) = None
    BY <1>3 DEF Saves, LeftPending
  <2>2. file'[s] = Before[s] + Matched(buffer, n)[s] /\ None[s] = 0
    BY <2>1, CountsAre DEF Sum
  <2>3. CASE reset /\ firstFlush
    <3>1. Before[s] = 0 /\ base'[s] = 0 /\ file[s] = base[s]
      BY <2>1, <2>2, <2>3 DEF Before, KeptInv, ListenerInv, StartsOver
    <3> QED
      BY <1>1, <1>2, <2>1, <2>2, <3>1 DEF Counted
  <2>4. CASE ~(reset /\ firstFlush)
    <3>1. Before[s] = file[s] /\ base'[s] = base[s]
      BY <2>1, <2>4 DEF Before
    <3> QED
      BY <1>1, <1>2, <2>1, <2>2, <3>1 DEF Counted
  <2> QED
    BY <2>3, <2>4
<1>4. CASE ~Writes(n, saves)
  BY <1>4 DEF Saves, LeftPending, Counted
<1> QED
  BY <1>3, <1>4

LEMMA FlushIsKept ==
    ASSUME KeptInv, NEW saves \in BOOLEAN, FlushTimer(saves), NEW s \in Spans PROVE InOnePlace(s)'
<1> DEFINE n == Expired(buffer)
<1>1. /\ Running /\ Saves(n, saves)
      /\ buffer' = Rest(buffer, n) /\ pending' = LeftPending(n, saves) /\ accepted' = accepted
  BY DEF FlushTimer, Running
<1>2. n \in 0 .. Len(buffer) /\ Sound(buffer) /\ pending \in Counts
  BY ExpiredRest DEF KeptInv, ListenerInv, TypeOK
<1> HIDE DEF n
<1>3. (IF s \in SpansOf(buffer') THEN 1 ELSE 0) + Matched(buffer, n)[s] =
          (IF s \in SpansOf(buffer) THEN 1 ELSE 0) + pending[s]
  BY <1>1, <1>2, LetGoIsOnce DEF KeptInv
<1>4. pending'[s] + Counted(s)' = Matched(buffer, n)[s] + Counted(s)
  BY <1>1, <1>2, SavedIsCounted
<1>5. InOnePlace(s) /\ pending[s] \in Nat /\ Counted(s) \in Int
  BY <1>1, PlacesAre DEF Counted
<1>6. pending' \in Counts /\ Counted(s)' \in Int /\ Matched(buffer, n)[s] \in Nat
  <2>1. ListenerInv'
    BY FlushKeeps DEF KeptInv
  <2>2. pending' \in Counts /\ file'[s] \in Nat /\ base'[s] \in Nat
    BY <2>1 DEF ListenerInv, TypeOK, Counts
  <2> QED
    BY <1>2, <2>2, MatchedIs DEF Counts, Counted
<1>7. pending'[s] \in Nat
  BY <1>6 DEF Counts
<1>8. (IF s \in SpansOf(buffer') THEN 1 ELSE 0) + pending'[s] + Counted(s)' =
          IF s.body \in accepted' THEN 1 ELSE 0
  BY <1>1, <1>3, <1>4, <1>5, <1>6, <1>7 DEF InOnePlace, Waits
<1> QED
  BY <1>8 DEF InOnePlace, Waits

\* A listener that starts holds nothing and has read nothing.
LEMMA StartIsKept ==
    ASSUME ListenerInv, NEW startOver \in BOOLEAN, Start(startOver), NEW s \in Spans
    PROVE  InOnePlace(s)'
<1>1. /\ ~Running
      /\ accepted' = {} /\ base' = file /\ file' = file /\ buffer' = buffer /\ pending' = pending
  BY DEF Start, Running
<1>2. buffer = NoTraces /\ pending = None /\ file[s] \in Nat
  BY <1>1 DEF ListenerInv, GoneWithIt, TypeOK, Counts
<1>3. s \notin SpansOf(buffer') /\ pending'[s] = 0 /\ file'[s] - base'[s] = 0
  BY <1>1, <1>2, SoundNothing, CountsAre
<1> QED
  BY <1>1, <1>3 DEF InOnePlace, Waits, Counted

LEMMA StillIsKept ==
    ASSUME KeptInv, NEW s \in Spans, Running, UNCHANGED <<pending, file, base, accepted>>,
           SpansOf(buffer') = SpansOf(buffer)
    PROVE  InOnePlace(s)'
<1>1. InOnePlace(s)
  BY PlacesAre
<1>2. /\ pending'[s] = pending[s] /\ Counted(s)' = Counted(s) /\ Waits(s)' = Waits(s)
      /\ accepted' = accepted
  BY DEF Counted, Waits
<1> QED
  BY <1>1, <1>2 DEF InOnePlace

LEMMA KeptKeeps ==
    ASSUME "unreadable" \notin Graphs PROVE KeptInv /\ [Next]_vars => KeptInv'
<1> SUFFICES ASSUME KeptInv, [Next]_vars PROVE KeptInv'
  OBVIOUS
<1>1. ListenerInv' /\ graph' # "unreadable"
  BY NextKeeps, NeverUnreadable DEF KeptInv
<1>2. ASSUME Running', NEW s \in Spans PROVE InOnePlace(s)'
  <2>1. CASE Tick
    <3>1. Running /\ UNCHANGED <<pending, file, base, accepted>>
      BY <1>2, <2>1 DEF Tick, Running, world, history
    <3>2. SpansOf(buffer') = SpansOf(buffer)
      BY <2>1, OlderHolds DEF Tick, KeptInv, ListenerInv
    <3> QED
      BY <3>1, <3>2, StillIsKept
  <2>2. CASE \E startOver \in BOOLEAN : Start(startOver)
    BY <2>2, StartIsKept DEF KeptInv
  <2>3. CASE \E b \in Bodies : Take(b)
    BY <2>3, TakeIsKept
  <2>4. CASE Sweep
    BY <2>4, SweepIsKept
  <2>5. CASE \E saves \in BOOLEAN : FlushTimer(saves)
    BY <2>5, FlushIsKept
  <2>6. CASE (\E saves \in BOOLEAN : Closed(saves)) \/ Die
    BY <1>2, <2>6 DEF Closed, Die, Running
  <2>7. CASE \/ Spoil
             \/ \E left \in Graphs : Rebuild(left)
             \/ \E b \in Bodies : Post(b) \/ HangUp(b) \/ TakeAgain(b)
             \/ Close
             \/ UNCHANGED vars
    <3>1. UNCHANGED <<buffer, pending, file, base, accepted>>
      BY <2>7 DEF Spoil, Rebuild, Post, HangUp, TakeAgain, Close, vars, world, memory, history
    <3>2. Running
      BY <1>2, <2>7 DEF Spoil, Rebuild, Post, HangUp, TakeAgain, Close, vars, Running
    <3> QED
      BY <3>1, <3>2, StillIsKept
  <2> QED
    BY <2>1, <2>2, <2>3, <2>4, <2>5, <2>6, <2>7 DEF Next
<1>3. EachSpanIsKeptOnce'
  <2>1. Sound(buffer')
    BY <1>1 DEF ListenerInv, Sound
  <2>2. \A s : Waiting(s)' = IF Waits(s)' THEN 1 ELSE 0
    BY <2>1, WaitsInOnePlace DEF Waiting, Waits
  <2> QED
    BY <1>2, <2>2 DEF EachSpanIsKeptOnce, InOnePlace
<1> QED
  BY <1>1, <1>3 DEF KeptInv

LEMMA SpansAreKept == ASSUME "unreadable" \notin Graphs PROVE Spec => []KeptInv
<1>1. Init => KeptInv
  <2>1. Init => ListenerInv
    BY InitListener
  <2>2. Init => ~Running /\ graph = "read"
    BY DEF Init, Running
  <2> QED
    BY <2>1, <2>2 DEF KeptInv, EachSpanIsKeptOnce
<1>2. KeptInv /\ [Next]_vars => KeptInv'
  BY KeptKeeps
<1> QED
  BY <1>1, <1>2, PTL DEF Spec

\* Every span of a body the listener answered is in one place, once: in the
\* buffer, in what the next flush writes, or in the file.  No bound of the buffer,
\* no flush that fails, no start over and no body posted again loses one or adds
\* one, if every graph.db a build leaves can be read; with one that cannot, the
\* traces matched then are lost, which is a finding of its own.
THEOREM SpansAreKeptOnce ==
    ASSUME "unreadable" \notin Graphs PROVE Spec => []EachSpanIsKeptOnce
<1>1. KeptInv => EachSpanIsKeptOnce
  BY DEF KeptInv
<1> QED
  BY <1>1, SpansAreKept, PTL

-----------------------------------------------------------------------------
(***************************************************************************)
(* A listener that is told to stop.                                        *)
(***************************************************************************)

\* The last flush matches everything, so what is pending then is all there is;
\* and where there is nothing to write, nothing was read that is not written.
LEMMA ClosedWrites ==
    ASSUME StoppedInv, ~MayFailAtClose, NEW saves \in BOOLEAN, Closed(saves),
           NEW s \in Spans, s.body \in accepted
    PROVE  Counted(s)' = 1
<1> DEFINE n == Len(buffer)
<1>1. /\ phase = "closing" /\ Running /\ saves /\ Saves(n, saves) /\ Readable
  BY DEF Closed, AtTheEnd, Running, StoppedInv
<1>2. Sound(buffer) /\ pending \in Counts /\ KeptInv /\ n \in 0 .. Len(buffer)
  BY DEF StoppedInv, KeptInv, ListenerInv, TypeOK
<1> HIDE DEF n
<1>3. LeftPending(n, saves)[s] + Counted(s)' = Matched(buffer, n)[s] + Counted(s)
  BY <1>1, <1>2, SavedIsCounted
<1>4. (IF s \in SpansOf(Rest(buffer, n)) THEN 1 ELSE 0) + Matched(buffer, n)[s] =
          (IF s \in SpansOf(buffer) THEN 1 ELSE 0) + pending[s]
  BY <1>2, LetGoIsOnce DEF KeptInv
<1>5. s \notin SpansOf(Rest(buffer, n))
  <2>1. Rest(buffer, n) = <<>>
    BY <1>2, RestIs DEF n, Sound
  <2> QED
    BY <2>1, SoundNothing DEF NoTraces
<1>6. InOnePlace(s) /\ pending[s] \in Nat /\ Counted(s) \in Int
  BY <1>1, <1>2, PlacesAre DEF Counted
<1>7. Matched(buffer, n) \in Counts /\ Matched(buffer, n)[s] \in Nat
  BY <1>2, MatchedIs DEF Counts
<1>8. Matched(buffer, n)[s] + Counted(s) = 1
  BY <1>4, <1>5, <1>6, <1>7 DEF InOnePlace, Waits
<1>9. LeftPending(n, saves)[s] = 0
  <2>1. CASE Writes(n, saves)
    BY <2>1, CountsAre DEF LeftPending
  <2>2. CASE ~Writes(n, saves)
    <3>1. Matched(buffer, n) = None
      BY <1>1, <1>2, <2>2 DEF Writes, Nothing, Throws, KeptInv
    <3> QED
      BY <2>2, <3>1, CountsAre DEF LeftPending
  <2> QED
    BY <2>1, <2>2
<1>10. Counted(s)' \in Int
  <2>1. ListenerInv'
    BY ClosedKeeps DEF StoppedInv, KeptInv
  <2> QED
    BY <2>1 DEF ListenerInv, TypeOK, Counts, Counted
<1> QED
  BY <1>3, <1>8, <1>9, <1>10

LEMMA StoppedKeeps ==
    ASSUME "unreadable" \notin Graphs, ~MayFailAtClose
    PROVE  StoppedInv /\ [Next]_vars => StoppedInv'
<1> SUFFICES ASSUME StoppedInv, [Next]_vars PROVE StoppedInv'
  OBVIOUS
<1>1. KeptInv'
  BY KeptKeeps DEF StoppedInv
<1>2. ASSUME phase' = "closing" PROVE Readable'
  <2>1. CASE Close
    <3>1. Readable /\ UNCHANGED <<reset, firstFlush, spoilt>>
      BY <2>1 DEF Close, memory, world
    <3> QED
      BY <3>1 DEF Readable
  <2>2. CASE ~Close
    <3>1. phase = "closing" /\ UNCHANGED <<reset, firstFlush, spoilt>>
      BY <1>2, <2>2 DEF Next, vars, memory, world, Tick, Spoil, Rebuild, Post, HangUp, TakeAgain, Take,
                         Start, Sweep, FlushTimer, Closed, Die
    <3> QED
      BY <3>1 DEF Readable, StoppedInv
  <2> QED
    BY <2>1, <2>2
<1>3. ASSUME phase' = "closed" PROVE AllIsWritten'
  <2>1. CASE \E saves \in BOOLEAN : Closed(saves)
    <3>1. accepted' = accepted
      BY <2>1 DEF Closed
    <3>2. ASSUME NEW b \in accepted, NEW s \in Span(b) PROVE Counted(s)' = 1
      <4>1. b \in Bodies
        BY DEF StoppedInv, KeptInv, ListenerInv, TypeOK
      <4>2. s \in Spans /\ s.body = b
        BY <4>1, SpansAre DEF Spans
      <4> QED
        BY <2>1, <4>2, ClosedWrites
    <3> QED
      BY <3>1, <3>2 DEF AllIsWritten
  <2>2. CASE ~\E saves \in BOOLEAN : Closed(saves)
    <3>1. phase = "closed" /\ UNCHANGED <<accepted, file, base>>
      BY <1>3, <2>2 DEF Next, vars, world, history, Tick, Spoil, Rebuild, Post, HangUp, TakeAgain, Take,
                         Start, Sweep, FlushTimer, Close, Die
    <3> QED
      BY <3>1 DEF StoppedInv, StoppedMeansWritten, AllIsWritten, Counted
  <2> QED
    BY <2>1, <2>2
<1> QED
  BY <1>1, <1>2, <1>3 DEF StoppedInv, StoppedMeansWritten

\* A listener that was told to stop has written every span of every body it
\* answered, once, those too that still waited for their trace, if what the builds
\* left can be read and the file can be at the end.
THEOREM StoppingWritesAll ==
    ASSUME "unreadable" \notin Graphs, ~MayFailAtClose PROVE Spec => []StoppedMeansWritten
<1>1. Init => StoppedInv
  <2>1. Init => KeptInv
    <3>1. Init => ListenerInv
      BY InitListener
    <3>2. Init => ~Running /\ graph = "read"
      BY DEF Init, Running
    <3> QED
      BY <3>1, <3>2 DEF KeptInv, EachSpanIsKeptOnce
  <2>2. Init => phase = "off"
    BY DEF Init
  <2> QED
    BY <2>1, <2>2 DEF StoppedInv, StoppedMeansWritten
<1>2. StoppedInv /\ [Next]_vars => StoppedInv'
  BY StoppedKeeps
<1>3. StoppedInv => StoppedMeansWritten
  BY DEF StoppedInv
<1> QED
  BY <1>1, <1>2, <1>3, PTL DEF Spec

-----------------------------------------------------------------------------
(***************************************************************************)
(* What is let go of.                                                      *)
(***************************************************************************)

LEMMA FirstAreOldest ==
    ASSUME NEW held, Sound(held), NEW n \in 0 .. Len(held), NEW i \in 1 .. Len(held),
           NEW kept \in ToSet(Rest(held, n)),
           \A other \in ToSet(Rest(held, n)) : other.trace # held[i].trace
    PROVE  held[i].age >= kept.age
<1>1. held \in Seq(Helds) /\ Len(held) \in Nat /\ DOMAIN held = 1 .. Len(held)
  BY DEF Sound
<1>2. /\ Rest(held, n) \in Seq(Helds) /\ Len(Rest(held, n)) = Len(held) - n
      /\ \A j \in 1 .. Len(held) - n : Rest(held, n)[j] = held[n + j]
  BY <1>1, RestIs
<1>3. ToSet(Rest(held, n)) = {held[n + j] : j \in 1 .. Len(held) - n}
  <2>1. ToSet(Rest(held, n)) = {Rest(held, n)[j] : j \in 1 .. Len(held) - n}
    BY <1>2, ToSetIs
  <2> QED
    BY <1>2, <2>1
<1>4. PICK k \in 1 .. Len(held) - n : kept = held[n + k]
  BY <1>3
<1>5. i <= n
  <2>1. ASSUME i > n PROVE FALSE
    <3>1. i - n \in 1 .. Len(held) - n /\ n + (i - n) = i
      BY <1>1, <2>1
    <3>2. held[i] \in ToSet(Rest(held, n))
      BY <1>3, <3>1
    <3> QED
      BY <3>2
  <2> QED
    BY <2>1
<1>6. n + k \in 1 .. Len(held) /\ i < n + k
  BY <1>1, <1>5
<1> QED
  BY <1>1, <1>4, <1>6 DEF Sound

\* The traces a step lets go of are the first of what is held then.
LEMMA OldestOfTaken ==
    ASSUME ListenerInv, NEW b \in Bodies, Take(b),
           NEW held \in ToSet(buffer), NEW kept \in ToSet(buffer'),
           \A other \in ToSet(buffer') : other.trace # held.trace
    PROVE  Age(held) >= kept.age
<1> DEFINE now == Added(buffer, SpansIn(b))
           n == CutShort(now)
<1>1. /\ buffer' = Rest(now, n) /\ accepted' = accepted \union {b} /\ Running
      /\ b \notin ToSet(known) /\ b \notin forgotten
  BY DEF Take, Running
<1>2. /\ Sound(now) /\ n \in 0 .. Len(now)
      /\ \A i \in 1 .. Len(buffer) : \E j \in 1 .. Len(now) :
             now[j].trace = buffer[i].trace /\ now[j].age = AgeAfter(buffer[i], ToSet(Carries[b]))
  BY TakenIs
<1> HIDE DEF now, n
<1>3. accepted' \ accepted = {b}
  BY <1>1 DEF ListenerInv, ReadIsRemembered
<1>4. Age(held) = AgeAfter(held, ToSet(Carries[b]))
  BY <1>3 DEF Age, AgeAfter
<1>5. PICK i \in 1 .. Len(buffer) : held = buffer[i]
  BY ToSetIs DEF ListenerInv, TypeOK
<1>6. PICK j \in 1 .. Len(now) :
          now[j].trace = held.trace /\ now[j].age = AgeAfter(held, ToSet(Carries[b]))
  BY <1>2, <1>5
<1>7. now[j].age >= kept.age
  BY <1>1, <1>2, <1>6, FirstAreOldest
<1> QED
  BY <1>4, <1>6, <1>7

LEMMA OldestOfExpired ==
    ASSUME ListenerInv, buffer' = Rest(buffer, Expired(buffer)), accepted' = accepted,
           NEW held \in ToSet(buffer), NEW kept \in ToSet(buffer'),
           \A other \in ToSet(buffer') : other.trace # held.trace
    PROVE  Age(held) >= kept.age
<1>1. Age(held) = held.age
  BY DEF Age
<1>2. PICK i \in 1 .. Len(buffer) : held = buffer[i]
  BY ToSetIs DEF ListenerInv, TypeOK
<1>3. Sound(buffer) /\ Expired(buffer) \in 0 .. Len(buffer)
  BY ExpiredRest DEF ListenerInv
<1>4. buffer[i].age >= kept.age
  BY <1>2, <1>3, FirstAreOldest
<1> QED
  BY <1>1, <1>2, <1>4

\* Whatever a step lets go of, for a bound or for its wait, has waited no less
\* than anything it keeps (TraceBuffer.add takes a trace out and puts it back).
THEOREM OldestGoesFirst == Spec => TheOldestGoesFirst
<1> DEFINE Oldest ==
        \A held \in ToSet(buffer), kept \in ToSet(buffer') :
            (\A other \in ToSet(buffer') : other.trace # held.trace) => Age(held) >= kept.age
<1>1. ASSUME ListenerInv, [Next]_vars PROVE Oldest
  <2> SUFFICES ASSUME NEW held \in ToSet(buffer), NEW kept \in ToSet(buffer'),
                      \A other \in ToSet(buffer') : other.trace # held.trace
               PROVE  Age(held) >= kept.age
    OBVIOUS
  <2>1. CASE Tick
    <3>1. PICK i \in 1 .. Len(buffer) : held = buffer[i]
      BY <1>1, ToSetIs DEF ListenerInv, TypeOK
    <3>2. /\ buffer' = Older(buffer) /\ Sound(buffer') /\ Len(buffer') = Len(buffer)
          /\ buffer'[i].trace = buffer[i].trace
      BY <1>1, <2>1, SoundOlder DEF Tick, ListenerInv
    <3>3. buffer'[i] \in ToSet(buffer')
      BY <3>2, ToSetIs DEF Sound
    <3> QED
      BY <3>1, <3>2, <3>3
  <2>2. CASE \E b \in Bodies : Take(b)
    BY <1>1, <2>2, OldestOfTaken
  <2>3. CASE Sweep \/ \E saves \in BOOLEAN : FlushTimer(saves)
    <3>1. buffer' = Rest(buffer, Expired(buffer)) /\ accepted' = accepted
      BY <2>3 DEF Sweep, FlushTimer, history
    <3> QED
      BY <1>1, <3>1, OldestOfExpired
  <2>4. CASE (\E saves \in BOOLEAN : Closed(saves)) \/ Die
    <3>1. buffer' = <<>>
      BY <2>4 DEF Closed, Die, Forgets, NoTraces
    <3> QED
      BY <3>1 DEF ToSet
  <2>5. CASE \/ Spoil
             \/ \E left \in Graphs : Rebuild(left)
             \/ \E b \in Bodies : Post(b) \/ HangUp(b) \/ TakeAgain(b)
             \/ \E startOver \in BOOLEAN : Start(startOver)
             \/ Close
             \/ UNCHANGED vars
    <3>1. buffer' = buffer
      BY <2>5 DEF Spoil, Rebuild, Post, HangUp, TakeAgain, Start, Close, vars, memory
    <3> QED
      BY <3>1
  <2> QED
    BY <1>1, <2>1, <2>2, <2>3, <2>4, <2>5 DEF Next
<1>2. ListenerInv /\ [Next]_vars => [Oldest]_vars
  BY <1>1
<1> QED
  BY <1>2, ListenerKeeps, PTL DEF Spec, TheOldestGoesFirst
=============================================================================
