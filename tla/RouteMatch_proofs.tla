-------------------------- MODULE RouteMatch_proofs --------------------------
(***************************************************************************)
(* For every set of routes and requests: that a route found later moves no *)
(* edge to a route found before, that what is spelled out wins, and that   *)
(* what a miss is said to come near can be reached.                        *)
(***************************************************************************)
EXTENDS RouteMatch, FiniteSetTheorems, SequenceTheorems, WellFoundedInduction, TLAPS

(***************************************************************************)
(* What the operators over addresses return. They are recursive functions  *)
(* of the segments taken so far, which are what they are said to be one    *)
(* segment at a time: where that fails, there is a least number of         *)
(* segments for which it does.                                             *)
(***************************************************************************)

\* A set of numbers has a least one.
LEMMA SomeIsLeast ==
    ASSUME NEW T \in SUBSET Nat, T # {}
    PROVE  \E n \in T : \A m \in T : n <= m
<1>1. PICK n \in T : \A m \in T : <<m, n>> \notin OpToRel(<, Nat)
  BY NatLessThanWellFounded, WFMin
<1>2. ASSUME NEW m \in T PROVE ~(m < n)
  BY <1>1 DEF OpToRel
<1> QED
  BY <1>2

\* What holds of none and, when of so many, of one more, holds of all.
LEMMA StepByStep ==
    ASSUME NEW N \in Nat, NEW Holds \in SUBSET (0 .. N), 0 \in Holds,
           \A n \in 1 .. N : n - 1 \in Holds => n \in Holds
    PROVE  N \in Holds
<1> DEFINE T == (0 .. N) \ Holds
<1> SUFFICES ASSUME T # {} PROVE FALSE
  OBVIOUS
<1>1. PICK n \in T : \A m \in T : n <= m
  <2>1. T \in SUBSET Nat
    OBVIOUS
  <2> HIDE DEF T
  <2> QED
    BY <2>1, SomeIsLeast
<1>2. n \in 1 .. N /\ n - 1 \notin T
  BY <1>1
<1> QED
  BY <1>1, <1>2

\* And of each on the way.
LEMMA AllTheWay ==
    ASSUME NEW N \in Nat, NEW Holds \in SUBSET (0 .. N), 0 \in Holds,
           \A n \in 1 .. N : n - 1 \in Holds => n \in Holds
    PROVE  \A n \in 0 .. N : n \in Holds
<1> SUFFICES ASSUME NEW n \in 0 .. N PROVE n \in Holds
  OBVIOUS
<1> DEFINE Until == Holds \intersect (0 .. n)
<1>1. n \in Nat /\ Until \in SUBSET (0 .. n) /\ 0 \in Until
  OBVIOUS
<1>2. \A m \in 1 .. n : m - 1 \in Until => m \in Until
  OBVIOUS
<1> HIDE DEF Until
<1>3. n \in Until
  BY <1>1, <1>2, StepByStep
<1> QED
  BY <1>3 DEF Until

\* What a function over 0 .. N is, made step by step.
IsMade(f, V, base, N, step) ==
    /\ f \in [0 .. N -> V]
    /\ \A n \in 0 .. N : f[n] = IF n = 0 THEN base ELSE step[n][f[n - 1]]

\* What is made step by step from within a set stays in it, and is defined.
LEMMA SomethingIsMade ==
    ASSUME NEW V, NEW base \in V, NEW N \in Nat, NEW step,
           \A n \in 1 .. N : \A x \in V : step[n][x] \in V
    PROVE  \E f : IsMade(f, V, base, N, step)
<1> DEFINE Is(f, k) == IsMade(f, V, base, k, step)
           Holds == {k \in 0 .. N : \E f : Is(f, k)}
<1>1. 0 \in Holds
  <2> DEFINE f == [n \in 0 .. 0 |-> base]
  <2>1. Is(f, 0)
    BY DEF IsMade
  <2> HIDE DEF f, Is
  <2>2. \E h : Is(h, 0)
    BY <2>1
  <2> QED
    BY <2>2
<1>2. ASSUME NEW k \in 1 .. N, k - 1 \in Holds PROVE k \in Holds
  <2>1. PICK g : Is(g, k - 1)
    BY <1>2
  <2> DEFINE f == [n \in 0 .. k |-> IF n = k THEN step[k][g[k - 1]] ELSE g[n]]
  <2>2. /\ k - 1 \in 0 .. (k - 1) /\ k # 0 /\ f[k - 1] = g[k - 1]
        /\ \A n \in 0 .. k : n # k => n \in 0 .. (k - 1) /\ (n # 0 => n - 1 \in 0 .. (k - 1))
    OBVIOUS
  <2>3. f \in [0 .. k -> V]
    BY <2>1, <2>2 DEF IsMade
  <2>4. ASSUME NEW n \in 0 .. k PROVE f[n] = IF n = 0 THEN base ELSE step[n][f[n - 1]]
    <3>1. CASE n = k
      BY <2>2, <3>1
    <3>2. CASE n # k
      <4>1. f[n] = g[n] /\ (n # 0 => f[n - 1] = g[n - 1])
        BY <2>2, <3>2
      <4> QED
        BY <2>1, <2>2, <3>2, <4>1 DEF IsMade
    <3> QED
      BY <3>1, <3>2
  <2>5. Is(f, k)
    BY <2>3, <2>4 DEF IsMade
  <2> HIDE DEF f, Is
  <2>6. \E h : Is(h, k)
    BY <2>5
  <2> QED
    BY <2>6
<1>3. N \in Holds
  <2> HIDE DEF Holds
  <2>1. Holds \in SUBSET (0 .. N)
    BY DEF Holds
  <2> QED
    BY <1>1, <1>2, <2>1, StepByStep
<1> QED
  BY <1>3 DEF Holds

\* A sequence of one.
LEMMA OneIsASequence == ASSUME NEW S, NEW x \in S PROVE <<x>> \in Seq(S) /\ Len(<<x>>) = 1 /\ <<x>>[1] = x
  OBVIOUS

\* What a segment stands for is text of the segments there are, or itself.
LEMMA StandsForTexts ==
    ASSUME NEW U, NEW s \in U, NEW segments, NEW longest,
           NEW more \in Stands(s, segments, longest)
    PROVE  more \in Seq(U \union segments)
<1>1. CASE s = Unread
  <2>1. PICK n \in 1 .. longest : more \in [1 .. n -> segments]
    BY <1>1 DEF Stands
  <2>2. n \in Nat
    OBVIOUS
  <2> QED
    BY <2>1, <2>2
<1>2. CASE s = Param /\ s # Unread
  <2>1. PICK t \in segments : more = <<t>>
    BY <1>2 DEF Stands
  <2> QED
    BY <2>1, OneIsASequence
<1>3. CASE s # Param /\ s # Unread
  <2>1. more = <<s>>
    BY <1>3 DEF Stands
  <2>2. s \in U \union segments
    OBVIOUS
  <2> QED
    BY <2>1, <2>2, OneIsASequence
<1> QED
  BY <1>1, <1>2, <1>3

\* The texts there are with one more segment of the pattern.
Extended(before, s, segments, longest) ==
    {t \o more : t \in before, more \in Stands(s, segments, longest)}

\* A text that ends with what a segment stands for.
EndsWith(x, before, s, segments, longest) ==
    \E t \in before, more \in Stands(s, segments, longest) : x = t \o more

\* They are a text that was there with what the segment stands for after it.
LEMMA ExtendedAre ==
    ASSUME NEW before, NEW s, NEW segments, NEW longest, NEW x
    PROVE  x \in Extended(before, s, segments, longest)
              <=> EndsWith(x, before, s, segments, longest)
  BY SMT DEF Extended, EndsWith

\* They are texts again.
LEMMA ExtendedAreTexts ==
    ASSUME NEW U, NEW s \in U, NEW segments, NEW longest,
           NEW before \in SUBSET Seq(U \union segments)
    PROVE  Extended(before, s, segments, longest) \in SUBSET Seq(U \union segments)
<1>1. ASSUME NEW x \in Extended(before, s, segments, longest) PROVE x \in Seq(U \union segments)
  <2>1. PICK t \in before, more \in Stands(s, segments, longest) : x = t \o more
    BY <1>1, SMT DEF Extended
  <2>2. more \in Seq(U \union segments)
    BY StandsForTexts
  <2>3. t \in Seq(U \union segments)
    OBVIOUS
  <2> QED
    BY <2>1, <2>2, <2>3
<1> QED
  BY <1>1, Zenon

\* The texts of a pattern are those of what comes before its last segment, with
\* what that segment stands for.
AreTexts(texts, S, pattern, segments, longest) ==
    /\ texts \in [0 .. Len(pattern) -> SUBSET Seq(S)]
    /\ texts[0] = {<<>>}
    /\ \A n \in 1 .. Len(pattern) :
           texts[n] = Extended(texts[n - 1], pattern[n], segments, longest)
    /\ Texts(pattern, segments, longest) = texts[Len(pattern)]

\* Those of a pattern are made segment by segment, from none.
LEMMA TextsInTurn ==
    ASSUME NEW U, NEW pattern \in Seq(U), NEW segments, NEW longest
    PROVE  \E texts : AreTexts(texts, U \union segments, pattern, segments, longest)
<1> DEFINE V == SUBSET Seq(U \union segments)
           N == Len(pattern)
           base == {<<>>}
           More(before, n) == Extended(before, pattern[n], segments, longest)
           step == [n \in 1 .. N |-> [before \in V |-> More(before, n)]]
           Is(f) == f = [n \in 0 .. N |-> IF n = 0 THEN base ELSE More(f[n - 1], n)]
<1>1. N \in Nat /\ \A n \in 1 .. N : pattern[n] \in U
  OBVIOUS
<1>2. ASSUME NEW n \in 1 .. N, NEW before \in V PROVE More(before, n) \in V
  <2>1. pattern[n] \in U
    BY <1>1
  <2> HIDE DEF N
  <2> QED
    BY <2>1, ExtendedAreTexts
<1>3. base \in V
  OBVIOUS
<1>8. Texts(pattern, segments, longest) = (CHOOSE texts : Is(texts))[N]
  BY DEF Texts, Extended
<1> HIDE DEF V, More, base
<1>4. \A n \in 1 .. N : \A before \in V : step[n][before] \in V
  BY <1>2
<1>5. PICK f : IsMade(f, V, base, N, step)
  <2> HIDE DEF step, N
  <2> QED
    BY <1>1, <1>3, <1>4, SomethingIsMade
<1>6. Is(f)
  <2>1. ASSUME NEW n \in 0 .. N PROVE f[n] = IF n = 0 THEN base ELSE More(f[n - 1], n)
    <3>1. n # 0 => n \in 1 .. N /\ f[n - 1] \in V
      BY <1>1, <1>5 DEF IsMade
    <3> QED
      BY <1>5, <3>1 DEF IsMade
  <2>2. f = [n \in 0 .. N |-> f[n]]
    BY <1>5 DEF IsMade
  <2> QED
    BY <2>1, <2>2
<1> DEFINE texts == CHOOSE texts : Is(texts)
<1>7. Is(texts)
  <2> HIDE DEF Is
  <2> QED
    BY <1>6
<1> HIDE DEF texts
<1>9. /\ texts[0] = base
      /\ \A n \in 1 .. N : texts[n] = More(texts[n - 1], n)
  BY <1>1, <1>7
<1>10. texts \in [0 .. N -> V]
  <2> DEFINE Holds == {n \in 0 .. N : texts[n] \in V}
  <2>1. 0 \in Holds
    BY <1>1, <1>3, <1>9
  <2>2. \A n \in 1 .. N : n - 1 \in Holds => n \in Holds
    BY <1>1, <1>2, <1>9
  <2>3. \A n \in 0 .. N : n \in Holds
    <3> HIDE DEF N, V
    <3>1. Holds \in SUBSET (0 .. N)
      OBVIOUS
    <3> HIDE DEF Holds
    <3> QED
      BY <1>1, <2>1, <2>2, <3>1, AllTheWay
  <2> QED
    BY <1>7, <2>3
<1>11. Texts(pattern, segments, longest) = texts[N]
  BY <1>8 DEF texts
<1>13. AreTexts(texts, U \union segments, pattern, segments, longest)
  BY <1>9, <1>10, <1>11 DEF V, More, base, AreTexts
<1> QED
  BY <1>13

\* Two sequences, one after the other.
LEMMA ConcatenatedIs ==
    ASSUME NEW S, NEW a \in Seq(S), NEW b \in Seq(S)
    PROVE  /\ a \o b \in Seq(S) /\ Len(a \o b) = Len(a) + Len(b)
           /\ \A i \in 1 .. Len(a) : i \in DOMAIN (a \o b) /\ (a \o b)[i] = a[i]
           /\ \A i \in 1 .. Len(b) : Len(a) + i \in DOMAIN (a \o b) /\ (a \o b)[Len(a) + i] = b[i]
  OBVIOUS

\* Sequences one after another: of the same things, and all of them.
LEMMA FlattenedIs ==
    ASSUME NEW S, NEW seqs \in Seq(Seq(S))
    PROVE  /\ FlattenSeq(seqs) \in Seq(S)
           /\ \A i \in DOMAIN seqs : \A j \in DOMAIN seqs[i] :
                  \E k \in DOMAIN FlattenSeq(seqs) : FlattenSeq(seqs)[k] = seqs[i][j]
<1> DEFINE N == Len(seqs)
           Then(a, i) == a \o seqs[i]
           Is(f) == f = [i \in 1 .. N |-> IF i = 1 THEN seqs[i] ELSE Then(f[i - 1], i)]
           V == Seq(S)
           base == <<>>
           step == [n \in 1 .. N |-> [before \in V |-> before \o seqs[n]]]
<1>1. N \in Nat /\ \A n \in 1 .. N : seqs[n] \in Seq(S)
  OBVIOUS
<1>2. CASE N = 0
  BY <1>2 DEF FlattenSeq
<1>3. CASE N # 0
  <2>1. FlattenSeq(seqs) = (CHOOSE f : Is(f))[N]
    BY <1>3 DEF FlattenSeq
  <2>2. \A n \in 1 .. N : \A before \in V : step[n][before] \in V
    <3>1. \A n \in 1 .. N : \A before \in V : before \o seqs[n] \in V
      BY <1>1
    <3> QED
      BY <3>1
  <2>3. base \in V
    OBVIOUS
  <2>4. PICK g : IsMade(g, V, base, N, step)
    <3> HIDE DEF step, N, V, base
    <3> QED
      BY <1>1, <2>2, <2>3, SomethingIsMade
  <2> DEFINE h == [n \in 1 .. N |-> g[n]]
  <2>5. Is(h)
    <3>1. \A n \in 1 .. N : n - 1 \in 0 .. N /\ (n # 1 => n - 1 \in 1 .. N) /\ n \in 0 .. N /\ n # 0
      BY <1>1
    <3>2. \A n \in 1 .. N : g[n] = g[n - 1] \o seqs[n]
      BY <2>4, <3>1 DEF IsMade
    <3>3. 1 \in 1 .. N /\ 0 \in 0 .. N
      BY <1>1, <1>3
    <3>4. g[0] = <<>>
      BY <2>4, <3>3 DEF IsMade
    <3>5. g[1] = seqs[1]
      <4>1. g[1] = g[1 - 1] \o seqs[1]
        BY <3>2, <3>3
      <4>2. g[1] = <<>> \o seqs[1]
        <5>1. 1 - 1 = 0
          OBVIOUS
        <5> QED
          BY <3>4, <4>1, <5>1, Zenon
      <4>3. seqs[1] \in Seq(S)
        BY <1>1, <3>3
      <4> QED
        BY <4>2, <4>3
    <3>6. ASSUME NEW n \in 1 .. N PROVE h[n] = IF n = 1 THEN seqs[n] ELSE h[n - 1] \o seqs[n]
      BY <3>1, <3>2, <3>5
    <3> HIDE DEF h
    <3>7. h = [n \in 1 .. N |-> h[n]]
      BY DEF h
    <3> QED
      BY <3>6, <3>7
  <2> DEFINE made == CHOOSE made : Is(made)
  <2>6. Is(made)
    <3> HIDE DEF Is, h
    <3> QED
      BY <2>5
  <2> HIDE DEF made, Then
  <2>7. /\ made[1] = seqs[1]
        /\ \A n \in 1 .. N : n # 1 => made[n] = Then(made[n - 1], n)
    <3> HIDE DEF N
    <3>1. made = [i \in 1 .. N |-> IF i = 1 THEN seqs[i] ELSE Then(made[i - 1], i)]
      BY <2>6
    <3>2. \A n \in 1 .. N : made[n] = IF n = 1 THEN seqs[n] ELSE Then(made[n - 1], n)
      BY <3>1, Zenon
    <3>3. 1 \in 1 .. N
      BY <1>1, <1>3
    <3> QED
      BY <3>2, <3>3
  <2> DEFINE Has(n, i, j) == \E k \in DOMAIN made[n] : made[n][k] = seqs[i][j]
             Fine(n) == n # 0 => /\ made[n] \in Seq(S)
                                 /\ \A i \in 1 .. n : \A j \in DOMAIN seqs[i] : Has(n, i, j)
             Holds == {n \in 0 .. N : Fine(n)}
  <2>8. ASSUME NEW n \in 1 .. N, Fine(n - 1) PROVE Fine(n)
    <3>1. CASE n = 1
      BY <1>1, <2>7, <3>1
    <3>2. CASE n # 1
      <4>1. /\ made[n] = Then(made[n - 1], n) /\ made[n - 1] \in Seq(S) /\ seqs[n] \in Seq(S)
            /\ n - 1 # 0 /\ n \in Nat
        BY <1>1, <2>7, <2>8, <3>2
      <4> DEFINE before == made[n - 1]
      <4>4. /\ made[n] \in Seq(S) /\ before \in Seq(S)
            /\ \A i \in 1 .. Len(before) : i \in DOMAIN made[n] /\ made[n][i] = before[i]
            /\ \A i \in 1 .. Len(seqs[n]) : /\ Len(before) + i \in DOMAIN made[n]
                                            /\ made[n][Len(before) + i] = seqs[n][i]
        <5>1. made[n] = before \o seqs[n]
          BY <4>1 DEF Then
        <5> DEFINE last == seqs[n]
        <5> HIDE DEF before, last
        <5>2. before \in Seq(S) /\ last \in Seq(S)
          BY <4>1 DEF before, last
        <5>3. /\ before \o last \in Seq(S)
              /\ \A i \in 1 .. Len(before) :
                     i \in DOMAIN (before \o last) /\ (before \o last)[i] = before[i]
              /\ \A i \in 1 .. Len(last) : /\ Len(before) + i \in DOMAIN (before \o last)
                                          /\ (before \o last)[Len(before) + i] = last[i]
          BY <5>2, ConcatenatedIs
        <5> DEFINE sum == before \o last
        <5>4. made[n] = sum
          BY <5>1 DEF last
        <5> HIDE DEF sum
        <5>5. /\ sum \in Seq(S)
              /\ \A i \in 1 .. Len(before) : i \in DOMAIN sum /\ sum[i] = before[i]
              /\ \A i \in 1 .. Len(last) : /\ Len(before) + i \in DOMAIN sum
                                          /\ sum[Len(before) + i] = last[i]
          BY <5>3 DEF sum
        <5> QED
          BY <5>2, <5>4, <5>5, Zenon DEF last
      <4>2. made[n] \in Seq(S)
        BY <4>4
      <4>3. ASSUME NEW i \in 1 .. n, NEW j \in DOMAIN seqs[i] PROVE Has(n, i, j)
        <5>1. CASE i = n
          <6>1. j \in 1 .. Len(seqs[n])
            BY <4>1, <4>3, <5>1
          <6>2. Len(before) + j \in DOMAIN made[n] /\ made[n][Len(before) + j] = seqs[n][j]
            BY <4>4, <6>1
          <6> QED
            BY <5>1, <6>2
        <5>2. CASE i # n
          <6>1. i \in 1 .. n - 1
            BY <4>1, <5>2
          <6>2. PICK k \in DOMAIN before : before[k] = seqs[i][j]
            BY <2>8, <4>1, <4>3, <6>1
          <6>4. k \in 1 .. Len(before)
            BY <4>4
          <6>3. k \in DOMAIN made[n] /\ made[n][k] = before[k]
            BY <4>4, <6>4
          <6> QED
            BY <6>2, <6>3
        <5> QED
          BY <5>1, <5>2
      <4> HIDE DEF Has
      <4> QED
        BY <4>2, <4>3
    <3> QED
      BY <3>1, <3>2
  <2>9. \A n \in 0 .. N : n \in Holds
    <3>1. 0 \in Holds
      BY <1>1
    <3> HIDE DEF Fine, N
    <3>2. \A n \in 1 .. N : n - 1 \in Holds => n \in Holds
      BY <1>1, <2>8
    <3>3. Holds \in SUBSET (0 .. N)
      OBVIOUS
    <3> HIDE DEF Holds
    <3> QED
      BY <1>1, <3>1, <3>2, <3>3, AllTheWay
  <2>10. Fine(N)
    BY <1>1, <2>9
  <2>11. FlattenSeq(seqs) = made[N]
    BY <2>1 DEF made
  <2> QED
    BY <1>1, <1>3, <2>10, <2>11
<1> QED
  BY <1>2, <1>3

\* An address that ends in a piece.
Ending(path, piece) == Append(path, piece)

\* Of more addresses, each with the piece and, when it may be left out, without.
LEMMA LongerAre ==
    ASSUME NEW S, NEW T, NEW spellings \in Seq(S), NEW piece,
           \A path \in S : Ending(path, piece) \in T /\ path \in T
    PROVE  /\ FlattenSeq(Longer(spellings, piece)) \in Seq(T)
           /\ \A i \in DOMAIN spellings :
                  \E k \in DOMAIN FlattenSeq(Longer(spellings, piece)) :
                      FlattenSeq(Longer(spellings, piece))[k] = Ending(spellings[i], piece)
<1>1. Longer(spellings, piece) \in Seq(Seq(T))
  <2>1. ASSUME NEW i \in DOMAIN spellings
        PROVE  /\ <<Append(spellings[i], piece), spellings[i]>> \in Seq(T)
               /\ <<Append(spellings[i], piece)>> \in Seq(T)
    <3>1. spellings[i] \in S
      OBVIOUS
    <3>2. Append(spellings[i], piece) \in T /\ spellings[i] \in T
      BY <3>1 DEF Ending
    <3> DEFINE with == Append(spellings[i], piece)
               without == spellings[i]
    <3> HIDE DEF with, without
    <3>3. <<with, without>> \in Seq(T) /\ <<with>> \in Seq(T)
      BY <3>2 DEF with, without
    <3> QED
      BY <3>3 DEF with, without
  <2>2. DOMAIN spellings = 1 .. Len(spellings) /\ Len(spellings) \in Nat
    OBVIOUS
  <2>3. ASSUME NEW i \in 1 .. Len(spellings)
        PROVE  (IF piece.optional THEN <<Append(spellings[i], piece), spellings[i]>>
                ELSE <<Append(spellings[i], piece)>>) \in Seq(T)
    BY <2>1, <2>2
  <2>4. Longer(spellings, piece) = [i \in 1 .. Len(spellings) |->
          IF piece.optional THEN <<Append(spellings[i], piece), spellings[i]>>
                ELSE <<Append(spellings[i], piece)>>]
    BY <2>2 DEF Longer
  <2>5. Longer(spellings, piece) \in [1 .. Len(spellings) -> Seq(T)]
    BY <2>3, <2>4, Zenon
  <2> QED
    BY <2>2, <2>5
<1>2. ASSUME NEW i \in DOMAIN spellings
      PROVE  /\ i \in DOMAIN Longer(spellings, piece)
             /\ 1 \in DOMAIN Longer(spellings, piece)[i]
             /\ Longer(spellings, piece)[i][1] = Append(spellings[i], piece)
  BY DEF Longer
<1> DEFINE all == Longer(spellings, piece)
<1> HIDE DEF all
<1>3. all \in Seq(Seq(T))
  BY <1>1 DEF all
<1>4. FlattenSeq(all) \in Seq(T) /\ \A i \in DOMAIN all : \A j \in DOMAIN all[i] :
          \E k \in DOMAIN FlattenSeq(all) : FlattenSeq(all)[k] = all[i][j]
  BY <1>3, FlattenedIs
<1>5. ASSUME NEW i \in DOMAIN spellings
      PROVE  \E k \in DOMAIN FlattenSeq(all) : FlattenSeq(all)[k] = Append(spellings[i], piece)
  BY <1>2, <1>4 DEF all
<1> QED
  BY <1>4, <1>5, Zenon DEF all, Ending

\* The spellings of an address are those of what comes before its last piece, with
\* and without it.
LEMMA SpellingsInTurn ==
    ASSUME NEW path \in Seq(Pieces)
    PROVE  \E spellings \in [0 .. Len(path) -> Seq(Seq(Pieces))] :
               /\ spellings[0] = << <<>> >>
               /\ \A n \in 1 .. Len(path) :
                      spellings[n] = FlattenSeq(Longer(spellings[n - 1], path[n]))
               /\ Spellings(path) = spellings[Len(path)]
<1> DEFINE V == Seq(Seq(Pieces))
           N == Len(path)
           base == << <<>> >>
           More(before, n) == FlattenSeq(Longer(before, path[n]))
           step == [n \in 1 .. N |-> [before \in V |-> More(before, n)]]
           Is(f) == f = [n \in 0 .. N |-> IF n = 0 THEN base ELSE More(f[n - 1], n)]
<1>1. N \in Nat /\ \A n \in 1 .. N : path[n] \in Pieces
  OBVIOUS
<1>2. ASSUME NEW n \in 1 .. N, NEW before \in V PROVE More(before, n) \in V
  <2>1. path[n] \in Pieces
    BY <1>1
  <2>2. \A q \in Seq(Pieces) : Ending(q, path[n]) \in Seq(Pieces) /\ q \in Seq(Pieces)
    BY <2>1 DEF Ending
  <2> HIDE DEF N
  <2> QED
    BY <2>2, LongerAre
<1>3. base \in V
  OBVIOUS
<1>8. Spellings(path) = (CHOOSE made : Is(made))[N]
  BY DEF Spellings
<1> HIDE DEF V, More, base
<1>4. \A n \in 1 .. N : \A before \in V : step[n][before] \in V
  BY <1>2
<1>5. PICK f : IsMade(f, V, base, N, step)
  <2> HIDE DEF step, N
  <2> QED
    BY <1>1, <1>3, <1>4, SomethingIsMade
<1>6. Is(f)
  <2>1. ASSUME NEW n \in 0 .. N PROVE f[n] = IF n = 0 THEN base ELSE More(f[n - 1], n)
    <3>1. n # 0 => n \in 1 .. N /\ f[n - 1] \in V
      BY <1>1, <1>5 DEF IsMade
    <3> QED
      BY <1>5, <3>1 DEF IsMade
  <2>2. f = [n \in 0 .. N |-> f[n]]
    BY <1>5 DEF IsMade
  <2> QED
    BY <2>1, <2>2
<1> DEFINE made == CHOOSE made : Is(made)
<1>7. Is(made)
  <2> HIDE DEF Is
  <2> QED
    BY <1>6
<1> HIDE DEF made
<1>9. /\ made[0] = base
      /\ \A n \in 1 .. N : made[n] = More(made[n - 1], n)
  BY <1>1, <1>7
<1>10. made \in [0 .. N -> V]
  <2> DEFINE Holds == {n \in 0 .. N : made[n] \in V}
  <2>1. 0 \in Holds
    BY <1>1, <1>3, <1>9
  <2>2. \A n \in 1 .. N : n - 1 \in Holds => n \in Holds
    BY <1>1, <1>2, <1>9
  <2>3. \A n \in 0 .. N : n \in Holds
    <3> HIDE DEF N, V
    <3>1. Holds \in SUBSET (0 .. N)
      OBVIOUS
    <3> HIDE DEF Holds
    <3> QED
      BY <1>1, <2>1, <2>2, <3>1, AllTheWay
  <2> QED
    BY <1>7, <2>3
<1>11. Spellings(path) = made[N]
  BY <1>8 DEF made
<1> QED
  BY <1>9, <1>10, <1>11, Zenon DEF V, More, base

\* The spellings of an address are no longer than it, and it is one of them.
LEMMA SpellingsAre ==
    ASSUME NEW P \in SUBSET Pieces, NEW path \in Seq(P)
    PROVE  /\ Spellings(path) \in Seq({q \in Seq(P) : Len(q) <= Len(path)})
           /\ \E i \in DOMAIN Spellings(path) : Spellings(path)[i] = path
<1> DEFINE N == Len(path)
           UpTo(n) == {q \in Seq(P) : Len(q) <= n}
           Before(n) == SubSeq(path, 1, n)
<1>1. PICK spellings \in [0 .. N -> Seq(Seq(Pieces))] :
          /\ spellings[0] = << <<>> >>
          /\ \A n \in 1 .. N : spellings[n] = FlattenSeq(Longer(spellings[n - 1], path[n]))
          /\ Spellings(path) = spellings[N]
  <2>1. path \in Seq(Pieces)
    OBVIOUS
  <2> QED
    BY <2>1, SpellingsInTurn
<1>2. N \in Nat
  OBVIOUS
<1> DEFINE Fine(n) == /\ spellings[n] \in Seq(UpTo(n))
                      /\ \E i \in DOMAIN spellings[n] : spellings[n][i] = Before(n)
           Holds == {n \in 0 .. N : Fine(n)}
<1>3. Fine(0)
  <2>1. <<>> \in UpTo(0) /\ <<>> = Before(0)
    OBVIOUS
  <2> HIDE DEF UpTo, Before
  <2>2. << <<>> >> \in Seq(UpTo(0)) /\ 1 \in DOMAIN << <<>> >> /\ << <<>> >>[1] = <<>>
    BY <2>1
  <2> QED
    BY <1>1, <2>1, <2>2
<1>4. ASSUME NEW n \in 1 .. N, Fine(n - 1) PROVE Fine(n)
  <2>1. \A q \in UpTo(n - 1) : Ending(q, path[n]) \in UpTo(n) /\ q \in UpTo(n)
    BY DEF Ending
  <2>2. Ending(Before(n - 1), path[n]) = Before(n)
    BY DEF Ending
  <2> DEFINE was == spellings[n - 1]
  <2>3. was \in Seq(UpTo(n - 1)) /\ \E i \in DOMAIN was : was[i] = Before(n - 1)
    BY <1>4
  <2>4. spellings[n] = FlattenSeq(Longer(was, path[n]))
    BY <1>1
  <2> HIDE DEF UpTo, Before, was
  <2>5. /\ FlattenSeq(Longer(was, path[n])) \in Seq(UpTo(n))
        /\ \A i \in DOMAIN was :
               \E k \in DOMAIN FlattenSeq(Longer(was, path[n])) :
                   FlattenSeq(Longer(was, path[n]))[k] = Ending(was[i], path[n])
    <3> DEFINE S == UpTo(n - 1)
               T == UpTo(n)
               piece == path[n]
    <3>1. \A q \in S : Ending(q, piece) \in T /\ q \in T
      BY <2>1, Zenon
    <3>2. was \in Seq(S)
      BY <2>3, Zenon
    <3> HIDE DEF S, T, piece
    <3>3. /\ FlattenSeq(Longer(was, piece)) \in Seq(T)
          /\ \A i \in DOMAIN was :
                 \E k \in DOMAIN FlattenSeq(Longer(was, piece)) :
                     FlattenSeq(Longer(was, piece))[k] = Ending(was[i], piece)
      BY <3>1, <3>2, LongerAre
    <3> QED
      BY <3>3, Zenon DEF T, piece
  <2>6. PICK i \in DOMAIN was : was[i] = Before(n - 1)
    BY <2>3
  <2>7. PICK k \in DOMAIN FlattenSeq(Longer(was, path[n])) :
            FlattenSeq(Longer(was, path[n]))[k] = Ending(was[i], path[n])
    BY <2>5
  <2> QED
    BY <2>2, <2>4, <2>5, <2>6, <2>7, Zenon
<1>5. Fine(N)
  <2> HIDE DEF Fine, N
  <2>1. 0 \in Holds /\ \A n \in 1 .. N : n - 1 \in Holds => n \in Holds
    BY <1>2, <1>3, <1>4
  <2>2. Holds \in SUBSET (0 .. N)
    OBVIOUS
  <2> HIDE DEF Holds
  <2>3. N \in Holds
    BY <1>2, <2>1, <2>2, StepByStep
  <2> QED
    BY <2>3 DEF Holds
<1>6. Before(N) = path
  OBVIOUS
<1> QED
  BY <1>1, <1>5, <1>6

\* The addresses a route answers on by itself: its spellings, and what is left
\* of it when where it is mounted is taken as empty.
Addresses(r) ==
    {Spellings(r.path)[i] : i \in DOMAIN Spellings(r.path)}
    \union IF Assumed(r) THEN {AsWritten(Tail(Key(r.path)))} ELSE {}

\* A route answers where one of these takes the request, and on such a one.
LEMMA AnsweringIs ==
    ASSUME NEW r, r.path \in Seq(Pieces), NEW asked
    PROVE  /\ Addresses(r) \subseteq Seq(Pieces)
           /\ Answering(r, asked) # <<>> =>
                  /\ ~r.contributes
                  /\ Head(Answering(r, asked)) \in Addresses(r)
                  /\ PathAnswers(Head(Answering(r, asked)), asked)
           /\ ~r.contributes =>
                  \A path \in Addresses(r) : PathAnswers(path, asked) => Answering(r, asked) # <<>>
<1> DEFINE spellings == Spellings(r.path)
           taking == {i \in DOMAIN spellings : PathAnswers(spellings[i], asked)}
           rest == AsWritten(Tail(Key(r.path)))
<1>1. r.path \in Seq(Pieces)
  OBVIOUS
<1>2. /\ \A i \in DOMAIN spellings : spellings[i] \in Seq(Pieces)
      /\ DOMAIN spellings \in SUBSET Nat
  <2>1. spellings \in Seq({q \in Seq(Pieces) : Len(q) <= Len(r.path)})
    <3>1. Pieces \in SUBSET Pieces
      OBVIOUS
    <3> QED
      BY <1>1, <3>1, SpellingsAre
  <2> HIDE DEF spellings
  <2> QED
    BY <2>1
<1>3. Answering(r, asked) =
         IF r.contributes THEN <<>>
         ELSE IF taking # {} THEN <<spellings[Min(taking)]>>
         ELSE IF Assumed(r) /\ PathAnswers(rest, asked) THEN <<rest>> ELSE <<>>
  BY Zenon DEF Answering
<1>4. ASSUME taking # {} PROVE Min(taking) \in taking
  <2>1. taking \in SUBSET Nat
    BY <1>2
  <2> HIDE DEF taking
  <2>2. \E n \in taking : \A m \in taking : n <= m
    BY <1>4, <2>1, SomeIsLeast
  <2> QED
    BY <2>2 DEF Min
<1>5. ASSUME Assumed(r) PROVE rest \in Seq(Pieces)
  <2>1. r.path # <<>>
    BY <1>5 DEF Assumed
  <2> DEFINE Is == Words \union Shapes \union {Param, Star, Unread}
             key == Key(r.path)
  <2>2. key \in Seq(Is) /\ key # <<>>
    <3> DEFINE n == Len(r.path)
    <3>1. n \in Nat /\ n # 0 /\ DOMAIN r.path = 1 .. n
      BY <1>1, <2>1
    <3>2. key = [i \in 1 .. n |-> r.path[i].is]
      BY <3>1 DEF Key
    <3>3. \A i \in 1 .. n : r.path[i].is \in Is
      <4>1. \A i \in 1 .. n : r.path[i] \in Pieces
        BY <1>1, <3>1
      <4> HIDE DEF n
      <4> QED
        BY <4>1 DEF Pieces
    <3> HIDE DEF n, Is, key
    <3> QED
      BY <3>1, <3>2, <3>3
  <2> HIDE DEF Is, key
  <2>3. Tail(key) \in Seq(Is)
    BY <2>2
  <2> DEFINE tail == Tail(key)
  <2> HIDE DEF tail
  <2>4. tail \in Seq(Is)
    BY <2>3 DEF tail
  <2>5. \A s \in Is : Plain(s) \in Pieces
    BY DEF Is, Plain, Pieces
  <2>6. AsWritten(tail) \in Seq(Pieces)
    BY <2>4, <2>5 DEF AsWritten
  <2> QED
    BY <2>6 DEF tail, key
<1> DEFINE first == spellings[Min(taking)]
<1>6. ASSUME taking # {} PROVE first \in Seq(Pieces) /\ PathAnswers(first, asked)
  BY <1>2, <1>4, <1>6
<1>7. \A x : Head(<<x>>) = x /\ <<x>> # <<>>
  OBVIOUS
<1> HIDE DEF first, rest
<1>10. Addresses(r) = {spellings[i] : i \in DOMAIN spellings} \union IF Assumed(r) THEN {rest} ELSE {}
  BY DEF Addresses, rest
<1> HIDE DEF spellings
<1>11. Addresses(r) \subseteq Seq(Pieces)
  BY <1>2, <1>5, <1>10
<1>8. ASSUME Answering(r, asked) # <<>>
      PROVE  /\ ~r.contributes
             /\ Head(Answering(r, asked)) \in Addresses(r)
             /\ PathAnswers(Head(Answering(r, asked)), asked)
  <2>1. CASE taking # {} /\ ~r.contributes
    <3>1. Answering(r, asked) = <<first>>
      BY <1>3, <2>1 DEF first
    <3>2. first \in Addresses(r)
      BY <1>4, <1>10, <2>1 DEF first
    <3> QED
      BY <1>6, <1>7, <2>1, <3>1, <3>2
  <2>2. CASE taking = {} \/ r.contributes
    <3>1. /\ Answering(r, asked) = <<rest>> /\ Assumed(r) /\ PathAnswers(rest, asked)
          /\ ~r.contributes
      BY <1>3, <1>8, <2>2
    <3> QED
      BY <1>7, <1>10, <3>1
  <2> QED
    BY <2>1, <2>2
<1>9. ASSUME ~r.contributes, NEW path \in Addresses(r), PathAnswers(path, asked)
      PROVE  Answering(r, asked) # <<>>
  <2>1. CASE taking # {}
    <3>1. Answering(r, asked) = <<first>>
      BY <1>3, <1>9, <2>1 DEF first
    <3> QED
      BY <1>7, <3>1
  <2>2. CASE taking = {}
    <3>1. Assumed(r) /\ path = rest
      BY <1>9, <1>10, <2>2
    <3>2. Answering(r, asked) = <<rest>>
      BY <1>3, <1>9, <2>2, <3>1
    <3> QED
      BY <1>7, <3>2
  <2> QED
    BY <2>1, <2>2
<1> QED
  BY <1>8, <1>9, <1>11

\* The addresses there are with one more piece filled in.
FilledOut(before, piece) == {path \o more : path \in before, more \in Fillings(piece)}

\* An address that ends in a filling.
EndsFilled(x, before, piece) == \E path \in before, more \in Fillings(piece) : x = path \o more

\* They are an address that was there with one of the fillings after it.
LEMMA FilledOutHas ==
    ASSUME NEW before, NEW piece, NEW x
    PROVE  x \in FilledOut(before, piece) <=> EndsFilled(x, before, piece)
  BY SMT DEF FilledOut, EndsFilled

\* They are addresses again.
LEMMA FilledOutIs ==
    ASSUME NEW piece \in Pieces, NEW before \in SUBSET Seq(Pieces)
    PROVE  FilledOut(before, piece) \in SUBSET Seq(Pieces)
<1>1. ASSUME NEW x \in FilledOut(before, piece) PROVE x \in Seq(Pieces)
  <2>1. PICK p \in before, more \in Fillings(piece) : x = p \o more
    BY <1>1, SMT DEF FilledOut
  <2>2. more \in Seq(Pieces)
    <3>1. CASE piece.is = Unread
      <4>1. PICK n \in 1 .. MaxSpan : more \in [1 .. n -> {Plain(w) : w \in Words \union {Param}}]
        BY <3>1 DEF Fillings
      <4>2. {Plain(w) : w \in Words \union {Param}} \subseteq Pieces
        <5>1. \A w \in Words \union {Param} : Plain(w) \in Pieces
          BY DEF Plain, Pieces
        <5> QED
          BY <5>1
      <4>3. n \in Nat
        BY RouteAssumption
      <4> QED
        BY <4>1, <4>2, <4>3
    <3>2. CASE piece.is # Unread
      <4>1. more = <<piece>>
        BY <3>2 DEF Fillings
      <4> QED
        BY <4>1, OneIsASequence
    <3> QED
      BY <3>1, <3>2
  <2>3. p \in Seq(Pieces)
    OBVIOUS
  <2> QED
    BY <2>1, <2>2, <2>3, ConcatenatedIs
<1> QED
  BY <1>1, Zenon

\* A route is filled in piece by piece.
AreFilled(paths, route) ==
    /\ paths \in [0 .. Len(route.path) -> SUBSET Seq(Pieces)]
    /\ paths[0] = {<<>>}
    /\ \A n \in 1 .. Len(route.path) : paths[n] = FilledOut(paths[n - 1], route.path[n])
    /\ Filled(route) = {[route EXCEPT !.path = path] : path \in paths[Len(route.path)]}

\* Which is how those of any route are made.
LEMMA FilledInTurn ==
    ASSUME NEW route, route.path \in Seq(Pieces)
    PROVE  \E paths : AreFilled(paths, route)
<1> DEFINE V == SUBSET Seq(Pieces)
           N == Len(route.path)
           base == {<<>>}
           More(before, n) == FilledOut(before, route.path[n])
           step == [n \in 1 .. N |-> [before \in V |-> More(before, n)]]
           Is(f) == f = [n \in 0 .. N |-> IF n = 0 THEN base ELSE More(f[n - 1], n)]
<1>1. N \in Nat /\ \A n \in 1 .. N : route.path[n] \in Pieces
  OBVIOUS
<1>2. ASSUME NEW n \in 1 .. N, NEW before \in V PROVE More(before, n) \in V
  <2>1. route.path[n] \in Pieces
    BY <1>1
  <2> HIDE DEF N
  <2> QED
    BY <2>1, FilledOutIs
<1>3. base \in V
  OBVIOUS
<1> DEFINE With(path) == [route EXCEPT !.path = path]
<1>8. Filled(route) = {With(path) : path \in (CHOOSE made : Is(made))[N]}
  BY DEF Filled, FilledOut
<1> HIDE DEF With
<1> HIDE DEF V, More, base
<1>4. \A n \in 1 .. N : \A before \in V : step[n][before] \in V
  BY <1>2
<1>5. PICK f : IsMade(f, V, base, N, step)
  <2> HIDE DEF step, N
  <2> QED
    BY <1>1, <1>3, <1>4, SomethingIsMade
<1>6. Is(f)
  <2>1. ASSUME NEW n \in 0 .. N PROVE f[n] = IF n = 0 THEN base ELSE More(f[n - 1], n)
    <3>1. n # 0 => n \in 1 .. N /\ f[n - 1] \in V
      BY <1>1, <1>5 DEF IsMade
    <3> QED
      BY <1>5, <3>1 DEF IsMade
  <2>2. f = [n \in 0 .. N |-> f[n]]
    BY <1>5 DEF IsMade
  <2> QED
    BY <2>1, <2>2
<1> DEFINE made == CHOOSE made : Is(made)
<1>7. Is(made)
  <2> HIDE DEF Is
  <2> QED
    BY <1>6
<1> HIDE DEF made
<1>9. /\ made[0] = base
      /\ \A n \in 1 .. N : made[n] = More(made[n - 1], n)
  <2> HIDE DEF N, More
  <2>1. made = [n \in 0 .. N |-> IF n = 0 THEN base ELSE More(made[n - 1], n)]
    BY <1>7
  <2>2. \A n \in 0 .. N : made[n] = IF n = 0 THEN base ELSE More(made[n - 1], n)
    BY <2>1, Zenon
  <2>3. 0 \in 0 .. N /\ \A n \in 1 .. N : n \in 0 .. N /\ n # 0
    BY <1>1
  <2> QED
    BY <2>2, <2>3, Zenon
<1>10. made \in [0 .. N -> V]
  <2> DEFINE Holds == {n \in 0 .. N : made[n] \in V}
  <2>1. 0 \in Holds
    BY <1>1, <1>3, <1>9
  <2>2. \A n \in 1 .. N : n - 1 \in Holds => n \in Holds
    BY <1>1, <1>2, <1>9
  <2>3. \A n \in 0 .. N : n \in Holds
    <3> HIDE DEF N, V
    <3>1. Holds \in SUBSET (0 .. N)
      OBVIOUS
    <3> HIDE DEF Holds
    <3> QED
      BY <1>1, <2>1, <2>2, <3>1, AllTheWay
  <2> QED
    BY <1>7, <2>3
<1>11. Filled(route) = {With(path) : path \in made[N]}
  BY <1>8 DEF made
<1>13. AreFilled(made, route)
  BY <1>9, <1>10, <1>11 DEF V, More, base, With, AreFilled
<1> QED
  BY <1>13

-----------------------------------------------------------------------------
(***************************************************************************)
(* That an edge never moves back.                                          *)
(***************************************************************************)

\* How telling an address is.
Ranks == [1 .. 3 -> Int]

\* The count of a segment in an address is a number.
LEMMA CountIsNat ==
    ASSUME NEW path \in Seq(Pieces), NEW segment
    PROVE  CountOf(path, segment) \in Nat
<1>1. IsFiniteSet(1 .. Len(path))
  BY FS_Interval
<1>2. {i \in DOMAIN path : path[i].is = segment} \subseteq 1 .. Len(path)
  OBVIOUS
<1>3. IsFiniteSet({i \in DOMAIN path : path[i].is = segment})
  BY <1>1, <1>2, FS_Subset
<1> QED
  BY <1>3, FS_CardinalityType DEF CountOf

\* Every address has a rank.
LEMMA SpecificityIsRank ==
    ASSUME NEW path \in Seq(Pieces)
    PROVE  Specificity(path) \in Ranks
<1>1. CountOf(path, Star) \in Nat /\ CountOf(path, Param) \in Nat /\ Len(path) \in Nat
  BY CountIsNat
<1> QED
  BY <1>1 DEF Specificity, Ranks

\* Nothing is more telling than itself.
LEMMA NotMoreThanItself ==
    ASSUME NEW a \in Ranks
    PROVE  ~MoreSpecific(a, a)
  BY DEF MoreSpecific, Ranks

\* What is more telling than the more telling is so than the less.
LEMMA MoreSpecificIsTransitive ==
    ASSUME NEW a \in Ranks, NEW b \in Ranks, NEW c \in Ranks,
           MoreSpecific(a, b), MoreSpecific(b, c)
    PROVE  MoreSpecific(a, c)
<1>1. PICK i \in 1 .. 3 : a[i] < b[i] /\ \A j \in 1 .. i - 1 : a[j] = b[j]
  BY DEF MoreSpecific, Ranks
<1>2. PICK k \in 1 .. 3 : b[k] < c[k] /\ \A j \in 1 .. k - 1 : b[j] = c[j]
  BY DEF MoreSpecific, Ranks
<1>3. \A n \in 1 .. 3 : a[n] \in Int /\ b[n] \in Int /\ c[n] \in Int
  BY DEF Ranks
<1>4. CASE i <= k
  <2>1. a[i] < c[i]
    BY <1>1, <1>2, <1>3, <1>4
  <2>2. \A j \in 1 .. i - 1 : a[j] = c[j]
    BY <1>1, <1>2, <1>4
  <2> QED
    BY <2>1, <2>2 DEF MoreSpecific, Ranks
<1>5. CASE k < i
  <2>1. a[k] < c[k]
    BY <1>1, <1>2, <1>3, <1>5
  <2>2. \A j \in 1 .. k - 1 : a[j] = c[j]
    BY <1>1, <1>2, <1>5
  <2> QED
    BY <2>1, <2>2 DEF MoreSpecific, Ranks
<1> QED
  BY <1>4, <1>5

RankOf(r, asked) == Specificity(Head(Answering(r, asked.path)))

\* Every route of a pool is one of those found and has a rank.
LEMMA PoolIsRanked ==
    ASSUME NEW routes \in SUBSET Routes, NEW asked \in Requests, NEW r \in Pool(routes, asked)
    PROVE  r \in routes /\ RankOf(r, asked) \in Ranks
<1>1. r \in Answers(routes, asked)
  BY DEF Pool
<1>2. r \in routes /\ Answering(r, asked.path) # <<>>
  BY <1>1 DEF Answers
<1>3. Head(Answering(r, asked.path)) \in Seq(Pieces)
  BY <1>2, RouteAssumption, AnsweringIs
<1> QED
  BY <1>2, <1>3, SpecificityIsRank DEF RankOf

\* The routes asked are those found, in what is answered as well.
LEMMA AnswersGrow ==
    ASSUME NEW routes, NEW route, NEW asked
    PROVE  /\ Answers(routes, asked) \subseteq Answers(routes \union {route}, asked)
           /\ Answers(routes \union {route}, asked) \subseteq Answers(routes, asked) \union {route}
  BY DEF Answers

\* One more route joins the pool, leaves it as it was, or is all of it.
LEMMA PoolGrowsOrIsNew ==
    ASSUME NEW routes, NEW route, NEW asked
    PROVE  \/ Pool(routes \union {route}, asked) \subseteq {route}
           \/ /\ Pool(routes, asked) \subseteq Pool(routes \union {route}, asked)
              /\ Pool(routes \union {route}, asked) \subseteq Pool(routes, asked) \union {route}
<1> DEFINE own == {r \in Answers(routes, asked) : asked.from # Nowhere /\ r.app = asked.from}
           ownNow == {r \in Answers(routes \union {route}, asked) :
                         asked.from # Nowhere /\ r.app = asked.from}
<1>1. own \subseteq ownNow /\ ownNow \subseteq own \union {route}
  BY AnswersGrow
<1>2. Pool(routes, asked) = IF own = {} THEN Answers(routes, asked) ELSE own
  BY DEF Pool
<1>3. Pool(routes \union {route}, asked) =
        IF ownNow = {} THEN Answers(routes \union {route}, asked) ELSE ownNow
  BY DEF Pool
<1> HIDE DEF own, ownNow
<1>4. CASE own = {} /\ ownNow # {}
  BY <1>1, <1>3, <1>4
<1>5. CASE own # {}
  BY <1>1, <1>2, <1>3, <1>5
<1>6. CASE own = {} /\ ownNow = {}
  <2>1. Pool(routes, asked) = Answers(routes, asked)
    BY <1>2, <1>6
  <2>2. Pool(routes \union {route}, asked) = Answers(routes \union {route}, asked)
    BY <1>3, <1>6
  <2>3. /\ Answers(routes, asked) \subseteq Answers(routes \union {route}, asked)
        /\ Answers(routes \union {route}, asked) \subseteq Answers(routes, asked) \union {route}
    BY AnswersGrow, Zenon
  <2> QED
    BY <2>1, <2>2, <2>3, Zenon
<1> QED
  BY <1>4, <1>5, <1>6

\* The best of a pool are those nothing in it is more telling than.
LEMMA BestIsUnbeaten ==
    ASSUME NEW routes, NEW asked
    PROVE  Best(routes, asked) =
             {r \in Pool(routes, asked) :
                \A o \in Pool(routes, asked) : ~MoreSpecific(RankOf(o, asked), RankOf(r, asked))}
  BY DEF Best, RankOf

\* A choice of one is the best of its pool.
LEMMA OneIsTheBest ==
    ASSUME NEW routes, NEW asked, IsFiniteSet(routes), NEW x, MatchRoute(routes, asked) = {x}
    PROVE  Best(routes, asked) = {x}
<1>1. IsFiniteSet(Pool(routes, asked)) /\ Best(routes, asked) \subseteq Pool(routes, asked)
  <2>1. Pool(routes, asked) \subseteq routes
    BY DEF Pool, Answers
  <2>2. Best(routes, asked) \subseteq Pool(routes, asked)
    BY DEF Best
  <2> QED
    BY <2>1, <2>2, FS_Subset
<1>2. CASE Cardinality(Best(routes, asked)) > 1
  <2>1. Pool(routes, asked) = {x}
    BY <1>2 DEF MatchRoute
  <2>2. Best(routes, asked) = {} \/ Best(routes, asked) = {x}
    BY <1>1, <2>1
  <2>3. Cardinality(Best(routes, asked)) \in {0, 1}
    BY <2>2, FS_EmptySet, FS_Singleton
  <2> QED
    BY <1>2, <2>3
<1>3. CASE ~(Cardinality(Best(routes, asked)) > 1)
  BY <1>3 DEF MatchRoute
<1> QED
  BY <1>2, <1>3

\* The best of a pool, when it is one, is the choice.
LEMMA TheBestIsOne ==
    ASSUME NEW routes, NEW asked, NEW x, Best(routes, asked) = {x}
    PROVE  MatchRoute(routes, asked) = {x}
<1>1. Cardinality({x}) = 1
  BY FS_Singleton
<1> QED
  BY <1>1 DEF MatchRoute

\* With one more route, the one best, when it was there before, was it then: what
\* was as good is beaten now only by the new route, which something before beats.
LEMMA TheBestWasBest ==
    ASSUME NEW routes \in SUBSET Routes, NEW route \in Routes, NEW asked \in Requests,
           NEW x \in routes, Best(routes \union {route}, asked) = {x}, route \notin routes
    PROVE  Best(routes, asked) = {x}
<1> DEFINE was == Pool(routes, asked)
           is == Pool(routes \union {route}, asked)
           Beats(o, r) == MoreSpecific(RankOf(o, asked), RankOf(r, asked))
<1>1. x \in is /\ \A o \in is : ~Beats(o, x)
  BY BestIsUnbeaten
<1>2. was \subseteq is /\ is \subseteq was \union {route}
  BY <1>1, PoolGrowsOrIsNew
<1>3. x \in was
  BY <1>1, <1>2
<1>4. x \in Best(routes, asked)
  BY <1>1, <1>2, <1>3, BestIsUnbeaten
<1>5. ASSUME NEW y \in Best(routes, asked), y # x
      PROVE  FALSE
  <2>1. y \in was /\ \A o \in was : ~Beats(o, y)
    BY BestIsUnbeaten
  <2>2. y \in is /\ y \notin Best(routes \union {route}, asked)
    BY <1>2, <1>5, <2>1
  <2>3. PICK z \in is : Beats(z, y)
    BY <2>2, BestIsUnbeaten
  <2>4. z = route
    BY <1>2, <2>1, <2>3
  <2>5. z \notin Best(routes \union {route}, asked)
    BY <2>4
  <2>6. PICK w \in is : Beats(w, z)
    BY <2>3, <2>5, BestIsUnbeaten
  <2>7. \A r \in is : RankOf(r, asked) \in Ranks
    BY PoolIsRanked
  <2>8. w # z
    BY <2>6, <2>7, NotMoreThanItself
  <2>9. w \in was
    BY <1>2, <2>4, <2>8
  <2>10. Beats(w, y)
    BY <2>2, <2>3, <2>6, <2>7, MoreSpecificIsTransitive
  <2> QED
    BY <2>1, <2>9, <2>10
<1> QED
  BY <1>4, <1>5

Inv == TypeOK /\ IsFiniteSet(entries)

LEMMA InitInv == Init => Inv
  BY RouteAssumption, FS_EmptySet DEF Init, Inv, TypeOK

LEMMA NextInv == Inv /\ [Next]_vars => Inv'
<1> SUFFICES ASSUME Inv, [Next]_vars PROVE Inv'
  OBVIOUS
<1>1. ASSUME NEW route \in Routes, Find(route)
      PROVE  Inv'
  <2>1. IsFiniteSet(entries') /\ Cardinality(entries') = Cardinality(entries) + 1
    BY <1>1, FS_AddElement DEF Find, Inv
  <2>2. Cardinality(entries) \in Nat
    BY FS_CardinalityType DEF Inv
  <2>3. Cardinality(entries') <= MaxRoutes
    BY <1>1, <2>1, <2>2, RouteAssumption DEF Find
  <2> QED
    BY <1>1, <2>1, <2>3 DEF Find, Inv, TypeOK
<1>2. CASE UNCHANGED vars
  BY <1>2 DEF Inv, TypeOK, vars
<1> QED
  BY <1>1, <1>2 DEF Next

\* What is found stays within its bounds, for every set of routes.
THEOREM TypeCorrect == Spec => []TypeOK
<1>1. Spec => []Inv
  BY InitInv, NextInv, PTL DEF Spec
<1>2. Inv => TypeOK
  BY DEF Inv
<1> QED
  BY <1>1, <1>2, PTL

\* A route found later takes a request over, makes it ambiguous or leaves it
\* where it was (matchRoute): no edge ever moves to a route found before.
THEOREM NoEdgeMovesBack == Spec => EdgesMoveToTheNewRoute
<1> DEFINE Was == MatchRoute(entries, request)
           Is == MatchRoute(entries', request)
           Moves == Cardinality(Is) = 1 => Is = Was \/ Is \subseteq entries' \ entries
<1>1. Spec => []Inv
  BY InitInv, NextInv, PTL DEF Spec
<1>2. ASSUME Inv, Inv', NEW route \in Routes, Find(route)
      PROVE  Moves
  <2>1. SUFFICES ASSUME Cardinality(Is) = 1
                 PROVE  Is = Was \/ Is \subseteq entries' \ entries
    OBVIOUS
  <2>2. IsFiniteSet(Is)
    <3>1. Is \subseteq entries'
      BY DEF MatchRoute, Best, Pool, Answers
    <3> QED
      BY <1>2, <3>1, FS_Subset DEF Inv
  <2>3. PICK x : Is = {x}
    BY <2>1, <2>2, FS_Singleton
  <2>4. x \in entries'
    BY <2>3 DEF MatchRoute, Best, Pool, Answers
  <2>5. CASE x \in entries
    <3>1. Best(entries', request) = {x}
      BY <1>2, <2>3, OneIsTheBest DEF Inv
    <3>2. entries' = entries \union {route} /\ route \notin entries
      BY <1>2 DEF Find
    <3>3. entries \in SUBSET Routes /\ request \in Requests
      BY <1>2 DEF Inv, TypeOK
    <3>4. Best(entries, request) = {x}
      BY <2>5, <3>1, <3>2, <3>3, TheBestWasBest
    <3> QED
      BY <2>3, <3>4, TheBestIsOne
  <2>6. CASE x \notin entries
    BY <2>3, <2>4, <2>6
  <2> QED
    BY <2>5, <2>6
<1>3. Inv /\ Inv' /\ [Next]_vars => [Moves]_vars
  BY <1>2 DEF Next
<1> QED
  BY <1>1, <1>3, PTL DEF Spec, EdgesMoveToTheNewRoute

-----------------------------------------------------------------------------
(***************************************************************************)
(* That what is spelled out wins.                                          *)
(***************************************************************************)

\* Where an address leaves open what another spells out, the other has no more
\* wildcards than it; and if as many, no hole beside one of them.
GivesWay(path, other) ==
    (\E p \in Beside(path, other) : Open(p[1]) /\ ~Open(p[2])) =>
        /\ CountOf(other, Star) <= CountOf(path, Star)
        /\ CountOf(other, Star) = CountOf(path, Star) => <<Star, Param>> \notin Beside(path, other)

\* What is asked of the routes: that this is so of the addresses of any two that
\* answer one request.
WildcardsGiveWay ==
    \A r, o \in Routes, asked \in Requests :
        Answering(r, asked.path) # <<>> /\ Answering(o, asked.path) # <<>> =>
            GivesWay(Head(Answering(r, asked.path)), Head(Answering(o, asked.path)))

SegmentsOf(path, segment) == {i \in DOMAIN path : path[i].is = segment}
Spelled(path) == {i \in DOMAIN path : ~Open(path[i].is)}

LEMMA SegmentsAreFinite ==
    ASSUME NEW path \in Seq(Pieces), NEW segment
    PROVE  /\ IsFiniteSet(SegmentsOf(path, segment)) /\ IsFiniteSet(Spelled(path))
           /\ CountOf(path, segment) = Cardinality(SegmentsOf(path, segment))
           /\ CountOf(path, segment) \in Nat /\ Cardinality(Spelled(path)) \in Nat
<1>1. IsFiniteSet(1 .. Len(path))
  BY FS_Interval
<1>2. SegmentsOf(path, segment) \subseteq 1 .. Len(path) /\ Spelled(path) \subseteq 1 .. Len(path)
  BY DEF SegmentsOf, Spelled
<1>3. IsFiniteSet(SegmentsOf(path, segment)) /\ IsFiniteSet(Spelled(path))
  BY <1>1, <1>2, FS_Subset
<1> QED
  BY <1>3, FS_CardinalityType DEF CountOf, SegmentsOf

\* The last part of a rank is how many segments are spelled out.
LEMMA SpelledAreCounted ==
    ASSUME NEW path \in Seq(Pieces)
    PROVE  Specificity(path)[3] = -Cardinality(Spelled(path))
<1> DEFINE S == SegmentsOf(path, Star)
           P == SegmentsOf(path, Param)
           L == Spelled(path)
<1>1. /\ IsFiniteSet(S) /\ IsFiniteSet(P) /\ IsFiniteSet(L)
      /\ CountOf(path, Star) = Cardinality(S) /\ CountOf(path, Param) = Cardinality(P)
  BY SegmentsAreFinite
<1>2. /\ S \union P \union L = 1 .. Len(path)
      /\ S \intersect P = {} /\ (S \union P) \intersect L = {}
  BY RouteAssumption DEF SegmentsOf, Spelled, Open
<1>3. Cardinality(1 .. Len(path)) = Len(path)
  <2>1. Len(path) \in Nat
    OBVIOUS
  <2>2. Cardinality(1 .. Len(path)) = IF 1 > Len(path) THEN 0 ELSE Len(path) - 1 + 1
    BY <2>1, FS_Interval
  <2> QED
    BY <2>1, <2>2
<1> HIDE DEF S, P, L
<1>4. IsFiniteSet(S \union P) /\ Cardinality(S \union P) = Cardinality(S) + Cardinality(P) - 0
  BY <1>1, <1>2, FS_Union, FS_EmptySet
<1>5. Cardinality(1 .. Len(path)) = Cardinality(S \union P) + Cardinality(L) - 0
  <2>1. Cardinality((S \union P) \union L)
          = Cardinality(S \union P) + Cardinality(L) - Cardinality((S \union P) \intersect L)
    BY <1>1, <1>4, FS_Union
  <2>2. Cardinality((S \union P) \intersect L) = 0
    BY <1>2, FS_EmptySet
  <2> QED
    BY <1>2, <2>1, <2>2
<1>6. Cardinality(S) \in Nat /\ Cardinality(P) \in Nat /\ Cardinality(L) \in Nat
  BY <1>1, FS_CardinalityType
<1>7. Specificity(path)[3] = Cardinality(S) + Cardinality(P) - Len(path)
  BY <1>1 DEF Specificity
<1> QED
  BY <1>3, <1>4, <1>5, <1>6, <1>7 DEF L

LEMMA BesideIs ==
    ASSUME NEW path \in Seq(Pieces), NEW other \in Seq(Pieces)
    PROVE  /\ \A i \in DOMAIN path : <<path[i].is, Segment(other, i)>> \in Beside(path, other)
           /\ \A i \in DOMAIN other : <<Segment(path, i), other[i].is>> \in Beside(path, other)
<1>1. Len(path) \in Nat /\ Len(other) \in Nat
  OBVIOUS
<1>2. ASSUME NEW i \in DOMAIN path PROVE <<path[i].is, Segment(other, i)>> \in Beside(path, other)
  <2>1. i \in 1 .. (Len(path) + Len(other)) /\ Segment(path, i) = path[i].is
    BY <1>1 DEF Segment
  <2> QED
    BY <2>1 DEF Beside
<1>3. ASSUME NEW i \in DOMAIN other PROVE <<Segment(path, i), other[i].is>> \in Beside(path, other)
  <2>1. i \in 1 .. (Len(path) + Len(other)) /\ Segment(other, i) = other[i].is
    BY <1>1 DEF Segment
  <2> QED
    BY <2>1 DEF Beside
<1> QED
  BY <1>2, <1>3

\* An address that spells out all that another does, and something besides, is
\* the more telling: it has fewer wildcards, or fewer holes, or more is spelled out.
LEMMA TheSpelledOutIsMoreSpecific ==
    ASSUME NEW path \in Seq(Pieces), NEW other \in Seq(Pieces), GivesWay(path, other),
           \E p \in Beside(path, other) : Open(p[1]) /\ ~Open(p[2]),
           \A p \in Beside(path, other) : Open(p[1]) \/ ~Open(p[2])
    PROVE  MoreSpecific(Specificity(other), Specificity(path))
<1> DEFINE a == Specificity(other)
           b == Specificity(path)
<1>1. /\ a \in Ranks /\ b \in Ranks
      /\ a[1] = CountOf(other, Star) /\ b[1] = CountOf(path, Star)
      /\ a[2] = CountOf(other, Param) /\ b[2] = CountOf(path, Param)
      /\ a[3] = -Cardinality(Spelled(other)) /\ b[3] = -Cardinality(Spelled(path))
  BY SpecificityIsRank, SpelledAreCounted DEF Specificity
<1>2. /\ a[1] <= b[1]
      /\ a[1] = b[1] => <<Star, Param>> \notin Beside(path, other)
  BY <1>1 DEF GivesWay
<1> HIDE DEF a, b
<1>3. DOMAIN a = 1 .. 3 /\ \A i \in 1 .. 3 : a[i] \in Int /\ b[i] \in Int
  BY <1>1 DEF Ranks
<1>4. CASE a[1] < b[1]
  <2>1. \A j \in 1 .. 1 - 1 : a[j] = b[j]
    OBVIOUS
  <2> QED
    BY <1>3, <1>4, <2>1 DEF MoreSpecific, a, b
<1>5. CASE a[1] = b[1]
  <2>1. SegmentsOf(other, Param) \subseteq SegmentsOf(path, Param)
    <3>1. ASSUME NEW i \in SegmentsOf(other, Param) PROVE i \in SegmentsOf(path, Param)
      <4>1. i \in DOMAIN other /\ other[i].is = Param
        BY <3>1 DEF SegmentsOf
      <4>2. <<Segment(path, i), Param>> \in Beside(path, other)
        BY <4>1, BesideIs
      <4>3. Open(<<Segment(path, i), Param>>[1]) \/ ~Open(<<Segment(path, i), Param>>[2])
        BY <4>2
      <4>4. Segment(path, i) = Param
        BY <1>2, <1>5, <4>2, <4>3 DEF Open
      <4>5. i \in DOMAIN path /\ path[i].is = Param
        BY <4>1, <4>4, RouteAssumption DEF Segment
      <4> QED
        BY <4>5 DEF SegmentsOf
    <3> QED
      BY <3>1
  <2>2. a[2] <= b[2] /\ (a[2] = b[2] => SegmentsOf(other, Param) = SegmentsOf(path, Param))
    <3>1. /\ Cardinality(SegmentsOf(other, Param)) <= Cardinality(SegmentsOf(path, Param))
          /\ Cardinality(SegmentsOf(path, Param)) = Cardinality(SegmentsOf(other, Param))
                => SegmentsOf(path, Param) = SegmentsOf(other, Param)
      BY <2>1, SegmentsAreFinite, FS_Subset
    <3> QED
      BY <1>1, <3>1, SegmentsAreFinite
  <2>3. CASE a[2] < b[2]
    <3>1. \A j \in 1 .. 2 - 1 : a[j] = b[j]
      BY <1>5
    <3> QED
      BY <1>3, <2>3, <3>1 DEF MoreSpecific, a, b
  <2>4. CASE a[2] = b[2]
    <3>1. Spelled(path) \subseteq Spelled(other)
      <4>1. ASSUME NEW i \in Spelled(path) PROVE i \in Spelled(other)
        <5>1. i \in DOMAIN path /\ ~Open(path[i].is)
          BY <4>1 DEF Spelled
        <5>2. <<path[i].is, Segment(other, i)>> \in Beside(path, other)
          BY <5>1, BesideIs
        <5>3. ~Open(Segment(other, i))
          <6>1. \A p \in Beside(path, other) : Open(p[1]) \/ ~Open(p[2])
            OBVIOUS
          <6> QED
            BY <5>1, <5>2, <6>1
        <5>4. i \in DOMAIN other /\ Segment(other, i) = other[i].is
          BY <5>1, <5>3 DEF Segment, Open
        <5> QED
          BY <5>3, <5>4 DEF Spelled
      <4> QED
        BY <4>1
    <3>2. \E i : i \in Spelled(other) /\ i \notin Spelled(path)
      <4>1. PICK p \in Beside(path, other) : Open(p[1]) /\ ~Open(p[2])
        OBVIOUS
      <4>2. PICK i \in 1 .. (Len(path) + Len(other)) : p = <<Segment(path, i), Segment(other, i)>>
        BY DEF Beside
      <4>3. Open(Segment(path, i)) /\ ~Open(Segment(other, i))
        BY <4>1, <4>2
      <4>4. i \in DOMAIN other /\ Segment(other, i) = other[i].is
        BY <4>3 DEF Segment, Open
      <4>5. i \in DOMAIN path => Open(path[i].is)
        BY <4>3 DEF Segment
      <4> QED
        BY <4>3, <4>4, <4>5 DEF Spelled
    <3>3. /\ Cardinality(Spelled(path)) <= Cardinality(Spelled(other))
          /\ Cardinality(Spelled(path)) # Cardinality(Spelled(other))
      <4>1. IsFiniteSet(Spelled(other))
        BY SegmentsAreFinite
      <4> QED
        BY <3>1, <3>2, <4>1, FS_Subset
    <3>4. a[3] < b[3]
      BY <1>1, <3>3, SegmentsAreFinite
    <3>5. \A j \in 1 .. 3 - 1 : a[j] = b[j]
      <4>1. \A j \in 1 .. 3 - 1 : j = 1 \/ j = 2
        OBVIOUS
      <4> QED
        BY <1>5, <2>4, <4>1
    <3> QED
      BY <1>3, <3>4, <3>5 DEF MoreSpecific, a, b
  <2> QED
    BY <1>3, <2>2, <2>3, <2>4
<1> QED
  BY <1>2, <1>3, <1>4, <1>5

\* "The spelled-out one wins" (matchRoute): of two routes that answer, the one
\* chosen is not the one that leaves open what the other spells out and spells out
\* nothing the other leaves open, unless wildcards and holes are counted against
\* each other, which the hypothesis excludes and a run shows to be needed.
THEOREM SpelledOutIsChosen == ASSUME WildcardsGiveWay PROVE Spec => []SpelledOutWins
<1>1. ASSUME Inv, NEW r \in MatchRoute(entries, request), NEW o \in Pool(entries, request),
             MatchRoute(entries, request) = {r}
      PROVE  LET beside == Beside(Head(Answering(r, request.path)), Head(Answering(o, request.path)))
             IN  (\E p \in beside : Open(p[1]) /\ ~Open(p[2])) =>
                     \E p \in beside : ~Open(p[1]) /\ Open(p[2])
  <2> DEFINE path == Head(Answering(r, request.path))
             other == Head(Answering(o, request.path))
  <2>1. entries \in SUBSET Routes /\ request \in Requests /\ IsFiniteSet(entries)
    BY <1>1 DEF Inv, TypeOK
  <2>2. r \in Best(entries, request)
    BY <1>1, <2>1, OneIsTheBest
  <2>3. r \in Pool(entries, request) /\ ~MoreSpecific(RankOf(o, request), RankOf(r, request))
    BY <2>2, BestIsUnbeaten
  <2>4. \A x \in Pool(entries, request) : x \in Routes /\ Answering(x, request.path) # <<>>
    BY <2>1 DEF Pool, Answers
  <2>5. path \in Seq(Pieces) /\ other \in Seq(Pieces) /\ GivesWay(path, other)
    <3>1. r \in Routes /\ Answering(r, request.path) # <<>>
      BY <2>3, <2>4
    <3>2. o \in Routes /\ Answering(o, request.path) # <<>>
      BY <1>1, <2>4
    <3>3. r.path \in Seq(Pieces) /\ o.path \in Seq(Pieces)
      BY <3>1, <3>2, RouteAssumption
    <3>4. path \in Seq(Pieces) /\ other \in Seq(Pieces)
      BY <3>1, <3>2, <3>3, AnsweringIs
    <3> QED
      BY <2>1, <3>1, <3>2, <3>4 DEF WildcardsGiveWay
  <2>6. ~MoreSpecific(Specificity(other), Specificity(path))
    BY <2>3 DEF RankOf
  <2> HIDE DEF path, other
  <2>7. ASSUME \E p \in Beside(path, other) : Open(p[1]) /\ ~Open(p[2])
        PROVE  \E p \in Beside(path, other) : ~Open(p[1]) /\ Open(p[2])
    BY <2>5, <2>6, <2>7, TheSpelledOutIsMoreSpecific
  <2> QED
    BY <2>7 DEF path, other
<1>2. Inv => SpelledOutWins
  BY <1>1 DEF SpelledOutWins
<1>3. Spec => []Inv
  BY InitInv, NextInv, PTL DEF Spec
<1> QED
  BY <1>2, <1>3, PTL

\* So it is where no address that answers has a wildcard: two of them are then as
\* long as the request.
LEMMA WithoutWildcardsThisIsSo ==
    ASSUME \A r \in Routes, asked \in Requests :
               Answering(r, asked.path) # <<>> =>
                   SegmentsOf(Head(Answering(r, asked.path)), Star) = {}
    PROVE  WildcardsGiveWay
<1> SUFFICES ASSUME NEW r \in Routes, NEW o \in Routes, NEW asked \in Requests,
                    Answering(r, asked.path) # <<>>, Answering(o, asked.path) # <<>>
             PROVE  GivesWay(Head(Answering(r, asked.path)), Head(Answering(o, asked.path)))
  BY DEF WildcardsGiveWay
<1> DEFINE path == Head(Answering(r, asked.path))
           other == Head(Answering(o, asked.path))
<1>1. /\ path \in Seq(Pieces) /\ PathAnswers(path, asked.path) /\ SegmentsOf(path, Star) = {}
      /\ other \in Seq(Pieces) /\ PathAnswers(other, asked.path) /\ SegmentsOf(other, Star) = {}
  <2>1. r.path \in Seq(Pieces) /\ o.path \in Seq(Pieces)
    BY RouteAssumption
  <2> QED
    BY <2>1, AnsweringIs
<1> HIDE DEF path, other
<1>2. ASSUME NEW address \in Seq(Pieces), PathAnswers(address, asked.path),
             SegmentsOf(address, Star) = {}
      PROVE  Len(address) = Len(asked.path)
  <2>1. ~EndsInStar(address)
    BY <1>2 DEF EndsInStar, SegmentsOf
  <2> QED
    BY <1>2, <2>1 DEF PathAnswers
<1>3. Len(path) = Len(other)
  BY <1>1, <1>2
<1>4. CountOf(path, Star) = CountOf(other, Star) /\ CountOf(path, Star) \in Nat
  <2>1. CountOf(path, Star) = Cardinality(SegmentsOf(path, Star)) /\ CountOf(path, Star) \in Nat
    BY <1>1, SegmentsAreFinite
  <2>2. CountOf(other, Star) = Cardinality(SegmentsOf(other, Star))
    BY <1>1, SegmentsAreFinite
  <2> QED
    BY <1>1, <2>1, <2>2
<1>5. <<Star, Param>> \notin Beside(path, other)
  <2>1. Len(path) \in Nat /\ DOMAIN path = 1 .. Len(path)
    BY <1>1
  <2>2. ASSUME NEW i \in 1 .. (Len(path) + Len(other)), Segment(path, i) = Star
        PROVE  Segment(other, i) = Star
    BY <1>1, <1>3, <2>1, <2>2 DEF Segment, SegmentsOf
  <2> QED
    BY <2>2, RouteAssumption DEF Beside
<1>6. GivesWay(path, other)
  BY <1>4, <1>5 DEF GivesWay
<1> QED
  BY <1>6 DEF path, other

-----------------------------------------------------------------------------
(***************************************************************************)
(* That what is said to be able to reach a route can.                      *)
(***************************************************************************)

\* Every piece that was read takes some word.
LEMMA EveryPieceTakesAWord ==
    ASSUME NEW piece \in Pieces, piece.is # Unread
    PROVE  \E w \in Words : Takes(piece, w)
<1>1. /\ piece.is \in Words \union Shapes \union {Param, Star, Unread}
      /\ piece.shape \in Shapes \union {Param}
  BY DEF Pieces
<1>2. \A s \in Shapes : \E w \in Words : w \in Fits[s]
  <2>1. ASSUME NEW s \in Shapes PROVE Fits[s] \subseteq Words /\ Fits[s] # {}
    <3>1. Fits[s] \in (SUBSET Words) \ {{}}
      BY RouteAssumption
    <3> QED
      BY <3>1
  <2> QED
    BY <2>1
<1>3. \E w : w \in Words
  BY RouteAssumption
<1>4. CASE piece.is = Star
  BY <1>3, <1>4 DEF Takes
<1>5. CASE piece.is = Param /\ piece.shape = Param
  BY <1>3, <1>5 DEF Takes
<1>6. CASE piece.is = Param /\ piece.shape \in Shapes
  BY <1>2, <1>6 DEF Takes
<1>7. CASE piece.is \in Shapes
  BY <1>2, <1>7 DEF Takes
<1>8. CASE piece.is \in Words
  BY <1>8 DEF Takes
<1> QED
  BY <1>1, <1>4, <1>5, <1>6, <1>7, <1>8

\* A segment a piece takes may be a word it takes: itself, if it is one.
Becomes(piece, segment) ==
    IF segment \in Words THEN segment ELSE CHOOSE w \in Words : Takes(piece, w)

\* It is a word, and one that is taken.
LEMMA BecomesAWord ==
    ASSUME NEW piece \in Pieces, piece.is # Unread, NEW segment
    PROVE  /\ Becomes(piece, segment) \in Words
           /\ segment \in Words => Becomes(piece, segment) = segment
           /\ segment \notin Words => Takes(piece, Becomes(piece, segment))
<1>1. CASE segment \in Words
  BY <1>1 DEF Becomes
<1>2. CASE segment \notin Words
  BY <1>2, EveryPieceTakesAWord DEF Becomes
<1> QED
  BY <1>1, <1>2

\* Text that was read.
LEMMA WordsAreRead ==
    ASSUME NEW S, Unread \notin S, NEW address \in Seq(S)
    PROVE  WasRead(address)
<1>1. \A i \in DOMAIN address : address[i] # Unread
  OBVIOUS
<1> QED
  BY <1>1 DEF WasRead, Contains

\* None of its segments is one nobody read.
LEMMA WhatWasReadIs ==
    ASSUME NEW address, WasRead(address)
    PROVE  \A i \in DOMAIN address : address[i] # Unread
  BY DEF WasRead, Contains

\* The beginning of a sequence and the rest of it.
LEMMA CutInTwo ==
    ASSUME NEW S, NEW b \in Seq(S), NEW n \in 0 .. Len(b)
    PROVE  /\ SubSeq(b, 1, n) \in Seq(S) /\ Len(SubSeq(b, 1, n)) = n
           /\ SubSeq(b, n + 1, Len(b)) \in Seq(S) /\ Len(SubSeq(b, n + 1, Len(b))) = Len(b) - n
           /\ \A i \in 1 .. n : SubSeq(b, 1, n)[i] = b[i]
           /\ \A i \in 1 .. Len(b) - n : SubSeq(b, n + 1, Len(b))[i] = b[n + i]
           /\ b = SubSeq(b, 1, n) \o SubSeq(b, n + 1, Len(b))
<1> DEFINE x == SubSeq(b, 1, n)
           y == SubSeq(b, n + 1, Len(b))
<1>1. n \in Int /\ n \in Nat /\ Len(b) \in Nat /\ n <= Len(b) /\ \A i \in 1 .. Len(b) : b[i] \in S
  OBVIOUS
<1>2. /\ x \in Seq(S) /\ Len(x) = IF 1 <= n THEN n - 1 + 1 ELSE 0
      /\ \A i \in 1 .. n - 1 + 1 : x[i] = b[1 + i - 1]
  <2>1. \A i \in 1 .. n : b[i] \in S
    BY <1>1
  <2> QED
    BY <1>1, <2>1, SubSeqProperties
<1>3. /\ y \in Seq(S) /\ Len(y) = IF n + 1 <= Len(b) THEN Len(b) - (n + 1) + 1 ELSE 0
      /\ \A i \in 1 .. Len(b) - (n + 1) + 1 : y[i] = b[n + 1 + i - 1]
  <2>1. \A i \in n + 1 .. Len(b) : b[i] \in S
    BY <1>1
  <2>2. n + 1 \in Int /\ Len(b) \in Int
    BY <1>1
  <2> QED
    BY <2>1, <2>2, SubSeqProperties
<1> HIDE DEF x, y
<1>4. /\ x \in Seq(S) /\ Len(x) = n /\ y \in Seq(S) /\ Len(y) = Len(b) - n
      /\ \A i \in 1 .. n : x[i] = b[i]
      /\ \A i \in 1 .. Len(b) - n : y[i] = b[n + i]
  BY <1>1, <1>2, <1>3
<1>5. b = x \o y
  <2>1. /\ x \o y \in Seq(S) /\ Len(x \o y) = Len(x) + Len(y)
        /\ \A i \in 1 .. Len(x) + Len(y) : (x \o y)[i] = IF i <= Len(x) THEN x[i] ELSE y[i - Len(x)]
    BY <1>4, ConcatProperties
  <2> DEFINE z == x \o y
  <2>2. /\ z \in Seq(S) /\ Len(z) = Len(x) + Len(y)
        /\ \A i \in 1 .. Len(x) + Len(y) : z[i] = IF i <= Len(x) THEN x[i] ELSE y[i - Len(x)]
    BY <2>1
  <2> HIDE DEF z
  <2>3. Len(z) = Len(b)
    BY <1>1, <1>4, <2>2
  <2>4. ASSUME NEW i \in 1 .. Len(b) PROVE z[i] = b[i]
    <3>1. CASE i <= n
      <4>1. i \in 1 .. n
        BY <3>1
      <4> QED
        BY <1>1, <1>4, <2>2, <2>3, <4>1
    <3>2. CASE ~(i <= n)
      <4>1. i - n \in 1 .. Len(b) - n /\ n + (i - n) = i
        BY <1>1, <3>2
      <4>2. z[i] = y[i - n]
        BY <1>1, <1>4, <2>2, <2>3, <3>2
      <4> QED
        BY <1>4, <4>1, <4>2
    <3> QED
      BY <3>1, <3>2
  <2>5. b \in Seq(S)
    OBVIOUS
  <2>6. b = z
    BY <2>2, <2>3, <2>4, <2>5, SeqEqual
  <2> QED
    BY <2>6 DEF z
<1> QED
  BY <1>4, <1>5 DEF x, y

\* A segment's text is one segment or more; in place of it stands any text as long,
\* of words, that has its words, if it is no longer than the longest.
LEMMA StandsAsWell ==
    ASSUME NEW s \in Words \union {Param, Unread}, NEW segments, NEW longest \in Nat,
           NEW more \in Stands(s, segments, longest), NEW b \in Seq(Words), Len(b) = Len(more),
           \A i \in 1 .. Len(more) : more[i] \in Words => b[i] = more[i],
           Len(b) <= MaxSpan
    PROVE  b \in Stands(s, Words, MaxSpan)
<1>1. CASE s = Unread
  <2>1. PICK n \in 1 .. longest : more \in [1 .. n -> segments]
    BY <1>1 DEF Stands
  <2>2. n \in Nat /\ Len(more) = n
    BY <2>1
  <2>3. n \in 1 .. MaxSpan /\ b \in [1 .. n -> Words]
    BY <2>2, RouteAssumption
  <2> QED
    BY <1>1, <2>3 DEF Stands
<1>2. CASE s = Param /\ s # Unread
  <2>1. PICK t \in segments : more = <<t>>
    BY <1>2 DEF Stands
  <2>2. Len(b) = 1
    BY <2>1
  <2> DEFINE w == b[1]
  <2>3. w \in Words
    BY <2>2
  <2>4. b[1] = w
    OBVIOUS
  <2> HIDE DEF w
  <2>5. b = <<w>>
    BY <2>2, <2>3, <2>4
  <2> QED
    BY <1>2, <2>3, <2>5 DEF Stands
<1>3. CASE s # Param /\ s # Unread
  <2>1. more = <<s>>
    BY <1>3 DEF Stands
  <2>2. Len(b) = 1 /\ b[1] = s
    BY <1>3, <2>1
  <2>3. b = <<s>>
    BY <2>2
  <2> QED
    BY <1>3, <2>3 DEF Stands
<1> QED
  BY <1>1, <1>2, <1>3

\* A segment stands for one segment or more.
LEMMA StandsForSomething ==
    ASSUME NEW s, NEW segments, NEW longest \in Nat, NEW more \in Stands(s, segments, longest)
    PROVE  Len(more) >= 1 /\ Len(more) \in Nat
<1>1. CASE s = Unread
  <2>1. PICK n \in 1 .. longest : more \in [1 .. n -> segments]
    BY <1>1 DEF Stands
  <2> QED
    BY <2>1
<1>2. CASE s = Param /\ s # Unread
  BY <1>2 DEF Stands
<1>3. CASE s # Param /\ s # Unread
  BY <1>3 DEF Stands
<1> QED
  BY <1>1, <1>2, <1>3

\* A text of words stands where another as long did that has the same words, if it
\* has no more segments than the pattern leaves room for.
LEMMA TextsCarryOver ==
    ASSUME NEW pattern \in Seq(Words \union {Param, Unread}), NEW segments, NEW longest \in Nat,
           NEW t \in Texts(pattern, segments, longest), NEW a \in Seq(Words), Len(a) = Len(t),
           \A i \in 1 .. Len(t) : t[i] \in Words => a[i] = t[i],
           Len(t) <= MaxSpan + Len(pattern) - 1
    PROVE  a \in Texts(pattern, Words, MaxSpan)
<1> DEFINE U == Words \union {Param, Unread}
           N == Len(pattern)
<1>1. N \in Nat /\ \A n \in 1 .. N : pattern[n] \in U
  OBVIOUS
<1>8. PICK from : AreTexts(from, U \union segments, pattern, segments, longest)
  BY TextsInTurn
<1>9. PICK into : AreTexts(into, U \union Words, pattern, Words, MaxSpan)
  BY TextsInTurn
<1>2. /\ from \in [0 .. N -> SUBSET Seq(U \union segments)]
      /\ from[0] = {<<>>}
      /\ \A n \in 1 .. N : from[n] = Extended(from[n - 1], pattern[n], segments, longest)
      /\ Texts(pattern, segments, longest) = from[N]
  BY <1>8 DEF AreTexts
<1>3. /\ into[0] = {<<>>}
      /\ \A n \in 1 .. N : into[n] = Extended(into[n - 1], pattern[n], Words, MaxSpan)
      /\ Texts(pattern, Words, MaxSpan) = into[N]
  BY <1>9 DEF AreTexts
<1> DEFINE InPlaceOf(b, x) == /\ Len(b) = Len(x)
                              /\ \A i \in 1 .. Len(x) : x[i] \in Words => b[i] = x[i]
           Carries(n, x) == \A b \in Seq(Words) :
               InPlaceOf(b, x) /\ (n = 0 \/ Len(x) <= MaxSpan + n - 1) => b \in into[n]
           Fine(n) == \A x \in from[n] : n <= Len(x) /\ Carries(n, x)
           Holds == {n \in 0 .. N : Fine(n)}
<1>4. Fine(0)
  <2>1. \A b \in Seq(Words) : Len(b) = 0 => b = <<>>
    OBVIOUS
  <2>2. Len(<<>>) = 0 /\ \A x \in from[0] : x = <<>>
    BY <1>2
  <2> QED
    BY <1>3, <2>1, <2>2
<1>5. ASSUME NEW n \in 1 .. N, Fine(n - 1) PROVE Fine(n)
  <2>1. SUFFICES ASSUME NEW x \in from[n]
                 PROVE  n <= Len(x) /\ Carries(n, x)
    OBVIOUS
  <2> DEFINE s == pattern[n]
  <2>2. s \in U /\ n - 1 \in 0 .. N
    BY <1>1
  <2>3. PICK y \in from[n - 1], more \in Stands(s, segments, longest) : x = y \o more
    <3>1. x \in Extended(from[n - 1], s, segments, longest)
      BY <1>2
    <3>2. EndsWith(x, from[n - 1], s, segments, longest)
      BY <3>1, ExtendedAre
    <3> QED
      BY <3>2 DEF EndsWith
  <2> HIDE DEF s
  <2>4. y \in Seq(U \union segments) /\ more \in Seq(U \union segments)
    <3>1. from[n - 1] \in SUBSET Seq(U \union segments)
      BY <1>2, <2>2, Zenon
    <3>2. more \in Seq(U \union segments)
      BY <2>2, StandsForTexts
    <3> QED
      BY <3>1, <3>2
  <2>5. /\ Len(x) = Len(y) + Len(more) /\ Len(y) \in Nat /\ Len(more) \in Nat /\ Len(more) >= 1
        /\ \A i \in 1 .. Len(y) : x[i] = y[i]
        /\ \A i \in 1 .. Len(more) : x[Len(y) + i] = more[i]
    BY <2>3, <2>4, ConcatenatedIs, StandsForSomething
  <2>6. n - 1 <= Len(y) /\ Carries(n - 1, y)
    BY <1>5
  <2>7. ASSUME NEW b \in Seq(Words), InPlaceOf(b, x), Len(x) <= MaxSpan + n - 1
        PROVE  b \in into[n]
    <3> DEFINE m == Len(y)
               front == SubSeq(b, 1, m)
               back == SubSeq(b, m + 1, Len(b))
    <3>1. m \in 0 .. Len(b) /\ Len(b) = m + Len(more)
      BY <2>5, <2>7
    <3>2. /\ front \in Seq(Words) /\ Len(front) = m
          /\ back \in Seq(Words) /\ Len(back) = Len(b) - m
          /\ \A i \in 1 .. m : front[i] = b[i]
          /\ \A i \in 1 .. Len(b) - m : back[i] = b[m + i]
          /\ b = front \o back
      BY <3>1, CutInTwo
    <3> HIDE DEF front, back
    <3>3. front \in into[n - 1]
      <4>1. InPlaceOf(front, y)
        <5>1. ASSUME NEW i \in 1 .. Len(y), y[i] \in Words PROVE front[i] = y[i]
          <6>1. i \in 1 .. Len(x) /\ x[i] = y[i]
            BY <2>5
          <6> QED
            BY <2>7, <3>2, <5>1, <6>1
        <5> QED
          BY <3>2, <5>1
      <4>2. n - 1 = 0 \/ Len(y) <= MaxSpan + (n - 1) - 1
        BY <2>5, <2>7, RouteAssumption
      <4> QED
        BY <2>6, <3>2, <4>1, <4>2
    <3>4. back \in Stands(s, Words, MaxSpan)
      <4>1. ASSUME NEW i \in 1 .. Len(more), more[i] \in Words PROVE back[i] = more[i]
        <5>1. m + i \in 1 .. Len(x) /\ x[m + i] = more[i] /\ i \in 1 .. Len(b) - m
          BY <2>5, <3>1
        <5> QED
          BY <2>7, <3>2, <4>1, <5>1
      <4>2. Len(back) = Len(more) /\ Len(back) <= MaxSpan
        BY <2>5, <2>6, <2>7, <3>1, <3>2, RouteAssumption
      <4> QED
        BY <2>2, <3>2, <4>1, <4>2, StandsAsWell
    <3>5. b \in Extended(into[n - 1], s, Words, MaxSpan)
      <4>1. EndsWith(b, into[n - 1], s, Words, MaxSpan)
        BY <3>2, <3>3, <3>4, Zenon DEF EndsWith
      <4> QED
        BY <4>1, ExtendedAre
    <3> QED
      BY <1>3, <3>5 DEF s
  <2>8. n <= Len(x)
    BY <2>5, <2>6
  <2> QED
    BY <2>7, <2>8
<1>6. Fine(N)
  <2> HIDE DEF Fine, N
  <2>1. 0 \in Holds /\ \A n \in 1 .. N : n - 1 \in Holds => n \in Holds
    BY <1>1, <1>4, <1>5
  <2>2. Holds \in SUBSET (0 .. N)
    OBVIOUS
  <2> HIDE DEF Holds
  <2>3. N \in Holds
    BY <1>1, <2>1, <2>2, StepByStep
  <2> QED
    BY <2>3 DEF Holds
<1>7. Carries(N, t)
  BY <1>2, <1>6
<1> QED
  BY <1>3, <1>7

\* An address read in full may turn out to be any that has a word for each of its holes.
LEMMA HolesAreFilled ==
    ASSUME NEW address \in Seq(Words \union {Param}), NEW a \in Seq(Words), Len(a) = Len(address),
           \A i \in 1 .. Len(address) : address[i] \in Words => a[i] = address[i]
    PROVE  a \in Turns(address)
<1> DEFINE N == Len(address)
           Before(n) == SubSeq(a, 1, n)
<1>1. N \in Nat /\ \A n \in 1 .. N : address[n] \in Words \union {Param}
  OBVIOUS
<1>2. PICK into : AreTexts(into, (Words \union {Param}) \union Words, address, Words, MaxSpan)
  BY TextsInTurn
<1>3. /\ into[0] = {<<>>}
      /\ \A n \in 1 .. N : into[n] = Extended(into[n - 1], address[n], Words, MaxSpan)
      /\ Texts(address, Words, MaxSpan) = into[N]
  BY <1>2 DEF AreTexts
<1> DEFINE Holds == {n \in 0 .. N : Before(n) \in into[n]}
<1>4. Before(0) \in into[0]
  BY <1>3
<1>5. ASSUME NEW n \in 1 .. N, Before(n - 1) \in into[n - 1] PROVE Before(n) \in into[n]
  <2> DEFINE w == a[n]
             s == address[n]
  <2>1. w \in Words /\ s \in Words \union {Param} /\ (s \in Words => w = s)
    BY <1>1
  <2>2. Before(n) = Before(n - 1) \o <<w>>
    OBVIOUS
  <2> HIDE DEF w, s, Before
  <2>3. s # Unread
    BY <2>1, RouteAssumption
  <2>4. <<w>> \in Stands(s, Words, MaxSpan)
    <3>1. CASE s = Param
      BY <2>1, <2>3, <3>1 DEF Stands
    <3>2. CASE s # Param
      BY <2>1, <2>3, <3>2 DEF Stands
    <3> QED
      BY <3>1, <3>2
  <2>5. EndsWith(Before(n), into[n - 1], s, Words, MaxSpan)
    BY <1>5, <2>2, <2>4, Zenon DEF EndsWith
  <2>6. Before(n) \in Extended(into[n - 1], s, Words, MaxSpan)
    BY <2>5, ExtendedAre
  <2> QED
    BY <1>3, <2>6 DEF s
<1>6. Before(N) \in into[N]
  <2> HIDE DEF Before, N
  <2>1. 0 \in Holds /\ \A n \in 1 .. N : n - 1 \in Holds => n \in Holds
    BY <1>1, <1>4, <1>5
  <2>2. Holds \in SUBSET (0 .. N)
    OBVIOUS
  <2> HIDE DEF Holds
  <2>3. N \in Holds
    BY <1>1, <2>1, <2>2, StepByStep
  <2> QED
    BY <2>3 DEF Holds
<1>7. Before(N) = a
  OBVIOUS
<1> QED
  BY <1>3, <1>6, <1>7 DEF Turns

\* What a route could reach, if the request's address were read: the words it spells
\* out, and for each of its holes a word that fits.
LEMMA ReachableIsReached ==
    ASSUME NEW path \in Seq(Pieces), WasRead(Key(path)),
           NEW pattern \in Seq(Words \union {Param, Unread}),
           Matches(Key(path), pattern), Len(path) <= MaxSpan + Len(pattern) - 1
    PROVE  \E a \in Turns(pattern) : PathAnswers(path, a)
<1> DEFINE t == Key(path)
           a == [i \in 1 .. Len(path) |-> Becomes(path[i], t[i])]
<1>1. /\ Len(path) \in Nat /\ DOMAIN path = 1 .. Len(path)
      /\ \A i \in 1 .. Len(path) : path[i] \in Pieces
  OBVIOUS
<1>2. /\ DOMAIN t = 1 .. Len(path) /\ Len(t) = Len(path)
      /\ \A i \in 1 .. Len(path) : t[i] = path[i].is
  <2>1. t = [i \in 1 .. Len(path) |-> path[i].is]
    BY <1>1 DEF Key
  <2> HIDE DEF t
  <2> QED
    BY <1>1, <2>1
<1> HIDE DEF t
<1>3. ASSUME NEW i \in 1 .. Len(path)
      PROVE  /\ Becomes(path[i], t[i]) \in Words
             /\ t[i] \in Words => Becomes(path[i], t[i]) = t[i]
             /\ Takes(path[i], Becomes(path[i], t[i]))
  <2>1. path[i] \in Pieces /\ path[i].is # Unread /\ t[i] = path[i].is
    BY <1>1, <1>2, WhatWasReadIs DEF t
  <2>2. /\ Becomes(path[i], t[i]) \in Words
        /\ t[i] \in Words => Becomes(path[i], t[i]) = t[i]
        /\ t[i] \notin Words => Takes(path[i], Becomes(path[i], t[i]))
    BY <2>1, BecomesAWord
  <2>3. t[i] \in Words => Takes(path[i], t[i])
    BY <2>1 DEF Takes
  <2> QED
    BY <2>2, <2>3
<1>4. a \in Seq(Words) /\ Len(a) = Len(path) /\ \A i \in 1 .. Len(path) : a[i] = Becomes(path[i], t[i])
  <2>1. a \in [1 .. Len(path) -> Words]
    BY <1>3
  <2> QED
    BY <1>1, <2>1
<1> HIDE DEF a
<1>5. a \in Turns(pattern)
  <2>1. t \in Texts(pattern, ToSet(t), Len(t))
    BY DEF Matches, t
  <2>2. \A i \in 1 .. Len(t) : t[i] \in Words => a[i] = t[i]
    BY <1>2, <1>3, <1>4
  <2>3. Len(a) = Len(t) /\ Len(t) \in Nat /\ Len(t) <= MaxSpan + Len(pattern) - 1
    BY <1>1, <1>2, <1>4
  <2>4. a \in Texts(pattern, Words, MaxSpan)
    BY <1>4, <2>1, <2>2, <2>3, TextsCarryOver
  <2> QED
    BY <2>4 DEF Turns
<1>6. PathAnswers(path, a)
  <2>1. WasRead(a)
    <3>1. Unread \notin Words
      BY RouteAssumption
    <3> QED
      BY <1>4, <3>1, WordsAreRead
  <2>2. \A i \in DOMAIN path : Takes(path[i], a[i])
    BY <1>1, <1>3, <1>4
  <2> QED
    BY <1>4, <2>1, <2>2 DEF PathAnswers
<1> QED
  BY <1>5, <1>6

\* Holes of a request read in full are taken with any word in their place.
LEMMA HolesAreTaken ==
    ASSUME NEW path \in Seq(Pieces), NEW address \in Seq(Words \union {Param}),
           PathAnswers(path, address)
    PROVE  \E a \in Turns(address) : PathAnswers(path, a)
<1>1. PICK w : w \in Words
  BY RouteAssumption
<1> DEFINE a == [i \in 1 .. Len(address) |-> IF address[i] \in Words THEN address[i] ELSE w]
<1>2. /\ a \in Seq(Words) /\ Len(a) = Len(address) /\ Len(address) \in Nat
      /\ \A i \in 1 .. Len(address) : a[i] = IF address[i] \in Words THEN address[i] ELSE w
  <2>1. a \in [1 .. Len(address) -> Words] /\ Len(address) \in Nat
    BY <1>1
  <2> QED
    BY <2>1
<1> HIDE DEF a
<1>3. a \in Turns(address)
  BY <1>2, HolesAreFilled
<1>4. ASSUME NEW i \in DOMAIN path PROVE Takes(path[i], a[i])
  <2>1. i \in 1 .. Len(address) /\ path[i] \in Pieces /\ Takes(path[i], address[i])
    BY <1>2 DEF PathAnswers
  <2>2. CASE address[i] \in Words
    BY <1>2, <2>1, <2>2
  <2>3. CASE address[i] = Param
    <3>1. \A s \in Shapes : Param \notin Fits[s]
      <4>1. ASSUME NEW s \in Shapes PROVE Param \notin Fits[s]
        <5>1. Fits[s] \in (SUBSET Words) \ {{}} /\ Param \notin Words
          BY RouteAssumption
        <5> QED
          BY <5>1
      <4> QED
        BY <4>1
    <3>2. path[i].shape \in Shapes \union {Param}
      BY <2>1 DEF Pieces
    <3>3. path[i].is = Star \/ (path[i].is = Param /\ path[i].shape = Param)
      BY <2>1, <2>3, <3>1, <3>2, RouteAssumption DEF Takes
    <3> QED
      BY <3>3 DEF Takes
  <2> QED
    BY <2>1, <2>2, <2>3
<1>5. WasRead(a)
  <2>1. Unread \notin Words
    BY RouteAssumption
  <2> QED
    BY <1>2, <2>1, WordsAreRead
<1>6. PathAnswers(path, a)
  BY <1>2, <1>4, <1>5 DEF PathAnswers
<1> QED
  BY <1>3, <1>6

\* What stands for a piece takes what the piece may stand for.
LEMMA FillingsTake ==
    ASSUME NEW piece \in Pieces, piece.is = Param => piece.shape = Param,
           NEW segments, NEW longest \in Nat, NEW more \in Stands(piece.is, segments, longest),
           more \in Seq(Words \union {Param}), Len(more) <= MaxSpan
    PROVE  \E fill \in Fillings(piece) :
               /\ fill \in Seq(Pieces) /\ Len(fill) = Len(more)
               /\ \A i \in 1 .. Len(more) : fill[i].is # Unread /\ Takes(fill[i], more[i])
<1>1. CASE piece.is = Unread
  <2>1. PICK n \in 1 .. longest : more \in [1 .. n -> segments]
    BY <1>1 DEF Stands
  <2>2. n \in Nat /\ Len(more) = n /\ n \in 1 .. MaxSpan
    BY <2>1, RouteAssumption
  <2> DEFINE fill == [i \in 1 .. n |-> Plain(more[i])]
  <2>3. \A i \in 1 .. n : more[i] \in Words \union {Param}
    BY <2>2
  <2>4. fill \in [1 .. n -> {Plain(s) : s \in Words \union {Param}}]
    BY <2>3
  <2>5. ASSUME NEW s \in Words \union {Param}
        PROVE  Plain(s) \in Pieces /\ Plain(s).is # Unread /\ Takes(Plain(s), s)
    <3>1. s # Unread
      BY RouteAssumption
    <3> QED
      BY <3>1 DEF Plain, Pieces, Takes
  <2>6. \A i \in 1 .. n : fill[i] \in Pieces /\ fill[i].is # Unread /\ Takes(fill[i], more[i])
    BY <2>3, <2>5
  <2> HIDE DEF fill
  <2>7. fill \in Fillings(piece)
    BY <1>1, <2>2, <2>4 DEF Fillings
  <2>8. fill \in Seq(Pieces) /\ Len(fill) = n
    <3>1. fill \in [1 .. n -> Pieces]
      BY <2>4, <2>6
    <3> QED
      BY <2>2, <3>1
  <2> QED
    BY <2>2, <2>6, <2>7, <2>8
<1>2. CASE piece.is # Unread
  <2>1. <<piece>> \in Fillings(piece) /\ <<piece>> \in Seq(Pieces)
    BY <1>2 DEF Fillings
  <2>2. \E s : more = <<s>> /\ (piece.is # Param => s = piece.is)
    <3>1. CASE piece.is = Param
      <4>1. PICK s \in segments : more = <<s>>
        BY <1>2, <3>1 DEF Stands
      <4> QED
        BY <3>1, <4>1
    <3>2. CASE piece.is # Param
      BY <1>2, <3>2 DEF Stands
    <3> QED
      BY <3>1, <3>2
  <2>3. PICK s : more = <<s>> /\ (piece.is # Param => s = piece.is)
    BY <2>2
  <2>4. s \in Words \union {Param}
    BY <2>3
  <2>5. Takes(piece, s)
    <3>1. CASE piece.is = Param
      BY <3>1 DEF Takes
    <3>2. CASE piece.is # Param
      BY <2>3, <2>4, <3>2 DEF Takes
    <3> QED
      BY <3>1, <3>2
  <2>6. Len(more) = 1 /\ more[1] = s /\ Len(<<piece>>) = 1 /\ <<piece>>[1] = piece
    BY <2>3
  <2>7. \A i \in 1 .. Len(more) : i = 1
    BY <2>6
  <2> DEFINE fill == <<piece>>
  <2> HIDE DEF fill
  <2>8. /\ fill \in Fillings(piece) /\ fill \in Seq(Pieces) /\ Len(fill) = Len(more)
        /\ \A i \in 1 .. Len(more) : fill[i] = piece /\ more[i] = s
    BY <2>1, <2>6, <2>7 DEF fill
  <2> QED
    BY <1>2, <2>5, <2>8
<1> QED
  BY <1>1, <1>2

\* A sequence of some things is one of others if each of them is.
LEMMA SequenceOf ==
    ASSUME NEW S, NEW T, NEW s \in Seq(S), \A i \in 1 .. Len(s) : s[i] \in T
    PROVE  s \in Seq(T)
  OBVIOUS

\* A text a route's address matches, with what nobody read left open, is taken by
\* the address with something there.
LEMMA FilledAddressTakes ==
    ASSUME NEW r, r.path \in Seq(Pieces),
           \A i \in DOMAIN r.path : r.path[i].is = Param => r.path[i].shape = Param,
           NEW segments, NEW longest \in Nat, NEW t \in Texts(Key(r.path), segments, longest),
           t \in Seq(Words \union {Param}), Len(t) <= MaxSpan + Len(r.path) - 1
    PROVE  \E p \in Seq(Pieces) :
               /\ [r EXCEPT !.path = p] \in Filled(r)
               /\ Len(p) = Len(t)
               /\ \A i \in 1 .. Len(t) : p[i].is # Unread /\ Takes(p[i], t[i])
<1> DEFINE N == Len(r.path)
           key == Key(r.path)
           U == Words \union Shapes \union {Param, Star, Unread}
           Asked == Seq(Words \union {Param})
<1>1. N \in Nat /\ DOMAIN r.path = 1 .. N /\ \A n \in 1 .. N : r.path[n] \in Pieces
  OBVIOUS
<1>2. /\ key \in Seq(U) /\ Len(key) = N
      /\ \A n \in 1 .. N : key[n] = r.path[n].is
  <2>1. key = [i \in 1 .. N |-> r.path[i].is]
    BY <1>1 DEF Key
  <2>2. \A i \in 1 .. N : r.path[i].is \in U
    <3> HIDE DEF N
    <3> QED
      BY <1>1 DEF Pieces
  <2> HIDE DEF key, U, N
  <2>3. key \in [1 .. N -> U]
    BY <2>1, <2>2
  <2> QED
    BY <1>1, <2>1, <2>3
<1>3. PICK from : AreTexts(from, U \union segments, key, segments, longest)
  BY <1>2, TextsInTurn
<1>4. /\ from \in [0 .. N -> SUBSET Seq(U \union segments)]
      /\ from[0] = {<<>>}
      /\ \A n \in 1 .. N : from[n] = Extended(from[n - 1], r.path[n].is, segments, longest)
      /\ t \in from[N]
  BY <1>2, <1>3 DEF AreTexts
<1>5. PICK paths : AreFilled(paths, r)
  BY FilledInTurn
<1>6. /\ paths \in [0 .. N -> SUBSET Seq(Pieces)]
      /\ paths[0] = {<<>>}
      /\ \A n \in 1 .. N : paths[n] = FilledOut(paths[n - 1], r.path[n])
      /\ Filled(r) = {[r EXCEPT !.path = path] : path \in paths[N]}
  BY <1>5 DEF AreFilled
<1> DEFINE TakesAll(p, x) == /\ Len(p) = Len(x)
                             /\ \A i \in 1 .. Len(x) : p[i].is # Unread /\ Takes(p[i], x[i])
           Taken(n, x) == (n = 0 \/ Len(x) <= MaxSpan + n - 1) => \E p \in paths[n] : TakesAll(p, x)
           Fine(n) == \A x \in from[n] : x \in Asked => n <= Len(x) /\ Taken(n, x)
           Holds == {n \in 0 .. N : Fine(n)}
<1>7. Fine(0)
  <2>1. <<>> \in paths[0] /\ TakesAll(<<>>, <<>>) /\ Len(<<>>) = 0
    BY <1>6
  <2> HIDE DEF TakesAll
  <2> QED
    BY <1>4, <2>1
<1>8. ASSUME NEW n \in 1 .. N, Fine(n - 1) PROVE Fine(n)
  <2>1. SUFFICES ASSUME NEW x \in from[n], x \in Asked
                 PROVE  n <= Len(x) /\ Taken(n, x)
    OBVIOUS
  <2> DEFINE piece == r.path[n]
  <2>2. /\ piece \in Pieces /\ piece.is \in U /\ n - 1 \in 0 .. N
        /\ piece.is = Param => piece.shape = Param
    <3>1. piece \in Pieces /\ n - 1 \in 0 .. N /\ (piece.is = Param => piece.shape = Param)
      BY <1>1
    <3> HIDE DEF piece
    <3> QED
      BY <3>1 DEF Pieces
  <2>3. PICK y \in from[n - 1], more \in Stands(piece.is, segments, longest) : x = y \o more
    <3>1. x \in Extended(from[n - 1], piece.is, segments, longest)
      BY <1>4
    <3>2. EndsWith(x, from[n - 1], piece.is, segments, longest)
      BY <3>1, ExtendedAre
    <3> QED
      BY <3>2 DEF EndsWith
  <2> HIDE DEF piece
  <2>4. y \in Seq(U \union segments) /\ more \in Seq(U \union segments)
    <3>1. from[n - 1] \in SUBSET Seq(U \union segments)
      BY <1>4, <2>2, Zenon
    <3>2. more \in Seq(U \union segments)
      BY <2>2, StandsForTexts
    <3> QED
      BY <3>1, <3>2
  <2>5. /\ Len(x) = Len(y) + Len(more) /\ Len(y) \in Nat /\ Len(more) \in Nat /\ Len(more) >= 1
        /\ \A i \in 1 .. Len(y) : x[i] = y[i]
        /\ \A i \in 1 .. Len(more) : x[Len(y) + i] = more[i]
    BY <2>3, <2>4, ConcatenatedIs, StandsForSomething
  <2>6. y \in Asked /\ more \in Asked
    <3>1. \A i \in 1 .. Len(x) : x[i] \in Words \union {Param}
      BY <2>1
    <3>2. \A i \in 1 .. Len(y) : y[i] \in Words \union {Param}
      BY <2>5, <3>1
    <3>3. \A i \in 1 .. Len(more) : more[i] \in Words \union {Param}
      <4>1. ASSUME NEW i \in 1 .. Len(more) PROVE more[i] \in Words \union {Param}
        <5>1. Len(y) + i \in 1 .. Len(x) /\ x[Len(y) + i] = more[i]
          BY <2>5
        <5> QED
          BY <3>1, <5>1
      <4> QED
        BY <4>1
    <3> QED
      BY <2>4, <3>2, <3>3, SequenceOf
  <2>7. n - 1 <= Len(y) /\ Taken(n - 1, y)
    BY <1>8, <2>6
  <2>8. ASSUME Len(x) <= MaxSpan + n - 1
        PROVE  \E p \in paths[n] : TakesAll(p, x)
    <3>1. n - 1 = 0 \/ Len(y) <= MaxSpan + (n - 1) - 1
      BY <2>5, <2>8, RouteAssumption
    <3>2. PICK q \in paths[n - 1] : TakesAll(q, y)
      BY <2>7, <3>1
    <3>3. Len(more) <= MaxSpan
      BY <2>5, <2>7, <2>8, RouteAssumption
    <3>4. PICK fill \in Fillings(piece) :
              /\ fill \in Seq(Pieces) /\ Len(fill) = Len(more)
              /\ \A i \in 1 .. Len(more) : fill[i].is # Unread /\ Takes(fill[i], more[i])
      BY <2>2, <2>6, <3>3, FillingsTake
    <3> DEFINE p == q \o fill
    <3>5. q \in Seq(Pieces)
      <4>1. paths[n - 1] \in SUBSET Seq(Pieces)
        BY <1>6, <2>2, Zenon
      <4> QED
        BY <4>1
    <3>6. p \in paths[n]
      <4>1. EndsFilled(p, paths[n - 1], piece)
        BY Zenon DEF EndsFilled
      <4>2. p \in FilledOut(paths[n - 1], piece)
        BY <4>1, FilledOutHas
      <4> QED
        BY <1>6, <4>2 DEF piece
    <3>7. /\ Len(p) = Len(q) + Len(fill)
          /\ \A i \in 1 .. Len(q) : p[i] = q[i]
          /\ \A i \in 1 .. Len(fill) : p[Len(q) + i] = fill[i]
      <4>1. fill \in Seq(Pieces)
        BY <3>4
      <4>2. p = q \o fill
        OBVIOUS
      <4> HIDE DEF p
      <4>3. /\ Len(q \o fill) = Len(q) + Len(fill)
            /\ \A i \in 1 .. Len(q) : (q \o fill)[i] = q[i]
            /\ \A i \in 1 .. Len(fill) : (q \o fill)[Len(q) + i] = fill[i]
        BY <3>5, <4>1, ConcatenatedIs
      <4> QED
        BY <4>2, <4>3
    <3> HIDE DEF p
    <3>8. ASSUME NEW i \in 1 .. Len(x) PROVE p[i].is # Unread /\ Takes(p[i], x[i])
      <4>1. CASE i <= Len(y)
        <5>1. i \in 1 .. Len(y) /\ p[i] = q[i] /\ x[i] = y[i]
          BY <2>5, <3>2, <3>7, <4>1
        <5> QED
          BY <3>2, <5>1
      <4>2. CASE ~(i <= Len(y))
        <5> DEFINE j == i - Len(y)
        <5>1. j \in 1 .. Len(more) /\ Len(y) + j = i
          BY <2>5, <4>2
        <5> HIDE DEF j
        <5>2. p[i] = fill[j] /\ x[i] = more[j]
          BY <2>5, <3>2, <3>4, <3>7, <5>1
        <5> QED
          BY <3>4, <5>1, <5>2
      <4> QED
        BY <4>1, <4>2
    <3>9. TakesAll(p, x)
      BY <2>5, <3>2, <3>4, <3>7, <3>8
    <3> QED
      BY <3>6, <3>9
  <2>9. n <= Len(x)
    BY <2>5, <2>7
  <2> QED
    BY <2>8, <2>9
<1>9. Fine(N)
  <2> HIDE DEF Fine, N
  <2>1. 0 \in Holds /\ \A n \in 1 .. N : n - 1 \in Holds => n \in Holds
    BY <1>1, <1>7, <1>8
  <2>2. Holds \in SUBSET (0 .. N)
    OBVIOUS
  <2> HIDE DEF Holds
  <2>3. N \in Holds
    BY <1>1, <2>1, <2>2, StepByStep
  <2> QED
    BY <2>3 DEF Holds
<1>10. PICK p \in paths[N] : TakesAll(p, t)
  BY <1>4, <1>9
<1>11. p \in Seq(Pieces)
  <2>1. paths[N] \in SUBSET Seq(Pieces)
    BY <1>1, <1>6
  <2> QED
    BY <2>1
<1>12. [r EXCEPT !.path = p] \in Filled(r)
  BY <1>6
<1> QED
  BY <1>10, <1>11, <1>12

\* A segment left out of an address, and one put into it.
LEMMA RemovedIs ==
    ASSUME NEW S, NEW s \in Seq(S), NEW k \in 1 .. Len(s)
    PROVE  /\ RemoveAt(s, k) \in Seq(S) /\ Len(RemoveAt(s, k)) = Len(s) - 1
           /\ \A i \in 1 .. Len(s) - 1 : RemoveAt(s, k)[i] = IF i < k THEN s[i] ELSE s[i + 1]
<1> DEFINE x == SubSeq(s, 1, k - 1)
           y == SubSeq(s, k + 1, Len(s))
           n == Len(s)
<1>1. n \in Nat /\ k \in Nat /\ 1 <= k /\ k <= n /\ \A i \in 1 .. n : s[i] \in S
  OBVIOUS
<1>2. /\ x \in Seq(S) /\ Len(x) = IF 1 <= k - 1 THEN (k - 1) - 1 + 1 ELSE 0
      /\ \A i \in 1 .. (k - 1) - 1 + 1 : x[i] = s[1 + i - 1]
  <2>1. (\A i \in 1 .. k - 1 : s[i] \in S) /\ 1 \in Int /\ k - 1 \in Int
    BY <1>1
  <2> QED
    BY <2>1, SubSeqProperties
<1>3. /\ y \in Seq(S) /\ Len(y) = IF k + 1 <= n THEN n - (k + 1) + 1 ELSE 0
      /\ \A i \in 1 .. n - (k + 1) + 1 : y[i] = s[(k + 1) + i - 1]
  <2>1. (\A i \in k + 1 .. n : s[i] \in S) /\ k + 1 \in Int /\ n \in Int
    BY <1>1
  <2> QED
    BY <2>1, SubSeqProperties
<1> DEFINE z == x \o y
<1>4. /\ z \in Seq(S) /\ Len(z) = Len(x) + Len(y)
      /\ \A i \in 1 .. Len(x) + Len(y) : z[i] = IF i <= Len(x) THEN x[i] ELSE y[i - Len(x)]
  BY <1>2, <1>3, ConcatProperties
<1>5. z = RemoveAt(s, k)
  BY DEF RemoveAt
<1> HIDE DEF x, y, z, n
<1>6. Len(x) = k - 1 /\ Len(y) = n - k /\ Len(z) = n - 1
  BY <1>1, <1>2, <1>3, <1>4
<1>7. ASSUME NEW i \in 1 .. n - 1 PROVE z[i] = IF i < k THEN s[i] ELSE s[i + 1]
  <2>1. CASE i < k
    <3>1. i \in 1 .. (k - 1) - 1 + 1 /\ 1 + i - 1 = i /\ i <= Len(x) /\ i \in 1 .. Len(x) + Len(y)
      BY <1>1, <1>6, <2>1
    <3> QED
      BY <1>2, <1>4, <2>1, <3>1
  <2>2. CASE ~(i < k)
    <3> DEFINE j == i - Len(x)
    <3>1. /\ j \in 1 .. n - (k + 1) + 1 /\ (k + 1) + j - 1 = i + 1
          /\ ~(i <= Len(x)) /\ i \in 1 .. Len(x) + Len(y)
      BY <1>1, <1>6, <2>2
    <3>2. z[i] = y[j]
      BY <1>4, <3>1
    <3> HIDE DEF j
    <3> QED
      BY <1>3, <2>2, <3>1, <3>2
  <2> QED
    BY <2>1, <2>2
<1> QED
  BY <1>4, <1>5, <1>6, <1>7 DEF n

\* A sequence with one thing put into it.
HasPutIn(z, S, s, k, e) ==
    /\ z \in Seq(S) /\ Len(z) = Len(s) + 1
    /\ \A i \in 1 .. Len(s) + 1 : z[i] = IF i < k THEN s[i] ELSE IF i = k THEN e ELSE s[i - 1]

\* What InsertAt of the community module returns is such a sequence.
LEMMA InsertedIs ==
    ASSUME NEW S, NEW s \in Seq(S), NEW k \in 1 .. Len(s) + 1, NEW e \in S
    PROVE  HasPutIn(InsertAt(s, k, e), S, s, k, e)
<1> DEFINE x == SubSeq(s, 1, k - 1)
           y == SubSeq(s, k, Len(s))
           n == Len(s)
<1>1. n \in Nat /\ k \in Nat /\ 1 <= k /\ k <= n + 1 /\ \A i \in 1 .. n : s[i] \in S
  OBVIOUS
<1>2. /\ x \in Seq(S) /\ Len(x) = IF 1 <= k - 1 THEN (k - 1) - 1 + 1 ELSE 0
      /\ \A i \in 1 .. (k - 1) - 1 + 1 : x[i] = s[1 + i - 1]
  <2>1. (\A i \in 1 .. k - 1 : s[i] \in S) /\ 1 \in Int /\ k - 1 \in Int
    BY <1>1
  <2> QED
    BY <2>1, SubSeqProperties
<1>3. /\ y \in Seq(S) /\ Len(y) = IF k <= n THEN n - k + 1 ELSE 0
      /\ \A i \in 1 .. n - k + 1 : y[i] = s[k + i - 1]
  <2>1. (\A i \in k .. n : s[i] \in S) /\ k \in Int /\ n \in Int
    BY <1>1
  <2> QED
    BY <2>1, SubSeqProperties
<1> DEFINE w == x \o <<e>>
           z == w \o y
           one == <<e>>
<1>4. one \in Seq(S) /\ Len(one) = 1 /\ one[1] = e
  OBVIOUS
<1>5. /\ w \in Seq(S) /\ Len(w) = Len(x) + Len(one)
      /\ \A i \in 1 .. Len(x) + Len(one) : w[i] = IF i <= Len(x) THEN x[i] ELSE one[i - Len(x)]
  <2>1. w = x \o one
    OBVIOUS
  <2> HIDE DEF x, one
  <2> QED
    BY <1>2, <1>4, <2>1, ConcatProperties
<1>6. /\ z \in Seq(S) /\ Len(z) = Len(w) + Len(y)
      /\ \A i \in 1 .. Len(w) + Len(y) : z[i] = IF i <= Len(w) THEN w[i] ELSE y[i - Len(w)]
  <2> HIDE DEF w, y
  <2>1. w \in Seq(S) /\ y \in Seq(S)
    BY <1>3, <1>5
  <2> QED
    BY <2>1, ConcatProperties
<1>7. z = InsertAt(s, k, e)
  BY DEF InsertAt
<1> HIDE DEF x, y, z, w, n, one
<1>8. Len(x) = k - 1 /\ Len(w) = k /\ Len(y) = n - k + 1 /\ Len(z) = n + 1
  BY <1>1, <1>2, <1>3, <1>4, <1>5, <1>6
<1>9. ASSUME NEW i \in 1 .. n + 1
      PROVE  z[i] = IF i < k THEN s[i] ELSE IF i = k THEN e ELSE s[i - 1]
  <2>1. CASE i < k
    <3>1. /\ i \in 1 .. (k - 1) - 1 + 1 /\ 1 + i - 1 = i /\ i <= Len(x) /\ i <= Len(w)
          /\ i \in 1 .. Len(w) + Len(y) /\ i \in 1 .. Len(x) + Len(one)
      BY <1>1, <1>4, <1>8, <2>1
    <3> QED
      BY <1>2, <1>5, <1>6, <2>1, <3>1
  <2>2. CASE i = k
    <3>1. /\ i - Len(x) = 1 /\ ~(i <= Len(x)) /\ i <= Len(w)
          /\ i \in 1 .. Len(w) + Len(y) /\ i \in 1 .. Len(x) + Len(one)
      BY <1>1, <1>4, <1>8, <2>2
    <3> QED
      BY <1>4, <1>5, <1>6, <2>2, <3>1
  <2>3. CASE i > k
    <3> DEFINE j == i - Len(w)
    <3>1. /\ j \in 1 .. n - k + 1 /\ k + j - 1 = i - 1
          /\ ~(i <= Len(w)) /\ i \in 1 .. Len(w) + Len(y) /\ ~(i < k) /\ i # k
      BY <1>1, <1>8, <2>3
    <3>2. z[i] = y[j]
      BY <1>6, <3>1
    <3> HIDE DEF j
    <3> QED
      BY <1>3, <3>1, <3>2
  <2> QED
    BY <1>1, <2>1, <2>2, <2>3
<1> QED
  BY <1>6, <1>7, <1>8, <1>9 DEF n, HasPutIn

\* The word that is put where a route's segment is.
Fitting(segment) == Becomes(Plain(segment), Param)

\* It is one the segment takes.
LEMMA KeyIsTaken ==
    ASSUME NEW r \in Routes, WasRead(Key(r.path)), ~Contains(Key(r.path), Star)
    PROVE  /\ Key(r.path) \in Seq(Words \union Shapes \union {Param})
           /\ \A i \in DOMAIN Key(r.path) :
                  /\ Fitting(Key(r.path)[i]) \in Words
                  /\ Takes(Plain(Key(r.path)[i]), Fitting(Key(r.path)[i]))
<1> DEFINE key == Key(r.path)
           N == Len(r.path)
           U == Words \union Shapes \union {Param}
<1>1. /\ N \in Nat /\ DOMAIN r.path = 1 .. N
      /\ \A i \in 1 .. N : r.path[i] \in Pieces
  BY RouteAssumption
<1>2. key = [i \in 1 .. N |-> r.path[i].is]
  BY <1>1 DEF Key
<1>3. \A i \in DOMAIN key : key[i] # Unread /\ key[i] # Star
  BY WhatWasReadIs DEF Contains
<1>4. ASSUME NEW i \in 1 .. N PROVE key[i] \in U
  <2>1. r.path[i].is \in Words \union Shapes \union {Param, Star, Unread}
    <3> HIDE DEF N
    <3> QED
      BY <1>1 DEF Pieces
  <2>2. key[i] # Unread /\ key[i] # Star /\ key[i] = r.path[i].is
    BY <1>2, <1>3
  <2> QED
    BY <2>1, <2>2
<1> HIDE DEF key, N, U
<1>5. key \in Seq(U) /\ DOMAIN key = 1 .. N
  <2>1. key \in [1 .. N -> U]
    BY <1>2, <1>4
  <2> QED
    BY <1>1, <2>1
<1>6. ASSUME NEW i \in 1 .. N
      PROVE  Fitting(key[i]) \in Words /\ Takes(Plain(key[i]), Fitting(key[i]))
  <2>1. Plain(key[i]) \in Pieces /\ Plain(key[i]).is # Unread
    BY <1>3, <1>4, <1>5 DEF Plain, Pieces, U
  <2>2. Param \notin Words
    BY RouteAssumption
  <2> QED
    BY <2>1, <2>2, BecomesAWord DEF Fitting
<1> QED
  BY <1>5, <1>6 DEF key, U

\* What takes an address, segment by segment.
LEMMA TakenInFull ==
    ASSUME NEW r \in Routes, WasRead(Key(r.path)), ~Contains(Key(r.path), Star),
           NEW address \in Seq(Words), Len(address) = Len(Key(r.path)),
           \A i \in 1 .. Len(address) : Takes(Plain(Key(r.path)[i]), address[i])
    PROVE  PathAnswers(AsWritten(Key(r.path)), address)
<1> DEFINE key == Key(r.path)
           N == Len(key)
           written == AsWritten(key)
<1>1. N \in Nat /\ DOMAIN key = 1 .. N
  BY KeyIsTaken
<1>2. /\ Len(written) = N /\ DOMAIN written = 1 .. N
      /\ \A i \in 1 .. N : written[i] = Plain(key[i])
  <2>1. written = [i \in 1 .. N |-> Plain(key[i])]
    BY <1>1 DEF AsWritten
  <2> HIDE DEF written, key, N
  <2> QED
    BY <1>1, <2>1
<1>3. WasRead(Key(written))
  <2>2. Key(written) = [i \in 1 .. N |-> key[i]]
    <3> HIDE DEF written, key, N
    <3> QED
      BY <1>2 DEF Key, Plain
  <2>3. key = [i \in 1 .. N |-> key[i]]
    <3>1. key \in Seq(Words \union Shapes \union {Param})
      BY KeyIsTaken
    <3> HIDE DEF key
    <3> QED
      BY <3>1
  <2>4. Key(written) = key
    BY <2>2, <2>3, Zenon
  <2> QED
    BY <2>4
<1>4. WasRead(address)
  <2>1. Unread \notin Words
    BY RouteAssumption
  <2> QED
    BY <2>1, WordsAreRead
<1>5. \A i \in 1 .. N : Takes(written[i], address[i])
  BY <1>2
<1> HIDE DEF written, key, N
<1>6. Len(address) = Len(written)
  BY <1>2 DEF key, N
<1>7. PathAnswers(written, address)
  BY <1>2, <1>3, <1>4, <1>5, <1>6 DEF PathAnswers
<1> QED
  BY <1>7 DEF written, key

\* A segment that agrees with the route's, or a word in place of a hole, is taken.
LEMMA AgreedIsTaken ==
    ASSUME NEW s \in Words \union Shapes \union {Param}, NEW asked \in Words \union {Param},
           SameSegment(s, asked)
    PROVE  LET w == Becomes(Plain(s), asked)
           IN  w \in Words /\ (asked \in Words => w = asked) /\ Takes(Plain(s), w)
<1>1. Plain(s) \in Pieces /\ Plain(s).is # Unread
  BY RouteAssumption DEF Plain, Pieces
<1>2. /\ Becomes(Plain(s), asked) \in Words
      /\ asked \in Words => Becomes(Plain(s), asked) = asked
      /\ asked \notin Words => Takes(Plain(s), Becomes(Plain(s), asked))
  BY <1>1, BecomesAWord
<1>3. ASSUME asked \in Words PROVE Takes(Plain(s), asked)
  <2>1. s = Param \/ (s = asked /\ s \in Words)
    BY <1>3, RouteAssumption DEF SameSegment, IsHole
  <2> QED
    BY <2>1 DEF Plain, Takes
<1> QED
  BY <1>2, <1>3

\* One edit of an address.
LEMMA EditedHas ==
    ASSUME NEW a, NEW x,
           \/ \E i \in DOMAIN a : x = RemoveAt(a, i)
           \/ \E i \in DOMAIN a, w \in Words : x = ReplaceAt(a, i, w)
           \/ \E i \in 1 .. Len(a) + 1, w \in Words : x = InsertAt(a, i, w)
    PROVE  x \in Edited(a)
<1>1. ASSUME \E i \in DOMAIN a : x = RemoveAt(a, i)
      PROVE  x \in {RemoveAt(a, i) : i \in DOMAIN a}
  BY <1>1, Zenon
<1>2. ASSUME \E i \in DOMAIN a, w \in Words : x = ReplaceAt(a, i, w)
      PROVE  x \in {ReplaceAt(a, i, w) : i \in DOMAIN a, w \in Words}
  BY <1>2, SMT
<1>3. ASSUME \E i \in 1 .. Len(a) + 1, w \in Words : x = InsertAt(a, i, w)
      PROVE  x \in {InsertAt(a, i, w) : i \in 1 .. Len(a) + 1, w \in Words}
  BY <1>3, SMT
<1> QED
  BY <1>1, <1>2, <1>3, SMT DEF Edited

\* With one segment changed.
LEMMA OneIsChanged ==
    ASSUME NEW r \in Routes, WasRead(Key(r.path)), ~Contains(Key(r.path), Star),
           NEW asked \in Seq(Words \union {Param}), Len(Key(r.path)) = Len(asked),
           Cardinality(Differ(Key(r.path), asked)) = 1
    PROVE  \E address \in Turns(asked) : \E edited \in Edited(address) :
               PathAnswers(AsWritten(Key(r.path)), edited)
<1> DEFINE ours == Key(r.path)
           N == Len(asked)
           U == Words \union Shapes \union {Param}
<1>1. /\ N \in Nat /\ ours \in Seq(U) /\ Len(ours) = N /\ DOMAIN ours = 1 .. N
      /\ \A i \in 1 .. N : /\ ours[i] \in U /\ asked[i] \in Words \union {Param}
                           /\ Fitting(ours[i]) \in Words /\ Takes(Plain(ours[i]), Fitting(ours[i]))
  BY KeyIsTaken
<1> HIDE DEF ours, N, U
<1>2. PICK d : Differ(ours, asked) = {d}
  <2>1. Differ(ours, asked) \subseteq 1 .. N
    BY <1>1 DEF Differ
  <2>2. IsFiniteSet(1 .. N)
    BY <1>1, FS_Interval
  <2>3. IsFiniteSet(Differ(ours, asked))
    BY <2>1, <2>2, FS_Subset
  <2>4. Cardinality(Differ(ours, asked)) = 1
    BY DEF ours
  <2> QED
    BY <2>3, <2>4, FS_Singleton
<1>3. d \in 1 .. N /\ \A i \in 1 .. N : i # d => SameSegment(ours[i], asked[i])
  BY <1>1, <1>2 DEF Differ
<1> DEFINE a == [i \in 1 .. N |-> Becomes(Plain(ours[i]), asked[i])]
<1>4. ASSUME NEW i \in 1 .. N
      PROVE  /\ a[i] \in Words /\ (asked[i] \in Words => a[i] = asked[i])
             /\ i # d => Takes(Plain(ours[i]), a[i])
  <2>1. Plain(ours[i]) \in Pieces /\ Plain(ours[i]).is # Unread
    BY <1>1, RouteAssumption DEF Plain, Pieces, U
  <2>2. a[i] \in Words /\ (asked[i] \in Words => a[i] = asked[i])
    BY <2>1, BecomesAWord
  <2>3. ASSUME i # d PROVE Takes(Plain(ours[i]), a[i])
    BY <1>1, <1>3, <2>3, AgreedIsTaken DEF U
  <2> QED
    BY <2>2, <2>3
<1>5. a \in Seq(Words) /\ Len(a) = N /\ DOMAIN a = 1 .. N
  <2>1. a \in [1 .. N -> Words]
    BY <1>4
  <2> HIDE DEF a
  <2> QED
    BY <1>1, <2>1
<1> HIDE DEF a
<1>6. a \in Turns(asked)
  BY <1>4, <1>5, HolesAreFilled DEF N
<1> DEFINE w == Fitting(ours[d])
           edited == ReplaceAt(a, d, w)
<1>11. w \in Words
  BY <1>1, <1>3
<1>7. edited \in Edited(a)
  <2> HIDE DEF w
  <2>1. \E i \in DOMAIN a, x \in Words : edited = ReplaceAt(a, i, x)
    BY <1>3, <1>5, <1>11
  <2> HIDE DEF edited
  <2> QED
    BY <2>1, EditedHas, Zenon
<1>8. /\ edited \in Seq(Words) /\ Len(edited) = N
      /\ \A i \in 1 .. N : edited[i] = IF i = d THEN w ELSE a[i]
  <2> HIDE DEF w
  <2> QED
    BY <1>3, <1>5, <1>11, ExceptSeq DEF ReplaceAt
<1> HIDE DEF edited
<1>9. \A i \in 1 .. N : Takes(Plain(ours[i]), edited[i])
  BY <1>1, <1>3, <1>4, <1>8
<1>10. PathAnswers(AsWritten(ours), edited)
  BY <1>1, <1>8, <1>9, TakenInFull DEF ours
<1> QED
  BY <1>6, <1>7, <1>10 DEF ours

\* With one segment added.
LEMMA OneIsAdded ==
    ASSUME NEW r \in Routes, WasRead(Key(r.path)), ~Contains(Key(r.path), Star),
           NEW asked \in Seq(Words \union {Param}),
           NEW k \in DOMAIN Key(r.path), Strictly(RemoveAt(Key(r.path), k), asked)
    PROVE  \E address \in Turns(asked) : \E edited \in Edited(address) :
               PathAnswers(AsWritten(Key(r.path)), edited)
<1> DEFINE ours == Key(r.path)
           N == Len(asked)
           U == Words \union Shapes \union {Param}
           less == RemoveAt(ours, k)
           M == Len(ours)
<1>1. /\ N \in Nat /\ ours \in Seq(U) /\ DOMAIN ours = 1 .. M /\ M \in Nat
      /\ \A i \in DOMAIN ours : /\ ours[i] \in U
                                /\ Fitting(ours[i]) \in Words /\ Takes(Plain(ours[i]), Fitting(ours[i]))
  <2>1. /\ N \in Nat /\ ours \in Seq(U)
        /\ \A i \in DOMAIN ours : Fitting(ours[i]) \in Words /\ Takes(Plain(ours[i]), Fitting(ours[i]))
    <3>1. N \in Nat
      OBVIOUS
    <3> QED
      BY <3>1, KeyIsTaken, Zenon
  <2> HIDE DEF ours, U
  <2> QED
    BY <2>1
<1>2. \A i \in 1 .. N : asked[i] \in Words \union {Param}
  OBVIOUS
<1>3. Strictly(less, asked) /\ k \in 1 .. M
  BY <1>1
<1> HIDE DEF ours, N, U
<1>4. /\ less \in Seq(U) /\ Len(less) = M - 1
      /\ \A i \in 1 .. M - 1 : less[i] = IF i < k THEN ours[i] ELSE ours[i + 1]
  BY <1>1, <1>3, RemovedIs
<1> HIDE DEF less, M
<1>5. /\ Len(less) = N /\ M = N + 1
      /\ \A i \in 1 .. N : less[i] \in U /\ SameSegment(less[i], asked[i])
  <2>1. Len(less) = N /\ DOMAIN less = 1 .. N
    BY <1>3, <1>4 DEF Strictly, N
  <2>2. \A i \in 1 .. N : IF IsHole(less[i]) THEN IsHole(asked[i]) ELSE asked[i] = less[i]
    BY <1>3, <2>1 DEF Strictly
  <2>3. M = N + 1
    BY <1>1, <1>4, <2>1
  <2> QED
    BY <1>4, <2>1, <2>2, <2>3 DEF SameSegment
<1> DEFINE a == [i \in 1 .. N |-> Becomes(Plain(less[i]), asked[i])]
<1>6. ASSUME NEW i \in 1 .. N
      PROVE  /\ a[i] \in Words /\ (asked[i] \in Words => a[i] = asked[i])
             /\ Takes(Plain(less[i]), a[i])
  BY <1>2, <1>5, AgreedIsTaken DEF U
<1>7. a \in Seq(Words) /\ Len(a) = N
  <2>1. a \in [1 .. N -> Words]
    BY <1>6
  <2> HIDE DEF a
  <2> QED
    BY <1>1, <2>1
<1> HIDE DEF a
<1>8. a \in Turns(asked)
  BY <1>6, <1>7, HolesAreFilled DEF N
<1> DEFINE w == Fitting(ours[k])
           edited == InsertAt(a, k, w)
<1>9. w \in Words /\ k \in 1 .. Len(a) + 1
  BY <1>1, <1>3, <1>5, <1>7
<1>10. edited \in Edited(a)
  <2> HIDE DEF w
  <2>1. \E i \in 1 .. Len(a) + 1, x \in Words : edited = InsertAt(a, i, x)
    BY <1>9
  <2> HIDE DEF edited
  <2> QED
    BY <2>1, EditedHas, Zenon
<1>11. /\ edited \in Seq(Words) /\ Len(edited) = N + 1
       /\ \A i \in 1 .. N + 1 : edited[i] = IF i < k THEN a[i] ELSE IF i = k THEN w ELSE a[i - 1]
  <2>1. edited = InsertAt(a, k, w)
    OBVIOUS
  <2> HIDE DEF w, edited
  <2>2. HasPutIn(edited, Words, a, k, w)
    BY <1>7, <1>9, <2>1, InsertedIs
  <2> QED
    BY <1>7, <2>2 DEF HasPutIn
<1> HIDE DEF edited
<1>12. ASSUME NEW i \in 1 .. N + 1 PROVE Takes(Plain(ours[i]), edited[i])
  <2>1. CASE i < k
    <3>1. i \in 1 .. N /\ less[i] = ours[i] /\ edited[i] = a[i]
      BY <1>1, <1>3, <1>4, <1>5, <1>11, <2>1
    <3> QED
      BY <1>6, <3>1
  <2>2. CASE i = k
    <3>1. edited[i] = w
      BY <1>11, <2>2
    <3>2. Takes(Plain(ours[k]), w)
      BY <1>1, <1>3
    <3> HIDE DEF w
    <3> QED
      BY <2>2, <3>1, <3>2
  <2>3. CASE i > k
    <3> DEFINE j == i - 1
    <3>1. j \in 1 .. N /\ ~(j < k) /\ j + 1 = i /\ ~(i < k) /\ i # k /\ j \in 1 .. M - 1
      BY <1>1, <1>3, <1>5, <2>3
    <3>2. edited[i] = a[j]
      BY <1>11, <3>1
    <3> HIDE DEF j
    <3>3. less[j] = ours[i]
      BY <1>4, <3>1
    <3> QED
      BY <1>6, <3>1, <3>2, <3>3
  <2> QED
    BY <1>1, <1>3, <2>1, <2>2, <2>3
<1>13. PathAnswers(AsWritten(ours), edited)
  BY <1>1, <1>5, <1>11, <1>12, TakenInFull DEF ours, M
<1> QED
  BY <1>8, <1>10, <1>13 DEF ours

\* With one segment left out.
LEMMA OneIsLeftOut ==
    ASSUME NEW r \in Routes, WasRead(Key(r.path)), ~Contains(Key(r.path), Star),
           NEW asked \in Seq(Words \union {Param}),
           NEW k \in DOMAIN asked, Strictly(Key(r.path), RemoveAt(asked, k))
    PROVE  \E address \in Turns(asked) : \E edited \in Edited(address) :
               PathAnswers(AsWritten(Key(r.path)), edited)
<1> DEFINE ours == Key(r.path)
           N == Len(asked)
           U == Words \union Shapes \union {Param}
           less == RemoveAt(asked, k)
<1>1. /\ ours \in Seq(U) /\ DOMAIN ours = 1 .. Len(ours) /\ Len(ours) \in Nat
      /\ \A i \in DOMAIN ours : ours[i] \in U
  BY KeyIsTaken
<1>2. N \in Nat /\ k \in 1 .. N /\ \A i \in 1 .. N : asked[i] \in Words \union {Param}
  OBVIOUS
<1>3. /\ less \in Seq(Words \union {Param}) /\ Len(less) = N - 1
      /\ \A i \in 1 .. N - 1 : less[i] = IF i < k THEN asked[i] ELSE asked[i + 1]
  BY <1>2, RemovedIs
<1> HIDE DEF ours, N, U, less
<1>4. /\ Len(ours) = N - 1
      /\ \A i \in 1 .. N - 1 : ours[i] \in U /\ SameSegment(ours[i], less[i])
  <2>1. Strictly(ours, less)
    BY DEF ours, less
  <2>2. Len(ours) = N - 1
    BY <1>3, <2>1 DEF Strictly
  <2>3. \A i \in 1 .. N - 1 : IF IsHole(ours[i]) THEN IsHole(less[i]) ELSE less[i] = ours[i]
    BY <1>1, <2>1, <2>2 DEF Strictly
  <2> QED
    BY <1>1, <2>2, <2>3 DEF SameSegment
<1> DEFINE \* Where each segment of the route is in the request.
           at(i) == IF i < k THEN i ELSE i - 1
<1>5. PICK v : v \in Words
  BY RouteAssumption
<1> DEFINE a == [i \in 1 .. N |->
                   IF i # k THEN Becomes(Plain(ours[at(i)]), asked[i])
                   ELSE IF asked[i] \in Words THEN asked[i] ELSE v]
<1>6. ASSUME NEW i \in 1 .. N, i # k
      PROVE  /\ at(i) \in 1 .. N - 1 /\ less[at(i)] = asked[i]
             /\ (IF at(i) < k THEN at(i) ELSE at(i) + 1) = i
  <2>1. CASE i < k
    BY <1>2, <1>3, <2>1
  <2>2. CASE ~(i < k)
    <3>1. i - 1 \in 1 .. N - 1 /\ ~(i - 1 < k) /\ (i - 1) + 1 = i
      BY <1>2, <1>6, <2>2
    <3> QED
      BY <1>3, <2>2, <3>1
  <2> QED
    BY <2>1, <2>2
<1> HIDE DEF at
<1>7. ASSUME NEW i \in 1 .. N
      PROVE  /\ a[i] \in Words /\ (asked[i] \in Words => a[i] = asked[i])
             /\ i # k => Takes(Plain(ours[at(i)]), a[i])
  <2>1. CASE i # k
    <3>1. at(i) \in 1 .. N - 1 /\ less[at(i)] = asked[i]
      BY <1>6, <2>1
    <3>2. ours[at(i)] \in U /\ SameSegment(ours[at(i)], asked[i]) /\ asked[i] \in Words \union {Param}
      BY <1>2, <1>4, <3>1
    <3>3. a[i] = Becomes(Plain(ours[at(i)]), asked[i])
      BY <2>1
    <3> HIDE DEF a
    <3> QED
      BY <3>2, <3>3, AgreedIsTaken DEF U
  <2>2. CASE i = k
    BY <1>5, <2>2
  <2> QED
    BY <2>1, <2>2
<1>8. a \in Seq(Words) /\ Len(a) = N /\ DOMAIN a = 1 .. N
  <2>1. a \in [1 .. N -> Words]
    BY <1>7
  <2> HIDE DEF a
  <2> QED
    BY <1>2, <2>1
<1> HIDE DEF a
<1>9. a \in Turns(asked)
  BY <1>7, <1>8, HolesAreFilled DEF N
<1> DEFINE edited == RemoveAt(a, k)
<1>10. edited \in Edited(a)
  <2>1. \E i \in DOMAIN a : edited = RemoveAt(a, i)
    BY <1>2, <1>8
  <2> HIDE DEF edited
  <2> QED
    BY <2>1, EditedHas, Zenon
<1>11. /\ edited \in Seq(Words) /\ Len(edited) = N - 1
       /\ \A i \in 1 .. N - 1 : edited[i] = IF i < k THEN a[i] ELSE a[i + 1]
  BY <1>2, <1>8, RemovedIs
<1> HIDE DEF edited
<1>12. ASSUME NEW i \in 1 .. N - 1 PROVE Takes(Plain(ours[i]), edited[i])
  <2>1. CASE i < k
    <3>1. i \in 1 .. N /\ i # k /\ at(i) = i /\ edited[i] = a[i]
      BY <1>2, <1>11, <2>1 DEF at
    <3> QED
      BY <1>7, <3>1
  <2>2. CASE ~(i < k)
    <3>1. i + 1 \in 1 .. N /\ i + 1 # k /\ at(i + 1) = i /\ edited[i] = a[i + 1]
      BY <1>2, <1>11, <2>2 DEF at
    <3> QED
      BY <1>7, <3>1
  <2> QED
    BY <2>1, <2>2
<1>13. PathAnswers(AsWritten(ours), edited)
  BY <1>1, <1>4, <1>11, <1>12, TakenInFull DEF ours
<1> QED
  BY <1>9, <1>10, <1>13 DEF ours

\* An address some of which was not read, and some of which was, has two segments.
LEMMA MoreThanUnread ==
    ASSUME NEW S, NEW address \in Seq(S), ~WasRead(address), SaysSomething(address)
    PROVE  Len(address) >= 2 /\ Len(address) \in Nat
<1>1. PICK i \in DOMAIN address : address[i] = Unread
  BY DEF WasRead, Contains
<1>2. PICK j \in DOMAIN address : address[j] \notin {Param, Unread}
  BY DEF SaysSomething
<1>3. i # j /\ i \in 1 .. Len(address) /\ j \in 1 .. Len(address) /\ Len(address) \in Nat
  BY <1>1, <1>2
<1> QED
  BY <1>3

\* What is asked of the bounds: a part nobody read may be long enough to make the
\* rest of any address.
SpansAreLongEnough ==
    /\ \A r \in Routes : Len(r.path) <= MaxSpan + 1
    /\ \A asked \in Requests : Len(asked.path) <= MaxSpan + 1

\* What is asked of the routes: where a part was not read, no hole has text around it.
HolesAreBare ==
    \A r \in Routes : ~WasRead(Key(r.path)) =>
        \A i \in DOMAIN r.path : r.path[i].is = Param => r.path[i].shape = Param

\* couldReach: the call reaches the route, if the rest of its address is right.
LEMMA NearMissesCan ==
    ASSUME SpansAreLongEnough, TypeOK, NEW r \in entries, CouldReach(partial, r)
    PROVE  \E address \in Turns(partial.path) :
               r \in Answers(entries, [partial EXCEPT !.path = address])
<1> DEFINE pattern == partial.path
           U == Words \union {Param, Unread}
<1>1. /\ r \in Routes /\ r.path \in Seq(Pieces) /\ Len(r.path) <= MaxSpan + 1
      /\ pattern \in Seq(U) /\ {"verb", "path"} \subseteq DOMAIN partial
  BY RouteAssumption DEF TypeOK, SpansAreLongEnough
<1>2. /\ ~r.contributes /\ WasRead(Key(r.path)) /\ MethodAnswers(r, partial.verb)
      /\ SaysSomething(pattern)
  BY DEF CouldReach
<1>3. SUFFICES \E address \in Turns(pattern) : Answering(r, address) # <<>>
  <2>1. PICK address \in Turns(pattern) : Answering(r, address) # <<>>
    BY <1>3
  <2> DEFINE asked == [partial EXCEPT !.path = address]
  <2>2. asked.path = address /\ asked.verb = partial.verb
    BY <1>1
  <2> HIDE DEF asked
  <2>3. r \in Answers(entries, asked)
    BY <1>2, <2>1, <2>2 DEF Answers
  <2> QED
    BY <2>3 DEF asked
<1>4. /\ Addresses(r) \subseteq Seq(Pieces)
      /\ \A path \in Addresses(r) : \A address :
             PathAnswers(path, address) => Answering(r, address) # <<>>
  <2>1. Addresses(r) \subseteq Seq(Pieces)
    BY <1>1, AnsweringIs
  <2>2. ASSUME NEW path \in Addresses(r), NEW address, PathAnswers(path, address)
        PROVE  Answering(r, address) # <<>>
    BY <1>1, <1>2, <2>2, AnsweringIs
  <2> QED
    BY <2>1, <2>2
<1> HIDE DEF pattern, U
<1>5. SUFFICES \E path \in Addresses(r) : \E address \in Turns(pattern) : PathAnswers(path, address)
  BY <1>4, <1>5
<1>6. CASE WasRead(pattern)
  <2>1. Answering(r, pattern) # <<>>
    BY <1>6 DEF CouldReach, pattern
  <2> DEFINE path == Head(Answering(r, pattern))
  <2>2. path \in Addresses(r) /\ PathAnswers(path, pattern)
    BY <1>1, <2>1, AnsweringIs
  <2>3. pattern \in Seq(Words \union {Param})
    <3>1. \A i \in 1 .. Len(pattern) : pattern[i] \in Words \union {Param}
      <4>1. \A i \in 1 .. Len(pattern) : pattern[i] \in U /\ pattern[i] # Unread
        BY <1>1, <1>6, WhatWasReadIs
      <4> QED
        BY <4>1 DEF U
    <3> QED
      BY <1>1, <3>1, SequenceOf
  <2> HIDE DEF path
  <2> QED
    BY <1>4, <2>2, <2>3, HolesAreTaken
<1>7. CASE ~WasRead(pattern)
  <2>1. PICK i \in DOMAIN Spellings(r.path) : Matches(Key(Spellings(r.path)[i]), pattern)
    BY <1>7 DEF CouldReach, pattern
  <2> DEFINE path == Spellings(r.path)[i]
             P == {p \in Pieces : p.is # Unread}
  <2>2. path \in Addresses(r)
    BY DEF Addresses
  <2>3. r.path \in Seq(P)
    <3>1. \A k \in 1 .. Len(r.path) : r.path[k] \in P
      <4>1. \A k \in 1 .. Len(r.path) : Key(r.path)[k] # Unread /\ Key(r.path)[k] = r.path[k].is
        BY <1>1, <1>2, WhatWasReadIs DEF Key
      <4>2. \A k \in 1 .. Len(r.path) : r.path[k] \in Pieces
        BY <1>1
      <4> QED
        BY <4>1, <4>2
    <3> HIDE DEF P
    <3> QED
      BY <1>1, <3>1, SequenceOf
  <2>4. path \in Seq(P) /\ Len(path) <= Len(r.path)
    <3>1. Spellings(r.path) \in Seq({q \in Seq(P) : Len(q) <= Len(r.path)})
      BY <2>3, SpellingsAre
    <3> HIDE DEF P
    <3> QED
      BY <3>1
  <2>5. WasRead(Key(path))
    <3>1. \A k \in 1 .. Len(path) : path[k] \in P
      BY <2>4
    <3> DEFINE key == Key(path)
    <3>2. key = [k \in 1 .. Len(path) |-> path[k].is] /\ Len(path) \in Nat
      BY <2>4 DEF Key
    <3>3. \A k \in 1 .. Len(path) : path[k].is # Unread
      BY <3>1
    <3> HIDE DEF key, path
    <3>4. WasRead(key)
      BY <3>2, <3>3 DEF WasRead, Contains
    <3> QED
      BY <3>4 DEF key
  <2>6. path \in Seq(Pieces)
    BY <1>4, <2>2
  <2>7. Len(path) <= MaxSpan + Len(pattern) - 1
    <3>1. Len(pattern) >= 2 /\ Len(pattern) \in Nat
      BY <1>1, <1>2, <1>7, MoreThanUnread
    <3>2. Len(path) \in Nat /\ Len(r.path) \in Nat /\ Len(path) <= Len(r.path)
      BY <1>1, <2>4, <2>6
    <3> HIDE DEF path
    <3> QED
      BY <1>1, <3>1, <3>2, RouteAssumption
  <2>8. Matches(Key(path), pattern)
    BY <2>1
  <2>9. pattern \in Seq(Words \union {Param, Unread})
    BY <1>1 DEF U
  <2> HIDE DEF path
  <2>10. \E a \in Turns(pattern) : PathAnswers(path, a)
    BY <2>5, <2>6, <2>7, <2>8, <2>9, ReachableIsReached
  <2> QED
    BY <2>2, <2>10
<1> QED
  BY <1>6, <1>7

\* behindUnread: the route would answer, with some text where none was read.
LEMMA BehindCan ==
    ASSUME SpansAreLongEnough, HolesAreBare, TypeOK,
           NEW r \in BehindUnread(entries, request), ~r.contributes
    PROVE  Answers(Filled(r), request) # {}
<1> DEFINE t == request.path
<1>1. /\ r \in Routes /\ r.path \in Seq(Pieces) /\ {"verb", "path", "contributes"} \subseteq DOMAIN r
      /\ t \in Seq(Words \union {Param}) /\ Len(t) <= MaxSpan + 1
  BY RouteAssumption DEF TypeOK, SpansAreLongEnough, BehindUnread
<1>2. /\ ~WasRead(Key(r.path)) /\ SaysSomething(Key(r.path)) /\ MethodAnswers(r, request.verb)
      /\ t \in Texts(Key(r.path), ToSet(t), Len(t))
  BY DEF BehindUnread, Matches
<1> HIDE DEF t
<1>3. Len(t) <= MaxSpan + Len(r.path) - 1 /\ Len(t) \in Nat
  <2>1. Len(Key(r.path)) = Len(r.path) /\ \E S : Key(r.path) \in Seq(S)
    <3> DEFINE key == Key(r.path)
               S == {r.path[k].is : k \in 1 .. Len(r.path)}
    <3>1. key = [k \in 1 .. Len(r.path) |-> r.path[k].is] /\ Len(r.path) \in Nat
      BY <1>1 DEF Key
    <3>2. key \in [1 .. Len(r.path) -> S]
      BY <3>1
    <3> HIDE DEF key, S
    <3>3. Len(key) = Len(r.path) /\ key \in Seq(S)
      BY <3>1, <3>2
    <3> QED
      BY <3>3 DEF key
  <2>2. Len(r.path) >= 2 /\ Len(r.path) \in Nat
    BY <1>2, <2>1, MoreThanUnread
  <2>3. Len(t) \in Nat
    BY <1>1
  <2> QED
    BY <1>1, <2>2, <2>3, RouteAssumption
<1>4. \A i \in DOMAIN r.path : r.path[i].is = Param => r.path[i].shape = Param
  BY <1>1, <1>2 DEF HolesAreBare
<1>5. PICK p \in Seq(Pieces) :
          /\ [r EXCEPT !.path = p] \in Filled(r)
          /\ Len(p) = Len(t)
          /\ \A i \in 1 .. Len(t) : p[i].is # Unread /\ Takes(p[i], t[i])
  BY <1>1, <1>2, <1>3, <1>4, FilledAddressTakes
<1>6. PathAnswers(p, t)
  <2>1. WasRead(t)
    <3>1. Unread \notin Words \union {Param}
      BY RouteAssumption
    <3> QED
      BY <1>1, <3>1, WordsAreRead
  <2>2. WasRead(Key(p))
    <3> DEFINE key == Key(p)
    <3>1. key = [k \in 1 .. Len(p) |-> p[k].is] /\ Len(p) \in Nat
      BY DEF Key
    <3> HIDE DEF key
    <3>2. WasRead(key)
      BY <1>5, <3>1 DEF WasRead, Contains
    <3> QED
      BY <3>2 DEF key
  <2>3. \A i \in DOMAIN p : Takes(p[i], t[i])
    BY <1>5
  <2> QED
    BY <1>5, <2>1, <2>2, <2>3 DEF PathAnswers
<1> DEFINE f == [r EXCEPT !.path = p]
<1>7. f.path = p /\ f.verb = r.verb /\ f.contributes = r.contributes /\ f \in Filled(r)
  BY <1>1, <1>5
<1> HIDE DEF f
<1>8. Answering(f, t) # <<>>
  <2>1. \E i \in DOMAIN Spellings(p) : Spellings(p)[i] = p
    <3>1. Pieces \in SUBSET Pieces
      OBVIOUS
    <3> QED
      BY <3>1, SpellingsAre
  <2>2. p \in Addresses(f)
    BY <1>7, <2>1 DEF Addresses
  <2> QED
    BY <1>6, <1>7, <2>2, AnsweringIs
<1>9. MethodAnswers(f, request.verb)
  BY <1>2, <1>7 DEF MethodAnswers
<1>10. f \in Answers(Filled(r), request)
  BY <1>7, <1>8, <1>9 DEF Answers, t
<1> QED
  BY <1>10

\* oneSegmentOff: the call with one segment changed, left out or added is taken.
LEMMA OneOffCan ==
    ASSUME TypeOK, NEW r \in entries, OneSegmentOff(request, r)
    PROVE  \E address \in Turns(request.path) : \E edited \in Edited(address) :
               PathAnswers(AsWritten(Key(r.path)), edited)
<1> DEFINE ours == Key(r.path)
           asked == request.path
<1>1. r \in Routes /\ asked \in Seq(Words \union {Param})
  BY RouteAssumption DEF TypeOK
<1>2. /\ WasRead(ours) /\ ~Contains(ours, Star)
      /\ \/ Len(ours) = Len(asked) /\ Cardinality(Differ(ours, asked)) = 1
         \/ \E i \in DOMAIN ours : Strictly(RemoveAt(ours, i), asked)
         \/ \E i \in DOMAIN asked : Strictly(ours, RemoveAt(asked, i))
  BY Zenon DEF OneSegmentOff
<1>3. CASE Len(ours) = Len(asked) /\ Cardinality(Differ(ours, asked)) = 1
  BY <1>1, <1>2, <1>3, OneIsChanged
<1>4. ASSUME NEW i \in DOMAIN ours, Strictly(RemoveAt(ours, i), asked)
      PROVE  \E address \in Turns(asked) : \E edited \in Edited(address) :
                 PathAnswers(AsWritten(ours), edited)
  BY <1>1, <1>2, <1>4, OneIsAdded
<1>5. ASSUME NEW i \in DOMAIN asked, Strictly(ours, RemoveAt(asked, i))
      PROVE  \E address \in Turns(asked) : \E edited \in Edited(address) :
                 PathAnswers(AsWritten(ours), edited)
  BY <1>1, <1>2, <1>5, OneIsLeftOut
<1> HIDE DEF ours, asked
<1> QED
  BY <1>2, <1>3, <1>4, <1>5 DEF ours, asked

\* What is said to be able to reach a route can (couldReach, behindUnread,
\* oneSegmentOff), for every set of routes and requests no longer than the texts
\* tried leave room for, where no hole beside a part nobody read has text around it,
\* which openShapeOf does not look at and a variation shows to be needed.
THEOREM WhatIsNamedIsReal ==
    ASSUME SpansAreLongEnough, HolesAreBare PROVE Spec => []WhatMightReachCan
<1>1. TypeOK => WhatMightReachCan
  <2> SUFFICES ASSUME TypeOK PROVE WhatMightReachCan
    OBVIOUS
  <2>1. NearMissesAreReal
    BY NearMissesCan DEF NearMissesAreReal
  <2>2. BehindIsPossible
    BY BehindCan DEF BehindIsPossible
  <2>3. OneOffIsOneEdit
    BY OneOffCan DEF OneOffIsOneEdit
  <2> QED
    BY <2>1, <2>2, <2>3 DEF WhatMightReachCan
<1>2. Spec => []Inv
  BY InitInv, NextInv, PTL DEF Spec
<1>3. Inv => TypeOK
  BY DEF Inv
<1> QED
  BY <1>1, <1>2, <1>3, PTL
=============================================================================
