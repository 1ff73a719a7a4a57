----------------------------- MODULE RouteMatch -----------------------------
(***************************************************************************)
(* Which route of a service a request reaches, and which it might:         *)
(* packages/linker/src/route-match.ts.                                     *)
(*                                                                         *)
(* The routes of a service are found one after another; one request whose  *)
(* address was read in full, and one whose address was read in part, are   *)
(* asked of those found so far.                                            *)
(*                                                                         *)
(* An address is a sequence of segments.  A word stands for its spellings  *)
(* in any case.  A part nobody read begins and ends at a separator.        *)
(***************************************************************************)
EXTENDS Integers, FiniteSets, SequencesExt

CONSTANTS
    Words,      \* what a segment may be
    Shapes,     \* names with literal text around them: foo-:id
    Fits,       \* the words a shape takes
    Param,      \* a segment any one value fills
    Star,       \* what takes everything below it
    Unread,     \* text nobody has seen, of one segment or more
    Anything,   \* a verb: every one, of a route; unread, of a request
    Nowhere,    \* no application
    Routes,     \* the routes there may be
    Requests,   \* the requests there may be, read in full
    Partials,   \* those read in part
    MaxRoutes,  \* bounds the routes of a service
    MaxSpan     \* bounds the segments a part nobody read stands for

\* A piece of a route's address: the segment of its key, the shape of the path
\* as written, and whether that may be left out.
Pieces == [is : Words \union Shapes \union {Param, Star, Unread},
           shape : Shapes \union {Param}, optional : BOOLEAN]

\* The piece written as its own segment, which is not left out.
Plain(segment) == [is |-> segment, shape |-> Param, optional |-> FALSE]

\* Text around a name leaves room for a value, so some word fits it.
ASSUME RouteAssumption ==
    /\ Fits \in [Shapes -> (SUBSET Words) \ {{}}]
    /\ Words # {} /\ Words \intersect (Shapes \union {Param, Star, Unread}) = {}
    /\ Shapes \intersect {Param, Star, Unread} = {}
    /\ Param # Star /\ Param # Unread /\ Star # Unread
    /\ \A r \in Routes :
           r.path \in Seq(Pieces) /\ {"verb", "path", "contributes"} \subseteq DOMAIN r
    /\ \A asked \in Requests : asked.path \in Seq(Words \union {Param})
    /\ \A asked \in Partials :
           asked.path \in Seq(Words \union {Param, Unread}) /\ {"verb", "path"} \subseteq DOMAIN asked
    /\ MaxRoutes \in Nat /\ MaxSpan \in Nat

VARIABLES
    entries,    \* the routes found
    request,    \* a request read in full
    partial     \* a request of which only a part was read

vars == <<entries, request, partial>>

-----------------------------------------------------------------------------
(***************************************************************************)
(* Whether a route answers.                                                *)
(***************************************************************************)

Key(path) == [i \in DOMAIN path |-> path[i].is]
AsWritten(address) == [i \in DOMAIN address |-> Plain(address[i])]
WasRead(address) == ~Contains(address, Unread)

\* Whether a piece of a route takes the segment asked for.
Takes(piece, asked) ==
    \/ piece.is = Star
    \/ piece.is = Param /\ (piece.shape = Param \/ asked \in Fits[piece.shape])
    \/ piece.is \in Shapes /\ asked \in Fits[piece.is]
    \/ piece.is \in Words /\ asked = piece.is

EndsInStar(path) == path # <<>> /\ path[Len(path)].is = Star

PathAnswers(path, asked) ==
    /\ WasRead(Key(path)) /\ WasRead(asked)
    /\ \/ Len(asked) = Len(path)
       \/ EndsInStar(path) /\ Len(asked) >= Len(path)
    /\ \A i \in DOMAIN path : Takes(path[i], asked[i])

\* Each address so far with one more piece; and without, if that may be left out.
Longer(spellings, piece) ==
    [i \in DOMAIN spellings |->
        IF piece.optional THEN <<Append(spellings[i], piece), spellings[i]>>
        ELSE <<Append(spellings[i], piece)>>]

\* The addresses a route answers on: with and without what may be left out.
Spellings(path) ==
    LET spellings[n \in 0 .. Len(path)] ==
            IF n = 0 THEN << <<>> >> ELSE FlattenSeq(Longer(spellings[n - 1], path[n]))
    IN  spellings[Len(path)]

\* Where the deployment mounts the service, read from settings that every
\* environment file leaves empty, is taken as empty: only at the front.
Assumed(route) ==
    /\ route.mountEmpty
    /\ route.path # <<>> /\ Head(route.path).is = Unread
    /\ WasRead(Key(Tail(route.path)))

\* The address a route answers on, if any: the first that does.
Answering(route, asked) ==
    IF route.contributes THEN <<>>
    ELSE LET spellings == Spellings(route.path)
             taking == {i \in DOMAIN spellings : PathAnswers(spellings[i], asked)}
             rest == AsWritten(Tail(Key(route.path)))
         IN  IF taking # {} THEN <<spellings[Min(taking)]>>
             ELSE IF Assumed(route) /\ PathAnswers(rest, asked) THEN <<rest>> ELSE <<>>

MethodAnswers(route, verb) == route.verb = Anything \/ verb = Anything \/ route.verb = verb

-----------------------------------------------------------------------------
(***************************************************************************)
(* The one that is chosen.                                                 *)
(***************************************************************************)

CountOf(path, segment) == Cardinality({i \in DOMAIN path : path[i].is = segment})

\* Mutation of Specificity: holes counted before wildcards.
HolesFirst(path) ==
    <<CountOf(path, Param), CountOf(path, Star), CountOf(path, Star) + CountOf(path, Param) - Len(path)>>

\* Wildcards, then holes, then what is spelled out.
Specificity(path) ==
    <<CountOf(path, Star), CountOf(path, Param), CountOf(path, Star) + CountOf(path, Param) - Len(path)>>

MoreSpecific(a, b) ==
    \E i \in DOMAIN a : a[i] < b[i] /\ \A j \in 1 .. i - 1 : a[j] = b[j]

Answers(routes, asked) ==
    {r \in routes : MethodAnswers(r, asked.verb) /\ Answering(r, asked.path) # <<>>}

\* Mutation of Pool: one route of one's own is taken for none.
PoolOfMany(routes, asked) ==
    LET answering == Answers(routes, asked)
        own == {r \in answering : asked.from # Nowhere /\ r.app = asked.from}
    IN  IF Cardinality(own) <= 1 THEN answering ELSE own

\* A request written inside an application means that application's address.
Pool(routes, asked) ==
    LET answering == Answers(routes, asked)
        own == {r \in answering : asked.from # Nowhere /\ r.app = asked.from}
    IN  IF own = {} THEN answering ELSE own

Best(routes, asked) ==
    LET pool == Pool(routes, asked)
        Rank(r) == Specificity(Head(Answering(r, asked.path)))
    IN  {r \in pool : \A o \in pool : ~MoreSpecific(Rank(o), Rank(r))}

\* The route, all those it could be when it is ambiguous, or none.
MatchRoute(routes, asked) ==
    IF Cardinality(Best(routes, asked)) > 1 THEN Pool(routes, asked) ELSE Best(routes, asked)

-----------------------------------------------------------------------------
(***************************************************************************)
(* Those that might.                                                       *)
(***************************************************************************)

\* What a segment of a pattern stands for, made of the segments given: a hole is
\* one of them, what nobody read is one or more.
Stands(s, segments, longest) ==
    IF s = Unread THEN UNION {[1 .. n -> segments] : n \in 1 .. longest}
    ELSE IF s = Param THEN {<<t>> : t \in segments}
    ELSE {<<s>>}

\* The texts a pattern matches.
Texts(pattern, segments, longest) ==
    LET texts[n \in 0 .. Len(pattern)] ==
            IF n = 0 THEN {<<>>}
            ELSE {t \o more : t \in texts[n - 1], more \in Stands(pattern[n], segments, longest)}
    IN  texts[Len(pattern)]

Matches(text, pattern) == text \in Texts(pattern, ToSet(text), Len(text))

SaysSomething(address) == \E i \in DOMAIN address : address[i] \notin {Param, Unread}

\* The routes that would answer if the part of their address nobody read were
\* left open.
BehindUnread(routes, asked) ==
    {r \in routes :
        /\ ~WasRead(Key(r.path))
        /\ SaysSomething(Key(r.path))
        /\ MethodAnswers(r, asked.verb)
        /\ Matches(asked.path, Key(r.path))}

\* Mutation of CouldReach: the verb is not asked.
AnyVerb(asked, route) ==
    /\ ~route.contributes /\ WasRead(Key(route.path)) /\ SaysSomething(asked.path)
    /\ \E i \in DOMAIN Spellings(route.path) : Matches(Key(Spellings(route.path)[i]), asked.path)

\* Whether a request whose address was read in part could reach a route.
CouldReach(asked, route) ==
    /\ ~route.contributes
    /\ WasRead(Key(route.path))
    /\ MethodAnswers(route, asked.verb)
    /\ SaysSomething(asked.path)
    /\ IF WasRead(asked.path) THEN Answering(route, asked.path) # <<>>
       ELSE \E i \in DOMAIN Spellings(route.path) :
                Matches(Key(Spellings(route.path)[i]), asked.path)

IsHole(segment) == segment \in {Param, Star}
SameSegment(s, t) == IsHole(s) \/ IsHole(t) \/ s = t
Strictly(route, asked) ==
    /\ Len(route) = Len(asked)
    /\ \A i \in DOMAIN route : IF IsHole(route[i]) THEN IsHole(asked[i]) ELSE asked[i] = route[i]

Differ(route, asked) == {i \in DOMAIN route : ~SameSegment(route[i], asked[i])}

\* Whether a request that found no route differs from this one by one segment.
OneSegmentOff(asked, route) ==
    LET ours == Key(route.path)
    IN  /\ WasRead(ours) /\ WasRead(asked.path)
        /\ MethodAnswers(route, asked.verb)
        /\ ~PathAnswers(AsWritten(ours), asked.path)
        /\ ~Contains(ours, Star)
        /\ \/ Len(ours) = Len(asked.path) /\ Cardinality(Differ(ours, asked.path)) = 1
           \/ \E i \in DOMAIN ours : Strictly(RemoveAt(ours, i), asked.path)
           \/ \E i \in DOMAIN asked.path : Strictly(ours, RemoveAt(asked.path, i))

-----------------------------------------------------------------------------
Init ==
    /\ entries = {}
    /\ request \in Requests
    /\ partial \in Partials

Find(route) ==
    /\ Cardinality(entries) < MaxRoutes
    /\ route \notin entries
    /\ entries' = entries \union {route}
    /\ UNCHANGED <<request, partial>>

Next == \E route \in Routes : Find(route)

Spec == Init /\ [][Next]_vars

-----------------------------------------------------------------------------
(***************************************************************************)
(* Properties.                                                             *)
(***************************************************************************)

\* What is found stays within its bounds.
TypeOK ==
    /\ entries \subseteq Routes /\ Cardinality(entries) <= MaxRoutes
    /\ request \in Requests /\ partial \in Partials

\* Pairs of a segment of each of two addresses that answer one request; below
\* the end of one, its wildcard goes on.
Segment(path, i) == IF i <= Len(path) THEN path[i].is ELSE Star
Beside(path, other) ==
    {<<Segment(path, i), Segment(other, i)>> : i \in 1 .. (Len(path) + Len(other))}
Open(segment) == segment \in {Param, Star}

\* "When two routes answer and one spells out a segment the other leaves open,
\* the spelled-out one wins", where the other spells out none that it leaves open.
SpelledOutWins ==
    \A r \in MatchRoute(entries, request), o \in Pool(entries, request) :
        MatchRoute(entries, request) = {r} =>
            LET beside == Beside(Head(Answering(r, request.path)), Head(Answering(o, request.path)))
            IN  (\E p \in beside : Open(p[1]) /\ ~Open(p[2])) =>
                    \E p \in beside : ~Open(p[1]) /\ Open(p[2])

\* A route that is found takes a request over, makes it ambiguous or leaves it
\* where it was: no route found later ever moves an edge to one found before.
EdgesMoveToTheNewRoute ==
    [][LET was == MatchRoute(entries, request)
           is == MatchRoute(entries', request)
       IN  Cardinality(is) = 1 => is = was \/ is \subseteq entries' \ entries]_vars

\* What an address read in part may turn out to be.
Turns(address) == Texts(address, Words, MaxSpan)

\* A request named as one that could reach a route would, if the rest of it
\* were right: a route is never held alive by a call that cannot be to it.
NearMissesAreReal ==
    \A r \in entries : CouldReach(partial, r) =>
        \E address \in Turns(partial.path) : r \in Answers(entries, [partial EXCEPT !.path = address])

\* "nothing in the graph reaches it and nothing that could is unread": a route
\* no call could reach is reached by none, whatever the rest of its address.
NearMissesAreAll ==
    \A r \in entries :
        SaysSomething(partial.path) /\ WasRead(Key(r.path)) /\ ~CouldReach(partial, r) =>
            \A address \in Turns(partial.path) : r \notin Answers(entries, [partial EXCEPT !.path = address])

\* A route with the parts of its address nobody read filled in, by words and holes.
Fillings(piece) ==
    IF piece.is = Unread
        THEN UNION {[1 .. n -> {Plain(s) : s \in Words \union {Param}}] : n \in 1 .. MaxSpan}
    ELSE {<<piece>>}
Filled(route) ==
    LET paths[n \in 0 .. Len(route.path)] ==
            IF n = 0 THEN {<<>>}
            ELSE {path \o more : path \in paths[n - 1], more \in Fillings(route.path[n])}
    IN  {[route EXCEPT !.path = path] : path \in paths[Len(route.path)]}

\* A route that answers by itself and is said to be behind a part nobody read
\* would answer, with the right text there.
BehindIsPossible ==
    \A r \in BehindUnread(entries, request) : ~r.contributes => Answers(Filled(r), request) # {}

\* "Routes that would answer this request if the part of their address nobody
\* read were left open": all of them.
BehindIsAll ==
    \A r \in entries :
        ~WasRead(Key(r.path)) /\ SaysSomething(Key(r.path)) /\ Answers(Filled(r), request) # {} =>
            r \in BehindUnread(entries, request)

\* A call one segment off a route is one: with one of its segments changed, left
\* out or added, the address in its key takes it.
Edited(address) ==
    {RemoveAt(address, i) : i \in DOMAIN address}
    \union {ReplaceAt(address, i, w) : i \in DOMAIN address, w \in Words}
    \union {InsertAt(address, i, w) : i \in 1 .. Len(address) + 1, w \in Words}
OneOffIsOneEdit ==
    \A r \in entries : OneSegmentOff(request, r) =>
        \E address \in Turns(request.path) : \E edited \in Edited(address) :
            PathAnswers(AsWritten(Key(r.path)), edited)

\* What is said to be able to reach a route can, with some text where none was
\* read: couldReach, behindUnread and oneSegmentOff.
WhatMightReachCan == NearMissesAreReal /\ BehindIsPossible /\ OneOffIsOneEdit
=============================================================================
