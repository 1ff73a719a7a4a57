---------------------------- MODULE MCRouteMatch ----------------------------
(***************************************************************************)
(* RouteMatch for TLC: addresses of up to three segments over four words,  *)
(* of which one fits the text around a name.                               *)
(***************************************************************************)
EXTENDS RouteMatch

CONSTANTS get, post, blog, files, price, new, foo1, fooShape

MCWords == {files, price, new, foo1}
MCShapes == {fooShape}
MCFits == [s \in MCShapes |-> {foo1}]

Route(verb, address, app) ==
    [verb |-> verb, path |-> AsWritten(address), app |-> app, mountEmpty |-> FALSE, contributes |-> FALSE]
Optional(segment) == [is |-> segment, shape |-> Param, optional |-> TRUE]
Shaped == [is |-> Param, shape |-> fooShape, optional |-> FALSE]

\* Routes none of which leaves open a segment that another spells out before
\* a wildcard.
MCRoutes ==
    {Route(get, <<files, new>>, Nowhere),
     Route(get, <<files, new>>, blog),
     Route(get, <<files, Param>>, Nowhere),
     Route(post, <<files, Param>>, Nowhere),
     Route(Anything, <<files, Param, price>>, blog),
     Route(get, <<files, Star>>, Nowhere),
     Route(Anything, <<Star>>, blog),
     Route(get, <<Param, price>>, Nowhere),
     Route(get, <<Unread, price>>, Nowhere),
     Route(get, <<files, Unread, Param>>, Nowhere),
     Route(get, <<files, fooShape>>, Nowhere),
     [Route(get, <<Unread, files, Param>>, Nowhere) EXCEPT !.mountEmpty = TRUE],
     [Route(get, <<files>>, Nowhere) EXCEPT !.path = <<Optional(Param)>> \o @],
     [Route(get, <<files>>, Nowhere) EXCEPT !.path = @ \o <<Shaped>>],
     [Route(get, <<files, Param>>, Nowhere) EXCEPT !.contributes = TRUE]}

\* A service one of whose routes is all holes beside a wildcard.
MCHolesBesideStar ==
    {Route(get, <<files, Star>>, Nowhere),
     Route(get, <<Param, Param>>, Nowhere),
     Route(get, <<Param, price, Star>>, Nowhere),
     Route(get, <<files, new>>, Nowhere)}

\* Those of a service whose addresses were read but for where it is mounted.
MCMounted ==
    {Route(get, <<Unread, files, Star>>, Nowhere),
     Route(get, <<Unread, price>>, Nowhere),
     Route(get, <<files, new>>, Nowhere)}

\* One that has text around a name, beneath what nobody read.
MCTextAroundAName ==
    {[Route(get, <<Unread, price>>, Nowhere) EXCEPT !.path = @ \o <<Shaped>>]}

Asked(verb, address, from) == [verb |-> verb, path |-> address, from |-> from]

MCRequests ==
    {Asked(get, <<files>>, Nowhere),
     Asked(get, <<files, new>>, Nowhere),
     Asked(get, <<files, new>>, blog),
     Asked(post, <<files, Param>>, Nowhere),
     Asked(get, <<files, foo1>>, Nowhere),
     Asked(get, <<files, new, price>>, Nowhere),
     Asked(get, <<files, price, price>>, blog),
     Asked(get, <<files, new, new>>, Nowhere),
     Asked(get, <<new, price>>, Nowhere),
     Asked(get, <<Param, price>>, Nowhere),
     Asked(get, <<new, files, foo1>>, Nowhere)}

MCPartials ==
    {Asked(get, <<files, Unread>>, Nowhere),
     Asked(Anything, <<files, Param, Unread>>, Nowhere),
     Asked(Anything, <<files, new>>, Nowhere),
     Asked(get, <<Unread, price>>, Nowhere),
     Asked(post, <<Unread, files, Unread>>, Nowhere)}

MCOnePartial == {Asked(get, <<files, new, Unread>>, Nowhere)}
=============================================================================
