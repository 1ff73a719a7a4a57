SPECIFICATION Spec
CONSTANTS
    get = get
    post = post
    blog = blog
    files = files
    price = price
    new = new
    foo1 = foo1
    fooShape = fooShape
    Words <- MCWords
    Shapes <- MCShapes
    Fits <- MCFits
    Param = Param
    Star = Star
    Unread = Unread
    Anything = Anything
    Nowhere = Nowhere
    Routes <- MCHolesBesideStar
    Requests <- MCRequests
    Partials <- MCOnePartial
    MaxRoutes = 3
    MaxSpan = 2
INVARIANT SpelledOutWins
CHECK_DEADLOCK FALSE
