\* Sources are saved, a repository comes and goes, the configuration is broken
\* and mended with a repository less, and opening a repository may throw.
CONSTANTS
    api = api
    web = web
    Services = {api, web}
    Named <- MCLess
    Loads = {0, 2}
    LastSave = 1
    MayLeave = {web}
    LeavesEarly = FALSE
    MayThrow = TRUE
SPECIFICATION FairSpec
INVARIANTS
    UpToDateWhenSettled
    PresentMeansWatched
    SessionsFollowTheConfiguration
    NoEditIsForgotten
PROPERTIES
    NothingBeginsOnceClosed
    ComesToRest
CHECK_DEADLOCK FALSE
