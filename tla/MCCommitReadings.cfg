SPECIFICATION Spec
CONSTANTS
    a = a
    b = b
    check = check
    diff = diff
    Tree = Tree
    NoCommit = NoCommit
    None = None
    Runs = {check, diff}
    Services = {a, b}
    RepoOf <- MCRepoOf
    Sides <- MCSides
    Strict = {check}
    Limit = 2
    FirstRefs <- MCFirstRefs
    FirstEntries <- MCFirstEntries
    MaxEvents = 1
INVARIANTS WhatIsBelievedIsOurs AnAnswerIsWhole NothingIsLeft
PROPERTIES EveryRunEnds
CHECK_DEADLOCK FALSE
