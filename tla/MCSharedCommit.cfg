\* Two services of one repository share the directory of a commit.
SPECIFICATION Spec
CONSTANTS
    a = a
    b = b
    check = check
    diff = diff
    Tree = Tree
    NoCommit = NoCommit
    None = None
    Runs = {check, diff}
    Services = {a, b}
    RepoOf <- OneRepo
    Sides <- MCSides
    Strict = {check}
    Limit = 2
    FirstRefs <- OneFirstRefs
    FirstEntries <- NoEntries
    MaxEvents = 0
INVARIANTS WhatIsBelievedIsOurs
CHECK_DEADLOCK FALSE
