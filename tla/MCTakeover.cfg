\* A lock is unlinked by its path, whoever's it is by then: the second to find a
\* dead process's lock takes away the first's.
SPECIFICATION Spec
CONSTANTS
    file1 = file1
    file2 = file2
    listener = listener
    Writers = {file1, file2, listener}
    Nobody = Nobody
    NoLock = NoLock
    Empty = Empty
    EmptyLooks = 10
    Additions <- MCAdditions
INVARIANTS OneWriter
CHECK_DEADLOCK FALSE
