SPECIFICATION Spec
CONSTANTS
    file1 = file1
    file2 = file2
    listener = listener
    Writers = {file1, file2, listener}
    Nobody = Nobody
    NoLock = NoLock
    Empty = Empty
    EmptyLooks = 1
    Additions <- MCAdditions
INVARIANTS OneWriterUnlessMistaken SavesAreKeptUnlessMistaken
PROPERTIES LockIsKeptUnlessMistaken EveryoneIsAnswered
CHECK_DEADLOCK FALSE
