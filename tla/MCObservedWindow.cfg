\* Three trace files over three hours, read in any runs.
CONSTANTS
    Files = {1, 2, 3}
    LastHour = 2
    Slowest = 2
    PerEntry = 1
    Windows = {0}
SPECIFICATION WindowSpec
INVARIANTS CountsAreOneRuns FailingAreOneRuns
CHECK_DEADLOCK FALSE
