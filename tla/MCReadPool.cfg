\* Five repositories, three at a time: two jobs in flight when one fails, and
\* items left over that must not be started.
CONSTANTS
    Items <- MCItems
    Limit <- MCLimit
SPECIFICATION FairSpec
INVARIANTS
    PoolStaysFull
    NothingOutlivesThePool
    ThrowsTheFirstFailure
PROPERTIES
    PoolSettles
