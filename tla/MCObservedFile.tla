--------------------------- MODULE MCObservedFile ---------------------------
EXTENDS ObservedFile, TLC

CONSTANTS file1, file2, listener

\* Two `observe <files>`, and a listener that flushes twice.
MCAdditions == (file1 :> 1) @@ (file2 :> 1) @@ (listener :> 2)
=============================================================================
