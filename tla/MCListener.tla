----------------------------- MODULE MCListener -----------------------------
EXTENDS Listener, TLC

CONSTANTS b1, b2, b3, t1, t2, t3

\* b1 and b2 have too many spans for the buffer, of two traces; b1 and b3 have
\* too many traces, of four spans.
MCCarries == (b1 :> <<t1, t2, t2>>) @@ (b2 :> <<t1, t1>>) @@ (b3 :> <<t3>>)
=============================================================================
