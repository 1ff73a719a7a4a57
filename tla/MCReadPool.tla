----------------------------- MODULE MCReadPool -----------------------------
(***************************************************************************)
(* ReadPool for TLC: five repositories, three read at a time, so that a    *)
(* job can fail while two others run and items are left nobody has taken.  *)
(***************************************************************************)
EXTENDS ReadPool

MCItems == 5
MCLimit == 3
=============================================================================
