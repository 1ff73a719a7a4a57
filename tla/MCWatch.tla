------------------------------- MODULE MCWatch -------------------------------
(***************************************************************************)
(* Watch for TLC: what the runs put for its constants.                     *)
(***************************************************************************)
EXTENDS Watch, TLC

CONSTANTS api, web

\* The configuration is broken, and mended with one repository less, or with
\* one more.
MCLess == 0 :> {api, web} @@ 1 :> {api, web} @@ 2 :> {web}
MCMore == 0 :> {api} @@ 1 :> {api} @@ 2 :> {api, web}
=============================================================================
