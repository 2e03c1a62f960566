---------------------------- MODULE MCFairQueue ----------------------------
(* FairQueue on small instances for TLC. *)
EXTENDS FairQueue

\* Recording 1 in workspace 1, recording 2 in workspace 2.
MCHome == <<1, 2>>
=============================================================================
