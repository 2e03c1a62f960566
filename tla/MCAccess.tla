------------------------------ MODULE MCAccess ------------------------------
(***************************************************************************)
(* Access for TLC, in slices.  Sessions, shares and memberships meet only  *)
(* in the account, so that each is explored with everything that happens to*)
(* the account, and not with each other; a personal workspace may become   *)
(* the only one left, so that it is explored with the memberships.         *)
(***************************************************************************)
EXTENDS Access, TLC

VARIABLE slice

MCInit == Init /\ slice \in {"sessions", "shares", "workspaces"}

MCNext ==
    /\ UNCHANGED slice
    /\ \/ Reviews
       \/ slice = "sessions" /\ (Visits \/ \E s \in Sessions : SessionEnds(s))
       \/ slice = "shares" /\ Sharing
       \/ slice = "workspaces" /\ (Members \/ Library)

Symmetry ==
    Permutations(Requests) \cup Permutations(Sessions) \cup Permutations(Shares)

MCSpec == MCInit /\ [][MCNext]_<<vars, slice>>
=============================================================================
