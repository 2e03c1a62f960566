------------------------------ MODULE MCQuota -------------------------------
(***************************************************************************)
(* Quota for TLC, in slices: uploads against the space there is; workers   *)
(* against the minutes; and the return of what is held back, the only one  *)
(* that is fair, with fewer recordings.                                    *)
(***************************************************************************)
EXTENDS Quota

CONSTANT FairRows

VARIABLE slice

MCInit ==
    /\ Init /\ slice \in {"space", "minutes", "return"} 
    /\ slice = "space" => quota = None
    /\ slice = "minutes" => quota = Limit

\* A file is as large as the slice needs.
Arriving ==
    \E r \in Recordings, d \in Durations, size \in Sizes :
        /\ Scan(r, d, size)
        /\ IF slice = "space" THEN d = 1 ELSE size = 1
        /\ slice = "minutes" => d # None
        /\ slice = "return" => r \in 1..FairRows
Sending ==
    \/ \E u \in Requests, file \in Files : UploadChecks(u, file) /\ file.duration = 1
    \/ \E u \in Requests, r \in Recordings : UploadCommits(u, r)
    \/ \E u \in Requests : UploadFails(u)

MCNext ==
    /\ UNCHANGED slice
    /\ \/ Arriving
       \/ Steering /\ (slice = "minutes" => quota' = quota)
       \/ slice = "space" /\ Sending
       \/ slice # "space" /\ (Working \/ Tick)
       \/ slice = "return" /\ Probing

MCSpec == MCInit /\ [][MCNext]_<<vars, slice>> /\ (slice # "space" => Fairness)
=============================================================================
