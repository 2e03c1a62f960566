----------------------------- MODULE WorkQueue -----------------------------
(***************************************************************************)
(* What claim_next promises to the rest of the worker: a queue from which  *)
(* each waiting recording goes to one worker, which keeps it until it is   *)
(* through with it.  Which recording comes next is not said here.          *)
(***************************************************************************)
CONSTANTS Recordings, Workers, None

VARIABLES
    waiting,    \* the recordings that may be taken
    holder      \* what each worker holds

vars == <<waiting, holder>>

Init ==
    /\ waiting \in SUBSET Recordings
    /\ holder = [w \in Workers |-> None]

Held(r) == \E w \in Workers : holder[w] = r

\* A recording is registered, retried, released or recovered, but never while a
\* worker has it.
Offer(r) ==
    /\ ~Held(r)
    /\ waiting' = waiting \cup {r}
    /\ UNCHANGED holder

\* A recording is deleted or archived before its turn.
Withdraw(r) ==
    /\ waiting' = waiting \ {r}
    /\ UNCHANGED holder

Take(w) ==
    /\ holder[w] = None
    /\ \E r \in waiting :
         /\ waiting' = waiting \ {r}
         /\ holder' = [holder EXCEPT ![w] = r]

\* The worker is through with its recording, which may have to wait again.
Release(w) ==
    /\ holder[w] # None
    /\ holder' = [holder EXCEPT ![w] = None]
    /\ waiting' \in {waiting, waiting \cup {holder[w]}}

Next ==
    \/ \E r \in Recordings : Offer(r) \/ Withdraw(r)
    \/ \E w \in Workers : Take(w) \/ Release(w)

Spec == Init /\ [][Next]_vars
=============================================================================
