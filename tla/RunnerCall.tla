----------------------------- MODULE RunnerCall -----------------------------
(***************************************************************************)
(* What RunnerClient.transcribe promises the worker: a call is granted a   *)
(* stretch of time that never grows, and its verdict is never made up.     *)
(* How often the client has to submit and to ask is not said here.         *)
(***************************************************************************)
EXTENDS Naturals

CONSTANTS Callers, Timeout

VARIABLES
    state,      \* of each caller: "idle", "open", or the verdict of its last call
    time,       \* what is left of the time the call was granted
    facts       \* what has befallen the request at the runner

vars == <<state, time, facts>>

Facts == {"done", "error", "refused", "outage", "forgot"}
Verdicts == {"done", "failed", "unavailable", "lost", "timedout", "aborted"}

\* What entitles a call to its verdict.  The worker's own progress hook may
\* abort a call at any time.
Entitled(v, left, known) ==
    CASE v = "done"        -> "done" \in known
      [] v = "failed"      -> known \cap {"error", "refused"} # {}
      [] v = "unavailable" -> "outage" \in known
      [] v = "lost"        -> "forgot" \in known
      [] v = "timedout"    -> left = 0
      [] v = "aborted"     -> TRUE

Init ==
    /\ state = [c \in Callers |-> "idle"]
    /\ time = [c \in Callers |-> 0]
    /\ facts = {}

\* A request that was merely out of reach may be called for again.
Open(c) ==
    /\ state[c] \in {"idle", "unavailable"}
    /\ state' = [state EXCEPT ![c] = "open"]
    /\ \E t \in 0..Timeout : time' = [time EXCEPT ![c] = t]
    /\ UNCHANGED facts

Pass(c) ==
    /\ state[c] = "open" /\ time[c] > 0
    /\ time' = [time EXCEPT ![c] = time[c] - 1]
    /\ UNCHANGED <<state, facts>>

End(c) ==
    /\ state[c] = "open"
    /\ facts' \in {facts \cup {f} : f \in Facts} \cup {facts}
    /\ \E v \in Verdicts :
         /\ Entitled(v, time[c], facts')
         /\ state' = [state EXCEPT ![c] = v]
    /\ time' = [time EXCEPT ![c] = 0]

Happen ==
    /\ \E f \in Facts : facts' = facts \cup {f}
    /\ UNCHANGED <<state, time>>

Next ==
    \/ Happen
    \/ \E c \in Callers : Open(c) \/ Pass(c) \/ End(c)

Spec == Init /\ [][Next]_vars
=============================================================================
