---------------------------- MODULE RunnerClient ----------------------------
(***************************************************************************)
(* The client of the STT runner (stt_client.py): RunnerClient.submit, wait *)
(* and transcribe, for one request id of a recording.  Two workers may be  *)
(* at it at once (module Worker: one was taken for dead), and a worker     *)
(* calls again with the same request id when the runner was out of reach.  *)
(*                                                                         *)
(* The runner is not in this repository.  As the client uses it, it knows  *)
(* one job per request id, is asked about it, and forgets it when it is    *)
(* restarted.  It may be slow without end.                                 *)
(*                                                                         *)
(* A request and its answer are two steps, so that time passes and the     *)
(* runner moves in between.  Time is counted per call, in ticks.           *)
(***************************************************************************)
EXTENDS Naturals

CONSTANTS
    Callers,        \* worker processes
    Timeout,        \* most ticks a call is granted (timeout_sec)
    MaxErrors,      \* failed polls in a row that a call survives (5 in the code)
    MaxResubmits,   \* max_resubmits
    MaxForgets      \* bound on restarts of the runner

ASSUME ConstantsOK ==
    /\ Timeout \in Nat /\ MaxErrors \in Nat
    /\ MaxResubmits \in Nat /\ MaxForgets \in Nat

VARIABLES
    job,        \* what the runner knows of the request
    starts,     \* how often the runner has begun to work on it
    forgets,    \* how often it was restarted and forgot it
    facts,      \* history: what has befallen the request (module RunnerCall)
    call        \* of each caller: where it stands, its local variables, its verdict

vars == <<job, starts, forgets, facts, call>>

Jobs == {"none", "running", "done", "error"}
Facts == {"done", "error", "refused", "outage", "forgot"}
Verdicts == {"done", "failed", "unavailable", "lost", "timedout", "aborted"}
Open == {"submit", "posting", "wait", "polling", "sleeping"}
Asking == {"wait", "polling", "sleeping"}

\* "forgotten" is history: restarts of the runner during the call, up to the
\* number that matters.
Calls == [pc: Open \cup {"idle", "ended"}, left: 0..Timeout, attempt: 0..MaxResubmits,
          errors: 0..MaxErrors, verdict: Verdicts \cup {"open"},
          forgotten: 0..(MaxResubmits + 1)]

NoCall == [pc |-> "idle", left |-> 0, attempt |-> 0, errors |-> 0,
           verdict |-> "open", forgotten |-> 0]

Init ==
    /\ job = "none" /\ starts = 0 /\ forgets = 0 /\ facts = {}
    /\ call = [c \in Callers |-> NoCall]

-----------------------------------------------------------------------------
(* The runner. *)

JobEnds ==
    /\ job = "running"
    /\ job' \in {"done", "error"}
    /\ facts' = facts \cup {job'}
    /\ UNCHANGED <<starts, forgets, call>>

Witness(k) ==
    IF k.pc \in Open /\ k.forgotten <= MaxResubmits
    THEN [k EXCEPT !.forgotten = k.forgotten + 1] ELSE k

Forget ==
    /\ job # "none" /\ forgets < MaxForgets
    /\ job' = "none" /\ forgets' = forgets + 1
    /\ facts' = facts \cup {"forgot"}
    /\ call' = [c \in Callers |-> Witness(call[c])]
    /\ UNCHANGED starts

\* Mutant: the submission carries no request id.
Accept_NoRequestId == job' = "running" /\ starts' = starts + 1

\* A submission under a request id the runner knows joins that job.
Accept ==
    /\ job' = IF job = "none" THEN "running" ELSE job
    /\ starts' = IF job = "none" THEN starts + 1 ELSE starts

-----------------------------------------------------------------------------
(* The client. *)

Goto(c, where) == call' = [call EXCEPT ![c].pc = where]

\* A return or an exception: the local variables are gone.
Over(v, n) == [pc |-> "ended", left |-> 0, attempt |-> 0, errors |-> 0,
               verdict |-> v, forgotten |-> n]

End(c, v) ==
    call' = [call EXCEPT ![c] = Over(v, call[c].forgotten)]

\* The worker calls for a request it drew, resumes, or had to put back.  The
\* time is what is left of job_timeout_sec since the first attempt.
Transcribe(c) ==
    /\ \/ call[c].pc = "idle"
       \/ call[c].pc = "ended" /\ call[c].verdict = "unavailable"
    /\ \E t \in 0..Timeout :
         call' = [call EXCEPT ![c] = [NoCall EXCEPT !.pc = "submit", !.left = t]]
    /\ UNCHANGED <<job, starts, forgets, facts>>

\* Mutant: every submission turns the clock back.
Submit_NewGrant(c) ==
    /\ call[c].pc = "submit"
    /\ IF call[c].left = 0
       THEN End(c, "timedout")
       ELSE call' = [call EXCEPT ![c].pc = "posting", ![c].left = Timeout]
    /\ UNCHANGED <<job, starts, forgets, facts>>

\* The head of the loop over the attempts.
Submit(c) ==
    /\ call[c].pc = "submit"
    /\ IF call[c].left = 0 THEN End(c, "timedout") ELSE Goto(c, "posting")
    /\ UNCHANGED <<job, starts, forgets, facts>>

Accepted(c) ==
    /\ call[c].pc = "posting"
    /\ Accept
    /\ call' = [call EXCEPT ![c].pc = "wait", ![c].errors = 0]
    /\ UNCHANGED <<forgets, facts>>

\* The connection fails or times out, before or after the runner took the job,
\* or the runner answers 5xx or 429.
PostFault(c) ==
    /\ call[c].pc = "posting"
    /\ Accept \/ UNCHANGED <<job, starts>>
    /\ facts' = facts \cup {"outage"}
    /\ End(c, "unavailable")
    /\ UNCHANGED forgets

\* Any other 4xx, to a submission or to a poll, or the answer of a runner that
\* does not know request ids.
Refused(c) ==
    /\ call[c].pc \in {"posting", "polling"}
    /\ facts' = facts \cup {"refused"}
    /\ End(c, "failed")
    /\ UNCHANGED <<job, starts, forgets>>

\* Mutant: polls go on past the deadline.
Ask_NoDeadline(c) ==
    /\ call[c].pc = "wait"
    /\ Goto(c, "polling")
    /\ UNCHANGED <<job, starts, forgets, facts>>

\* The head of the loop of wait.
Ask(c) ==
    /\ call[c].pc = "wait"
    /\ IF call[c].left = 0 THEN End(c, "timedout") ELSE Goto(c, "polling")
    /\ UNCHANGED <<job, starts, forgets, facts>>

\* Mutant: failed polls are counted, but nothing comes of it.
PollFault_NoLimit(c) ==
    /\ call[c].pc = "polling"
    /\ call' = [call EXCEPT ![c].pc = "sleeping", ![c].errors = call[c].errors + 1]
    /\ facts' = facts \cup {"outage"}
    /\ UNCHANGED <<job, starts, forgets>>

PollFault(c) ==
    /\ call[c].pc = "polling"
    /\ IF call[c].errors = MaxErrors
       THEN End(c, "unavailable")
       ELSE call' = [call EXCEPT ![c].pc = "sleeping", ![c].errors = call[c].errors + 1]
    /\ facts' = facts \cup {"outage"}
    /\ UNCHANGED <<job, starts, forgets>>

\* Mutant: one attempt short.
NotFound_OneShort(c) ==
    /\ call[c].pc = "polling" /\ job = "none"
    /\ IF call[c].attempt + 1 >= MaxResubmits
       THEN End(c, "lost")
       ELSE call' = [call EXCEPT ![c].pc = "submit", ![c].attempt = call[c].attempt + 1]
    /\ UNCHANGED <<job, starts, forgets, facts>>

\* 404: the job is lost and submitted again, if an attempt is left.
NotFound(c) ==
    /\ call[c].pc = "polling" /\ job = "none"
    /\ IF call[c].attempt = MaxResubmits
       THEN End(c, "lost")
       ELSE call' = [call EXCEPT ![c].pc = "submit", ![c].attempt = call[c].attempt + 1]
    /\ UNCHANGED <<job, starts, forgets, facts>>

Finished(c) ==
    /\ call[c].pc = "polling" /\ job \in {"done", "error"}
    /\ End(c, IF job = "done" THEN "done" ELSE "failed")
    /\ UNCHANGED <<job, starts, forgets, facts>>

\* on_progress may raise: the row it reports on was deleted (module Worker).
Progress(c) ==
    /\ call[c].pc = "polling" /\ job = "running"
    /\ \/ call' = [call EXCEPT ![c].pc = "sleeping", ![c].errors = 0]
       \/ End(c, "aborted")
    /\ UNCHANGED <<job, starts, forgets, facts>>

Wake(c) ==
    /\ call[c].pc = "sleeping"
    /\ Goto(c, "wait")
    /\ UNCHANGED <<job, starts, forgets, facts>>

Tick(c) ==
    /\ call[c].pc \in Open /\ call[c].left > 0
    /\ call' = [call EXCEPT ![c].left = call[c].left - 1]
    /\ UNCHANGED <<job, starts, forgets, facts>>

-----------------------------------------------------------------------------
ClientStep(c) ==
    \/ Submit(c) \/ Accepted(c) \/ PostFault(c) \/ Refused(c)
    \/ Ask(c) \/ PollFault(c) \/ NotFound(c) \/ Finished(c) \/ Progress(c) \/ Wake(c)

Next ==
    \/ JobEnds \/ Forget
    \/ \E c \in Callers : Transcribe(c) \/ ClientStep(c) \/ Tick(c)

Spec == Init /\ [][Next]_vars

\* A request ends in an answer or in its own timeout, a sleep ends, time passes.
\* That the runner ever finishes a job is not assumed.
FairSpec == Spec /\ \A c \in Callers : WF_vars(ClientStep(c)) /\ WF_vars(Tick(c))

-----------------------------------------------------------------------------
(* Properties. *)

\* Every variable has its type.
TypeOK ==
    /\ job \in Jobs /\ starts \in Nat /\ forgets \in Nat
    /\ facts \subseteq Facts
    /\ call \in [Callers -> Calls]

\* However many workers call, however often, and whatever answers get lost, the
\* runner works on a request once, and once more for each time it forgot it: no
\* resubmission buys the same transcription twice.
OneJob == starts <= 1 + forgets

\* A recording is not given up for a lost job before the runner was restarted
\* more often than max_resubmits while the call lasted.
Patient ==
    \A c \in Callers :
      call[c].pc = "ended" /\ call[c].verdict = "lost"
        => call[c].forgotten > MaxResubmits

\* What RunnerCall knows of a call.
Outcome(k) ==
    IF k.pc = "idle" THEN "idle" ELSE IF k.pc = "ended" THEN k.verdict ELSE "open"

RC == INSTANCE RunnerCall WITH
        state <- [c \in Callers |-> Outcome(call[c])],
        time <- [c \in Callers |-> call[c].left]

\* The client implements RunnerCall: one grant of time over all submissions, and
\* a verdict that something entitles it to.
IsCall == RC!Spec

\* Every call ends, although the runner may be silent, busy or restarted for ever:
\* a worker is never stuck in transcribe.
Ends == \A c \in Callers : call[c].pc \in Open ~> call[c].pc \notin Open
=============================================================================
