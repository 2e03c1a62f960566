------------------------- MODULE RunnerClientProofs -------------------------
(***************************************************************************)
(* Proofs about RunnerClient for any number of callers, any grant of time  *)
(* and any limits of errors, resubmissions and restarts.                   *)
(*                                                                         *)
(* OneJob, Patient and the refinement rest on what the client cannot see:  *)
(* whether the runner still knows the job it is being asked about.         *)
(* ClientInv ties the counters and the history to that.                    *)
(***************************************************************************)
EXTENDS RunnerClient, TLAPS

\* A job the runner knows was begun once since it last forgot one, and one that
\* ended is on record.
JobInv ==
    /\ starts <= forgets + (IF job = "none" THEN 0 ELSE 1)
    /\ job \in {"done", "error"} => job \in facts

\* Each attempt that was used up, and each job that is gone while its caller is
\* still asking for it, was cost by a restart during the call.
CallOK(k, known, seen) ==
    /\ k.pc \in Open => k.attempt <= k.forgotten
    /\ k.pc \in Asking /\ known = "none" => k.attempt < k.forgotten /\ "forgot" \in seen
    /\ k.pc = "ended" /\ k.verdict = "lost" => k.forgotten > MaxResubmits

CallInv == \A c \in Callers : CallOK(call[c], job, facts)

ClientInv == TypeOK /\ JobInv /\ CallInv

\* A step that changes one call and makes the runner forget nothing.
Forward == /\ job' \in Jobs /\ starts' \in Nat /\ forgets' \in Nat /\ facts' \subseteq Facts
           /\ JobInv' /\ facts \subseteq facts' /\ (job' = "none" => job = "none")

-----------------------------------------------------------------------------
LEMMA CallTyped ==
    ASSUME ConstantsOK, TypeOK, NEW c \in Callers
    PROVE  /\ call[c] \in Calls
           /\ call[c].attempt \in Nat /\ call[c].forgotten \in 0..(MaxResubmits + 1)
           /\ call[c].left \in 0..Timeout /\ call[c].errors \in 0..MaxErrors
BY DEF TypeOK, Calls, ConstantsOK

LEMMA NoCallTyped == ASSUME ConstantsOK PROVE NoCall \in Calls
BY DEF ConstantsOK, NoCall, Calls, Open

LEMMA OneChanged ==
    ASSUME ClientInv, Forward, NEW c \in Callers, NEW k \in Calls,
           call' = [call EXCEPT ![c] = k], CallOK(k, job', facts')
    PROVE  ClientInv'
<1>1. call' \in [Callers -> Calls] /\ \A d \in Callers : call'[d] = IF d = c THEN k ELSE call[d]
  BY DEF ClientInv, TypeOK
<1>2. ASSUME NEW d \in Callers PROVE CallOK(call'[d], job', facts')
  <2>1. CASE d = c
    BY <2>1, <1>1 DEF CallOK
  <2>2. CASE d # c
    BY <2>2, <1>1 DEF CallOK, ClientInv, CallInv, Forward
  <2> QED BY <2>1, <2>2
<1> QED BY <1>1, <1>2 DEF ClientInv, TypeOK, CallInv, Forward

LEMMA Ended ==
    ASSUME ConstantsOK, NEW v \in Verdicts, NEW n \in 0..(MaxResubmits + 1)
    PROVE  Over(v, n) \in Calls
BY DEF Over, Calls, ConstantsOK

LEMMA Started ==
    ASSUME NEW r \in Calls, NEW n \in 0..Timeout
    PROVE  LET k == [r EXCEPT !.pc = "submit", !.left = n]
           IN  /\ k \in Calls /\ k.pc = "submit"
               /\ k.attempt = r.attempt /\ k.forgotten = r.forgotten
BY DEF Calls, Open

LEMMA EndKeeps ==
    ASSUME ConstantsOK, ClientInv, Forward, NEW c \in Callers, NEW v \in Verdicts, End(c, v),
           v = "lost" => call[c].forgotten > MaxResubmits
    PROVE  ClientInv'
<1> DEFINE k == Over(v, call[c].forgotten)
<1>1. k \in Calls
  BY CallTyped, Ended DEF ClientInv
<1>2. CallOK(k, job', facts')
  BY DEF Over, CallOK, Open, Asking
<1>3. call' = [call EXCEPT ![c] = k]
  BY DEF End
<1> HIDE DEF k
<1> QED BY <1>1, <1>2, <1>3, OneChanged

\* A call that goes on: its record is changed in one or two places.
LEMMA PcSet ==
    ASSUME NEW r \in Calls, NEW pc \in Open
    PROVE  [r EXCEPT !.pc = pc] \in Calls
BY DEF Calls

LEMMA ErrorsSet ==
    ASSUME NEW r \in Calls, NEW pc \in Open, NEW n \in 0..MaxErrors
    PROVE  [r EXCEPT !.pc = pc, !.errors = n] \in Calls
BY DEF Calls

LEMMA AttemptSet ==
    ASSUME NEW r \in Calls, NEW pc \in Open, NEW n \in 0..MaxResubmits
    PROVE  [r EXCEPT !.pc = pc, !.attempt = n] \in Calls
BY DEF Calls

LEMMA LeftSet ==
    ASSUME NEW r \in Calls, NEW n \in 0..Timeout
    PROVE  [r EXCEPT !.left = n] \in Calls
BY DEF Calls

-----------------------------------------------------------------------------
LEMMA InitKeeps == ASSUME ConstantsOK, Init PROVE ClientInv
BY NoCallTyped
   DEF Init, ClientInv, TypeOK, JobInv, CallInv, CallOK, Jobs, NoCall, Open, Asking

LEMMA JobEndsKeeps == ASSUME ClientInv, JobEnds PROVE ClientInv'
BY DEF JobEnds, ClientInv, TypeOK, JobInv, CallInv, CallOK, Jobs, Facts

LEMMA ForgetKeeps == ASSUME ConstantsOK, ClientInv, Forget PROVE ClientInv'
<1>1. call' \in [Callers -> Calls]
  BY DEF Forget, ClientInv, TypeOK, Witness, Calls, ConstantsOK
<1>2. JobInv'
  BY DEF Forget, ClientInv, TypeOK, JobInv
<1>3. ASSUME NEW c \in Callers PROVE CallOK(call'[c], job', facts')
  <2>1. call[c].attempt \in 0..MaxResubmits /\ call[c].forgotten \in Nat
    BY DEF ClientInv, TypeOK, Calls, ConstantsOK
  <2>2. /\ call'[c].pc = call[c].pc
        /\ call'[c].attempt = call[c].attempt
        /\ call'[c].verdict = call[c].verdict
        /\ call'[c].forgotten = IF call[c].pc \in Open /\ call[c].forgotten <= MaxResubmits
                                THEN call[c].forgotten + 1 ELSE call[c].forgotten
    BY DEF Forget, ClientInv, TypeOK, Witness, Calls
  <2> QED BY <2>1, <2>2 DEF Forget, ClientInv, CallInv, CallOK, Open, Asking, ConstantsOK
<1> QED
  BY <1>1, <1>2, <1>3 DEF ClientInv, TypeOK, CallInv, Forget, Jobs, Facts

LEMMA AcceptForward ==
    ASSUME ClientInv, Accept \/ UNCHANGED <<job, starts>>, UNCHANGED forgets,
           facts \subseteq facts', facts' \subseteq Facts
    PROVE  Forward
BY DEF Accept, ClientInv, TypeOK, JobInv, Jobs, Forward

LEMMA TranscribeKeeps ==
    ASSUME ConstantsOK, ClientInv, NEW c \in Callers, Transcribe(c) PROVE ClientInv'
<1>1. PICK t \in 0..Timeout :
        call' = [call EXCEPT ![c] = [NoCall EXCEPT !.pc = "submit", !.left = t]]
  BY DEF Transcribe
<1> DEFINE k == [NoCall EXCEPT !.pc = "submit", !.left = t]
<1>2. k \in Calls /\ k.pc = "submit" /\ k.attempt = 0 /\ k.forgotten = 0
  <2>1. NoCall.attempt = 0 /\ NoCall.forgotten = 0
    BY DEF NoCall
  <2> QED BY <2>1, NoCallTyped, Started
<1>3. CallOK(k, job', facts')
  BY <1>2 DEF CallOK, Open, Asking
<1>4. Forward
  BY DEF Transcribe, Forward, ClientInv, TypeOK, JobInv
<1> HIDE DEF k
<1> QED BY <1>1, <1>2, <1>3, <1>4, OneChanged DEF k

LEMMA ClientStepKeeps ==
    ASSUME ConstantsOK, ClientInv, NEW c \in Callers, ClientStep(c) PROVE ClientInv'
<1>a. TypeOK /\ CallOK(call[c], job, facts) /\ \A f \in Facts : facts \cup {f} \subseteq Facts
  BY DEF ClientInv, CallInv, TypeOK
<1>b. /\ call[c] \in Calls /\ call[c].errors \in 0..MaxErrors
      /\ call[c].attempt \in 0..MaxResubmits
      /\ call[c].pc \in Open
  BY <1>a, CallTyped
     DEF Calls, ClientStep, Submit, Accepted, PostFault, Refused, Ask, PollFault, NotFound,
         Finished, Progress, Wake, Open
<1>c. ASSUME UNCHANGED <<job, starts, forgets>>, facts \subseteq facts', facts' \subseteq Facts
      PROVE  Forward
  BY <1>c DEF Forward, ClientInv, TypeOK, JobInv
<1>d. ASSUME Forward, NEW pc \in Open, Goto(c, pc),
             pc \in Asking => call[c].pc \in Asking
      PROVE  ClientInv'
  <2> DEFINE k == [call[c] EXCEPT !.pc = pc]
  <2>1. k \in Calls /\ call' = [call EXCEPT ![c] = k]
    BY <1>b, <1>d, PcSet DEF Goto
  <2>2. k.pc = pc /\ k.attempt = call[c].attempt /\ k.forgotten = call[c].forgotten
    BY <2>1, <1>b DEF Calls
  <2>3. CallOK(k, job', facts')
    BY <1>a, <1>b, <1>d, <2>2 DEF CallOK, Open, Asking, Forward
  <2> HIDE DEF k
  <2> QED BY <1>d, <2>1, <2>3, OneChanged
<1>1. CASE Submit(c)
  <2>1. Forward
    BY <1>1, <1>a, <1>c DEF Submit, TypeOK
  <2>2. CASE End(c, "timedout")
    BY <2>1, <2>2, EndKeeps DEF Verdicts
  <2>3. CASE Goto(c, "posting")
    BY <1>1, <2>1, <2>3, <1>d DEF Submit, Open, Asking
  <2> QED BY <1>1, <2>2, <2>3 DEF Submit
<1>2. CASE Accepted(c)
  <2>1. Forward
    BY <1>2, <1>a, AcceptForward DEF Accepted, TypeOK
  <2> DEFINE k == [call[c] EXCEPT !.pc = "wait", !.errors = 0]
  <2>2. k \in Calls /\ call' = [call EXCEPT ![c] = k]
    <3>1. 0 \in 0..MaxErrors /\ "wait" \in Open
      BY DEF ConstantsOK, Open
    <3>2. k \in Calls
      BY <3>1, <1>b, ErrorsSet
    <3> QED BY <1>2, <1>a, <3>2 DEF Accepted, TypeOK
  <2>3. k.pc = "wait" /\ k.attempt = call[c].attempt /\ k.forgotten = call[c].forgotten
    BY <2>2, <1>b DEF Calls
  <2>4. CallOK(k, job', facts')
    BY <1>2, <1>a, <1>b, <2>3 DEF Accepted, Accept, CallOK
  <2> HIDE DEF k
  <2> QED BY <2>1, <2>2, <2>4, OneChanged
<1>3. CASE PostFault(c)
  <2>1. Forward
    BY <1>3, <1>a, AcceptForward DEF PostFault, Facts
  <2> QED BY <1>3, <2>1, EndKeeps DEF PostFault, Verdicts
<1>4. CASE Refused(c)
  <2>1. Forward
    BY <1>4, <1>a, <1>c DEF Refused, Facts
  <2> QED BY <1>4, <2>1, EndKeeps DEF Refused, Verdicts
<1>5. CASE Ask(c)
  <2>1. Forward
    BY <1>5, <1>a, <1>c DEF Ask, TypeOK
  <2>2. CASE End(c, "timedout")
    BY <2>1, <2>2, EndKeeps DEF Verdicts
  <2>3. CASE Goto(c, "polling")
    BY <1>5, <2>1, <2>3, <1>d DEF Ask, Open, Asking
  <2> QED BY <1>5, <2>2, <2>3 DEF Ask
<1>6. CASE PollFault(c)
  <2>1. Forward
    BY <1>6, <1>a, <1>c DEF PollFault, Facts
  <2>2. CASE End(c, "unavailable")
    BY <2>1, <2>2, EndKeeps DEF Verdicts
  <2>3. CASE /\ call[c].errors # MaxErrors
             /\ call' = [call EXCEPT ![c].pc = "sleeping", ![c].errors = call[c].errors + 1]
    <3>1. call[c].errors + 1 \in 0..MaxErrors
      BY <1>b, <2>3 DEF ConstantsOK
    <3> DEFINE k == [call[c] EXCEPT !.pc = "sleeping", !.errors = call[c].errors + 1]
    <3>2. k \in Calls /\ call' = [call EXCEPT ![c] = k]
      BY <1>b, <2>3, <3>1, ErrorsSet DEF Open
    <3>3. k.pc = "sleeping" /\ k.attempt = call[c].attempt /\ k.forgotten = call[c].forgotten
      BY <3>2, <1>b DEF Calls
    <3>4. CallOK(k, job', facts')
      BY <1>6, <1>a, <1>b, <3>3, <2>1 DEF PollFault, CallOK, Asking, Forward
    <3> HIDE DEF k
    <3> QED BY <2>1, <3>2, <3>4, OneChanged
  <2> QED BY <1>6, <2>2, <2>3 DEF PollFault
<1>7. CASE NotFound(c)
  <2>1. Forward
    BY <1>7, <1>a, <1>c DEF NotFound, TypeOK
  <2>2. call[c].attempt < call[c].forgotten
    BY <1>7, <1>a DEF NotFound, CallOK, Asking
  <2>3. CASE call[c].attempt = MaxResubmits /\ End(c, "lost")
    BY <2>1, <2>2, <2>3, EndKeeps DEF Verdicts
  <2>4. CASE /\ call[c].attempt # MaxResubmits
             /\ call' = [call EXCEPT ![c].pc = "submit", ![c].attempt = call[c].attempt + 1]
    <3>1. call[c].attempt + 1 \in 0..MaxResubmits
      BY <1>b, <2>4 DEF ConstantsOK
    <3>2. call[c].attempt + 1 <= call[c].forgotten
      BY <1>a, <2>2, CallTyped DEF ConstantsOK
    <3> DEFINE k == [call[c] EXCEPT !.pc = "submit", !.attempt = call[c].attempt + 1]
    <3>3. k \in Calls /\ call' = [call EXCEPT ![c] = k]
      BY <1>b, <2>4, <3>1, AttemptSet DEF Open
    <3>4. /\ k.pc = "submit" /\ k.attempt = call[c].attempt + 1
          /\ k.forgotten = call[c].forgotten
      BY <3>3, <1>b DEF Calls
    <3>5. CallOK(k, job', facts')
      BY <3>2, <3>4 DEF CallOK, Asking
    <3> HIDE DEF k
    <3> QED BY <2>1, <3>3, <3>5, OneChanged
  <2> QED BY <1>7, <2>3, <2>4 DEF NotFound
<1>8. CASE Finished(c)
  <2>1. Forward
    BY <1>8, <1>a, <1>c DEF Finished, TypeOK
  <2> QED BY <1>8, <2>1, EndKeeps DEF Finished, Verdicts
<1>9. CASE Progress(c)
  <2>1. Forward
    BY <1>9, <1>a, <1>c DEF Progress, TypeOK
  <2>2. CASE End(c, "aborted")
    BY <2>1, <2>2, EndKeeps DEF Verdicts
  <2>3. CASE call' = [call EXCEPT ![c].pc = "sleeping", ![c].errors = 0]
    <3> DEFINE k == [call[c] EXCEPT !.pc = "sleeping", !.errors = 0]
    <3>1. k \in Calls /\ call' = [call EXCEPT ![c] = k]
      <4>1. 0 \in 0..MaxErrors /\ "sleeping" \in Open
        BY DEF ConstantsOK, Open
      <4>2. k \in Calls
        BY <4>1, <1>b, ErrorsSet
      <4> QED BY <2>3, <1>a, <4>2 DEF TypeOK
    <3>2. k.pc = "sleeping" /\ k.attempt = call[c].attempt /\ k.forgotten = call[c].forgotten
      BY <3>1, <1>b DEF Calls
    <3>3. CallOK(k, job', facts')
      BY <1>9, <1>a, <1>b, <3>2, <2>1 DEF Progress, CallOK, Asking, Forward
    <3> HIDE DEF k
    <3> QED BY <2>1, <3>1, <3>3, OneChanged
  <2> QED BY <1>9, <2>2, <2>3 DEF Progress
<1>10. CASE Wake(c)
  <2>1. Forward
    BY <1>10, <1>a, <1>c DEF Wake, TypeOK
  <2> QED BY <1>10, <2>1, <1>d DEF Wake, Open, Asking
<1> QED BY <1>1, <1>2, <1>3, <1>4, <1>5, <1>6, <1>7, <1>8, <1>9, <1>10 DEF ClientStep

LEMMA TickKeeps ==
    ASSUME ConstantsOK, ClientInv, NEW c \in Callers, Tick(c) PROVE ClientInv'
<1>1. call[c].left - 1 \in 0..Timeout
  BY CallTyped DEF Tick, ClientInv, ConstantsOK
<1> DEFINE k == [call[c] EXCEPT !.left = call[c].left - 1]
<1>2. k \in Calls /\ call' = [call EXCEPT ![c] = k]
  BY <1>1, CallTyped, LeftSet DEF Tick, ClientInv
<1>3. /\ k.pc = call[c].pc /\ k.attempt = call[c].attempt
      /\ k.forgotten = call[c].forgotten /\ k.verdict = call[c].verdict
  BY <1>2, CallTyped DEF ClientInv, Calls
<1>4. CallOK(k, job', facts')
  BY <1>3 DEF Tick, ClientInv, CallInv, CallOK
<1>5. Forward
  BY DEF Tick, Forward, ClientInv, TypeOK, JobInv
<1> HIDE DEF k
<1> QED BY <1>2, <1>4, <1>5, OneChanged

LEMMA NextKeeps == ASSUME ConstantsOK, ClientInv, [Next]_vars PROVE ClientInv'
<1>1. CASE UNCHANGED vars
  BY <1>1 DEF vars, ClientInv, TypeOK, JobInv, CallInv, CallOK
<1> QED
  BY <1>1, JobEndsKeeps, ForgetKeeps, TranscribeKeeps, ClientStepKeeps, TickKeeps DEF Next

-----------------------------------------------------------------------------
\* The inductive invariant holds in every reachable state.
THEOREM ClientCorrect == Spec => []ClientInv
<1>1. Init => ClientInv
  BY ConstantsOK, InitKeeps
<1>2. ClientInv /\ [Next]_vars => ClientInv'
  BY ConstantsOK, NextKeeps
<1> QED BY <1>1, <1>2, PTL DEF Spec

\* Every variable keeps its type.
THEOREM TypeCorrect == Spec => []TypeOK
<1>1. ClientInv => TypeOK
  BY DEF ClientInv
<1> QED BY <1>1, ClientCorrect, PTL

\* The runner works on a request once, and once more per restart, whatever the
\* number of workers and calls.
THEOREM OneJobPerRestart == Spec => []OneJob
<1>1. ClientInv => OneJob
  BY DEF ClientInv, JobInv, OneJob, TypeOK
<1> QED BY <1>1, ClientCorrect, PTL

\* A call reports its job lost only after more than max_resubmits restarts.
THEOREM LostOnlyByRestarts == Spec => []Patient
<1>1. ClientInv => Patient
  BY DEF ClientInv, CallInv, CallOK, Patient
<1> QED BY <1>1, ClientCorrect, PTL

-----------------------------------------------------------------------------
(* The client implements RunnerCall. *)

\* What a step of one call is in RunnerCall: nothing, if the call stays open and
\* the clock stands still.
LEMMA MappedGoesOn ==
    ASSUME ClientInv, NEW c \in Callers, NEW k \in Calls, call' = [call EXCEPT ![c] = k],
           call[c].pc \in Open, k.pc \in Open, k.left = call[c].left,
           \E f \in Facts : facts' \in {facts, facts \cup {f}}
    PROVE  [RC!Next]_(RC!vars)
<1>1. \A d \in Callers : Outcome(call'[d]) = Outcome(call[d]) /\ call'[d].left = call[d].left
  BY DEF ClientInv, TypeOK, Outcome, Open
<1>2. CASE facts' = facts
  BY <1>1, <1>2 DEF RC!vars
<1>3. CASE \E f \in Facts : facts' = facts \cup {f}
  BY <1>1, <1>3 DEF RC!Next, RC!Happen, RC!Facts, Facts
<1> QED BY <1>2, <1>3

LEMMA MappedEnd ==
    ASSUME ClientInv, NEW c \in Callers, NEW v \in Verdicts, End(c, v), call[c].pc \in Open,
           \E f \in Facts : facts' \in {facts, facts \cup {f}},
           RC!Entitled(v, call[c].left, facts')
    PROVE  RC!Next
<1> DEFINE state == [d \in Callers |-> Outcome(call[d])]
           time == [d \in Callers |-> call[d].left]
<1>1. \A d \in Callers : call'[d] = IF d = c THEN Over(v, call[c].forgotten) ELSE call[d]
  BY DEF End, ClientInv, TypeOK
<1>2. Over(v, call[c].forgotten).left = 0 /\ Outcome(Over(v, call[c].forgotten)) = v
  BY DEF Over, Outcome
<1>3. state' = [state EXCEPT ![c] = v] /\ time' = [time EXCEPT ![c] = 0]
  BY <1>1, <1>2
<1>4. state[c] = "open" /\ time[c] = call[c].left
  BY DEF Outcome, Open
<1>5. v \in RC!Verdicts /\ facts' \in {facts \cup {f} : f \in RC!Facts} \cup {facts}
  BY DEF Verdicts, RC!Verdicts, Facts, RC!Facts
<1> HIDE DEF state, time
<1>6. RC!End(c)
  BY <1>3, <1>4, <1>5 DEF RC!End, state, time
<1> QED BY <1>6 DEF RC!Next

LEMMA MappedStep ==
    ASSUME ConstantsOK, ClientInv, NEW c \in Callers, ClientStep(c)
    PROVE  [RC!Next]_(RC!vars)
<1> USE DEF Verdicts
<1>a. call[c] \in Calls /\ call \in [Callers -> Calls] /\ call[c].pc \in Open
  BY DEF ClientInv, TypeOK, Calls, ClientStep, Submit, Accepted, PostFault, Refused, Ask,
         PollFault, NotFound, Finished, Progress, Wake, Open
<1>b. ASSUME NEW pc \in Open, Goto(c, pc), UNCHANGED facts PROVE [RC!Next]_(RC!vars)
  <2> DEFINE k == [call[c] EXCEPT !.pc = pc]
  <2>1. k \in Calls /\ k.pc \in Open /\ k.left = call[c].left /\ call' = [call EXCEPT ![c] = k]
    BY <1>a, <1>b, PcSet DEF Goto, Calls
  <2>2. \E f \in Facts : facts' \in {facts, facts \cup {f}}
    BY <1>b DEF Facts
  <2> HIDE DEF k
  <2> QED BY <1>a, <2>1, <2>2, MappedGoesOn
<1>c. ASSUME NEW pc \in Open, NEW n \in 0..MaxErrors,
             call' = [call EXCEPT ![c].pc = pc, ![c].errors = n],
             \E f \in Facts : facts' \in {facts, facts \cup {f}}
      PROVE  [RC!Next]_(RC!vars)
  <2> DEFINE k == [call[c] EXCEPT !.pc = pc, !.errors = n]
  <2>1. k \in Calls
    BY <1>a, ErrorsSet
  <2>2. k.pc \in Open /\ k.left = call[c].left /\ call' = [call EXCEPT ![c] = k]
    BY <1>a, <1>c DEF Calls
  <2> HIDE DEF k
  <2> QED BY <1>a, <1>c, <2>1, <2>2, MappedGoesOn
<1>1. CASE Submit(c)
  <2>1. CASE call[c].left = 0 /\ End(c, "timedout")
    BY <1>1, <1>a, <2>1, MappedEnd DEF Submit, RC!Entitled, Facts
  <2> QED BY <1>1, <1>b, <2>1 DEF Submit, Open
<1>2. CASE Accepted(c)
  <2>1. 0 \in 0..MaxErrors /\ "wait" \in Open /\ \E f \in Facts : facts \in {facts, facts \cup {f}}
    BY DEF ConstantsOK, Open, Facts
  <2> QED BY <1>2, <1>c, <2>1 DEF Accepted
<1>3. CASE PostFault(c)
  <2>1. "outage" \in facts' /\ \E f \in Facts : facts' \in {facts, facts \cup {f}}
    BY <1>3 DEF PostFault, Facts
  <2> QED BY <1>3, <1>a, <2>1, MappedEnd DEF PostFault, RC!Entitled
<1>4. CASE Refused(c)
  <2>1. "refused" \in facts' /\ \E f \in Facts : facts' \in {facts, facts \cup {f}}
    BY <1>4 DEF Refused, Facts
  <2> QED BY <1>4, <1>a, <2>1, MappedEnd DEF Refused, RC!Entitled
<1>5. CASE Ask(c)
  <2>1. CASE call[c].left = 0 /\ End(c, "timedout")
    BY <1>5, <1>a, <2>1, MappedEnd DEF Ask, RC!Entitled, Facts
  <2> QED BY <1>5, <1>b, <2>1 DEF Ask, Open
<1>6. CASE PollFault(c)
  <2>1. "outage" \in facts' /\ \E f \in Facts : facts' \in {facts, facts \cup {f}}
    BY <1>6 DEF PollFault, Facts
  <2>2. CASE End(c, "unavailable")
    BY <1>a, <2>1, <2>2, MappedEnd DEF RC!Entitled
  <2>3. CASE /\ call[c].errors # MaxErrors
             /\ call' = [call EXCEPT ![c].pc = "sleeping", ![c].errors = call[c].errors + 1]
    <3>1. call[c].errors + 1 \in 0..MaxErrors
      BY <1>a, <2>3 DEF Calls, ConstantsOK
    <3> QED BY <1>c, <2>1, <2>3, <3>1 DEF Open
  <2> QED BY <1>6, <2>2, <2>3 DEF PollFault
<1>7. CASE NotFound(c)
  <2>1. "forgot" \in facts /\ \E f \in Facts : facts' \in {facts, facts \cup {f}}
    BY <1>7 DEF NotFound, ClientInv, CallInv, CallOK, Asking, Facts
  <2>2. CASE End(c, "lost")
    BY <1>7, <1>a, <2>1, <2>2, MappedEnd DEF NotFound, RC!Entitled
  <2>3. CASE /\ call[c].attempt # MaxResubmits
             /\ call' = [call EXCEPT ![c].pc = "submit", ![c].attempt = call[c].attempt + 1]
    <3> DEFINE k == [call[c] EXCEPT !.pc = "submit", !.attempt = call[c].attempt + 1]
    <3>1. call[c].attempt + 1 \in 0..MaxResubmits /\ "submit" \in Open
      BY <1>a, <2>3 DEF Calls, ConstantsOK, Open
    <3>2. k \in Calls
      BY <1>a, <3>1, AttemptSet
    <3>3. k.pc \in Open /\ k.left = call[c].left /\ call' = [call EXCEPT ![c] = k]
      BY <1>a, <2>3, <3>1 DEF Calls
    <3> HIDE DEF k
    <3> QED BY <1>a, <2>1, <3>2, <3>3, MappedGoesOn
  <2> QED BY <1>7, <2>2, <2>3 DEF NotFound
<1>8. CASE Finished(c)
  <2>1. job \in facts /\ \E f \in Facts : facts' \in {facts, facts \cup {f}}
    BY <1>8 DEF Finished, ClientInv, JobInv, Facts
  <2>2. CASE job = "done"
    BY <1>8, <1>a, <2>1, <2>2, MappedEnd DEF Finished, RC!Entitled
  <2>3. CASE job = "error"
    BY <1>8, <1>a, <2>1, <2>3, MappedEnd DEF Finished, RC!Entitled
  <2> QED BY <1>8, <2>2, <2>3 DEF Finished
<1>9. CASE Progress(c)
  <2>1. 0 \in 0..MaxErrors /\ "sleeping" \in Open /\ UNCHANGED facts
        /\ \E f \in Facts : facts' \in {facts, facts \cup {f}}
    BY <1>9 DEF ConstantsOK, Open, Progress, Facts
  <2>2. CASE End(c, "aborted")
    BY <1>a, <2>1, <2>2, MappedEnd DEF RC!Entitled
  <2> QED BY <1>9, <1>c, <2>1, <2>2 DEF Progress
<1>10. CASE Wake(c)
  BY <1>10, <1>b DEF Wake, Open
<1> QED BY <1>1, <1>2, <1>3, <1>4, <1>5, <1>6, <1>7, <1>8, <1>9, <1>10 DEF ClientStep

LEMMA MappedTranscribe ==
    ASSUME ConstantsOK, ClientInv, NEW c \in Callers, Transcribe(c) PROVE RC!Next
<1> DEFINE state == [d \in Callers |-> Outcome(call[d])]
           time == [d \in Callers |-> call[d].left]
<1>1. PICK t \in 0..Timeout :
        call' = [call EXCEPT ![c] = [NoCall EXCEPT !.pc = "submit", !.left = t]]
  BY DEF Transcribe
<1>2. PICK k \in Calls : /\ k.pc = "submit" /\ k.left = t
                         /\ call' = [call EXCEPT ![c] = k]
  <2> DEFINE e == [NoCall EXCEPT !.pc = "submit", !.left = t]
  <2>1. e \in Calls
    BY NoCallTyped, Started
  <2>2. e.pc = "submit" /\ e.left = t
    BY NoCallTyped DEF Calls
  <2>3. call' = [call EXCEPT ![c] = e]
    BY <1>1
  <2> HIDE DEF e
  <2> QED BY <2>1, <2>2, <2>3
<1>3. \A d \in Callers : call'[d] = IF d = c THEN k ELSE call[d]
  BY <1>2 DEF ClientInv, TypeOK
<1>4. state' = [state EXCEPT ![c] = "open"] /\ time' = [time EXCEPT ![c] = t]
  <2>1. Outcome(k) = "open" /\ k.left = t
    BY <1>2 DEF Outcome
  <2>2. state' = [state EXCEPT ![c] = "open"]
    BY <1>3, <2>1
  <2>3. time' = [time EXCEPT ![c] = t]
    BY <1>3, <2>1
  <2> QED BY <2>2, <2>3
<1>5. state[c] \in {"idle", "unavailable"} /\ facts' = facts
  BY DEF Transcribe, Outcome
<1> HIDE DEF state, time
<1>6. RC!Open(c)
  BY <1>4, <1>5 DEF RC!Open, state, time
<1> QED BY <1>6 DEF RC!Next

LEMMA MappedTick ==
    ASSUME ConstantsOK, ClientInv, NEW c \in Callers, Tick(c) PROVE RC!Next
<1> DEFINE state == [d \in Callers |-> Outcome(call[d])]
           time == [d \in Callers |-> call[d].left]
           k == [call[c] EXCEPT !.left = call[c].left - 1]
<1>1. /\ k.pc = call[c].pc /\ k.left = call[c].left - 1 /\ k.verdict = call[c].verdict
      /\ \A d \in Callers : call'[d] = IF d = c THEN k ELSE call[d]
  BY DEF Tick, ClientInv, TypeOK, Calls
<1> HIDE DEF k
<1>2. state' = state /\ time' = [time EXCEPT ![c] = time[c] - 1]
  BY <1>1 DEF Outcome
<1>3. state[c] = "open" /\ time[c] > 0 /\ facts' = facts
  BY DEF Tick, Outcome, Open
<1> HIDE DEF state, time
<1>4. RC!Pass(c)
  BY <1>2, <1>3 DEF RC!Pass, state, time
<1> QED BY <1>4 DEF RC!Next

LEMMA MappedRunner ==
    ASSUME ConstantsOK, ClientInv, JobEnds \/ Forget PROVE [RC!Next]_(RC!vars)
<1>1. \A c \in Callers : call'[c].left = call[c].left /\ Outcome(call'[c]) = Outcome(call[c])
  BY DEF JobEnds, Forget, Witness, ClientInv, TypeOK, Calls, Outcome
<1>2. \E f \in Facts : facts' = facts \cup {f}
  BY DEF JobEnds, Forget, Facts
<1> QED BY <1>1, <1>2 DEF RC!Next, RC!Happen, RC!Facts, Facts

\* The client, with its submissions, polls and sleeps, implements the abstract
\* call (safety; that every call ends is checked with TLC).
THEOREM Implements == Spec => IsCall
<1>1. Init => RC!Init
  BY DEF Init, RC!Init, NoCall, Outcome
<1>2. ClientInv /\ [Next]_vars => [RC!Next]_(RC!vars)
  <2>1. CASE UNCHANGED vars
    BY <2>1 DEF vars, RC!vars
  <2>2. ASSUME ClientInv, Next PROVE [RC!Next]_(RC!vars)
    BY <2>2, ConstantsOK, MappedRunner, MappedTranscribe, MappedStep, MappedTick DEF Next
  <2> QED BY <2>1, <2>2
<1> QED BY <1>1, <1>2, ClientCorrect, PTL DEF Spec, IsCall, RC!Spec
=============================================================================
