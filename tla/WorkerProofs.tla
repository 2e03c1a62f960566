---------------------------- MODULE WorkerProofs ----------------------------
(***************************************************************************)
(* Theorems about Worker for every number of rows, workers and requests,   *)
(* and for all bounds on faults and edits.                                 *)
(***************************************************************************)
EXTENDS Worker, TLAPS

-----------------------------------------------------------------------------
(* Types of what the actions write. *)

LEMMA ResumedStatus ==
    \A r, transcribed, summarised :
        ResumeStatus(r, transcribed, summarised) \in Statuses
BY DEF ResumeStatus, EnrichWaiting, Statuses

LEMMA ConstantTypes ==
    /\ NewRow \in Row /\ Unregistered \in Row
    /\ NoJob \in Locals
    /\ NoSnap \in Snapshots
<1>1. NewRow \in Row /\ Unregistered \in Row
  BY DEF NewRow, Unregistered, Row, Statuses, Errors
<1>2. NoJob \in Locals /\ NoSnap \in Snapshots
  BY DEF NoJob, Locals, NoSnap, Snapshots
<1>3. QED
  BY <1>1, <1>2

LEMMA WrittenType ==
    ASSUME TypeOK, NEW r \in Recordings, NEW s \in Statuses
    PROVE  Written(r, s) \in Row
BY DEF Written, TypeOK, Row

\* One row replaced in the table; an index outside the table replaces nothing.
LEMMA PutType ==
    ASSUME TypeOK, NEW r, NEW new, r \in Recordings => new \in Row
    PROVE  [row EXCEPT ![r] = new] \in [Recordings -> Row]
BY DEF TypeOK

-----------------------------------------------------------------------------
(* No step writes anything but rows into the table. *)

LEMMA RowType == TypeOK /\ [Next]_vars => row' \in [Recordings -> Row]
<1> SUFFICES ASSUME TypeOK, [Next]_vars PROVE row' \in [Recordings -> Row]
  OBVIOUS
<1>1. ASSUME NEW w \in Workers,
             \/ RecoverSelect(w) \/ ReleaseSelect(w) \/ NothingToDo(w) \/ Submit(w)
             \/ BeatOnDeleted(w) \/ BillDeleted(w) \/ Superseded(w) \/ FailDeleted(w)
             \/ ReadCurrent(w) \/ EnrichDeleted(w) \/ Crash(w) \/ LoseDatabase(w)
      PROVE row' \in [Recordings -> Row]
  BY <1>1 DEF TypeOK, RecoverSelect, ReleaseSelect, NothingToDo, Submit, BeatOnDeleted,
              BillDeleted, Superseded, FailDeleted, ReadCurrent, EnrichDeleted, Crash, LoseDatabase
<1>2. ASSUME NEW w \in Workers, RecoverWrite(w) PROVE row' \in [Recordings -> Row]
  BY <1>2, WrittenType, ResumedStatus DEF TypeOK, RecoverWrite
<1>3. ASSUME NEW w \in Workers, RequeueUnenriched(w) PROVE row' \in [Recordings -> Row]
  <2>1. EnrichWaiting \in Statuses
    BY DEF EnrichWaiting, Statuses
  <2>2. QED
    BY <1>3, <2>1, WrittenType DEF TypeOK, RequeueUnenriched
<1>4. ASSUME NEW w \in Workers, ReleaseWrite(w) PROVE row' \in [Recordings -> Row]
  BY <1>4, WrittenType, ResumedStatus DEF TypeOK, ReleaseWrite, Resumed
<1>5. ASSUME NEW w \in Workers, NEW r \in Recordings, ClaimTranscription(w, r)
      PROVE row' \in [Recordings -> Row]
  <2>1. PICK q \in Requests :
           row' = [row EXCEPT ![r] = [Written(r, "transcribing") EXCEPT !.request = q]]
    BY <1>5 DEF ClaimTranscription, RequestFor, Unused, TypeOK, Row
  <2>2. Written(r, "transcribing") \in Row
    BY WrittenType DEF Statuses
  <2>3. [Written(r, "transcribing") EXCEPT !.request = q] \in Row
    BY <2>2 DEF Row
  <2>4. QED
    BY <2>1, <2>3, PutType
<1>6. ASSUME NEW w \in Workers, NEW r \in Recordings, ClaimRefused(w, r)
      PROVE row' \in [Recordings -> Row]
  <2>1. Written(r, "quota_blocked") \in Row /\ Written(r, "error") \in Row
    BY WrittenType DEF Statuses
  <2>2. [Written(r, "error") EXCEPT !.err = "length"] \in Row
    BY <2>1 DEF Row, Errors
  <2>3. QED
    BY <1>6, <2>1, <2>2, PutType DEF ClaimRefused
<1>7. ASSUME NEW w \in Workers, NEW r \in Recordings, ClaimEnrichment(w, r)
      PROVE row' \in [Recordings -> Row]
  <2>1. Written(r, "summarizing") \in Row
    BY WrittenType DEF Statuses
  <2>2. QED
    BY <1>7, <2>1, PutType DEF ClaimEnrichment
<1>8. ASSUME NEW w \in Workers, Beat(w) PROVE row' \in [Recordings -> Row]
  <2>1. held[w].job \in Recordings => Written(held[w].job, row[held[w].job].status) \in Row
    BY WrittenType DEF TypeOK, Row
  <2>2. QED
    BY <1>8, <2>1, PutType DEF Beat
<1>9. ASSUME NEW w \in Workers, SaveResult(w) PROVE row' \in [Recordings -> Row]
  <2> DEFINE saved(kind) ==
        [Written(held[w].job, "summarizing") EXCEPT
           !.request = None, !.transcript = held[w].request, !.result = kind,
           !.err = IF kind = "undiarized" THEN "diarize" ELSE "none"]
  <2>1. PICK kind \in Results : row' = [row EXCEPT ![held[w].job] = saved(kind)]
    BY <1>9 DEF SaveResult
  <2>2. held[w].job \in Recordings => Written(held[w].job, "summarizing") \in Row
    BY WrittenType DEF Statuses
  <2>3. held[w].request \in Requests \cup {None} /\ kind \in AllResults
    BY ConstantsOK DEF TypeOK, Locals
  <2>4. held[w].job \in Recordings => saved(kind) \in Row
    BY <2>2, <2>3 DEF Row, Errors
  <2>5. QED
    BY <2>1, <2>4, PutType
<1>10. ASSUME NEW w \in Workers, Fail(w) \/ TimeOut(w) PROVE row' \in [Recordings -> Row]
  <2>1. PICK err \in Errors : Errored(w, err)
    BY <1>10 DEF Fail, TimeOut, Errors
  <2>2. held[w].job \in Recordings => Written(held[w].job, "error") \in Row
    BY WrittenType DEF Statuses
  <2>3. held[w].job \in Recordings =>
           [Written(held[w].job, "error") EXCEPT !.err = err, !.request = None] \in Row
    BY <2>2 DEF Row
  <2>4. QED
    BY <2>1, <2>3, PutType DEF Errored
<1>11. ASSUME NEW w \in Workers, RunnerUnreachable(w) PROVE row' \in [Recordings -> Row]
  <2>1. held[w].job \in Recordings => Written(held[w].job, "pending") \in Row
    BY WrittenType DEF Statuses
  <2>2. QED
    BY <1>11, <2>1, PutType DEF RunnerUnreachable, BackToQueue
<1>12. ASSUME NEW w \in Workers, EnrichDone(w) \/ EnrichFail(w) \/ CloseJob(w)
       PROVE row' \in [Recordings -> Row]
  <2>1. \A sawCurrent : held[w].job \in Recordings => Finished(held[w].job, sawCurrent) \in Row
    BY WrittenType DEF Finished, Statuses
  <2>2. ASSUME held[w].job \in Recordings, NEW sawCurrent,
               NEW summary \in BOOLEAN, NEW err \in Errors
        PROVE /\ [Finished(held[w].job, sawCurrent) EXCEPT !.summary = summary, !.err = err] \in Row
              /\ [Finished(held[w].job, sawCurrent) EXCEPT !.err = err] \in Row
    BY <2>1, <2>2 DEF Row
  <2>3. CASE EnrichDone(w)
    <3>1. PICK summary \in {TRUE, row[held[w].job].summary} :
             row' = [row EXCEPT ![held[w].job] =
                       [Finished(held[w].job, row[held[w].job].current) EXCEPT
                          !.summary = summary,
                          !.err = IF held[w].carried THEN "diarize" ELSE "none"]]
      BY <2>3 DEF EnrichDone
    <3>2. (IF held[w].carried THEN "diarize" ELSE "none") \in Errors
      BY DEF Errors
    <3>3. held[w].job \in Recordings => summary \in BOOLEAN
      BY DEF TypeOK, Row
    <3>4. QED
      BY <3>1, <3>2, <3>3, <2>2, PutType
  <2>4. CASE EnrichFail(w)
    BY <2>4, <2>2, PutType DEF EnrichFail, Errors
  <2>5. CASE CloseJob(w)
    BY <2>5, <2>1, PutType DEF CloseJob
  <2>6. QED
    BY <1>12, <2>3, <2>4, <2>5
<1>13. ASSUME NEW r \in Recordings, Age(r) PROVE row' \in [Recordings -> Row]
  <2>1. [row[r] EXCEPT !.fresh = FALSE] \in Row
    BY DEF TypeOK, Row
  <2>2. QED
    BY <1>13, <2>1, PutType DEF Age
<1>14. ASSUME NEW r \in Recordings, EditRow(r) PROVE row' \in [Recordings -> Row]
  <2>1. Written(r, "missing") \in Row /\ Written(r, Resumed(r)) \in Row
    BY WrittenType, ResumedStatus DEF Statuses, Resumed
  <2>2. /\ [Written(r, "missing") EXCEPT !.current = FALSE, !.request = None] \in Row
        /\ [Written(r, Resumed(r)) EXCEPT !.current = TRUE] \in Row
        /\ [Written(r, Resumed(r)) EXCEPT !.err = "none"] \in Row
    BY <2>1 DEF Row, Errors
  <2>3. [Unregistered EXCEPT !.status = "deleted"] \in Row
    BY ConstantTypes DEF Row, Statuses
  <2>4. CASE Archive(r)
    <3> DEFINE archived == [row EXCEPT ![r] = [Written(r, "missing") EXCEPT
                                                 !.current = FALSE, !.request = None]]
    <3>1. archived \in [Recordings -> Row]
      BY <2>2, PutType
    <3>2. row' = archived \/ \E n \in Recordings : row' = [archived EXCEPT ![n] = NewRow]
      BY <2>4 DEF Archive
    <3> HIDE DEF archived
    <3>3. QED
      BY <3>1, <3>2, ConstantTypes
  <2>5. QED
    BY <1>14, <2>1, <2>2, <2>3, <2>4, ConstantTypes, PutType
    DEF EditRow, Register, Sweep, Reappear, Move, Heal, Delete, Retry, Retried
<1>15. CASE RetryFailed
  <2>1. \A r \in Recordings : Written(r, Resumed(r)) \in Row
    BY WrittenType, ResumedStatus DEF Resumed
  <2>2. \A r \in Recordings : Retried(r) \in Row
    BY <2>1 DEF Retried, Row, Errors
  <2>3. QED
    BY <1>15, <2>2 DEF RetryFailed, TypeOK
<1>16. CASE (\E q \in Requests : Overrun(q)) \/ UNCHANGED vars
  BY <1>16 DEF Overrun, vars, TypeOK
<1>17. QED
  BY <1>1, <1>2, <1>3, <1>4, <1>5, <1>6, <1>7, <1>8, <1>9, <1>10, <1>11, <1>12, <1>13,
     <1>14, <1>15, <1>16 DEF Next, Advance

-----------------------------------------------------------------------------
(* What the workers keep in memory, and what the runner and ledger record. *)

LEMMA EndJobType ==
    ASSUME TypeOK, NEW w \in Workers, EndJob(w) \/ BackOff(w)
    PROVE  /\ pc' \in [Workers -> Steps]
           /\ held' \in [Workers -> Locals]
           /\ \A v \in Workers :
                   /\ pc'[v] \in Working => held'[v].job # None
                   /\ pc'[v] \in Transcribing => held'[v].request # None
BY ConstantTypes DEF TypeOK, EndJob, BackOff, Steps, Working, Transcribing

LEMMA LocalsType ==
    TypeOK /\ [Next]_vars =>
        /\ pc' \in [Workers -> Steps]
        /\ held' \in [Workers -> Locals]
        /\ \A v \in Workers :
                /\ pc'[v] \in Working => held'[v].job # None
                /\ pc'[v] \in Transcribing => held'[v].request # None
        /\ snap' \in [Workers -> Snapshots]
<1> DEFINE Typed == /\ pc' \in [Workers -> Steps]
                    /\ held' \in [Workers -> Locals]
                    /\ \A v \in Workers :
                            /\ pc'[v] \in Working => held'[v].job # None
                            /\ pc'[v] \in Transcribing => held'[v].request # None
                    /\ snap' \in [Workers -> Snapshots]
<1> SUFFICES ASSUME TypeOK, [Next]_vars PROVE Typed
  OBVIOUS
<1>1. ASSUME NEW w \in Workers,
             \/ BeatOnDeleted(w) \/ BillDeleted(w) \/ Superseded(w) \/ FailDeleted(w)
             \/ Fail(w) \/ TimeOut(w) \/ RunnerUnreachable(w)
             \/ EnrichDone(w) \/ EnrichFail(w) \/ CloseJob(w) \/ EnrichDeleted(w)
             \/ \E r \in Recordings : ClaimRefused(w, r)
      PROVE Typed
  <2>1. EndJob(w) \/ BackOff(w)
    BY <1>1 DEF BeatOnDeleted, BillDeleted, Superseded, FailDeleted, Fail, TimeOut,
                RunnerUnreachable, EnrichDone, EnrichFail, CloseJob, EnrichDeleted, ClaimRefused
  <2>2. UNCHANGED snap
    BY <1>1 DEF BeatOnDeleted, BillDeleted, Superseded, FailDeleted, Fail, TimeOut,
                RunnerUnreachable, EnrichDone, EnrichFail, CloseJob, EnrichDeleted, ClaimRefused
  <2>3. QED
    BY <2>1, <2>2, EndJobType DEF TypeOK
<1>2. ASSUME NEW w \in Workers, Crash(w) \/ LoseDatabase(w) PROVE Typed
  BY <1>2, ConstantTypes DEF TypeOK, Crash, LoseDatabase, BackOff, Steps, Working, Transcribing
<1>3. ASSUME NEW w \in Workers, RecoverSelect(w) PROVE Typed
  <2>1. PICK new \in Snapshots : snap' = [snap EXCEPT ![w] = new]
    BY <1>3 DEF RecoverSelect, Snapshots
  <2>2. pc' \in [Workers -> Steps] /\ UNCHANGED held
    BY <1>3 DEF RecoverSelect, TypeOK, Steps
  <2>3. QED
    BY <1>3, <2>1, <2>2 DEF TypeOK, RecoverSelect, Working, Transcribing
<1>4. ASSUME NEW w \in Workers, RecoverWrite(w) \/ ReleaseWrite(w) PROVE Typed
  BY <1>4, ConstantTypes DEF TypeOK, RecoverWrite, ReleaseWrite, Steps, Working, Transcribing
<1>5. ASSUME NEW w \in Workers, ReleaseSelect(w) PROVE Typed
  <2>1. PICK freed \in SUBSET Recordings : snap' = [snap EXCEPT ![w] = [NoSnap EXCEPT !.ids = freed]]
    BY <1>5 DEF ReleaseSelect
  <2>2. [NoSnap EXCEPT !.ids = freed] \in Snapshots
    BY DEF NoSnap, Snapshots
  <2>3. pc' \in [Workers -> Steps] /\ UNCHANGED held
    BY <1>5 DEF ReleaseSelect, TypeOK, Steps
  <2>4. QED
    BY <1>5, <2>1, <2>2, <2>3 DEF TypeOK, ReleaseSelect, Working, Transcribing
<1>6. ASSUME NEW w \in Workers, RequeueUnenriched(w) \/ NothingToDo(w) \/ Submit(w) PROVE Typed
  BY <1>6 DEF TypeOK, RequeueUnenriched, NothingToDo, Submit, Steps, Working, Transcribing
<1>7. ASSUME NEW w \in Workers, NEW r \in Recordings, ClaimTranscription(w, r) PROVE Typed
  <2>1. PICK q \in Requests : /\ held' = [held EXCEPT ![w] = [NoJob EXCEPT !.job = r, !.request = q]]
                              /\ pc' = [pc EXCEPT ![w] = IF q \in overdue THEN "expired" ELSE "submit"]
    BY <1>7 DEF ClaimTranscription, RequestFor, Unused, TypeOK, Row
  <2>2. [NoJob EXCEPT !.job = r, !.request = q] \in Locals
    BY DEF NoJob, Locals
  <2>3. pc' \in [Workers -> Steps]
    BY <2>1 DEF TypeOK, Steps
  <2>4. UNCHANGED snap
    BY <1>7 DEF ClaimTranscription
  <2>5. QED
    BY <2>1, <2>2, <2>3, <2>4, ConstantsOK DEF TypeOK, NoJob
<1>8. ASSUME NEW w \in Workers, NEW r \in Recordings, ClaimEnrichment(w, r) PROVE Typed
  <2>1. [NoJob EXCEPT !.job = r, !.carried = (row[r].err = "diarize")] \in Locals
    BY DEF NoJob, Locals
  <2>2. QED
    BY <1>8, <2>1, ConstantsOK DEF ClaimEnrichment, TypeOK, Steps, NoJob, Working, Transcribing
<1>9. ASSUME NEW w \in Workers, SaveResult(w) PROVE Typed
  <2>1. PICK kind \in Results :
           held' = [held EXCEPT ![w].carried = (kind = "undiarized"), ![w].request = None]
    BY <1>9 DEF SaveResult
  <2>2. [held[w] EXCEPT !.carried = (kind = "undiarized"), !.request = None] \in Locals
    BY DEF TypeOK, Locals
  <2>3. pc' = [pc EXCEPT ![w] = "enrich"] /\ pc[w] = "poll" /\ UNCHANGED snap
    BY <1>9 DEF SaveResult
  <2>4. \A v \in Workers : held'[v].job = held[v].job
    BY <2>1 DEF TypeOK, Locals
  <2>5. QED
    BY <2>1, <2>2, <2>3, <2>4 DEF TypeOK, Steps, Working, Transcribing
<1>10. ASSUME NEW w \in Workers, ReadCurrent(w) PROVE Typed
  <2>1. held[w].job \in Recordings
    BY <1>10 DEF ReadCurrent, TypeOK, Locals, Working
  <2>2. row[held[w].job].current \in BOOLEAN
    BY <2>1 DEF TypeOK, Row
  <2>3. [held[w] EXCEPT !.sawCurrent = row[held[w].job].current] \in Locals
    BY <2>2 DEF TypeOK, Locals
  <2>4. QED
    BY <1>10, <2>3, <2>1, ConstantsOK
    DEF ReadCurrent, TypeOK, Steps, Locals, Working, Transcribing
<1>11. CASE \/ \E w \in Workers : Beat(w)
            \/ \E r \in Recordings : Age(r) \/ EditRow(r)
            \/ \E q \in Requests : Overrun(q)
            \/ RetryFailed \/ UNCHANGED vars
  BY <1>11 DEF TypeOK, vars, Beat, Age, EditRow, Register, Archive, Sweep, Reappear, Move, Heal,
               Delete, Retry, RetryFailed, Edit, Overrun
<1>12. QED
  BY <1>1, <1>2, <1>3, <1>4, <1>5, <1>6, <1>7, <1>8, <1>9, <1>10, <1>11 DEF Next, Advance

LEMMA LedgerType ==
    TypeOK /\ [Next]_vars =>
        /\ issued' \in [Requests -> Recordings \cup {None}]
        /\ bills' \in [Requests -> Nat]
        /\ accepted' \in SUBSET Requests
        /\ overdue' \in SUBSET Requests
        /\ faults' \in 0..MaxFaults
        /\ edits' \in 0..MaxEdits
<1> DEFINE Typed == /\ issued' \in [Requests -> Recordings \cup {None}]
                    /\ bills' \in [Requests -> Nat]
                    /\ accepted' \in SUBSET Requests
                    /\ overdue' \in SUBSET Requests
                    /\ faults' \in 0..MaxFaults
                    /\ edits' \in 0..MaxEdits
<1> SUFFICES ASSUME TypeOK, [Next]_vars PROVE Typed
  OBVIOUS
<1>1. ASSUME NEW w \in Workers, NEW r \in Recordings, ClaimTranscription(w, r) PROVE Typed
  BY <1>1 DEF TypeOK, ClaimTranscription, envVars
<1>2. ASSUME NEW w \in Workers, Submit(w) PROVE Typed
  <2>1. held[w].request \in Requests
    BY <1>2 DEF TypeOK, Submit, Locals, Working, Transcribing
  <2>2. QED
    BY <1>2, <2>1 DEF TypeOK, Submit, envVars
<1>3. ASSUME NEW w \in Workers, SaveResult(w) \/ BillDeleted(w) PROVE Typed
  <2>1. bills' = [bills EXCEPT ![held[w].request] = @ + 1]
    BY <1>3 DEF SaveResult, BillDeleted
  <2>2. bills' \in [Requests -> Nat]
    <3>1. \A q \in Requests : bills[q] + 1 \in Nat
      BY DEF TypeOK
    <3>2. QED
      BY <2>1, <3>1 DEF TypeOK
  <2>3. UNCHANGED <<issued, accepted, overdue, envVars>>
    BY <1>3 DEF SaveResult, BillDeleted
  <2>4. QED
    BY <2>2, <2>3 DEF TypeOK, envVars
<1>4. ASSUME NEW w \in Workers,
             FailDeleted(w) \/ RunnerUnreachable(w) \/ Crash(w) \/ LoseDatabase(w)
      PROVE Typed
  BY <1>4, ConstantsOK DEF TypeOK, FailDeleted, RunnerUnreachable, Crash, LoseDatabase,
                           runnerVars
<1>5. ASSUME NEW q \in Requests, Overrun(q) PROVE Typed
  BY <1>5, ConstantsOK DEF TypeOK, Overrun
<1>6. CASE RetryFailed \/ \E r \in Recordings : EditRow(r)
  <2>1. PICK kind : Edit(kind)
    BY <1>6 DEF RetryFailed, EditRow, Register, Archive, Sweep, Reappear, Move, Heal, Delete, Retry
  <2>2. edits < MaxEdits /\ edits' = edits + 1 /\ UNCHANGED <<runnerVars, faults>>
    BY <2>1 DEF Edit
  <2>3. edits' \in 0..MaxEdits
    BY <2>2, ConstantsOK DEF TypeOK
  <2>4. QED
    BY <2>2, <2>3 DEF TypeOK, runnerVars
<1>7. ASSUME NEW w \in Workers,
             \/ RecoverSelect(w) \/ RecoverWrite(w) \/ RequeueUnenriched(w)
             \/ ReleaseSelect(w) \/ ReleaseWrite(w) \/ NothingToDo(w)
             \/ \E r \in Recordings : ClaimRefused(w, r) \/ ClaimEnrichment(w, r)
             \/ BeatOnDeleted(w) \/ Superseded(w) \/ Fail(w) \/ TimeOut(w) \/ Beat(w)
             \/ EnrichDone(w) \/ EnrichFail(w) \/ ReadCurrent(w) \/ CloseJob(w) \/ EnrichDeleted(w)
      PROVE Typed
  <2>1. UNCHANGED <<runnerVars, envVars>>
    BY <1>7 DEF RecoverSelect, RecoverWrite, RequeueUnenriched, ReleaseSelect, ReleaseWrite,
                NothingToDo, ClaimRefused, ClaimEnrichment, BeatOnDeleted, Superseded, Fail,
                TimeOut, Beat, EnrichDone, EnrichFail, ReadCurrent, CloseJob, EnrichDeleted
  <2>2. QED
    BY <2>1 DEF TypeOK, runnerVars, envVars
<1>8. CASE (\E r \in Recordings : Age(r)) \/ UNCHANGED vars
  BY <1>8 DEF TypeOK, Age, vars, runnerVars, envVars
<1>9. QED
  BY <1>1, <1>2, <1>3, <1>4, <1>5, <1>6, <1>7, <1>8 DEF Next, Advance

LEMMA TypeInit == Init => TypeOK
BY ConstantsOK, ConstantTypes DEF Init, TypeOK, Steps, Working, Transcribing

LEMMA TypeStep == TypeOK /\ [Next]_vars => TypeOK'
<1> SUFFICES ASSUME TypeOK, [Next]_vars PROVE TypeOK'
  OBVIOUS
<1>1. QED
  BY RowType, LocalsType, LedgerType DEF TypeOK

\* Every row, local variable, ledger entry and counter keeps its type, and a
\* worker that is at work on a row knows which one, whatever the schedule.
THEOREM TypeCorrect == Spec => []TypeOK
BY TypeInit, TypeStep, PTL DEF Spec

-----------------------------------------------------------------------------
(* Requests, transcripts and the ledger. *)

\* What a step that neither draws nor settles a request may do to a row: leave
\* request, transcript and existence alone, drop the request, delete the row, or
\* register it.
Quiet(r) ==
    \/ /\ row'[r].request = row[r].request /\ row'[r].transcript = row[r].transcript
       /\ row'[r].status \in {"unregistered", "deleted"} \/ row[r].status \in {"unregistered", "deleted"}
            => row'[r].status = row[r].status
       /\ row'[r].status = "transcribing" /\ row'[r].current =>
            row[r].status = "transcribing" /\ row[r].current
    \/ /\ row'[r].request = None /\ row'[r].transcript = row[r].transcript
       /\ Registered(r) /\ Registered(r)'
       /\ row'[r].status \in {"error", "missing"}
    \/ /\ row'[r].request = None /\ row'[r].transcript = None
       /\ row'[r].status = "deleted" /\ row[r].status # "unregistered"
    \/ /\ row'[r].request = None /\ row'[r].transcript = None
       /\ row'[r].status = "pending" /\ row[r].status = "unregistered"

\* What such a step may do to the workers: none of them starts to transcribe.
NoneStarts ==
    \A v \in Workers : pc'[v] \in Transcribing => pc[v] \in Transcribing /\ held'[v] = held[v]

LEMMA QuietStep ==
    ASSUME TypeOK, BillingInv, UNCHANGED <<issued, bills>>, NoneStarts,
           \A r \in Recordings : Quiet(r)
    PROVE  BillingInv'
<1>1. RequestInv'
  BY DEF BillingInv, RequestInv, Quiet, Registered
<1>2. TranscriptInv'
  BY DEF BillingInv, TranscriptInv, Quiet, Registered
<1>3. LedgerInv'
  <2> SUFFICES ASSUME NEW q \in Requests
               PROVE /\ issued[q] = None => bills[q] = 0
                     /\ issued[q] # None => row'[issued[q]].status # "unregistered"
                     /\ issued[q] # None /\ Registered(issued[q])' =>
                          bills[q] = 0 \/ (bills[q] = 1 /\ row'[issued[q]].transcript # None)
    BY DEF LedgerInv, Registered
  <2>1. issued[q] # None => issued[q] \in Recordings
    BY DEF TypeOK
  <2>2. QED
    BY <2>1 DEF BillingInv, LedgerInv, Quiet, Registered
<1>4. HolderInv'
  BY DEF BillingInv, HolderInv, NoneStarts
<1>5. QED
  BY <1>1, <1>2, <1>3, <1>4 DEF BillingInv

\* A row that is not written is left alone.
LEMMA SameRow == ASSUME NEW r \in Recordings, row'[r] = row[r] PROVE Quiet(r)
BY DEF Quiet

\* A row that exists may be given any status but those three.
LEMMA NewStatus ==
    ASSUME TypeOK, NEW r \in Recordings, Registered(r), NEW s \in Statuses,
           s \notin {"unregistered", "deleted", "transcribing"},
           row'[r].status = s, row'[r].request = row[r].request,
           row'[r].transcript = row[r].transcript
    PROVE  Quiet(r)
BY DEF Quiet, Registered

LEMMA EndingStarts ==
    ASSUME TypeOK, NEW w \in Workers, EndJob(w) \/ BackOff(w)
    PROVE  NoneStarts
BY DEF TypeOK, EndJob, BackOff, NoneStarts, Transcribing

\* The request that claims, results and failures are about belongs to its row.
LEMMA OwnerFacts ==
    ASSUME TypeOK, BillingInv, NEW w \in Workers, pc[w] \in Transcribing
    PROVE  /\ held[w].request \in Requests /\ held[w].job \in Recordings
           /\ issued[held[w].request] = held[w].job
BY DEF TypeOK, Locals, BillingInv, HolderInv, Working

\* Statuses are all an errand of maintenance writes, and only on rows that exist.
LEMMA BulkStatus ==
    ASSUME TypeOK, NEW S \in SUBSET Recordings, NEW f \in [Recordings -> Statuses],
           \A r \in S : /\ Registered(r)
                        /\ f[r] \notin {"unregistered", "deleted", "transcribing"},
           row' = [r \in Recordings |-> IF r \in S THEN Written(r, f[r]) ELSE row[r]]
    PROVE  \A r \in Recordings : Quiet(r)
<1> SUFFICES ASSUME NEW r \in Recordings PROVE Quiet(r)
  OBVIOUS
<1>1. CASE r \in S
  <2>1. row'[r] = Written(r, f[r])
    BY <1>1
  <2>2. /\ row'[r].status = f[r] /\ row'[r].request = row[r].request
        /\ row'[r].transcript = row[r].transcript
    BY <2>1 DEF Written, TypeOK, Row
  <2>3. QED
    BY <1>1, <2>2, NewStatus
<1>2. CASE r \notin S
  BY <1>2, SameRow
<1>3. QED
  BY <1>1, <1>2

\* One row is given a new value.
LEMMA OneRow ==
    ASSUME TypeOK, NEW r \in Recordings, NEW new, row' = [row EXCEPT ![r] = new],
           Quiet(r)
    PROVE  \A s \in Recordings : Quiet(s)
<1> SUFFICES ASSUME NEW s \in Recordings, s # r PROVE Quiet(s)
  OBVIOUS
<1>1. row'[s] = row[s]
  BY DEF TypeOK
<1>2. QED
  BY <1>1, SameRow

\* ... which changes its status, and neither request nor transcript.
LEMMA OneStatus ==
    ASSUME TypeOK, NEW r \in Recordings, Registered(r), NEW new \in Row,
           new.status \notin {"unregistered", "deleted", "transcribing"},
           new.request = row[r].request, new.transcript = row[r].transcript,
           row' = [row EXCEPT ![r] = new]
    PROVE  \A s \in Recordings : Quiet(s)
<1>1. row'[r] = new
  BY DEF TypeOK
<1>2. Quiet(r)
  BY <1>1, NewStatus DEF Row
<1>3. QED
  BY <1>2, OneRow

\* ... which drops its request.
LEMMA OneDropped ==
    ASSUME TypeOK, NEW r \in Recordings, Registered(r), NEW new \in Row,
           new.status \in {"error", "missing"},
           new.request = None, new.transcript = row[r].transcript,
           row' = [row EXCEPT ![r] = new]
    PROVE  \A s \in Recordings : Quiet(s)
<1>1. row'[r] = new
  BY DEF TypeOK
<1>2. Quiet(r)
  BY <1>1 DEF Quiet, Registered
<1>3. QED
  BY <1>2, OneRow

LEMMA ResumedWaits ==
    \A r, transcribed, summarised :
        ResumeStatus(r, transcribed, summarised) \in {"done", "enriching", "pending"}
BY DEF ResumeStatus, EnrichWaiting

LEMMA WrittenFields ==
    ASSUME TypeOK, NEW r \in Recordings, NEW s \in Statuses
    PROVE  /\ Written(r, s).status = s /\ Written(r, s).request = row[r].request
           /\ Written(r, s).transcript = row[r].transcript
           /\ Written(r, s).current = row[r].current
BY DEF Written, TypeOK, Row

\* Maintenance: recovery, requeueing and release.
LEMMA MaintenanceQuiet ==
    ASSUME TypeOK, NEW w \in Workers, RecoverWrite(w) \/ RequeueUnenriched(w) \/ ReleaseWrite(w)
    PROVE  /\ \A r \in Recordings : Quiet(r)
           /\ NoneStarts /\ UNCHANGED <<issued, bills>>
<1>1. snap[w].ids \in SUBSET Recordings
  BY DEF TypeOK, Snapshots
<1>2. CASE RecoverWrite(w)
  <2>1. NoneStarts /\ UNCHANGED <<issued, bills>>
    BY <1>2 DEF RecoverWrite, NoneStarts, Transcribing, TypeOK, runnerVars
  <2>2. CASE \A r \in snap[w].ids : Registered(r)
    <3> DEFINE f == [r \in Recordings |-> ResumeStatus(r, r \in snap[w].transcribed,
                                                         r \in snap[w].summarised)]
    <3>1. /\ f \in [Recordings -> Statuses]
          /\ \A r \in Recordings : f[r] \notin {"unregistered", "deleted", "transcribing"}
      BY ResumedStatus, ResumedWaits
    <3>2. row' = [r \in Recordings |-> IF r \in snap[w].ids THEN Written(r, f[r]) ELSE row[r]]
      BY <1>2, <2>2 DEF RecoverWrite
    <3> HIDE DEF f
    <3>3. QED
      BY <1>1, <2>1, <2>2, <3>1, <3>2, BulkStatus
  <2>3. CASE ~ \A r \in snap[w].ids : Registered(r)
    BY <1>2, <2>1, <2>3, SameRow DEF RecoverWrite
  <2>4. QED
    BY <2>2, <2>3
<1>3. CASE RequeueUnenriched(w)
  <2>1. NoneStarts /\ UNCHANGED <<issued, bills>>
    BY <1>3 DEF RequeueUnenriched, NoneStarts, Transcribing, TypeOK, runnerVars
  <2> DEFINE S == {r \in Recordings : /\ w \in Enrichers
                                      /\ row[r].status = "done" /\ row[r].current
                                      /\ ~row[r].summary /\ row[r].transcript # None}
             f == [r \in Recordings |-> EnrichWaiting]
  <2>2. /\ f \in [Recordings -> Statuses]
        /\ \A r \in S : /\ Registered(r)
                        /\ f[r] \notin {"unregistered", "deleted", "transcribing"}
    BY DEF EnrichWaiting, Statuses, Registered
  <2>3. row' = [r \in Recordings |-> IF r \in S THEN Written(r, f[r]) ELSE row[r]]
    BY <1>3 DEF RequeueUnenriched
  <2>4. S \in SUBSET Recordings
    OBVIOUS
  <2> HIDE DEF S, f
  <2>5. QED
    BY <2>1, <2>2, <2>3, <2>4, BulkStatus
<1>4. CASE ReleaseWrite(w)
  <2>1. NoneStarts /\ UNCHANGED <<issued, bills>>
    BY <1>4 DEF ReleaseWrite, NoneStarts, Transcribing, TypeOK, runnerVars
  <2> DEFINE S == {r \in Recordings : r \in snap[w].ids /\ Registered(r)}
             f == [r \in Recordings |-> Resumed(r)]
  <2>2. /\ f \in [Recordings -> Statuses]
        /\ \A r \in S : /\ Registered(r)
                        /\ f[r] \notin {"unregistered", "deleted", "transcribing"}
    BY ResumedStatus, ResumedWaits DEF Resumed
  <2>3. row' = [r \in Recordings |-> IF r \in S THEN Written(r, f[r]) ELSE row[r]]
    BY <1>4 DEF ReleaseWrite
  <2>4. S \in SUBSET Recordings
    OBVIOUS
  <2> HIDE DEF S, f
  <2>5. QED
    BY <2>1, <2>2, <2>3, <2>4, BulkStatus
<1>5. QED
  BY <1>2, <1>3, <1>4

\* Failures and outages of a transcription, and the end of an enrichment.
LEMMA EndingQuiet ==
    ASSUME TypeOK, BillingInv, NEW w \in Workers,
           \/ Fail(w) \/ TimeOut(w) \/ RunnerUnreachable(w)
           \/ EnrichDone(w) \/ EnrichFail(w) \/ CloseJob(w)
    PROVE  /\ \A r \in Recordings : Quiet(r)
           /\ NoneStarts /\ UNCHANGED <<issued, bills>>
<1>1. NoneStarts /\ UNCHANGED <<issued, bills>>
  <2>1. EndJob(w) \/ BackOff(w)
    BY DEF Fail, TimeOut, RunnerUnreachable, EnrichDone, EnrichFail, CloseJob
  <2>2. UNCHANGED <<issued, bills>>
    BY DEF Fail, TimeOut, RunnerUnreachable, EnrichDone, EnrichFail, CloseJob, runnerVars
  <2>3. QED
    BY <2>1, <2>2, EndingStarts
<1> DEFINE r == held[w].job
<1>2. r \in Recordings /\ Registered(r)
  BY DEF TypeOK, Locals, Working, Transcribing, Fail, TimeOut, RunnerUnreachable, EnrichDone,
         EnrichFail, CloseJob, Owns
<1>3. ASSUME NEW err \in Errors, Errored(w, err) PROVE \A s \in Recordings : Quiet(s)
  <2>1. Written(r, "error") \in Row
    BY <1>2, WrittenType DEF Statuses
  <2> DEFINE new == [Written(r, "error") EXCEPT !.err = err, !.request = None]
  <2>2. /\ new \in Row /\ new.status = "error" /\ new.request = None
        /\ new.transcript = row[r].transcript
    BY <1>2, <2>1, WrittenFields DEF Row, Statuses
  <2>3. row' = [row EXCEPT ![r] = new]
    BY <1>3 DEF Errored
  <2> HIDE DEF new, r
  <2>4. QED
    BY <1>2, <2>2, <2>3, OneDropped
<1>4. CASE Fail(w) \/ TimeOut(w)
  BY <1>1, <1>3, <1>4 DEF Fail, TimeOut, Errors
<1>5. CASE RunnerUnreachable(w)
  <2>1. Written(r, "pending") \in Row /\ "pending" \in Statuses
    BY <1>2, WrittenType DEF Statuses
  <2>2. row' = [row EXCEPT ![r] = Written(r, "pending")]
    BY <1>5 DEF RunnerUnreachable, BackToQueue
  <2> HIDE DEF r
  <2>3. QED
    BY <1>1, <1>2, <2>1, <2>2, WrittenFields, OneStatus
<1>6. ASSUME NEW sawCurrent, NEW new, row' = [row EXCEPT ![r] = new], new \in Row,
             new.status = Finished(r, sawCurrent).status,
             new.request = Finished(r, sawCurrent).request,
             new.transcript = Finished(r, sawCurrent).transcript
      PROVE  \A s \in Recordings : Quiet(s)
  <2>1. "done" \in Statuses /\ "missing" \in Statuses
    BY DEF Statuses
  <2>2. /\ new.status \notin {"unregistered", "deleted", "transcribing"}
        /\ new.request = row[r].request /\ new.transcript = row[r].transcript
    BY <1>2, <1>6, <2>1, WrittenFields DEF Finished
  <2> HIDE DEF r
  <2>3. QED
    BY <1>2, <1>6, <2>2, OneStatus
<1>7. \A sawCurrent : Finished(r, sawCurrent) \in Row
  BY <1>2, WrittenType DEF Finished, Statuses
<1>8. CASE EnrichDone(w)
  <2>1. PICK summary \in {TRUE, row[r].summary} :
           row' = [row EXCEPT ![r] = [Finished(r, row[r].current) EXCEPT
                          !.summary = summary,
                          !.err = IF held[w].carried THEN "diarize" ELSE "none"]]
    BY <1>8 DEF EnrichDone
  <2> DEFINE new == [Finished(r, row[r].current) EXCEPT
                          !.summary = summary,
                          !.err = IF held[w].carried THEN "diarize" ELSE "none"]
  <2>2. summary \in BOOLEAN /\ (IF held[w].carried THEN "diarize" ELSE "none") \in Errors
    BY <1>2 DEF TypeOK, Row, Errors
  <2>3. /\ new \in Row
        /\ new.status = Finished(r, row[r].current).status
        /\ new.request = Finished(r, row[r].current).request
        /\ new.transcript = Finished(r, row[r].current).transcript
    BY <1>7, <2>2 DEF Row
  <2>4. row' = [row EXCEPT ![r] = new]
    BY <2>1
  <2> HIDE DEF new, r
  <2>5. QED
    BY <1>1, <1>6, <2>3, <2>4
<1>9. CASE EnrichFail(w)
  <2> DEFINE new == [Finished(r, row[r].current) EXCEPT !.err = "enrich"]
  <2>1. /\ new \in Row
        /\ new.status = Finished(r, row[r].current).status
        /\ new.request = Finished(r, row[r].current).request
        /\ new.transcript = Finished(r, row[r].current).transcript
    BY <1>7 DEF Row, Errors
  <2>2. row' = [row EXCEPT ![r] = new]
    BY <1>9 DEF EnrichFail
  <2> HIDE DEF new, r
  <2>3. QED
    BY <1>1, <1>6, <2>1, <2>2
<1>10. CASE CloseJob(w)
  <2>1. row' = [row EXCEPT ![r] = Finished(r, held[w].sawCurrent)]
    BY <1>10 DEF CloseJob
  <2> HIDE DEF r
  <2>2. QED
    BY <1>1, <1>6, <1>7, <2>1
<1>11. QED
  BY <1>4, <1>5, <1>8, <1>9, <1>10

\* Scans, requests and commands.
LEMMA EditQuiet ==
    ASSUME TypeOK, RetryFailed \/ \E r \in Recordings : EditRow(r)
    PROVE  /\ \A r \in Recordings : Quiet(r)
           /\ NoneStarts /\ UNCHANGED <<issued, bills>>
<1>1. NoneStarts /\ UNCHANGED <<issued, bills>>
  <2>1. PICK kind : Edit(kind)
    BY DEF RetryFailed, EditRow, Register, Archive, Sweep, Reappear, Move, Heal, Delete, Retry
  <2>2. QED
    BY <2>1 DEF Edit, runnerVars, NoneStarts
<1>2. ASSUME NEW r \in Recordings, Registered(r)
      PROVE  /\ Written(r, "missing") \in Row /\ Written(r, Resumed(r)) \in Row
             /\ Written(r, Resumed(r)).status \in {"done", "enriching", "pending"}
             /\ Written(r, "missing").status = "missing"
             /\ \A s \in {"missing", Resumed(r)} :
                  /\ Written(r, s).request = row[r].request
                  /\ Written(r, s).transcript = row[r].transcript
  <2>1. "missing" \in Statuses /\ Resumed(r) \in Statuses
    BY ResumedStatus DEF Resumed, Statuses
  <2>2. QED
    BY <2>1, WrittenType, WrittenFields, ResumedWaits DEF Resumed
<1>3. ASSUME NEW r \in Recordings, Register(r) PROVE \A s \in Recordings : Quiet(s)
  <2>1. row' = [row EXCEPT ![r] = NewRow] /\ row[r].status = "unregistered"
    BY <1>3 DEF Register
  <2>2. row'[r] = NewRow
    BY <2>1 DEF TypeOK
  <2>3. Quiet(r)
    BY <2>1, <2>2 DEF Quiet, NewRow
  <2>4. QED
    BY <2>1, <2>3, OneRow
<1>4. ASSUME NEW r \in Recordings, Archive(r) PROVE \A s \in Recordings : Quiet(s)
  <2> DEFINE new == [Written(r, "missing") EXCEPT !.current = FALSE, !.request = None]
             archived == [row EXCEPT ![r] = new]
  <2>1. Registered(r)
    BY <1>4 DEF Archive
  <2>2. /\ new \in Row /\ new.status = "missing" /\ new.request = None
        /\ new.transcript = row[r].transcript
    BY <1>2, <2>1 DEF Row
  <2>3. row' = archived \/ \E n \in Recordings : row[n].status = "unregistered"
                                                 /\ row' = [archived EXCEPT ![n] = NewRow]
    BY <1>4 DEF Archive
  <2> HIDE DEF new
  <2>4. CASE row' = archived
    BY <2>1, <2>2, <2>4, OneDropped
  <2>5. ASSUME NEW n \in Recordings, row[n].status = "unregistered",
               row' = [archived EXCEPT ![n] = NewRow]
        PROVE  \A s \in Recordings : Quiet(s)
    <3>1. n # r
      BY <2>1, <2>5 DEF Registered
    <3>2. row'[n] = NewRow /\ row'[r] = new
      BY <2>5, <3>1 DEF TypeOK
    <3>3. Quiet(n)
      BY <2>5, <3>2 DEF Quiet, NewRow
    <3>4. Quiet(r)
      BY <2>1, <2>2, <3>2 DEF Quiet, Registered
    <3>5. ASSUME NEW s \in Recordings, s # n, s # r PROVE Quiet(s)
      <4>1. row'[s] = row[s]
        BY <2>5, <3>5 DEF TypeOK
      <4>2. QED
        BY <4>1, SameRow
    <3>6. QED
      BY <3>3, <3>4, <3>5
  <2>6. QED
    BY <2>3, <2>4, <2>5
<1>5. ASSUME NEW r \in Recordings, Sweep(r) PROVE \A s \in Recordings : Quiet(s)
  BY <1>2, <1>5, OneStatus DEF Sweep
<1>6. ASSUME NEW r \in Recordings, Reappear(r) PROVE \A s \in Recordings : Quiet(s)
  <2>1. Registered(r)
    BY <1>6 DEF Reappear, Registered
  <2>2. QED
    BY <1>2, <1>6, <2>1, OneStatus DEF Reappear
<1>7. ASSUME NEW r \in Recordings, Move(r) PROVE \A s \in Recordings : Quiet(s)
  <2> DEFINE new == [Written(r, Resumed(r)) EXCEPT !.current = TRUE]
  <2>1. Registered(r) /\ row' = [row EXCEPT ![r] = new]
    BY <1>7 DEF Move
  <2>2. /\ new \in Row /\ new.status \in {"done", "enriching", "pending"}
        /\ new.request = row[r].request /\ new.transcript = row[r].transcript
    BY <1>2, <2>1 DEF Row
  <2> HIDE DEF new
  <2>3. QED
    BY <2>1, <2>2, OneStatus
<1>8. ASSUME NEW r \in Recordings, Registered(r)
      PROVE  /\ Retried(r) \in Row /\ Retried(r).status \in {"done", "enriching", "pending"}
             /\ Retried(r).request = row[r].request /\ Retried(r).transcript = row[r].transcript
  BY <1>2, <1>8 DEF Retried, Row, Errors
<1>9. ASSUME NEW r \in Recordings, Heal(r) \/ Retry(r) PROVE \A s \in Recordings : Quiet(s)
  <2>1. Registered(r) /\ row' = [row EXCEPT ![r] = Retried(r)]
    BY <1>9 DEF Heal, Retry, MayRetry, Registered, Retried
  <2>2. QED
    BY <1>8, <2>1, OneStatus
<1>10. ASSUME NEW r \in Recordings, Delete(r) PROVE \A s \in Recordings : Quiet(s)
  <2>1. row' = [row EXCEPT ![r] = [Unregistered EXCEPT !.status = "deleted"]] /\ Registered(r)
    BY <1>10 DEF Delete
  <2>2. row'[r] = [Unregistered EXCEPT !.status = "deleted"]
    BY <2>1 DEF TypeOK
  <2>3. Quiet(r)
    BY <2>1, <2>2 DEF Quiet, Unregistered, NewRow, Registered
  <2>4. QED
    BY <2>1, <2>3, OneRow
<1>11. ASSUME RetryFailed PROVE \A s \in Recordings : Quiet(s)
  <2> SUFFICES ASSUME NEW s \in Recordings PROVE Quiet(s)
    OBVIOUS
  <2>1. row'[s] = IF MayRetry(s) THEN Retried(s) ELSE row[s]
    BY <1>11 DEF RetryFailed
  <2>2. CASE MayRetry(s)
    <3>1. Registered(s)
      BY <2>2 DEF MayRetry, Registered
    <3>2. row'[s].status \in Statuses
      BY <1>8, <2>1, <2>2, <3>1 DEF Statuses
    <3>3. QED
      BY <1>8, <2>1, <2>2, <3>1, <3>2, NewStatus
  <2>3. CASE ~MayRetry(s)
    BY <2>1, <2>3, SameRow
  <2>4. QED
    BY <2>2, <2>3
<1>12. QED
  BY <1>1, <1>3, <1>4, <1>5, <1>6, <1>7, <1>9, <1>10, <1>11 DEF EditRow

\* Steps that write no row, and the two that write no status.
LEMMA IdleQuiet ==
    ASSUME TypeOK,
           \/ \E w \in Workers :
                \/ RecoverSelect(w) \/ ReleaseSelect(w) \/ NothingToDo(w) \/ Submit(w)
                \/ BeatOnDeleted(w) \/ Superseded(w) \/ FailDeleted(w)
                \/ ReadCurrent(w) \/ EnrichDeleted(w) \/ Crash(w) \/ LoseDatabase(w) \/ Beat(w)
           \/ \E r \in Recordings : Age(r)
           \/ \E q \in Requests : Overrun(q)
           \/ UNCHANGED vars
    PROVE  /\ \A r \in Recordings : Quiet(r)
           /\ NoneStarts /\ UNCHANGED <<issued, bills>>
<1>1. UNCHANGED <<issued, bills>>
  BY DEF RecoverSelect, ReleaseSelect, NothingToDo, Submit, BeatOnDeleted, Superseded, FailDeleted,
         ReadCurrent, EnrichDeleted, Crash, LoseDatabase, Beat, Age, Overrun, vars, runnerVars
<1>2. NoneStarts
  <2>1. ASSUME NEW w \in Workers,
               BeatOnDeleted(w) \/ Superseded(w) \/ FailDeleted(w) \/ EnrichDeleted(w) \/ LoseDatabase(w)
        PROVE NoneStarts
    BY <2>1, EndingStarts DEF BeatOnDeleted, Superseded, FailDeleted, EnrichDeleted, LoseDatabase
  <2>2. ASSUME NEW w \in Workers,
               RecoverSelect(w) \/ ReleaseSelect(w) \/ NothingToDo(w) \/ Submit(w) \/ ReadCurrent(w) \/ Crash(w)
        PROVE NoneStarts
    BY <2>2 DEF NoneStarts, RecoverSelect, ReleaseSelect, NothingToDo, Submit, ReadCurrent, Crash,
                TypeOK, Transcribing
  <2>3. QED
    BY <2>1, <2>2 DEF NoneStarts, Beat, Age, Overrun, vars
<1>3. ASSUME row' = row PROVE \A r \in Recordings : Quiet(r)
  BY <1>3, SameRow
<1>4. ASSUME NEW w \in Workers, Beat(w) PROVE \A r \in Recordings : Quiet(r)
  <2> DEFINE r == held[w].job
             new == Written(r, row[r].status)
  <2>1. r \in Recordings /\ Registered(r) /\ row' = [row EXCEPT ![r] = new]
    BY <1>4 DEF Beat, TypeOK, Locals, Working, Transcribing
  <2>2. /\ new.status = row[r].status /\ new.request = row[r].request
        /\ new.transcript = row[r].transcript /\ new.current = row[r].current
    BY <2>1, WrittenFields DEF TypeOK, Row
  <2> HIDE DEF new, r
  <2>3. row'[r] = new
    BY <2>1 DEF TypeOK
  <2>4. Quiet(r)
    BY <2>1, <2>2, <2>3 DEF Quiet
  <2>5. QED
    BY <2>1, <2>4, OneRow
<1>5. ASSUME NEW r \in Recordings, Age(r) PROVE \A s \in Recordings : Quiet(s)
  <2> DEFINE new == [row[r] EXCEPT !.fresh = FALSE]
  <2>1. row' = [row EXCEPT ![r] = new]
    BY <1>5 DEF Age
  <2>2. row'[r] = new
    BY <2>1 DEF TypeOK
  <2>3. /\ row'[r].status = row[r].status /\ row'[r].request = row[r].request
        /\ row'[r].transcript = row[r].transcript /\ row'[r].current = row[r].current
    BY <2>2 DEF TypeOK, Row
  <2>4. Quiet(r)
    BY <2>3 DEF Quiet
  <2>5. QED
    BY <2>1, <2>4, OneRow
<1>6. \/ row' = row \/ (\E w \in Workers : Beat(w)) \/ (\E r \in Recordings : Age(r))
  BY DEF RecoverSelect, ReleaseSelect, NothingToDo, Submit, BeatOnDeleted, Superseded, FailDeleted,
         ReadCurrent, EnrichDeleted, Crash, LoseDatabase, Overrun, vars
<1>7. QED
  BY <1>1, <1>2, <1>3, <1>4, <1>5, <1>6

LEMMA ClaimBilling ==
    ASSUME TypeOK, BillingInv, NEW w \in Workers, NEW r \in Recordings, ClaimTranscription(w, r)
    PROVE  BillingInv'
<1>1. PICK q \in RequestFor(r) :
         /\ row' = [row EXCEPT ![r] = [Written(r, "transcribing") EXCEPT !.request = q]]
         /\ issued' = [issued EXCEPT ![q] = r]
         /\ held' = [held EXCEPT ![w] = [NoJob EXCEPT !.job = r, !.request = q]]
         /\ pc' = [pc EXCEPT ![w] = IF q \in overdue THEN "expired" ELSE "submit"]
  BY DEF ClaimTranscription
<1> DEFINE new == [Written(r, "transcribing") EXCEPT !.request = q]
<1>2. bills' = bills /\ row[r].status = "pending" /\ Registered(r)
  BY DEF ClaimTranscription, MayClaim, Claimable, Registered
<1>3. /\ q \in Requests /\ bills[q] = 0
      /\ issued[q] = r \/ issued[q] = None
      /\ \A p \in Requests : p # q => issued'[p] = issued[p]
      /\ issued'[q] = r
  <2>1. q \in Requests
    BY DEF RequestFor, Unused, TypeOK, Row
  <2>2. bills[q] = 0 /\ (issued[q] = r \/ issued[q] = None)
    BY <2>1 DEF RequestFor, Unused, BillingInv, RequestInv, LedgerInv
  <2>3. QED
    BY <1>1, <2>1, <2>2 DEF TypeOK
<1>4. /\ new.status = "transcribing" /\ new.request = q /\ new.transcript = row[r].transcript
  <2>1. Written(r, "transcribing") \in Row
    BY WrittenType DEF Statuses
  <2>2. QED
    BY <2>1, WrittenFields DEF Row, Statuses
<1>5. /\ row'[r] = new
      /\ \A s \in Recordings : s # r => row'[s] = row[s]
  BY <1>1 DEF TypeOK
<1> HIDE DEF new
<1>6. RequestInv'
  <2> SUFFICES ASSUME NEW s \in Recordings
               PROVE  /\ row'[s].request # None =>
                           Registered(s)' /\ issued'[row'[s].request] = s /\ bills[row'[s].request] = 0
                      /\ row'[s].status = "transcribing" /\ row'[s].current => row'[s].request # None
    BY <1>2 DEF RequestInv, Registered
  <2>1. CASE s = r
    BY <1>2, <1>3, <1>4, <1>5, <2>1, ConstantsOK DEF Registered
  <2>2. CASE s # r
    <3>1. row'[s] = row[s] /\ (Registered(s)' <=> Registered(s))
      BY <1>5, <2>2 DEF Registered
    <3>2. row[s].request # None => row[s].request \in Requests /\ row[s].request # q
      BY <1>3, <2>2, ConstantsOK DEF BillingInv, RequestInv, TypeOK, Row
    <3>3. QED
      BY <1>3, <3>1, <3>2 DEF BillingInv, RequestInv
  <2>3. QED
    BY <2>1, <2>2
<1>7. TranscriptInv'
  <2> SUFFICES ASSUME NEW s \in Recordings, row'[s].transcript # None
               PROVE  /\ Registered(s)'
                      /\ issued'[row'[s].transcript] = s /\ bills[row'[s].transcript] = 1
    BY <1>2 DEF TranscriptInv, Registered
  <2>1. row'[s].transcript = row[s].transcript /\ (Registered(s) => Registered(s)')
    BY <1>4, <1>5 DEF Registered
  <2>2. Registered(s) /\ issued[row[s].transcript] = s /\ bills[row[s].transcript] = 1
    BY <2>1 DEF BillingInv, TranscriptInv
  <2>3. row[s].transcript \in Requests /\ row[s].transcript # q
    BY <2>1, <2>2, <1>3 DEF TypeOK, Row
  <2>4. QED
    BY <2>1, <2>2, <2>3, <1>3
<1>8. LedgerInv'
  <2> SUFFICES ASSUME NEW p \in Requests
               PROVE /\ issued'[p] = None => bills[p] = 0
                     /\ issued'[p] # None => row'[issued'[p]].status # "unregistered"
                     /\ issued'[p] # None /\ Registered(issued[p])' =>
                          bills[p] = 0 \/ (bills[p] = 1 /\ row'[issued'[p]].transcript # None)
    BY <1>2 DEF LedgerInv, Registered
  <2>1. CASE p = q
    BY <1>3, <1>4, <1>5, <2>1
  <2>2. CASE p # q
    <3>1. issued'[p] = issued[p] /\ (issued[p] # None => issued[p] \in Recordings)
      BY <1>3, <2>2 DEF TypeOK
    <3>2. issued[p] # None => /\ row'[issued[p]].transcript = row[issued[p]].transcript
                              /\ row[issued[p]].status # "unregistered" => row'[issued[p]].status # "unregistered"
                              /\ Registered(issued[p])' => Registered(issued[p])
      BY <1>2, <1>4, <1>5, <3>1 DEF Registered
    <3>3. QED
      BY <3>1, <3>2 DEF BillingInv, LedgerInv
  <2>3. QED
    BY <2>1, <2>2
<1>9. HolderInv'
  <2> SUFFICES ASSUME NEW v \in Workers, pc'[v] \in Transcribing
               PROVE  issued'[held'[v].request] = held'[v].job
    BY DEF HolderInv
  <2>1. CASE v = w
    <3>1. held'[w] = [NoJob EXCEPT !.job = r, !.request = q]
      BY <1>1 DEF TypeOK
    <3>2. held'[w].job = r /\ held'[w].request = q
      BY <3>1 DEF NoJob
    <3>3. QED
      BY <1>3, <2>1, <3>2
  <2>2. CASE v # w
    <3>1. held'[v] = held[v] /\ pc[v] \in Transcribing
      BY <1>1, <2>2 DEF TypeOK
    <3>2. /\ held[v].request \in Requests /\ held[v].job \in Recordings
          /\ issued[held[v].request] = held[v].job
      BY <3>1, OwnerFacts
    <3>3. QED
      BY <1>3, <3>1, <3>2, ConstantsOK
  <2>3. QED
    BY <2>1, <2>2
<1>10. QED
  BY <1>6, <1>7, <1>8, <1>9 DEF BillingInv

LEMMA SaveBilling ==
    ASSUME TypeOK, BillingInv, NEW w \in Workers, SaveResult(w)
    PROVE  BillingInv'
<1> DEFINE r == held[w].job
           q == held[w].request
<1>1. /\ r \in Recordings /\ q \in Requests /\ issued[q] = r
      /\ Registered(r) /\ row[r].request = q /\ bills[q] = 0
  <2>1. pc[w] \in Transcribing /\ Registered(r) /\ row[r].request = q
    BY DEF SaveResult, Owns, Transcribing
  <2>2. r \in Recordings /\ q \in Requests /\ issued[q] = r
    BY <2>1, OwnerFacts
  <2>3. bills[q] = 0
    BY <2>1, <2>2, ConstantsOK DEF BillingInv, RequestInv
  <2>4. QED
    BY <2>1, <2>2, <2>3
<1>2. PICK kind \in Results :
         row' = [row EXCEPT ![r] = [Written(r, "summarizing") EXCEPT
                   !.request = None, !.transcript = q, !.result = kind,
                   !.err = IF kind = "undiarized" THEN "diarize" ELSE "none"]]
  BY DEF SaveResult
<1> DEFINE new == [Written(r, "summarizing") EXCEPT
                     !.request = None, !.transcript = q, !.result = kind,
                     !.err = IF kind = "undiarized" THEN "diarize" ELSE "none"]
<1>3. new.status = "summarizing" /\ new.request = None /\ new.transcript = q
  <2>1. Written(r, "summarizing") \in Row
    BY <1>1, WrittenType DEF Statuses
  <2>2. QED
    BY <1>1, <2>1, WrittenFields DEF Row, Statuses
<1>4. /\ row'[r] = new
      /\ \A s \in Recordings : s # r => row'[s] = row[s]
  BY <1>1, <1>2 DEF TypeOK
<1>5. /\ bills'[q] = 1
      /\ \A p \in Requests : p # q => bills'[p] = bills[p]
      /\ issued' = issued
  BY <1>1 DEF SaveResult, TypeOK
<1>6. NoneStarts
  BY DEF SaveResult, NoneStarts, TypeOK, Transcribing
<1> HIDE DEF new, r, q
<1>7. RequestInv'
  <2> SUFFICES ASSUME NEW s \in Recordings
               PROVE  /\ row'[s].request # None =>
                           Registered(s)' /\ issued[row'[s].request] = s /\ bills'[row'[s].request] = 0
                      /\ row'[s].status = "transcribing" /\ row'[s].current => row'[s].request # None
    BY <1>5 DEF RequestInv, Registered
  <2>1. CASE s = r
    BY <1>3, <1>4, <2>1
  <2>2. CASE s # r
    <3>1. row'[s] = row[s] /\ (Registered(s)' <=> Registered(s))
      BY <1>4, <2>2 DEF Registered
    <3>2. row[s].request # None => row[s].request \in Requests /\ row[s].request # q
      BY <1>1, <2>2 DEF BillingInv, RequestInv, TypeOK, Row
    <3>3. QED
      BY <1>5, <3>1, <3>2 DEF BillingInv, RequestInv
  <2>3. QED
    BY <2>1, <2>2
<1>8. TranscriptInv'
  <2> SUFFICES ASSUME NEW s \in Recordings, row'[s].transcript # None
               PROVE  /\ Registered(s)'
                      /\ issued[row'[s].transcript] = s /\ bills'[row'[s].transcript] = 1
    BY <1>5 DEF TranscriptInv, Registered
  <2>1. CASE s = r
    BY <1>1, <1>3, <1>4, <1>5, <2>1 DEF Registered
  <2>2. CASE s # r
    <3>1. row'[s] = row[s] /\ (Registered(s)' <=> Registered(s))
      BY <1>4, <2>2 DEF Registered
    <3>2. Registered(s) /\ issued[row[s].transcript] = s /\ bills[row[s].transcript] = 1
      BY <3>1 DEF BillingInv, TranscriptInv
    <3>3. row[s].transcript \in Requests /\ row[s].transcript # q
      BY <1>1, <2>2, <3>1, <3>2 DEF TypeOK, Row
    <3>4. QED
      BY <1>5, <3>1, <3>2, <3>3
  <2>3. QED
    BY <2>1, <2>2
<1>9. LedgerInv'
  <2> SUFFICES ASSUME NEW p \in Requests
               PROVE /\ issued[p] = None => bills'[p] = 0
                     /\ issued[p] # None => row'[issued[p]].status # "unregistered"
                     /\ issued[p] # None /\ Registered(issued[p])' =>
                          bills'[p] = 0 \/ (bills'[p] = 1 /\ row'[issued[p]].transcript # None)
    BY <1>5 DEF LedgerInv, Registered
  <2>1. q # None /\ r # None
    BY <1>1, ConstantsOK
  <2>2. CASE p = q
    BY <1>1, <1>3, <1>4, <1>5, <2>1, <2>2
  <2>3. CASE p # q
    <3>1. issued[p] # None => issued[p] \in Recordings
      BY DEF TypeOK
    <3>2. bills'[p] = bills[p]
      BY <1>5, <2>3
    <3>3. issued[p] = r \/ issued[p] # r
      OBVIOUS
    <3>4. CASE issued[p] = r
      <4>1. bills[p] = 0 \/ bills[p] = 1
        BY <1>1, <2>1, <3>4 DEF BillingInv, LedgerInv
      <4>2. row'[r].status = "summarizing" /\ row'[r].transcript # None
        BY <1>3, <1>4, <2>1
      <4>3. QED
        BY <2>1, <3>2, <3>4, <4>1, <4>2
    <3>5. CASE issued[p] # r
      BY <1>4, <1>5, <3>1, <3>2, <3>5 DEF BillingInv, LedgerInv, Registered
    <3>6. QED
      BY <3>3, <3>4, <3>5
  <2>4. QED
    BY <2>2, <2>3
<1>10. HolderInv'
  BY <1>5, <1>6 DEF BillingInv, HolderInv, NoneStarts
<1>11. QED
  BY <1>7, <1>8, <1>9, <1>10 DEF BillingInv

LEMMA DeletedBilling ==
    ASSUME TypeOK, BillingInv, NEW w \in Workers, BillDeleted(w)
    PROVE  BillingInv'
<1> DEFINE r == held[w].job
           q == held[w].request
<1>1. r \in Recordings /\ q \in Requests /\ issued[q] = r /\ row[r].status = "deleted"
  BY OwnerFacts DEF BillDeleted, Transcribing
<1>2. /\ row' = row /\ issued' = issued
      /\ \A p \in Requests : p # q => bills'[p] = bills[p]
  BY <1>1 DEF BillDeleted, TypeOK
<1>3. NoneStarts
  BY EndingStarts DEF BillDeleted
<1> HIDE DEF r, q
<1>4. \A s \in Recordings : /\ row[s].request # q
                            /\ row[s].transcript # q
  BY <1>1, ConstantsOK DEF BillingInv, RequestInv, TranscriptInv, Registered
<1>5. \A s \in Recordings : /\ row[s].request # None => row[s].request \in Requests
                            /\ row[s].transcript # None => row[s].transcript \in Requests
  BY DEF TypeOK, Row
<1>6. RequestInv'
  BY <1>2, <1>4, <1>5 DEF BillingInv, RequestInv, Registered
<1>7. TranscriptInv'
  BY <1>2, <1>4, <1>5 DEF BillingInv, TranscriptInv, Registered
<1>8. LedgerInv'
  <2>1. issued[q] # None /\ ~Registered(issued[q])
    BY <1>1, ConstantsOK DEF Registered
  <2>2. QED
    BY <1>1, <1>2, <2>1 DEF BillingInv, LedgerInv, Registered
<1>9. HolderInv'
  BY <1>2, <1>3 DEF BillingInv, HolderInv, NoneStarts
<1>10. QED
  BY <1>6, <1>7, <1>8, <1>9 DEF BillingInv

\* A claim that the quota refuses, and a claim for a summary alone.
LEMMA OtherClaimsQuiet ==
    ASSUME TypeOK, NEW w \in Workers, NEW r \in Recordings, ClaimRefused(w, r) \/ ClaimEnrichment(w, r)
    PROVE  /\ \A s \in Recordings : Quiet(s)
           /\ NoneStarts /\ UNCHANGED <<issued, bills>>
<1>1. Registered(r)
  BY DEF ClaimRefused, ClaimEnrichment, MayClaim, Claimable, MayEnrich, EnrichWaiting, Registered
<1>2. PICK s \in {"quota_blocked", "error", "summarizing"}, new \in Row :
         /\ new.status = s /\ new.request = row[r].request /\ new.transcript = row[r].transcript
         /\ row' = [row EXCEPT ![r] = new]
  <2>1. \A s \in {"quota_blocked", "error", "summarizing"} : s \in Statuses
    BY DEF Statuses
  <2>2. \A s \in {"quota_blocked", "error", "summarizing"} :
           /\ Written(r, s) \in Row /\ Written(r, s).status = s
           /\ Written(r, s).request = row[r].request /\ Written(r, s).transcript = row[r].transcript
    BY <2>1, WrittenType, WrittenFields
  <2> DEFINE failed == [Written(r, "error") EXCEPT !.err = "length"]
  <2>3. /\ failed \in Row /\ failed.status = "error"
        /\ failed.request = row[r].request /\ failed.transcript = row[r].transcript
    BY <2>2 DEF Row, Errors
  <2>4. \/ row' = [row EXCEPT ![r] = Written(r, "quota_blocked")]
        \/ row' = [row EXCEPT ![r] = failed]
        \/ row' = [row EXCEPT ![r] = Written(r, "summarizing")]
    BY DEF ClaimRefused, ClaimEnrichment
  <2> HIDE DEF failed
  <2>5. QED
    BY <2>2, <2>3, <2>4
<1>3. \A t \in Recordings : Quiet(t)
  BY <1>1, <1>2, OneStatus
<1>4. NoneStarts
  <2>1. CASE ClaimRefused(w, r)
    BY <2>1, EndingStarts DEF ClaimRefused
  <2>2. CASE ClaimEnrichment(w, r)
    BY <2>2 DEF ClaimEnrichment, NoneStarts, Transcribing, TypeOK
  <2>3. QED
    BY <2>1, <2>2
<1>5. QED
  BY <1>3, <1>4 DEF ClaimRefused, ClaimEnrichment, runnerVars

LEMMA BillingInit == Init => BillingInv
BY ConstantsOK DEF Init, BillingInv, RequestInv, TranscriptInv, LedgerInv, HolderInv,
                   NewRow, Unregistered, Transcribing

LEMMA BillingStep == TypeOK /\ BillingInv /\ [Next]_vars => BillingInv'
<1> SUFFICES ASSUME TypeOK, BillingInv, [Next]_vars PROVE BillingInv'
  OBVIOUS
<1>1. CASE \E w \in Workers, r \in Recordings : ClaimTranscription(w, r)
  BY <1>1, ClaimBilling
<1>2. CASE \E w \in Workers : SaveResult(w)
  BY <1>2, SaveBilling
<1>3. CASE \E w \in Workers : BillDeleted(w)
  BY <1>3, DeletedBilling
<1>4. CASE \E w \in Workers, r \in Recordings : ClaimRefused(w, r) \/ ClaimEnrichment(w, r)
  BY <1>4, OtherClaimsQuiet, QuietStep
<1>5. CASE \E w \in Workers : RecoverWrite(w) \/ RequeueUnenriched(w) \/ ReleaseWrite(w)
  BY <1>5, MaintenanceQuiet, QuietStep
<1>6. CASE \E w \in Workers : \/ Fail(w) \/ TimeOut(w) \/ RunnerUnreachable(w)
                              \/ EnrichDone(w) \/ EnrichFail(w) \/ CloseJob(w)
  BY <1>6, EndingQuiet, QuietStep
<1>7. CASE RetryFailed \/ \E r \in Recordings : EditRow(r)
  BY <1>7, EditQuiet, QuietStep
<1>8. CASE \/ \E w \in Workers :
                \/ RecoverSelect(w) \/ ReleaseSelect(w) \/ NothingToDo(w) \/ Submit(w)
                \/ BeatOnDeleted(w) \/ Superseded(w) \/ FailDeleted(w)
                \/ ReadCurrent(w) \/ EnrichDeleted(w) \/ Crash(w) \/ LoseDatabase(w) \/ Beat(w)
           \/ \E r \in Recordings : Age(r)
           \/ \E q \in Requests : Overrun(q)
           \/ UNCHANGED vars
  BY <1>8, IdleQuiet, QuietStep
<1>9. QED
  BY <1>1, <1>2, <1>3, <1>4, <1>5, <1>6, <1>7, <1>8 DEF Next, Advance

\* The inductive invariant holds in every reachable state: rows, transcripts, the
\* ledger and the workers' memory agree on which request belongs to which row.
THEOREM BillingCorrect == Spec => []BillingInv
<1>1. Init => TypeOK /\ BillingInv
  BY TypeInit, BillingInit
<1>2. TypeOK /\ BillingInv /\ [Next]_vars => (TypeOK /\ BillingInv)'
  BY TypeStep, BillingStep
<1>3. QED
  BY <1>1, <1>2, PTL DEF Spec

\* The usage ledger never holds a second entry for a request of a recording that
\* still exists, however workers, recoveries and retries interleave.
THEOREM NeverBilledTwice == Spec => []BilledOnce
<1>1. BillingInv => BilledOnce
  BY DEF BillingInv, LedgerInv, BilledOnce
<1>2. QED
  BY <1>1, BillingCorrect, PTL

\* On every row that exists, transcript and ledger agree.
THEOREM TranscriptsPaidFor == Spec => []TranscriptPaid
<1>1. TypeOK /\ BillingInv => TranscriptPaid
  BY ConstantsOK DEF TypeOK, BillingInv, TranscriptInv, LedgerInv, TranscriptPaid
<1>2. QED
  BY <1>1, TypeCorrect, BillingCorrect, PTL

\* Whatever is in flight can be resumed with the request it was started with.
THEOREM FlightsResumable == Spec => []InFlightResumable
<1>1. BillingInv => InFlightResumable
  BY DEF BillingInv, RequestInv, InFlightResumable
<1>2. QED
  BY <1>1, BillingCorrect, PTL

\* A quiet step settles whatever request it takes from a row.
LEMMA QuietSettles ==
    ASSUME BillingInv, NEW r \in Recordings, Quiet(r),
           row[r].request # None, row'[r].request # row[r].request
    PROVE  row'[r].request = None /\ row'[r].status \in {"error", "missing", "deleted"}
BY DEF BillingInv, RequestInv, Quiet, Registered

\* A row gives up its request only with the outcome on record: no crash, outage,
\* recovery or retry costs a row its runner job.
THEOREM RequestsSettled == Spec => RequestSettled
<1> DEFINE Settles(r) ==
        row[r].request # None /\ row'[r].request # row[r].request =>
            /\ row'[r].request = None
            /\ \/ row'[r].transcript = row[r].request
               \/ row'[r].status \in {"error", "missing", "deleted"}
<1>1. ASSUME TypeOK, BillingInv, [Next]_vars, NEW r \in Recordings PROVE Settles(r)
  <2>1. ASSUME NEW w \in Workers, NEW s \in Recordings, ClaimTranscription(w, s) PROVE Settles(r)
    <3>1. PICK q \in RequestFor(s) :
             row' = [row EXCEPT ![s] = [Written(s, "transcribing") EXCEPT !.request = q]]
      BY <2>1 DEF ClaimTranscription
    <3>2. CASE s = r
      <4>1. row[r].request # None => q = row[r].request
        BY <3>1, <3>2 DEF RequestFor
      <4>2. Written(r, "transcribing") \in Row
        BY <1>1, WrittenType DEF Statuses
      <4>3. row'[r].request = q
        BY <1>1, <3>1, <3>2, <4>2 DEF TypeOK, Row
      <4>4. QED
        BY <4>1, <4>3
    <3>3. CASE s # r
      BY <3>1, <3>3 DEF TypeOK
    <3>4. QED
      BY <3>2, <3>3
  <2>2. ASSUME NEW w \in Workers, SaveResult(w) PROVE Settles(r)
    <3>1. PICK kind \in Results :
             row' = [row EXCEPT ![held[w].job] = [Written(held[w].job, "summarizing") EXCEPT
                       !.request = None, !.transcript = held[w].request, !.result = kind,
                       !.err = IF kind = "undiarized" THEN "diarize" ELSE "none"]]
      BY <2>2 DEF SaveResult
    <3>2. CASE held[w].job = r
      <4>1. row[r].request = held[w].request
        BY <2>2, <3>2 DEF SaveResult, Owns
      <4>2. Written(r, "summarizing") \in Row
        BY <1>1, WrittenType DEF Statuses
      <4>3. row'[r].request = None /\ row'[r].transcript = held[w].request
        BY <1>1, <3>1, <3>2, <4>2 DEF TypeOK, Row
      <4>4. QED
        BY <4>1, <4>3
    <3>3. CASE held[w].job # r
      BY <3>1, <3>3 DEF TypeOK
    <3>4. QED
      BY <3>2, <3>3
  <2>3. CASE \E w \in Workers : BillDeleted(w)
    BY <2>3 DEF BillDeleted
  <2>4. CASE Quiet(r)
    BY <1>1, <2>4, QuietSettles
  <2>5. \/ \E w \in Workers : \/ \E s \in Recordings : ClaimTranscription(w, s)
                              \/ SaveResult(w) \/ BillDeleted(w)
        \/ Quiet(r)
    BY <1>1, OtherClaimsQuiet, MaintenanceQuiet, EndingQuiet, EditQuiet, IdleQuiet
    DEF Next, Advance
  <2>6. QED
    BY <2>1, <2>2, <2>3, <2>4, <2>5
<1>2. TypeOK /\ BillingInv /\ [Next]_vars => [\A r \in Recordings : Settles(r)]_vars
  BY <1>1
<1>3. RequestSettled <=> [][\A r \in Recordings : Settles(r)]_vars
  BY DEF RequestSettled
<1> HIDE DEF Settles
<1>4. QED
  BY <1>2, <1>3, TypeCorrect, BillingCorrect, PTL DEF Spec

\* A worker whose request has been taken from under it writes no row when it
\* stops transcribing.
THEOREM SupersededWritesNothing == Spec => SupersededHarmless
<1> DEFINE Harmless(w) ==
        /\ pc[w] \in Transcribing /\ pc'[w] # pc[w]
        /\ row[held[w].job].request # held[w].request
        => row' = row
<1>1. ASSUME TypeOK, [Next]_vars, NEW w \in Workers, pc[w] \in Transcribing, pc'[w] # pc[w],
             row' # row
      PROVE  row[held[w].job].request = held[w].request
  <2>1. ASSUME NEW v \in Workers, Advance(v) \/ Beat(v) \/ Crash(v) \/ LoseDatabase(v) PROVE v = w
    BY <1>1, <2>1
    DEF Advance, TypeOK, RecoverSelect, RecoverWrite, RequeueUnenriched, ReleaseSelect, ReleaseWrite,
        ClaimTranscription, ClaimRefused, ClaimEnrichment, NothingToDo, Submit, SaveResult,
        BillDeleted, BeatOnDeleted, Superseded, FailDeleted, Fail, TimeOut, RunnerUnreachable,
        EnrichDone, EnrichFail, ReadCurrent, CloseJob, EnrichDeleted, Beat, Crash, LoseDatabase,
        EndJob, BackOff
  <2>2. pc' = pc \/ \E v \in Workers : Advance(v) \/ Beat(v) \/ Crash(v) \/ LoseDatabase(v)
    BY <1>1 DEF Next, Age, EditRow, Overrun, vars, RetryFailed, Register, Archive, Sweep, Reappear,
                Move, Heal, Delete, Retry, Edit
  <2>3. Advance(w) \/ Beat(w) \/ Crash(w) \/ LoseDatabase(w)
    BY <1>1, <2>1, <2>2
  <2>4. SaveResult(w) \/ Fail(w) \/ TimeOut(w) \/ RunnerUnreachable(w)
    BY <1>1, <2>3
    DEF Advance, Transcribing, RecoverSelect, RecoverWrite, RequeueUnenriched, ReleaseSelect,
        ReleaseWrite, ClaimTranscription, ClaimRefused, ClaimEnrichment, NothingToDo, Submit,
        BillDeleted, BeatOnDeleted, Superseded, FailDeleted, EnrichDone, EnrichFail, ReadCurrent,
        CloseJob, EnrichDeleted, Beat, Crash, LoseDatabase
  <2>5. Owns(w)
    BY <2>4 DEF SaveResult, Fail, TimeOut, RunnerUnreachable
  <2>6. QED
    BY <2>5 DEF Owns
<1>2. TypeOK /\ [Next]_vars => [\A w \in Workers : Harmless(w)]_vars
  BY <1>1
<1>3. SupersededHarmless <=> [][\A w \in Workers : Harmless(w)]_vars
  BY DEF SupersededHarmless
<1> HIDE DEF Harmless
<1>4. QED
  BY <1>2, <1>3, TypeCorrect, PTL DEF Spec
-----------------------------------------------------------------------------
(* Transcripts with segments are never discarded. *)

\* What makes CheckpointKept inductive: a row that has segments carries no request.
\* It is a request that lets an outage put a row back to "pending".
Kept(x) ==
    x.result \in {"speech", "undiarized"} =>
        x.request = None /\ x.status \notin {"pending", "transcribing", "quota_blocked"}

KeptInv == \A r \in Recordings : Kept(row[r])

\* A status that keeps a transcript, written over a row that is kept.
LEMMA WrittenKept ==
    ASSUME TypeOK, KeptInv, NEW r \in Recordings, NEW s,
           HasSegments(r) => s \notin {"pending", "transcribing", "quota_blocked"}
    PROVE  /\ Kept(Written(r, s))
           /\ \A err : Kept([Written(r, s) EXCEPT !.err = err])
           /\ \A err, summary : Kept([Written(r, s) EXCEPT !.summary = summary, !.err = err])
           /\ Kept([Written(r, s) EXCEPT !.current = TRUE])
           /\ Kept([Written(r, s) EXCEPT !.current = FALSE, !.request = None])
           /\ \A err : Kept([Written(r, s) EXCEPT !.err = err, !.request = None])
BY DEF KeptInv, Kept, Written, HasSegments, TypeOK, Row

LEMMA ResumedKept ==
    ASSUME NEW r, HasSegments(r), NEW transcribed, NEW summarised
    PROVE  ResumeStatus(r, transcribed, summarised) \notin {"pending", "transcribing", "quota_blocked"}
BY DEF ResumeStatus, EnrichWaiting

\* Rows that never had a transcript.
LEMMA BlankKept ==
    /\ Kept(NewRow) /\ Kept(Unregistered)
    /\ Kept([Unregistered EXCEPT !.status = "deleted"])
<1>1. None \notin {"speech", "undiarized"}
  BY ConstantsOK DEF AllResults
<1>2. QED
  BY <1>1 DEF Kept, NewRow, Unregistered

\* One row replaced by one that is kept; an index outside the table replaces nothing.
LEMMA PutKept ==
    ASSUME TypeOK, KeptInv, NEW r, NEW new, r \in Recordings => Kept(new),
           row' = [row EXCEPT ![r] = new]
    PROVE  KeptInv'
BY DEF TypeOK, KeptInv

LEMMA KeptStep == TypeOK /\ KeptInv /\ [Next]_vars => KeptInv'
<1> SUFFICES ASSUME TypeOK, KeptInv, [Next]_vars PROVE KeptInv'
  OBVIOUS
<1>1. ASSUME NEW w \in Workers,
             \/ RecoverSelect(w) \/ ReleaseSelect(w) \/ NothingToDo(w) \/ Submit(w)
             \/ BeatOnDeleted(w) \/ BillDeleted(w) \/ Superseded(w) \/ FailDeleted(w)
             \/ ReadCurrent(w) \/ EnrichDeleted(w) \/ Crash(w) \/ LoseDatabase(w)
      PROVE KeptInv'
  <2>1. row' = row
    BY <1>1 DEF RecoverSelect, ReleaseSelect, NothingToDo, Submit, BeatOnDeleted,
                BillDeleted, Superseded, FailDeleted, ReadCurrent, EnrichDeleted, Crash, LoseDatabase
  <2>2. QED
    BY <2>1 DEF KeptInv
<1>2. ASSUME NEW w \in Workers, RecoverWrite(w) PROVE KeptInv'
  <2>1. \A r \in Recordings : \A a, b : Kept(Written(r, ResumeStatus(r, a, b)))
    BY WrittenKept, ResumedKept
  <2>2. QED
    BY <1>2, <2>1 DEF RecoverWrite, KeptInv
<1>3. ASSUME NEW w \in Workers, RequeueUnenriched(w) PROVE KeptInv'
  <2>1. \A r \in Recordings : Kept(Written(r, EnrichWaiting))
    BY WrittenKept DEF EnrichWaiting
  <2>2. QED
    BY <1>3, <2>1 DEF RequeueUnenriched, KeptInv
<1>4. \A r \in Recordings : Kept(Written(r, Resumed(r)))
  BY WrittenKept, ResumedKept DEF Resumed
<1>5. ASSUME NEW w \in Workers, ReleaseWrite(w) PROVE KeptInv'
  BY <1>4, <1>5 DEF ReleaseWrite, KeptInv
<1>6. ASSUME NEW w \in Workers, NEW r \in Recordings,
             ClaimTranscription(w, r) \/ ClaimRefused(w, r)
      PROVE KeptInv'
  <2>1. ~HasSegments(r)
    BY <1>6 DEF ClaimTranscription, ClaimRefused, MayClaim, Claimable, KeptInv, Kept, HasSegments
  <2>2. \A s : Written(r, s).result = row[r].result
    BY DEF Written, TypeOK, Row
  <2>3. \A s, q, err : /\ Kept(Written(r, s))
                       /\ Kept([Written(r, s) EXCEPT !.request = q])
                       /\ Kept([Written(r, s) EXCEPT !.err = err])
    BY <2>1 DEF Written, TypeOK, Row, Kept, HasSegments
  <2>4. CASE ClaimTranscription(w, r)
    <3>1. PICK q : row' = [row EXCEPT ![r] = [Written(r, "transcribing") EXCEPT !.request = q]]
      BY <2>4 DEF ClaimTranscription
    <3>2. QED
      BY <3>1, <2>3, PutKept
  <2>5. CASE ClaimRefused(w, r)
    BY <2>5, <2>3, PutKept DEF ClaimRefused
  <2>6. QED
    BY <1>6, <2>4, <2>5
<1>7. ASSUME NEW w \in Workers, NEW r \in Recordings, ClaimEnrichment(w, r) PROVE KeptInv'
  BY <1>7, WrittenKept, PutKept DEF ClaimEnrichment
<1>8. ASSUME NEW w \in Workers, Beat(w) PROVE KeptInv'
  <2>1. held[w].job \in Recordings => Kept(Written(held[w].job, row[held[w].job].status))
    BY WrittenKept DEF KeptInv, Kept, HasSegments
  <2>2. QED
    BY <1>8, <2>1, PutKept DEF Beat
<1>9. ASSUME NEW w \in Workers, SaveResult(w) PROVE KeptInv'
  <2> DEFINE saved(kind) ==
        [Written(held[w].job, "summarizing") EXCEPT
           !.request = None, !.transcript = held[w].request, !.result = kind,
           !.err = IF kind = "undiarized" THEN "diarize" ELSE "none"]
  <2>1. PICK kind \in Results : row' = [row EXCEPT ![held[w].job] = saved(kind)]
    BY <1>9 DEF SaveResult
  <2>2. held[w].job \in Recordings => Kept(saved(kind))
    BY DEF Written, TypeOK, Row, Kept
  <2>3. QED
    BY <2>1, <2>2, PutKept
<1>10. ASSUME NEW w \in Workers, Fail(w) \/ TimeOut(w) PROVE KeptInv'
  <2>1. PICK err : Errored(w, err)
    BY <1>10 DEF Fail, TimeOut
  <2>2. held[w].job \in Recordings =>
           Kept([Written(held[w].job, "error") EXCEPT !.err = err, !.request = None])
    BY WrittenKept
  <2>3. QED
    BY <2>1, <2>2, PutKept DEF Errored
<1>11. ASSUME NEW w \in Workers, RunnerUnreachable(w) PROVE KeptInv'
  <2>1. held[w].request # None /\ row[held[w].job].request = held[w].request
    BY <1>11 DEF RunnerUnreachable, Owns, TypeOK, Transcribing
  <2>2. held[w].job \in Recordings => ~HasSegments(held[w].job)
    BY <2>1 DEF KeptInv, Kept, HasSegments
  <2>3. held[w].job \in Recordings => Kept(Written(held[w].job, "pending"))
    BY <2>2, WrittenKept
  <2>4. QED
    BY <1>11, <2>3, PutKept DEF RunnerUnreachable, BackToQueue
<1>12. ASSUME NEW w \in Workers, EnrichDone(w) \/ EnrichFail(w) \/ CloseJob(w) PROVE KeptInv'
  <2>1. \A sawCurrent, summary, err : held[w].job \in Recordings =>
           /\ Kept(Finished(held[w].job, sawCurrent))
           /\ Kept([Finished(held[w].job, sawCurrent) EXCEPT !.err = err])
           /\ Kept([Finished(held[w].job, sawCurrent) EXCEPT !.summary = summary, !.err = err])
    <3> SUFFICES ASSUME NEW sawCurrent, NEW summary, NEW err, held[w].job \in Recordings
                 PROVE  /\ Kept(Finished(held[w].job, sawCurrent))
                        /\ Kept([Finished(held[w].job, sawCurrent) EXCEPT !.err = err])
                        /\ Kept([Finished(held[w].job, sawCurrent) EXCEPT
                                   !.summary = summary, !.err = err])
      OBVIOUS
    <3>1. (IF sawCurrent THEN "done" ELSE "missing") \notin {"pending", "transcribing", "quota_blocked"}
      OBVIOUS
    <3>2. QED
      BY <3>1, WrittenKept DEF Finished
  <2>2. CASE EnrichDone(w)
    <3>1. PICK summary : row' = [row EXCEPT ![held[w].job] =
                                   [Finished(held[w].job, row[held[w].job].current) EXCEPT
                                      !.summary = summary,
                                      !.err = IF held[w].carried THEN "diarize" ELSE "none"]]
      BY <2>2 DEF EnrichDone
    <3>2. QED
      BY <3>1, <2>1, PutKept
  <2>3. CASE EnrichFail(w)
    BY <2>3, <2>1, PutKept DEF EnrichFail
  <2>4. CASE CloseJob(w)
    BY <2>4, <2>1, PutKept DEF CloseJob
  <2>5. QED
    BY <1>12, <2>2, <2>3, <2>4
<1>13. ASSUME NEW r \in Recordings, Age(r) PROVE KeptInv'
  <2>1. Kept([row[r] EXCEPT !.fresh = FALSE])
    BY DEF KeptInv, Kept, TypeOK, Row
  <2>2. QED
    BY <1>13, <2>1, PutKept DEF Age
<1>14. ASSUME NEW r \in Recordings, EditRow(r) PROVE KeptInv'
  <2>1. /\ Kept(Written(r, "missing"))
        /\ Kept([Written(r, "missing") EXCEPT !.current = FALSE, !.request = None])
        /\ Kept([Written(r, Resumed(r)) EXCEPT !.current = TRUE])
        /\ Kept([Written(r, Resumed(r)) EXCEPT !.err = "none"])
    BY WrittenKept, ResumedKept DEF Resumed
  <2>2. CASE Archive(r)
    <3> DEFINE archived == [row EXCEPT ![r] = [Written(r, "missing") EXCEPT
                                                 !.current = FALSE, !.request = None]]
    <3>1. archived \in [Recordings -> Row]
      <4>1. Written(r, "missing") \in Row
        BY WrittenType DEF Statuses
      <4>2. [Written(r, "missing") EXCEPT !.current = FALSE, !.request = None] \in Row
        BY <4>1 DEF Row
      <4>3. QED
        BY <4>2, PutType
    <3>2. \A n \in Recordings : Kept(archived[n])
      BY <2>1 DEF KeptInv, TypeOK
    <3>3. row' = archived \/ \E n \in Recordings : row' = [archived EXCEPT ![n] = NewRow]
      BY <2>2 DEF Archive
    <3> HIDE DEF archived
    <3>4. QED
      BY <3>1, <3>2, <3>3, BlankKept DEF KeptInv
  <2>3. QED
    BY <1>4, <1>14, <2>1, <2>2, BlankKept, PutKept
    DEF EditRow, Register, Sweep, Reappear, Move, Heal, Delete, Retry, Retried
<1>15. CASE RetryFailed
  <2>1. \A r \in Recordings : Kept(Retried(r))
    BY WrittenKept, ResumedKept DEF Retried, Resumed
  <2>2. QED
    BY <1>15, <2>1 DEF RetryFailed, KeptInv
<1>16. CASE (\E q \in Requests : Overrun(q)) \/ UNCHANGED vars
  BY <1>16 DEF Overrun, vars, KeptInv
<1>17. QED
  BY <1>1, <1>2, <1>3, <1>5, <1>6, <1>7, <1>8, <1>9, <1>10, <1>11, <1>12, <1>13,
     <1>14, <1>15, <1>16 DEF Next, Advance

\* Whichever recoveries, releases, retries and rescans race on a row, a stored
\* transcript with segments is never sent back to be transcribed.
THEOREM CheckpointsKept == Spec => []CheckpointKept
<1>1. Init => KeptInv
  BY BlankKept DEF Init, KeptInv
<1>2. KeptInv => CheckpointKept
  BY DEF KeptInv, Kept, CheckpointKept, HasSegments
<1>3. QED
  BY <1>1, <1>2, KeptStep, TypeCorrect, PTL DEF Spec
=============================================================================
