------------------------------- MODULE Quota --------------------------------
(***************************************************************************)
(* The limits of one workspace, quota.py: minutes of transcription in the  *)
(* last thirty days and bytes stored.  They are checked by an upload, under*)
(* the lock of the process, and by a worker before it sends a recording to *)
(* the runner; the minutes are entered when the runner is done.            *)
(*                                                                         *)
(* What Worker says about one recording (requests, checkpoints, recovery)  *)
(* is a single step here: what counts is when usage is read and entered.   *)
(***************************************************************************)
EXTENDS Integers, FiniteSetsExt

CONSTANTS
    MaxRows,    \* bound on recordings ever registered
    Workers,
    Requests,   \* uploads under way at once
    MaxMinutes, \* the longest recording
    MaxSize,    \* the largest file
    Limit,      \* quota_minutes at first
    MaxLimit,   \* quota_minutes once raised
    Space,      \* quota_bytes
    Window,     \* WINDOW_DAYS, in ticks of the clock
    None        \* NULL

VARIABLES
    row,        \* the recordings
    ledger,     \* of each recording: its transcription in job_logs, for as long as it counts
    job,        \* of each worker: the recording at the runner
    upload,     \* of each request: a file that has passed the checks
    quota       \* quota_minutes

vars == <<row, ledger, job, upload, quota>>

Recordings == 1..MaxRows
Lengths == 1..MaxMinutes
Durations == Lengths \cup {None}
Sizes == 1..MaxSize
Statuses == {"pending", "transcribing", "quota_blocked", "error", "done", "deleted"}

\* duration: what ffprobe said, whatever the length is.  free (history): there was no
\* limit when it was admitted, or its duration was lost while it was at the runner.
Rows == [status: Statuses, duration: Durations, size: Sizes, source: {"scan", "upload"}, free: BOOLEAN]
Entries == [minutes: 0..MaxMinutes, age: 0..Window]
Jobs == [recording: Recordings, age: 0..(Window + 1)]
Files == [duration: Lengths, size: Sizes]

ASSUME ConstantsOK ==
    /\ {MaxRows, MaxMinutes, MaxSize, Limit, MaxLimit, Space, Window} \subseteq Nat
    /\ MaxMinutes > 0 /\ Limit <= MaxLimit
    /\ Workers # {} /\ IsFiniteSet(Workers)
    /\ None \notin Nat \cup Rows \cup Entries \cup Jobs \cup Files

Init ==
    /\ row = [r \in Recordings |-> None]
    /\ ledger = [r \in Recordings |-> None]
    /\ job = [w \in Workers |-> None]
    /\ upload = [u \in Requests |-> None]
    /\ quota \in {Limit, None}

Is(r, status) == row[r] # None /\ row[r].status = status

-----------------------------------------------------------------------------
(* quota.py *)

\* Mutant: what is deleted no longer counts.
Billed_Kept == {r \in Recordings : ledger[r] # None /\ ~Is(r, "deleted")}

\* measure.  NULL minutes are passed over by the sum.
Billed == {r \in Recordings : ledger[r] # None}
Minutes == [r \in Recordings |-> IF ledger[r] = None THEN 0 ELSE ledger[r].minutes]
UsedMinutes == SumFunctionOnSet(Minutes, Billed)
Stored == {r \in Recordings : row[r] # None /\ row[r].status # "deleted"}
Bytes(rows) == SumFunctionOnSet([r \in rows |-> row[r].size], rows)

Left(limit, used) == IF used > limit THEN 0 ELSE limit - used

\* Mutant: a length that could not be read is let through.
AllowsMinutes_Unknown(d) ==
    quota # None => IF d = None THEN TRUE ELSE d <= Left(quota, UsedMinutes)

\* Mutant: what fits to the minute does not fit.
AllowsMinutes_Strict(d) ==
    quota # None => IF d = None THEN FALSE ELSE d < Left(quota, UsedMinutes)

\* check_storage, check_minutes
AllowsBytes(size) == size <= Left(Space, Bytes(Stored))
AllowsMinutes(d) ==
    quota # None => IF d = None THEN FALSE ELSE d <= Left(quota, UsedMinutes)

-----------------------------------------------------------------------------
(* How recordings come and go. *)

New(d, size, source) ==
    [status |-> "pending", duration |-> d, size |-> size, source |-> source, free |-> FALSE]

\* Ids are given out in order.
IsNext(r) == row[r] = None /\ \A q \in Recordings : q < r => row[q] # None

Scan(r, d, size) ==
    /\ IsNext(r)
    /\ row' = [row EXCEPT ![r] = New(d, size, "scan")]
    /\ UNCHANGED <<ledger, job, upload, quota>>

\* Mutant: uploads do not wait for each other.
UploadLocked_Not == FALSE

\* upload_lock
UploadLocked == \E u \in Requests : upload[u] # None

UploadChecks(u, file) ==
    /\ ~UploadLocked /\ upload[u] = None
    /\ AllowsBytes(file.size) /\ AllowsMinutes(file.duration)
    /\ upload' = [upload EXCEPT ![u] = file]
    /\ UNCHANGED <<row, ledger, job, quota>>

UploadCommits(u, r) ==
    /\ upload[u] # None /\ IsNext(r)
    /\ row' = [row EXCEPT ![r] = New(upload[u].duration, upload[u].size, "upload")]
    /\ upload' = [upload EXCEPT ![u] = None]
    /\ UNCHANGED <<ledger, job, quota>>

UploadFails(u) ==
    /\ upload[u] # None /\ upload' = [upload EXCEPT ![u] = None]
    /\ UNCHANGED <<row, ledger, job, quota>>

\* ingest_file on the same file again: ffprobe may fail now, or succeed.
Reprobe(r, d) ==
    /\ row[r] # None /\ row[r].source = "scan" /\ row[r].status \notin {"done", "deleted"}
    /\ row' = [row EXCEPT ![r].duration = d, ![r].free = @ \/ row[r].status = "transcribing"]
    /\ UNCHANGED <<ledger, job, upload, quota>>

\* retry_recording
Retry(r) ==
    /\ Is(r, "error") /\ row' = [row EXCEPT ![r].status = "pending"]
    /\ UNCHANGED <<ledger, job, upload, quota>>

\* The entries stay.
Delete(r) ==
    /\ row[r] # None
    /\ row' = [row EXCEPT ![r].status = "deleted"]
    /\ UNCHANGED <<ledger, job, upload, quota>>

\* soriham quota
Raise ==
    /\ quota = Limit /\ quota' \in {MaxLimit, None} \ {Limit}
    /\ UNCHANGED <<row, ledger, job, upload>>

-----------------------------------------------------------------------------
(* process_one, transcribe_stage. *)

\* A worker takes a waiting recording and asks transcription_block about it.
Free(w) == job[w] = None
Judge(w, r, status) ==
    /\ Free(w) /\ Is(r, "pending")
    /\ row' = [row EXCEPT ![r].status = status,
                          ![r].free = IF status = "transcribing" THEN quota = None ELSE @]
    /\ UNCHANGED <<ledger, upload, quota>>

Admit(w, r) ==
    /\ Judge(w, r, "transcribing") /\ AllowsMinutes(row[r].duration)
    /\ job' = [job EXCEPT ![w] = [recording |-> r, age |-> 0]]
Block(w, r) ==
    /\ Judge(w, r, "quota_blocked") /\ row[r].duration # None /\ ~AllowsMinutes(row[r].duration)
    /\ UNCHANGED job
Refuse(w, r) ==
    /\ Judge(w, r, "error") /\ row[r].duration = None /\ ~AllowsMinutes(None)
    /\ UNCHANGED job

Leave(w) == job[w] # None /\ job' = [job EXCEPT ![w] = None] /\ UNCHANGED <<upload, quota>>

\* Mutant: a failure leaves the status alone.
Outcome_Left(w, status, d) ==
    LET r == job[w].recording IN
    row' = IF Is(r, "transcribing") /\ status = "done"
           THEN [row EXCEPT ![r].status = status, ![r].duration = d] ELSE row

Outcome(w, status, d) ==
    LET r == job[w].recording IN
    row' = IF Is(r, "transcribing")
           THEN [row EXCEPT ![r].status = status, ![r].duration = d] ELSE row

\* The transcript reaches some minute (0: silence), and the duration is no less.  The
\* entry counts from the start of the stage; of a recording that is deleted it has the
\* duration as it was.
Reached(d, minute) == IF d = None THEN IF minute = 0 THEN None ELSE minute
                      ELSE IF d < minute THEN minute ELSE d
Finish(w, minute) ==
    LET r == job[w].recording
        before == row[r].duration
        after == IF Is(r, "transcribing") THEN Reached(before, minute) ELSE before IN
    /\ Leave(w) /\ Outcome(w, "done", after)
    /\ ledger' = [ledger EXCEPT ![r] =
           IF job[w].age > Window THEN None
           ELSE [minutes |-> IF after = None THEN 0 ELSE after, age |-> job[w].age]]

\* The runner fails, or reports progress on a recording that is deleted.
Break(w) == Leave(w) /\ Outcome(w, "error", row[job[w].recording].duration) /\ UNCHANGED ledger

\* The worker dies or loses the runner; the recording is recovered.
Lose(w) == Leave(w) /\ Outcome(w, "pending", row[job[w].recording].duration) /\ UNCHANGED ledger

\* release_quota_blocked
Released == {r \in Recordings : Is(r, "quota_blocked") /\ AllowsMinutes(row[r].duration)}
Release ==
    /\ Released # {}
    /\ row' = [r \in Recordings |-> IF r \in Released THEN [row[r] EXCEPT !.status = "pending"] ELSE row[r]]
    /\ UNCHANGED <<ledger, job, upload, quota>>

\* Time passes: what is older than the window no longer counts.
Older(x, limit) ==
    IF x = None THEN None ELSE IF x.age < limit THEN [x EXCEPT !.age = @ + 1] ELSE x
Tick ==
    /\ ledger' = [r \in Recordings |->
           IF r \in Billed /\ ledger[r].age = Window THEN None ELSE Older(ledger[r], Window)]
    /\ job' = [w \in Workers |-> Older(job[w], Window + 1)]
    /\ UNCHANGED <<row, upload, quota>>

Uploading ==
    \/ \E u \in Requests, file \in Files : UploadChecks(u, file)
    \/ \E u \in Requests, r \in Recordings : UploadCommits(u, r)
    \/ \E u \in Requests : UploadFails(u)
Scanning == \E r \in Recordings, d \in Durations, size \in Sizes : Scan(r, d, size)
Probing == \E r \in Recordings, d \in Durations : Reprobe(r, d)
Steering == Raise \/ \E r \in Recordings : Delete(r) \/ Retry(r)
Working ==
    \/ \E w \in Workers, r \in Recordings : Admit(w, r) \/ Block(w, r) \/ Refuse(w, r)
    \/ \E w \in Workers : Break(w) \/ Lose(w) \/ \E minute \in 0..MaxMinutes : Finish(w, minute)
    \/ Release

Next == Uploading \/ Scanning \/ Probing \/ Steering \/ Working \/ Tick

\* Workers take what waits and finish in the end, they release what they may, and
\* time passes.
Fairness ==
    /\ WF_vars(Tick) /\ WF_vars(Release)
    /\ \A r \in Recordings : SF_vars(\E w \in Workers : Admit(w, r) \/ Block(w, r) \/ Refuse(w, r))
    /\ \A w \in Workers : SF_vars(Break(w) \/ \E minute \in 0..MaxMinutes : Finish(w, minute))

Spec == Init /\ [][Next]_vars /\ Fairness

-----------------------------------------------------------------------------
(* Properties. *)

\* What is at the runner is in the hands of a worker.
TypeOK ==
    /\ row \in [Recordings -> Rows \cup {None}]
    /\ ledger \in [Recordings -> Entries \cup {None}]
    /\ job \in [Workers -> Jobs \cup {None}]
    /\ upload \in [Requests -> Files \cup {None}]
    /\ quota \in {Limit, MaxLimit, None}
    /\ \A r \in Recordings :
         Is(r, "transcribing") => \E w \in Workers : job[w] # None /\ job[w].recording = r

\* The check and the entry are far apart, so that the workers may all pass it on the
\* same usage, with files longer than they say: the last thirty days exceed the limit by
\* less than a recording of each worker, and not by one more, even if the recordings
\* are deleted in between (quota.py:5-6, 127-133).
Busy == {w \in Workers : job[w] # None}
MinutesBounded ==
    quota # None =>
        SumFunctionOnSet(Minutes, Recordings) + Cardinality(Busy) * MaxMinutes
            < quota + Cardinality(Workers) * MaxMinutes

\* Uploads never fill more than the space there is, however many come at once
\* (app.py:194-200).
StorageKept == Bytes({r \in Stored : row[r].source = "upload"}) <= Space

\* Where there is a limit no recording is transcribed for nothing (quota.py:102-104).
NoFreeRide ==
    \A r \in Recordings : Is(r, "done") /\ ledger[r] # None /\ ledger[r].minutes = 0 => row[r].free

\* A recording that the limit holds back, and that fits into it, comes back
\* (worker.py:662): unless it is deleted or its duration is lost.
Fits(r) == row[r].duration # None /\ (quota # None => row[r].duration <= quota)
ComesBack ==
    \A r \in Recordings : Is(r, "quota_blocked") ~> (~Is(r, "quota_blocked") \/ ~Fits(r))
=============================================================================
