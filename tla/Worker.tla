------------------------------- MODULE Worker -------------------------------
(***************************************************************************)
(* The processing workers of soriham-api (worker.py): several worker       *)
(* processes that share one PostgreSQL database, an external STT runner,   *)
(* and the scans, requests and commands that edit the same rows meanwhile. *)
(*                                                                         *)
(* Atomicity.  One action is one database transaction, together with the   *)
(* reads that its row locks protect.  A claim holds its row from SELECT    *)
(* FOR UPDATE to the commit that marks the row as being processed, so the  *)
(* claim, the quota verdict and that commit are one action; saving a       *)
(* result holds the row from _lock_current_request to the commit.  Where   *)
(* the code reads without a lock and writes later (recover_in_flight,      *)
(* release_quota_blocked, enrich_stage without an enricher), the read and  *)
(* the write are two actions.                                              *)
(*                                                                         *)
(* Rows marked as duplicates are never claimed, in flight or recovered;    *)
(* they, and the files behind the rows, are outside this module.  So is    *)
(* the order in which claimable rows are taken: any of them may be.        *)
(***************************************************************************)
EXTENDS Naturals, FiniteSets

CONSTANTS
    Recordings,     \* the row ids that may come to exist
    Initial,        \* those a first scan has registered before the workers start
    Workers,        \* worker processes
    Requests,       \* values that uuid4() may return for runner_request_id
    None,           \* SQL NULL
    Results,        \* the kinds of result the runner may return
    QuotaVerdicts,  \* what transcription_block may say
    Enrichers,      \* the workers that were started with an enricher
    MayStall,       \* the steps in which a live worker may be silent for 5 minutes
    EditKinds,      \* which edits of the rows by other processes may happen
    MaxFaults,      \* bound on crashes, outages and overruns
    MaxEdits        \* bound on edits

AllResults == {"speech", "undiarized", "silent"}
AllEdits == {"register", "archive", "sweep", "reappear", "move", "heal",
             "delete", "retry", "retry_failed"}

ASSUME ConstantsOK ==
    /\ None \notin Requests /\ None \notin Recordings /\ None \notin AllResults
    /\ Initial \subseteq Recordings
    /\ Results \subseteq AllResults
    /\ QuotaVerdicts \subseteq {"pass", "exceeded", "unknown"}
    /\ Enrichers \subseteq Workers
    /\ EditKinds \subseteq AllEdits
    /\ MaxFaults \in Nat /\ MaxEdits \in Nat

VARIABLES
    row,        \* the recordings table
    issued,     \* for each request id, the row it was drawn for, or None
    bills,      \* for each request id, its "transcribe done" entries in the ledger
    accepted,   \* requests the runner has accepted a job for
    overdue,    \* requests whose job_timeout has run out since runner_started_at
    pc,         \* where each worker stands
    held,       \* the worker's local variables
    snap,       \* ids and checkpoints a worker has read and not yet acted on
    faults, edits

vars == <<row, issued, bills, accepted, overdue, pc, held, snap, faults, edits>>

Statuses == {"unregistered", "deleted", "pending", "transcribing", "enriching",
             "summarizing", "done", "error", "missing", "quota_blocked"}

Errors == {"none", "stt", "timeout", "source", "diarize", "enrich", "length"}

\* One row of the table.  transcript is the request whose result is stored
\* (stt_meta is not NULL), result what kind of result that was, and fresh says
\* that updated_at is younger than STALE_AFTER.
Row == [status: Statuses, current: BOOLEAN, request: Requests \cup {None},
        transcript: Requests \cup {None}, result: AllResults \cup {None},
        summary: BOOLEAN, err: Errors, fresh: BOOLEAN]

NewRow == [status |-> "pending", current |-> TRUE, request |-> None,
           transcript |-> None, result |-> None, summary |-> FALSE,
           err |-> "none", fresh |-> TRUE]

Unregistered == [NewRow EXCEPT !.status = "unregistered", !.current = FALSE]

Steps == {"boot", "boot_recover", "requeue", "idle", "submit", "expired", "poll",
          "enrich", "close", "tidy", "tidy_recover", "release", "release_write"}

\* transcribe_stage after its first commit: about to submit, out of time before
\* that, or polling the runner.
Transcribing == {"submit", "expired", "poll"}

\* The steps in which a worker is at work on a row.
Working == Transcribing \cup {"enrich", "close"}

Locals == [job: Recordings \cup {None}, request: Requests \cup {None},
           carried: BOOLEAN, sawCurrent: BOOLEAN]

NoJob == [job |-> None, request |-> None, carried |-> FALSE, sawCurrent |-> FALSE]

Snapshots == [ids: SUBSET Recordings, transcribed: SUBSET Recordings,
              summarised: SUBSET Recordings]

NoSnap == [ids |-> {}, transcribed |-> {}, summarised |-> {}]

TypeOK ==
    /\ row \in [Recordings -> Row]
    /\ issued \in [Requests -> Recordings \cup {None}]
    /\ bills \in [Requests -> Nat]
    /\ accepted \in SUBSET Requests
    /\ overdue \in SUBSET Requests
    /\ pc \in [Workers -> Steps]
    /\ held \in [Workers -> Locals]
    /\ \A w \in Workers :
         /\ pc[w] \in Working => held[w].job # None
         /\ pc[w] \in Transcribing => held[w].request # None
    /\ snap \in [Workers -> Snapshots]
    /\ faults \in 0..MaxFaults
    /\ edits \in 0..MaxEdits

-----------------------------------------------------------------------------
(* What the code asks of a row. *)

Registered(r) == row[r].status \notin {"unregistered", "deleted"}

\* Every UPDATE of a row also stamps updated_at.
Written(r, status) == [row[r] EXCEPT !.status = status, !.fresh = TRUE]

Claimable == {"pending"}

EnrichWaiting == "enriching"

\* Dropping a status here leaves the rows of crashed workers where they are.
InFlight_NoSummarizing == {"transcribing"}

\* "diarizing" is listed in the code too, but nothing ever assigns it.
InFlight == {"transcribing", "summarizing"}

\* The row has at least one segment; a silent recording has none.
HasSegments(r) == row[r].result \in {"speech", "undiarized"}

\* Forgetting that a transcript is worth keeping.
ResumeStatus_SummaryOnly(r, transcribed, summarised) ==
    IF summarised THEN "done" ELSE "pending"

\* resume_status: stt_meta and summary come from the object as it was loaded,
\* the segments are read from the database when they are asked for.
ResumeStatus(r, transcribed, summarised) ==
    IF summarised THEN "done"
    ELSE IF transcribed \/ HasSegments(r) THEN EnrichWaiting ELSE "pending"

\* The same on a row that is locked, or inside one UPDATE.
Resumed(r) == ResumeStatus(r, row[r].transcript # None, row[r].summary)

\* Rows that recover_in_flight selects.
Stale(r) ==
    /\ row[r].status \in InFlight
    /\ row[r].current
    /\ ~row[r].fresh

\* Forgetting that the file behind the row may have been replaced or retried.
Owns_AnyRequest(w) ==
    /\ Registered(held[w].job)
    /\ row[held[w].job].current

\* _lock_current_request: the row is there, current, and still on this request.
Owns(w) ==
    /\ Registered(held[w].job)
    /\ row[held[w].job].current
    /\ row[held[w].job].request = held[w].request

-----------------------------------------------------------------------------
Init ==
    /\ row = [r \in Recordings |-> IF r \in Initial THEN NewRow ELSE Unregistered]
    /\ issued = [q \in Requests |-> None]
    /\ bills = [q \in Requests |-> 0]
    /\ accepted = {} /\ overdue = {}
    /\ pc = [w \in Workers |-> "boot"]
    /\ held = [w \in Workers |-> NoJob]
    /\ snap = [w \in Workers |-> NoSnap]
    /\ faults = 0 /\ edits = 0

runnerVars == <<issued, bills, accepted, overdue>>
envVars == <<faults, edits>>

\* The job is forgotten, but the worker carries on with the stage.
EndJob_StaysOn(w) ==
    /\ pc' = pc
    /\ held' = [held EXCEPT ![w] = NoJob]

\* Worker w is through with its job.  run_worker tidies up after every
\* MAINTENANCE_EVERY jobs; here it may after any of them.
EndJob(w) ==
    /\ \E next \in {"idle", "tidy"} : pc' = [pc EXCEPT ![w] = next]
    /\ held' = [held EXCEPT ![w] = NoJob]

\* RunnerUnavailable: back to the top of the loop after a sleep.
BackOff(w) ==
    /\ pc' = [pc EXCEPT ![w] = "idle"]
    /\ held' = [held EXCEPT ![w] = NoJob]

-----------------------------------------------------------------------------
(* Start-up and maintenance. *)

\* recover_in_flight reads the stale rows without locking them.
RecoverSelect(w) ==
    /\ pc[w] \in {"boot", "tidy"}
    /\ LET stale == {r \in Recordings : Stale(r)} IN
       snap' = [snap EXCEPT ![w] =
                  [ids |-> stale,
                   transcribed |-> {r \in stale : row[r].transcript # None},
                   summarised |-> {r \in stale : row[r].summary}]]
    /\ pc' = [pc EXCEPT ![w] = IF @ = "boot" THEN "boot_recover" ELSE "tidy_recover"]
    /\ UNCHANGED <<row, runnerVars, held, envVars>>

\* ... and writes the status it works out from what it read.  A row deleted in
\* between fails the whole flush, and the caller drops the rest of its errand.
RecoverWrite(w) ==
    /\ pc[w] \in {"boot_recover", "tidy_recover"}
    /\ IF \A r \in snap[w].ids : Registered(r)
       THEN /\ row' = [r \in Recordings |->
                         IF r \in snap[w].ids
                         THEN Written(r, ResumeStatus(r, r \in snap[w].transcribed,
                                                         r \in snap[w].summarised))
                         ELSE row[r]]
            /\ pc' = [pc EXCEPT ![w] = IF @ = "boot_recover" THEN "requeue" ELSE "release"]
       ELSE /\ row' = row
            /\ pc' = [pc EXCEPT ![w] = "idle"]
    /\ snap' = [snap EXCEPT ![w] = NoSnap]
    /\ UNCHANGED <<runnerVars, held, envVars>>

\* requeue_unenriched, once per start and only with an enricher.
RequeueUnenriched(w) ==
    /\ pc[w] = "requeue"
    /\ row' = [r \in Recordings |->
                 IF /\ w \in Enrichers
                    /\ row[r].status = "done" /\ row[r].current
                    /\ ~row[r].summary /\ row[r].transcript # None
                 THEN Written(r, EnrichWaiting)
                 ELSE row[r]]
    /\ pc' = [pc EXCEPT ![w] = "idle"]
    /\ UNCHANGED <<runnerVars, held, snap, envVars>>

\* release_quota_blocked lists the blocked rows that would pass now, ...
ReleaseSelect(w) ==
    /\ pc[w] = "release"
    /\ \E freed \in SUBSET {r \in Recordings : row[r].status = "quota_blocked" /\ row[r].current} :
         /\ snap' = [snap EXCEPT ![w] = [NoSnap EXCEPT !.ids = freed]]
         /\ pc' = [pc EXCEPT ![w] = IF freed = {} THEN "idle" ELSE "release_write"]
    /\ UNCHANGED <<row, runnerVars, held, envVars>>

\* ... and updates them by id, whatever has become of them since.
ReleaseWrite(w) ==
    /\ pc[w] = "release_write"
    /\ row' = [r \in Recordings |->
                 IF r \in snap[w].ids /\ Registered(r)
                 THEN Written(r, Resumed(r))
                 ELSE row[r]]
    /\ snap' = [snap EXCEPT ![w] = NoSnap]
    /\ pc' = [pc EXCEPT ![w] = "idle"]
    /\ UNCHANGED <<runnerVars, held, envVars>>

-----------------------------------------------------------------------------
(* Claiming: process_one up to the commit that shows the row in progress. *)

MayClaim(r) == row[r].status \in Claimable /\ row[r].current

Unused == {q \in Requests : issued[q] = None}

\* Requests is finite: a row that needs a new id waits when none is left.
CanStart(r) == MayClaim(r) /\ (row[r].request # None \/ Unused # {})

MayEnrich(r) == row[r].status = EnrichWaiting /\ row[r].current

\* The request id survives on the row, and with it the runner's job.
RequestFor(r) == IF row[r].request # None THEN {row[r].request} ELSE Unused

\* The quota lets the row through: transcribe_stage up to its first commit.
ClaimTranscription(w, r) ==
    /\ pc[w] = "idle" /\ MayClaim(r) /\ "pass" \in QuotaVerdicts
    /\ \E q \in RequestFor(r) :
         /\ row' = [row EXCEPT ![r] = [Written(r, "transcribing") EXCEPT !.request = q]]
         /\ issued' = [issued EXCEPT ![q] = r]
         /\ held' = [held EXCEPT ![w] = [NoJob EXCEPT !.job = r, !.request = q]]
         /\ pc' = [pc EXCEPT ![w] = IF q \in overdue THEN "expired" ELSE "submit"]
    /\ UNCHANGED <<bills, accepted, overdue, snap, envVars>>

\* Over the limit the row is parked; with no known length it is an error.
ClaimRefused(w, r) ==
    /\ pc[w] = "idle" /\ MayClaim(r)
    /\ \/ /\ "exceeded" \in QuotaVerdicts
          /\ row' = [row EXCEPT ![r] = Written(r, "quota_blocked")]
       \/ /\ "unknown" \in QuotaVerdicts
          /\ row' = [row EXCEPT ![r] = [Written(r, "error") EXCEPT !.err = "length"]]
    /\ EndJob(w)
    /\ UNCHANGED <<runnerVars, snap, envVars>>

\* A row that only waits for its summary: enrich_stage up to its first commit.
ClaimEnrichment(w, r) ==
    /\ pc[w] = "idle" /\ MayEnrich(r)
    /\ row' = [row EXCEPT ![r] = Written(r, "summarizing")]
    /\ held' = [held EXCEPT ![w] = [NoJob EXCEPT !.job = r, !.carried = (row[r].err = "diarize")]]
    /\ pc' = [pc EXCEPT ![w] = "enrich"]
    /\ UNCHANGED <<runnerVars, snap, envVars>>

\* Nothing to claim: the worker turns to maintenance.
NothingToDo(w) ==
    /\ pc[w] = "idle"
    /\ \A r \in Recordings : ~CanStart(r) /\ ~MayEnrich(r)
    /\ pc' = [pc EXCEPT ![w] = "tidy"]
    /\ UNCHANGED <<row, runnerVars, held, snap, envVars>>

-----------------------------------------------------------------------------
(* Transcription: transcribe_stage after its first commit. *)

\* The runner takes the job, or already has it.
Submit(w) ==
    /\ pc[w] = "submit"
    /\ accepted' = accepted \cup {held[w].request}
    /\ pc' = [pc EXCEPT ![w] = "poll"]
    /\ UNCHANGED <<row, issued, bills, overdue, held, snap, envVars>>

\* A progress report or heartbeat, from the polling loop or between two chunks
\* of a summary.
Beat(w) ==
    /\ pc[w] = "poll" \/ (pc[w] = "enrich" /\ w \in Enrichers)
    /\ Registered(held[w].job) /\ ~row[held[w].job].fresh
    /\ row' = [row EXCEPT ![held[w].job] = Written(held[w].job, @.status)]
    /\ UNCHANGED <<runnerVars, pc, held, snap, envVars>>

\* The same on a row that was deleted: the UPDATE matches nothing and the job
\* is dropped by the error path, which finds no row either.
BeatOnDeleted(w) ==
    /\ pc[w] = "poll" /\ row[held[w].job].status = "deleted"
    /\ EndJob(w)
    /\ UNCHANGED <<row, runnerVars, snap, envVars>>

\* The ledger entry is written ahead of the transcript, in a commit of its own.
SaveResult_BillFirst(w) ==
    /\ pc[w] = "poll" /\ Owns(w)
    /\ bills' = [bills EXCEPT ![held[w].request] = @ + 1]
    /\ pc' = [pc EXCEPT ![w] = "submit"]
    /\ UNCHANGED <<row, issued, accepted, overdue, held, snap, envVars>>

\* The result is saved: transcript, ledger entry and next status in one commit.
SaveResult(w) ==
    /\ pc[w] = "poll" /\ Owns(w)
    /\ \E kind \in Results :
         /\ row' = [row EXCEPT ![held[w].job] =
                      [Written(held[w].job, "summarizing") EXCEPT
                         !.request = None, !.transcript = held[w].request, !.result = kind,
                         !.err = IF kind = "undiarized" THEN "diarize" ELSE "none"]]
         /\ held' = [held EXCEPT ![w].carried = (kind = "undiarized"), ![w].request = None]
    /\ bills' = [bills EXCEPT ![held[w].request] = @ + 1]
    /\ pc' = [pc EXCEPT ![w] = "enrich"]
    /\ UNCHANGED <<issued, accepted, overdue, snap, envVars>>

\* A result for a deleted recording is lost, but the minutes it took count.
BillDeleted(w) ==
    /\ pc[w] = "poll" /\ row[held[w].job].status = "deleted"
    /\ bills' = [bills EXCEPT ![held[w].request] = @ + 1]
    /\ EndJob(w)
    /\ UNCHANGED <<row, issued, accepted, overdue, snap, envVars>>

\* Whatever came of a request that the row no longer carries is thrown away:
\* a result, or any failure.
Superseded(w) ==
    /\ pc[w] \in Transcribing /\ Registered(held[w].job) /\ ~Owns(w)
    /\ EndJob(w)
    /\ UNCHANGED <<row, runnerVars, snap, envVars>>

\* A job that fails for a recording deleted meanwhile leaves nothing behind.
FailDeleted(w) ==
    /\ pc[w] \in Transcribing /\ row[held[w].job].status = "deleted"
    /\ \/ held[w].request \in overdue /\ UNCHANGED faults
       \/ faults < MaxFaults /\ faults' = faults + 1
    /\ EndJob(w)
    /\ UNCHANGED <<row, runnerVars, snap, edits>>

\* The row of worker w ends in an error, and with it the request.
Errored(w, err) ==
    row' = [row EXCEPT ![held[w].job] =
              [Written(held[w].job, "error") EXCEPT !.err = err, !.request = None]]

\* The file was found changed, or the runner refused or failed the job.
Fail(w) ==
    /\ pc[w] \in Transcribing /\ Owns(w)
    /\ \E err \in {"source", "stt"} : Errored(w, err)
    /\ EndJob(w)
    /\ UNCHANGED <<runnerVars, snap, envVars>>

\* RunnerJobTimedOut, while polling, or with no time left at the start of the
\* stage: the row is an error, and the worker holds off the runner.
TimeOut(w) ==
    /\ pc[w] = "expired" \/ (pc[w] = "poll" /\ held[w].request \in overdue)
    /\ Owns(w)
    /\ Errored(w, "timeout")
    /\ BackOff(w)
    /\ UNCHANGED <<runnerVars, snap, envVars>>

\* Back to the queue, but as if from scratch.
BackToQueue_NewRequest(w) ==
    row' = [row EXCEPT ![held[w].job] = [Written(held[w].job, "pending") EXCEPT !.request = None]]

\* Back to the queue with its request, so that the next attempt finds the job.
BackToQueue(w) ==
    row' = [row EXCEPT ![held[w].job] = Written(held[w].job, "pending")]

\* RunnerUnavailable: the runner cannot be reached, while submitting or polling.
RunnerUnreachable(w) ==
    /\ pc[w] \in {"submit", "poll"}
    /\ Owns(w)
    /\ faults < MaxFaults
    /\ faults' = faults + 1
    /\ BackToQueue(w)
    /\ BackOff(w)
    /\ UNCHANGED <<runnerVars, snap, edits>>

-----------------------------------------------------------------------------
(* Enrichment: enrich_stage after its first commit. *)

\* The status a row gets when its enrichment is over.
Finished(r, sawCurrent) == Written(r, IF sawCurrent THEN "done" ELSE "missing")

\* The enricher answers.  Its writes are flushed, and so lock the row, before
\* path_current is read.  An empty answer leaves the summary as it was.
EnrichDone(w) ==
    /\ pc[w] = "enrich" /\ w \in Enrichers /\ Registered(held[w].job)
    /\ \E summary \in {TRUE, row[held[w].job].summary} :
         row' = [row EXCEPT ![held[w].job] =
                   [Finished(held[w].job, @.current) EXCEPT
                      !.summary = summary,
                      !.err = IF held[w].carried THEN "diarize" ELSE "none"]]
    /\ EndJob(w)
    /\ UNCHANGED <<runnerVars, snap, envVars>>

\* The enricher fails: the transcript stands, the error says why no summary.
EnrichFail(w) ==
    /\ pc[w] = "enrich" /\ w \in Enrichers /\ Registered(held[w].job)
    /\ row' = [row EXCEPT ![held[w].job] =
                 [Finished(held[w].job, @.current) EXCEPT !.err = "enrich"]]
    /\ EndJob(w)
    /\ UNCHANGED <<runnerVars, snap, envVars>>

\* Without an enricher path_current is read first, with nothing locked ...
ReadCurrent(w) ==
    /\ pc[w] = "enrich" /\ w \notin Enrichers /\ Registered(held[w].job)
    /\ held' = [held EXCEPT ![w].sawCurrent = row[held[w].job].current]
    /\ pc' = [pc EXCEPT ![w] = "close"]
    /\ UNCHANGED <<row, runnerVars, snap, envVars>>

\* ... and the status that follows from it is written afterwards.
CloseJob(w) ==
    /\ pc[w] = "close" /\ Registered(held[w].job)
    /\ row' = [row EXCEPT ![held[w].job] = Finished(held[w].job, held[w].sawCurrent)]
    /\ EndJob(w)
    /\ UNCHANGED <<runnerVars, snap, envVars>>

\* The row is deleted under an enrichment, which then fails to write anything.
EnrichDeleted(w) ==
    /\ pc[w] \in {"enrich", "close"} /\ row[held[w].job].status = "deleted"
    /\ EndJob(w)
    /\ UNCHANGED <<row, runnerVars, snap, envVars>>

-----------------------------------------------------------------------------
(* Faults and the passing of time. *)

\* The process dies and is started again.
Crash(w) ==
    /\ faults < MaxFaults /\ pc[w] # "boot"
    /\ faults' = faults + 1
    /\ pc' = [pc EXCEPT ![w] = "boot"]
    /\ held' = [held EXCEPT ![w] = NoJob]
    /\ snap' = [snap EXCEPT ![w] = NoSnap]
    /\ UNCHANGED <<row, runnerVars, edits>>

\* The database fails a statement: the loop logs it and goes on without the job.
LoseDatabase(w) ==
    /\ faults < MaxFaults /\ pc[w] # "idle"
    /\ faults' = faults + 1
    /\ BackOff(w)
    /\ snap' = [snap EXCEPT ![w] = NoSnap]
    /\ UNCHANGED <<row, runnerVars, edits>>

\* STALE_AFTER passes with no write to a row in flight.  A live worker on the
\* row prevents that by its heartbeats, except in the steps named by MayStall.
Age(r) ==
    /\ row[r].status \in InFlight /\ row[r].fresh
    /\ \A w \in Workers : held[w].job = r => pc[w] \in MayStall
    /\ row' = [row EXCEPT ![r].fresh = FALSE]
    /\ UNCHANGED <<runnerVars, pc, held, snap, envVars>>

\* job_timeout_sec passes after the first attempt with a request.
Overrun(q) ==
    /\ faults < MaxFaults
    /\ \E r \in Recordings : row[r].request = q
    /\ q \notin overdue
    /\ overdue' = overdue \cup {q}
    /\ faults' = faults + 1
    /\ UNCHANGED <<row, issued, bills, accepted, pc, held, snap, edits>>

-----------------------------------------------------------------------------
(* Edits by scans (ingest.py), by requests (app.py) and from the command line. *)

Edit(kind) ==
    /\ kind \in EditKinds /\ edits < MaxEdits
    /\ edits' = edits + 1
    /\ UNCHANGED <<runnerVars, pc, held, snap, faults>>

\* A new file is registered.
Register(r) ==
    /\ Edit("register")
    /\ row[r].status = "unregistered"
    /\ row' = [row EXCEPT ![r] = NewRow]

\* The path now holds another content: the row lets go of it, and the new
\* content gets a row of its own unless it is known already.
Archive(r) ==
    /\ Edit("archive")
    /\ Registered(r) /\ row[r].current
    /\ LET archived == [row EXCEPT ![r] = [Written(r, "missing") EXCEPT
                                           !.current = FALSE, !.request = None]] IN
       \/ row' = archived
       \/ \E n \in Recordings : /\ row[n].status = "unregistered"
                                /\ row' = [archived EXCEPT ![n] = NewRow]

\* A scan does not find the file.
Sweep(r) ==
    /\ Edit("sweep")
    /\ Registered(r) /\ row[r].current /\ row[r].status # "missing"
    /\ row' = [row EXCEPT ![r] = Written(r, "missing")]

\* The file is back at its path.
Reappear(r) ==
    /\ Edit("reappear")
    /\ row[r].current /\ row[r].status = "missing"
    /\ row' = [row EXCEPT ![r] = Written(r, Resumed(r))]

\* The content turns up at another path, with none of it left at the row's own.
Move(r) ==
    /\ Edit("move")
    /\ Registered(r)
    /\ row' = [row EXCEPT ![r] = [Written(r, Resumed(r)) EXCEPT !.current = TRUE]]

\* A scan confirms the content of a row that was stopped for a changed source.
Heal(r) ==
    /\ Edit("heal")
    /\ Registered(r) /\ row[r].current /\ row[r].status # "missing" /\ row[r].err = "source"
    /\ row' = [row EXCEPT ![r] = [Written(r, Resumed(r)) EXCEPT !.err = "none"]]

\* DELETE /api/recordings/{id}.
Delete(r) ==
    /\ Edit("delete")
    /\ Registered(r)
    /\ row' = [row EXCEPT ![r] = [Unregistered EXCEPT !.status = "deleted"]]

\* What both retries do to a failed row.
Retried(r) == [Written(r, Resumed(r)) EXCEPT !.err = "none"]

MayRetry(r) == row[r].status = "error" /\ row[r].current

\* POST /api/recordings/{id}/retry.
Retry(r) ==
    /\ Edit("retry")
    /\ MayRetry(r)
    /\ row' = [row EXCEPT ![r] = Retried(r)]

\* The retry command: every failed row in one UPDATE.
RetryFailed ==
    /\ Edit("retry_failed")
    /\ \E r \in Recordings : MayRetry(r)
    /\ row' = [r \in Recordings |-> IF MayRetry(r) THEN Retried(r) ELSE row[r]]

-----------------------------------------------------------------------------
\* Everything a worker does of its own accord, heartbeats aside.
Advance(w) ==
    \/ RecoverSelect(w) \/ RecoverWrite(w) \/ RequeueUnenriched(w)
    \/ ReleaseSelect(w) \/ ReleaseWrite(w)
    \/ \E r \in Recordings :
         ClaimTranscription(w, r) \/ ClaimRefused(w, r) \/ ClaimEnrichment(w, r)
    \/ NothingToDo(w)
    \/ Submit(w) \/ SaveResult(w) \/ BillDeleted(w) \/ BeatOnDeleted(w) \/ Superseded(w)
    \/ FailDeleted(w) \/ Fail(w) \/ TimeOut(w) \/ RunnerUnreachable(w)
    \/ EnrichDone(w) \/ EnrichFail(w) \/ ReadCurrent(w) \/ CloseJob(w) \/ EnrichDeleted(w)

EditRow(r) ==
    Register(r) \/ Archive(r) \/ Sweep(r) \/ Reappear(r) \/ Move(r) \/ Heal(r) \/ Delete(r) \/ Retry(r)

Next ==
    \/ \E w \in Workers : Advance(w) \/ Beat(w) \/ Crash(w) \/ LoseDatabase(w)
    \/ \E r \in Recordings : Age(r) \/ EditRow(r)
    \/ \E q \in Requests : Overrun(q)
    \/ RetryFailed

Spec == Init /\ [][Next]_vars

\* run_worker never leaves its loop and every call it waits for has a timeout,
\* and time passes; nothing else is owed.
FairSpec == Spec /\ \A w \in Workers : WF_vars(Advance(w))
                 /\ \A r \in Recordings : WF_vars(Age(r))
-----------------------------------------------------------------------------
(* Properties. *)

\* Whatever workers do to each other's requests, one request of a recording
\* that still exists is never entered in the usage ledger twice.
BilledOnce ==
    \A q \in Requests :
        issued[q] # None /\ Registered(issued[q]) => bills[q] <= 1

\* Transcript and ledger agree on every row that exists: a stored transcript is
\* the result of a request drawn for that row and billed for exactly once, and a
\* row without a transcript has cost its workspace nothing.
TranscriptPaid ==
    \A r \in Recordings : Registered(r) =>
        IF row[r].transcript # None
        THEN issued[row[r].transcript] = r /\ bills[row[r].transcript] = 1
        ELSE \A q \in Requests : issued[q] = r => bills[q] = 0

\* A request that a row carries belongs to that row and is still unsettled, and a
\* row shown as being transcribed carries one: whoever resumes it after a crash
\* finds the runner's job again instead of starting and paying for another.
InFlightResumable ==
    \A r \in Recordings :
        /\ row[r].request # None => issued[row[r].request] = r /\ bills[row[r].request] = 0
        /\ row[r].status = "transcribing" /\ row[r].current => row[r].request # None

\* A row's request was drawn for it and is unsettled; a row in transcription has one.
RequestInv ==
    \A r \in Recordings :
        /\ row[r].request # None =>
             Registered(r) /\ issued[row[r].request] = r /\ bills[row[r].request] = 0
        /\ row[r].status = "transcribing" /\ row[r].current => row[r].request # None

\* A stored transcript was drawn for its row and billed once.
TranscriptInv ==
    \A r \in Recordings :
        row[r].transcript # None =>
             /\ Registered(r)
             /\ issued[row[r].transcript] = r /\ bills[row[r].transcript] = 1

\* What was never drawn was never billed, what was drawn has or had a row, and a
\* bill for a row that exists goes with a transcript.
LedgerInv ==
    \A q \in Requests :
        /\ issued[q] = None => bills[q] = 0
        /\ issued[q] # None => row[issued[q]].status # "unregistered"
        /\ issued[q] # None /\ Registered(issued[q]) =>
             bills[q] = 0 \/ (bills[q] = 1 /\ row[issued[q]].transcript # None)

\* A worker that is transcribing holds a request that was drawn for its row.
HolderInv ==
    \A w \in Workers : pc[w] \in Transcribing => issued[held[w].request] = held[w].job

\* The inductive invariant behind the three above: rows, transcripts, ledger and
\* the workers' memory agree on which request belongs to which row.
BillingInv == RequestInv /\ TranscriptInv /\ LedgerInv /\ HolderInv

\* A worker whose request the row no longer carries (replaced file, deleted row,
\* result saved or failure recorded by another worker) ends its transcription
\* without a trace on any row.
SupersededHarmless ==
    [][\A w \in Workers :
         /\ pc[w] \in Transcribing /\ pc'[w] # pc[w]
         /\ row[held[w].job].request # held[w].request
         => row' = row]_vars

\* A row gives up its request only when the request's outcome is on record: its
\* transcript is saved, the row is an error, or the row has lost its file or is
\* gone.  An outage, a crash or a recovery never costs a row its runner job.
RequestSettled ==
    [][\A r \in Recordings :
         row[r].request # None /\ row'[r].request # row[r].request =>
            /\ row'[r].request = None
            /\ \/ row'[r].transcript = row[r].request
               \/ row'[r].status \in {"error", "missing", "deleted"}]_vars

\* A transcript with segments is a checkpoint that no recovery, release, retry or
\* rescan discards, whichever of them race: its audio is not sent to the runner,
\* held to the quota or paid for again.
CheckpointKept ==
    \A r \in Recordings :
        HasSegments(r) => row[r].status \notin {"pending", "transcribing", "quota_blocked"}

\* While heartbeats come in time: the pipeline drains.  Once crashes, outages and
\* edits are over, every row whose file is current reaches an end and stays there;
\* none is left in progress by a worker that is gone, or passed back and forth.
Drains ==
    <>[](\A r \in Recordings :
           \/ row[r].status \notin {"pending", "transcribing", "enriching", "summarizing"}
           \/ ~row[r].current
           \/ MayClaim(r) /\ ~CanStart(r))   \* no ids left: the bound, not the code

\* An outage is not the recording's fault and never turns it into an error
\* (worker.py:525-526): a row stopped for running out of time had its job
\* accepted by the runner at least once.
OutageIsNoError ==
    [][\A r \in Recordings :
         row'[r].err = "timeout" /\ row[r].err # "timeout" => row[r].request \in accepted]_vars

\* The usage of a recording deleted while the runner works on it is kept
\* (worker.py:344-347): short of a failure, the worker leaves such a job billed.
DeletedUsageKept ==
    [][\A w \in Workers :
         /\ pc[w] = "poll" /\ pc'[w] # "poll" /\ faults' = faults
         /\ row[held[w].job].status = "deleted" /\ held[w].request \notin overdue
         => bills'[held[w].request] = bills[held[w].request] + 1]_vars

\* A failed diarization stays on the screen even when the summary succeeds
\* (worker.py:39, 602): a summarised recording without speakers says so.
DiarizeWarningKept ==
    \A r \in Recordings :
        /\ row[r].status = "done" /\ row[r].current
        /\ row[r].result = "undiarized" /\ row[r].summary
        => row[r].err = "diarize"
=============================================================================
