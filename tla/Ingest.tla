------------------------------- MODULE Ingest -------------------------------
(***************************************************************************)
(* How files become recordings: ingest.py, watch.py, and the upload and the*)
(* deletion of app.py, in one workspace with one watched folder.           *)
(*                                                                         *)
(* Files change under the program's hands.  Three actors register them, the*)
(* watcher (from events), the scanner (by hand, now and then) and an upload*)
(* (one at a time, under upload_lock); a deletion removes a recording.     *)
(* ingest_file is four steps: read the file, lock its content, lock its    *)
(* path and decide, commit.  Row locks are held to the commit, and whoever *)
(* wants a locked row waits.                                               *)
(*                                                                         *)
(* A stamp stands for file_signature: every change of a file and every     *)
(* rename gives a new one (st_ctime_ns).  Quiet times are left out: an item*)
(* of the watcher may be ready at any time.                                *)
(***************************************************************************)
EXTENDS Integers, Sequences, FiniteSets

CONSTANTS
    Watched,        \* paths in the watched folder
    Uploads,        \* paths in the upload folder
    Contents,       \* what may be in a file
    MaxRows,        \* bound on recordings ever registered
    MaxEdits,       \* bound on changes of files
    MaxMounts,      \* bound on the disk's going and coming back
    MaxRestarts,    \* bound on restarts of the watcher
    BlackoutMin,    \* SWEEP_BLACKOUT_MIN
    None,           \* NULL
    Deleted         \* the row of a deleted recording

Ids == 1..MaxRows
Paths == Watched \cup Uploads
Stamps == 1..MaxEdits
Actors == {"watcher", "scanner", "uploader"}

VARIABLES
    file,       \* of each path: content and stamp
    clock,      \* the last stamp given
    mounted,    \* the disk of the watched folder is there
    mounts,     \* how often it went or came
    row,        \* the recordings
    job,        \* of each actor: the ingest_file under way
    up,         \* the watcher runs
    restarts,
    event,      \* file events on their way to the watcher
    pending,    \* _pending: signature seen, of files not yet quiet
    registered, \* _registered: signature last registered
    ready,      \* the items process_ready has taken from _pending
    scan,       \* the scan under way
    delete,     \* the deletion under way
    history     \* of the past, for the properties only

watchVars == <<up, restarts, event, pending, registered, ready>>
diskVars == <<file, clock, mounted, mounts>>
vars == <<diskVars, row, job, watchVars, scan, delete, history>>

-----------------------------------------------------------------------------
(* Rows.  summary stands for everything a worker has stored. *)

\* "changed" is the error whose text starts with SOURCE_CHANGED_PREFIX.
Statuses == {"pending", "done", "changed", "duplicate", "missing"}
Rows == [path: Paths, content: Contents, stamp: Stamps, source: {"scan", "upload"},
         current: BOOLEAN, status: Statuses, summary: BOOLEAN, dup: Ids \cup {None}]

\* ingest_file under way.  changes: of each row, what the transaction will have written.
Jobs == [step: {"read", "content", "decided"}, path: Paths, content: Contents, stamp: Stamps,
         source: {"scan", "upload"}, locked: SUBSET Ids, changes: [Ids -> Rows \cup {None}]]
Scans == [step: {"walk", "sweep"}, before: BOOLEAN, left: SUBSET Watched, seen: SUBSET Watched,
          gone: SUBSET (Ids \X Watched)]
Deletions == [id: Ids, locked: SUBSET Ids]
Files == [content: Contents, stamp: Stamps]
Events == [kind: {"created", "modified", "deleted", "moved"}, path: Watched]

\* live: the pending item is still the one taken.
Items == [stamp: Stamps, live: BOOLEAN]

\* absent: paths without a file at some moment of the scan; back: the disk came
\* back during the scan; excused: paths the watcher need not know about, their
\* recording having been deleted or swept, or the watcher restarted; raced:
\* duplicates registered while their original was being deleted.
Histories == [absent: SUBSET Watched, back: BOOLEAN, excused: SUBSET Watched, raced: SUBSET Ids]

ASSUME ConstantsOK ==
    /\ Watched \cap Uploads = {}
    /\ {MaxRows, MaxEdits, MaxMounts, MaxRestarts, BlackoutMin} \subseteq Nat
    /\ None \notin Nat \cup Rows \cup Jobs \cup Scans \cup Deletions \cup Files \cup Items
    /\ Deleted \notin Rows \cup {None}

Init ==
    /\ file = [p \in Paths |-> None] /\ clock = 0
    /\ mounted = TRUE /\ mounts = 0
    /\ row = [r \in Ids |-> None]
    /\ job = [a \in Actors |-> None]
    /\ up \in BOOLEAN /\ restarts = 0 /\ event = <<>>
    /\ pending = [p \in Watched |-> None]
    /\ registered = [p \in Watched |-> None]
    /\ ready = [p \in Watched |-> None]
    /\ scan = None /\ delete = None
    /\ history = [absent |-> {}, back |-> FALSE, excused |-> {}, raced |-> {}]

Stored == {r \in Ids : row[r] \notin {None, Deleted}}
First(ids) == CHOOSE r \in ids : \A s \in ids : r <= s
Visible(p) == file[p] # None /\ (p \in Watched => mounted)
Busy(a) == job[a] # None

ResumeStatus(x) ==
    IF x.dup # None THEN "duplicate" ELSE IF x.summary THEN "done" ELSE "pending"

\* _has_matching_file: an equal signature means an equal content.
HasMatchingFile(r) ==
    row[r].current /\ Visible(row[r].path) /\ file[row[r].path].content = row[r].content

FindByContent(c) ==
    {r \in Stored : row[r].content = c /\ row[r].status # "duplicate" /\ row[r].dup = None}
FindMoved(c) == {r \in FindByContent(c) : ~HasMatchingFile(r)}
FindOriginal(c) == {r \in FindByContent(c) : row[r].status # "missing" /\ HasMatchingFile(r)}

\* The query of ingest_file: at most one row, by the unique index on current paths.
At(p) == {r \in Stored : row[r].current /\ row[r].path = p}

LockedBy(a) == IF Busy(a) THEN job[a].locked ELSE {}
LockedByDelete == IF delete = None THEN {} ELSE delete.locked
Unlocked(ids) == ids \cap (LockedByDelete \cup UNION {LockedBy(a) : a \in Actors}) = {}
UnlockedFor(a, ids) ==
    ids \cap (LockedByDelete \cup UNION {LockedBy(b) : b \in Actors \ {a}}) = {}

-----------------------------------------------------------------------------
(* The folder. *)

Tell(kind, p) == event' = IF up THEN Append(event, [kind |-> kind, path |-> p]) ELSE event
Stamped(c) == [content |-> c, stamp |-> clock + 1]
Edit(files, gone) ==
    /\ mounted /\ clock < MaxEdits /\ clock' = clock + 1
    /\ file' = files
    /\ history' = [history EXCEPT !.absent = @ \cup gone]
    /\ UNCHANGED <<mounted, mounts, row, job, up, restarts, pending, registered, ready, scan, delete>>

Write(p, c) ==
    /\ Edit([file EXCEPT ![p] = Stamped(c)], {})
    /\ Tell(IF file[p] = None THEN "created" ELSE "modified", p)

Remove(p) ==
    /\ file[p] # None
    /\ Edit([file EXCEPT ![p] = None], {p})
    /\ Tell("deleted", p)

Rename(p, q) ==
    /\ p # q /\ file[p] # None
    /\ Edit([file EXCEPT ![p] = None, ![q] = Stamped(file[p].content)], {p})
    /\ Tell("moved", q)

\* The disk stays away for longer than a turn of the watcher's loop.
Mount ==
    /\ mounts < MaxMounts /\ mounts' = mounts + 1
    /\ mounted' = ~mounted /\ (~mounted => ~up)
    /\ history' = [history EXCEPT !.back = @ \/ ~mounted]
    /\ UNCHANGED <<file, clock, row, job, watchVars, scan, delete>>

-----------------------------------------------------------------------------
(* ingest_file. *)

\* Up to the hash; a file that changed meanwhile is refused when it is decided on.
Read(a, p, f, source, locked) ==
    /\ ~Busy(a)
    /\ job' = [job EXCEPT ![a] =
         [step |-> "read", path |-> p, content |-> f.content, stamp |-> f.stamp,
          source |-> source, locked |-> locked, changes |-> [r \in Ids |-> None]]]

\* Mutant: the content is not locked.
HoldsContent_Nobody(b, c) == FALSE

\* pg_advisory_xact_lock, held to the end of the transaction.
HoldsContent(b, c) == Busy(b) /\ job[b].step \in {"content", "decided"} /\ job[b].content = c
HoldsPath(b, p) == Busy(b) /\ job[b].step = "decided" /\ job[b].path = p

LockContent(a) ==
    /\ Busy(a) /\ job[a].step = "read"
    /\ \A b \in Actors \ {a} : ~HoldsContent(b, job[a].content)
    /\ job' = [job EXCEPT ![a].step = "content"]
    /\ UNCHANGED <<diskVars, row, watchVars, scan, delete, history>>

\* The file is still the one that was read, and nothing at its path forbids it.
Acceptable(a) ==
    LET j == job[a] IN
    /\ Visible(j.path) /\ file[j.path].stamp = j.stamp
    /\ \A e \in At(j.path) :
         row[e].source = j.source /\ (row[e].content # j.content => j.source = "scan")

\* Mutant: other bytes take over the row of the path.
Archived_InPlace(x) == x

\* The path is released; the row keeps what was made of the old bytes.
Archived(x) == [x EXCEPT !.current = FALSE, !.status = "missing"]

Refreshed(x, j) ==
    [x EXCEPT !.stamp = j.stamp, !.status = IF @ \in {"missing", "changed"} THEN ResumeStatus(x) ELSE @]

\* The source of the row stays what it was.
Moved(x, j) ==
    [x EXCEPT !.path = j.path, !.current = TRUE, !.stamp = j.stamp, !.status = ResumeStatus(x)]

Registered(j) ==
    LET original == FindOriginal(j.content) IN
    [path |-> j.path, content |-> j.content, stamp |-> j.stamp, source |-> j.source,
     current |-> TRUE, summary |-> FALSE,
     status |-> IF original = {} THEN "pending" ELSE "duplicate",
     dup |-> IF original = {} THEN None ELSE First(original)]

Changed(j) == {r \in Ids : j.changes[r] # None}
NewIds == {r \in Ids : row[r] = None /\ \A a \in Actors : Busy(a) => r \notin Changed(job[a])}

Same(j) == \E e \in At(j.path) : row[e].content = j.content

\* The row of the path is refreshed, or makes way for one that moves there or is new.
Changes(j) ==
    LET moved == FindMoved(j.content)
        target == IF Same(j) THEN At(j.path) ELSE {First(IF moved # {} THEN moved ELSE NewIds)}
        becomes(r) == IF Same(j) THEN Refreshed(row[r], j)
                      ELSE IF moved # {} THEN Moved(row[r], j) ELSE Registered(j)
    IN  [r \in Ids |-> IF r \in target THEN becomes(r)
                       ELSE IF r \in At(j.path) THEN Archived(row[r]) ELSE None]

Decide(a) ==
    /\ Busy(a) /\ job[a].step = "content"
    /\ \A b \in Actors \ {a} : ~HoldsPath(b, job[a].path)
    /\ Acceptable(a)
    /\ Same(job[a]) \/ FindMoved(job[a].content) # {} \/ NewIds # {}
    /\ LET wanted == At(job[a].path)
                     \cup IF Same(job[a]) THEN {} ELSE FindByContent(job[a].content) IN
       /\ UnlockedFor(a, wanted)
       /\ job' = [job EXCEPT ![a].step = "decided", ![a].locked = @ \cup wanted,
                             ![a].changes = Changes(job[a])]
    /\ UNCHANGED <<diskVars, row, watchVars, scan, delete, history>>

Commit(a) ==
    LET j == job[a]
        seen == {p \in {j.path} \cap Watched : Visible(p) /\ file[p].stamp = j.stamp}
        raced == {r \in Changed(j) : delete # None /\ j.changes[r].dup = delete.id}
    IN  /\ Busy(a) /\ j.step = "decided"
        /\ row' = [r \in Ids |-> IF r \in Changed(j) THEN j.changes[r] ELSE row[r]]
        /\ job' = [job EXCEPT ![a] = None]
        /\ history' = [history EXCEPT !.excused = @ \ seen, !.raced = @ \cup raced]

\* A rollback: the file is gone or another, the row of the path forbids it, or the
\* database gives up (a deadlock, a connection that is lost).
Fail(a) == Busy(a) /\ job' = [job EXCEPT ![a] = None]

-----------------------------------------------------------------------------
(* watch.py.  Events come in order. *)

\* _maybe_ingest: a new signature replaces the item, which is then another object.
MaybeIngest(p, held, known, taken) ==
    LET seen == IF Visible(p) THEN file[p].stamp ELSE None
        skip == seen \in {None, known[p], held[p]}
    IN  /\ registered' = known
        /\ pending' = IF skip THEN held ELSE [held EXCEPT ![p] = seen]
        /\ ready' = IF skip \/ taken[p] = None THEN taken ELSE [taken EXCEPT ![p].live = FALSE]

Deliver ==
    /\ up /\ event # <<>> /\ event' = Tail(event)
    /\ LET p == Head(event).path
           heldLess == [pending EXCEPT ![p] = None]
           knownLess == [registered EXCEPT ![p] = None]
           takenLess == IF ready[p] = None THEN ready ELSE [ready EXCEPT ![p].live = FALSE]
       IN  CASE Head(event).kind = "modified" -> MaybeIngest(p, heldLess, knownLess, takenLess)
             [] Head(event).kind = "deleted" ->
                  pending' = heldLess /\ registered' = knownLess /\ ready' = takenLess
             [] OTHER -> MaybeIngest(p, pending, registered, ready)
    /\ UNCHANGED <<diskVars, row, job, up, restarts, scan, delete, history>>

\* process_ready begins: the items whose time has come.
TakeReady ==
    /\ up /\ ~Busy("watcher") /\ \A p \in Watched : ready[p] = None
    /\ \E due \in SUBSET {p \in Watched : pending[p] # None} :
         /\ due # {}
         /\ ready' = [p \in Watched |->
                        IF p \in due THEN [stamp |-> pending[p], live |-> TRUE] ELSE None]
    /\ UNCHANGED <<diskVars, row, job, up, restarts, event, pending, registered, scan, delete, history>>

\* Mutant: whatever is pending for the path is taken to be the item just processed.
Forget_Any(p) == pending' = [pending EXCEPT ![p] = None]

\* Mutant: an item that failed is not tried again.
Retry_Drops(p, s) == pending' = IF ready[p].live THEN [pending EXCEPT ![p] = None] ELSE pending

\* An item is removed only if it is still the one that was taken.
Forget(p) == pending' = IF ready[p].live THEN [pending EXCEPT ![p] = None] ELSE pending
Retry(p, s) == pending' = IF ready[p].live THEN [pending EXCEPT ![p] = s] ELSE pending
Dropped(p) == ready' = [ready EXCEPT ![p] = None]

\* The next item of the list: gone, changed since, or to be ingested.
Process(p) ==
    /\ ready[p] # None /\ ~Busy("watcher")
    /\ IF ~Visible(p)
       THEN Forget(p) /\ Dropped(p) /\ UNCHANGED job
       ELSE IF file[p].stamp # ready[p].stamp
       THEN Retry(p, file[p].stamp) /\ Dropped(p) /\ UNCHANGED job
       ELSE Read("watcher", p, file[p], "scan", {}) /\ UNCHANGED <<pending, ready>>
    /\ UNCHANGED <<diskVars, row, up, restarts, event, registered, scan, delete, history>>

WatcherCommits ==
    /\ Commit("watcher")
    /\ LET p == job["watcher"].path IN
       /\ Forget(p) /\ Dropped(p)
       /\ registered' = [registered EXCEPT ![p] = ready[p].stamp]
    /\ UNCHANGED <<diskVars, up, restarts, event, scan, delete>>

\* FileNotFoundError ends it; after any other error the item is tried again.
WatcherFails ==
    /\ Fail("watcher")
    /\ LET p == job["watcher"].path IN
       /\ Dropped(p)
       /\ \/ ~Visible(p) /\ Forget(p)
          \/ Retry(p, ready[p].stamp)
    /\ UNCHANGED <<diskVars, row, up, restarts, event, registered, scan, delete, history>>

\* watch ends with an error or the process dies: everything it knew is lost.
WatcherEnds ==
    /\ up /\ restarts < MaxRestarts /\ restarts' = restarts + 1
    /\ up' = FALSE /\ event' = <<>>
    /\ pending' = [p \in Watched |-> None]
    /\ registered' = [p \in Watched |-> None]
    /\ ready' = [p \in Watched |-> None]
    /\ job' = [job EXCEPT !["watcher"] = None]
    /\ UNCHANGED <<diskVars, row, scan, delete, history>>

WatcherStarts ==
    /\ ~up /\ mounted /\ up' = TRUE
    /\ history' = [history EXCEPT !.excused = Watched]
    /\ UNCHANGED <<diskVars, row, job, restarts, event, pending, registered, ready, scan, delete>>

-----------------------------------------------------------------------------
(* scan. *)

ScanStarts ==
    /\ scan = None
    /\ scan' = [step |-> "walk", before |-> mounted, left |-> Watched, seen |-> {}, gone |-> {}]
    /\ history' = [history EXCEPT !.absent = {p \in Watched : file[p] = None}, !.back = FALSE]
    /\ UNCHANGED <<diskVars, row, job, watchVars, delete>>

Walking == scan # None /\ scan.step = "walk" /\ ~Busy("scanner")

\* os.walk comes to the place of p.  A disk that has gone since its folders were listed
\* is an error, see ScanBreaks.
ScanVisits(p) ==
    /\ Walking /\ p \in scan.left /\ mounted
    /\ IF Visible(p)
       THEN /\ scan' = [scan EXCEPT !.left = @ \ {p}, !.seen = @ \cup {p}]
            /\ Read("scanner", p, file[p], "scan", {})
       ELSE scan' = [scan EXCEPT !.left = @ \ {p}] /\ UNCHANGED job
    /\ UNCHANGED <<diskVars, row, watchVars, delete, history>>

\* Without the disk the folder is listed as empty.
ScanFindsNothing ==
    /\ Walking /\ ~mounted /\ scan.left = Watched
    /\ scan' = [scan EXCEPT !.left = {}]
    /\ UNCHANGED <<diskVars, row, job, watchVars, delete, history>>

ScanCommits == Commit("scanner") /\ UNCHANGED <<diskVars, watchVars, scan, delete>>
ScanFails == Fail("scanner") /\ UNCHANGED <<diskVars, row, watchVars, scan, delete, history>>

\* A folder or file that cannot be read leaves the root incomplete.
ScanBreaks == Walking /\ scan' = None /\ UNCHANGED <<diskVars, row, job, watchVars, delete, history>>

\* Mutant: the device of the folder is not compared with that of the recording.
DeviceSeen_Assumed == TRUE

\* The folder that holds, or held, the file is on the device of its signature.
DeviceSeen == mounted

\* The snapshot of the rows, once the root has been read to its end and is still
\* the same; what no file was seen for and whose device is there is gone.
ScanCompares ==
    /\ Walking /\ scan.left = {}
    /\ LET gone == {r \in Stored : row[r].current /\ row[r].status # "missing"
                                   /\ row[r].source = "scan" /\ row[r].path \in Watched \ scan.seen}
           swept == IF DeviceSeen THEN gone ELSE {}
           blackout == scan.seen = {} /\ Cardinality(swept) > BlackoutMin
       IN  scan' = IF scan.before # mounted \/ blackout \/ swept = {} THEN None
                   ELSE [scan EXCEPT !.step = "sweep", !.gone = {<<r, row[r].path>> : r \in swept}]
    /\ UNCHANGED <<diskVars, row, job, watchVars, delete, history>>

\* By id alone, whatever has become of the row since.
ScanSweeps ==
    /\ scan # None /\ scan.step = "sweep"
    /\ LET gone == {g[1] : g \in scan.gone} \cap Stored IN
       /\ Unlocked(gone)
       /\ row' = [r \in Ids |-> IF r \in gone THEN [row[r] EXCEPT !.status = "missing"] ELSE row[r]]
       /\ history' = [history EXCEPT !.excused = @ \cup (Watched \cap {row[r].path : r \in gone})]
    /\ scan' = None
    /\ UNCHANGED <<diskVars, job, watchVars, delete>>

-----------------------------------------------------------------------------
(* upload_recording, delete_recording. *)

\* find_original answers 409 or leaves the rows locked; finalize takes a path
\* that neither a file nor a row has.
UploadStarts(p, c) ==
    /\ FindOriginal(c) = {} /\ UnlockedFor("uploader", FindByContent(c))
    /\ file[p] = None /\ \A r \in Stored : row[r].path # p
    /\ clock < MaxEdits /\ clock' = clock + 1
    /\ file' = [file EXCEPT ![p] = Stamped(c)]
    /\ Read("uploader", p, Stamped(c), "upload", FindByContent(c))
    /\ UNCHANGED <<mounted, mounts, row, watchVars, scan, delete, history>>

UploadCommits == Commit("uploader") /\ UNCHANGED <<diskVars, watchVars, scan, delete>>

\* The file is unlinked again.
UploadFails ==
    /\ Fail("uploader")
    /\ file' = [file EXCEPT ![job["uploader"].path] = None]
    /\ UNCHANGED <<clock, mounted, mounts, row, watchVars, scan, delete, history>>

Playable(x) == x.current /\ x.path \in (IF x.source = "upload" THEN Uploads ELSE Watched)
Duplicates(r) == {d \in Stored : row[d].dup = r /\ row[d].status = "duplicate"}

\* Mutant: duplicates are left to themselves.
Revived_None(r) == {}

\* UPDATE: the duplicates of r that are to be transcribed in its place.
Revived(r) == Duplicates(r)

\* The file of an upload is unlinked, and the duplicates are updated but not committed.
DeleteStarts(r) ==
    /\ delete = None /\ r \in Stored /\ Unlocked(Revived(r))
    /\ delete' = [id |-> r, locked |-> Revived(r)]
    /\ file' = IF row[r].source = "upload" /\ Playable(row[r])
               THEN [file EXCEPT ![row[r].path] = None] ELSE file
    /\ UNCHANGED <<clock, mounted, mounts, row, job, watchVars, scan, history>>

\* DELETE and commit; the schema sets dup to NULL in the rows that are left.
Touches(r) == {r} \cup {d \in Stored : row[d].dup = r}
DeleteCommits ==
    /\ delete # None
    /\ \A a \in Actors : Touches(delete.id) \cap LockedBy(a) = {}
    /\ LET Left(x) == IF x.dup = delete.id THEN [x EXCEPT !.dup = None] ELSE x IN
       row' = [r \in Ids |->
                 IF r = delete.id THEN Deleted
                 ELSE IF r \in delete.locked THEN [row[r] EXCEPT !.status = "pending", !.dup = None]
                 ELSE IF r \in Stored THEN Left(row[r]) ELSE row[r]]
    /\ history' = [history EXCEPT !.excused = @ \cup ({row[delete.id].path} \cap Watched)]
    /\ delete' = None
    /\ UNCHANGED <<diskVars, job, watchVars, scan>>

DeleteFails == delete # None /\ delete' = None /\ UNCHANGED <<diskVars, row, job, watchVars, scan, history>>

\* The worker, of which Worker has the rest: a scanned file is compared with its row.
Work(r) ==
    /\ r \in Stored /\ row[r].status = "pending" /\ row[r].current /\ Visible(row[r].path)
    /\ Unlocked({r})
    /\ row' = IF row[r].source = "scan" /\ ~HasMatchingFile(r)
              THEN [row EXCEPT ![r].status = "changed"]
              ELSE [row EXCEPT ![r].status = "done", ![r].summary = TRUE]
    /\ UNCHANGED <<diskVars, job, watchVars, scan, delete, history>>

-----------------------------------------------------------------------------
Folder ==
    \/ \E p \in Watched, c \in Contents : Write(p, c)
    \/ \E p \in Watched : Remove(p)
    \/ \E p, q \in Watched : Rename(p, q)
Watching ==
    \/ Deliver \/ TakeReady \/ WatcherCommits \/ WatcherFails \/ LockContent("watcher")
    \/ Decide("watcher")
    \/ \E p \in Watched : Process(p)
Restarting == WatcherEnds \/ WatcherStarts
Scanning ==
    \/ ScanStarts \/ ScanCommits \/ ScanFails \/ ScanFindsNothing \/ ScanBreaks \/ ScanCompares \/ ScanSweeps
    \/ LockContent("scanner") \/ Decide("scanner")
    \/ \E p \in Watched : ScanVisits(p)
Uploading ==
    \/ UploadCommits \/ UploadFails \/ LockContent("uploader") \/ Decide("uploader")
    \/ \E p \in Uploads, c \in Contents : UploadStarts(p, c)
Deleting == DeleteCommits \/ DeleteFails \/ \E r \in Ids : DeleteStarts(r)
Working == \E r \in Ids : Work(r)

Next == Folder \/ Mount \/ Watching \/ Restarting \/ Scanning \/ Uploading \/ Deleting \/ Working
Spec == Init /\ [][Next]_vars

\* The watcher's loop turns, every item's time comes, no error repeats for ever, and
\* scans, being run by hand, are not run without end.
WatcherFair ==
    /\ <>[](scan = None)
    /\ WF_vars(Deliver)
    /\ \A p \in Watched : SF_vars(TakeReady /\ ready'[p] # None) /\ WF_vars(Process(p))
    /\ WF_vars(WatcherFails)
    /\ SF_vars(LockContent("watcher")) /\ SF_vars(Decide("watcher")) /\ SF_vars(WatcherCommits)
FairSpec == Spec /\ WatcherFair

-----------------------------------------------------------------------------
(* Properties. *)

\* A path has one current row (the unique index never refuses a commit).
TypeOK ==
    /\ file \in [Paths -> Files \cup {None}] /\ clock \in 0..MaxEdits
    /\ mounted \in BOOLEAN /\ mounts \in 0..MaxMounts
    /\ row \in [Ids -> Rows \cup {None, Deleted}]
    /\ job \in [Actors -> Jobs \cup {None}]
    /\ up \in BOOLEAN /\ restarts \in 0..MaxRestarts /\ event \in Seq(Events)
    /\ pending \in [Watched -> Stamps \cup {None}]
    /\ registered \in [Watched -> Stamps \cup {None}]
    /\ ready \in [Watched -> Items \cup {None}]
    /\ scan \in Scans \cup {None} /\ delete \in Deletions \cup {None}
    /\ history \in Histories
    /\ \A p \in Paths : \A r, s \in At(p) : r = s

\* A recording is registered as new only if its content has no other recording that
\* stands for it: not through two ingests at once, by whichever two actors
\* (ingest.py:247-249).
OneOriginal ==
    [][\A r \in Ids : row[r] = None /\ row'[r] # None /\ row'[r].status = "pending" =>
         \A o \in FindByContent(row'[r].content) : row[o].status = "missing"]_vars

\* What stands in for a duplicate is a recording of the same content that is none
\* itself, so that a deletion leaves no content without a recording that will be
\* transcribed (app.py:369-371), unless the duplicate was registered while its
\* original was being deleted.
DuplicatesLinked ==
    \A r \in Stored \ history.raced :
        row[r].status = "duplicate" =>
            /\ row[r].dup \in Stored
            /\ row[row[r].dup].dup = None /\ row[row[r].dup].content = row[r].content

\* The watcher forgets no file: one that is there as last registered, or whose event
\* it has seen to, is one a recording has (watch.py:89-93).
Recorded(p) ==
    \E r \in At(p) : row[r].stamp = file[p].stamp /\ row[r].status # "missing"
NotForgotten ==
    \A p \in Watched \ history.excused :
        up /\ Visible(p) /\ pending[p] = None /\ (\A i \in DOMAIN event : event[i].path # p)
        => Recorded(p)

\* The watcher gets round to every file.
Settles ==
    <>[](up => \A p \in Watched \ history.excused : Visible(p) => Recorded(p))

\* A scan marks a recording missing only if there was, at some moment of the scan,
\* no file at its path: a disk that is away takes none with it (ingest.py:406,
\* 426-448), unless it comes back during the scan and few recordings were on it.
SweptWasGone ==
    scan # None =>
        \/ \A g \in scan.gone : g[2] \in history.absent
        \/ history.back /\ Cardinality(scan.gone) <= BlackoutMin

\* A recording whose file was found again plays (ingest.py:283-285).
RestoredPlays ==
    \A r \in Stored :
        row[r].status \notin {"missing", "duplicate"} /\ HasMatchingFile(r) => Playable(row[r])
=============================================================================
