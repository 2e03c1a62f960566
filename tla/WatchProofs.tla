----------------------------- MODULE WatchProofs -----------------------------
(***************************************************************************)
(* The watcher of Ingest forgets no file, for all paths, contents and      *)
(* bounds.  Stamps grow, so that what was seen of a file is told from what *)
(* it has become since; IngestProofs has the invariant of the database     *)
(* that this one is about.                                                 *)
(***************************************************************************)
EXTENDS IngestProofs

-----------------------------------------------------------------------------
(* The invariant. *)

\* A stamp, and a content, that the file at p had at some time.
Past(p, s) == s <= clock /\ (file[p] # None => s <= file[p].stamp)
PastFile(p, s, c) == Past(p, s) /\ (file[p] # None /\ file[p].stamp = s => file[p].content = c)

FilesPast == \A p \in Watched : file[p] # None => file[p].stamp <= clock
JobsPast ==
    \A a \in Actors : Busy(a) /\ job[a].path \in Watched =>
        PastFile(job[a].path, job[a].stamp, job[a].content)
RowsPast ==
    \A r \in Stored : row[r].current /\ row[r].path \in Watched =>
        PastFile(row[r].path, row[r].stamp, row[r].content)
WatchPast ==
    \A p \in Watched :
        /\ pending[p] # None => Past(p, pending[p])
        /\ registered[p] # None => Past(p, registered[p])
        /\ ready[p] # None => Past(p, ready[p].stamp)

Quiet(p) == \A i \in DOMAIN event : event[i].path # p

\* What waits is no older than what is under way or was registered, and is the file
\* there is once its events have been seen to.
Waits ==
    \A p \in Watched :
        /\ ready[p] # None =>
             /\ ready[p].live => pending[p] = ready[p].stamp
             /\ pending[p] # None => ready[p].stamp <= pending[p]
        /\ registered[p] # None /\ pending[p] # None => registered[p] <= pending[p]
        /\ Visible(p) /\ Quiet(p) /\ pending[p] # None => pending[p] = file[p].stamp

\* Without the watcher there is nothing it knows.
Down ==
    ~up =>
        /\ event = <<>> /\ ~Busy("watcher")
        /\ \A p \in Watched : pending[p] = None /\ registered[p] = None /\ ready[p] = None

TurnStamp == Busy("watcher") => job["watcher"].stamp = ready[job["watcher"].path].stamp

\* The file of a last event "deleted" is not there.
Deletes ==
    \A i \in DOMAIN event :
        event[i].kind = "deleted" /\ (\A k \in DOMAIN event : k > i => event[k].path # event[i].path)
        => file[event[i].path] = None

\* A decided ingest will leave a row with its stamp at its path, no older than what is
\* there now.
Lands(a) ==
    /\ job[a].path \in Watched => \A r \in At(job[a].path) : row[r].stamp <= job[a].stamp
    /\ \A r \in Changed(job[a]) : job[a].changes[r].current =>
         job[a].changes[r].stamp = job[a].stamp /\ job[a].changes[r].content = job[a].content
    /\ \E r \in Changed(job[a]) :
         job[a].changes[r].current /\ job[a].changes[r].path = job[a].path
         /\ job[a].changes[r].status # "missing"

\* The rows that it takes from elsewhere are not those of files the watcher answers for.
Answers(r) ==
    /\ row[r].current /\ row[r].path \in Watched \ history.excused /\ up
    /\ Visible(row[r].path) /\ file[row[r].path].stamp = row[r].stamp
Takes(a) == \A r \in Changed(job[a]) \cap Stored : row[r].path # job[a].path => ~Answers(r)

Landing == \A a \in Actors : Busy(a) /\ job[a].step = "decided" => Lands(a) /\ Takes(a)

\* What was registered last and is there still has a recording.
Known ==
    \A p \in Watched \ history.excused :
        Visible(p) /\ registered[p] = file[p].stamp => Recorded(p)

Remembered ==
    /\ FilesPast /\ JobsPast /\ RowsPast /\ WatchPast /\ Waits /\ Down /\ TurnStamp /\ Deletes
    /\ Landing /\ Known /\ NotForgotten

\* The stamps are numbers, which NULL is not.
Numbers ==
    /\ clock \in Nat
    /\ \A p \in Watched :
         /\ file[p] # None => file[p] \in Files /\ file[p].stamp \in Nat
         /\ pending[p] # None => pending[p] \in Nat
         /\ registered[p] # None => registered[p] \in Nat
         /\ ready[p] # None => ready[p] \in Items /\ ready[p].stamp \in Nat
    /\ \A a \in Actors : Busy(a) => job[a].stamp \in Nat
    /\ \A r \in Stored : row[r] \in Rows /\ row[r].stamp \in Nat
    /\ \A i \in DOMAIN event : i \in Nat /\ event[i] \in Events /\ event[i].path \in Watched

LEMMA NumbersHold == Typed => Numbers
<1> SUFFICES ASSUME Typed PROVE Numbers
  OBVIOUS
<1>1. Stamps \subseteq Nat /\ Watched \subseteq Paths /\ clock \in Nat
  BY Apart DEF Typed
<1>2. ASSUME NEW p \in Watched
      PROVE  /\ file[p] # None => file[p] \in Files /\ file[p].stamp \in Nat
             /\ pending[p] # None => pending[p] \in Nat
             /\ registered[p] # None => registered[p] \in Nat
             /\ ready[p] # None => ready[p] \in Items /\ ready[p].stamp \in Nat
  BY <1>1 DEF Typed, Files, Items
<1>3. \A a \in Actors : Busy(a) => job[a].stamp \in Nat
  BY <1>1, BusyJob
<1>4. ASSUME NEW r \in Stored PROVE row[r] \in Rows /\ row[r].stamp \in Nat
  BY <1>1, RowOf DEF Rows
<1>5. ASSUME NEW i \in DOMAIN event PROVE i \in Nat /\ event[i] \in Events /\ event[i].path \in Watched
  <2>1. event \in Seq(Events)
    BY DEF Typed
  <2>2. i \in Nat /\ event[i] \in Events
    BY <2>1
  <2>3. QED
    BY <2>2 DEF Events
<1>6. QED
  BY <1>1, <1>2, <1>3, <1>4, <1>5 DEF Numbers

\* A change in the folder has a new stamp, and its event goes to the watcher.
LEMMA EditRemembered ==
    ASSUME Numbers, Numbers', Remembered, NEW p \in Watched,
           NEW kind \in {"created", "modified", "deleted", "moved"}, Tell(kind, p),
           event \in Seq(Events), clock' = clock + 1, mounted, mounted',
           \A q \in Watched : file'[q] # None =>
             file'[q] = file[q] \/ (q = p /\ file'[q].stamp = clock + 1),
           kind = "deleted" => file'[p] = None,
           UNCHANGED <<row, job, up, pending, registered, ready>>,
           history'.excused = history.excused
    PROVE  Remembered'
<1> USE DEF Numbers
<1>1. FilesPast'
  BY DEF FilesPast, Remembered
<1>2. JobsPast'
  <2>1. SUFFICES ASSUME NEW a \in Actors, Busy(a)', job'[a].path \in Watched
                 PROVE  PastFile(job[a].path, job[a].stamp, job[a].content)'
    BY DEF JobsPast
  <2>2. job'[a] = job[a] /\ Busy(a) /\ job[a].path \in Watched
    BY <2>1 DEF Busy
  <2>3. PastFile(job[a].path, job[a].stamp, job[a].content)
    BY <2>2 DEF JobsPast, Remembered
  <2>4. QED
    BY <2>2, <2>3 DEF PastFile, Past, Busy
<1>3. Stored' = Stored
  BY DEF Stored
<1>4. RowsPast'
  <2>1. SUFFICES ASSUME NEW r \in Stored, row[r].current, row[r].path \in Watched
                 PROVE  PastFile(row[r].path, row[r].stamp, row[r].content)'
    BY <1>3 DEF RowsPast
  <2>2. PastFile(row[r].path, row[r].stamp, row[r].content)
    BY <2>1 DEF RowsPast, Remembered
  <2>3. QED
    BY <2>1, <2>2 DEF PastFile, Past
<1>5. WatchPast'
  BY DEF WatchPast, Past, Remembered
<1>6. /\ up => /\ Len(event') = Len(event) + 1
                /\ event'[Len(event) + 1].kind = kind /\ event'[Len(event) + 1].path = p
      /\ \A i \in 1..Len(event) : event'[i] = event[i] /\ event[i].path \in Watched
      /\ ~up => DOMAIN event = {} /\ DOMAIN event' = {}
      /\ DOMAIN event = 1..Len(event) /\ DOMAIN event' = 1..Len(event') /\ Len(event) \in Nat
  <2> DEFINE told == [kind |-> kind, path |-> p]
  <2>1. told \in Events /\ told.kind = kind /\ told.path = p
    BY DEF Events
  <2>2. ~up => event = <<>> /\ event' = <<>>
    BY DEF Tell, Down, Remembered
  <2>3. \A i \in 1..Len(event) : event[i] \in Events
    OBVIOUS
  <2>4. \A e \in Events : e.path \in Watched
    BY DEF Events
  <2>5. DOMAIN event = 1..Len(event) /\ Len(event) \in Nat /\ ~up => DOMAIN event = {} /\ DOMAIN event' = {}
    BY <2>2
  <2>6. CASE up
    <3>1. event' = Append(event, told)
      BY <2>6 DEF Tell
    <3> HIDE DEF told
    <3>2. /\ Len(event') = Len(event) + 1 /\ event'[Len(event) + 1] = told
          /\ DOMAIN event' = 1..Len(event')
          /\ \A i \in 1..Len(event) : event'[i] = event[i]
      BY <2>1, <3>1
    <3>3. QED
      BY <2>1, <2>3, <2>4, <2>5, <2>6, <3>2
  <2>7. CASE ~up
    BY <2>2, <2>3, <2>4, <2>5, <2>7
  <2>8. QED
    BY <2>6, <2>7
<1>7. \A q \in Watched : Quiet(q)' => Quiet(q) /\ (up => q # p)
  <2>1. SUFFICES ASSUME NEW q \in Watched, Quiet(q)' PROVE Quiet(q) /\ (up => q # p)
    OBVIOUS
  <2>2. \A i \in DOMAIN event' : event'[i].path # q
    BY <2>1 DEF Quiet
  <2>3. CASE up
    <3>1. Len(event) + 1 \in DOMAIN event' /\ \A i \in 1..Len(event) : i \in DOMAIN event'
      BY <1>6, <2>3
    <3>2. QED
      BY <1>6, <2>2, <2>3, <3>1 DEF Quiet
  <2>4. CASE ~up
    BY <1>6, <2>4 DEF Quiet
  <2>5. QED
    BY <2>3, <2>4
<1>8. \A q \in Watched : up /\ Quiet(q)' /\ Visible(q)' => Quiet(q) /\ Visible(q) /\ file'[q] = file[q]
  BY <1>7 DEF Visible
<1>9. Waits'
  <2>1. \A q \in Watched : pending[q] # None => up
    BY DEF Down, Remembered
  <2>2. QED
    BY <1>8, <2>1 DEF Waits, Remembered
<1>10. Down' /\ TurnStamp'
  <2>1. ~up => event' = <<>>
    BY DEF Tell, Down, Remembered
  <2>2. QED
    BY <2>1 DEF Down, TurnStamp, Busy, Remembered
<1>11. Deletes'
  <2>1. SUFFICES ASSUME NEW i \in DOMAIN event', event'[i].kind = "deleted",
                        \A k \in DOMAIN event' : k > i => event'[k].path # event'[i].path
                 PROVE  file'[event'[i].path] = None
    BY DEF Deletes
  <2>2. up
    BY <1>6, <2>1
  <2>3. CASE i = Len(event) + 1
    BY <1>6, <2>1, <2>2, <2>3
  <2>4. CASE i # Len(event) + 1
    <3>1. i \in DOMAIN event /\ event'[i] = event[i] /\ event[i].path # p /\ event[i].path \in Watched
      <4>1. i \in 1..Len(event) /\ Len(event) + 1 \in DOMAIN event' /\ Len(event) + 1 > i
        BY <1>6, <2>1, <2>2, <2>4
      <4>2. QED
        BY <1>6, <2>1, <2>2, <4>1
    <3>2. \A k \in DOMAIN event : k > i => event[k].path # event[i].path
      BY <1>6, <2>1, <2>2, <3>1
    <3>3. file[event[i].path] = None
      BY <2>1, <3>1, <3>2 DEF Deletes, Remembered
    <3>4. QED
      BY <3>1, <3>3
  <2>5. QED
    BY <2>3, <2>4
<1>12. Landing'
  <2>1. SUFFICES ASSUME NEW a \in Actors, Busy(a), job[a].step = "decided"
                 PROVE  Lands(a)' /\ Takes(a)'
    BY DEF Landing, Busy
  <2>2. Lands(a) /\ Takes(a)
    BY <2>1 DEF Landing, Remembered
  <2>3. Lands(a)'
    BY <2>2 DEF Lands, At, Stored, Changed
  <2>4. ASSUME NEW r \in Stored, Answers(r)' PROVE Answers(r)
    <3>1. row[r].current /\ row[r].path \in Watched
      BY <2>4 DEF Answers
    <3>2. PastFile(row[r].path, row[r].stamp, row[r].content)
      BY <3>1 DEF RowsPast, Remembered
    <3>3. QED
      BY <2>4, <3>1, <3>2 DEF Answers, Visible, PastFile, Past
  <2>5. Takes(a)'
    BY <1>3, <2>2, <2>4 DEF Takes, Changed
  <2>6. QED
    BY <2>3, <2>5
<1>13. ASSUME NEW q \in Watched, file'[q] = file[q], Recorded(q) PROVE Recorded(q)'
  BY <1>13 DEF Recorded, At, Stored
<1>14. Known'
  <2>1. SUFFICES ASSUME NEW q \in Watched \ history.excused, Visible(q)', registered[q] = file'[q].stamp
                 PROVE  Recorded(q)'
    BY DEF Known
  <2>2. file'[q] # None /\ registered[q] # None
    BY <2>1, Apart DEF Visible
  <2>3. Past(q, registered[q])
    BY <2>2 DEF WatchPast, Remembered
  <2>4. file'[q] = file[q]
    BY <2>1, <2>2, <2>3 DEF Past
  <2>5. Recorded(q)
    BY <2>1, <2>2, <2>4 DEF Known, Visible, Remembered
  <2>6. QED
    BY <1>13, <2>4, <2>5
<1>15. NotForgotten'
  BY <1>8, <1>13 DEF NotForgotten, Quiet, Remembered
<1>16. QED
  BY <1>1, <1>2, <1>4, <1>5, <1>9, <1>10, <1>11, <1>12, <1>14, <1>15 DEF Remembered

-----------------------------------------------------------------------------
(* What stays with the folder. *)

SameFolder == (\A p \in Watched : file'[p] = file[p]) /\ mounted' = mounted /\ clock <= clock'

LEMMA SameAnswers ==
    ASSUME SameFolder, row' = row, up' => up, history.excused \subseteq history'.excused
    PROVE  \A r \in Ids : Answers(r)' => Answers(r)
BY DEF Answers, Visible, SameFolder

LEMMA SameRecorded ==
    ASSUME SameFolder, row' = row
    PROVE  \A p \in Watched : (Visible(p)' => Visible(p)) /\ (Recorded(p) => Recorded(p)')
BY DEF Recorded, At, Stored, Visible, SameFolder

\* An ingest that goes on lands as before, and takes as before if no more is answered for.
LEMMA StillLands ==
    ASSUME NEW b \in Actors, job'[b] = job[b], row' = row, Lands(b)
    PROVE  Lands(b)'
BY DEF Lands, At, Stored, Changed

LEMMA StillTakes ==
    ASSUME NEW b \in Actors, job'[b] = job[b], row' = row, Takes(b),
           \A r \in Ids : Answers(r)' => Answers(r)
    PROVE  Takes(b)'
BY DEF Takes, Stored, Changed

\* Steps that neither change files or rows nor begin or decide an ingest.
LEMMA DatabaseKept ==
    ASSUME Numbers, Numbers', Remembered, \A p \in Watched : file'[p] = file[p], clock <= clock',
           row' = row, \A b \in Actors : job'[b] = job[b] \/ job'[b] = None,
           \A r \in Ids : Answers(r)' => Answers(r)
    PROVE  FilesPast' /\ JobsPast' /\ RowsPast' /\ Landing'
<1> USE DEF Numbers
<1>1. FilesPast'
  BY DEF FilesPast, Remembered
<1>2. JobsPast'
  <2>1. SUFFICES ASSUME NEW a \in Actors, Busy(a)', job'[a].path \in Watched
                 PROVE  PastFile(job[a].path, job[a].stamp, job[a].content)'
    BY DEF JobsPast
  <2>2. job'[a] = job[a] /\ Busy(a) /\ job[a].path \in Watched
    BY <2>1 DEF Busy
  <2>3. PastFile(job[a].path, job[a].stamp, job[a].content)
    BY <2>2 DEF JobsPast, Remembered
  <2>4. QED
    BY <2>2, <2>3 DEF PastFile, Past, Busy
<1>3. RowsPast'
  <2>1. SUFFICES ASSUME NEW r \in Stored, row[r].current, row[r].path \in Watched
                 PROVE  PastFile(row[r].path, row[r].stamp, row[r].content)'
    BY DEF RowsPast, Stored
  <2>2. PastFile(row[r].path, row[r].stamp, row[r].content)
    BY <2>1 DEF RowsPast, Remembered
  <2>3. QED
    BY <2>1, <2>2 DEF PastFile, Past
<1>4. Landing'
  <2>1. SUFFICES ASSUME NEW a \in Actors, Busy(a)', job'[a].step = "decided"
                 PROVE  Lands(a)' /\ Takes(a)'
    BY DEF Landing
  <2>2. job'[a] = job[a] /\ Busy(a) /\ job[a].step = "decided"
    BY <2>1 DEF Busy
  <2>3. Lands(a) /\ Takes(a)
    BY <2>2 DEF Landing, Remembered
  <2>4. QED
    BY <2>2, <2>3, StillLands, StillTakes
<1>5. QED
  BY <1>1, <1>2, <1>3, <1>4

\* Steps of one ingest, before it commits.
LEMMA JobRemembered ==
    ASSUME Numbers, Numbers', Remembered, NEW a \in Actors, Others(a), SameFolder,
           UNCHANGED <<row, up, event, pending, registered, ready>>,
           history'.excused = history.excused,
           Busy(a)' /\ job'[a].path \in Watched =>
             PastFile(job'[a].path, job'[a].stamp, job'[a].content),
           a = "watcher" /\ Busy(a)' => up /\ job'[a].stamp = ready[job'[a].path].stamp,
           Busy(a)' /\ job'[a].step = "decided" => Lands(a)' /\ Takes(a)'
    PROVE  Remembered'
<1> USE DEF Numbers
<1>1. \A r \in Ids : Answers(r)' => Answers(r)
  BY SameAnswers
<1>2. FilesPast'
  BY DEF FilesPast, SameFolder, Remembered
<1>3. RowsPast'
  <2>1. SUFFICES ASSUME NEW r \in Stored, row[r].current, row[r].path \in Watched
                 PROVE  PastFile(row[r].path, row[r].stamp, row[r].content)'
    BY DEF RowsPast, Stored
  <2>2. PastFile(row[r].path, row[r].stamp, row[r].content)
    BY <2>1 DEF RowsPast, Remembered
  <2>3. QED
    BY <2>1, <2>2 DEF PastFile, Past, SameFolder
<1>4. JobsPast'
  <2>1. SUFFICES ASSUME NEW b \in Actors, Busy(b)', job'[b].path \in Watched
                 PROVE  PastFile(job[b].path, job[b].stamp, job[b].content)'
    BY DEF JobsPast
  <2>2. PastFile(job'[b].path, job'[b].stamp, job'[b].content)
    <3>1. CASE b = a
      BY <2>1, <3>1
    <3>2. CASE b # a
      BY <2>1, <3>2 DEF Others, Busy, JobsPast, Remembered
    <3>3. QED
      BY <3>1, <3>2
  <2>3. QED
    BY <2>1, <2>2 DEF PastFile, Past, SameFolder
<1>5. WatchPast' /\ Waits' /\ Deletes'
  <2>1. WatchPast'
    BY DEF WatchPast, Past, SameFolder, Remembered
  <2>2. Waits'
    BY DEF Waits, Quiet, Visible, SameFolder, Remembered
  <2>3. Deletes'
    BY DEF Deletes, SameFolder, Remembered
  <2>4. QED
    BY <2>1, <2>2, <2>3
<1>6. Down' /\ TurnStamp'
  BY DEF Down, TurnStamp, Busy, Others, Actors, Remembered
<1>7. Landing'
  <2>1. SUFFICES ASSUME NEW b \in Actors, Busy(b)', job'[b].step = "decided"
                 PROVE  Lands(b)' /\ Takes(b)'
    BY DEF Landing
  <2>2. CASE b = a
    BY <2>1, <2>2
  <2>3. CASE b # a
    <3>1. job'[b] = job[b] /\ Busy(b) /\ job[b].step = "decided"
      BY <2>1, <2>3 DEF Busy, Others
    <3>2. Lands(b) /\ Takes(b)
      BY <3>1 DEF Landing, Remembered
    <3>3. QED
      BY <1>1, <3>1, <3>2, StillLands, StillTakes
  <2>4. QED
    BY <2>2, <2>3
<1>8. Known' /\ NotForgotten'
  BY SameRecorded DEF Known, NotForgotten, Quiet, SameFolder, Remembered
<1>9. QED
  BY <1>2, <1>3, <1>4, <1>5, <1>6, <1>7, <1>8 DEF Remembered

-----------------------------------------------------------------------------
(* What the watcher learns. *)

\* An item is done with: the file has gone, it waits again, or it is left to its successor.
LEMMA ItemRemembered ==
    ASSUME Numbers, Numbers', Remembered, SameFolder, NEW p \in Watched, ready[p] # None,
           UNCHANGED <<row, up, event, registered>>, history'.excused = history.excused,
           \A b \in Actors : job'[b] = job[b] \/ job'[b] = None, ~Busy("watcher")',
           ready'[p] = None, \A q \in Watched \ {p} : ready'[q] = ready[q] /\ pending'[q] = pending[q],
           \/ pending'[p] = pending[p]
           \/ pending'[p] = None /\ ~Visible(p)
           \/ pending'[p] = file[p].stamp /\ Visible(p)
    PROVE  Remembered'
<1> USE DEF Numbers
<1>1. up
  BY DEF Down, Remembered
<1>2. \A r \in Ids : Answers(r)' => Answers(r)
  BY SameAnswers
<1>3. FilesPast' /\ JobsPast' /\ RowsPast' /\ Landing'
  BY <1>2, DatabaseKept DEF SameFolder
<1>4. WatchPast'
  <2>1. SUFFICES ASSUME NEW q \in Watched
                 PROVE  /\ pending'[q] # None => Past(q, pending[q])'
                        /\ registered'[q] # None => Past(q, registered[q])'
                        /\ ready'[q] # None => Past(q, ready[q].stamp)'
    BY DEF WatchPast
  <2>2. CASE q = p
    BY <2>2 DEF WatchPast, FilesPast, Visible, Past, SameFolder, Remembered
  <2>3. CASE q # p
    BY <2>3 DEF WatchPast, Past, SameFolder, Remembered
  <2>4. QED
    BY <2>2, <2>3
<1>5. Waits'
  <2>1. SUFFICES ASSUME NEW q \in Watched
                 PROVE  /\ ready'[q] # None =>
                             /\ ready'[q].live => pending'[q] = ready'[q].stamp
                             /\ pending'[q] # None => ready'[q].stamp <= pending'[q]
                        /\ registered'[q] # None /\ pending'[q] # None => registered'[q] <= pending'[q]
                        /\ Visible(q)' /\ Quiet(q)' /\ pending'[q] # None => pending'[q] = file'[q].stamp
    BY DEF Waits
  <2>2. CASE q = p
    <3>1. registered[p] # None => Past(p, registered[p])
      BY DEF WatchPast, Remembered
    <3>2. registered[p] # None /\ pending[p] # None => registered[p] <= pending[p]
      BY DEF Waits, Remembered
    <3>3. Visible(p)' /\ Quiet(p)' /\ pending[p] # None => pending[p] = file[p].stamp
      BY DEF Waits, Visible, Quiet, SameFolder, Remembered
    <3>4. QED
      BY <2>2, <3>1, <3>2, <3>3 DEF Past, Visible, SameFolder
  <2>3. CASE q # p
    BY <2>3 DEF Waits, Visible, Quiet, SameFolder, Remembered
  <2>4. QED
    BY <2>2, <2>3
<1>6. Down' /\ TurnStamp'
  BY <1>1 DEF Down, TurnStamp
<1>7. Deletes'
  BY DEF Deletes, SameFolder, Remembered
<1>8. Known'
  BY SameRecorded DEF Known, SameFolder, Remembered
<1>9. NotForgotten'
  <2>1. SUFFICES ASSUME NEW q \in Watched \ history.excused, Visible(q)', pending'[q] = None, Quiet(q)'
                 PROVE  Recorded(q)'
    BY DEF NotForgotten, Quiet
  <2>2. Visible(q) /\ Quiet(q)
    BY <2>1 DEF Visible, Quiet, SameFolder
  <2>3. pending[q] = None
    BY <2>1, <2>2, Apart DEF Visible
  <2>4. Recorded(q)
    BY <1>1, <2>2, <2>3 DEF NotForgotten, Quiet, Remembered
  <2>5. QED
    BY <2>4, SameRecorded
<1>10. QED
  BY <1>3, <1>4, <1>5, <1>6, <1>7, <1>8, <1>9 DEF Remembered

LEMMA TakeReadyRemembered ==
    ASSUME Typed, Numbers, Numbers', Remembered, TakeReady
    PROVE  Remembered'
<1> USE DEF Numbers
<1>1. /\ up /\ up' /\ ~Busy("watcher") /\ SameFolder /\ \A p \in Watched : ready[p] = None
      /\ UNCHANGED <<file, clock, mounted, row, job, event, pending, registered, history>>
  BY DEF TakeReady, diskVars, SameFolder
<1>2. \A p \in Watched : ready'[p] # None => ready'[p].stamp = pending[p] /\ pending[p] # None
  <2>1. PICK due \in SUBSET {p \in Watched : pending[p] # None} :
             ready' = [p \in Watched |->
                         IF p \in due THEN [stamp |-> pending[p], live |-> TRUE] ELSE None]
    BY DEF TakeReady
  <2>2. QED
    BY <2>1
<1>3. \A r \in Ids : Answers(r)' => Answers(r)
  BY <1>1, SameAnswers
<1>4. FilesPast' /\ JobsPast' /\ RowsPast' /\ Landing'
  BY <1>1, <1>3, DatabaseKept DEF SameFolder
<1>5. WatchPast'
  BY <1>1, <1>2 DEF WatchPast, Past, Remembered
<1>6. Waits'
  BY <1>1, <1>2 DEF Waits, Visible, Quiet, Remembered
<1>7. Down' /\ TurnStamp' /\ Deletes'
  BY <1>1 DEF Down, TurnStamp, Busy, Deletes, Remembered
<1>8. Known' /\ NotForgotten'
  BY <1>1, SameRecorded DEF Known, NotForgotten, Visible, Quiet, Remembered
<1>9. QED
  BY <1>4, <1>5, <1>6, <1>7, <1>8 DEF Remembered

\* What _maybe_ingest does to the path of the event: nothing, or it waits afresh.
Killed(taken, p) == [taken EXCEPT ![p].live = FALSE]

LEMMA DeadAt ==
    ASSUME NEW taken \in [Watched -> Items \cup {None}], NEW p \in Watched, taken[p] # None
    PROVE  /\ Killed(taken, p) \in [Watched -> Items \cup {None}]
           /\ Killed(taken, p)[p] # None /\ ~Killed(taken, p)[p].live
           /\ Killed(taken, p)[p].stamp = taken[p].stamp
           /\ \A q \in Watched \ {p} : Killed(taken, p)[q] = taken[q]
<1>1. taken[p] \in Items
  OBVIOUS
<1>2. PICK i : i = [taken[p] EXCEPT !.live = FALSE]
  OBVIOUS
<1>3. i \in Items /\ ~i.live /\ i.stamp = taken[p].stamp
  BY <1>1, <1>2 DEF Items
<1>4. Killed(taken, p) = [taken EXCEPT ![p] = i]
  BY <1>2 DEF Killed
<1>5. QED
  BY <1>3, <1>4, Apart

LEMMA MaybeIngestAt ==
    ASSUME Typed, NEW p \in Watched,
           NEW held \in [Watched -> Stamps \cup {None}],
           NEW known \in [Watched -> Stamps \cup {None}],
           NEW taken \in [Watched -> Items \cup {None}], MaybeIngest(p, held, known, taken)
    PROVE  /\ \A q \in Watched \ {p} : pending'[q] = held[q] /\ ready'[q] = taken[q]
           /\ registered' = known
           /\ \/ /\ pending'[p] = held[p] /\ ready'[p] = taken[p]
                 /\ ~Visible(p) \/ file[p].stamp \in {known[p], held[p]}
              \/ /\ Visible(p) /\ pending'[p] = file[p].stamp
                 /\ taken[p] = None => ready'[p] = None
                 /\ taken[p] # None => ready'[p] # None /\ ~ready'[p].live /\ ready'[p].stamp = taken[p].stamp
<1> DEFINE seen == IF Visible(p) THEN file[p].stamp ELSE None
           skip == seen \in {None, known[p], held[p]}
           dead == Killed(taken, p)
<1>1. Visible(p) => file[p].stamp \in Stamps /\ None \notin Stamps
  BY Apart DEF Typed, Visible, Files
<1>2. /\ registered' = known
      /\ pending' = IF skip THEN held ELSE [held EXCEPT ![p] = seen]
      /\ ready' = IF skip \/ taken[p] = None THEN taken ELSE dead
  BY DEF MaybeIngest, Killed
<1>3. taken[p] # None => /\ dead[p] # None /\ ~dead[p].live /\ dead[p].stamp = taken[p].stamp
                         /\ \A q \in Watched \ {p} : dead[q] = taken[q]
  BY DeadAt
<1> HIDE DEF dead
<1>4. CASE skip
  BY <1>1, <1>2, <1>4
<1>5. CASE ~skip
  <2>1. Visible(p) /\ pending' = [held EXCEPT ![p] = file[p].stamp]
    BY <1>2, <1>5
  <2>2. QED
    BY <1>2, <1>3, <1>5, <2>1
<1>6. QED
  BY <1>4, <1>5

\* The path p of the first event, and the events that are left.
LEMMA DeliverAt ==
    ASSUME Typed, Numbers, Deliver, NEW p, p = event[1].path
    PROVE  /\ p \in Watched /\ up /\ event # <<>> /\ event' = Tail(event)
           /\ \A q \in Watched \ {p} : /\ pending'[q] = pending[q] /\ registered'[q] = registered[q]
                                      /\ ready'[q] = ready[q]
           /\ ready[p] = None => ready'[p] = None
           /\ ready[p] # None => ready'[p] # None /\ ready'[p].stamp = ready[p].stamp
           /\ \/ /\ pending'[p] = None /\ registered'[p] = None
                 /\ ready'[p] # None => ~ready'[p].live
                 /\ event[1].kind = "deleted" \/ ~Visible(p)
              \/ /\ pending'[p] = pending[p] /\ registered'[p] = registered[p] /\ ready'[p] = ready[p]
                 /\ ~Visible(p) \/ file[p].stamp \in {registered[p], pending[p]}
              \/ /\ Visible(p) /\ pending'[p] = file[p].stamp /\ registered'[p] \in {None, registered[p]}
                 /\ ready'[p] # None => ~ready'[p].live
<1> DEFINE heldLess == [pending EXCEPT ![p] = None]
           knownLess == [registered EXCEPT ![p] = None]
           takenLess == IF ready[p] = None THEN ready ELSE Killed(ready, p)
<1>1. up /\ event # <<>> /\ event' = Tail(event) /\ p = Head(event).path /\ Head(event) = event[1]
  BY DEF Deliver, Typed
<1>2. p \in Watched
  <2>1. 1 \in DOMAIN event
    BY <1>1 DEF Typed
  <2>2. QED
    BY <2>1 DEF Numbers
<1>3. /\ pending \in [Watched -> Stamps \cup {None}] /\ registered \in [Watched -> Stamps \cup {None}]
      /\ ready \in [Watched -> Items \cup {None}]
  BY DEF Typed
<1>4. /\ heldLess \in [Watched -> Stamps \cup {None}] /\ knownLess \in [Watched -> Stamps \cup {None}]
      /\ heldLess[p] = None /\ knownLess[p] = None
      /\ \A q \in Watched \ {p} : heldLess[q] = pending[q] /\ knownLess[q] = registered[q]
  BY <1>2, <1>3
<1>5. /\ takenLess \in [Watched -> Items \cup {None}]
      /\ ready[p] = None => takenLess[p] = None
      /\ ready[p] # None => /\ takenLess[p] # None /\ ~takenLess[p].live
                             /\ takenLess[p].stamp = ready[p].stamp
      /\ \A q \in Watched \ {p} : takenLess[q] = ready[q]
  <2>1. CASE ready[p] = None
    BY <1>3, <2>1
  <2>2. CASE ready[p] # None
    <3>1. takenLess = Killed(ready, p)
      BY <2>2
    <3>2. QED
      BY <1>2, <1>3, <2>2, <3>1, DeadAt
  <2>3. QED
    BY <2>1, <2>2
<1>6. \/ Head(event).kind = "modified" /\ MaybeIngest(p, heldLess, knownLess, takenLess)
      \/ Head(event).kind = "deleted" /\ pending' = heldLess /\ registered' = knownLess /\ ready' = takenLess
      \/ MaybeIngest(p, pending, registered, ready)
  BY <1>1 DEF Deliver, Killed
<1>7. Visible(p) => file[p].stamp # None
  BY <1>2, Apart DEF Numbers, Visible
<1> HIDE DEF heldLess, knownLess, takenLess
<1>8. CASE Head(event).kind = "modified" /\ MaybeIngest(p, heldLess, knownLess, takenLess)
  <2>1. /\ \A q \in Watched \ {p} : pending'[q] = heldLess[q] /\ ready'[q] = takenLess[q]
        /\ registered' = knownLess
        /\ \/ /\ pending'[p] = heldLess[p] /\ ready'[p] = takenLess[p]
              /\ ~Visible(p) \/ file[p].stamp \in {knownLess[p], heldLess[p]}
           \/ /\ Visible(p) /\ pending'[p] = file[p].stamp
              /\ takenLess[p] = None => ready'[p] = None
              /\ takenLess[p] # None =>
                   ready'[p] # None /\ ~ready'[p].live /\ ready'[p].stamp = takenLess[p].stamp
    BY <1>2, <1>4, <1>5, <1>8, MaybeIngestAt
  <2>2. QED
    BY <1>1, <1>2, <1>4, <1>5, <1>7, <2>1
<1>9. CASE Head(event).kind = "deleted" /\ pending' = heldLess /\ registered' = knownLess /\ ready' = takenLess
  BY <1>1, <1>2, <1>4, <1>5, <1>9
<1>10. CASE MaybeIngest(p, pending, registered, ready)
  <2>1. /\ \A q \in Watched \ {p} : pending'[q] = pending[q] /\ ready'[q] = ready[q]
        /\ registered' = registered
        /\ \/ /\ pending'[p] = pending[p] /\ ready'[p] = ready[p]
              /\ ~Visible(p) \/ file[p].stamp \in {registered[p], pending[p]}
           \/ /\ Visible(p) /\ pending'[p] = file[p].stamp
              /\ ready[p] = None => ready'[p] = None
              /\ ready[p] # None =>
                   ready'[p] # None /\ ~ready'[p].live /\ ready'[p].stamp = ready[p].stamp
    BY <1>2, <1>3, <1>10, MaybeIngestAt
  <2>2. QED
    BY <1>1, <1>2, <2>1
<1>11. QED
  BY <1>6, <1>8, <1>9, <1>10

LEMMA DeliverRemembered ==
    ASSUME Typed, Taken, Numbers, Numbers', Remembered, Deliver
    PROVE  Remembered'
<1> USE DEF Numbers
<1>1. PICK p : p = event[1].path
  OBVIOUS
<1>2. /\ p \in Watched /\ up /\ event # <<>> /\ event' = Tail(event)
      /\ \A q \in Watched \ {p} : /\ pending'[q] = pending[q] /\ registered'[q] = registered[q]
                                 /\ ready'[q] = ready[q]
      /\ ready[p] = None => ready'[p] = None
      /\ ready[p] # None => ready'[p] # None /\ ready'[p].stamp = ready[p].stamp
      /\ \/ /\ pending'[p] = None /\ registered'[p] = None
            /\ ready'[p] # None => ~ready'[p].live
            /\ event[1].kind = "deleted" \/ ~Visible(p)
         \/ /\ pending'[p] = pending[p] /\ registered'[p] = registered[p] /\ ready'[p] = ready[p]
            /\ ~Visible(p) \/ file[p].stamp \in {registered[p], pending[p]}
         \/ /\ Visible(p) /\ pending'[p] = file[p].stamp /\ registered'[p] \in {None, registered[p]}
            /\ ready'[p] # None => ~ready'[p].live
  BY <1>1, DeliverAt
<1>3. /\ SameFolder /\ up' /\ UNCHANGED <<file, clock, mounted, row, job, history>>
  BY <1>2 DEF Deliver, diskVars, SameFolder
<1>4. /\ 1 \in DOMAIN event
      /\ \A i \in DOMAIN event : i = 1 \/ (i - 1 \in DOMAIN event' /\ event'[i - 1] = event[i])
      /\ \A i \in DOMAIN event' : i + 1 \in DOMAIN event /\ event'[i] = event[i + 1] /\ i \in Nat
  <2>1. event \in Seq(Events) /\ event # <<>>
    BY <1>2 DEF Typed
  <2>2. QED
    BY <1>2, <2>1
<1>5. \A q \in Watched \ {p} : Quiet(q)' => Quiet(q)
  BY <1>1, <1>4 DEF Quiet
<1>6. Quiet(p)' /\ event[1].kind = "deleted" => file[p] = None
  <2>1. SUFFICES ASSUME Quiet(p)', event[1].kind = "deleted" PROVE file[p] = None
    OBVIOUS
  <2>2. \A k \in DOMAIN event : k > 1 => event[k].path # event[1].path
    BY <1>1, <1>4, <2>1 DEF Quiet
  <2>3. QED
    BY <1>1, <1>4, <2>1, <2>2 DEF Deletes, Remembered
<1>7. FilesPast' /\ JobsPast' /\ RowsPast' /\ Landing'
  <2>1. \A r \in Ids : Answers(r)' => Answers(r)
    BY <1>2, <1>3, SameAnswers
  <2>2. QED
    BY <1>3, <2>1, DatabaseKept DEF SameFolder
<1>8. WatchPast'
  <2>1. SUFFICES ASSUME NEW q \in Watched
                 PROVE  /\ pending'[q] # None => Past(q, pending[q])'
                        /\ registered'[q] # None => Past(q, registered[q])'
                        /\ ready'[q] # None => Past(q, ready[q].stamp)'
    BY DEF WatchPast
  <2>2. CASE q = p
    BY <1>2, <1>3, <2>2 DEF WatchPast, FilesPast, Visible, Past, Remembered
  <2>3. CASE q # p
    BY <1>2, <1>3, <2>3 DEF WatchPast, Past, Remembered
  <2>4. QED
    BY <2>2, <2>3
<1>9. Waits'
  <2>1. SUFFICES ASSUME NEW q \in Watched
                 PROVE  /\ ready'[q] # None =>
                             /\ ready'[q].live => pending'[q] = ready'[q].stamp
                             /\ pending'[q] # None => ready'[q].stamp <= pending'[q]
                        /\ registered'[q] # None /\ pending'[q] # None => registered'[q] <= pending'[q]
                        /\ Visible(q)' /\ Quiet(q)' /\ pending'[q] # None => pending'[q] = file'[q].stamp
    BY DEF Waits
  <2>2. CASE q = p
    <3>1. /\ pending[p] # None => Past(p, pending[p])
          /\ registered[p] # None => Past(p, registered[p])
          /\ ready[p] # None => Past(p, ready[p].stamp)
      BY <1>2 DEF WatchPast, Remembered
    <3>2. /\ ready[p] # None =>
               /\ ready[p].live => pending[p] = ready[p].stamp
               /\ pending[p] # None => ready[p].stamp <= pending[p]
          /\ registered[p] # None /\ pending[p] # None => registered[p] <= pending[p]
      BY <1>2 DEF Waits, Remembered
    <3>3. Visible(p)' = Visible(p)
      BY <1>3 DEF Visible
    <3>4. Visible(p) => file[p] # None /\ file[p].stamp # None
      BY <1>2, Apart DEF Visible
    <3>5. CASE pending'[p] = None
      BY <1>2, <2>2, <3>2, <3>5
    <3>6. CASE Visible(p) /\ pending'[p] = file[p].stamp /\ registered'[p] \in {None, registered[p]}
               /\ (ready'[p] # None => ~ready'[p].live)
      BY <1>2, <1>3, <2>2, <3>1, <3>4, <3>6 DEF Past
    <3>7. CASE /\ pending'[p] = pending[p] /\ registered'[p] = registered[p] /\ ready'[p] = ready[p]
               /\ ~Visible(p) \/ file[p].stamp \in {registered[p], pending[p]}
      BY <1>2, <1>3, <2>2, <3>1, <3>2, <3>3, <3>4, <3>7 DEF Past
    <3>8. QED
      BY <1>2, <3>5, <3>6, <3>7
  <2>3. CASE q # p
    BY <1>2, <1>3, <1>5, <2>3 DEF Waits, Visible, Remembered
  <2>4. QED
    BY <2>2, <2>3
<1>10. Down' /\ TurnStamp'
  <2>1. Down'
    BY <1>3 DEF Down
  <2>2. Busy("watcher") => job["watcher"].stamp = ready[job["watcher"].path].stamp
    BY DEF TurnStamp, Remembered
  <2>3. QED
    BY <1>2, <1>3, <2>1, <2>2 DEF TurnStamp, Busy, Taken
<1>11. Deletes'
  <2>1. SUFFICES ASSUME NEW i \in DOMAIN event', event'[i].kind = "deleted",
                        \A k \in DOMAIN event' : k > i => event'[k].path # event'[i].path
                 PROVE  file'[event'[i].path] = None
    BY DEF Deletes
  <2>2. i + 1 \in DOMAIN event /\ event'[i] = event[i + 1] /\ i \in Nat
    BY <1>4
  <2>3. \A k \in DOMAIN event : k > i + 1 => event[k].path # event[i + 1].path
    BY <1>4, <2>1, <2>2
  <2>4. file[event[i + 1].path] = None
    BY <2>1, <2>2, <2>3 DEF Deletes, Remembered
  <2>5. QED
    BY <1>3, <2>2, <2>4
<1>12. Known'
  <2>1. \A q \in Watched : registered'[q] \in {None, registered[q]}
    BY <1>2
  <2>2. \A q \in Watched : Visible(q)' => file'[q].stamp # None
    BY <1>3, Apart DEF Visible
  <2>3. QED
    BY <1>3, <2>1, <2>2, SameRecorded DEF Known, Remembered
<1>13. NotForgotten'
  <2>1. SUFFICES ASSUME NEW q \in Watched \ history.excused, Visible(q)', pending'[q] = None, Quiet(q)'
                 PROVE  Recorded(q)'
    BY <1>3 DEF NotForgotten, Quiet
  <2>2. Visible(q) /\ file[q] # None /\ file[q].stamp # None
    BY <1>3, <2>1, Apart DEF Visible
  <2>3. CASE q = p
    <3>1. event[1].kind # "deleted"
      BY <1>6, <2>1, <2>2, <2>3
    <3>2. file[p].stamp = registered[p]
      BY <1>2, <2>1, <2>2, <2>3, <3>1
    <3>3. Recorded(q)
      BY <2>1, <2>2, <2>3, <3>2 DEF Known, Remembered
    <3>4. QED
      BY <1>3, <3>3, SameRecorded
  <2>4. CASE q # p
    <3>1. Quiet(q) /\ pending[q] = None
      BY <1>2, <1>5, <2>1, <2>4
    <3>2. Recorded(q)
      BY <1>2, <2>1, <2>2, <3>1 DEF NotForgotten, Quiet, Remembered
    <3>3. QED
      BY <1>3, <3>2, SameRecorded
  <2>5. QED
    BY <2>3, <2>4
<1>14. QED
  BY <1>7, <1>8, <1>9, <1>10, <1>11, <1>12, <1>13 DEF Remembered

-----------------------------------------------------------------------------
(* What becomes of the rows. *)

\* A row that goes or goes missing is excused, and no row becomes another's.
LEMMA RowsRemembered ==
    ASSUME Numbers, Numbers', Remembered,
           UNCHANGED <<file, clock, mounted, job, up, event, pending, registered, ready>>,
           history.excused \subseteq history'.excused,
           \A r \in Stored' : /\ r \in Stored /\ row'[r].path = row[r].path
                              /\ row'[r].current = row[r].current
                              /\ row'[r].stamp = row[r].stamp /\ row'[r].content = row[r].content,
           \A r \in Stored :
             row[r].current /\ row[r].path \in Watched \ history'.excused /\ row[r].status # "missing"
               => r \in Stored' /\ row'[r].status # "missing"
    PROVE  Remembered'
<1> USE DEF Numbers
<1>1. FilesPast' /\ WatchPast' /\ Waits' /\ Down' /\ TurnStamp' /\ Deletes'
  BY DEF FilesPast, WatchPast, Past, Waits, Visible, Quiet, Down, TurnStamp, Busy, Deletes, Remembered
<1>2. JobsPast'
  BY DEF JobsPast, PastFile, Past, Busy, Remembered
<1>3. RowsPast'
  <2>1. SUFFICES ASSUME NEW r \in Stored', row'[r].current, row'[r].path \in Watched
                 PROVE  PastFile(row[r].path, row[r].stamp, row[r].content)'
    BY DEF RowsPast
  <2>2. PastFile(row[r].path, row[r].stamp, row[r].content)
    BY <2>1 DEF RowsPast, Remembered
  <2>3. QED
    BY <2>1, <2>2 DEF PastFile, Past
<1>4. Landing'
  <2>1. SUFFICES ASSUME NEW a \in Actors, Busy(a), job[a].step = "decided"
                 PROVE  Lands(a)' /\ Takes(a)'
    BY DEF Landing, Busy
  <2>2. Lands(a) /\ Takes(a)
    BY <2>1 DEF Landing, Remembered
  <2>3. At(job[a].path)' \subseteq At(job[a].path)
    BY DEF At
  <2>4. Lands(a)'
    <3>1. job[a].path \in Watched => \A r \in At(job[a].path)' : row'[r].stamp <= job[a].stamp
      BY <2>2, <2>3 DEF Lands, At
    <3>2. QED
      BY <2>2, <3>1 DEF Lands, Changed
  <2>5. \A r \in Stored' : Answers(r)' => Answers(r)
    BY DEF Answers, Visible
  <2>6. Takes(a)'
    BY <2>2, <2>5 DEF Takes, Changed
  <2>7. QED
    BY <2>4, <2>6
<1>5. ASSUME NEW p \in Watched \ history'.excused, Recorded(p) PROVE Recorded(p)'
  <2>1. PICK r \in At(p) : row[r].stamp = file[p].stamp /\ row[r].status # "missing"
    BY <1>5 DEF Recorded
  <2>2. r \in Stored /\ row[r].current /\ row[r].path = p
    BY DEF At
  <2>3. r \in Stored' /\ row'[r].status # "missing"
    BY <2>1, <2>2
  <2>4. QED
    BY <2>1, <2>2, <2>3 DEF Recorded, At
<1>6. Known' /\ NotForgotten'
  BY <1>5 DEF Known, NotForgotten, Visible, Quiet, Remembered
<1>7. QED
  BY <1>1, <1>2, <1>3, <1>4, <1>6 DEF Remembered

LEMMA SweepRemembered ==
    ASSUME Typed, Numbers, Numbers', Remembered, ScanSweeps
    PROVE  Remembered'
<1> DEFINE gone == {g[1] : g \in scan.gone} \cap Stored
           y(r) == IF r \in gone THEN Missing(row[r]) ELSE row[r]
           paths == Watched \cap {row[r].path : r \in gone}
<1>1. /\ row' = [r \in Ids |-> y(r)] /\ history' = [history EXCEPT !.excused = @ \cup paths]
      /\ UNCHANGED <<file, clock, mounted, job, up, event, pending, registered, ready>>
  BY DEF ScanSweeps, Missing, diskVars, watchVars
<1>2. history'.excused = history.excused \cup paths
  <2>1. history \in Histories /\ paths \in SUBSET Watched
    BY DEF Typed
  <2> HIDE DEF paths
  <2>2. QED
    BY <1>1, <2>1 DEF Histories
<1>3. \A r \in gone : row[r].path \in Watched => row[r].path \in paths
  OBVIOUS
<1>4. gone \subseteq Stored /\ Stored \subseteq Ids
  BY DEF Stored
<1>5. \A r \in Stored : row[r] \in Rows
  BY RowOf
<1> HIDE DEF gone, paths
<1>6. \A r \in Stored' : /\ r \in Stored /\ row'[r].path = row[r].path
                         /\ row'[r].current = row[r].current
                         /\ row'[r].stamp = row[r].stamp /\ row'[r].content = row[r].content
  <2>1. SUFFICES ASSUME NEW r \in Stored'
                 PROVE  /\ r \in Stored /\ row'[r].path = row[r].path
                        /\ row'[r].current = row[r].current
                        /\ row'[r].stamp = row[r].stamp /\ row'[r].content = row[r].content
    OBVIOUS
  <2>2. r \in Ids /\ row'[r] = y(r) /\ row'[r] \notin {None, Deleted}
    BY <1>1 DEF Stored
  <2>3. CASE r \in gone
    <3>1. row'[r] = Missing(row[r]) /\ r \in Stored
      BY <1>4, <2>2, <2>3
    <3>2. QED
      BY <1>5, <3>1, MissingFields
  <2>4. CASE r \notin gone
    BY <2>2, <2>4 DEF Stored
  <2>5. QED
    BY <2>3, <2>4
<1>7. \A r \in Stored :
        row[r].current /\ row[r].path \in Watched \ history'.excused /\ row[r].status # "missing"
          => r \in Stored' /\ row'[r].status # "missing"
  <2>1. SUFFICES ASSUME NEW r \in Stored, row[r].path \in Watched \ history'.excused,
                        row[r].status # "missing"
                 PROVE  r \in Stored' /\ row'[r].status # "missing"
    OBVIOUS
  <2>2. r \notin gone
    BY <1>2, <1>3, <2>1
  <2>3. row'[r] = row[r]
    BY <1>1, <1>4, <2>2
  <2>4. QED
    BY <2>1, <2>3 DEF Stored
<1>8. history.excused \subseteq history'.excused
  BY <1>2
<1>9. QED
  BY <1>1, <1>6, <1>7, <1>8, RowsRemembered

LEMMA DeleteRemembered ==
    ASSUME Typed, Consistent, Numbers, Numbers', Remembered, DeleteCommits
    PROVE  Remembered'
<1> DEFINE paths == {row[delete.id].path} \cap Watched
<1>1. /\ history' = [history EXCEPT !.excused = @ \cup paths]
      /\ UNCHANGED <<file, clock, mounted, job, up, event, pending, registered, ready>>
  BY DEF DeleteCommits, diskVars, watchVars
<1>2. history'.excused = history.excused \cup paths
  <2>1. history \in Histories /\ paths \in SUBSET Watched
    BY DEF Typed
  <2> HIDE DEF paths
  <2>2. QED
    BY <1>1, <2>1 DEF Histories
<1>3. /\ delete # None /\ delete.id \in Stored /\ delete.locked \subseteq Stored
      /\ Stored' = Stored \ {delete.id}
  BY DeletedStored
<1>4. /\ \A r \in delete.locked \ {delete.id} : row'[r] = Reviving(row[r])
      /\ \A r \in Stored \ (delete.locked \cup {delete.id}) : row'[r] = Freed(row[r])
  BY <1>3, DeleteCommitsStep
<1>5. \A r \in Stored' : /\ r \in Stored /\ row'[r].path = row[r].path
                         /\ row'[r].current = row[r].current
                         /\ row'[r].stamp = row[r].stamp /\ row'[r].content = row[r].content
                         /\ row[r].status # "missing" => row'[r].status # "missing"
  <2>1. SUFFICES ASSUME NEW r \in Stored, r # delete.id
                 PROVE  /\ row'[r].path = row[r].path /\ row'[r].current = row[r].current
                        /\ row'[r].stamp = row[r].stamp /\ row'[r].content = row[r].content
                        /\ row[r].status # "missing" => row'[r].status # "missing"
    BY <1>3
  <2>2. row[r] \in Rows
    BY RowOf
  <2>3. CASE r \in delete.locked
    <3>1. row'[r] = Reviving(row[r])
      BY <1>4, <2>1, <2>3
    <3>2. QED
      BY <2>2, <3>1, RevivingFields
  <2>4. CASE r \notin delete.locked
    <3>1. row'[r] = Freed(row[r])
      BY <1>4, <2>1, <2>4
    <3>2. QED
      BY <2>2, <3>1, FreedFields
  <2>5. QED
    BY <2>3, <2>4
<1>6. \A r \in Stored :
        row[r].current /\ row[r].path \in Watched \ history'.excused /\ row[r].status # "missing"
          => r \in Stored' /\ row'[r].status # "missing"
  BY <1>2, <1>3, <1>5
<1>7. history.excused \subseteq history'.excused
  BY <1>2
<1>8. QED
  BY <1>1, <1>5, <1>6, <1>7, RowsRemembered

LEMMA WorkRemembered ==
    ASSUME Typed, Numbers, Numbers', Remembered, NEW r \in Ids, Work(r)
    PROVE  Remembered'
<1>1. /\ r \in Stored /\ \A s \in Ids \ {r} : row'[s] = row[s]
      /\ row'[r] \in Rows /\ row'[r].status \in {"changed", "done"}
      /\ row'[r].path = row[r].path /\ row'[r].content = row[r].content
      /\ row'[r].stamp = row[r].stamp /\ row'[r].current = row[r].current
      /\ UNCHANGED <<diskVars, job, watchVars, scan, delete, history>>
  BY WorkStep
<1>2. UNCHANGED <<file, clock, mounted, job, up, event, pending, registered, ready, history>>
  BY <1>1 DEF diskVars, watchVars
<1>3. Stored' = Stored
  BY <1>1, Apart DEF Stored
<1>4. \A s \in Stored' : /\ s \in Stored /\ row'[s].path = row[s].path
                         /\ row'[s].current = row[s].current
                         /\ row'[s].stamp = row[s].stamp /\ row'[s].content = row[s].content
  BY <1>1, <1>3 DEF Stored
<1>5. \A s \in Stored :
        row[s].current /\ row[s].path \in Watched \ history'.excused /\ row[s].status # "missing"
          => s \in Stored' /\ row'[s].status # "missing"
  BY <1>1, <1>3 DEF Stored
<1>6. QED
  BY <1>2, <1>4, <1>5, RowsRemembered

-----------------------------------------------------------------------------
(* Commits. *)

LEMMA CommitExcuses ==
    ASSUME Typed, NEW a \in Actors, Commit(a)
    PROVE  /\ history'.excused \subseteq history.excused
           /\ \A p \in history.excused \ history'.excused :
                p \in Watched /\ p = job[a].path /\ Visible(p) /\ file[p].stamp = job[a].stamp
<1> DEFINE j == job[a]
           seen == {p \in {j.path} \cap Watched : Visible(p) /\ file[p].stamp = j.stamp}
           raced == {r \in Changed(j) : delete # None /\ j.changes[r].dup = delete.id}
<1>1. history' = [history EXCEPT !.excused = @ \ seen, !.raced = @ \cup raced]
  BY DEF Commit
<1>2. history \in Histories
  BY DEF Typed
<1>3. \A p \in seen : p \in Watched /\ p = job[a].path /\ Visible(p) /\ file[p].stamp = job[a].stamp
  OBVIOUS
<1> HIDE DEF seen, raced
<1>4. history'.excused = history.excused \ seen
  BY <1>1, <1>2 DEF Histories
<1>5. QED
  BY <1>3, <1>4

\* The path of an ingest has its recording, if its file is still the one that was read.
LEMMA CommitLands ==
    ASSUME Typed, Consistent, Remembered, NEW a \in Actors, Commit(a), file' = file,
           NEW p \in Watched, p = job[a].path, file[p].stamp = job[a].stamp
    PROVE  Recorded(p)'
<1>1. Lands(a)
  BY CommitStep DEF Landing, Remembered
<1>2. PICK r \in Changed(job[a]) :
             job[a].changes[r].current /\ job[a].changes[r].path = job[a].path
             /\ job[a].changes[r].status # "missing"
  BY <1>1 DEF Lands
<1>3. job[a].changes[r].stamp = job[a].stamp
  BY <1>1, <1>2 DEF Lands
<1>4. row'[r] = job[a].changes[r] /\ r \in Stored'
  BY <1>2, Committed
<1>5. r \in At(p)'
  BY <1>2, <1>4 DEF At
<1>6. QED
  BY <1>2, <1>3, <1>4, <1>5 DEF Recorded

\* No other file that is answered for loses its own.
LEMMA CommitSpares ==
    ASSUME Typed, Consistent, Numbers, Remembered, NEW a \in Actors, Commit(a), file' = file,
           NEW p \in Watched \ history.excused, up, Visible(p), Recorded(p)
    PROVE  Recorded(p)'
<1> USE DEF Numbers
<1>1. Busy(a) /\ Lands(a) /\ Takes(a)
  BY CommitStep DEF Landing, Remembered
<1>2. PICK r \in At(p) : row[r].stamp = file[p].stamp /\ row[r].status # "missing"
  BY DEF Recorded
<1>3. r \in Stored /\ row[r].current /\ row[r].path = p /\ r \in Ids
  BY DEF At, Stored
<1>4. CASE p = job[a].path
  <2>1. row[r].stamp <= job[a].stamp
    BY <1>1, <1>4 DEF Lands
  <2>2. job[a].stamp <= file[p].stamp
    BY <1>1, <1>4 DEF JobsPast, PastFile, Past, Visible, Remembered
  <2>3. file[p].stamp = job[a].stamp
    BY <1>1, <1>2, <1>3, <2>1, <2>2 DEF Visible
  <2>4. QED
    BY <1>4, <2>3, CommitLands
<1>5. CASE p # job[a].path
  <2>1. Answers(r)
    BY <1>2, <1>3 DEF Answers
  <2>2. r \notin Changed(job[a])
    BY <1>1, <1>3, <1>5, <2>1 DEF Takes
  <2>3. row'[r] = row[r] /\ r \in Stored'
    BY <1>3, <2>2, Committed
  <2>4. QED
    BY <1>2, <1>3, <2>3 DEF Recorded, At
<1>6. QED
  BY <1>4, <1>5

LEMMA CommitDatabase ==
    ASSUME Typed, Consistent, Numbers, Numbers', Remembered, NEW a \in Actors, Commit(a),
           UNCHANGED <<file, clock, mounted, up>>
    PROVE  FilesPast' /\ JobsPast' /\ RowsPast' /\ Landing'
<1> USE DEF Numbers
<1>1. Busy(a) /\ job[a].step = "decided" /\ Others(a) /\ job'[a] = None /\ job[a].path \in Paths
  BY CommitStep, BusyJob
<1>2. Lands(a) /\ Takes(a)
  BY <1>1 DEF Landing, Remembered
<1>3. /\ \A r \in Changed(job[a]) : row'[r] = job[a].changes[r] /\ row'[r] \in Rows
      /\ \A r \in Ids \ Changed(job[a]) : row'[r] = row[r]
      /\ Stored' = Stored \cup Changed(job[a])
      /\ Writes(a) /\ Places(a)
  BY Committed
<1>4. FilesPast'
  BY DEF FilesPast, Remembered
<1>5. JobsPast'
  <2>1. SUFFICES ASSUME NEW b \in Actors, Busy(b)', job'[b].path \in Watched
                 PROVE  PastFile(job[b].path, job[b].stamp, job[b].content)'
    BY DEF JobsPast
  <2>2. job'[b] = job[b] /\ Busy(b)
    BY <1>1, <2>1 DEF Busy, Others
  <2>3. PastFile(job[b].path, job[b].stamp, job[b].content)
    BY <2>1, <2>2 DEF JobsPast, Remembered
  <2>4. QED
    BY <2>2, <2>3 DEF PastFile, Past
<1>6. RowsPast'
  <2>1. SUFFICES ASSUME NEW r \in Stored', row'[r].current, row'[r].path \in Watched
                 PROVE  PastFile(row[r].path, row[r].stamp, row[r].content)'
    BY DEF RowsPast
  <2>2. PastFile(row'[r].path, row'[r].stamp, row'[r].content)
    <3>1. CASE r \in Changed(job[a])
      <4>1. row'[r].path = job[a].path /\ row'[r].stamp = job[a].stamp /\ row'[r].content = job[a].content
        BY <1>2, <1>3, <2>1, <3>1 DEF Lands, Places
      <4>2. PastFile(job[a].path, job[a].stamp, job[a].content)
        BY <1>1, <2>1, <4>1 DEF JobsPast, Remembered
      <4>3. QED
        BY <4>1, <4>2
    <3>2. CASE r \notin Changed(job[a])
      <4>1. row'[r] = row[r] /\ r \in Stored
        BY <1>3, <3>2 DEF Stored
      <4>2. QED
        BY <2>1, <4>1 DEF RowsPast, Remembered
    <3>3. QED
      BY <3>1, <3>2
  <2>3. QED
    BY <2>2 DEF PastFile, Past
<1>7. Landing'
  <2>1. SUFFICES ASSUME NEW b \in Actors, Busy(b)', job'[b].step = "decided"
                 PROVE  Lands(b)' /\ Takes(b)'
    BY DEF Landing
  <2>2. b \in Actors \ {a} /\ job'[b] = job[b] /\ Busy(b) /\ job[b].step = "decided"
    BY <1>1, <2>1 DEF Busy, Others
  <2>3. Lands(b) /\ Takes(b) /\ job[b].path # job[a].path /\ job[b].path \in Paths
    BY <2>2, CommitOther, BusyJob DEF Landing, Remembered
  <2>4. \A r \in Changed(job[b]) : row'[r] = row[r] /\ r \in Ids /\ r \notin Changed(job[a])
    BY <1>1, <2>2, CommitLeaves DEF Consistent, Disjoint, Changed
  <2>5. Lands(b)'
    <3>1. ASSUME job[b].path \in Watched, NEW r \in Stored', row'[r].current, row'[r].path = job[b].path
          PROVE  row'[r].stamp <= job[b].stamp
      <4>1. r \notin Changed(job[a])
        BY <1>3, <2>3, <3>1 DEF Places
      <4>2. row'[r] = row[r] /\ r \in At(job[b].path)
        BY <1>3, <3>1, <4>1 DEF Stored, At
      <4>3. QED
        BY <2>3, <3>1, <4>2 DEF Lands
    <3>2. QED
      BY <2>2, <2>3, <3>1 DEF Lands, Changed, At
  <2>6. Takes(b)'
    <3>1. SUFFICES ASSUME NEW r \in Changed(job[b]), r \in Stored', row'[r].path # job[b].path, Answers(r)'
                   PROVE  FALSE
      BY <2>2 DEF Takes, Changed
    <3>2. r \in Stored /\ row'[r] = row[r]
      BY <1>3, <2>4, <3>1
    <3>3. row[r].path # job[a].path
      <4>1. row[r].current
        BY <3>1, <3>2 DEF Answers
      <4>2. At(job[a].path) \subseteq Changed(job[a])
        BY <1>1, <1>3 DEF Writes
      <4>3. QED
        BY <2>4, <3>2, <4>1, <4>2 DEF At
    <3>4. Answers(r)
      BY <3>1, <3>2, <3>3, CommitExcuses DEF Answers, Visible
    <3>5. QED
      BY <2>3, <3>1, <3>2, <3>4 DEF Takes
  <2>7. QED
    BY <2>5, <2>6
<1>8. QED
  BY <1>4, <1>5, <1>6, <1>7

\* Commits of the scanner and of an upload.
LEMMA CommitRemembered ==
    ASSUME Typed, Consistent, Numbers, Numbers', Remembered, NEW a \in Actors \ {"watcher"}, Commit(a),
           UNCHANGED <<diskVars, watchVars>>
    PROVE  Remembered'
<1> USE DEF Numbers
<1>1. /\ UNCHANGED <<file, clock, mounted, up, event, pending, registered, ready>>
      /\ job'["watcher"] = job["watcher"]
  BY CommitStep DEF diskVars, watchVars, Others, Actors
<1>2. FilesPast' /\ JobsPast' /\ RowsPast' /\ Landing'
  BY <1>1, CommitDatabase
<1>3. WatchPast' /\ Waits' /\ Deletes'
  BY <1>1 DEF WatchPast, Past, Waits, Visible, Quiet, Deletes, Remembered
<1>4. Down' /\ TurnStamp'
  BY <1>1 DEF Down, TurnStamp, Busy, Remembered
<1>5. ASSUME NEW p \in Watched \ history'.excused, up, Visible(p),
             p \notin history.excused => Recorded(p)
      PROVE  Recorded(p)'
  <2>1. CASE p \in history.excused
    BY <1>1, <1>5, <2>1, CommitExcuses, CommitLands
  <2>2. CASE p \notin history.excused
    BY <1>1, <1>5, <2>2, CommitSpares
  <2>3. QED
    BY <2>1, <2>2
<1>6. Known'
  <2>1. SUFFICES ASSUME NEW p \in Watched \ history'.excused, Visible(p)', registered'[p] = file'[p].stamp
                 PROVE  Recorded(p)'
    BY DEF Known
  <2>2. Visible(p) /\ registered[p] = file[p].stamp
    BY <1>1, <2>1 DEF Visible
  <2>3. up
    BY <2>2, Apart DEF Down, Visible, Remembered
  <2>4. p \notin history.excused => Recorded(p)
    BY <2>2 DEF Known, Remembered
  <2>5. QED
    BY <1>5, <2>2, <2>3, <2>4
<1>7. NotForgotten'
  <2>1. SUFFICES ASSUME NEW p \in Watched \ history'.excused, up', Visible(p)', pending'[p] = None, Quiet(p)'
                 PROVE  Recorded(p)'
    BY DEF NotForgotten, Quiet
  <2>2. Visible(p) /\ up /\ pending[p] = None /\ Quiet(p)
    BY <1>1, <2>1 DEF Visible, Quiet
  <2>3. p \notin history.excused => Recorded(p)
    BY <2>2 DEF NotForgotten, Quiet, Remembered
  <2>4. QED
    BY <1>5, <2>2, <2>3
<1>8. QED
  BY <1>2, <1>3, <1>4, <1>6, <1>7 DEF Remembered

\* The watcher takes note of what it registered, and forgets the item if it is still that.
LEMMA WatcherCommitsRemembered ==
    ASSUME Typed, Taken, Consistent, Numbers, Numbers', Remembered, WatcherCommits
    PROVE  Remembered'
<1> USE DEF Numbers
<1>1. PICK p : p = job["watcher"].path
  OBVIOUS
<1>2. /\ "watcher" \in Actors /\ Commit("watcher")
      /\ UNCHANGED <<file, clock, mounted, up, event>>
      /\ Forget(p) /\ Dropped(p) /\ registered' = [registered EXCEPT ![p] = ready[p].stamp]
  BY <1>1 DEF WatcherCommits, diskVars, Actors
<1>3. Busy("watcher") /\ ~Busy("watcher")' /\ p \in Watched /\ ready[p] # None
  BY <1>1, <1>2, CommitStep DEF Taken, Busy
<1>4. ready[p].stamp = job["watcher"].stamp
  BY <1>1, <1>3 DEF TurnStamp, Remembered
<1>5. /\ registered'[p] = ready[p].stamp /\ ready'[p] = None
      /\ pending'[p] = IF ready[p].live THEN None ELSE pending[p]
      /\ \A q \in Watched \ {p} : /\ registered'[q] = registered[q] /\ ready'[q] = ready[q]
                                 /\ pending'[q] = pending[q]
  BY <1>2, <1>3 DEF Forget, Dropped, Typed
<1>6. up
  BY <1>3 DEF Down, Remembered
<1>7. FilesPast' /\ JobsPast' /\ RowsPast' /\ Landing'
  BY <1>2, CommitDatabase
<1>8. ASSUME NEW q \in Watched PROVE Quiet(q)' = Quiet(q) /\ Visible(q)' = Visible(q)
  BY <1>2 DEF Quiet, Visible
<1>9. WatchPast'
  BY <1>2, <1>3, <1>5 DEF WatchPast, Past, Remembered
<1>10. Waits'
  BY <1>2, <1>3, <1>5, <1>8 DEF Waits, Remembered
<1>11. Down' /\ TurnStamp' /\ Deletes'
  BY <1>2, <1>3, <1>6 DEF Down, TurnStamp, Deletes, Remembered
<1>12. ASSUME NEW q \in Watched \ history'.excused, Visible(q),
              \/ q = p /\ file[q].stamp = ready[p].stamp
              \/ q \notin history.excused => Recorded(q)
       PROVE  Recorded(q)'
  <2>1. CASE q = p /\ file[q].stamp = ready[p].stamp
    BY <1>1, <1>2, <1>4, <2>1, CommitLands
  <2>2. CASE q \in history.excused
    BY <1>2, <1>12, <2>2, CommitExcuses, CommitLands
  <2>3. CASE q \notin history.excused /\ Recorded(q)
    BY <1>2, <1>6, <1>12, <2>3, CommitSpares
  <2>4. QED
    BY <1>12, <2>1, <2>2, <2>3
<1>13. Known'
  <2>1. SUFFICES ASSUME NEW q \in Watched \ history'.excused, Visible(q)', registered'[q] = file'[q].stamp
                 PROVE  Recorded(q)'
    BY DEF Known
  <2>2. Visible(q) /\ registered'[q] = file[q].stamp
    BY <1>2, <1>8, <2>1
  <2>3. q # p => (q \notin history.excused => Recorded(q))
    BY <1>5, <2>2 DEF Known, Remembered
  <2>4. QED
    BY <1>5, <1>12, <2>1, <2>2, <2>3
<1>14. NotForgotten'
  <2>1. SUFFICES ASSUME NEW q \in Watched \ history'.excused, Visible(q)', pending'[q] = None, Quiet(q)'
                 PROVE  Recorded(q)'
    BY DEF NotForgotten, Quiet
  <2>2. Visible(q) /\ Quiet(q)
    BY <1>8, <2>1
  <2>3. CASE pending[q] = None
    <3>1. q \notin history.excused => Recorded(q)
      BY <1>6, <2>2, <2>3 DEF NotForgotten, Quiet, Remembered
    <3>2. QED
      BY <1>12, <2>1, <2>2, <3>1
  <2>4. CASE pending[q] # None
    <3>1. q = p /\ ready[p].live
      BY <1>5, <2>1, <2>4
    <3>2. pending[p] = ready[p].stamp /\ pending[p] = file[p].stamp
      BY <1>3, <2>2, <2>4, <3>1 DEF Waits, Remembered
    <3>3. QED
      BY <1>12, <2>1, <2>2, <3>1, <3>2
  <2>5. QED
    BY <2>3, <2>4
<1>15. QED
  BY <1>7, <1>9, <1>10, <1>11, <1>13, <1>14 DEF Remembered

-----------------------------------------------------------------------------
(* Decisions. *)

\* One of the rows that are written has the path and is there.
LEMMA ChangesLand ==
    ASSUME Typed, NEW j \in Jobs, Same(j) \/ FindMoved(j.content) # {} \/ NewIds # {}
    PROVE  \E r \in Ids : /\ Changes(j)[r] # None /\ Changes(j)[r].current
                          /\ Changes(j)[r].path = j.path /\ Changes(j)[r].status # "missing"
<1> DEFINE moved == FindMoved(j.content)
           target == IF Same(j) THEN At(j.path)
                     ELSE {First(IF moved # {} THEN moved ELSE NewIds)}
           becomes(r) == IF Same(j) THEN Refreshed(row[r], j)
                         ELSE IF moved # {} THEN Moved(row[r], j) ELSE Registered(j)
           y(r) == IF r \in target THEN becomes(r)
                   ELSE IF r \in At(j.path) THEN Archived(row[r]) ELSE None
           Good(x) == x \in Rows /\ x.current /\ x.path = j.path /\ x.status # "missing"
<1>1. moved \in SUBSET Stored /\ NewIds \in SUBSET Ids /\ Stored \subseteq Ids
  BY DEF FindMoved, FindByContent, NewIds, Stored
<1>2. \E t \in Ids : t \in target /\ Good(becomes(t))
  <2>1. CASE Same(j)
    <3>1. PICK e \in At(j.path) : row[e].content = j.content
      BY <2>1 DEF Same
    <3>2. e \in Ids /\ e \in Stored /\ row[e].current /\ row[e].path = j.path
      BY DEF At, Stored
    <3>3. Good(Refreshed(row[e], j))
      BY <3>2, RowOf, RefreshedFields
    <3>4. QED
      BY <2>1, <3>2, <3>3
  <2>2. CASE ~Same(j) /\ moved # {}
    <3>1. First(moved) \in moved
      <4> HIDE DEF moved
      <4>1. QED
        BY <1>1, <2>2, FirstIn
    <3>2. First(moved) \in Stored
      BY <1>1, <3>1
    <3>3. row[First(moved)] \in Rows
      BY <3>2, RowOf
    <3>4. ResumeStatus(row[First(moved)]) # "missing"
      BY <3>3, ResumeIs
    <3>5. Good(Moved(row[First(moved)], j))
      BY <3>3, <3>4, MovedFields
    <3>6. QED
      BY <1>1, <2>2, <3>2, <3>5
  <2>3. CASE ~Same(j) /\ moved = {}
    <3>1. First(NewIds) \in NewIds
      BY <1>1, <2>3, FirstIn
    <3>2. Good(Registered(j))
      BY RegisteredFields
    <3>3. QED
      BY <1>1, <2>3, <3>1, <3>2
  <2>4. QED
    BY <2>1, <2>2, <2>3
<1>3. Changes(j) = [r \in Ids |-> y(r)]
  BY DEF Changes
<1> HIDE DEF target, becomes
<1>4. PICK t \in Ids : t \in target /\ Good(becomes(t))
  BY <1>2
<1>5. Changes(j)[t] = becomes(t)
  BY <1>3, <1>4
<1>6. QED
  BY <1>4, <1>5, Apart

\* What is written has the stamp and the content of the file, but for rows set aside.
LEMMA OutcomeLands ==
    ASSUME Typed, Unique, NEW j \in Jobs, NEW r \in Ids, NEW y, Outcome(j, r, y), y.current
    PROVE  y.stamp = j.stamp /\ y.content = j.content
<1>1. CASE Same(j) /\ r \in At(j.path) /\ y = Refreshed(row[r], j)
  <2>1. PICK e \in At(j.path) : row[e].content = j.content
    BY <1>1 DEF Same
  <2>2. r = e /\ r \in Stored
    BY <1>1 DEF Unique, Jobs, At
  <2>3. QED
    BY <1>1, <2>1, <2>2, RowOf, RefreshedFields
<1>2. CASE r \in FindMoved(j.content) /\ y = Moved(row[r], j)
  <2>1. r \in Stored /\ row[r].content = j.content
    BY <1>2 DEF FindMoved, FindByContent
  <2>2. QED
    BY <1>2, <2>1, RowOf, MovedFields
<1>3. CASE y = Registered(j)
  BY <1>3, RegisteredFields
<1>4. CASE r \in At(j.path) /\ y = Archived(row[r])
  <2>1. r \in Stored
    BY <1>4 DEF At
  <2>2. ~y.current
    BY <1>4, <2>1, RowOf, ArchivedFields
  <2>3. QED
    BY <2>2
<1>5. QED
  BY <1>1, <1>2, <1>3, <1>4 DEF Outcome

LEMMA DecideRemembered ==
    ASSUME Typed, Unique, Taken, Numbers, Numbers', Remembered, NEW a \in Actors, Decide(a)
    PROVE  Remembered'
<1> USE DEF Numbers
<1>1. /\ Busy(a) /\ job[a] \in Jobs /\ Others(a) /\ job'[a] \in Jobs
      /\ job'[a].path = job[a].path /\ job'[a].content = job[a].content
      /\ job'[a].stamp = job[a].stamp /\ job'[a].changes = Changes(job[a])
      /\ \A r \in Ids : Changes(job[a])[r] # None => Outcome(job[a], r, Changes(job[a])[r])
  BY DecideStep
<1>2. /\ UNCHANGED <<file, clock, mounted, row, up, event, pending, registered, ready, history>>
      /\ SameFolder
  BY DEF Decide, diskVars, watchVars, SameFolder
<1>3. Visible(job[a].path) /\ file[job[a].path].stamp = job[a].stamp
  BY DEF Decide, Acceptable
<1>4. Changed(job[a])' = {r \in Ids : Changes(job[a])[r] # None}
  BY <1>1 DEF Changed
<1>5. Lands(a)'
  <2>1. job[a].path \in Watched => \A r \in At(job[a].path) : row[r].stamp <= job[a].stamp
    BY <1>3 DEF RowsPast, PastFile, Past, At, Visible, Remembered
  <2>2. \A r \in Ids : Changes(job[a])[r] # None /\ Changes(job[a])[r].current =>
          Changes(job[a])[r].stamp = job[a].stamp /\ Changes(job[a])[r].content = job[a].content
    BY <1>1, OutcomeLands
  <2>3. \E r \in Ids : /\ Changes(job[a])[r] # None /\ Changes(job[a])[r].current
                       /\ Changes(job[a])[r].path = job[a].path /\ Changes(job[a])[r].status # "missing"
    <3>1. Same(job[a]) \/ FindMoved(job[a].content) # {} \/ NewIds # {}
      BY DEF Decide
    <3>2. QED
      BY <1>1, <3>1, ChangesLand
  <2>4. At(job[a].path)' = At(job[a].path)
    BY <1>1, <1>2 DEF At, Stored
  <2>5. QED
    BY <1>1, <1>2, <1>4, <2>1, <2>2, <2>3, <2>4 DEF Lands
<1>6. Takes(a)'
  <2>1. SUFFICES ASSUME NEW r \in Stored, Changes(job[a])[r] # None, row[r].path # job[a].path, Answers(r)
                 PROVE  FALSE
    BY <1>1, <1>2, <1>4 DEF Takes, Stored, Answers, Visible
  <2>2. r \in Ids /\ r \notin At(job[a].path) /\ row[r] # None
    BY <2>1 DEF At, Stored
  <2>3. r \in FindMoved(job[a].content)
    BY <1>1, <2>1, <2>2 DEF Outcome, NewIds
  <2>4. ~HasMatchingFile(r)
    BY <2>3 DEF FindMoved
  <2>5. PastFile(row[r].path, row[r].stamp, row[r].content)
    BY <2>1 DEF Answers, RowsPast, Remembered
  <2>6. HasMatchingFile(r)
    BY <2>1, <2>5 DEF Answers, Visible, PastFile, HasMatchingFile
  <2>7. QED
    BY <2>4, <2>6
<1>7. job'[a].path \in Watched => PastFile(job'[a].path, job'[a].stamp, job'[a].content)
  BY <1>1 DEF JobsPast, Remembered
<1>8. a = "watcher" => up /\ job'[a].stamp = ready[job'[a].path].stamp
  BY <1>1 DEF Down, TurnStamp, Remembered
<1>9. QED
  BY <1>1, <1>2, <1>5, <1>6, <1>7, <1>8, JobRemembered

-----------------------------------------------------------------------------
(* Every step. *)

\* Steps of nobody who remembers: neither files, rows, ingests nor the watcher change.
LEMMA OthersRemembered ==
    ASSUME Numbers, Numbers', Remembered, SameFolder, UNCHANGED <<row, job, watchVars>>,
           history'.excused = history.excused
    PROVE  Remembered'
<1>1. "watcher" \in Actors /\ Others("watcher") /\ UNCHANGED <<up, event, pending, registered, ready>>
  BY DEF Actors, Others, watchVars
<1>2. Busy("watcher")' /\ job'["watcher"].path \in Watched =>
        PastFile(job'["watcher"].path, job'["watcher"].stamp, job'["watcher"].content)
  BY <1>1 DEF JobsPast, Busy, Remembered
<1>3. Busy("watcher")' => up /\ job'["watcher"].stamp = ready[job'["watcher"].path].stamp
  BY DEF Down, TurnStamp, Busy, Remembered
<1>4. Busy("watcher")' /\ job'["watcher"].step = "decided" => Lands("watcher")' /\ Takes("watcher")'
  <2>1. SUFFICES ASSUME Busy("watcher")', job'["watcher"].step = "decided"
                 PROVE  Lands("watcher")' /\ Takes("watcher")'
    OBVIOUS
  <2>2. Lands("watcher") /\ Takes("watcher")
    BY <1>1, <2>1 DEF Landing, Busy, Remembered
  <2>3. \A r \in Ids : Answers(r)' => Answers(r)
    BY <1>1, SameAnswers
  <2>4. QED
    BY <1>1, <2>2, <2>3, StillLands, StillTakes
<1>5. QED
  BY <1>1, <1>2, <1>3, <1>4, JobRemembered

LEMMA ReadRemembered ==
    ASSUME Typed, Numbers, Numbers', Remembered, NEW a \in Actors, NEW p \in Paths, NEW f \in Files,
           NEW source \in {"scan", "upload"}, NEW locked \in SUBSET Ids,
           Read(a, p, f, source, locked), p \in Watched => file[p] = f, SameFolder,
           UNCHANGED <<row, up, event, pending, registered, ready>>,
           history'.excused = history.excused, a = "watcher" => up /\ f.stamp = ready[p].stamp
    PROVE  Remembered'
<1>1. /\ Others(a) /\ job'[a].step = "read" /\ job'[a].path = p
      /\ job'[a].content = f.content /\ job'[a].stamp = f.stamp
  BY ReadStep
<1>2. job'[a].path \in Watched => PastFile(job'[a].path, job'[a].stamp, job'[a].content)
  BY <1>1, Apart DEF FilesPast, PastFile, Past, Numbers, Remembered
<1>3. QED
  BY <1>1, <1>2, JobRemembered

LEMMA FailRemembered ==
    ASSUME Typed, Numbers, Numbers', Remembered, NEW a \in Actors, Fail(a), SameFolder,
           UNCHANGED <<row, up, event, pending, registered, ready>>,
           history'.excused = history.excused
    PROVE  Remembered'
<1>1. Others(a) /\ ~Busy(a)'
  BY FailStep DEF Busy
<1>2. QED
  BY <1>1, JobRemembered

LEMMA LockContentRemembered ==
    ASSUME Typed, Numbers, Numbers', Remembered, NEW a \in Actors, LockContent(a)
    PROVE  Remembered'
<1>1. /\ Busy(a) /\ Others(a) /\ job'[a].step = "content" /\ job'[a].path = job[a].path
      /\ job'[a].content = job[a].content /\ job'[a].stamp = job[a].stamp
  BY LockContentStep
<1>2. /\ SameFolder /\ UNCHANGED <<row, up, event, pending, registered, ready, history>>
  BY DEF LockContent, diskVars, watchVars, SameFolder, Numbers
<1>3. job'[a].path \in Watched => PastFile(job'[a].path, job'[a].stamp, job'[a].content)
  BY <1>1 DEF JobsPast, Remembered
<1>4. a = "watcher" => up /\ job'[a].stamp = ready[job'[a].path].stamp
  BY <1>1 DEF Down, TurnStamp, Remembered
<1>5. QED
  BY <1>1, <1>2, <1>3, <1>4, JobRemembered

LEMMA FolderRemembered ==
    ASSUME Typed, Numbers, Numbers', Remembered, Folder
    PROVE  Remembered'
<1>1. ASSUME NEW files, NEW gone, Edit(files, gone), NEW p \in Watched,
             NEW kind \in {"created", "modified", "deleted", "moved"}, Tell(kind, p),
             \A q \in Watched : files[q] # None =>
               files[q] = file[q] \/ (q = p /\ files[q].stamp = clock + 1),
             kind = "deleted" => files[p] = None
      PROVE  Remembered'
  <2>1. /\ file' = files /\ clock' = clock + 1 /\ mounted /\ mounted' /\ event \in Seq(Events)
        /\ UNCHANGED <<row, job, up, pending, registered, ready>>
        /\ history' = [history EXCEPT !.absent = history.absent \cup gone]
    BY <1>1 DEF Edit, Typed
  <2>2. history'.excused = history.excused
    BY <2>1 DEF Typed, Histories
  <2>3. QED
    BY <1>1, <2>1, <2>2, EditRemembered
<1>2. \A c : Stamped(c).stamp = clock + 1
  BY DEF Stamped
<1>3. ASSUME NEW p \in Watched, NEW c \in Contents, Write(p, c) PROVE Remembered'
  <2> DEFINE files == [file EXCEPT ![p] = Stamped(c)]
             kind == IF file[p] = None THEN "created" ELSE "modified"
  <2>1. \A q \in Watched : files[q] = file[q] \/ (q = p /\ files[q].stamp = clock + 1)
    BY <1>2, Apart DEF Typed
  <2>2. Edit(files, {}) /\ Tell(kind, p)
    BY <1>3 DEF Write
  <2>3. kind \in {"created", "modified"}
    OBVIOUS
  <2> HIDE DEF files, kind
  <2>4. QED
    BY <1>1, <2>1, <2>2, <2>3
<1>4. ASSUME NEW p \in Watched, Remove(p) PROVE Remembered'
  <2> DEFINE files == [file EXCEPT ![p] = None]
  <2>1. /\ \A q \in Watched : files[q] # None => files[q] = file[q]
        /\ files[p] = None
    BY Apart DEF Typed
  <2>2. Edit(files, {p}) /\ Tell("deleted", p)
    BY <1>4 DEF Remove
  <2> HIDE DEF files
  <2>3. QED
    BY <1>1, <2>1, <2>2
<1>5. ASSUME NEW p \in Watched, NEW q \in Watched, Rename(p, q) PROVE Remembered'
  <2> DEFINE files == [file EXCEPT ![p] = None, ![q] = Stamped(file[p].content)]
  <2>1. \A s \in Watched : files[s] # None =>
          files[s] = file[s] \/ (s = q /\ files[s].stamp = clock + 1)
    BY <1>2, Apart DEF Typed
  <2>2. Edit(files, {p}) /\ Tell("moved", q)
    BY <1>5 DEF Rename
  <2> HIDE DEF files
  <2>3. QED
    BY <1>1, <2>1, <2>2
<1>6. QED
  BY <1>3, <1>4, <1>5 DEF Folder

\* The disk comes back only while the watcher does not run.
LEMMA MountRemembered ==
    ASSUME Typed, Numbers, Numbers', Remembered, Mount
    PROVE  Remembered'
<1>1. /\ mounted' = ~mounted /\ (~mounted => ~up)
      /\ UNCHANGED <<file, clock, row, job, up, event, pending, registered, ready>>
      /\ history' = [history EXCEPT !.back = history.back \/ ~mounted]
  BY DEF Mount, watchVars
<1>2. history'.excused = history.excused
  BY <1>1 DEF Typed, Histories
<1>3. up => \A p \in Watched : ~Visible(p)'
  BY <1>1 DEF Visible
<1>4. FilesPast' /\ JobsPast' /\ RowsPast' /\ Landing'
  <2>1. \A r \in Ids : Answers(r)' => Answers(r)
    BY <1>1, <1>3 DEF Answers
  <2>2. clock <= clock'
    BY <1>1 DEF Numbers
  <2>3. QED
    BY <1>1, <2>1, <2>2, DatabaseKept
<1>5. WatchPast'
  BY <1>1 DEF WatchPast, Past, Remembered
<1>6. \A p \in Watched : ~up => pending[p] = None /\ registered[p] = None
  BY DEF Down, Remembered
<1>7. Waits'
  BY <1>1, <1>3, <1>6 DEF Waits, Remembered
<1>8. Down' /\ TurnStamp' /\ Deletes'
  BY <1>1 DEF Down, TurnStamp, Busy, Deletes, Remembered
<1>9. Known'
  <2>1. \A p \in Watched : Visible(p)' => file'[p].stamp # None
    BY <1>1, Apart DEF Visible, Numbers
  <2>2. QED
    BY <1>1, <1>3, <1>6, <2>1 DEF Known
<1>10. NotForgotten'
  BY <1>1, <1>3 DEF NotForgotten
<1>11. QED
  BY <1>4, <1>5, <1>7, <1>8, <1>9, <1>10 DEF Remembered

LEMMA ProcessRemembered ==
    ASSUME Typed, Numbers, Numbers', Remembered, NEW p \in Watched, Process(p)
    PROVE  Remembered'
<1>1. /\ ready[p] # None /\ ~Busy("watcher") /\ SameFolder /\ "watcher" \in Actors
      /\ UNCHANGED <<row, up, event, registered, history>>
  BY DEF Process, diskVars, SameFolder, Numbers, Actors
<1>2. up
  BY <1>1 DEF Down, Remembered
<1>3. CASE ~Visible(p)
  <2>1. Forget(p) /\ Dropped(p) /\ UNCHANGED job
    BY <1>3 DEF Process
  <2>2. /\ ready'[p] = None /\ \A q \in Watched \ {p} : ready'[q] = ready[q] /\ pending'[q] = pending[q]
        /\ pending'[p] = pending[p] \/ pending'[p] = None
    BY <2>1 DEF Forget, Dropped, Typed
  <2>3. ~Busy("watcher")' /\ \A b \in Actors : job'[b] = job[b] \/ job'[b] = None
    BY <1>1, <2>1 DEF Busy
  <2>4. QED
    BY <1>1, <1>3, <2>2, <2>3, ItemRemembered
<1>4. CASE Visible(p) /\ file[p].stamp # ready[p].stamp
  <2>1. Retry(p, file[p].stamp) /\ Dropped(p) /\ UNCHANGED job
    BY <1>4 DEF Process
  <2>2. /\ ready'[p] = None /\ \A q \in Watched \ {p} : ready'[q] = ready[q] /\ pending'[q] = pending[q]
        /\ pending'[p] = pending[p] \/ pending'[p] = file[p].stamp
    BY <2>1 DEF Retry, Dropped, Typed
  <2>3. ~Busy("watcher")' /\ \A b \in Actors : job'[b] = job[b] \/ job'[b] = None
    BY <1>1, <2>1 DEF Busy
  <2>4. QED
    BY <1>1, <1>4, <2>2, <2>3, ItemRemembered
<1>5. CASE Visible(p) /\ file[p].stamp = ready[p].stamp
  <2>1. Read("watcher", p, file[p], "scan", {}) /\ UNCHANGED <<pending, ready>>
    BY <1>5 DEF Process
  <2>2. p \in Paths /\ file[p] \in Files /\ "scan" \in {"scan", "upload"} /\ {} \in SUBSET Ids
    BY <1>5, Apart, FileThere
  <2>3. QED
    BY <1>1, <1>2, <1>5, <2>1, <2>2, ReadRemembered
<1>6. QED
  BY <1>3, <1>4, <1>5

LEMMA WatcherFailsRemembered ==
    ASSUME Typed, Taken, Numbers, Numbers', Remembered, WatcherFails
    PROVE  Remembered'
<1>1. PICK p : p = job["watcher"].path
  OBVIOUS
<1>2. /\ "watcher" \in Actors /\ Fail("watcher") /\ Dropped(p) /\ SameFolder
      /\ (~Visible(p) /\ Forget(p)) \/ Retry(p, ready[p].stamp)
      /\ UNCHANGED <<row, up, event, registered, history>>
  BY <1>1 DEF WatcherFails, diskVars, SameFolder, Numbers, Actors
<1>3. Busy("watcher") /\ ~Busy("watcher")' /\ \A b \in Actors : job'[b] = job[b] \/ job'[b] = None
  BY <1>2, FailStep DEF Busy, Others
<1>4. p \in Watched /\ ready[p] # None
  BY <1>1, <1>3 DEF Taken
<1>5. ready[p].live => pending[p] = ready[p].stamp
  BY <1>4 DEF Waits, Remembered
<1>6. /\ ready'[p] = None /\ \A q \in Watched \ {p} : ready'[q] = ready[q] /\ pending'[q] = pending[q]
      /\ pending'[p] = pending[p] \/ (pending'[p] = None /\ ~Visible(p))
  BY <1>2, <1>4, <1>5 DEF Forget, Retry, Dropped, Typed
<1>7. QED
  BY <1>2, <1>3, <1>4, <1>6, ItemRemembered

LEMMA WatcherEndsRemembered ==
    ASSUME Typed, Numbers, Numbers', Remembered, WatcherEnds
    PROVE  Remembered'
<1>1. /\ SameFolder /\ UNCHANGED <<file, clock, mounted, row, history>> /\ ~up' /\ event' = <<>>
      /\ \A p \in Watched : pending'[p] = None /\ registered'[p] = None /\ ready'[p] = None
      /\ job' = [job EXCEPT !["watcher"] = None] /\ "watcher" \in Actors
  BY DEF WatcherEnds, diskVars, SameFolder, Numbers, Actors
<1>2. job'["watcher"] = None /\ \A b \in Actors : job'[b] = job[b] \/ job'[b] = None
  BY <1>1 DEF Typed
<1>3. FilesPast' /\ JobsPast' /\ RowsPast' /\ Landing'
  <2>1. \A r \in Ids : Answers(r)' => Answers(r)
    BY <1>1 DEF Answers
  <2>2. QED
    BY <1>1, <1>2, <2>1, DatabaseKept DEF SameFolder
<1>4. WatchPast' /\ Waits' /\ Deletes'
  BY <1>1 DEF WatchPast, Waits, Deletes
<1>5. Down' /\ TurnStamp'
  BY <1>1, <1>2 DEF Down, TurnStamp, Busy
<1>6. Known'
  BY <1>1, Apart DEF Known, Visible, Numbers
<1>7. NotForgotten'
  BY <1>1 DEF NotForgotten
<1>8. QED
  BY <1>3, <1>4, <1>5, <1>6, <1>7 DEF Remembered

LEMMA WatcherStartsRemembered ==
    ASSUME Typed, Numbers, Numbers', Remembered, WatcherStarts
    PROVE  Remembered'
<1>1. /\ ~up /\ up' /\ UNCHANGED <<file, clock, mounted, row, job, event, pending, registered, ready>>
      /\ history' = [history EXCEPT !.excused = Watched] /\ SameFolder
  BY DEF WatcherStarts, diskVars, SameFolder, Numbers
<1>2. history'.excused = Watched
  BY <1>1 DEF Typed, Histories
<1>3. FilesPast' /\ JobsPast' /\ RowsPast' /\ Landing'
  <2>1. \A r \in Ids : Answers(r)' => Answers(r)
    BY <1>2 DEF Answers
  <2>2. QED
    BY <1>1, <2>1, DatabaseKept DEF SameFolder
<1>4. WatchPast' /\ Waits' /\ Deletes'
  BY <1>1 DEF WatchPast, Past, Waits, Visible, Quiet, Deletes, Remembered
<1>5. Down' /\ TurnStamp'
  BY <1>1 DEF Down, TurnStamp, Busy, Remembered
<1>6. Known' /\ NotForgotten'
  BY <1>2 DEF Known, NotForgotten
<1>7. QED
  BY <1>3, <1>4, <1>5, <1>6 DEF Remembered

LEMMA ScanStartsExcuses ==
    ASSUME Typed, ScanStarts
    PROVE  history'.excused = history.excused
<1> DEFINE gone == {p \in Watched : file[p] = None}
<1>1. history \in Histories /\ history' = [history EXCEPT !.absent = gone, !.back = FALSE]
  BY DEF Typed, ScanStarts
<1> HIDE DEF gone
<1>2. QED
  BY <1>1 DEF Histories

LEMMA ScanningRemembered ==
    ASSUME IInv, Numbers, Numbers', Remembered, Scanning
    PROVE  Remembered'
<1>1. Typed /\ Unique /\ Taken /\ Consistent /\ "scanner" \in Actors /\ "scanner" \in Actors \ {"watcher"}
  BY DEF IInv, Actors
<1>2. CASE ScanStarts \/ ScanFindsNothing \/ ScanBreaks \/ ScanCompares
  <2>1. SameFolder /\ UNCHANGED <<row, job, watchVars>>
    BY <1>2 DEF ScanStarts, ScanFindsNothing, ScanBreaks, ScanCompares, diskVars, SameFolder, Numbers
  <2>2. history'.excused = history.excused
    BY <1>1, <1>2, ScanStartsExcuses DEF ScanFindsNothing, ScanBreaks, ScanCompares
  <2>3. QED
    BY <2>1, <2>2, OthersRemembered
<1>3. CASE ScanCommits
  BY <1>1, <1>3, CommitRemembered DEF ScanCommits
<1>4. CASE ScanFails
  <2>1. /\ Fail("scanner") /\ SameFolder
        /\ UNCHANGED <<row, up, event, pending, registered, ready, history>>
    BY <1>4 DEF ScanFails, diskVars, watchVars, SameFolder, Numbers
  <2>2. QED
    BY <1>1, <2>1, FailRemembered
<1>5. ASSUME NEW p \in Watched, ScanVisits(p) PROVE Remembered'
  <2>1. SameFolder /\ UNCHANGED <<row, watchVars, up, event, pending, registered, ready, history>>
    BY <1>5 DEF ScanVisits, diskVars, watchVars, SameFolder, Numbers
  <2>2. CASE UNCHANGED job
    BY <2>1, <2>2, OthersRemembered
  <2>3. CASE Visible(p) /\ Read("scanner", p, file[p], "scan", {})
    <3>1. p \in Paths /\ file[p] \in Files /\ "scan" \in {"scan", "upload"} /\ {} \in SUBSET Ids
      BY <1>1, <2>3, Apart, FileThere
    <3>2. QED
      BY <1>1, <2>1, <2>3, <3>1, ReadRemembered
  <2>4. QED
    BY <1>5, <2>2, <2>3 DEF ScanVisits
<1>6. QED
  BY <1>1, <1>2, <1>3, <1>4, <1>5, SweepRemembered, LockContentRemembered, DecideRemembered DEF Scanning

\* Files of uploads are not the watcher's.
LEMMA UploadingRemembered ==
    ASSUME IInv, UploadPaths, Numbers, Numbers', Remembered, Uploading
    PROVE  Remembered'
<1>1. Typed /\ Unique /\ Taken /\ Consistent /\ "uploader" \in Actors /\ "uploader" \in Actors \ {"watcher"}
  BY DEF IInv, Actors
<1>2. CASE UploadCommits
  BY <1>1, <1>2, CommitRemembered DEF UploadCommits
<1>3. CASE UploadFails
  <2>1. job["uploader"].path \in Uploads
    BY <1>3 DEF UploadFails, Fail, UploadPaths
  <2>2. \A p \in Watched : file'[p] = file[p]
    BY <1>1, <1>3, <2>1, Apart DEF UploadFails, Typed
  <2>3. /\ Fail("uploader") /\ SameFolder
        /\ UNCHANGED <<row, up, event, pending, registered, ready, history>>
    BY <1>3, <2>2 DEF UploadFails, watchVars, SameFolder, Numbers
  <2>4. QED
    BY <1>1, <2>3, FailRemembered
<1>4. ASSUME NEW p \in Uploads, NEW c \in Contents, UploadStarts(p, c) PROVE Remembered'
  <2>1. /\ FindByContent(c) \in SUBSET Ids /\ Stamped(c) \in Files /\ p \in Paths
        /\ "upload" \in {"scan", "upload"}
        /\ Read("uploader", p, Stamped(c), "upload", FindByContent(c))
    BY <1>1, <1>4, UploadStartsStep
  <2>2. SameFolder
    BY <1>1, <1>4, Apart DEF UploadStarts, Typed, SameFolder, Numbers
  <2>3. UNCHANGED <<row, up, event, pending, registered, ready, history>> /\ p \notin Watched
    BY <1>4, Apart DEF UploadStarts, watchVars
  <2>4. QED
    BY <1>1, <2>1, <2>2, <2>3, ReadRemembered
<1>5. QED
  BY <1>1, <1>2, <1>3, <1>4, LockContentRemembered, DecideRemembered DEF Uploading

LEMMA NextRemembered ==
    ASSUME IInv, IInv', UploadPaths, Remembered, [Next]_vars
    PROVE  Remembered'
<1>1. Typed /\ Unique /\ Taken /\ Consistent /\ "watcher" \in Actors
  BY DEF IInv, Actors
<1>2. Numbers
  BY <1>1, NumbersHold
<1>3. Numbers'
  <2>1. Typed'
    BY DEF IInv
  <2>2. Typed' => Numbers'
    BY NumbersHold, PTL
  <2>3. QED
    BY <2>1, <2>2
<1>4. CASE Watching
  BY <1>1, <1>2, <1>3, <1>4, DeliverRemembered, TakeReadyRemembered, WatcherCommitsRemembered,
     WatcherFailsRemembered, LockContentRemembered, DecideRemembered, ProcessRemembered DEF Watching
<1>5. CASE Deleting
  <2>1. CASE DeleteFails
    <3>1. SameFolder /\ UNCHANGED <<row, job, watchVars, history>>
      BY <1>2, <2>1 DEF DeleteFails, diskVars, SameFolder, Numbers
    <3>2. QED
      BY <1>2, <1>3, <3>1, OthersRemembered
  <2>2. ASSUME NEW r \in Ids, DeleteStarts(r) PROVE Remembered'
    <3>1. file' = file \/ (row[r].path \in Uploads /\ file' = [file EXCEPT ![row[r].path] = None])
      BY <2>2 DEF DeleteStarts, Playable
    <3>2. \A p \in Watched : file'[p] = file[p]
      BY <1>1, <3>1, Apart DEF Typed
    <3>3. SameFolder /\ UNCHANGED <<row, job, watchVars, history>>
      BY <1>2, <2>2, <3>2 DEF DeleteStarts, SameFolder, Numbers
    <3>4. QED
      BY <1>2, <1>3, <3>3, OthersRemembered
  <2>3. QED
    BY <1>1, <1>2, <1>3, <1>5, <2>1, <2>2, DeleteRemembered DEF Deleting
<1>6. CASE UNCHANGED vars
  <2>1. SameFolder /\ UNCHANGED <<row, job, watchVars, history>>
    BY <1>2, <1>6 DEF vars, diskVars, SameFolder, Numbers
  <2>2. QED
    BY <1>2, <1>3, <2>1, OthersRemembered
<1>7. CASE Folder \/ Mount \/ Restarting \/ Working
  BY <1>1, <1>2, <1>3, <1>7, FolderRemembered, MountRemembered, WatcherEndsRemembered,
     WatcherStartsRemembered, WorkRemembered DEF Restarting, Working
<1>8. QED
  BY <1>2, <1>3, <1>4, <1>5, <1>6, <1>7, ScanningRemembered, UploadingRemembered DEF Next

LEMMA InitRemembered == Init => Remembered
<1> SUFFICES ASSUME Init PROVE Remembered
  OBVIOUS
<1>1. /\ \A p \in Watched : file[p] = None /\ pending[p] = None /\ registered[p] = None /\ ready[p] = None
      /\ \A a \in Actors : ~Busy(a)
      /\ ~Busy("watcher") /\ Stored = {} /\ event = <<>>
  BY Apart DEF Init, Busy, Stored, Actors
<1>2. FilesPast /\ JobsPast /\ RowsPast /\ WatchPast /\ Waits
  BY <1>1 DEF FilesPast, JobsPast, RowsPast, WatchPast, Waits
<1>3. Down /\ TurnStamp /\ Deletes /\ Landing
  BY <1>1 DEF Down, TurnStamp, Deletes, Landing
<1>4. Known /\ NotForgotten
  BY <1>1 DEF Known, NotForgotten, Visible
<1>5. QED
  BY <1>2, <1>3, <1>4 DEF Remembered

\* The watcher forgets no file: one that is there with nothing pending and no event on
\* its way has a recording with its signature, whatever the scanner, uploads, deletions
\* and errors did meanwhile (watch.py:89-93).
THEOREM NoneForgotten == Spec => []NotForgotten
<1> DEFINE Inv == IInv /\ UploadPaths /\ Remembered
<1>1. Init => Inv
  BY InitTyped, InitConsistent, InitRemembered DEF IInv, Init, UploadPaths, Busy, Actors
<1>2. Inv /\ [Next]_vars => Inv'
  BY NextInv, NextUploadPaths, NextRemembered DEF IInv
<1>3. Inv => NotForgotten
  BY DEF Remembered
<1>4. QED
  BY <1>1, <1>2, <1>3, PTL DEF Spec
=============================================================================
