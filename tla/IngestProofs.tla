---------------------------- MODULE IngestProofs ----------------------------
(***************************************************************************)
(* Theorems about Ingest for all paths, contents and bounds: type          *)
(* correctness with one current row for each path, one original for each   *)
(* content, duplicates that are linked, and sweeps of what was gone.       *)
(***************************************************************************)
EXTENDS Ingest, Sums

-----------------------------------------------------------------------------
(* Types. *)

Typed ==
    /\ file \in [Paths -> Files \cup {None}] /\ clock \in 0..MaxEdits
    /\ mounted \in BOOLEAN /\ mounts \in 0..MaxMounts
    /\ row \in [Ids -> Rows \cup {None, Deleted}]
    /\ job \in [Actors -> Jobs \cup {None}]
    /\ up \in BOOLEAN /\ restarts \in 0..MaxRestarts /\ event \in Seq(Events)
    /\ pending \in [Watched -> Stamps \cup {None}]
    /\ registered \in [Watched -> Stamps \cup {None}]
    /\ ready \in [Watched -> Items \cup {None}]
    /\ scan \in Scans \cup {None} /\ delete \in Deletions \cup {None}
    /\ history \in Histories

\* A path has one current row.
Unique == \A p \in Paths : \A r, s \in At(p) : r = s

LEMMA TypeParts == TypeOK <=> Typed /\ Unique
BY DEF TypeOK, Typed, Unique

LEMMA InitTyped == Init => Typed /\ Unique
<1> SUFFICES ASSUME Init PROVE Typed /\ Unique
  OBVIOUS
<1>1. 0 \in 0..MaxEdits /\ 0 \in 0..MaxMounts /\ 0 \in 0..MaxRestarts
  BY ConstantsOK
<1>2. history \in Histories /\ <<>> \in Seq(Events)
  BY DEF Init, Histories
<1>3. Typed
  BY <1>1, <1>2 DEF Init, Typed
<1>4. Unique
  BY DEF Init, Unique, At, Stored
<1>5. QED
  BY <1>3, <1>4

\* The constants are told apart.
LEMMA Apart ==
    /\ None \notin Rows /\ None \notin Jobs /\ None \notin Scans /\ None \notin Deletions
    /\ None \notin Files /\ None \notin Items /\ None \notin Nat
    /\ Deleted \notin Rows /\ Deleted # None
    /\ Ids \subseteq Nat /\ Stamps \subseteq Nat
    /\ MaxRows \in Nat /\ MaxEdits \in Nat /\ MaxMounts \in Nat /\ MaxRestarts \in Nat
    /\ Watched \cap Uploads = {} /\ Watched \subseteq Paths /\ Uploads \subseteq Paths
BY ConstantsOK DEF Ids, Stamps, Paths

\* A new record of what was.
LEMMA HistoryFields ==
    ASSUME NEW h \in Histories
    PROVE  /\ h.absent \in SUBSET Watched /\ h.back \in BOOLEAN
           /\ h.excused \in SUBSET Watched /\ h.raced \in SUBSET Ids
BY DEF Histories

LEMMA EditTyped ==
    ASSUME Typed, NEW files, NEW gone \in SUBSET Watched, Edit(files, gone),
           files \in [Paths -> Files \cup {None}], event' \in Seq(Events)
    PROVE  Typed'
<1>1. clock' \in 0..MaxEdits
  BY Apart DEF Edit, Typed
<1>2. history' \in Histories
  <2>1. history \in Histories /\ history.absent \cup gone \in SUBSET Watched
    BY HistoryFields DEF Typed
  <2>2. history' = [history EXCEPT !.absent = history.absent \cup gone]
    BY DEF Edit
  <2>3. QED
    BY <2>1, <2>2 DEF Histories
<1>3. QED
  BY <1>1, <1>2 DEF Edit, Typed

LEMMA TellTyped ==
    ASSUME Typed, NEW kind \in {"created", "modified", "deleted", "moved"}, NEW p \in Watched, Tell(kind, p)
    PROVE  event' \in Seq(Events)
<1>1. [kind |-> kind, path |-> p] \in Events
  BY DEF Events
<1>2. event \in Seq(Events)
  BY DEF Typed
<1>3. Append(event, [kind |-> kind, path |-> p]) \in Seq(Events)
  BY <1>1, <1>2
<1>4. QED
  BY <1>2, <1>3 DEF Tell

LEMMA StampedType ==
    ASSUME Typed, NEW c \in Contents, clock < MaxEdits
    PROVE  Stamped(c) \in Files
<1>1. clock + 1 \in Stamps
  BY Apart DEF Typed, Stamps
<1>2. QED
  BY <1>1 DEF Stamped, Files

LEMMA FolderTyped ==
    ASSUME Typed, Folder
    PROVE  Typed'
<1>1. ASSUME NEW p \in Watched, NEW c \in Contents, Write(p, c) PROVE Typed'
  <2>1. Stamped(c) \in Files
    BY <1>1, StampedType DEF Write, Edit
  <2>2. [file EXCEPT ![p] = Stamped(c)] \in [Paths -> Files \cup {None}]
    BY <2>1, Apart DEF Typed
  <2>3. event' \in Seq(Events)
    BY <1>1, TellTyped DEF Write
  <2>4. Edit([file EXCEPT ![p] = Stamped(c)], {}) /\ {} \in SUBSET Watched
    BY <1>1 DEF Write
  <2>5. QED
    BY <2>2, <2>3, <2>4, EditTyped, Zenon
<1>2. ASSUME NEW p \in Watched, Remove(p) PROVE Typed'
  <2>1. [file EXCEPT ![p] = None] \in [Paths -> Files \cup {None}]
    BY Apart DEF Typed
  <2>2. event' \in Seq(Events)
    BY <1>2, TellTyped DEF Remove
  <2>3. Edit([file EXCEPT ![p] = None], {p}) /\ {p} \in SUBSET Watched
    BY <1>2 DEF Remove
  <2>4. QED
    BY <2>1, <2>2, <2>3, EditTyped, Zenon
<1>3. ASSUME NEW p \in Watched, NEW q \in Watched, Rename(p, q) PROVE Typed'
  <2>1. file[p].content \in Contents
    BY <1>3, Apart DEF Rename, Typed, Files
  <2>2. Stamped(file[p].content) \in Files
    BY <1>3, <2>1, StampedType DEF Rename, Edit
  <2>3. [file EXCEPT ![p] = None, ![q] = Stamped(file[p].content)] \in [Paths -> Files \cup {None}]
    BY <2>2, Apart DEF Typed
  <2>4. event' \in Seq(Events)
    BY <1>3, TellTyped DEF Rename
  <2>5. /\ Edit([file EXCEPT ![p] = None, ![q] = Stamped(file[p].content)], {p})
        /\ {p} \in SUBSET Watched
    BY <1>3 DEF Rename
  <2>6. QED
    BY <2>3, <2>4, <2>5, EditTyped, Zenon
<1>4. QED
  BY <1>1, <1>2, <1>3 DEF Folder

LEMMA MountTyped ==
    ASSUME Typed, Mount
    PROVE  Typed'
<1>1. mounts' \in 0..MaxMounts /\ mounted' \in BOOLEAN
  BY Apart DEF Mount, Typed
<1>2. history' \in Histories
  <2>1. history \in Histories /\ (history.back \/ ~mounted) \in BOOLEAN
    BY HistoryFields DEF Typed
  <2>2. QED
    BY <2>1 DEF Mount, Histories
<1>3. QED
  BY <1>1, <1>2 DEF Mount, Typed, watchVars

-----------------------------------------------------------------------------
(* What the steps of ingest_file do to job, field by field. *)

\* The others stay as they are.
Others(a) == \A b \in Actors : b # a => job'[b] = job[b]

LEMMA ReadStep ==
    ASSUME Typed, NEW a \in Actors, NEW p \in Paths, NEW f \in Files,
           NEW source \in {"scan", "upload"}, NEW locked \in SUBSET Ids,
           Read(a, p, f, source, locked)
    PROVE  /\ ~Busy(a) /\ job' \in [Actors -> Jobs \cup {None}] /\ Others(a)
           /\ job'[a] \in Jobs /\ job'[a].step = "read" /\ job'[a].locked = locked
           /\ job'[a].path = p /\ job'[a].content = f.content /\ job'[a].stamp = f.stamp
           /\ \A r \in Ids : job'[a].changes[r] = None
<1> DEFINE j == [step |-> "read", path |-> p, content |-> f.content, stamp |-> f.stamp,
                 source |-> source, locked |-> locked, changes |-> [r \in Ids |-> None]]
<1>1. f.content \in Contents /\ f.stamp \in Stamps
  BY DEF Files
<1>2. [r \in Ids |-> None] \in [Ids -> Rows \cup {None}]
  OBVIOUS
<1>3. /\ j \in Jobs /\ j.step = "read" /\ j.locked = locked /\ j.path = p
      /\ j.content = f.content /\ j.stamp = f.stamp /\ \A r \in Ids : j.changes[r] = None
  BY <1>1, <1>2 DEF Jobs
<1>4. job' = [job EXCEPT ![a] = j] /\ ~Busy(a)
  BY DEF Read
<1> HIDE DEF j
<1>5. job'[a] = j /\ Others(a) /\ job' \in [Actors -> Jobs \cup {None}]
  BY <1>3, <1>4 DEF Typed, Others
<1>6. QED
  BY <1>3, <1>4, <1>5

LEMMA BusyJob ==
    ASSUME Typed, NEW a \in Actors
    PROVE  /\ Busy(a) <=> job[a] \in Jobs
           /\ job[a] = None \/ job[a] \in Jobs
           /\ Busy(a) => job[a].path \in Paths /\ job[a].content \in Contents
                         /\ job[a].stamp \in Stamps /\ job[a].locked \in SUBSET Ids
                         /\ job[a].changes \in [Ids -> Rows \cup {None}]
BY Apart DEF Typed, Busy, Jobs

LEMMA FailStep ==
    ASSUME Typed, NEW a \in Actors, Fail(a)
    PROVE  /\ Busy(a) /\ job' \in [Actors -> Jobs \cup {None}]
           /\ Others(a) /\ job'[a] = None
BY DEF Typed, Fail, Others

LEMMA LockContentStep ==
    ASSUME Typed, NEW a \in Actors, LockContent(a)
    PROVE  /\ Busy(a) /\ job[a].step = "read"
           /\ job' \in [Actors -> Jobs \cup {None}] /\ Others(a)
           /\ job'[a] \in Jobs /\ job'[a].step = "content"
           /\ job'[a].path = job[a].path /\ job'[a].content = job[a].content
           /\ job'[a].stamp = job[a].stamp /\ job'[a].source = job[a].source
           /\ job'[a].locked = job[a].locked /\ job'[a].changes = job[a].changes
<1>1. Busy(a) /\ job[a] \in Jobs
  BY BusyJob DEF LockContent
<1>2. PICK j : j = [job[a] EXCEPT !.step = "content"]
  OBVIOUS
<1>3. /\ j \in Jobs /\ j.step = "content" /\ j.path = job[a].path
      /\ j.content = job[a].content /\ j.stamp = job[a].stamp /\ j.source = job[a].source
      /\ j.locked = job[a].locked /\ j.changes = job[a].changes
  BY <1>1, <1>2 DEF Jobs
<1>4. job' = [job EXCEPT ![a] = j]
  BY <1>2 DEF LockContent
<1>5. job'[a] = j /\ Others(a) /\ job' \in [Actors -> Jobs \cup {None}]
  BY <1>3, <1>4 DEF Typed, Others
<1>6. QED
  BY <1>1, <1>3, <1>5 DEF LockContent

\* The least of some ids.
LEMMA FirstIn ==
    ASSUME NEW ids \in SUBSET Ids, ids # {}
    PROVE  First(ids) \in ids
<1> DEFINE D == {T \in SUBSET Ids : T # {} => \E r \in T : \A s \in T : r <= s}
<1>1. IsFiniteSet(Ids)
  <2>1. 1 \in Int /\ MaxRows \in Int
    BY Apart
  <2>2. QED
    BY <2>1, FS_Interval DEF Ids
<1>2. ASSUME NEW T \in SUBSET Ids, \A U \in SUBSET T : U # T => U \in D PROVE T \in D
  <2>1. SUFFICES ASSUME NEW t \in T PROVE \E r \in T : \A s \in T : r <= s
    OBVIOUS
  <2>2. T \subseteq Nat
    BY Apart
  <2>3. CASE T = {t}
    BY <2>2, <2>3
  <2>4. CASE T # {t}
    <3>0. T \ {t} \in SUBSET T /\ T \ {t} # T /\ T \ {t} # {}
      BY <2>4
    <3>1. T \ {t} \in D /\ T \ {t} # {}
      <4> HIDE DEF D
      <4>1. QED
        BY <1>2, <3>0
    <3>2. PICK r \in T \ {t} : \A s \in T \ {t} : r <= s
      BY <3>1
    <3>3. CASE r <= t
      BY <3>2, <3>3
    <3>4. CASE ~(r <= t)
      BY <2>2, <3>2, <3>4
    <3>5. QED
      BY <3>3, <3>4
  <2>5. QED
    BY <2>3, <2>4
<1>3. SUBSET Ids \subseteq D
  <2> HIDE DEF D
  <2>1. QED
    BY <1>1, <1>2, SubsetInduction
<1>4. \E r \in ids : \A s \in ids : r <= s
  BY <1>3
<1>5. QED
  BY <1>4 DEF First

\* The rows that Decide writes.
LEMMA ArchivedFields ==
    ASSUME NEW x \in Rows
    PROVE  /\ Archived(x) \in Rows /\ ~Archived(x).current /\ Archived(x).status = "missing"
           /\ Archived(x).path = x.path /\ Archived(x).content = x.content
           /\ Archived(x).stamp = x.stamp /\ Archived(x).source = x.source
           /\ Archived(x).dup = x.dup
BY DEF Archived, Rows, Statuses

LEMMA ResumeIs ==
    ASSUME NEW x \in Rows
    PROVE  /\ ResumeStatus(x) \in {"duplicate", "done", "pending"}
           /\ ResumeStatus(x) = "duplicate" <=> x.dup # None
BY DEF ResumeStatus

LEMMA RefreshedFields ==
    ASSUME NEW x \in Rows, NEW j \in Jobs
    PROVE  /\ Refreshed(x, j) \in Rows /\ Refreshed(x, j).current = x.current
           /\ Refreshed(x, j).path = x.path /\ Refreshed(x, j).content = x.content
           /\ Refreshed(x, j).stamp = j.stamp /\ Refreshed(x, j).source = x.source
           /\ Refreshed(x, j).dup = x.dup
           /\ Refreshed(x, j).status \in {x.status, ResumeStatus(x)}
           /\ Refreshed(x, j).status \notin {"missing", "changed"}
<1> DEFINE st == IF x.status \in {"missing", "changed"} THEN ResumeStatus(x) ELSE x.status
<1>1. /\ st \in Statuses /\ st \in {x.status, ResumeStatus(x)}
      /\ st \notin {"missing", "changed"}
  BY ResumeIs DEF Rows, Statuses
<1>2. Refreshed(x, j) = [x EXCEPT !.stamp = j.stamp, !.status = st]
  BY DEF Refreshed, Rows
<1>3. j.stamp \in Stamps
  BY DEF Jobs
<1> HIDE DEF st
<1>4. QED
  BY <1>1, <1>2, <1>3 DEF Rows

LEMMA MovedFields ==
    ASSUME NEW x \in Rows, NEW j \in Jobs
    PROVE  /\ Moved(x, j) \in Rows /\ Moved(x, j).current
           /\ Moved(x, j).path = j.path /\ Moved(x, j).content = x.content
           /\ Moved(x, j).stamp = j.stamp /\ Moved(x, j).source = x.source
           /\ Moved(x, j).dup = x.dup /\ Moved(x, j).status = ResumeStatus(x)
<1> DEFINE st == ResumeStatus(x)
<1>1. st \in Statuses
  BY ResumeIs DEF Statuses
<1>2. Moved(x, j) = [x EXCEPT !.path = j.path, !.current = TRUE, !.stamp = j.stamp, !.status = st]
  BY DEF Moved
<1>3. j.stamp \in Stamps /\ j.path \in Paths
  BY DEF Jobs
<1> HIDE DEF st
<1>4. /\ Moved(x, j) \in Rows /\ Moved(x, j).current
      /\ Moved(x, j).path = j.path /\ Moved(x, j).content = x.content
      /\ Moved(x, j).stamp = j.stamp /\ Moved(x, j).source = x.source
      /\ Moved(x, j).dup = x.dup /\ Moved(x, j).status = st
  BY <1>1, <1>2, <1>3 DEF Rows
<1>5. QED
  BY <1>4 DEF st

LEMMA RegisteredFields ==
    ASSUME NEW j \in Jobs
    PROVE  /\ Registered(j) \in Rows /\ Registered(j).current
           /\ Registered(j).path = j.path /\ Registered(j).content = j.content
           /\ Registered(j).stamp = j.stamp /\ Registered(j).source = j.source
           /\ \/ /\ FindOriginal(j.content) = {}
                 /\ Registered(j).status = "pending" /\ Registered(j).dup = None
              \/ /\ Registered(j).status = "duplicate"
                 /\ Registered(j).dup \in FindOriginal(j.content)
<1> DEFINE original == FindOriginal(j.content)
           st == IF original = {} THEN "pending" ELSE "duplicate"
           d == IF original = {} THEN None ELSE First(original)
<1>1. original \in SUBSET Ids
  BY DEF FindOriginal, FindByContent, Stored
<1>2. original # {} => First(original) \in original
  <2> HIDE DEF original
  <2>1. QED
    BY <1>1, FirstIn
<1>3. /\ st \in Statuses /\ d \in Ids \cup {None}
      /\ \/ original = {} /\ st = "pending" /\ d = None
         \/ st = "duplicate" /\ d \in original
  <2> HIDE DEF original
  <2>1. QED
    BY <1>1, <1>2 DEF Statuses
<1>4. Registered(j) = [path |-> j.path, content |-> j.content, stamp |-> j.stamp,
                       source |-> j.source, current |-> TRUE, summary |-> FALSE,
                       status |-> st, dup |-> d]
  BY DEF Registered
<1>5. j.path \in Paths /\ j.content \in Contents /\ j.stamp \in Stamps /\ j.source \in {"scan", "upload"}
  BY DEF Jobs
<1> HIDE DEF st, d
<1>6. /\ Registered(j) \in Rows /\ Registered(j).current
      /\ Registered(j).path = j.path /\ Registered(j).content = j.content
      /\ Registered(j).stamp = j.stamp /\ Registered(j).source = j.source
      /\ Registered(j).status = st /\ Registered(j).dup = d
  BY <1>3, <1>4, <1>5 DEF Rows
<1>7. QED
  BY <1>3, <1>6

\* What Decide may write of a row: it is refreshed, moved, new or archived.
Outcome(j, r, y) ==
    \/ Same(j) /\ r \in At(j.path) /\ y = Refreshed(row[r], j)
    \/ /\ ~Same(j) /\ r \in FindMoved(j.content) /\ r = First(FindMoved(j.content))
       /\ y = Moved(row[r], j)
    \/ /\ ~Same(j) /\ FindMoved(j.content) = {} /\ r \in NewIds /\ r = First(NewIds)
       /\ y = Registered(j)
    \/ ~Same(j) /\ r \in At(j.path) /\ y = Archived(row[r])

LEMMA RowOf ==
    ASSUME Typed, NEW r \in Stored
    PROVE  r \in Ids /\ row[r] \in Rows
BY DEF Stored, Typed

LEMMA ChangesAre ==
    ASSUME Typed, NEW j \in Jobs, Same(j) \/ FindMoved(j.content) # {} \/ NewIds # {}
    PROVE  /\ Changes(j) \in [Ids -> Rows \cup {None}]
           /\ \A r \in Ids : Changes(j)[r] # None => Outcome(j, r, Changes(j)[r])
           /\ \A r \in At(j.path) : Changes(j)[r] # None
<1> DEFINE moved == FindMoved(j.content)
           target == IF Same(j) THEN At(j.path)
                     ELSE {First(IF moved # {} THEN moved ELSE NewIds)}
           becomes(r) == IF Same(j) THEN Refreshed(row[r], j)
                         ELSE IF moved # {} THEN Moved(row[r], j) ELSE Registered(j)
           y(r) == IF r \in target THEN becomes(r)
                   ELSE IF r \in At(j.path) THEN Archived(row[r]) ELSE None
<1>1. moved \in SUBSET Stored /\ NewIds \in SUBSET Ids /\ At(j.path) \in SUBSET Stored
  BY DEF FindMoved, FindByContent, NewIds, At
<1>2. moved # {} => First(moved) \in moved
  <2> HIDE DEF moved
  <2>1. QED
    BY <1>1, FirstIn DEF Stored
<1>3. NewIds # {} => First(NewIds) \in NewIds
  BY <1>1, FirstIn
<1>4. ASSUME NEW r \in target
      PROVE  becomes(r) \in Rows /\ Outcome(j, r, becomes(r))
  <2>1. CASE Same(j)
    <3>1. r \in At(j.path)
      BY <2>1
    <3>2. Refreshed(row[r], j) \in Rows
      BY <1>1, <3>1, RowOf, RefreshedFields
    <3>3. QED
      BY <2>1, <3>1, <3>2 DEF Outcome
  <2>2. CASE ~Same(j) /\ moved # {}
    <3>1. r = First(moved) /\ r \in moved
      BY <1>2, <2>2
    <3>2. Moved(row[r], j) \in Rows
      BY <1>1, <3>1, RowOf, MovedFields
    <3>3. QED
      BY <2>2, <3>1, <3>2 DEF Outcome
  <2>3. CASE ~Same(j) /\ moved = {}
    <3>1. r = First(NewIds) /\ r \in NewIds
      BY <1>3, <2>3
    <3>2. Registered(j) \in Rows
      BY RegisteredFields
    <3>3. QED
      BY <2>3, <3>1, <3>2 DEF Outcome
  <2>4. QED
    BY <2>1, <2>2, <2>3
<1>5. ASSUME NEW r \in At(j.path), r \notin target
      PROVE  Archived(row[r]) \in Rows /\ Outcome(j, r, Archived(row[r]))
  <2>1. ~Same(j)
    BY <1>5
  <2>2. Archived(row[r]) \in Rows
    BY <1>1, RowOf, ArchivedFields
  <2>3. QED
    BY <2>1, <2>2 DEF Outcome
<1>6. ASSUME NEW r \in Ids PROVE y(r) = None \/ (y(r) \in Rows /\ Outcome(j, r, y(r)))
  <2> HIDE DEF target, becomes
  <2>1. CASE r \in target
    BY <1>4, <2>1
  <2>2. CASE r \notin target /\ r \in At(j.path)
    BY <1>5, <2>2
  <2>3. CASE r \notin target /\ r \notin At(j.path)
    BY <2>3
  <2>4. QED
    BY <2>1, <2>2, <2>3
<1>7. \A r \in At(j.path) : y(r) # None
  <2> HIDE DEF target, becomes
  <2>1. QED
    BY <1>4, <1>5, Apart
<1>8. Changes(j) = [r \in Ids |-> y(r)]
  BY DEF Changes
<1> HIDE DEF y
<1>9. QED
  <2>1. \A r \in Ids : Changes(j)[r] = y(r)
    BY <1>8
  <2>2. Changes(j) \in [Ids -> Rows \cup {None}]
    BY <1>6, <1>8
  <2>3. At(j.path) \subseteq Ids
    BY <1>1 DEF Stored
  <2>4. QED
    BY <1>6, <1>7, <2>1, <2>2, <2>3

\* Rows locked by a decision.
Wanted(j) == At(j.path) \cup IF Same(j) THEN {} ELSE FindByContent(j.content)

LEMMA DecideStep ==
    ASSUME Typed, NEW a \in Actors, Decide(a)
    PROVE  /\ Busy(a) /\ job[a] \in Jobs /\ job[a].step = "content"
           /\ job' \in [Actors -> Jobs \cup {None}] /\ Others(a)
           /\ job'[a] \in Jobs /\ job'[a].step = "decided"
           /\ job'[a].path = job[a].path /\ job'[a].content = job[a].content
           /\ job'[a].stamp = job[a].stamp /\ job'[a].source = job[a].source
           /\ job'[a].locked = job[a].locked \cup Wanted(job[a])
           /\ job'[a].changes = Changes(job[a])
           /\ \A r \in Ids : Changes(job[a])[r] # None => Outcome(job[a], r, Changes(job[a])[r])
           /\ \A r \in At(job[a].path) : Changes(job[a])[r] # None
<1>1. Busy(a) /\ job[a] \in Jobs /\ job[a].step = "content"
  BY BusyJob DEF Decide
<1>2. /\ Changes(job[a]) \in [Ids -> Rows \cup {None}]
      /\ \A r \in Ids : Changes(job[a])[r] # None => Outcome(job[a], r, Changes(job[a])[r])
      /\ \A r \in At(job[a].path) : Changes(job[a])[r] # None
  <2>1. Same(job[a]) \/ FindMoved(job[a].content) # {} \/ NewIds # {}
    BY DEF Decide
  <2>2. QED
    BY <1>1, <2>1, ChangesAre
<1>3. Wanted(job[a]) \in SUBSET Ids
  BY DEF Wanted, At, FindByContent, Stored
<1> DEFINE w == Wanted(job[a])
           c == Changes(job[a])
           l == job[a].locked \cup w
           x == job[a]
<1>4. PICK j : j = [x EXCEPT !.step = "decided", !.locked = l, !.changes = c]
  OBVIOUS
<1>5. job' = [job EXCEPT ![a].step = "decided", ![a].locked = @ \cup w, ![a].changes = c]
  BY Zenon DEF Decide, Wanted
<1> HIDE DEF w, c
<1>6. job' = [job EXCEPT ![a] = j]
  BY <1>4, <1>5 DEF Typed
<1>7. c \in [Ids -> Rows \cup {None}] /\ w \in SUBSET Ids /\ x \in Jobs
  BY <1>1, <1>2, <1>3 DEF c, w
<1>8. l \in SUBSET Ids
  BY <1>7 DEF Jobs
<1> HIDE DEF x, l
<1>9. /\ j \in Jobs /\ j.step = "decided" /\ j.path = x.path
      /\ j.content = x.content /\ j.stamp = x.stamp /\ j.source = x.source
      /\ j.locked = l /\ j.changes = c
  BY <1>4, <1>7, <1>8 DEF Jobs
<1>10. job'[a] = j /\ Others(a) /\ job' \in [Actors -> Jobs \cup {None}]
  BY <1>6, <1>9 DEF Typed, Others
<1>11. QED
  BY <1>1, <1>2, <1>9, <1>10 DEF x, c, l, w

LEMMA CommitStep ==
    ASSUME Typed, NEW a \in Actors, Commit(a)
    PROVE  /\ Busy(a) /\ job[a] \in Jobs /\ job[a].step = "decided"
           /\ job' \in [Actors -> Jobs \cup {None}] /\ Others(a) /\ job'[a] = None
           /\ row' \in [Ids -> Rows \cup {None, Deleted}]
           /\ \A r \in Changed(job[a]) : row'[r] = job[a].changes[r]
           /\ \A r \in Ids \ Changed(job[a]) : row'[r] = row[r]
           /\ history' \in Histories
           /\ history.raced \subseteq history'.raced
           /\ \A r \in Changed(job[a]) :
                delete # None /\ job[a].changes[r].dup = delete.id => r \in history'.raced
<1> DEFINE j == job[a]
           seen == {p \in {j.path} \cap Watched : Visible(p) /\ file[p].stamp = j.stamp}
           raced == {r \in Changed(j) : delete # None /\ j.changes[r].dup = delete.id}
           y(r) == IF r \in Changed(j) THEN j.changes[r] ELSE row[r]
<1>1. Busy(a) /\ job[a] \in Jobs /\ job[a].step = "decided"
  BY BusyJob DEF Commit
<1>2. /\ row' = [r \in Ids |-> y(r)] /\ job' = [job EXCEPT ![a] = None]
      /\ history' = [history EXCEPT !.excused = @ \ seen, !.raced = @ \cup raced]
  BY DEF Commit
<1>3. \A r \in Ids : y(r) \in Rows \cup {None, Deleted}
  BY <1>1 DEF Typed, Jobs, Changed
<1>4. raced \in SUBSET Ids /\ Changed(j) \subseteq Ids
  BY DEF Changed
<1>5. job' \in [Actors -> Jobs \cup {None}] /\ Others(a) /\ job'[a] = None
  BY <1>2 DEF Typed, Others
<1>6. /\ row' \in [Ids -> Rows \cup {None, Deleted}]
      /\ \A r \in Changed(j) : row'[r] = j.changes[r]
      /\ \A r \in Ids \ Changed(j) : row'[r] = row[r]
  <2>1. /\ row' \in [Ids -> Rows \cup {None, Deleted}] /\ \A r \in Ids : row'[r] = y(r)
    <3> HIDE DEF y
    <3>1. QED
      BY <1>2, <1>3
  <2>2. QED
    BY <1>4, <2>1
<1>7. /\ history' \in Histories /\ history'.raced = history.raced \cup raced
  <2>1. history \in Histories
    BY DEF Typed
  <2> HIDE DEF raced, seen
  <2>2. QED
    BY <1>2, <1>4, <2>1 DEF Histories
<1>8. QED
  BY <1>1, <1>5, <1>6, <1>7

-----------------------------------------------------------------------------
(* Every step keeps the types. *)

\* What the watcher knows.
WatchTyped ==
    /\ pending \in [Watched -> Stamps \cup {None}]
    /\ registered \in [Watched -> Stamps \cup {None}]
    /\ ready \in [Watched -> Items \cup {None}]

LEMMA DeadItem ==
    ASSUME NEW taken \in [Watched -> Items \cup {None}], NEW p \in Watched, taken[p] # None
    PROVE  [taken EXCEPT ![p].live = FALSE] \in [Watched -> Items \cup {None}]
<1>1. taken[p] \in Items
  OBVIOUS
<1>2. PICK i : i = [taken[p] EXCEPT !.live = FALSE]
  OBVIOUS
<1>3. i \in Items
  BY <1>1, <1>2 DEF Items
<1>4. [taken EXCEPT ![p].live = FALSE] = [taken EXCEPT ![p] = i]
  BY <1>2
<1>5. QED
  BY <1>3, <1>4

LEMMA MaybeIngestTyped ==
    ASSUME Typed, NEW p \in Watched,
           NEW held \in [Watched -> Stamps \cup {None}],
           NEW known \in [Watched -> Stamps \cup {None}],
           NEW taken \in [Watched -> Items \cup {None}], MaybeIngest(p, held, known, taken)
    PROVE  WatchTyped'
<1> DEFINE seen == IF Visible(p) THEN file[p].stamp ELSE None
           skip == seen \in {None, known[p], held[p]}
<1>1. seen \in Stamps \cup {None}
  BY Apart DEF Typed, Visible, Files
<1>2. /\ registered' = known
      /\ pending' = IF skip THEN held ELSE [held EXCEPT ![p] = seen]
      /\ ready' = IF skip \/ taken[p] = None THEN taken ELSE [taken EXCEPT ![p].live = FALSE]
  BY DEF MaybeIngest
<1>3. taken[p] # None => [taken EXCEPT ![p].live = FALSE] \in [Watched -> Items \cup {None}]
  BY DeadItem
<1> DEFINE dead == [taken EXCEPT ![p].live = FALSE]
<1> HIDE DEF seen, skip, dead
<1>4. pending' \in [Watched -> Stamps \cup {None}]
  BY <1>1, <1>2
<1>5. ready' \in [Watched -> Items \cup {None}]
  BY <1>2, <1>3 DEF dead
<1>6. QED
  BY <1>2, <1>4, <1>5 DEF WatchTyped

LEMMA DeliverTyped ==
    ASSUME Typed, Deliver
    PROVE  Typed'
<1>1. Head(event) \in Events /\ Tail(event) \in Seq(Events)
  BY DEF Deliver, Typed
<1> DEFINE p == Head(event).path
           heldLess == [pending EXCEPT ![p] = None]
           knownLess == [registered EXCEPT ![p] = None]
           takenLess == IF ready[p] = None THEN ready ELSE [ready EXCEPT ![p].live = FALSE]
<1>2. p \in Watched
  BY <1>1 DEF Events
<1>3. /\ heldLess \in [Watched -> Stamps \cup {None}]
      /\ knownLess \in [Watched -> Stamps \cup {None}]
  BY <1>2 DEF Typed
<1>4. takenLess \in [Watched -> Items \cup {None}]
  BY <1>2, DeadItem DEF Typed
<1>5. \/ MaybeIngest(p, heldLess, knownLess, takenLess)
      \/ pending' = heldLess /\ registered' = knownLess /\ ready' = takenLess
      \/ MaybeIngest(p, pending, registered, ready)
  BY DEF Deliver
<1>6. WatchTyped
  BY DEF Typed, WatchTyped
<1>7. WatchTyped'
  <2> HIDE DEF p, heldLess, knownLess, takenLess
  <2>1. CASE MaybeIngest(p, heldLess, knownLess, takenLess)
    BY <1>2, <1>3, <1>4, <2>1, MaybeIngestTyped
  <2>2. CASE pending' = heldLess /\ registered' = knownLess /\ ready' = takenLess
    BY <1>3, <1>4, <2>2 DEF WatchTyped
  <2>3. CASE MaybeIngest(p, pending, registered, ready)
    BY <1>2, <1>6, <2>3, MaybeIngestTyped DEF WatchTyped
  <2>4. QED
    BY <1>5, <2>1, <2>2, <2>3
<1>8. event' \in Seq(Events)
  BY <1>1 DEF Deliver
<1>9. UNCHANGED <<diskVars, row, job, up, restarts, scan, delete, history>>
  BY DEF Deliver
<1>10. QED
  BY <1>7, <1>8, <1>9 DEF Typed, WatchTyped, diskVars

LEMMA TakeReadyTyped ==
    ASSUME Typed, TakeReady
    PROVE  Typed'
<1>1. PICK due \in SUBSET {p \in Watched : pending[p] # None} :
        ready' = [p \in Watched |-> IF p \in due THEN [stamp |-> pending[p], live |-> TRUE] ELSE None]
  BY DEF TakeReady
<1>2. \A p \in due : [stamp |-> pending[p], live |-> TRUE] \in Items
  BY DEF Typed, Items
<1>3. ready' \in [Watched -> Items \cup {None}]
  BY <1>1, <1>2
<1>4. UNCHANGED <<diskVars, row, job, up, restarts, event, pending, registered, scan, delete, history>>
  BY DEF TakeReady
<1>5. QED
  BY <1>3, <1>4 DEF Typed, diskVars

LEMMA ForgetTyped ==
    ASSUME Typed, NEW p \in Watched, Forget(p) \/ \E s \in Stamps : Retry(p, s)
    PROVE  pending' \in [Watched -> Stamps \cup {None}]
BY DEF Typed, Forget, Retry

LEMMA DroppedTyped ==
    ASSUME Typed, NEW p \in Watched, Dropped(p)
    PROVE  ready' \in [Watched -> Items \cup {None}]
BY DEF Typed, Dropped

LEMMA FileThere ==
    ASSUME Typed, NEW p \in Paths, Visible(p)
    PROVE  file[p] \in Files /\ file[p].stamp \in Stamps /\ file[p].content \in Contents
BY DEF Typed, Visible, Files

LEMMA ProcessTyped ==
    ASSUME Typed, NEW p \in Watched, Process(p)
    PROVE  Typed'
<1>1. UNCHANGED <<diskVars, row, up, restarts, event, registered, scan, delete, history>>
  BY DEF Process
<1>2. p \in Paths /\ {} \in SUBSET Ids
  BY Apart
<1>3. CASE /\ Dropped(p) /\ UNCHANGED job
           /\ Forget(p) \/ (Visible(p) /\ Retry(p, file[p].stamp))
  <2>1. pending' \in [Watched -> Stamps \cup {None}]
    BY <1>2, <1>3, FileThere, ForgetTyped
  <2>2. ready' \in [Watched -> Items \cup {None}]
    BY <1>3, DroppedTyped
  <2>3. QED
    BY <1>1, <1>3, <2>1, <2>2 DEF Typed, diskVars
<1>4. CASE Visible(p) /\ Read("watcher", p, file[p], "scan", {}) /\ UNCHANGED <<pending, ready>>
  <2>1. file[p] \in Files
    BY <1>2, <1>4, FileThere
  <2>2. "watcher" \in Actors /\ "scan" \in {"scan", "upload"}
    BY DEF Actors
  <2>3. job' \in [Actors -> Jobs \cup {None}]
    BY <1>2, <1>4, <2>1, <2>2, ReadStep
  <2>4. QED
    BY <1>1, <1>4, <2>3 DEF Typed, diskVars
<1>5. QED
  BY <1>3, <1>4 DEF Process

\* The watcher ingests an item it has taken.
Taken ==
    Busy("watcher") => job["watcher"].path \in Watched /\ ready[job["watcher"].path] # None

LEMMA WatcherCommitsTyped ==
    ASSUME Typed, Taken, WatcherCommits
    PROVE  Typed'
<1> DEFINE p == job["watcher"].path
<1>1. "watcher" \in Actors /\ Commit("watcher")
  BY DEF Actors, WatcherCommits
<1>2. /\ Busy("watcher") /\ job' \in [Actors -> Jobs \cup {None}]
      /\ row' \in [Ids -> Rows \cup {None, Deleted}] /\ history' \in Histories
  BY <1>1, CommitStep
<1>3. p \in Watched /\ ready[p] \in Items
  BY <1>2 DEF Taken, Typed
<1>4. ready[p].stamp \in Stamps
  BY <1>3 DEF Items
<1>5. /\ Forget(p) /\ Dropped(p) /\ registered' = [registered EXCEPT ![p] = ready[p].stamp]
      /\ UNCHANGED <<diskVars, up, restarts, event, scan, delete>>
  BY DEF WatcherCommits
<1> HIDE DEF p
<1>6. /\ pending' \in [Watched -> Stamps \cup {None}] /\ ready' \in [Watched -> Items \cup {None}]
  BY <1>3, <1>5, ForgetTyped, DroppedTyped
<1>7. registered' \in [Watched -> Stamps \cup {None}]
  BY <1>3, <1>4, <1>5 DEF Typed
<1>8. QED
  BY <1>2, <1>5, <1>6, <1>7 DEF Typed, diskVars

LEMMA WatcherFailsTyped ==
    ASSUME Typed, Taken, WatcherFails
    PROVE  Typed'
<1> DEFINE p == job["watcher"].path
<1>1. "watcher" \in Actors /\ Fail("watcher")
  BY DEF Actors, WatcherFails
<1>2. Busy("watcher") /\ job' \in [Actors -> Jobs \cup {None}]
  BY <1>1, FailStep
<1>3. p \in Watched /\ ready[p] \in Items
  BY <1>2 DEF Taken, Typed
<1>4. ready[p].stamp \in Stamps
  BY <1>3 DEF Items
<1>5. /\ Dropped(p) /\ (Forget(p) \/ Retry(p, ready[p].stamp))
      /\ UNCHANGED <<diskVars, row, up, restarts, event, registered, scan, delete, history>>
  BY DEF WatcherFails
<1> HIDE DEF p
<1>6. /\ pending' \in [Watched -> Stamps \cup {None}] /\ ready' \in [Watched -> Items \cup {None}]
  BY <1>3, <1>4, <1>5, ForgetTyped, DroppedTyped
<1>7. QED
  BY <1>2, <1>5, <1>6 DEF Typed, diskVars

LEMMA LockContentTyped ==
    ASSUME Typed, NEW a \in Actors, LockContent(a)
    PROVE  Typed'
<1>1. job' \in [Actors -> Jobs \cup {None}]
  BY LockContentStep
<1>2. UNCHANGED <<diskVars, row, watchVars, scan, delete, history>>
  BY DEF LockContent
<1>3. QED
  BY <1>1, <1>2 DEF Typed, diskVars, watchVars

LEMMA DecideTyped ==
    ASSUME Typed, NEW a \in Actors, Decide(a)
    PROVE  Typed'
<1>1. job' \in [Actors -> Jobs \cup {None}]
  BY DecideStep
<1>2. UNCHANGED <<diskVars, row, watchVars, scan, delete, history>>
  BY DEF Decide
<1>3. QED
  BY <1>1, <1>2 DEF Typed, diskVars, watchVars

LEMMA WatchingTyped ==
    ASSUME Typed, Taken, Watching
    PROVE  Typed'
<1>1. "watcher" \in Actors
  BY DEF Actors
<1>2. QED
  BY <1>1, DeliverTyped, TakeReadyTyped, WatcherCommitsTyped, WatcherFailsTyped,
     LockContentTyped, DecideTyped, ProcessTyped DEF Watching

LEMMA RestartingTyped ==
    ASSUME Typed, Restarting
    PROVE  Typed'
<1>1. CASE WatcherEnds
  <2>1. restarts' \in 0..MaxRestarts /\ <<>> \in Seq(Events)
    BY <1>1, Apart DEF WatcherEnds, Typed
  <2>2. "watcher" \in Actors
    BY DEF Actors
  <2>3. QED
    BY <1>1, <2>1, <2>2 DEF WatcherEnds, Typed, diskVars
<1>2. CASE WatcherStarts
  <2>1. history' \in Histories
    BY <1>2 DEF WatcherStarts, Typed, Histories
  <2>2. QED
    BY <1>2, <2>1 DEF WatcherStarts, Typed, diskVars
<1>3. QED
  BY <1>1, <1>2 DEF Restarting

LEMMA ScanStartsTyped ==
    ASSUME Typed, ScanStarts
    PROVE  Typed'
<1>1. scan' \in Scans
  BY DEF ScanStarts, Typed, Scans
<1>2. history' \in Histories
  <2>1. history \in Histories /\ {p \in Watched : file[p] = None} \in SUBSET Watched
    BY DEF Typed
  <2>2. QED
    BY <2>1 DEF ScanStarts, Histories
<1>3. UNCHANGED <<diskVars, row, job, watchVars, delete>>
  BY DEF ScanStarts
<1>4. QED
  BY <1>1, <1>2, <1>3 DEF Typed, diskVars, watchVars

LEMMA ScanThere == Typed /\ scan # None => scan \in Scans
BY DEF Typed

LEMMA ScanVisitsTyped ==
    ASSUME Typed, NEW p \in Watched, ScanVisits(p)
    PROVE  Typed'
<1>1. scan \in Scans
  BY ScanThere DEF ScanVisits, Walking
<1>2. scan' \in Scans
  <2>1. scan.left \ {p} \in SUBSET Watched /\ scan.seen \cup {p} \in SUBSET Watched
    BY <1>1 DEF Scans
  <2>2. \/ scan' = [scan EXCEPT !.left = scan.left \ {p}, !.seen = scan.seen \cup {p}]
        \/ scan' = [scan EXCEPT !.left = scan.left \ {p}]
    BY DEF ScanVisits
  <2>3. QED
    BY <1>1, <2>1, <2>2 DEF Scans
<1>3. job' \in [Actors -> Jobs \cup {None}]
  <2>1. p \in Paths /\ {} \in SUBSET Ids /\ "scanner" \in Actors /\ "scan" \in {"scan", "upload"}
    BY Apart DEF Actors
  <2>2. CASE Visible(p)
    <3>1. file[p] \in Files /\ Read("scanner", p, file[p], "scan", {})
      BY <2>1, <2>2, FileThere DEF ScanVisits
    <3>2. QED
      BY <2>1, <3>1, ReadStep
  <2>3. CASE ~Visible(p)
    BY <2>3 DEF ScanVisits, Typed
  <2>4. QED
    BY <2>2, <2>3
<1>4. UNCHANGED <<diskVars, row, watchVars, delete, history>>
  BY DEF ScanVisits
<1>5. QED
  BY <1>2, <1>3, <1>4 DEF Typed, diskVars, watchVars

LEMMA ScanComparesTyped ==
    ASSUME Typed, ScanCompares
    PROVE  Typed'
<1> DEFINE gone == {r \in Stored : row[r].current /\ row[r].status # "missing"
                                   /\ row[r].source = "scan" /\ row[r].path \in Watched \ scan.seen}
           swept == IF DeviceSeen THEN gone ELSE {}
           pairs == {<<r, row[r].path>> : r \in swept}
<1>1. scan \in Scans
  BY ScanThere DEF ScanCompares, Walking
<1>2. pairs \in SUBSET (Ids \X Watched)
  BY DEF Stored
<1>3. scan' = None \/ scan' = [scan EXCEPT !.step = "sweep", !.gone = pairs]
  BY DEF ScanCompares
<1> HIDE DEF pairs
<1>4. scan' \in Scans \cup {None}
  BY <1>1, <1>2, <1>3 DEF Scans
<1>5. UNCHANGED <<diskVars, row, job, watchVars, delete, history>>
  BY DEF ScanCompares
<1>6. QED
  BY <1>4, <1>5 DEF Typed, diskVars, watchVars

\* The rows that a sweep has not found are marked.
Missing(x) == [x EXCEPT !.status = "missing"]

LEMMA MissingFields ==
    ASSUME NEW x \in Rows
    PROVE  /\ Missing(x) \in Rows /\ Missing(x).status = "missing"
           /\ Missing(x).path = x.path /\ Missing(x).content = x.content
           /\ Missing(x).stamp = x.stamp /\ Missing(x).source = x.source
           /\ Missing(x).current = x.current /\ Missing(x).dup = x.dup
BY DEF Missing, Rows, Statuses

LEMMA ScanSweepsStep ==
    ASSUME Typed, ScanSweeps
    PROVE  \E gone \in SUBSET Stored :
             /\ Unlocked(gone)
             /\ row' \in [Ids -> Rows \cup {None, Deleted}]
             /\ \A r \in gone : row'[r] = Missing(row[r])
             /\ \A r \in Ids \ gone : row'[r] = row[r]
             /\ history' \in Histories /\ history'.raced = history.raced
             /\ scan' = None /\ UNCHANGED <<diskVars, job, watchVars, delete>>
<1> DEFINE gone == {g[1] : g \in scan.gone} \cap Stored
           y(r) == IF r \in gone THEN Missing(row[r]) ELSE row[r]
           paths == Watched \cap {row[r].path : r \in gone}
<1>1. /\ Unlocked(gone) /\ row' = [r \in Ids |-> y(r)]
      /\ history' = [history EXCEPT !.excused = @ \cup paths]
      /\ scan' = None /\ UNCHANGED <<diskVars, job, watchVars, delete>>
  BY DEF ScanSweeps, Missing
<1>2. gone \in SUBSET Stored /\ Stored \subseteq Ids
  BY DEF Stored
<1>3. \A r \in Ids : y(r) \in Rows \cup {None, Deleted}
  <2>1. ASSUME NEW r \in gone PROVE Missing(row[r]) \in Rows
    BY <1>2, RowOf, MissingFields
  <2> HIDE DEF gone
  <2>2. QED
    BY <2>1 DEF Typed
<1>4. history' \in Histories /\ history'.raced = history.raced
  <2>1. history \in Histories /\ paths \in SUBSET Watched
    BY DEF Typed
  <2> HIDE DEF paths
  <2>2. QED
    BY <1>1, <2>1 DEF Histories
<1>5. /\ row' \in [Ids -> Rows \cup {None, Deleted}]
      /\ \A r \in gone : row'[r] = Missing(row[r])
      /\ \A r \in Ids \ gone : row'[r] = row[r]
  <2>1. /\ row' \in [Ids -> Rows \cup {None, Deleted}] /\ \A r \in Ids : row'[r] = y(r)
    <3> HIDE DEF y
    <3>1. QED
      BY <1>1, <1>3
  <2> HIDE DEF gone
  <2>2. QED
    BY <1>2, <2>1
<1> HIDE DEF gone
<1>6. QED
  BY <1>1, <1>2, <1>4, <1>5

LEMMA ScanningTyped ==
    ASSUME Typed, Scanning
    PROVE  Typed'
<1>1. "scanner" \in Actors
  BY DEF Actors
<1>2. CASE ScanCommits
  <2>1. Commit("scanner") /\ UNCHANGED <<diskVars, watchVars, scan, delete>>
    BY <1>2 DEF ScanCommits
  <2>2. /\ job' \in [Actors -> Jobs \cup {None}]
        /\ row' \in [Ids -> Rows \cup {None, Deleted}] /\ history' \in Histories
    BY <1>1, <2>1, CommitStep
  <2>3. QED
    BY <2>1, <2>2 DEF Typed, diskVars, watchVars
<1>3. CASE ScanFails
  <2>1. Fail("scanner") /\ UNCHANGED <<diskVars, row, watchVars, scan, delete, history>>
    BY <1>3 DEF ScanFails
  <2>2. job' \in [Actors -> Jobs \cup {None}]
    BY <1>1, <2>1, FailStep
  <2>3. QED
    BY <2>1, <2>2 DEF Typed, diskVars, watchVars
<1>4. CASE ScanFindsNothing
  <2>1. scan \in Scans
    BY <1>4, ScanThere DEF ScanFindsNothing, Walking
  <2>2. scan' \in Scans
    BY <1>4, <2>1 DEF ScanFindsNothing, Scans
  <2>3. QED
    BY <1>4, <2>2 DEF ScanFindsNothing, Typed, diskVars, watchVars
<1>5. CASE ScanBreaks
  BY <1>5 DEF ScanBreaks, Typed, diskVars, watchVars
<1>6. CASE ScanSweeps
  BY <1>6, ScanSweepsStep DEF Typed, diskVars, watchVars
<1>7. QED
  BY <1>1, <1>2, <1>3, <1>4, <1>5, <1>6, ScanStartsTyped, ScanComparesTyped, ScanVisitsTyped,
     LockContentTyped, DecideTyped DEF Scanning

LEMMA UploadStartsStep ==
    ASSUME Typed, NEW p \in Uploads, NEW c \in Contents, UploadStarts(p, c)
    PROVE  /\ FindByContent(c) \in SUBSET Ids /\ Stamped(c) \in Files
           /\ "uploader" \in Actors /\ p \in Paths /\ "upload" \in {"scan", "upload"}
           /\ Read("uploader", p, Stamped(c), "upload", FindByContent(c))
<1>1. FindByContent(c) \in SUBSET Ids
  BY DEF FindByContent, Stored
<1>2. Stamped(c) \in Files
  BY StampedType DEF UploadStarts
<1>3. QED
  BY <1>1, <1>2, Apart DEF UploadStarts, Actors

LEMMA UploadStartsTyped ==
    ASSUME Typed, NEW p \in Uploads, NEW c \in Contents, UploadStarts(p, c)
    PROVE  Typed'
<1>1. job' \in [Actors -> Jobs \cup {None}] /\ Stamped(c) \in Files
  BY UploadStartsStep, ReadStep
<1>2. clock' \in 0..MaxEdits
  BY Apart DEF UploadStarts, Typed
<1>3. file' \in [Paths -> Files \cup {None}]
  BY <1>1 DEF UploadStarts, Typed
<1>4. UNCHANGED <<mounted, mounts, row, watchVars, scan, delete, history>>
  BY DEF UploadStarts
<1>5. QED
  BY <1>1, <1>2, <1>3, <1>4 DEF Typed, watchVars

LEMMA UploadingTyped ==
    ASSUME Typed, Uploading
    PROVE  Typed'
<1>1. "uploader" \in Actors
  BY DEF Actors
<1>2. CASE UploadCommits
  <2>1. Commit("uploader") /\ UNCHANGED <<diskVars, watchVars, scan, delete>>
    BY <1>2 DEF UploadCommits
  <2>2. /\ job' \in [Actors -> Jobs \cup {None}]
        /\ row' \in [Ids -> Rows \cup {None, Deleted}] /\ history' \in Histories
    BY <1>1, <2>1, CommitStep
  <2>3. QED
    BY <2>1, <2>2 DEF Typed, diskVars, watchVars
<1>3. CASE UploadFails
  <2>1. /\ Fail("uploader") /\ UNCHANGED <<clock, mounted, mounts, row, watchVars, scan, delete, history>>
        /\ file' = [file EXCEPT ![job["uploader"].path] = None]
    BY <1>3 DEF UploadFails
  <2>2. job' \in [Actors -> Jobs \cup {None}]
    BY <1>1, <2>1, FailStep
  <2>3. file' \in [Paths -> Files \cup {None}]
    BY <2>1 DEF Typed
  <2>4. QED
    BY <2>1, <2>2, <2>3 DEF Typed, watchVars
<1>4. QED
  BY <1>1, <1>2, <1>3, UploadStartsTyped, LockContentTyped, DecideTyped DEF Uploading

\* What a deletion makes of the other rows.
Reviving(x) == [x EXCEPT !.status = "pending", !.dup = None]
Freed(x) == IF x.dup = delete.id THEN [x EXCEPT !.dup = None] ELSE x

LEMMA RevivingFields ==
    ASSUME NEW x \in Rows
    PROVE  /\ Reviving(x) \in Rows /\ Reviving(x).status = "pending" /\ Reviving(x).dup = None
           /\ Reviving(x).path = x.path /\ Reviving(x).content = x.content
           /\ Reviving(x).stamp = x.stamp /\ Reviving(x).source = x.source
           /\ Reviving(x).current = x.current
BY DEF Reviving, Rows, Statuses

LEMMA FreedFields ==
    ASSUME NEW x \in Rows
    PROVE  /\ Freed(x) \in Rows /\ Freed(x).status = x.status
           /\ Freed(x).dup = IF x.dup = delete.id THEN None ELSE x.dup
           /\ Freed(x).path = x.path /\ Freed(x).content = x.content
           /\ Freed(x).stamp = x.stamp /\ Freed(x).source = x.source
           /\ Freed(x).current = x.current
<1>1. CASE x.dup = delete.id
  <2>1. Freed(x) = [x EXCEPT !.dup = None]
    BY <1>1 DEF Freed
  <2>2. QED
    BY <1>1, <2>1 DEF Rows
<1>2. CASE x.dup # delete.id
  BY <1>2 DEF Freed
<1>3. QED
  BY <1>1, <1>2

LEMMA DeletionThere ==
    ASSUME Typed, delete # None
    PROVE  delete \in Deletions /\ delete.id \in Ids /\ delete.locked \in SUBSET Ids
BY DEF Typed, Deletions

LEMMA DeleteStartsStep ==
    ASSUME Typed, NEW r \in Ids, DeleteStarts(r)
    PROVE  /\ delete = None /\ r \in Stored /\ Unlocked(Revived(r)) /\ delete' \in Deletions
           /\ delete'.id = r /\ delete'.locked = Revived(r)
           /\ file' \in [Paths -> Files \cup {None}]
           /\ UNCHANGED <<clock, mounted, mounts, row, job, watchVars, scan, history>>
<1>1. Revived(r) \in SUBSET Ids
  BY DEF Revived, Duplicates, Stored
<1>2. delete' = [id |-> r, locked |-> Revived(r)]
  BY DEF DeleteStarts
<1> DEFINE l == Revived(r)
<1>3. l \in SUBSET Ids /\ delete' = [id |-> r, locked |-> l]
  BY <1>1, <1>2
<1> HIDE DEF l
<1>4. delete' \in Deletions /\ delete'.id = r /\ delete'.locked = l
  BY <1>3 DEF Deletions
<1>5. file' \in [Paths -> Files \cup {None}]
  BY DEF DeleteStarts, Typed
<1>6. QED
  BY <1>4, <1>5 DEF DeleteStarts, l

LEMMA DeleteCommitsStep ==
    ASSUME Typed, delete # None, delete.locked \subseteq Stored, DeleteCommits
    PROVE  /\ row' \in [Ids -> Rows \cup {None, Deleted}]
           /\ row'[delete.id] = Deleted
           /\ \A r \in delete.locked \ {delete.id} : row'[r] = Reviving(row[r])
           /\ \A r \in Stored \ (delete.locked \cup {delete.id}) : row'[r] = Freed(row[r])
           /\ \A r \in Ids \ (Stored \cup {delete.id}) : row'[r] = row[r]
           /\ history' \in Histories /\ history'.raced = history.raced
           /\ delete' = None /\ UNCHANGED <<diskVars, job, watchVars, scan>>
<1> DEFINE y(r) == IF r = delete.id THEN Deleted
                   ELSE IF r \in delete.locked THEN Reviving(row[r])
                   ELSE IF r \in Stored THEN Freed(row[r]) ELSE row[r]
           paths == {row[delete.id].path} \cap Watched
<1>1. /\ row' = [r \in Ids |-> y(r)]
      /\ history' = [history EXCEPT !.excused = @ \cup paths]
      /\ delete' = None /\ UNCHANGED <<diskVars, job, watchVars, scan>>
  BY DEF DeleteCommits, Reviving, Freed
<1>2. delete.id \in Ids
  BY DeletionThere
<1>3. \A r \in Stored : Reviving(row[r]) \in Rows /\ Freed(row[r]) \in Rows
  BY RowOf, RevivingFields, FreedFields
<1>4. \A r \in Ids : y(r) \in Rows \cup {None, Deleted}
  BY <1>3 DEF Typed
<1>5. history' \in Histories /\ history'.raced = history.raced
  <2>1. history \in Histories /\ paths \in SUBSET Watched
    BY DEF Typed
  <2> HIDE DEF paths
  <2>2. QED
    BY <1>1, <2>1 DEF Histories
<1>6. /\ row' \in [Ids -> Rows \cup {None, Deleted}] /\ \A r \in Ids : row'[r] = y(r)
  <2> HIDE DEF y
  <2>1. QED
    BY <1>1, <1>4
<1>7. Stored \subseteq Ids
  BY DEF Stored
<1>8. QED
  BY <1>1, <1>2, <1>5, <1>6, <1>7

LEMMA DeletingTyped ==
    ASSUME Typed, delete # None => delete.locked \subseteq Stored, Deleting
    PROVE  Typed'
<1>1. CASE DeleteCommits
  <2>1. delete # None /\ delete.locked \subseteq Stored
    BY <1>1 DEF DeleteCommits
  <2>2. QED
    BY <1>1, <2>1, DeleteCommitsStep DEF Typed, diskVars, watchVars
<1>2. CASE DeleteFails
  BY <1>2 DEF DeleteFails, Typed, diskVars, watchVars
<1>3. ASSUME NEW r \in Ids, DeleteStarts(r) PROVE Typed'
  BY <1>3, DeleteStartsStep DEF Typed, watchVars
<1>4. QED
  BY <1>1, <1>2, <1>3 DEF Deleting

LEMMA WorkStep ==
    ASSUME Typed, NEW r \in Ids, Work(r)
    PROVE  /\ r \in Stored /\ row[r].status = "pending" /\ Unlocked({r})
           /\ row' \in [Ids -> Rows \cup {None, Deleted}]
           /\ \A s \in Ids \ {r} : row'[s] = row[s]
           /\ row'[r] \in Rows /\ row'[r].status \in {"changed", "done"}
           /\ row'[r].path = row[r].path /\ row'[r].content = row[r].content
           /\ row'[r].stamp = row[r].stamp /\ row'[r].source = row[r].source
           /\ row'[r].current = row[r].current /\ row'[r].dup = row[r].dup
           /\ UNCHANGED <<diskVars, job, watchVars, scan, delete, history>>
<1> DEFINE x == row[r]
<1>1. r \in Stored /\ x \in Rows
  BY RowOf DEF Work
<1>2. PICK y : y = IF row[r].source = "scan" /\ ~HasMatchingFile(r)
                   THEN [x EXCEPT !.status = "changed"]
                   ELSE [x EXCEPT !.status = "done", !.summary = TRUE]
  OBVIOUS
<1>3. row' = [row EXCEPT ![r] = y]
  BY <1>2 DEF Work, Typed
<1> HIDE DEF x
<1>4. /\ y \in Rows /\ y.status \in {"changed", "done"} /\ y.path = x.path
      /\ y.content = x.content /\ y.stamp = x.stamp /\ y.source = x.source
      /\ y.current = x.current /\ y.dup = x.dup
  BY <1>1, <1>2 DEF Rows, Statuses
<1>5. row' \in [Ids -> Rows \cup {None, Deleted}] /\ row'[r] = y /\ \A s \in Ids \ {r} : row'[s] = row[s]
  BY <1>3, <1>4 DEF Typed
<1>6. QED
  BY <1>1, <1>4, <1>5 DEF Work, x

LEMMA WorkTyped ==
    ASSUME Typed, NEW r \in Ids, Work(r)
    PROVE  Typed'
BY WorkStep DEF Typed, diskVars, watchVars

-----------------------------------------------------------------------------
(* The invariant of the database: who holds which locks, what a decided    *)
(* ingest will write, and how duplicates hang on originals.                *)

\* Row locks are on rows, each held by one; a deletion holds duplicates of its row.
Held ==
    /\ \A a \in Actors : LockedBy(a) \subseteq Stored
    /\ \A a, b \in Actors : a # b => LockedBy(a) \cap LockedBy(b) = {}
    /\ delete # None =>
         /\ delete.id \in Stored /\ delete.locked \subseteq Duplicates(delete.id)
         /\ \A a \in Actors : LockedBy(a) \cap delete.locked = {}

\* The advisory locks.
Exclusive ==
    \A a, b \in Actors : a # b =>
        /\ \A c \in Contents : ~(HoldsContent(a, c) /\ HoldsContent(b, c))
        /\ \A p \in Paths : ~(HoldsPath(a, p) /\ HoldsPath(b, p))

\* No row is written by two.
Disjoint ==
    \A a, b \in Actors : a # b /\ Busy(a) /\ Busy(b) => Changed(job[a]) \cap Changed(job[b]) = {}

\* What a's transaction will write: nothing before it has decided, then rows it has
\* locked or new ones, and all rows of its path.
Writes(a) ==
    /\ \A r \in Changed(job[a]) :
         /\ job[a].step = "decided"
         /\ r \in Stored => r \in job[a].locked
         /\ r \notin Stored => row[r] = None
    /\ job[a].step = "decided" => At(job[a].path) \subseteq Changed(job[a])

\* One row at most is to have the path.
Places(a) ==
    \A r \in Changed(job[a]) : job[a].changes[r].current =>
        /\ job[a].changes[r].path = job[a].path
        /\ \A s \in Changed(job[a]) : job[a].changes[s].current => r = s

\* What becomes of a row that is there.
Keeps(a) ==
    \A r \in Changed(job[a]) \cap Stored :
        /\ job[a].changes[r].content = row[r].content /\ job[a].changes[r].dup = row[r].dup
        /\ job[a].changes[r].content = job[a].content \/ job[a].changes[r].status = "missing"
        /\ job[a].changes[r].status = "duplicate" =>
             row[r].status = "duplicate" \/ row[r].dup # None
        /\ job[a].changes[r].status \in {"pending", "done", "changed"} => row[r].dup = None

\* What a new row is: to be transcribed, or the duplicate of one that is locked.
Creates(a) ==
    \A r \in Changed(job[a]) \ Stored :
        /\ job[a].changes[r].content = job[a].content
        /\ \/ job[a].changes[r].status = "pending" /\ job[a].changes[r].dup = None
           \/ /\ job[a].changes[r].status = "duplicate" /\ job[a].changes[r].dup \in job[a].locked
              /\ row[job[a].changes[r].dup].dup = None
              /\ row[job[a].changes[r].dup].content = job[a].content
              /\ row[job[a].changes[r].dup].status # "duplicate"

\* A row is to be transcribed only while every other of its content is missing; those
\* with duplicates are locked, lest a deletion revive one of them.
Alone(a) ==
    \A r \in Changed(job[a]) \ Stored : job[a].changes[r].status = "pending" =>
        \A o \in FindByContent(job[a].content) :
            /\ row[o].status = "missing"
            /\ o \in job[a].locked \/ \A d \in Stored : row[d].dup # o

Prepared == \A a \in Actors : Busy(a) => Writes(a) /\ Places(a) /\ Keeps(a) /\ Creates(a) /\ Alone(a)

\* Duplicates and originals.
Linked ==
    \A r \in Stored :
        /\ row[r].dup # None =>
             /\ row[r].dup \in Stored
             /\ row[row[r].dup].dup = None /\ row[row[r].dup].content = row[r].content
             /\ row[row[r].dup].status # "duplicate"
        /\ row[r].status \in {"pending", "done", "changed"} => row[r].dup = None
        /\ row[r].status = "duplicate" /\ row[r].dup = None => r \in history.raced

\* A deletion has all duplicates of its row but those that came later.
Revives == delete # None => Duplicates(delete.id) \subseteq delete.locked \cup history.raced

Consistent == Held /\ Exclusive /\ Disjoint /\ Prepared /\ Linked /\ Revives

LEMMA InitConsistent == Init => Consistent /\ Taken
BY DEF Init, Consistent, Held, Exclusive, Disjoint, Prepared, Linked, Revives, Taken, Actors, LockedBy,
   Busy, HoldsContent, HoldsPath, Stored

-----------------------------------------------------------------------------
(* Steps of one actor that change no row. *)

RowsStay == row' = row /\ delete' = delete /\ history'.raced = history.raced

LEMMA StillPrepared ==
    ASSUME row' = row, NEW b \in Actors, job'[b] = job[b], Busy(b),
           Writes(b) /\ Places(b) /\ Keeps(b) /\ Creates(b) /\ Alone(b)
    PROVE  (Writes(b) /\ Places(b) /\ Keeps(b) /\ Creates(b) /\ Alone(b))'
<1>1. Writes(b)' /\ Places(b)'
  BY DEF Writes, Places, Changed, Stored, At
<1>2. Keeps(b)' /\ Creates(b)'
  BY DEF Keeps, Creates, Changed, Stored
<1>3. Alone(b)'
  BY DEF Alone, Changed, Stored, FindByContent
<1>4. QED
  BY <1>1, <1>2, <1>3

LEMMA RowsLinked ==
    ASSUME RowsStay, Linked, Revives
    PROVE  Linked' /\ Revives'
BY DEF RowsStay, Linked, Revives, Stored, Duplicates

\* An actor stops or goes on.
LEMMA JobStep ==
    ASSUME Consistent, RowsStay, NEW a \in Actors, Others(a),
           LockedBy(a)' \subseteq Stored, UnlockedFor(a, LockedBy(a)'),
           Busy(a)' => (Writes(a) /\ Places(a) /\ Keeps(a) /\ Creates(a) /\ Alone(a))',
           \A b \in Actors \ {a} :
             /\ \A c \in Contents : ~(HoldsContent(a, c)' /\ HoldsContent(b, c))
             /\ \A p \in Paths : ~(HoldsPath(a, p)' /\ HoldsPath(b, p)),
           \A b \in Actors \ {a} : Busy(a)' /\ Busy(b) => Changed(job'[a]) \cap Changed(job[b]) = {}
    PROVE  Consistent'
<1>1. Linked' /\ Revives'
  BY RowsLinked DEF Consistent
<1>2. Prepared'
  <2>1. SUFFICES ASSUME NEW b \in Actors, Busy(b)', b # a
                 PROVE  (Writes(b) /\ Places(b) /\ Keeps(b) /\ Creates(b) /\ Alone(b))'
    BY DEF Prepared
  <2>2. job'[b] = job[b] /\ Busy(b)
    BY <2>1 DEF Others, Busy
  <2>3. QED
    BY <2>1, <2>2, StillPrepared DEF Consistent, Prepared, RowsStay
<1>3. \A b \in Actors \ {a} : LockedBy(b)' = LockedBy(b) /\ Busy(b)' = Busy(b) /\ job'[b] = job[b]
  BY DEF Others, LockedBy, Busy
<1>4. Held'
  <2>1. Stored' = Stored /\ \A r \in Ids : Duplicates(r)' = Duplicates(r)
    BY DEF RowsStay, Stored, Duplicates
  <2>2. \A b \in Actors : LockedBy(b)' \subseteq Stored'
    BY <1>3, <2>1 DEF Consistent, Held
  <2>3. \A b \in Actors \ {a} : LockedBy(a)' \cap LockedBy(b)' = {}
    BY <1>3 DEF UnlockedFor
  <2>4. \A b, d \in Actors : b # d => LockedBy(b)' \cap LockedBy(d)' = {}
    BY <1>3, <2>3 DEF Consistent, Held
  <2>5. delete # None =>
          /\ delete.id \in Stored' /\ delete.locked \subseteq Duplicates(delete.id)'
          /\ \A b \in Actors : LockedBy(b)' \cap delete.locked = {}
    <3>1. SUFFICES ASSUME delete # None
                   PROVE  /\ delete.id \in Stored' /\ delete.locked \subseteq Duplicates(delete.id)'
                          /\ \A b \in Actors : LockedBy(b)' \cap delete.locked = {}
      OBVIOUS
    <3>2. delete.id \in Stored /\ delete.locked \subseteq Duplicates(delete.id)
      BY <3>1 DEF Consistent, Held
    <3>3. Duplicates(delete.id)' = Duplicates(delete.id)
      BY <2>1 DEF Duplicates, RowsStay
    <3>4. LockedBy(a)' \cap delete.locked = {}
      BY <3>1 DEF UnlockedFor, LockedByDelete
    <3>5. QED
      BY <1>3, <2>1, <3>1, <3>2, <3>3, <3>4 DEF Consistent, Held
  <2>6. delete' = delete
    BY DEF RowsStay
  <2>7. QED
    <3>1. delete' # None =>
            /\ delete'.id \in Stored' /\ delete'.locked \subseteq Duplicates(delete.id)'
            /\ \A b \in Actors : LockedBy(b)' \cap delete'.locked = {}
      BY <2>5, <2>6
    <3>2. Duplicates(delete.id)' = {d \in Stored' : row'[d].dup = delete'.id /\ row'[d].status = "duplicate"}
      BY <2>6 DEF Duplicates
    <3>3. QED
      BY <2>2, <2>4, <3>1, <3>2 DEF Held, Duplicates
<1>5. Exclusive'
  <2>1. SUFFICES ASSUME NEW b \in Actors, NEW d \in Actors, b # d
                 PROVE  /\ \A c \in Contents : ~(HoldsContent(b, c)' /\ HoldsContent(d, c)')
                        /\ \A p \in Paths : ~(HoldsPath(b, p)' /\ HoldsPath(d, p)')
    BY DEF Exclusive
  <2>2. CASE b = a
    BY <1>3, <2>1, <2>2 DEF HoldsContent, HoldsPath, Busy
  <2>3. CASE d = a
    BY <1>3, <2>1, <2>3 DEF HoldsContent, HoldsPath, Busy
  <2>4. CASE b # a /\ d # a
    BY <1>3, <2>1, <2>4 DEF Consistent, Exclusive, HoldsContent, HoldsPath, Busy
  <2>5. QED
    BY <2>2, <2>3, <2>4
<1>6. Disjoint'
  <2>1. \A b \in Actors \ {a} : Changed(job'[b]) = Changed(job[b])
    BY <1>3
  <2>2. \A b, d \in Actors \ {a} : b # d /\ Busy(b) /\ Busy(d) => Changed(job'[b]) \cap Changed(job'[d]) = {}
    BY <2>1 DEF Consistent, Disjoint
  <2>3. \A b, d \in Actors : b # d /\ Busy(b)' /\ Busy(d)' => Changed(job'[b]) \cap Changed(job'[d]) = {}
    BY <1>3, <2>1, <2>2
  <2>4. QED
    BY <2>3 DEF Disjoint, Changed
<1>7. QED
  BY <1>1, <1>2, <1>4, <1>5, <1>6 DEF Consistent

LEMMA FailConsistent ==
    ASSUME Consistent, RowsStay, NEW a \in Actors, Others(a), job'[a] = None
    PROVE  Consistent'
<1>1. ~Busy(a)' /\ LockedBy(a)' = {}
  BY DEF Busy, LockedBy
<1>2. /\ LockedBy(a)' \subseteq Stored /\ UnlockedFor(a, LockedBy(a)')
      /\ \A c : ~HoldsContent(a, c)' /\ \A p : ~HoldsPath(a, p)'
  BY <1>1 DEF UnlockedFor, HoldsContent, HoldsPath, Busy
<1>3. QED
  BY <1>1, <1>2, JobStep

\* What holds of an actor that has not decided.
LEMMA Undecided ==
    ASSUME NEW a \in Actors, job'[a] \in Jobs, job'[a].step # "decided",
           \A r \in Ids : job'[a].changes[r] = None
    PROVE  /\ Changed(job'[a]) = {} /\ \A p : ~HoldsPath(a, p)'
           /\ (Writes(a) /\ Places(a) /\ Keeps(a) /\ Creates(a) /\ Alone(a))'
<1>1. Changed(job'[a]) = {}
  BY DEF Changed
<1>2. QED
  BY <1>1 DEF HoldsPath, Writes, Places, Keeps, Creates, Alone, Changed

LEMMA ReadConsistent ==
    ASSUME Typed, Consistent, RowsStay, NEW a \in Actors, NEW p \in Paths, NEW f \in Files,
           NEW source \in {"scan", "upload"}, NEW locked \in SUBSET Ids,
           Read(a, p, f, source, locked), locked \subseteq Stored, UnlockedFor(a, locked)
    PROVE  Consistent'
<1>1. /\ Others(a) /\ job'[a] \in Jobs /\ job'[a].step = "read" /\ job'[a].locked = locked
      /\ \A r \in Ids : job'[a].changes[r] = None
  BY ReadStep
<1>2. Busy(a)' /\ LockedBy(a)' = locked
  BY <1>1, Apart DEF Busy, LockedBy
<1>3. /\ Changed(job'[a]) = {} /\ \A q : ~HoldsPath(a, q)'
      /\ (Writes(a) /\ Places(a) /\ Keeps(a) /\ Creates(a) /\ Alone(a))'
  <2>1. job'[a].step # "decided"
    BY <1>1
  <2>2. QED
    BY <1>1, <2>1, Undecided
<1>4. \A c : ~HoldsContent(a, c)'
  BY <1>1 DEF HoldsContent
<1>5. LockedBy(a)' \subseteq Stored /\ UnlockedFor(a, LockedBy(a)')
  BY <1>2
<1>6. QED
  BY <1>1, <1>3, <1>4, <1>5, JobStep

\* Who has not decided writes nothing.
LEMMA NotYet ==
    ASSUME Typed, Consistent, NEW a \in Actors, Busy(a), job[a].step # "decided"
    PROVE  /\ \A r \in Ids : job[a].changes[r] = None
           /\ LockedBy(a) \subseteq Stored /\ UnlockedFor(a, LockedBy(a))
<1>1. Changed(job[a]) = {}
  BY DEF Consistent, Prepared, Writes
<1>2. QED
  BY <1>1 DEF Changed, Consistent, Held, UnlockedFor, LockedByDelete

LEMMA LockContentConsistent ==
    ASSUME Typed, Consistent, NEW a \in Actors, LockContent(a)
    PROVE  Consistent'
<1>1. /\ Busy(a) /\ job[a].step = "read" /\ Others(a)
      /\ job'[a] \in Jobs /\ job'[a].step = "content" /\ job'[a].content = job[a].content
      /\ job'[a].locked = job[a].locked /\ job'[a].changes = job[a].changes
  BY LockContentStep
<1>2. RowsStay
  BY DEF LockContent, RowsStay
<1>3. /\ \A r \in Ids : job'[a].changes[r] = None
      /\ LockedBy(a) \subseteq Stored /\ UnlockedFor(a, LockedBy(a))
  <2>1. job[a].step # "decided"
    BY <1>1
  <2>2. QED
    BY <1>1, <2>1, NotYet
<1>4. LockedBy(a)' = LockedBy(a)
  BY <1>1, Apart DEF LockedBy, Busy
<1>5. /\ Changed(job'[a]) = {} /\ \A p : ~HoldsPath(a, p)'
      /\ (Writes(a) /\ Places(a) /\ Keeps(a) /\ Creates(a) /\ Alone(a))'
  <2>1. job'[a].step # "decided"
    BY <1>1
  <2>2. QED
    BY <1>1, <1>3, <2>1, Undecided
<1>6. ASSUME NEW b \in Actors \ {a}, NEW c \in Contents
      PROVE  ~(HoldsContent(a, c)' /\ HoldsContent(b, c))
  <2>1. ~HoldsContent(b, job[a].content)
    BY DEF LockContent
  <2>2. HoldsContent(a, c)' => c = job[a].content
    BY <1>1 DEF HoldsContent
  <2>3. QED
    BY <2>1, <2>2
<1>7. LockedBy(a)' \subseteq Stored /\ UnlockedFor(a, LockedBy(a)')
  BY <1>3, <1>4
<1>8. QED
  BY <1>1, <1>2, <1>5, <1>6, <1>7, JobStep

\* What Decide writes of a row that is there, and of one that is not.
LEMMA OutcomeStored ==
    ASSUME Typed, Unique, Linked, NEW j \in Jobs, NEW r \in Stored, NEW y, Outcome(j, r, y)
    PROVE  /\ r \in Wanted(j)
           /\ y.current => y.path = j.path /\ (~Same(j) => r = First(FindMoved(j.content)))
           /\ y.current /\ ~Same(j) => FindMoved(j.content) # {}
           /\ Same(j) => r \in At(j.path)
           /\ y.content = row[r].content /\ y.dup = row[r].dup
           /\ y.content = j.content \/ y.status = "missing"
           /\ y.status = "duplicate" => row[r].status = "duplicate" \/ row[r].dup # None
           /\ y.status \in {"pending", "done", "changed"} => row[r].dup = None
<1>1. r \in Ids /\ row[r] \in Rows /\ row[r].status \in Statuses
  BY RowOf DEF Rows
<1>2. j.path \in Paths
  BY DEF Jobs
<1>3. CASE Same(j) /\ r \in At(j.path) /\ y = Refreshed(row[r], j)
  <2>1. row[r].content = j.content /\ row[r].path = j.path
    BY <1>2, <1>3 DEF Same, Unique, At
  <2>2. /\ y.path = row[r].path /\ y.content = row[r].content /\ y.dup = row[r].dup
        /\ y.status \in {row[r].status, ResumeStatus(row[r])}
    BY <1>1, <1>3, RefreshedFields
  <2>3. /\ ResumeStatus(row[r]) \in {"duplicate", "done", "pending"}
        /\ ResumeStatus(row[r]) = "duplicate" <=> row[r].dup # None
    BY <1>1, ResumeIs
  <2>4. row[r].status \in {"pending", "done", "changed"} => row[r].dup = None
    BY DEF Linked
  <2>5. r \in Wanted(j)
    BY <1>3 DEF Wanted
  <2>6. QED
    BY <1>3, <2>1, <2>2, <2>3, <2>4, <2>5
<1>4. CASE /\ ~Same(j) /\ r \in FindMoved(j.content) /\ r = First(FindMoved(j.content))
           /\ y = Moved(row[r], j)
  <2>1. row[r].content = j.content /\ row[r].dup = None /\ r \in FindByContent(j.content)
    BY <1>4 DEF FindMoved, FindByContent
  <2>2. /\ y.path = j.path /\ y.content = row[r].content /\ y.dup = row[r].dup
        /\ y.status = ResumeStatus(row[r])
    BY <1>1, <1>4, MovedFields
  <2>3. /\ ResumeStatus(row[r]) \in {"duplicate", "done", "pending"}
        /\ ResumeStatus(row[r]) = "duplicate" <=> row[r].dup # None
    BY <1>1, ResumeIs
  <2>4. r \in Wanted(j)
    BY <1>4, <2>1 DEF Wanted
  <2>5. QED
    BY <1>4, <2>1, <2>2, <2>3, <2>4
<1>5. CASE ~Same(j) /\ r \in At(j.path) /\ y = Archived(row[r])
  <2>1. /\ ~y.current /\ y.status = "missing" /\ y.content = row[r].content /\ y.dup = row[r].dup
    BY <1>1, <1>5, ArchivedFields
  <2>2. r \in Wanted(j)
    BY <1>5 DEF Wanted
  <2>3. QED
    BY <1>5, <2>1, <2>2
<1>6. ~(r \in NewIds)
  BY DEF NewIds, Stored
<1>7. QED
  BY <1>3, <1>4, <1>5, <1>6 DEF Outcome

LEMMA OutcomeNew ==
    ASSUME Typed, NEW j \in Jobs, NEW r \in Ids \ Stored, NEW y, Outcome(j, r, y)
    PROVE  /\ ~Same(j) /\ FindMoved(j.content) = {} /\ r \in NewIds /\ row[r] = None
           /\ r = First(NewIds) /\ y.path = j.path /\ y.content = j.content
           /\ \/ y.status = "pending" /\ y.dup = None /\ FindOriginal(j.content) = {}
              \/ /\ y.status = "duplicate" /\ y.dup \in FindByContent(j.content)
                 /\ y.dup \in Wanted(j)
<1>1. r \notin At(j.path) /\ r \notin FindMoved(j.content)
  BY DEF At, FindMoved, FindByContent
<1>2. /\ ~Same(j) /\ FindMoved(j.content) = {} /\ r \in NewIds /\ r = First(NewIds)
      /\ y = Registered(j)
  BY <1>1 DEF Outcome
<1>3. /\ y.path = j.path /\ y.content = j.content
      /\ \/ FindOriginal(j.content) = {} /\ y.status = "pending" /\ y.dup = None
         \/ y.status = "duplicate" /\ y.dup \in FindOriginal(j.content)
  BY <1>2, RegisteredFields
<1>4. FindOriginal(j.content) \subseteq FindByContent(j.content)
  BY DEF FindOriginal
<1>5. FindByContent(j.content) \subseteq Wanted(j)
  BY <1>2 DEF Wanted
<1>6. row[r] = None
  BY <1>2 DEF NewIds
<1>7. QED
  BY <1>2, <1>3, <1>4, <1>5, <1>6

LEMMA DecidePrepared ==
    ASSUME Typed, Unique, Consistent, NEW a \in Actors, Decide(a)
    PROVE  (Writes(a) /\ Places(a) /\ Keeps(a) /\ Creates(a) /\ Alone(a))'
<1> DEFINE j == job[a]
<1>1. /\ j \in Jobs /\ job'[a].step = "decided"
      /\ job'[a].path = j.path /\ job'[a].content = j.content
      /\ job'[a].locked = j.locked \cup Wanted(j)
      /\ job'[a].changes = Changes(j)
      /\ \A r \in Ids : Changes(j)[r] # None => Outcome(j, r, Changes(j)[r])
      /\ \A r \in At(j.path) : Changes(j)[r] # None
  BY DecideStep
<1>2. row' = row /\ Stored' = Stored /\ Changed(job[a])' = {r \in Ids : Changes(j)[r] # None}
  BY <1>1 DEF Decide, Stored, Changed
<1> DEFINE C == {r \in Ids : Changes(j)[r] # None}
           y(r) == Changes(j)[r]
<1>3. Linked
  BY DEF Consistent
<1> HIDE DEF j
<1>4. ASSUME NEW r \in C \cap Stored
      PROVE  /\ r \in Wanted(j)
             /\ y(r).current => y(r).path = j.path /\ (~Same(j) => r = First(FindMoved(j.content)))
             /\ y(r).current /\ ~Same(j) => FindMoved(j.content) # {}
             /\ Same(j) => r \in At(j.path)
             /\ y(r).content = row[r].content /\ y(r).dup = row[r].dup
             /\ y(r).content = j.content \/ y(r).status = "missing"
             /\ y(r).status = "duplicate" => row[r].status = "duplicate" \/ row[r].dup # None
             /\ y(r).status \in {"pending", "done", "changed"} => row[r].dup = None
  <2>1. Outcome(j, r, y(r)) /\ r \in Stored
    BY <1>1
  <2> HIDE DEF y, C
  <2>2. QED
    BY <1>1, <1>3, <2>1, OutcomeStored
<1>5. ASSUME NEW r \in C \ Stored
      PROVE  /\ ~Same(j) /\ FindMoved(j.content) = {} /\ r \in NewIds /\ row[r] = None
             /\ r = First(NewIds) /\ y(r).path = j.path /\ y(r).content = j.content
             /\ \/ y(r).status = "pending" /\ y(r).dup = None /\ FindOriginal(j.content) = {}
                \/ /\ y(r).status = "duplicate" /\ y(r).dup \in FindByContent(j.content)
                   /\ y(r).dup \in Wanted(j)
  <2>1. Outcome(j, r, y(r)) /\ r \in Ids \ Stored
    BY <1>1
  <2> HIDE DEF y, C
  <2>2. QED
    BY <1>1, <2>1, OutcomeNew
<1> HIDE DEF y
<1>6. \A r \in C : job'[a].changes[r] = y(r)
  BY <1>1 DEF y
<1>7. Changed(job[a])' = C /\ C \subseteq Ids
  BY <1>2
<1>8. At(j.path) \subseteq C /\ At(job[a].path)' = At(j.path)
  <2>1. At(j.path) \subseteq Ids
    BY DEF At, Stored
  <2>2. At(job[a].path)' = At(j.path)
    BY <1>1, <1>2 DEF At
  <2>3. QED
    BY <1>1, <2>1, <2>2
<1> HIDE DEF C
<1>9. Writes(a)'
  <2>1. /\ \A r \in C : job'[a].step = "decided" /\ (r \in Stored => r \in job'[a].locked)
                        /\ (r \notin Stored => row[r] = None)
    BY <1>1, <1>4, <1>5
  <2>2. QED
    BY <1>2, <1>7, <1>8, <2>1 DEF Writes
<1>10. Places(a)'
  <2>1. ASSUME NEW r \in C, y(r).current PROVE y(r).path = j.path
    BY <1>4, <1>5, <2>1
  <2>2. ASSUME NEW r \in C, NEW s \in C, y(r).current, y(s).current PROVE r = s
    <3>1. CASE Same(j)
      <4>1. r \in At(j.path) /\ s \in At(j.path)
        BY <1>4, <1>5, <3>1
      <4>2. j.path \in Paths
        BY <1>1 DEF Jobs
      <4>3. QED
        BY <4>1, <4>2 DEF Unique
    <3>2. CASE ~Same(j) /\ FindMoved(j.content) = {}
      <4>1. r \notin Stored /\ s \notin Stored
        BY <1>4, <2>2, <3>2
      <4>2. QED
        BY <1>5, <4>1
    <3>3. CASE ~Same(j) /\ FindMoved(j.content) # {}
      <4>1. r \in Stored /\ s \in Stored
        BY <1>5, <3>3
      <4>2. QED
        BY <1>4, <2>2, <3>3, <4>1
    <3>4. QED
      BY <3>1, <3>2, <3>3
  <2>3. QED
    BY <1>1, <1>6, <1>7, <2>1, <2>2 DEF Places
<1>11. Keeps(a)'
  BY <1>1, <1>2, <1>4, <1>6, <1>7 DEF Keeps
<1>12. Creates(a)'
  <2>1. ASSUME NEW r \in C \ Stored, y(r).status # "pending" \/ y(r).dup # None
        PROVE  /\ y(r).status = "duplicate" /\ y(r).dup \in job'[a].locked
               /\ row[y(r).dup].dup = None /\ row[y(r).dup].content = j.content
               /\ row[y(r).dup].status # "duplicate"
    <3>1. y(r).status = "duplicate" /\ y(r).dup \in FindByContent(j.content) /\ y(r).dup \in Wanted(j)
      BY <1>5, <2>1
    <3>2. QED
      BY <1>1, <3>1 DEF FindByContent
  <2>2. \A r \in C \ Stored : y(r).content = j.content
    BY <1>5
  <2>3. QED
    BY <1>1, <1>2, <1>6, <1>7, <2>1, <2>2 DEF Creates
<1>13. Alone(a)'
  <2>1. ASSUME NEW r \in C \ Stored, y(r).status = "pending", NEW o \in FindByContent(j.content)
        PROVE  row[o].status = "missing" /\ o \in job'[a].locked
    <3>1. FindOriginal(j.content) = {} /\ FindMoved(j.content) = {} /\ ~Same(j)
      BY <1>5, <2>1
    <3>2. row[o].status = "missing"
      BY <3>1 DEF FindOriginal, FindMoved
    <3>3. o \in Wanted(j)
      BY <3>1 DEF Wanted
    <3>4. QED
      BY <1>1, <3>2, <3>3
  <2>2. FindByContent(job[a].content)' = FindByContent(j.content)
    BY <1>1, <1>2 DEF FindByContent
  <2>3. QED
    BY <1>1, <1>2, <1>6, <1>7, <2>1, <2>2 DEF Alone
<1>14. QED
  BY <1>9, <1>10, <1>11, <1>12, <1>13

LEMMA DecideConsistent ==
    ASSUME Typed, Unique, Consistent, NEW a \in Actors, Decide(a)
    PROVE  Consistent'
<1> DEFINE j == job[a]
<1>1. /\ Busy(a) /\ j \in Jobs /\ j.step = "content" /\ Others(a)
      /\ job'[a] \in Jobs /\ job'[a].step = "decided"
      /\ job'[a].path = j.path /\ job'[a].content = j.content
      /\ job'[a].locked = j.locked \cup Wanted(j) /\ job'[a].changes = Changes(j)
      /\ \A r \in Ids : Changes(j)[r] # None => Outcome(j, r, Changes(j)[r])
  BY DecideStep
<1>2. RowsStay
  BY DEF Decide, RowsStay
<1>3. (Writes(a) /\ Places(a) /\ Keeps(a) /\ Creates(a) /\ Alone(a))'
  BY DecidePrepared
<1>4. LockedBy(a)' = LockedBy(a) \cup Wanted(j)
  BY <1>1, Apart DEF LockedBy, Busy
<1>5. UnlockedFor(a, Wanted(j)) /\ Wanted(j) \subseteq Stored
  <2>1. UnlockedFor(a, Wanted(j))
    BY DEF Decide, Wanted
  <2>2. QED
    BY <2>1 DEF Wanted, At, FindByContent
<1>6. LockedBy(a) \subseteq Stored /\ UnlockedFor(a, LockedBy(a))
  BY <1>1, NotYet
<1>7. LockedBy(a)' \subseteq Stored /\ UnlockedFor(a, LockedBy(a)')
  BY <1>4, <1>5, <1>6 DEF UnlockedFor
<1>8. ASSUME NEW b \in Actors \ {a}
      PROVE  /\ \A c \in Contents : ~(HoldsContent(a, c)' /\ HoldsContent(b, c))
             /\ \A p \in Paths : ~(HoldsPath(a, p)' /\ HoldsPath(b, p))
  <2>1. HoldsContent(a, j.content) /\ j.content \in Contents
    BY <1>1 DEF HoldsContent, Jobs
  <2>2. ~HoldsContent(b, j.content)
    BY <2>1 DEF Consistent, Exclusive
  <2>3. \A c \in Contents : HoldsContent(a, c)' => c = j.content
    BY <1>1 DEF HoldsContent
  <2>4. ~HoldsPath(b, j.path)
    BY DEF Decide
  <2>5. \A p \in Paths : HoldsPath(a, p)' => p = j.path
    BY <1>1 DEF HoldsPath
  <2>6. QED
    BY <2>2, <2>3, <2>4, <2>5
<1>9. ASSUME NEW b \in Actors \ {a}, Busy(b), NEW r \in Changed(job'[a]), r \in Changed(job[b])
      PROVE  FALSE
  <2>1. r \in Ids /\ Outcome(j, r, Changes(j)[r])
    BY <1>1, <1>9 DEF Changed
  <2>2. CASE r \in Stored
    <3>1. r \in Wanted(j)
      BY <1>1, <2>1, <2>2, OutcomeStored DEF Consistent
    <3>2. r \in LockedBy(b)
      BY <1>9, <2>2 DEF Consistent, Prepared, Writes, LockedBy
    <3>3. QED
      BY <1>5, <3>1, <3>2 DEF UnlockedFor
  <2>3. CASE r \notin Stored
    <3>1. r \in NewIds
      BY <1>1, <2>1, <2>3, OutcomeNew
    <3>2. QED
      BY <1>9, <3>1 DEF NewIds
  <2>4. QED
    BY <2>2, <2>3
<1>10. \A b \in Actors \ {a} : Busy(a)' /\ Busy(b) => Changed(job'[a]) \cap Changed(job[b]) = {}
  BY <1>9
<1>11. QED
  BY <1>1, <1>2, <1>3, <1>7, <1>8, <1>10, JobStep

-----------------------------------------------------------------------------
(* Steps that change rows. *)

\* A decided ingest whose rows are left alone is as good as before.
LEMMA RowStep ==
    ASSUME Typed, Consistent, NEW b \in Actors, Busy(b), job'[b] = job[b],
           \A r \in Changed(job[b]) \cup job[b].locked : row'[r] = row[r],
           job[b].step = "decided" => At(job[b].path)' \subseteq At(job[b].path)
    PROVE  (Writes(b) /\ Places(b) /\ Keeps(b) /\ Creates(b))'
<1>1. Writes(b) /\ Places(b) /\ Keeps(b) /\ Creates(b)
  BY DEF Consistent, Prepared
<1>2. Changed(job[b])' = Changed(job[b]) /\ Changed(job[b]) \subseteq Ids
  BY DEF Changed
<1>3. \A r \in Changed(job[b]) : r \in Stored' <=> r \in Stored
  BY <1>2 DEF Stored
<1>4. job[b].locked \subseteq Stored
  BY DEF Consistent, Held, LockedBy
<1>5. Writes(b)'
  BY <1>1, <1>2, <1>3 DEF Writes
<1>6. Places(b)'
  BY <1>1, <1>2 DEF Places
<1>7. Keeps(b)'
  BY <1>1, <1>2, <1>3 DEF Keeps
<1>8. Creates(b)'
  BY <1>1, <1>2, <1>3, <1>4 DEF Creates
<1>9. QED
  BY <1>5, <1>6, <1>7, <1>8

LEMMA JobsStay ==
    ASSUME Exclusive, Disjoint, \A b \in Actors : job'[b] = job[b] \/ job'[b] = None
    PROVE  Exclusive' /\ Disjoint'
<1>1. \A b \in Actors : Busy(b)' => job'[b] = job[b] /\ Busy(b)
  BY DEF Busy
<1>2. Exclusive'
  BY <1>1 DEF Exclusive, HoldsContent, HoldsPath
<1>3. Disjoint'
  BY <1>1 DEF Disjoint, Changed
<1>4. QED
  BY <1>2, <1>3

\* A row's status changes, as a sweep or the worker may change it.
LEMMA StatusStep ==
    ASSUME Typed, Typed', Consistent, NEW rs \in SUBSET Stored, Unlocked(rs),
           \A r \in Ids \ rs : row'[r] = row[r],
           \A r \in rs :
             /\ row'[r] \in Rows /\ row'[r].path = row[r].path /\ row'[r].content = row[r].content
             /\ row'[r].current = row[r].current /\ row'[r].dup = row[r].dup
             /\ \/ row'[r].status = "missing"
                \/ row[r].status = "pending" /\ row'[r].status \in {"changed", "done"},
           job' = job, delete' = delete, history'.raced = history.raced
    PROVE  Consistent' /\ (Unique => Unique')
<1>1. Stored' = Stored /\ Stored \subseteq Ids
  <2>1. rs \subseteq Ids /\ \A r \in rs : row'[r] \notin {None, Deleted} /\ row[r] \notin {None, Deleted}
    BY Apart DEF Stored
  <2>2. QED
    BY <2>1 DEF Stored
<1>2. \A r \in Stored : /\ row'[r].path = row[r].path /\ row'[r].content = row[r].content
                       /\ row'[r].current = row[r].current /\ row'[r].dup = row[r].dup
                       /\ \/ row'[r].status = row[r].status
                          \/ row'[r].status = "missing"
                          \/ row[r].status = "pending" /\ row'[r].status \in {"changed", "done"}
  BY <1>1
<1>3. \A p : At(p)' = At(p)
  BY <1>1, <1>2 DEF At
<1>4. Exclusive' /\ Disjoint'
  BY JobsStay DEF Consistent
<1>5. Linked'
  BY <1>1, <1>2 DEF Consistent, Linked
<1>6. \A a \in Actors : LockedBy(a) \cap rs = {}
  BY DEF Unlocked
<1>7. LockedByDelete \cap rs = {}
  BY DEF Unlocked
<1>8. Held'
  <2>1. \A a \in Actors : LockedBy(a)' = LockedBy(a)
    BY DEF LockedBy, Busy
  <2>2. delete # None => \A r \in delete.locked : row'[r] = row[r]
    BY <1>1, <1>7 DEF LockedByDelete, Consistent, Held, Duplicates
  <2>3. delete # None => \A r \in delete.locked : r \in Stored /\ row[r].dup = delete.id /\ row[r].status = "duplicate"
    BY DEF Consistent, Held, Duplicates
  <2>4. delete' # None =>
          /\ delete'.id \in Stored' /\ \A a \in Actors : LockedBy(a)' \cap delete'.locked = {}
    BY <1>1, <2>1 DEF Consistent, Held
  <2>5. delete' # None => \A r \in delete'.locked :
          r \in Stored' /\ row'[r].dup = delete'.id /\ row'[r].status = "duplicate"
    BY <1>1, <2>2, <2>3
  <2>6. /\ \A a \in Actors : LockedBy(a)' \subseteq Stored'
        /\ \A a, b \in Actors : a # b => LockedBy(a)' \cap LockedBy(b)' = {}
    BY <1>1, <2>1 DEF Consistent, Held
  <2>7. QED
    BY <2>4, <2>5, <2>6 DEF Held, Duplicates
<1>9. Revives'
  BY <1>1, <1>2 DEF Consistent, Revives, Duplicates
<1>10. Prepared'
  <2>1. SUFFICES ASSUME NEW b \in Actors, Busy(b)
                 PROVE  (Writes(b) /\ Places(b) /\ Keeps(b) /\ Creates(b) /\ Alone(b))'
    BY DEF Prepared, Busy
  <2>2. Writes(b) /\ Alone(b)
    BY <2>1 DEF Consistent, Prepared
  <2>3. \A r \in Changed(job[b]) \cup job[b].locked : row'[r] = row[r]
    <3>1. LockedBy(b) = job[b].locked /\ LockedBy(b) \subseteq Stored
      BY <2>1 DEF LockedBy, Consistent, Held
    <3>2. \A r \in job[b].locked : row'[r] = row[r]
      BY <1>1, <1>6, <3>1
    <3>3. \A r \in Changed(job[b]) : row'[r] = row[r]
      BY <2>2, <3>2 DEF Writes, Changed
    <3>4. QED
      BY <3>2, <3>3
  <2>4. (Writes(b) /\ Places(b) /\ Keeps(b) /\ Creates(b))'
    BY <1>3, <2>1, <2>3, RowStep
  <2>5. Alone(b)'
    <3>1. SUFFICES ASSUME NEW r \in Changed(job[b]) \ Stored, job[b].changes[r].status = "pending",
                          NEW o \in FindByContent(job[b].content)'
                   PROVE  /\ row'[o].status = "missing"
                          /\ o \in job[b].locked \/ \A d \in Stored : row'[d].dup # o
      BY <1>1 DEF Alone, Changed
    <3>2. o \in Stored /\ row[o].content = job[b].content /\ row[o].dup = None
      BY <1>1, <1>2, <3>1 DEF FindByContent
    <3>3. CASE o \in FindByContent(job[b].content)
      BY <1>2, <2>2, <3>1, <3>2, <3>3 DEF Alone
    <3>4. CASE o \notin FindByContent(job[b].content)
      <4>1. row[o].status = "duplicate"
        BY <3>2, <3>4 DEF FindByContent
      <4>2. row'[o].status = "missing"
        BY <1>2, <3>1, <3>2, <4>1 DEF FindByContent
      <4>3. \A d \in Stored : row[d].dup # o
        <5>1. o # None
          BY <1>1, <3>2, Apart
        <5>2. QED
          BY <4>1, <5>1 DEF Consistent, Linked
      <4>4. QED
        BY <1>2, <4>2, <4>3
    <3>5. QED
      BY <3>3, <3>4
  <2>6. QED
    BY <2>4, <2>5
<1>11. Unique => Unique'
  BY <1>3 DEF Unique
<1>12. QED
  BY <1>4, <1>5, <1>8, <1>9, <1>10, <1>11 DEF Consistent

\* The rows that a commit writes.
LEMMA Committed ==
    ASSUME Typed, Consistent, NEW a \in Actors, Commit(a)
    PROVE  /\ Changed(job[a]) \subseteq Ids
           /\ \A r \in Changed(job[a]) : row'[r] = job[a].changes[r] /\ row'[r] \in Rows
           /\ \A r \in Ids \ Changed(job[a]) : row'[r] = row[r]
           /\ Stored' = Stored \cup Changed(job[a])
           /\ Writes(a) /\ Places(a) /\ Keeps(a) /\ Creates(a) /\ Alone(a)
<1>1. /\ Busy(a) /\ job[a] \in Jobs
      /\ \A r \in Changed(job[a]) : row'[r] = job[a].changes[r]
      /\ \A r \in Ids \ Changed(job[a]) : row'[r] = row[r]
  BY CommitStep
<1>2. Changed(job[a]) \subseteq Ids /\ \A r \in Changed(job[a]) : job[a].changes[r] \in Rows
  BY <1>1 DEF Changed, Jobs
<1>3. \A r \in Changed(job[a]) : row'[r] \notin {None, Deleted}
  BY <1>1, <1>2, Apart
<1>4. Stored' = Stored \cup Changed(job[a])
  BY <1>1, <1>2, <1>3 DEF Stored
<1>5. QED
  BY <1>1, <1>2, <1>4 DEF Consistent, Prepared

\* A row keeps its content, and an original stays one.
LEMMA CommittedStored ==
    ASSUME Typed, Consistent, NEW a \in Actors, Commit(a), NEW r \in Stored
    PROVE  /\ row'[r].content = row[r].content /\ row'[r].dup = row[r].dup
           /\ row[r].dup = None /\ row[r].status # "duplicate" => row'[r].status # "duplicate"
           /\ row'[r].status \in {"pending", "done", "changed"} => row[r].dup = None
           /\ row'[r].status = "duplicate" /\ row[r].dup = None => row[r].status = "duplicate"
<1>1. r \in Ids
  BY DEF Stored
<1>2. CASE r \in Changed(job[a])
  BY <1>2, Committed DEF Keeps
<1>3. CASE r \notin Changed(job[a])
  <2>1. row'[r] = row[r]
    BY <1>1, <1>3, Committed
  <2>2. QED
    BY <2>1 DEF Consistent, Linked
<1>4. QED
  BY <1>2, <1>3

LEMMA CommitLinked ==
    ASSUME Typed, Consistent, NEW a \in Actors, Commit(a)
    PROVE  Linked'
<1>1. history.raced \subseteq history'.raced
  BY CommitStep
<1>2. ASSUME NEW o \in Stored, row[o].dup = None, row[o].status # "duplicate"
      PROVE  /\ o \in Stored' /\ row'[o].dup = None /\ row'[o].content = row[o].content
             /\ row'[o].status # "duplicate"
  BY <1>2, Committed, CommittedStored
<1>3. ASSUME NEW r \in Stored
      PROVE  /\ row'[r].dup # None =>
                  /\ row'[r].dup \in Stored'
                  /\ row'[row'[r].dup].dup = None /\ row'[row'[r].dup].content = row'[r].content
                  /\ row'[row'[r].dup].status # "duplicate"
             /\ row'[r].status \in {"pending", "done", "changed"} => row'[r].dup = None
             /\ row'[r].status = "duplicate" /\ row'[r].dup = None => r \in history'.raced
  <2>1. /\ row'[r].content = row[r].content /\ row'[r].dup = row[r].dup
        /\ row'[r].status \in {"pending", "done", "changed"} => row[r].dup = None
        /\ row'[r].status = "duplicate" /\ row[r].dup = None => row[r].status = "duplicate"
    BY CommittedStored
  <2>2. /\ row[r].dup # None =>
             /\ row[r].dup \in Stored
             /\ row[row[r].dup].dup = None /\ row[row[r].dup].content = row[r].content
             /\ row[row[r].dup].status # "duplicate"
        /\ row[r].status = "duplicate" /\ row[r].dup = None => r \in history.raced
    BY DEF Consistent, Linked
  <2>3. row[r].dup # None =>
             /\ row[r].dup \in Stored'
             /\ row'[row[r].dup].dup = None /\ row'[row[r].dup].content = row[r].content
             /\ row'[row[r].dup].status # "duplicate"
    BY <1>2, <2>2
  <2>4. QED
    BY <1>1, <2>1, <2>2, <2>3
<1>4. ASSUME NEW r \in Changed(job[a]) \ Stored
      PROVE  /\ row'[r].dup # None =>
                  /\ row'[r].dup \in Stored'
                  /\ row'[row'[r].dup].dup = None /\ row'[row'[r].dup].content = row'[r].content
                  /\ row'[row'[r].dup].status # "duplicate"
             /\ row'[r].status \in {"pending", "done", "changed"} => row'[r].dup = None
             /\ row'[r].status = "duplicate" /\ row'[r].dup = None => r \in history'.raced
  <2>1. /\ row'[r] = job[a].changes[r] /\ row'[r].content = job[a].content
        /\ \/ row'[r].status = "pending" /\ row'[r].dup = None
           \/ /\ row'[r].status = "duplicate" /\ row'[r].dup \in job[a].locked
              /\ row[row'[r].dup].dup = None
              /\ row[row'[r].dup].content = job[a].content
              /\ row[row'[r].dup].status # "duplicate"
    BY <1>4, Committed DEF Creates
  <2>2. job[a].locked \subseteq Stored /\ Stored \subseteq Nat
    <3>1. Busy(a)
      BY CommitStep
    <3>2. QED
      BY <3>1, Apart DEF Consistent, Held, LockedBy, Stored
  <2>3. CASE row'[r].status = "pending" /\ row'[r].dup = None
    BY <2>3
  <2>4. CASE /\ row'[r].status = "duplicate" /\ row'[r].dup \in job[a].locked
             /\ row[row'[r].dup].dup = None
             /\ row[row'[r].dup].content = job[a].content
             /\ row[row'[r].dup].status # "duplicate"
    <3>1. row'[r].dup \in Stored /\ row'[r].dup # None
      BY <2>2, <2>4, Apart
    <3>2. /\ row'[r].dup \in Stored' /\ row'[row'[r].dup].dup = None
          /\ row'[row'[r].dup].content = row[row'[r].dup].content
          /\ row'[row'[r].dup].status # "duplicate"
      BY <1>2, <2>4, <3>1
    <3>3. QED
      BY <2>1, <2>4, <3>1, <3>2
  <2>5. QED
    BY <2>1, <2>3, <2>4
<1>5. Stored' = Stored \cup Changed(job[a])
  BY Committed
<1>6. QED
  BY <1>3, <1>4, <1>5 DEF Linked

\* Another decided ingest has another content and another path.
LEMMA CommitOther ==
    ASSUME Typed, Consistent, NEW a \in Actors, Commit(a), NEW b \in Actors \ {a}, Busy(b),
           job[b].step = "decided"
    PROVE  job[b].content # job[a].content /\ job[b].path # job[a].path
<1>1. /\ Busy(a) /\ job[a].step = "decided"
      /\ job[a].content \in Contents /\ job[a].path \in Paths
  BY CommitStep, BusyJob
<1>2. HoldsContent(a, job[a].content) /\ HoldsPath(a, job[a].path)
  BY <1>1 DEF HoldsContent, HoldsPath
<1>3. ~HoldsContent(b, job[a].content) /\ ~HoldsPath(b, job[a].path)
  BY <1>1, <1>2 DEF Consistent, Exclusive
<1>4. QED
  BY <1>3 DEF HoldsContent, HoldsPath

LEMMA CommitAt ==
    ASSUME Typed, Consistent, NEW a \in Actors, Commit(a), NEW p \in Paths, p # job[a].path
    PROVE  At(p)' \subseteq At(p)
<1> SUFFICES ASSUME NEW r \in At(p)' PROVE r \in At(p)
  OBVIOUS
<1>1. r \in Stored' /\ row'[r].current /\ row'[r].path = p
  BY DEF At
<1>2. r \notin Changed(job[a])
  BY <1>1, Committed DEF Places
<1>3. r \in Stored /\ row'[r] = row[r]
  BY <1>1, <1>2, Committed DEF Stored
<1>4. QED
  BY <1>1, <1>3 DEF At

LEMMA CommitUnique ==
    ASSUME Typed, Unique, Consistent, NEW a \in Actors, Commit(a)
    PROVE  Unique'
<1> SUFFICES ASSUME NEW p \in Paths, NEW r \in At(p)', NEW s \in At(p)' PROVE r = s
  BY DEF Unique
<1>1. CASE p # job[a].path
  BY <1>1, CommitAt DEF Unique
<1>2. CASE p = job[a].path
  <2>1. At(p) \subseteq Changed(job[a])
    BY <1>2, Committed, CommitStep DEF Writes
  <2>2. ASSUME NEW q \in At(p)' PROVE q \in Changed(job[a]) /\ job[a].changes[q].current
    <3>1. q \in Stored' /\ row'[q].current /\ row'[q].path = p
      BY DEF At
    <3>2. CASE q \notin Changed(job[a])
      <4>1. q \in Stored /\ row'[q] = row[q]
        BY <3>1, <3>2, Committed DEF Stored
      <4>2. q \in At(p)
        BY <3>1, <4>1 DEF At
      <4>3. QED
        BY <2>1, <3>2, <4>2
    <3>3. CASE q \in Changed(job[a])
      BY <3>1, <3>3, Committed
    <3>4. QED
      BY <3>2, <3>3
  <2>3. QED
    BY <2>2, Committed DEF Places
<1>3. QED
  BY <1>1, <1>2

LEMMA CommitLeaves ==
    ASSUME Typed, Consistent, NEW a \in Actors, Commit(a), NEW b \in Actors \ {a}, Busy(b)
    PROVE  \A r \in Changed(job[b]) \cup job[b].locked : row'[r] = row[r]
<1>1. Busy(a) /\ Changed(job[a]) \cap Changed(job[b]) = {}
  BY CommitStep DEF Consistent, Disjoint
<1>2. LockedBy(b) = job[b].locked /\ LockedBy(a) = job[a].locked
  BY <1>1 DEF LockedBy
<1>3. job[b].locked \subseteq Stored /\ job[a].locked \cap job[b].locked = {}
  BY <1>2 DEF Consistent, Held
<1>4. job[b].locked \cap Changed(job[a]) = {}
  BY <1>3, Committed DEF Writes
<1>5. Changed(job[b]) \subseteq Ids /\ job[b].locked \subseteq Ids
  BY <1>3 DEF Changed, Stored
<1>6. QED
  BY <1>1, <1>4, <1>5, Committed

LEMMA CommitAlone ==
    ASSUME Typed, Consistent, NEW a \in Actors, Commit(a), NEW b \in Actors \ {a}, Busy(b),
           job'[b] = job[b], Alone(b), Writes(b)
    PROVE  Alone(b)'
<1> DEFINE c == job[b].content
<1>1. \A r \in Changed(job[b]) : r \in Stored' <=> r \in Stored
  <2>1. Changed(job[b]) \subseteq Ids
    BY DEF Changed
  <2>2. QED
    BY <2>1, CommitLeaves DEF Stored
<1> SUFFICES ASSUME NEW r \in Changed(job[b]) \ Stored, job[b].changes[r].status = "pending",
                    NEW o \in FindByContent(c)'
             PROVE  /\ row'[o].status = "missing"
                    /\ o \in job[b].locked \/ \A d \in Stored' : row'[d].dup # o
  BY <1>1 DEF Alone, Changed
<1>2. c # job[a].content
  BY CommitOther DEF Writes
<1>3. /\ o \in Stored' /\ row'[o].content = c /\ row'[o].dup = None
      /\ row'[o].status # "duplicate"
  BY DEF FindByContent
<1>4. o \in Stored
  <2>1. o \in Changed(job[a]) \ Stored => row'[o].content = job[a].content
    BY Committed DEF Creates
  <2>2. QED
    BY <1>2, <1>3, <2>1, Committed
<1>5. row[o].content = c /\ row[o].dup = None
  BY <1>3, <1>4, CommittedStored
<1>6. o \in Nat /\ o # None
  BY <1>4, Apart DEF Stored
<1>7. \A d \in Changed(job[a]) \ Stored : row'[d].dup # o
  <2>1. SUFFICES ASSUME NEW d \in Changed(job[a]) \ Stored, row'[d].dup = o PROVE FALSE
    OBVIOUS
  <2>2. row[o].content = job[a].content
    BY <1>6, <2>1, Committed DEF Creates
  <2>3. QED
    BY <1>2, <1>5, <2>2
<1>8. CASE row[o].status # "duplicate"
  <2>1. o \in FindByContent(c)
    BY <1>4, <1>5, <1>8 DEF FindByContent
  <2>2. row[o].status = "missing" /\ (o \in job[b].locked \/ \A d \in Stored : row[d].dup # o)
    BY <2>1 DEF Alone
  <2>3. row'[o].status = "missing"
    <3>1. CASE o \in Changed(job[a])
      BY <1>2, <1>3, <1>4, <3>1, Committed DEF Keeps
    <3>2. CASE o \notin Changed(job[a])
      BY <1>4, <2>2, <3>2, Committed DEF Stored
    <3>3. QED
      BY <3>1, <3>2
  <2>4. (\A d \in Stored : row[d].dup # o) => \A d \in Stored' : row'[d].dup # o
    <3>1. \A d \in Stored : row'[d].dup = row[d].dup
      BY CommittedStored
    <3>2. QED
      BY <1>7, <3>1, Committed
  <2>5. QED
    BY <2>2, <2>3, <2>4
<1>9. CASE row[o].status = "duplicate"
  <2>1. o \in Changed(job[a])
    BY <1>3, <1>4, <1>9, Committed DEF Stored
  <2>2. row'[o].status = "missing"
    BY <1>2, <1>3, <1>4, <2>1, Committed DEF Keeps
  <2>3. \A d \in Stored : row[d].dup # o
    BY <1>6, <1>9 DEF Consistent, Linked
  <2>4. \A d \in Stored' : row'[d].dup # o
    <3>1. \A d \in Stored : row'[d].dup = row[d].dup
      BY CommittedStored
    <3>2. QED
      BY <1>7, <2>3, <3>1, Committed
  <2>5. QED
    BY <2>2, <2>4
<1>10. QED
  BY <1>8, <1>9

LEMMA CommitConsistent ==
    ASSUME Typed, Consistent, NEW a \in Actors, Commit(a), delete' = delete
    PROVE  Consistent'
<1>1. Busy(a) /\ Others(a) /\ job'[a] = None
  BY CommitStep
<1>2. \A b \in Actors : job'[b] = job[b] \/ job'[b] = None
  BY <1>1 DEF Others
<1>3. Exclusive' /\ Disjoint'
  BY <1>2, JobsStay DEF Consistent
<1>4. Linked'
  BY CommitLinked
<1>5. Prepared'
  <2>1. SUFFICES ASSUME NEW b \in Actors, Busy(b)'
                 PROVE  (Writes(b) /\ Places(b) /\ Keeps(b) /\ Creates(b) /\ Alone(b))'
    BY DEF Prepared
  <2>2. b # a /\ Busy(b) /\ job'[b] = job[b]
    BY <1>1, <2>1 DEF Busy, Others
  <2>3. Writes(b) /\ Alone(b)
    BY <2>2 DEF Consistent, Prepared
  <2>4. job[b].step = "decided" => At(job[b].path)' \subseteq At(job[b].path)
    <3>1. SUFFICES ASSUME job[b].step = "decided" PROVE At(job[b].path)' \subseteq At(job[b].path)
      OBVIOUS
    <3>2. job[b].path # job[a].path /\ job[b].path \in Paths
      BY <2>2, <3>1, CommitOther, BusyJob
    <3>3. \A p \in Paths : p # job[a].path => At(p)' \subseteq At(p)
      BY CommitAt
    <3>4. At(job[b].path)' = {r \in Stored' : row'[r].current /\ row'[r].path = job[b].path}
      BY <2>2 DEF At
    <3>5. \A p : At(p)' = {r \in Stored' : row'[r].current /\ row'[r].path = p}
      BY DEF At
    <3>6. QED
      BY <3>2, <3>3, <3>4, <3>5
  <2>5. (Writes(b) /\ Places(b) /\ Keeps(b) /\ Creates(b))'
    BY <2>2, <2>4, CommitLeaves, RowStep
  <2>6. QED
    BY <2>2, <2>3, <2>5, CommitAlone
<1>6. Held'
  <2>1. \A b \in Actors : LockedBy(b)' \subseteq LockedBy(b)
    BY <1>2 DEF LockedBy, Busy
  <2>2. Stored \subseteq Stored'
    BY Committed
  <2>3. delete # None => \A r \in delete.locked :
          r \in Stored /\ row[r].dup = delete.id /\ row[r].status = "duplicate" /\ r \notin LockedBy(a)
    BY DEF Consistent, Held, Duplicates
  <2>4. delete # None => \A r \in delete.locked : row'[r] = row[r]
    BY <1>1, <2>3, Committed DEF Writes, LockedBy, Stored
  <2>5. delete' # None => \A r \in delete'.locked :
          r \in Stored' /\ row'[r].dup = delete'.id /\ row'[r].status = "duplicate"
    BY <2>2, <2>3, <2>4
  <2>6. delete' # None =>
          /\ delete'.id \in Stored' /\ \A b \in Actors : LockedBy(b)' \cap delete'.locked = {}
    BY <2>1, <2>2 DEF Consistent, Held
  <2>7. /\ \A b \in Actors : LockedBy(b)' \subseteq Stored'
        /\ \A b, d \in Actors : b # d => LockedBy(b)' \cap LockedBy(d)' = {}
    BY <2>1, <2>2 DEF Consistent, Held
  <2>8. QED
    BY <2>5, <2>6, <2>7 DEF Held, Duplicates
<1>7. Revives'
  <2>1. SUFFICES ASSUME delete # None, NEW r \in Stored', row'[r].dup = delete.id, row'[r].status = "duplicate"
                 PROVE  r \in delete.locked \cup history'.raced
    BY DEF Revives, Duplicates
  <2>2. CASE r \in Changed(job[a])
    BY <2>1, <2>2, CommitStep
  <2>3. CASE r \notin Changed(job[a])
    <3>1. r \in Stored /\ row'[r] = row[r]
      BY <2>1, <2>3, Committed DEF Stored
    <3>2. r \in delete.locked \cup history.raced
      BY <2>1, <3>1 DEF Consistent, Revives, Duplicates
    <3>3. QED
      BY <3>2, CommitStep
  <2>4. QED
    BY <2>2, <2>3
<1>8. QED
  BY <1>3, <1>4, <1>5, <1>6, <1>7 DEF Consistent

LEMMA DeleteStartsConsistent ==
    ASSUME Typed, Consistent, NEW r \in Ids, DeleteStarts(r)
    PROVE  Consistent'
<1>1. /\ r \in Stored /\ Unlocked(Duplicates(r)) /\ delete'.id = r /\ delete'.locked = Duplicates(r)
      /\ row' = row /\ job' = job /\ history' = history
  BY DeleteStartsStep DEF Revived
<1>2. Stored' = Stored
  BY <1>1 DEF Stored
<1>3. Exclusive' /\ Disjoint'
  BY <1>1, JobsStay DEF Consistent
<1>4. Linked'
  BY <1>1, <1>2 DEF Consistent, Linked
<1>5. Prepared'
  <2>1. SUFFICES ASSUME NEW b \in Actors, Busy(b)
                 PROVE  (Writes(b) /\ Places(b) /\ Keeps(b) /\ Creates(b) /\ Alone(b))'
    BY <1>1 DEF Prepared, Busy
  <2>2. QED
    BY <1>1, <2>1, StillPrepared DEF Consistent, Prepared
<1>6. \A a \in Actors : LockedBy(a)' = LockedBy(a)
  BY <1>1 DEF LockedBy, Busy
<1>7. Held'
  <2>1. \A a \in Actors : LockedBy(a)' \cap Duplicates(r) = {}
    BY <1>1, <1>6 DEF Unlocked
  <2>2. delete'.id \in Stored' /\ \A a \in Actors : LockedBy(a)' \cap delete'.locked = {}
    BY <1>1, <1>2, <2>1
  <2>3. \A d \in delete'.locked : d \in Stored' /\ row'[d].dup = delete'.id /\ row'[d].status = "duplicate"
    BY <1>1, <1>2 DEF Duplicates
  <2>4. QED
    BY <1>2, <1>6, <2>2, <2>3 DEF Consistent, Held, Duplicates
<1>8. Revives'
  BY <1>1, <1>2 DEF Revives, Duplicates
<1>9. QED
  BY <1>3, <1>4, <1>5, <1>7, <1>8 DEF Consistent

LEMMA DeleteFailsConsistent ==
    ASSUME Typed, Consistent, DeleteFails
    PROVE  Consistent'
<1>1. delete' = None /\ row' = row /\ job' = job /\ history' = history
  BY DEF DeleteFails
<1>2. Stored' = Stored
  BY <1>1 DEF Stored
<1>3. Exclusive' /\ Disjoint'
  BY <1>1, JobsStay DEF Consistent
<1>4. Linked'
  BY <1>1, <1>2 DEF Consistent, Linked
<1>5. Prepared'
  <2>1. SUFFICES ASSUME NEW b \in Actors, Busy(b)
                 PROVE  (Writes(b) /\ Places(b) /\ Keeps(b) /\ Creates(b) /\ Alone(b))'
    BY <1>1 DEF Prepared, Busy
  <2>2. QED
    BY <1>1, <2>1, StillPrepared DEF Consistent, Prepared
<1>6. \A a \in Actors : LockedBy(a)' = LockedBy(a)
  BY <1>1 DEF LockedBy, Busy
<1>7. Held' /\ Revives'
  BY <1>1, <1>2, <1>6 DEF Consistent, Held, Revives
<1>8. QED
  BY <1>3, <1>4, <1>5, <1>7 DEF Consistent

\* What a deletion does to the rows that are left.
LEMMA DeletedStored ==
    ASSUME Typed, Consistent, DeleteCommits
    PROVE  /\ delete # None /\ delete.id \in Stored /\ delete' = None /\ job' = job
           /\ history'.raced = history.raced /\ Stored' = Stored \ {delete.id}
           /\ delete.id \notin delete.locked
           /\ \A r \in delete.locked : r \in Stored /\ row[r].dup = delete.id /\ row[r].status = "duplicate"
           /\ \A r \in Stored' : /\ row'[r].path = row[r].path /\ row'[r].content = row[r].content
                                /\ row'[r].current = row[r].current
           /\ \A r \in delete.locked : row'[r].status = "pending" /\ row'[r].dup = None
           /\ \A r \in Stored' \ delete.locked :
                /\ row'[r].status = row[r].status
                /\ row'[r].dup = IF row[r].dup = delete.id THEN None ELSE row[r].dup
           /\ \A r \in Stored' \ delete.locked : row[r].dup # delete.id => row'[r] = row[r]
           /\ \A r \in Ids \ Stored : row'[r] = row[r]
<1>1. delete # None
  BY DEF DeleteCommits
<1>2. /\ delete.id \in Stored
      /\ \A r \in delete.locked : r \in Stored /\ row[r].dup = delete.id /\ row[r].status = "duplicate"
  BY <1>1 DEF Consistent, Held, Duplicates
<1>3. delete.locked \subseteq Stored /\ Stored \subseteq Ids
  BY <1>2 DEF Stored
<1>4. /\ row'[delete.id] = Deleted
      /\ \A r \in delete.locked \ {delete.id} : row'[r] = Reviving(row[r])
      /\ \A r \in Stored \ (delete.locked \cup {delete.id}) : row'[r] = Freed(row[r])
      /\ \A r \in Ids \ (Stored \cup {delete.id}) : row'[r] = row[r]
      /\ history'.raced = history.raced
      /\ delete' = None /\ UNCHANGED <<diskVars, job, watchVars, scan>>
  BY <1>1, <1>3, DeleteCommitsStep
<1>5. delete.id \notin delete.locked
  <2>1. SUFFICES ASSUME delete.id \in delete.locked PROVE FALSE
    OBVIOUS
  <2>2. row[delete.id].dup = delete.id
    BY <1>2, <2>1
  <2>3. delete.id # None
    BY <1>2, Apart DEF Stored
  <2>4. QED
    BY <1>2, <2>2, <2>3 DEF Consistent, Linked
<1>6. \A r \in Stored : /\ Reviving(row[r]) \in Rows /\ Freed(row[r]) \in Rows
  BY RowOf, RevivingFields, FreedFields
<1>7. Stored' = Stored \ {delete.id}
  <2>1. \A r \in Stored \ {delete.id} : row'[r] \notin {None, Deleted}
    BY <1>3, <1>4, <1>6, Apart
  <2>2. \A r \in Ids \ Stored : r \notin Stored'
    BY <1>2, <1>4 DEF Stored
  <2>3. delete.id \notin Stored'
    BY <1>4 DEF Stored
  <2>4. Stored' \subseteq Ids /\ \A r \in Stored \ {delete.id} : r \in Stored'
    BY <1>3, <2>1 DEF Stored
  <2>5. QED
    BY <2>2, <2>3, <2>4
<1>8. \A r \in delete.locked : /\ row'[r].status = "pending" /\ row'[r].dup = None
                              /\ row'[r].path = row[r].path /\ row'[r].content = row[r].content
                              /\ row'[r].current = row[r].current
  <2>1. \A r \in delete.locked : row'[r] = Reviving(row[r])
    BY <1>4, <1>5
  <2>2. QED
    BY <1>3, <2>1, RowOf, RevivingFields
<1>9. \A r \in Stored' \ delete.locked :
        /\ row'[r].status = row[r].status
        /\ row'[r].dup = IF row[r].dup = delete.id THEN None ELSE row[r].dup
        /\ row'[r].path = row[r].path /\ row'[r].content = row[r].content
        /\ row'[r].current = row[r].current
        /\ row[r].dup # delete.id => row'[r] = row[r]
  <2>1. SUFFICES ASSUME NEW r \in Stored, r # delete.id, r \notin delete.locked
                 PROVE  /\ row'[r].status = row[r].status
                        /\ row'[r].dup = IF row[r].dup = delete.id THEN None ELSE row[r].dup
                        /\ row'[r].path = row[r].path /\ row'[r].content = row[r].content
                        /\ row'[r].current = row[r].current
                        /\ row[r].dup # delete.id => row'[r] = row[r]
    BY <1>7
  <2>2. row'[r] = Freed(row[r]) /\ row[r] \in Rows
    BY <1>4, <2>1, RowOf
  <2>3. row[r].dup # delete.id => Freed(row[r]) = row[r]
    BY DEF Freed
  <2>4. QED
    BY <2>2, <2>3, FreedFields
<1>10. \A r \in Ids \ Stored : row'[r] = row[r]
  BY <1>2, <1>4
<1>11. QED
  BY <1>1, <1>2, <1>4, <1>5, <1>7, <1>8, <1>9, <1>10

LEMMA DeleteCommitsLinked ==
    ASSUME Typed, Consistent, DeleteCommits
    PROVE  Linked'
<1> SUFFICES ASSUME NEW r \in Stored'
             PROVE  /\ row'[r].dup # None =>
                         /\ row'[r].dup \in Stored'
                         /\ row'[row'[r].dup].dup = None /\ row'[row'[r].dup].content = row'[r].content
                         /\ row'[row'[r].dup].status # "duplicate"
                    /\ row'[r].status \in {"pending", "done", "changed"} => row'[r].dup = None
                    /\ row'[r].status = "duplicate" /\ row'[r].dup = None => r \in history'.raced
  BY DEF Linked
<1>1. CASE r \in delete.locked
  BY <1>1, DeletedStored
<1>2. CASE r \notin delete.locked
  <2>1. /\ row'[r].status = row[r].status /\ row'[r].content = row[r].content
        /\ row'[r].dup = IF row[r].dup = delete.id THEN None ELSE row[r].dup
        /\ r \in Stored
    BY <1>2, DeletedStored
  <2>2. /\ row[r].dup # None =>
             /\ row[r].dup \in Stored
             /\ row[row[r].dup].dup = None /\ row[row[r].dup].content = row[r].content
             /\ row[row[r].dup].status # "duplicate"
        /\ row[r].status \in {"pending", "done", "changed"} => row[r].dup = None
        /\ row[r].status = "duplicate" /\ row[r].dup = None => r \in history.raced
    BY <2>1 DEF Consistent, Linked
  <2>3. row'[r].dup # None =>
             /\ row'[r].dup \in Stored'
             /\ row'[row'[r].dup].dup = None /\ row'[row'[r].dup].content = row'[r].content
             /\ row'[row'[r].dup].status # "duplicate"
    <3>1. SUFFICES ASSUME row'[r].dup # None
                   PROVE  /\ row'[r].dup \in Stored'
                          /\ row'[row'[r].dup].dup = None /\ row'[row'[r].dup].content = row'[r].content
                          /\ row'[row'[r].dup].status # "duplicate"
      OBVIOUS
    <3>2. PICK o \in Stored : o = row[r].dup /\ o = row'[r].dup /\ o # delete.id
      BY <2>1, <2>2, <3>1
    <3>3. row[o].dup = None /\ row[o].content = row[r].content /\ row[o].status # "duplicate"
      BY <2>1, <2>2, <3>1, <3>2
    <3>4. o \in Stored' /\ o \notin delete.locked
      BY <3>2, <3>3, DeletedStored
    <3>5. row'[o].dup = None /\ row'[o].content = row[o].content /\ row'[o].status = row[o].status
      <4>1. row'[o].dup = IF row[o].dup = delete.id THEN None ELSE row[o].dup
        BY <3>4, DeletedStored
      <4>2. QED
        BY <3>3, <3>4, <4>1, DeletedStored
    <3>6. QED
      BY <2>1, <3>2, <3>3, <3>4, <3>5
  <2>4. row'[r].status = "duplicate" /\ row'[r].dup = None => r \in history'.raced
    <3>1. row[r].status = "duplicate" /\ row[r].dup = delete.id => r \in history.raced
      BY <1>2, <2>1, DeletedStored DEF Consistent, Revives, Duplicates
    <3>2. QED
      BY <2>1, <2>2, <3>1, DeletedStored
  <2>5. QED
    BY <2>1, <2>2, <2>3, <2>4
<1>3. QED
  BY <1>1, <1>2

LEMMA DeleteCommitsPrepared ==
    ASSUME Typed, Consistent, DeleteCommits, NEW b \in Actors, Busy(b)
    PROVE  (Writes(b) /\ Places(b) /\ Keeps(b) /\ Creates(b) /\ Alone(b))'
<1>1. LockedBy(b) = job[b].locked /\ LockedBy(b) \subseteq Stored /\ LockedBy(b) \cap delete.locked = {}
  BY DeletedStored DEF LockedBy, Consistent, Held
<1>2. delete.id \notin job[b].locked /\ \A d \in Stored : row[d].dup = delete.id => d \notin job[b].locked
  BY <1>1 DEF DeleteCommits, Touches
<1>3. \A r \in job[b].locked : row'[r] = row[r]
  BY <1>1, <1>2, DeletedStored
<1>4. Writes(b) /\ Alone(b)
  BY DEF Consistent, Prepared
<1>5. \A r \in Changed(job[b]) \cup job[b].locked : row'[r] = row[r]
  BY <1>3, <1>4, DeletedStored DEF Writes, Changed
<1>6. \A p : At(p)' \subseteq At(p)
  BY DeletedStored DEF At
<1>7. job'[b] = job[b]
  BY DeletedStored
<1>8. At(job[b].path)' \subseteq At(job[b].path)
  <2>1. At(job[b].path)' = {r \in Stored' : row'[r].current /\ row'[r].path = job[b].path}
    BY <1>7 DEF At
  <2>2. \A p : At(p)' = {r \in Stored' : row'[r].current /\ row'[r].path = p}
    BY DEF At
  <2>3. QED
    BY <1>6, <2>1, <2>2
<1>9. (Writes(b) /\ Places(b) /\ Keeps(b) /\ Creates(b))'
  BY <1>5, <1>7, <1>8, RowStep
<1>10. Alone(b)'
  <2> DEFINE c == job[b].content
  <2>1. \A r \in Changed(job[b]) : r \in Stored' <=> r \in Stored
    <3>1. Changed(job[b]) \subseteq Ids
      BY DEF Changed
    <3>2. QED
      BY <1>5, <3>1 DEF Stored
  <2>2. SUFFICES ASSUME NEW r \in Changed(job[b]) \ Stored, job[b].changes[r].status = "pending",
                        NEW o \in FindByContent(c)'
                 PROVE  /\ row'[o].status = "missing"
                        /\ o \in job[b].locked \/ \A d \in Stored' : row'[d].dup # o
    BY <1>7, <2>1 DEF Alone, Changed
  <2>3. /\ o \in Stored' /\ o \in Stored /\ row'[o].content = c /\ row'[o].dup = None
        /\ row'[o].status # "duplicate" /\ row[o].content = c
    BY <1>7, DeletedStored DEF FindByContent
  <2>4. o # None /\ delete.id # None
    BY <2>3, DeletedStored, Apart DEF Stored
  <2>5. \A d \in Stored' : row'[d].dup \in {None, row[d].dup} /\ d \in Stored
    BY DeletedStored
  <2>6. \A x \in FindByContent(c) :
          row[x].status = "missing" /\ (x \in job[b].locked \/ \A d \in Stored : row[d].dup # x)
    BY <1>4, <2>2 DEF Alone
  <2>7. CASE o \in delete.locked
    <3>1. row[o].dup = delete.id
      BY <2>7, DeletedStored
    <3>2. /\ row[delete.id].dup = None /\ row[delete.id].content = c
          /\ row[delete.id].status # "duplicate" /\ delete.id \in Stored
      BY <2>3, <2>4, <3>1 DEF Consistent, Linked
    <3>3. delete.id \in FindByContent(c)
      BY <3>2 DEF FindByContent
    <3>4. QED
      BY <1>2, <2>3, <2>6, <3>1, <3>3
  <2>8. CASE o \notin delete.locked /\ row[o].dup = None
    <3>1. row'[o].status = row[o].status
      BY <2>3, <2>8, DeletedStored
    <3>2. o \in FindByContent(c)
      BY <2>3, <2>8, <3>1 DEF FindByContent
    <3>3. QED
      BY <2>4, <2>5, <2>6, <3>1, <3>2
  <2>9. CASE o \notin delete.locked /\ row[o].dup # None
    <3>1. row'[o].status = row[o].status
      BY <2>3, <2>9, DeletedStored
    <3>2. row[o].status \in Statuses
      BY <2>3, RowOf DEF Rows
    <3>3. row[o].status = "missing"
      BY <2>3, <2>9, <3>1, <3>2 DEF Consistent, Linked, Statuses
    <3>4. \A d \in Stored : row[d].dup # o
      BY <2>4, <2>9 DEF Consistent, Linked
    <3>5. QED
      BY <2>4, <2>5, <3>1, <3>3, <3>4
  <2>10. QED
    BY <2>7, <2>8, <2>9
<1>11. QED
  BY <1>9, <1>10

LEMMA DeleteCommitsConsistent ==
    ASSUME Typed, Consistent, DeleteCommits
    PROVE  Consistent' /\ (Unique => Unique')
<1>1. Exclusive' /\ Disjoint'
  BY DeletedStored, JobsStay DEF Consistent
<1>2. Linked'
  BY DeleteCommitsLinked
<1>3. Prepared'
  BY DeleteCommitsPrepared, DeletedStored DEF Prepared, Busy
<1>4. Held' /\ Revives'
  <2>1. \A a \in Actors : LockedBy(a)' = LockedBy(a) /\ delete.id \notin LockedBy(a)
    BY DeletedStored DEF LockedBy, Busy, DeleteCommits, Touches
  <2>2. QED
    BY <2>1, DeletedStored DEF Consistent, Held, Revives
<1>5. Unique => Unique'
  BY DeletedStored DEF Unique, At
<1>6. QED
  BY <1>1, <1>2, <1>3, <1>4, <1>5 DEF Consistent

-----------------------------------------------------------------------------
(* The steps together. *)

IInv == Typed /\ Unique /\ Taken /\ Consistent

LEMMA SameTaken ==
    ASSUME Taken, job'["watcher"] = job["watcher"], ready' = ready
    PROVE  Taken'
BY DEF Taken, Busy

LEMMA OthersTaken ==
    ASSUME Taken, NEW a \in Actors, a # "watcher", Others(a), ready' = ready
    PROVE  Taken'
<1>1. "watcher" \in Actors
  BY DEF Actors
<1>2. QED
  BY <1>1, SameTaken DEF Others

\* An item that was taken is dropped by the turn that took it only.
LEMMA DeliverTaken ==
    ASSUME Typed, Taken, Deliver
    PROVE  Taken'
<1> DEFINE p == Head(event).path
           heldLess == [pending EXCEPT ![p] = None]
           knownLess == [registered EXCEPT ![p] = None]
           takenLess == IF ready[p] = None THEN ready ELSE [ready EXCEPT ![p].live = FALSE]
           Stay(taken) == taken \in [Watched -> Items \cup {None}]
                          /\ \A q \in Watched : ready[q] # None => taken[q] # None
<1>1. p \in Watched
  <2>1. Head(event) \in Events
    BY DEF Deliver, Typed
  <2>2. QED
    BY <2>1 DEF Events
<1>2. /\ job' = job
      /\ \/ MaybeIngest(p, heldLess, knownLess, takenLess)
         \/ ready' = takenLess
         \/ MaybeIngest(p, pending, registered, ready)
  BY DEF Deliver
<1>3. ASSUME NEW taken, Stay(taken)
      PROVE  Stay(IF taken[p] = None THEN taken ELSE [taken EXCEPT ![p].live = FALSE])
  <2>1. CASE taken[p] = None
    BY <1>3, <2>1
  <2>2. CASE taken[p] # None
    <3>1. [taken EXCEPT ![p].live = FALSE] \in [Watched -> Items \cup {None}]
      BY <1>1, <1>3, <2>2, DeadItem
    <3>2. PICK i : i = [taken[p] EXCEPT !.live = FALSE]
      OBVIOUS
    <3>3. i \in Items
      BY <1>1, <1>3, <2>2, <3>2 DEF Items
    <3>4. [taken EXCEPT ![p].live = FALSE] = [taken EXCEPT ![p] = i]
      BY <3>2
    <3>5. \A q \in Watched : ready[q] # None => [taken EXCEPT ![p] = i][q] # None
      BY <1>1, <1>3, <3>3, Apart
    <3>6. QED
      BY <2>2, <3>1, <3>4, <3>5
  <2>3. QED
    BY <2>1, <2>2
<1>4. Stay(ready)
  BY DEF Typed
<1>5. Stay(takenLess)
  BY <1>3, <1>4
<1>6. ASSUME NEW held, NEW known, NEW taken, Stay(taken), MaybeIngest(p, held, known, taken)
      PROVE  Stay(ready')
  <2>1. ready' = taken \/ ready' = (IF taken[p] = None THEN taken ELSE [taken EXCEPT ![p].live = FALSE])
    BY <1>6 DEF MaybeIngest
  <2> HIDE DEF Stay
  <2>2. QED
    BY <1>3, <1>6, <2>1
<1>7. Stay(ready')
  <2> HIDE DEF Stay, p, heldLess, knownLess, takenLess
  <2>1. QED
    BY <1>2, <1>4, <1>5, <1>6
<1>8. QED
  BY <1>2, <1>7 DEF Taken, Busy

LEMMA NextTaken ==
    ASSUME Typed, Taken, [Next]_vars
    PROVE  Taken'
<1>1. "watcher" \in Actors /\ "scanner" \in Actors /\ "uploader" \in Actors
  BY DEF Actors
<1>2. CASE Folder \/ Mount
  BY <1>2, SameTaken DEF Folder, Write, Remove, Rename, Edit, Mount, watchVars
<1>3. CASE Watching
  <2>1. CASE TakeReady
    BY <2>1 DEF TakeReady, Taken, Busy
  <2>2. CASE WatcherCommits
    <3>1. job'["watcher"] = None
      BY <1>1, <2>2, CommitStep DEF WatcherCommits
    <3>2. QED
      BY <3>1 DEF Taken, Busy
  <2>3. CASE WatcherFails
    <3>1. job'["watcher"] = None
      BY <1>1, <2>3, FailStep DEF WatcherFails
    <3>2. QED
      BY <3>1 DEF Taken, Busy
  <2>4. CASE LockContent("watcher")
    <3>1. Busy("watcher") /\ job'["watcher"].path = job["watcher"].path
      BY <1>1, <2>4, LockContentStep
    <3>2. ready' = ready
      BY <2>4 DEF LockContent, watchVars
    <3>3. QED
      BY <3>1, <3>2 DEF Taken
  <2>5. CASE Decide("watcher")
    <3>1. Busy("watcher") /\ job'["watcher"].path = job["watcher"].path
      BY <1>1, <2>5, DecideStep
    <3>2. ready' = ready
      BY <2>5 DEF Decide, watchVars
    <3>3. QED
      BY <3>1, <3>2 DEF Taken
  <2>6. ASSUME NEW p \in Watched, Process(p) PROVE Taken'
    <3>1. CASE UNCHANGED job
      BY <2>6, <3>1 DEF Process, Taken, Busy
    <3>2. CASE Visible(p) /\ Read("watcher", p, file[p], "scan", {}) /\ UNCHANGED <<pending, ready>>
      <4>1. p \in Paths /\ {} \in SUBSET Ids /\ "scan" \in {"scan", "upload"} /\ file[p] \in Files
        BY <3>2, Apart, FileThere
      <4>2. job'["watcher"].path = p
        BY <1>1, <3>2, <4>1, ReadStep
      <4>3. QED
        BY <2>6, <3>2, <4>2 DEF Process, Taken
    <3>3. QED
      BY <2>6, <3>1, <3>2 DEF Process
  <2>7. QED
    BY <1>3, <2>1, <2>2, <2>3, <2>4, <2>5, <2>6, DeliverTaken DEF Watching
<1>4. CASE Restarting
  <2>1. CASE WatcherEnds
    <3>1. job'["watcher"] = None
      BY <1>1, <2>1 DEF WatcherEnds, Typed
    <3>2. QED
      BY <3>1 DEF Taken, Busy
  <2>2. CASE WatcherStarts
    BY <2>2, SameTaken DEF WatcherStarts
  <2>3. QED
    BY <1>4, <2>1, <2>2 DEF Restarting
<1>5. CASE Scanning
  <2>1. CASE ScanCommits
    BY <1>1, <2>1, CommitStep, OthersTaken DEF ScanCommits, watchVars
  <2>2. CASE ScanFails
    BY <1>1, <2>2, FailStep, OthersTaken DEF ScanFails, watchVars
  <2>3. CASE LockContent("scanner")
    BY <1>1, <2>3, LockContentStep, OthersTaken DEF LockContent, watchVars
  <2>4. CASE Decide("scanner")
    BY <1>1, <2>4, DecideStep, OthersTaken DEF Decide, watchVars
  <2>5. CASE ScanStarts \/ ScanFindsNothing \/ ScanBreaks \/ ScanCompares \/ ScanSweeps
    BY <2>5, SameTaken DEF ScanStarts, ScanFindsNothing, ScanBreaks, ScanCompares, ScanSweeps, watchVars
  <2>6. ASSUME NEW p \in Watched, ScanVisits(p) PROVE Taken'
    <3>1. ready' = ready
      BY <2>6 DEF ScanVisits, watchVars
    <3>2. CASE UNCHANGED job
      BY <3>1, <3>2, SameTaken
    <3>3. CASE Visible(p) /\ Read("scanner", p, file[p], "scan", {})
      <4>1. p \in Paths /\ {} \in SUBSET Ids /\ "scan" \in {"scan", "upload"} /\ file[p] \in Files
        BY <3>3, Apart, FileThere
      <4>2. Others("scanner")
        BY <1>1, <3>3, <4>1, ReadStep
      <4>3. QED
        BY <1>1, <3>1, <4>2, OthersTaken
    <3>4. QED
      BY <2>6, <3>2, <3>3 DEF ScanVisits
  <2>7. QED
    BY <1>5, <2>1, <2>2, <2>3, <2>4, <2>5, <2>6 DEF Scanning
<1>6. CASE Uploading
  <2>1. CASE UploadCommits
    BY <1>1, <2>1, CommitStep, OthersTaken DEF UploadCommits, watchVars
  <2>2. CASE UploadFails
    BY <1>1, <2>2, FailStep, OthersTaken DEF UploadFails, watchVars
  <2>3. CASE LockContent("uploader")
    BY <1>1, <2>3, LockContentStep, OthersTaken DEF LockContent, watchVars
  <2>4. CASE Decide("uploader")
    BY <1>1, <2>4, DecideStep, OthersTaken DEF Decide, watchVars
  <2>5. ASSUME NEW p \in Uploads, NEW c \in Contents, UploadStarts(p, c) PROVE Taken'
    <3>1. Others("uploader")
      BY <2>5, UploadStartsStep, ReadStep
    <3>2. ready' = ready
      BY <2>5 DEF UploadStarts, watchVars
    <3>3. QED
      BY <1>1, <3>1, <3>2, OthersTaken
  <2>6. QED
    BY <1>6, <2>1, <2>2, <2>3, <2>4, <2>5 DEF Uploading
<1>7. CASE Deleting \/ Working
  BY <1>7, SameTaken DEF Deleting, DeleteCommits, DeleteFails, DeleteStarts, Working, Work, watchVars
<1>8. CASE UNCHANGED vars
  BY <1>8, SameTaken DEF vars, watchVars
<1>9. QED
  BY <1>2, <1>3, <1>4, <1>5, <1>6, <1>7, <1>8 DEF Next

LEMMA NextTyped ==
    ASSUME IInv, [Next]_vars
    PROVE  Typed'
<1>1. Typed /\ Taken /\ (delete # None => delete.locked \subseteq Stored)
  BY DEF IInv, Consistent, Held, Duplicates
<1>2. CASE UNCHANGED vars
  BY <1>1, <1>2 DEF Typed, vars, diskVars, watchVars
<1>3. CASE Next
  BY <1>1, <1>3, FolderTyped, MountTyped, WatchingTyped, RestartingTyped, ScanningTyped,
     UploadingTyped, DeletingTyped, WorkTyped DEF Next, Working
<1>4. QED
  BY <1>2, <1>3

LEMMA RowsUnique ==
    ASSUME Unique, row' = row
    PROVE  Unique'
BY DEF Unique, At, Stored

\* Steps that touch neither rows nor what is held.
LEMMA Idle ==
    ASSUME Consistent, Unique, row' = row, job' = job, delete' = delete, history'.raced = history.raced
    PROVE  Consistent' /\ Unique'
<1>1. Exclusive' /\ Disjoint'
  BY JobsStay DEF Consistent
<1>2. Linked' /\ Revives'
  BY RowsLinked DEF Consistent, RowsStay
<1>3. Prepared'
  <2>1. SUFFICES ASSUME NEW b \in Actors, Busy(b)
                 PROVE  (Writes(b) /\ Places(b) /\ Keeps(b) /\ Creates(b) /\ Alone(b))'
    BY DEF Prepared, Busy
  <2>2. QED
    BY <2>1, StillPrepared DEF Consistent, Prepared
<1>4. Held'
  <2>1. \A a \in Actors : LockedBy(a)' = LockedBy(a)
    BY DEF LockedBy, Busy
  <2>2. Stored' = Stored
    BY DEF Stored
  <2>3. delete # None => \A r \in delete.locked :
          r \in Stored /\ row[r].dup = delete.id /\ row[r].status = "duplicate"
    BY DEF Consistent, Held, Duplicates
  <2>4. QED
    BY <2>1, <2>2, <2>3 DEF Consistent, Held, Duplicates
<1>5. QED
  BY <1>1, <1>2, <1>3, <1>4, RowsUnique DEF Consistent

LEMMA WatchingConsistent ==
    ASSUME IInv, Watching
    PROVE  Consistent' /\ Unique'
<1>1. "watcher" \in Actors /\ Typed /\ Unique /\ Consistent
  BY DEF Actors, IInv
<1>2. CASE Deliver \/ TakeReady
  BY <1>1, <1>2, Idle DEF Deliver, TakeReady
<1>3. CASE WatcherCommits
  <2>1. Commit("watcher") /\ delete' = delete
    BY <1>3 DEF WatcherCommits
  <2>2. QED
    BY <1>1, <2>1, CommitConsistent, CommitUnique
<1>4. CASE WatcherFails
  <2>1. RowsStay /\ Others("watcher") /\ job'["watcher"] = None
    BY <1>1, <1>4, FailStep DEF WatcherFails, RowsStay
  <2>2. QED
    BY <1>1, <2>1, FailConsistent, RowsUnique DEF RowsStay
<1>5. CASE LockContent("watcher")
  BY <1>1, <1>5, LockContentConsistent, RowsUnique DEF LockContent
<1>6. CASE Decide("watcher")
  BY <1>1, <1>6, DecideConsistent, RowsUnique DEF Decide
<1>7. ASSUME NEW p \in Watched, Process(p) PROVE Consistent' /\ Unique'
  <2>1. RowsStay
    BY <1>7 DEF Process, RowsStay
  <2>2. CASE UNCHANGED job
    BY <1>1, <2>1, <2>2, Idle DEF RowsStay
  <2>3. CASE Visible(p) /\ Read("watcher", p, file[p], "scan", {})
    <3>1. p \in Paths /\ {} \in SUBSET Ids /\ "scan" \in {"scan", "upload"} /\ file[p] \in Files
      BY <1>1, <2>3, Apart, FileThere
    <3>2. {} \subseteq Stored /\ UnlockedFor("watcher", {})
      BY DEF UnlockedFor
    <3>3. QED
      BY <1>1, <2>1, <2>3, <3>1, <3>2, ReadConsistent, RowsUnique DEF RowsStay
  <2>4. QED
    BY <1>7, <2>2, <2>3 DEF Process
<1>8. QED
  BY <1>2, <1>3, <1>4, <1>5, <1>6, <1>7 DEF Watching

LEMMA ScanningConsistent ==
    ASSUME IInv, Typed', Scanning
    PROVE  Consistent' /\ Unique'
<1>1. "scanner" \in Actors /\ Typed /\ Unique /\ Consistent
  BY DEF Actors, IInv
<1>2. CASE ScanFindsNothing \/ ScanBreaks \/ ScanCompares
  BY <1>1, <1>2, Idle DEF ScanFindsNothing, ScanBreaks, ScanCompares
<1>3. CASE ScanStarts
  <2>1. history'.raced = history.raced
    <3>1. history \in Histories
      BY <1>1 DEF Typed
    <3>2. QED
      BY <1>3, <3>1 DEF ScanStarts, Histories
  <2>2. QED
    BY <1>1, <1>3, <2>1, Idle DEF ScanStarts
<1>4. CASE ScanCommits
  <2>1. Commit("scanner") /\ delete' = delete
    BY <1>4 DEF ScanCommits
  <2>2. QED
    BY <1>1, <2>1, CommitConsistent, CommitUnique
<1>5. CASE ScanFails
  <2>1. RowsStay /\ Others("scanner") /\ job'["scanner"] = None
    BY <1>1, <1>5, FailStep DEF ScanFails, RowsStay
  <2>2. QED
    BY <1>1, <2>1, FailConsistent, RowsUnique DEF RowsStay
<1>6. CASE LockContent("scanner")
  BY <1>1, <1>6, LockContentConsistent, RowsUnique DEF LockContent
<1>7. CASE Decide("scanner")
  BY <1>1, <1>7, DecideConsistent, RowsUnique DEF Decide
<1>8. CASE ScanSweeps
  <2>1. PICK gone \in SUBSET Stored :
          /\ Unlocked(gone)
          /\ \A r \in gone : row'[r] = Missing(row[r])
          /\ \A r \in Ids \ gone : row'[r] = row[r]
          /\ history'.raced = history.raced /\ UNCHANGED <<diskVars, job, watchVars, delete>>
    BY <1>1, <1>8, ScanSweepsStep
  <2>2. \A r \in gone :
          /\ row'[r] \in Rows /\ row'[r].path = row[r].path /\ row'[r].content = row[r].content
          /\ row'[r].current = row[r].current /\ row'[r].dup = row[r].dup /\ row'[r].status = "missing"
    BY <1>1, <2>1, RowOf, MissingFields
  <2>3. QED
    BY <1>1, <2>1, <2>2, StatusStep
<1>9. ASSUME NEW p \in Watched, ScanVisits(p) PROVE Consistent' /\ Unique'
  <2>1. RowsStay
    BY <1>9 DEF ScanVisits, RowsStay
  <2>2. CASE UNCHANGED job
    BY <1>1, <2>1, <2>2, Idle DEF RowsStay
  <2>3. CASE Visible(p) /\ Read("scanner", p, file[p], "scan", {})
    <3>1. p \in Paths /\ {} \in SUBSET Ids /\ "scan" \in {"scan", "upload"} /\ file[p] \in Files
      BY <1>1, <2>3, Apart, FileThere
    <3>2. {} \subseteq Stored /\ UnlockedFor("scanner", {})
      BY DEF UnlockedFor
    <3>3. QED
      BY <1>1, <2>1, <2>3, <3>1, <3>2, ReadConsistent, RowsUnique DEF RowsStay
  <2>4. QED
    BY <1>9, <2>2, <2>3 DEF ScanVisits
<1>10. QED
  BY <1>2, <1>3, <1>4, <1>5, <1>6, <1>7, <1>8, <1>9 DEF Scanning

LEMMA UploadingConsistent ==
    ASSUME IInv, Uploading
    PROVE  Consistent' /\ Unique'
<1>1. "uploader" \in Actors /\ Typed /\ Unique /\ Consistent
  BY DEF Actors, IInv
<1>2. CASE UploadCommits
  <2>1. Commit("uploader") /\ delete' = delete
    BY <1>2 DEF UploadCommits
  <2>2. QED
    BY <1>1, <2>1, CommitConsistent, CommitUnique
<1>3. CASE UploadFails
  <2>1. RowsStay /\ Others("uploader") /\ job'["uploader"] = None
    BY <1>1, <1>3, FailStep DEF UploadFails, RowsStay
  <2>2. QED
    BY <1>1, <2>1, FailConsistent, RowsUnique DEF RowsStay
<1>4. CASE LockContent("uploader")
  BY <1>1, <1>4, LockContentConsistent, RowsUnique DEF LockContent
<1>5. CASE Decide("uploader")
  BY <1>1, <1>5, DecideConsistent, RowsUnique DEF Decide
<1>6. ASSUME NEW p \in Uploads, NEW c \in Contents, UploadStarts(p, c) PROVE Consistent' /\ Unique'
  <2>1. RowsStay /\ UnlockedFor("uploader", FindByContent(c)) /\ FindByContent(c) \subseteq Stored
    BY <1>6 DEF UploadStarts, RowsStay, FindByContent
  <2>2. /\ FindByContent(c) \in SUBSET Ids /\ Stamped(c) \in Files
        /\ p \in Paths /\ "upload" \in {"scan", "upload"}
        /\ Read("uploader", p, Stamped(c), "upload", FindByContent(c))
    BY <1>1, <1>6, UploadStartsStep
  <2>3. QED
    BY <1>1, <2>1, <2>2, ReadConsistent, RowsUnique DEF RowsStay
<1>7. QED
  BY <1>2, <1>3, <1>4, <1>5, <1>6 DEF Uploading

LEMMA RestConsistent ==
    ASSUME IInv, Typed', Folder \/ Mount \/ Restarting \/ Deleting \/ Working
    PROVE  Consistent' /\ Unique'
<1>1. Typed /\ Unique /\ Consistent /\ history \in Histories
  BY DEF IInv, Typed
<1>2. CASE Folder \/ Mount
  <2>1. /\ row' = row /\ job' = job /\ delete' = delete
        /\ \/ \E gone : history' = [history EXCEPT !.absent = gone]
           \/ \E back : history' = [history EXCEPT !.back = back]
    BY <1>2 DEF Folder, Write, Remove, Rename, Edit, Mount
  <2>2. history'.raced = history.raced
    BY <1>1, <2>1 DEF Histories
  <2>3. QED
    BY <1>1, <2>1, <2>2, Idle
<1>3. CASE WatcherEnds
  <2>1. RowsStay /\ "watcher" \in Actors /\ Others("watcher") /\ job'["watcher"] = None
    BY <1>1, <1>3 DEF WatcherEnds, RowsStay, Typed, Actors, Others
  <2>2. QED
    BY <1>1, <2>1, FailConsistent, RowsUnique DEF RowsStay
<1>4. CASE WatcherStarts
  <2>1. history'.raced = history.raced
    BY <1>1, <1>4 DEF WatcherStarts, Histories
  <2>2. QED
    BY <1>1, <1>4, <2>1, Idle DEF WatcherStarts
<1>5. CASE DeleteCommits
  BY <1>1, <1>5, DeleteCommitsConsistent
<1>6. CASE DeleteFails
  BY <1>1, <1>6, DeleteFailsConsistent, RowsUnique DEF DeleteFails
<1>7. ASSUME NEW r \in Ids, DeleteStarts(r) PROVE Consistent' /\ Unique'
  BY <1>1, <1>7, DeleteStartsConsistent, RowsUnique DEF DeleteStarts
<1>8. ASSUME NEW r \in Ids, Work(r) PROVE Consistent' /\ Unique'
  <2>1. /\ r \in Stored /\ row[r].status = "pending" /\ Unlocked({r})
        /\ \A s \in Ids \ {r} : row'[s] = row[s]
        /\ row'[r] \in Rows /\ row'[r].status \in {"changed", "done"}
        /\ row'[r].path = row[r].path /\ row'[r].content = row[r].content
        /\ row'[r].current = row[r].current /\ row'[r].dup = row[r].dup
        /\ UNCHANGED <<diskVars, job, watchVars, scan, delete, history>>
    BY <1>1, <1>8, WorkStep
  <2>2. {r} \in SUBSET Stored
    BY <2>1
  <2>3. QED
    BY <1>1, <2>1, <2>2, StatusStep
<1>9. QED
  BY <1>2, <1>3, <1>4, <1>5, <1>6, <1>7, <1>8 DEF Restarting, Deleting, Working

LEMMA NextInv ==
    ASSUME IInv, [Next]_vars
    PROVE  IInv'
<1>1. Typed'
  BY NextTyped
<1>2. Taken'
  BY NextTaken DEF IInv
<1>3. Consistent' /\ Unique'
  <2>1. CASE UNCHANGED vars
    BY <2>1, Idle DEF IInv, vars
  <2>2. CASE Next
    BY <1>1, <2>2, WatchingConsistent, ScanningConsistent, UploadingConsistent, RestConsistent DEF Next
  <2>3. QED
    BY <2>1, <2>2
<1>4. QED
  BY <1>1, <1>2, <1>3 DEF IInv

LEMMA Invariance == Spec => []IInv
<1>1. Init => IInv
  BY InitTyped, InitConsistent DEF IInv
<1>2. IInv /\ [Next]_vars => IInv'
  BY NextInv
<1>3. QED
  BY <1>1, <1>2, PTL DEF Spec

\* Every variable keeps its type, and a path has one current recording: a commit is
\* never refused by the unique index (ingest.py:241, models.py).
THEOREM TypeCorrect == Spec => []TypeOK
<1>1. IInv => TypeOK
  BY TypeParts DEF IInv
<1>2. QED
  BY <1>1, Invariance, PTL

\* A duplicate has a recording of its content that stands for it, unless it came while
\* that one was being deleted (app.py:369-371).
THEOREM LinksKept == Spec => []DuplicatesLinked
<1>1. IInv => DuplicatesLinked
  BY DEF IInv, Consistent, Linked, DuplicatesLinked
<1>2. QED
  BY <1>1, Invariance, PTL

\* A commit is what makes a new row.
LEMMA Newborn ==
    ASSUME IInv, [Next]_vars, NEW r \in Ids, row[r] = None, row'[r] # None
    PROVE  \E a \in Actors : Commit(a)
<1>1. Typed /\ Consistent
  BY DEF IInv
<1>2. "watcher" \in Actors /\ "scanner" \in Actors /\ "uploader" \in Actors
  BY DEF Actors
<1>3. row' # row /\ r \notin Stored
  BY DEF Stored
<1>4. ~(Folder \/ Mount \/ Restarting \/ UNCHANGED vars)
  BY <1>3 DEF Folder, Write, Remove, Rename, Edit, Mount, Restarting, WatcherEnds, WatcherStarts, vars
<1>5. ASSUME Watching PROVE Commit("watcher")
  BY <1>3, <1>5 DEF Watching, Deliver, TakeReady, WatcherCommits, WatcherFails, LockContent, Decide, Process
<1>6. ASSUME Scanning PROVE Commit("scanner")
  <2>1. ~ScanSweeps
    BY <1>1, <1>3, ScanSweepsStep
  <2>2. QED
    BY <1>3, <1>6, <2>1 DEF Scanning, ScanStarts, ScanCommits, ScanFails, ScanFindsNothing, ScanBreaks,
       ScanCompares, LockContent, Decide, ScanVisits
<1>7. ASSUME Uploading PROVE Commit("uploader")
  BY <1>3, <1>7 DEF Uploading, UploadCommits, UploadFails, LockContent, Decide, UploadStarts
<1>8. ~Deleting
  <2>1. ~DeleteCommits
    BY <1>1, <1>3, DeletedStored
  <2>2. QED
    BY <1>3, <2>1 DEF Deleting, DeleteFails, DeleteStarts
<1>9. ~Working
  BY <1>1, <1>3, WorkStep DEF Working
<1>10. QED
  BY <1>2, <1>4, <1>5, <1>6, <1>7, <1>8, <1>9 DEF Next

LEMMA NextOneOriginal ==
    ASSUME IInv, [Next]_vars, NEW r \in Ids, row[r] = None, row'[r] # None, row'[r].status = "pending"
    PROVE  \A o \in FindByContent(row'[r].content) : row[o].status = "missing"
<1>1. PICK a \in Actors : Commit(a)
  BY Newborn
<1>2. Typed /\ Consistent
  BY DEF IInv
<1>3. r \in Changed(job[a]) \ Stored
  BY <1>1, <1>2, Committed DEF Stored
<1>4. row'[r].content = job[a].content /\ job[a].changes[r].status = "pending"
  BY <1>1, <1>2, <1>3, Committed DEF Creates
<1>5. QED
  BY <1>1, <1>2, <1>3, <1>4, Committed DEF Alone

\* A content is registered as new by one of the actors only, and only while every
\* other recording of it is missing (ingest.py:247-249).
THEOREM OriginalsAlone == Spec => OneOriginal
<1>1. IInv /\ [Next]_vars =>
        [\A r \in Ids : row[r] = None /\ row'[r] # None /\ row'[r].status = "pending" =>
           \A o \in FindByContent(row'[r].content) : row[o].status = "missing"]_vars
  BY NextOneOriginal
<1>2. QED
  BY <1>1, Invariance, PTL DEF Spec, OneOriginal

-----------------------------------------------------------------------------
(* Sweeps.  What a scan has passed and not seen was gone at some moment, or *)
(* the folder was read as empty without its disk, which then came back.     *)

UploadPaths == Busy("uploader") => job["uploader"].path \in Uploads

Passed ==
    scan # None =>
        /\ \A p \in Watched : file[p] = None => p \in history.absent
        /\ \/ \A p \in Watched \ (scan.left \cup scan.seen) : p \in history.absent
           \/ scan.left = {} /\ scan.seen = {} /\ (history.back \/ ~mounted)
        /\ scan.left \cap scan.seen = {}
        /\ scan.step = "walk" => scan.gone = {}

\* Steps that are no part of the scan.
LEMMA Calm ==
    ASSUME Passed, SweptWasGone, scan' = scan,
           history.absent \subseteq history'.absent, history.back => history'.back,
           \A p \in Watched : file'[p] = None => file[p] = None \/ p \in history'.absent,
           mounted \/ ~mounted' \/ history'.back
    PROVE  Passed' /\ SweptWasGone'
<1>1. Passed'
  BY DEF Passed
<1>2. SweptWasGone'
  BY DEF SweptWasGone
<1>3. QED
  BY <1>1, <1>2

LEMMA HistoryStays ==
    ASSUME Typed, NEW e, NEW c, \/ history' = [history EXCEPT !.excused = e]
                                \/ history' = [history EXCEPT !.excused = e, !.raced = c]
                                \/ history' = history
    PROVE  history'.absent = history.absent /\ history'.back = history.back
<1>1. history \in Histories
  BY DEF Typed
<1>2. QED
  BY <1>1 DEF Histories

LEMMA SameUpload ==
    ASSUME UploadPaths, job'["uploader"] = job["uploader"]
    PROVE  UploadPaths'
BY DEF UploadPaths, Busy

LEMMA OthersUpload ==
    ASSUME UploadPaths, NEW a \in Actors, a # "uploader", Others(a)
    PROVE  UploadPaths'
<1>1. "uploader" \in Actors
  BY DEF Actors
<1>2. QED
  BY <1>1, SameUpload DEF Others

\* The watcher and the scanner have jobs of their own; an upload is to the upload folder.
LEMMA NextUploadPaths ==
    ASSUME Typed, UploadPaths, [Next]_vars
    PROVE  UploadPaths'
<1>1. /\ "watcher" \in Actors /\ "scanner" \in Actors /\ "uploader" \in Actors
      /\ {} \in SUBSET Ids /\ "scan" \in {"scan", "upload"}
  BY DEF Actors
<1>2. CASE Folder \/ Mount \/ Deleting \/ Working \/ UNCHANGED vars
  BY <1>2, SameUpload DEF Folder, Write, Remove, Rename, Edit, Mount, Deleting, DeleteCommits,
     DeleteFails, DeleteStarts, Working, Work, vars
<1>3. CASE Watching
  <2>1. CASE Deliver \/ TakeReady
    BY <2>1, SameUpload DEF Deliver, TakeReady
  <2>2. CASE WatcherCommits
    BY <1>1, <2>2, CommitStep, OthersUpload DEF WatcherCommits
  <2>3. CASE WatcherFails
    BY <1>1, <2>3, FailStep, OthersUpload DEF WatcherFails
  <2>4. CASE LockContent("watcher")
    BY <1>1, <2>4, LockContentStep, OthersUpload
  <2>5. CASE Decide("watcher")
    BY <1>1, <2>5, DecideStep, OthersUpload
  <2>6. ASSUME NEW p \in Watched, Process(p) PROVE UploadPaths'
    <3>1. CASE UNCHANGED job
      BY <3>1, SameUpload
    <3>2. CASE Visible(p) /\ Read("watcher", p, file[p], "scan", {})
      <4>1. p \in Paths /\ file[p] \in Files
        BY <3>2, Apart, FileThere
      <4>2. Others("watcher")
        BY <1>1, <3>2, <4>1, ReadStep
      <4>3. QED
        BY <1>1, <4>2, OthersUpload
    <3>3. QED
      BY <2>6, <3>1, <3>2 DEF Process
  <2>7. QED
    BY <1>3, <2>1, <2>2, <2>3, <2>4, <2>5, <2>6 DEF Watching
<1>4. CASE Restarting
  BY <1>4, SameUpload DEF Restarting, WatcherEnds, WatcherStarts, Typed, Actors
<1>5. CASE Scanning
  <2>1. CASE ScanCommits
    BY <1>1, <2>1, CommitStep, OthersUpload DEF ScanCommits
  <2>2. CASE ScanFails
    BY <1>1, <2>2, FailStep, OthersUpload DEF ScanFails
  <2>3. CASE LockContent("scanner")
    BY <1>1, <2>3, LockContentStep, OthersUpload
  <2>4. CASE Decide("scanner")
    BY <1>1, <2>4, DecideStep, OthersUpload
  <2>5. CASE ScanStarts \/ ScanFindsNothing \/ ScanBreaks \/ ScanCompares \/ ScanSweeps
    BY <2>5, SameUpload DEF ScanStarts, ScanFindsNothing, ScanBreaks, ScanCompares, ScanSweeps
  <2>6. ASSUME NEW p \in Watched, ScanVisits(p) PROVE UploadPaths'
    <3>1. CASE UNCHANGED job
      BY <3>1, SameUpload
    <3>2. CASE Visible(p) /\ Read("scanner", p, file[p], "scan", {})
      <4>1. p \in Paths /\ file[p] \in Files
        BY <3>2, Apart, FileThere
      <4>2. Others("scanner")
        BY <1>1, <3>2, <4>1, ReadStep
      <4>3. QED
        BY <1>1, <4>2, OthersUpload
    <3>3. QED
      BY <2>6, <3>1, <3>2 DEF ScanVisits
  <2>7. QED
    BY <1>5, <2>1, <2>2, <2>3, <2>4, <2>5, <2>6 DEF Scanning
<1>6. CASE Uploading
  <2>1. CASE UploadCommits
    <3>1. job'["uploader"] = None
      BY <1>1, <2>1, CommitStep DEF UploadCommits
    <3>2. QED
      BY <3>1 DEF UploadPaths, Busy
  <2>2. CASE UploadFails
    <3>1. job'["uploader"] = None
      BY <1>1, <2>2, FailStep DEF UploadFails
    <3>2. QED
      BY <3>1 DEF UploadPaths, Busy
  <2>3. CASE LockContent("uploader")
    BY <1>1, <2>3, LockContentStep DEF UploadPaths
  <2>4. CASE Decide("uploader")
    BY <1>1, <2>4, DecideStep DEF UploadPaths
  <2>5. ASSUME NEW p \in Uploads, NEW c \in Contents, UploadStarts(p, c) PROVE UploadPaths'
    <3>1. job'["uploader"].path = p
      BY <2>5, UploadStartsStep, ReadStep
    <3>2. QED
      BY <3>1 DEF UploadPaths
  <2>6. QED
    BY <1>6, <2>1, <2>2, <2>3, <2>4, <2>5 DEF Uploading
<1>7. QED
  BY <1>2, <1>3, <1>4, <1>5, <1>6 DEF Next

\* A set of pairs made of some rows is no larger than the set of rows.
LEMMA PairsCount ==
    ASSUME NEW rs \in SUBSET Ids, NEW f, f = [r \in rs |-> f[r]]
    PROVE  /\ Cardinality({f[r] : r \in rs}) <= Cardinality(rs)
           /\ Cardinality({f[r] : r \in rs}) \in Nat /\ Cardinality(rs) \in Nat
<1> DEFINE T == {f[r] : r \in rs}
<1>1. IsFiniteSet(rs)
  <2>1. 1 \in Int /\ MaxRows \in Int
    BY Apart
  <2>2. QED
    BY <2>1, FS_Interval, FS_Subset DEF Ids
<1>2. f \in Surjection(rs, T)
  BY DEF Surjection
<1>3. IsFiniteSet(T) /\ Cardinality(T) <= Cardinality(rs)
  BY <1>1, <1>2, FS_Surjection
<1>4. QED
  BY <1>1, <1>3, FS_CardinalityType

LEMMA ComparesSwept ==
    ASSUME Typed, Passed, ScanCompares
    PROVE  Passed' /\ SweptWasGone'
<1> DEFINE gone == {r \in Stored : row[r].current /\ row[r].status # "missing"
                                   /\ row[r].source = "scan" /\ row[r].path \in Watched \ scan.seen}
           swept == IF DeviceSeen THEN gone ELSE {}
           f == [r \in swept |-> <<r, row[r].path>>]
           pairs == {<<r, row[r].path>> : r \in swept}
<1>1. scan \in Scans /\ scan # None /\ scan.left = {}
  BY ScanThere DEF ScanCompares, Walking
<1>2. /\ scan' = IF scan.before # mounted \/ (scan.seen = {} /\ Cardinality(swept) > BlackoutMin)
                    \/ swept = {} THEN None
                 ELSE [scan EXCEPT !.step = "sweep", !.gone = pairs]
      /\ file' = file /\ mounted' = mounted /\ history' = history
  BY DEF ScanCompares, diskVars
<1>3. swept \subseteq Ids
  BY DEF Stored
<1>4. \A g \in pairs : g[2] \in Watched \ scan.seen
  OBVIOUS
<1>5. Cardinality(pairs) <= Cardinality(swept) /\ Cardinality(pairs) \in Nat /\ Cardinality(swept) \in Nat
  <2>1. pairs = {f[r] : r \in swept}
    OBVIOUS
  <2>2. f = [r \in swept |-> f[r]]
    OBVIOUS
  <2> HIDE DEF f, pairs, swept
  <2>3. QED
    BY <1>3, <2>1, <2>2, PairsCount
<1>6. swept # {} => mounted
  BY DEF DeviceSeen
<1>7. BlackoutMin \in Nat
  BY ConstantsOK
<1> HIDE DEF swept, pairs, f
<1>8. CASE scan' = None
  BY <1>8 DEF Passed, SweptWasGone
<1>9. CASE scan' # None
  <2>1. /\ scan' = [scan EXCEPT !.step = "sweep", !.gone = pairs] /\ swept # {}
        /\ ~(scan.seen = {} /\ Cardinality(swept) > BlackoutMin)
    BY <1>2, <1>9
  <2>2. scan'.step = "sweep" /\ scan'.gone = pairs /\ scan'.left = {} /\ scan'.seen = scan.seen
    BY <1>1, <2>1 DEF Scans
  <2>3. Passed'
    BY <1>1, <1>2, <2>2 DEF Passed
  <2>4. \/ \A g \in pairs : g[2] \in history.absent
        \/ history.back /\ Cardinality(pairs) <= BlackoutMin
    <3>1. CASE \A p \in Watched \ (scan.left \cup scan.seen) : p \in history.absent
      BY <1>1, <1>4, <3>1
    <3>2. CASE scan.seen = {} /\ (history.back \/ ~mounted)
      BY <1>5, <1>6, <1>7, <2>1, <3>2
    <3>3. QED
      BY <1>1, <3>1, <3>2 DEF Passed
  <2>5. QED
    BY <1>2, <2>2, <2>3, <2>4 DEF SweptWasGone
<1>10. QED
  BY <1>8, <1>9

LEMMA StartsSwept ==
    ASSUME Typed, ScanStarts
    PROVE  Passed' /\ SweptWasGone'
<1>1. /\ scan'.left = Watched /\ scan'.seen = {} /\ scan'.gone = {} /\ file' = file
  BY DEF ScanStarts, diskVars
<1>2. history'.absent = {p \in Watched : file[p] = None}
  <2> DEFINE gone == {p \in Watched : file[p] = None}
  <2>1. history \in Histories /\ history' = [history EXCEPT !.absent = gone, !.back = FALSE]
    BY DEF Typed, ScanStarts
  <2> HIDE DEF gone
  <2>2. history'.absent = gone
    BY <2>1 DEF Histories
  <2>3. QED
    BY <2>2 DEF gone
<1>3. Passed'
  BY <1>1, <1>2 DEF Passed
<1>4. SweptWasGone'
  BY <1>1 DEF SweptWasGone
<1>5. QED
  BY <1>3, <1>4

LEMMA VisitsSwept ==
    ASSUME Typed, Passed, NEW p \in Watched, ScanVisits(p)
    PROVE  Passed' /\ SweptWasGone'
<1>1. /\ scan \in Scans /\ scan # None /\ scan.step = "walk" /\ p \in scan.left /\ mounted
      /\ file' = file /\ mounted' = mounted /\ history' = history
  BY ScanThere DEF ScanVisits, Walking, diskVars
<1>2. /\ scan.gone = {} /\ \A q \in Watched : file[q] = None => q \in history.absent
      /\ scan.left \cap scan.seen = {}
      /\ \A q \in Watched \ (scan.left \cup scan.seen) : q \in history.absent
  BY <1>1 DEF Passed
<1>3. /\ scan'.left = scan.left \ {p} /\ scan'.gone = {}
      /\ scan'.seen = IF Visible(p) THEN scan.seen \cup {p} ELSE scan.seen
  <2>1. CASE Visible(p)
    <3>1. scan' = [scan EXCEPT !.left = scan.left \ {p}, !.seen = scan.seen \cup {p}]
      BY <2>1 DEF ScanVisits
    <3>2. QED
      BY <1>1, <1>2, <2>1, <3>1 DEF Scans
  <2>2. CASE ~Visible(p)
    <3>1. scan' = [scan EXCEPT !.left = scan.left \ {p}]
      BY <2>2 DEF ScanVisits
    <3>2. QED
      BY <1>1, <1>2, <2>2, <3>1 DEF Scans
  <2>3. QED
    BY <2>1, <2>2
<1>4. ~Visible(p) => p \in history.absent
  BY <1>1, <1>2 DEF Visible
<1>5. \A q \in Watched \ (scan'.left \cup scan'.seen) : q \in history'.absent
  BY <1>1, <1>2, <1>3, <1>4
<1>6. QED
  BY <1>1, <1>2, <1>3, <1>5 DEF Passed, SweptWasGone

LEMMA FindsNothingSwept ==
    ASSUME Typed, Passed, ScanFindsNothing
    PROVE  Passed' /\ SweptWasGone'
<1>1. /\ scan \in Scans /\ scan # None /\ scan.step = "walk" /\ scan.left = Watched /\ ~mounted
      /\ file' = file /\ mounted' = mounted /\ history' = history
      /\ scan' = [scan EXCEPT !.left = {}]
  BY ScanThere DEF ScanFindsNothing, Walking, diskVars
<1>2. scan'.left = {} /\ scan'.seen = scan.seen /\ scan'.gone = scan.gone
  BY <1>1 DEF Scans
<1>3. scan.gone = {} /\ scan.seen = {} /\ \A q \in Watched : file[q] = None => q \in history.absent
  BY <1>1 DEF Passed, Scans
<1>4. QED
  BY <1>1, <1>2, <1>3 DEF Passed, SweptWasGone

\* Most steps leave the watched files and the past of the scan alone.
LEMMA Untouched ==
    ASSUME Typed, Passed, SweptWasGone, scan' = scan, mounted' = mounted,
           \A p \in Watched : file'[p] = file[p],
           \E e, c : \/ history' = [history EXCEPT !.excused = e]
                    \/ history' = [history EXCEPT !.excused = e, !.raced = c]
                    \/ history' = history
    PROVE  Passed' /\ SweptWasGone'
<1>1. history'.absent = history.absent /\ history'.back = history.back
  BY HistoryStays
<1>2. QED
  BY <1>1, Calm

LEMMA FolderSwept ==
    ASSUME Typed, Passed, SweptWasGone, Folder
    PROVE  Passed' /\ SweptWasGone'
<1>1. ASSUME NEW files, NEW gone, Edit(files, gone),
             \A p \in Watched : files[p] = None => file[p] = None \/ p \in gone
      PROVE  Passed' /\ SweptWasGone'
  <2>1. /\ scan' = scan /\ mounted' = mounted /\ file' = files
        /\ history' = [history EXCEPT !.absent = history.absent \cup gone]
    BY <1>1 DEF Edit
  <2>2. history'.absent = history.absent \cup gone /\ history'.back = history.back
    BY <2>1 DEF Typed, Histories
  <2>3. \A p \in Watched : file'[p] = None => file[p] = None \/ p \in history'.absent
    BY <1>1, <2>1, <2>2
  <2>4. QED
    BY <2>1, <2>2, <2>3, Calm
<1>2. ASSUME NEW p \in Watched, NEW c \in Contents, Write(p, c) PROVE Passed' /\ SweptWasGone'
  <2>1. Stamped(c) # None
    BY <1>2, StampedType, Apart DEF Write, Edit
  <2> DEFINE files == [file EXCEPT ![p] = Stamped(c)]
  <2>2. \A q \in Watched : files[q] = None => file[q] = None
    BY <2>1, Apart DEF Typed
  <2>3. Edit(files, {})
    BY <1>2 DEF Write
  <2> HIDE DEF files
  <2>4. QED
    BY <1>1, <2>2, <2>3
<1>3. ASSUME NEW p \in Watched, Remove(p) PROVE Passed' /\ SweptWasGone'
  <2> DEFINE files == [file EXCEPT ![p] = None]
  <2>1. \A q \in Watched : files[q] = None => file[q] = None \/ q \in {p}
    BY Apart DEF Typed
  <2>2. Edit(files, {p})
    BY <1>3 DEF Remove
  <2> HIDE DEF files
  <2>3. QED
    BY <1>1, <2>1, <2>2
<1>4. ASSUME NEW p \in Watched, NEW q \in Watched, Rename(p, q) PROVE Passed' /\ SweptWasGone'
  <2> DEFINE files == [file EXCEPT ![p] = None, ![q] = Stamped(file[p].content)]
  <2>1. file[p].content \in Contents
    BY <1>4, Apart DEF Rename, Typed, Files
  <2>2. Stamped(file[p].content) # None
    BY <1>4, <2>1, StampedType, Apart DEF Rename, Edit
  <2>3. \A s \in Watched : files[s] = None => file[s] = None \/ s \in {p}
    BY <2>2, Apart DEF Typed
  <2>4. Edit(files, {p})
    BY <1>4 DEF Rename
  <2> HIDE DEF files
  <2>5. QED
    BY <1>1, <2>3, <2>4
<1>5. QED
  BY <1>2, <1>3, <1>4 DEF Folder

LEMMA MountSwept ==
    ASSUME Typed, Passed, SweptWasGone, Mount
    PROVE  Passed' /\ SweptWasGone'
<1>1. /\ scan' = scan /\ file' = file /\ mounted' = ~mounted
      /\ history' = [history EXCEPT !.back = history.back \/ ~mounted]
  BY DEF Mount
<1>2. history'.absent = history.absent /\ history'.back = (history.back \/ ~mounted)
  BY <1>1 DEF Typed, Histories
<1>3. QED
  BY <1>1, <1>2, Calm

LEMMA NextSwept ==
    ASSUME Typed, UploadPaths, Passed, SweptWasGone, [Next]_vars
    PROVE  Passed' /\ SweptWasGone'
<1>1. CASE Watching
  BY <1>1, Untouched DEF Watching, Deliver, TakeReady, WatcherCommits, Commit, WatcherFails,
     LockContent, Decide, Process, diskVars
<1>2. CASE Restarting
  BY <1>2, Untouched DEF Restarting, WatcherEnds, WatcherStarts, diskVars
<1>3. CASE Scanning
  <2>1. CASE ScanCommits \/ ScanFails \/ LockContent("scanner") \/ Decide("scanner")
    BY <2>1, Untouched DEF ScanCommits, Commit, ScanFails, LockContent, Decide, diskVars
  <2>2. CASE ScanBreaks \/ ScanSweeps
    BY <2>2 DEF ScanBreaks, ScanSweeps, Passed, SweptWasGone
  <2>3. QED
    BY <1>3, <2>1, <2>2, StartsSwept, ComparesSwept, VisitsSwept, FindsNothingSwept DEF Scanning
<1>4. CASE Uploading
  <2>1. CASE UploadCommits \/ LockContent("uploader") \/ Decide("uploader")
    BY <2>1, Untouched DEF UploadCommits, Commit, LockContent, Decide, diskVars
  <2>2. CASE UploadFails
    <3>1. job["uploader"].path \in Uploads
      BY <2>2 DEF UploadFails, Fail, UploadPaths
    <3>2. \A p \in Watched : file'[p] = file[p]
      BY <2>2, <3>1, Apart DEF UploadFails, Typed
    <3>3. QED
      BY <2>2, <3>2, Untouched DEF UploadFails
  <2>3. ASSUME NEW u \in Uploads, NEW c \in Contents, UploadStarts(u, c) PROVE Passed' /\ SweptWasGone'
    <3>1. \A p \in Watched : file'[p] = file[p]
      BY <2>3, Apart DEF UploadStarts, Typed
    <3>2. QED
      BY <2>3, <3>1, Untouched DEF UploadStarts
  <2>4. QED
    BY <1>4, <2>1, <2>2, <2>3 DEF Uploading
<1>5. CASE Deleting
  <2>1. CASE DeleteCommits \/ DeleteFails
    BY <2>1, Untouched DEF DeleteCommits, DeleteFails, diskVars
  <2>2. ASSUME NEW r \in Ids, DeleteStarts(r) PROVE Passed' /\ SweptWasGone'
    <3>1. file' = file \/ (row[r].path \in Uploads /\ file' = [file EXCEPT ![row[r].path] = None])
      BY <2>2 DEF DeleteStarts, Playable
    <3>2. \A p \in Watched : file'[p] = file[p]
      BY <3>1, Apart DEF Typed
    <3>3. QED
      BY <2>2, <3>2, Untouched DEF DeleteStarts
  <2>3. QED
    BY <1>5, <2>1, <2>2 DEF Deleting
<1>6. CASE Working \/ UNCHANGED vars
  BY <1>6, Untouched DEF Working, Work, vars, diskVars
<1>7. QED
  BY <1>1, <1>2, <1>3, <1>4, <1>5, <1>6, FolderSwept, MountSwept DEF Next

\* A scan is about to mark as missing only what had no file at some moment of it,
\* or else few recordings of a disk that came back meanwhile (ingest.py:406, 426-448).
THEOREM SweepsGone == Spec => []SweptWasGone
<1> DEFINE Inv == IInv /\ UploadPaths /\ Passed /\ SweptWasGone
<1>1. Init => Inv
  BY InitTyped, InitConsistent DEF IInv, Init, UploadPaths, Passed, SweptWasGone, Busy, Actors
<1>2. Inv /\ [Next]_vars => Inv'
  BY NextInv, NextUploadPaths, NextSwept DEF IInv
<1>3. QED
  BY <1>1, <1>2, PTL DEF Spec
=============================================================================
