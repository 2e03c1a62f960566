---------------------------- MODULE QuotaProofs -----------------------------
(***************************************************************************)
(* Theorems about Quota for every number of workers, requests and          *)
(* recordings, every limit and every window: type correctness, and that    *)
(* neither minutes nor bytes exceed what the limits promise.               *)
(***************************************************************************)
EXTENDS Quota, Sums

-----------------------------------------------------------------------------
(* The invariant. *)

\* A worker that has a recording at the runner finds it there, unless it is deleted.
Held ==
    \A w \in Workers : job[w] # None =>
        Is(job[w].recording, "transcribing") \/ Is(job[w].recording, "deleted")

\* And no other worker has it.
Alone ==
    \A v, w \in Workers :
        job[v] # None /\ job[w] # None /\ job[v].recording = job[w].recording => v = w

\* A recording of unknown length is at the runner only where nothing limits it.
Known == \A r \in Recordings : Is(r, "transcribing") => row[r].duration # None \/ row[r].free

\* The upload between its check and its registration, of which there is one, still has
\* the space it was promised.
Uploads == {r \in Stored : row[r].source = "upload"}
Reserved ==
    /\ \A u, x \in Requests : upload[u] # None /\ upload[x] # None => u = x
    /\ \A u \in Requests : upload[u] # None => Bytes(Uploads) + upload[u].size <= Space

Rowwise == TypeOK /\ Held /\ Alone /\ Known /\ NoFreeRide

-----------------------------------------------------------------------------
(* Rows and how they change. *)

\* A row is the record of its columns.
LEMMA RowFields ==
    ASSUME NEW x \in Rows
    PROVE  /\ x = [status |-> x.status, duration |-> x.duration, size |-> x.size,
                   source |-> x.source, free |-> x.free]
           /\ x.status \in Statuses /\ x.duration \in Durations /\ x.size \in Sizes
           /\ x.source \in {"scan", "upload"} /\ x.free \in BOOLEAN
BY DEF Rows

\* A row with other values in some of its columns is a row.
With(x, s, d, b) == [x EXCEPT !.status = s, !.duration = d, !.free = b]

LEMMA RowWith ==
    \A x \in Rows, s \in Statuses, d \in Durations, b \in BOOLEAN :
        /\ With(x, s, d, b) \in Rows
        /\ With(x, s, d, b).status = s
        /\ With(x, s, d, b).duration = d
        /\ With(x, s, d, b).free = b
        /\ With(x, s, d, b).size = x.size
        /\ With(x, s, d, b).source = x.source
<1> SUFFICES ASSUME NEW x \in Rows, NEW s \in Statuses, NEW d \in Durations, NEW b \in BOOLEAN,
                    NEW y, y = With(x, s, d, b)
             PROVE  /\ y \in Rows /\ y.status = s /\ y.duration = d /\ y.free = b
                    /\ y.size = x.size /\ y.source = x.source
  OBVIOUS
<1>1. x = [status |-> x.status, duration |-> x.duration, size |-> x.size,
           source |-> x.source, free |-> x.free]
  BY RowFields
<1>2. y = [status |-> s, duration |-> d, size |-> x.size, source |-> x.source, free |-> b]
  BY <1>1 DEF With
<1>3. QED
  BY <1>2, RowFields DEF Rows

\* A new recording is a row.
LEMMA NewType ==
    \A d \in Durations, size \in Sizes, source \in {"scan", "upload"} :
        /\ New(d, size, source) \in Rows
        /\ New(d, size, source).status = "pending"
        /\ New(d, size, source).duration = d
        /\ New(d, size, source).free = FALSE
        /\ New(d, size, source).size = size
        /\ New(d, size, source).source = source
BY DEF Rows, New, Statuses

\* The constants are distinct from NULL, and the lengths and sizes are numbers.
LEMMA Apart ==
    /\ None \notin Nat /\ None \notin Rows /\ None \notin Entries /\ None \notin Jobs
    /\ None \notin Files
    /\ Lengths \subseteq Nat \ {0} /\ Sizes \subseteq Nat \ {0} /\ Recordings \subseteq Nat
    /\ MaxMinutes \in Nat \ {0} /\ Limit \in Nat /\ MaxLimit \in Nat /\ Limit <= MaxLimit
    /\ Space \in Nat /\ Window \in Nat
BY ConstantsOK DEF Lengths, Sizes, Recordings

\* One recording gets another row.
LEMMA ReplacedRow ==
    ASSUME TypeOK, NEW r \in Recordings, NEW y \in Rows, row' = [row EXCEPT ![r] = y]
    PROVE  /\ row' \in [Recordings -> Rows \cup {None}]
           /\ row'[r] = y /\ row'[r] # None
           /\ \A q \in Recordings : q # r => row'[q] = row[q]
BY Apart DEF TypeOK

Touched(r, s, d, b) == row' = [row EXCEPT ![r] = With(row[r], s, d, b)]

LEMMA TouchedRow ==
    ASSUME TypeOK, NEW r \in Recordings, row[r] # None,
           NEW s \in Statuses, NEW d \in Durations, NEW b \in BOOLEAN, Touched(r, s, d, b)
    PROVE  /\ row' \in [Recordings -> Rows \cup {None}]
           /\ row'[r] \in Rows /\ row'[r] # None
           /\ row'[r].status = s /\ row'[r].duration = d /\ row'[r].free = b
           /\ row'[r].size = row[r].size /\ row'[r].source = row[r].source
           /\ \A q \in Recordings : q # r => row'[q] = row[q]
<1>1. row[r] \in Rows /\ row \in [Recordings -> Rows \cup {None}]
  BY DEF TypeOK
<1>2. PICK y \in Rows : y = With(row[r], s, d, b)
  BY <1>1, RowWith
<1>3. /\ y.status = s /\ y.duration = d /\ y.free = b
      /\ y.size = row[r].size /\ y.source = row[r].source
  BY <1>1, <1>2, RowWith
<1>4. row' = [row EXCEPT ![r] = y]
  BY <1>2 DEF Touched
<1>5. QED
  BY <1>3, <1>4, ReplacedRow

LEMMA AddedRow ==
    ASSUME TypeOK, NEW r \in Recordings, NEW d \in Durations, NEW size \in Sizes,
           NEW source \in {"scan", "upload"}, row' = [row EXCEPT ![r] = New(d, size, source)]
    PROVE  /\ row' \in [Recordings -> Rows \cup {None}]
           /\ row'[r] \in Rows /\ row'[r] # None
           /\ row'[r].status = "pending" /\ row'[r].duration = d /\ row'[r].free = FALSE
           /\ row'[r].size = size /\ row'[r].source = source
           /\ \A q \in Recordings : q # r => row'[q] = row[q]
<1>1. PICK y \in Rows : y = New(d, size, source)
  BY NewType
<1>2. /\ y.status = "pending" /\ y.duration = d /\ y.free = FALSE
      /\ y.size = size /\ y.source = source
  BY <1>1, NewType
<1>3. row' = [row EXCEPT ![r] = y]
  BY <1>1
<1>4. QED
  BY <1>2, <1>3, ReplacedRow

\* Each of the handlers that change one row: which columns, and to what.
LEMMA ReprobeTouches ==
    ASSUME TypeOK, NEW r \in Recordings, NEW d \in Durations, Reprobe(r, d)
    PROVE  \E b \in BOOLEAN : /\ Touched(r, row[r].status, d, b)
                              /\ b = (row[r].free \/ row[r].status = "transcribing")
<1> DEFINE x == row[r]
           b == x.free \/ x.status = "transcribing"
<1>1. x \in Rows /\ row \in [Recordings -> Rows \cup {None}]
  BY DEF TypeOK, Reprobe
<1>2. b \in BOOLEAN
  OBVIOUS
<1>3. row' = [row EXCEPT ![r].duration = d, ![r].free = b]
  BY DEF Reprobe
<1> HIDE DEF b
<1>4. [row EXCEPT ![r].duration = d, ![r].free = b] =
      [row EXCEPT ![r] = [x EXCEPT !.duration = d, !.free = b]]
  BY <1>1
<1>5. [x EXCEPT !.duration = d, !.free = b] =
      [x EXCEPT !.status = x.status, !.duration = d, !.free = b]
  BY <1>1 DEF Rows
<1>6. QED
  BY <1>2, <1>3, <1>4, <1>5 DEF Touched, With, b

\* The status of a recording changes, and nothing else of it.
LEMMA StatusTouches ==
    ASSUME TypeOK, NEW r \in Recordings, row[r] # None, NEW s,
           row' = [row EXCEPT ![r].status = s]
    PROVE  Touched(r, s, row[r].duration, row[r].free)
<1> DEFINE x == row[r]
<1>1. x \in Rows /\ row \in [Recordings -> Rows \cup {None}]
  BY DEF TypeOK
<1>2. row' = [row EXCEPT ![r] = [x EXCEPT !.status = s]]
  BY <1>1
<1>3. [x EXCEPT !.status = s] =
      [x EXCEPT !.status = s, !.duration = x.duration, !.free = x.free]
  BY <1>1 DEF Rows
<1>4. QED
  BY <1>2, <1>3 DEF Touched, With

LEMMA JudgeTouches ==
    ASSUME TypeOK, NEW w \in Workers, NEW r \in Recordings, NEW s, Judge(w, r, s)
    PROVE  \E b \in BOOLEAN : /\ Touched(r, s, row[r].duration, b)
                              /\ b = IF s = "transcribing" THEN quota = None ELSE row[r].free
<1> DEFINE x == row[r]
           b == IF s = "transcribing" THEN quota = None ELSE x.free
<1>1. x \in Rows /\ row \in [Recordings -> Rows \cup {None}]
  BY DEF TypeOK, Judge, Is
<1>2. b \in BOOLEAN
  BY <1>1, RowFields
<1>3. row' = [row EXCEPT ![r].status = s, ![r].free = b]
  BY DEF Judge
<1> HIDE DEF b
<1>4. [row EXCEPT ![r].status = s, ![r].free = b] =
      [row EXCEPT ![r] = [x EXCEPT !.status = s, !.free = b]]
  BY <1>1
<1>5. [x EXCEPT !.status = s, !.free = b] =
      [x EXCEPT !.status = s, !.duration = x.duration, !.free = b]
  BY <1>1 DEF Rows
<1>6. QED
  BY <1>2, <1>3, <1>4, <1>5 DEF Touched, With, b

LEMMA OutcomeTouches ==
    ASSUME TypeOK, NEW w \in Workers, job[w] # None, NEW s, NEW d, Outcome(w, s, d)
    PROVE  LET r == job[w].recording IN
           IF Is(r, "transcribing") THEN Touched(r, s, d, row[r].free) ELSE row' = row
<1> DEFINE r == job[w].recording
           x == row[r]
<1> SUFFICES ASSUME Is(r, "transcribing") PROVE Touched(r, s, d, x.free)
  BY DEF Outcome
<1>1. x \in Rows /\ row \in [Recordings -> Rows \cup {None}] /\ r \in Recordings
  BY DEF TypeOK, Is, Jobs
<1>2. row' = [row EXCEPT ![r].status = s, ![r].duration = d]
  BY DEF Outcome
<1> HIDE DEF r
<1>3. [row EXCEPT ![r].status = s, ![r].duration = d] =
      [row EXCEPT ![r] = [x EXCEPT !.status = s, !.duration = d]]
  BY <1>1
<1>4. [x EXCEPT !.status = s, !.duration = d] =
      [x EXCEPT !.status = s, !.duration = d, !.free = x.free]
  BY <1>1 DEF Rows
<1>5. QED
  BY <1>2, <1>3, <1>4 DEF Touched, With

-----------------------------------------------------------------------------
(* Each action keeps the types, the workers apart, and none transcribed for *)
(* nothing.                                                                *)

\* An action that changes no recording at the runner and makes none done, and leaves
\* the workers and the usage alone.
LEMMA QuietKeeps ==
    ASSUME Rowwise, NEW r \in Recordings, row' \in [Recordings -> Rows \cup {None}],
           row'[r] # None, \A q \in Recordings : q # r => row'[q] = row[q],
           \/ row'[r].status \notin {"transcribing", "done"} /\ ~Is(r, "transcribing") /\ ~Is(r, "deleted")
           \/ row'[r].status = "deleted"
           \/ /\ row[r] # None /\ row'[r].status = row[r].status /\ row[r].status # "done"
              /\ row[r].status = "transcribing" => row'[r].free,
           upload' \in [Requests -> Files \cup {None}],
           UNCHANGED <<ledger, job, quota>>
    PROVE  Rowwise'
<1> USE DEF Rowwise
<1>1. TypeOK'
  BY DEF TypeOK, Is
<1>2. Held'
  BY DEF Held, TypeOK, Jobs, Is
<1>3. Alone'
  BY DEF Alone
<1>4. Known'
  BY DEF Known, TypeOK, Is
<1>5. NoFreeRide'
  BY DEF NoFreeRide, TypeOK, Is
<1>6. QED
  BY <1>1, <1>2, <1>3, <1>4, <1>5

LEMMA ScanKeeps ==
    ASSUME Rowwise, NEW r \in Recordings, NEW d \in Durations, NEW size \in Sizes, Scan(r, d, size)
    PROVE  Rowwise'
<1> USE DEF Rowwise
<1>1. row[r] = None
  BY DEF Scan, IsNext
<1>2. /\ row' \in [Recordings -> Rows \cup {None}] /\ row'[r] # None
      /\ row'[r].status = "pending" /\ \A q \in Recordings : q # r => row'[q] = row[q]
  BY AddedRow DEF Scan
<1>3. upload' \in [Requests -> Files \cup {None}] /\ UNCHANGED <<ledger, job, quota>>
  BY DEF Scan, TypeOK
<1>4. QED
  BY <1>1, <1>2, <1>3, QuietKeeps DEF Is

LEMMA CommitKeeps ==
    ASSUME Rowwise, NEW u \in Requests, NEW r \in Recordings, UploadCommits(u, r)
    PROVE  Rowwise'
<1> USE DEF Rowwise
<1>1. row[r] = None
  BY DEF UploadCommits, IsNext
<1>2. upload[u].duration \in Durations /\ upload[u].size \in Sizes
  BY DEF UploadCommits, TypeOK, Files, Durations
<1>3. /\ row' \in [Recordings -> Rows \cup {None}] /\ row'[r] # None
      /\ row'[r].status = "pending" /\ \A q \in Recordings : q # r => row'[q] = row[q]
  BY <1>2, AddedRow DEF UploadCommits
<1>4. upload' \in [Requests -> Files \cup {None}] /\ UNCHANGED <<ledger, job, quota>>
  BY DEF UploadCommits, TypeOK
<1>5. QED
  BY <1>1, <1>3, <1>4, QuietKeeps DEF Is

LEMMA ReprobeKeeps ==
    ASSUME Rowwise, NEW r \in Recordings, NEW d \in Durations, Reprobe(r, d)
    PROVE  Rowwise'
<1> USE DEF Rowwise
<1>1. row[r] # None /\ row[r].status # "done" /\ row[r].status \in Statuses
  BY RowFields DEF Reprobe, TypeOK
<1>2. PICK b \in BOOLEAN : /\ Touched(r, row[r].status, d, b)
                           /\ b = (row[r].free \/ row[r].status = "transcribing")
  BY ReprobeTouches
<1>3. /\ row' \in [Recordings -> Rows \cup {None}] /\ row'[r] # None
      /\ row'[r].status = row[r].status /\ row'[r].free = b
      /\ \A q \in Recordings : q # r => row'[q] = row[q]
  BY <1>1, <1>2, TouchedRow
<1>4. row[r].status = "transcribing" => row'[r].free
  BY <1>2, <1>3
<1>5. upload' \in [Requests -> Files \cup {None}] /\ UNCHANGED <<ledger, job, quota>>
  BY DEF Reprobe, TypeOK
<1>6. QED
  BY <1>1, <1>3, <1>4, <1>5, QuietKeeps

\* A recording is given another status, not at the runner and not done.
LEMMA StatusKeeps ==
    ASSUME Rowwise, NEW r \in Recordings, NEW s \in Statuses \ {"transcribing", "done"},
           row[r] # None, row' = [row EXCEPT ![r].status = s],
           s = "deleted" \/ ~(Is(r, "transcribing") \/ Is(r, "deleted")),
           UNCHANGED <<ledger, job, upload, quota>>
    PROVE  Rowwise'
<1> USE DEF Rowwise
<1>1. row[r].duration \in Durations /\ row[r].free \in BOOLEAN
  BY RowFields DEF TypeOK
<1>2. /\ row' \in [Recordings -> Rows \cup {None}] /\ row'[r] # None
      /\ row'[r].status = s /\ \A q \in Recordings : q # r => row'[q] = row[q]
  <2>1. Touched(r, s, row[r].duration, row[r].free)
    BY StatusTouches, Zenon
  <2>2. QED
    BY <1>1, <2>1, TouchedRow
<1>3. upload' \in [Requests -> Files \cup {None}]
  BY DEF TypeOK
<1>4. QED
  BY <1>2, <1>3, QuietKeeps

LEMMA SteeringKeeps ==
    ASSUME Rowwise, Steering
    PROVE  Rowwise'
<1>1. ASSUME NEW r \in Recordings, Delete(r) PROVE Rowwise'
  BY <1>1, StatusKeeps DEF Delete, Statuses
<1>2. ASSUME NEW r \in Recordings, Retry(r) PROVE Rowwise'
  BY <1>2, StatusKeeps DEF Retry, Statuses, Is
<1>3. CASE Raise
  BY <1>3 DEF Raise, Rowwise, TypeOK, Held, Alone, Known, NoFreeRide, Is
<1>4. QED
  BY <1>1, <1>2, <1>3 DEF Steering

\* A recording that waited is held back, or refused.
LEMMA HoldKeeps ==
    ASSUME Rowwise, NEW w \in Workers, NEW r \in Recordings,
           NEW s \in {"quota_blocked", "error"}, Judge(w, r, s), UNCHANGED job
    PROVE  Rowwise'
<1> USE DEF Rowwise
<1>1. /\ Is(r, "pending") /\ row[r] # None /\ row[r].duration \in Durations
      /\ s \in Statuses /\ UNCHANGED <<ledger, upload, quota>>
  BY RowFields DEF Judge, Is, TypeOK, Statuses
<1>2. PICK b \in BOOLEAN : Touched(r, s, row[r].duration, b)
  BY JudgeTouches
<1>3. /\ row' \in [Recordings -> Rows \cup {None}] /\ row'[r] # None
      /\ row'[r].status = s /\ \A q \in Recordings : q # r => row'[q] = row[q]
  BY <1>1, <1>2, TouchedRow
<1>4. upload' \in [Requests -> Files \cup {None}]
  BY <1>1 DEF TypeOK
<1>5. QED
  BY <1>1, <1>3, <1>4, QuietKeeps DEF Is

LEMMA AdmitKeeps ==
    ASSUME Rowwise, NEW w \in Workers, NEW r \in Recordings, Admit(w, r)
    PROVE  Rowwise'
<1> USE DEF Rowwise
<1>1. /\ Is(r, "pending") /\ row[r] # None /\ row[r].duration \in Durations
      /\ "transcribing" \in Statuses /\ job[w] = None /\ UNCHANGED <<ledger, upload, quota>>
  BY RowFields DEF Admit, Judge, Is, TypeOK, Statuses, Free
<1>2. PICK b \in BOOLEAN : Touched(r, "transcribing", row[r].duration, b) /\ b = (quota = None)
  BY JudgeTouches DEF Admit
<1>3. /\ row' \in [Recordings -> Rows \cup {None}] /\ row'[r] # None
      /\ row'[r].status = "transcribing" /\ row'[r].duration = row[r].duration
      /\ row'[r].free = b /\ \A q \in Recordings : q # r => row'[q] = row[q]
  BY <1>1, <1>2, TouchedRow
<1>4. PICK j \in Jobs : j = [recording |-> r, age |-> 0]
  <2>1. 0 \in 0..(Window + 1)
    BY Apart
  <2>2. QED
    BY <2>1 DEF Jobs
<1>5. /\ job' = [job EXCEPT ![w] = j] /\ j.recording = r /\ j # None
  BY <1>4, Apart DEF Admit
<1>6. \A v \in Workers : job[v] # None => job[v].recording # r
  BY <1>1 DEF Held, Is
<1>7. /\ job' \in [Workers -> Jobs \cup {None}] /\ job'[w] = j
      /\ \A v \in Workers : v # w => job'[v] = job[v]
  BY <1>5 DEF TypeOK
<1>8. TypeOK'
  BY <1>1, <1>3, <1>5, <1>7 DEF TypeOK, Is
<1>9. Held' /\ Alone'
  BY <1>3, <1>5, <1>6, <1>7 DEF Held, Alone, TypeOK, Jobs, Is
<1>10. row'[r].duration # None \/ row'[r].free
  BY <1>2, <1>3 DEF Admit, AllowsMinutes
<1>11. Known'
  BY <1>3, <1>10 DEF Known, Is
<1>12. NoFreeRide'
  BY <1>1, <1>3 DEF NoFreeRide, Is
<1>13. QED
  BY <1>8, <1>9, <1>11, <1>12

\* A worker is rid of its recording, whose status changes unless it is deleted.
LEMMA LeaveKeeps ==
    ASSUME Rowwise, NEW w \in Workers, Leave(w), NEW r, r = job[w].recording,
           NEW s \in {"pending", "error", "done"}, NEW d \in Durations, Outcome(w, s, d),
           ledger' \in [Recordings -> Entries \cup {None}],
           \A q \in Recordings : q # r => ledger'[q] = ledger[q],
           s = "done" /\ Is(r, "transcribing") /\ ledger'[r] # None /\ ledger'[r].minutes = 0 => row[r].free
    PROVE  Rowwise'
<1> USE DEF Rowwise
<1>1. /\ job[w] # None /\ job[w] \in Jobs /\ r \in Recordings
      /\ row[r] # None /\ row[r] \in Rows /\ s \in Statuses
      /\ UNCHANGED <<upload, quota>>
  BY DEF Leave, TypeOK, Jobs, Held, Is, Statuses
<1>2. /\ job' \in [Workers -> Jobs \cup {None}] /\ job'[w] = None
      /\ \A v \in Workers : v # w => job'[v] = job[v]
  BY DEF Leave, TypeOK
<1>3. /\ row' \in [Recordings -> Rows \cup {None}] /\ row'[r] # None
      /\ \A q \in Recordings : q # r => row'[q] = row[q]
      /\ Is(r, "transcribing") => row'[r].status = s /\ row'[r].free = row[r].free
      /\ ~Is(r, "transcribing") => row' = row /\ Is(r, "deleted")
  <2>1. CASE Is(r, "transcribing")
    <3>1. Touched(r, s, d, row[r].free)
      BY <1>1, <2>1, OutcomeTouches
    <3>2. row[r].free \in BOOLEAN
      BY <1>1, RowFields
    <3>3. QED
      BY <1>1, <2>1, <3>1, <3>2, TouchedRow
  <2>2. CASE ~Is(r, "transcribing")
    <3>1. row' = row
      BY <1>1, <2>2, OutcomeTouches
    <3>2. Is(r, "deleted")
      BY <1>1, <2>2 DEF Held
    <3>3. QED
      BY <1>1, <2>2, <3>1, <3>2 DEF TypeOK
  <2>3. QED
    BY <2>1, <2>2
<1>4. TypeOK'
  BY <1>1, <1>2, <1>3 DEF TypeOK, Is
<1>5. Held'
  BY <1>1, <1>2, <1>3 DEF Held, Alone, TypeOK, Jobs, Is
<1>6. Alone'
  BY <1>2 DEF Alone
<1>7. Known'
  BY <1>1, <1>3 DEF Known, Is
<1>8. NoFreeRide'
  BY <1>1, <1>3 DEF NoFreeRide, Is
<1>9. QED
  BY <1>4, <1>5, <1>6, <1>7, <1>8

LEMMA BreakKeeps ==
    ASSUME Rowwise, NEW w \in Workers, Break(w) \/ Lose(w)
    PROVE  Rowwise'
<1> DEFINE r == job[w].recording
<1>1. /\ Leave(w) /\ ledger' = ledger /\ ledger \in [Recordings -> Entries \cup {None}]
      /\ \E s \in {"pending", "error"} : Outcome(w, s, row[r].duration)
  BY DEF Break, Lose, Rowwise, TypeOK
<1>2. row[r].duration \in Durations
  <2>1. job[w] \in Jobs /\ row[r] # None
    BY <1>1 DEF Rowwise, TypeOK, Held, Leave, Is
  <2>2. row[r] \in Rows
    BY <2>1 DEF Rowwise, TypeOK, Jobs
  <2>3. QED
    BY <2>2, RowFields
<1>3. PICK s \in {"pending", "error"} : Outcome(w, s, row[r].duration)
  BY <1>1
<1>4. QED
  <2>1. PICK q : q = r
    OBVIOUS
  <2> HIDE DEF r
  <2>2. PICK d \in Durations : d = row[r].duration
    BY <1>2
  <2>3. q = job[w].recording /\ Outcome(w, s, d)
    BY <1>3, <2>1, <2>2 DEF r
  <2>4. QED
    BY <1>1, <2>3, LeaveKeeps

\* What the runner measured is at least what it reached, and is unknown only where
\* nothing was said and the length was not known.
LEMMA ReachedType ==
    ASSUME NEW d \in Durations, NEW m \in 0..MaxMinutes
    PROVE  /\ Reached(d, m) \in Durations
           /\ Reached(d, m) = None => d = None
<1>1. MaxMinutes \in Nat /\ None \notin Nat
  BY Apart
<1>2. QED
  BY <1>1 DEF Reached, Durations, Lengths

\* The entry of a recording that the runner is done with.
LEMMA FinishEntry ==
    ASSUME Rowwise, NEW w \in Workers, NEW minute \in 0..MaxMinutes, Finish(w, minute)
    PROVE  LET r == job[w].recording IN
           /\ ledger' \in [Recordings -> Entries \cup {None}]
           /\ \A q \in Recordings : q # r => ledger'[q] = ledger[q]
           /\ \E d \in Durations : Outcome(w, "done", d)
           /\ Is(r, "transcribing") /\ ledger'[r] # None /\ ledger'[r].minutes = 0 => row[r].free
<1> DEFINE r == job[w].recording
           before == row[r].duration
           after == IF Is(r, "transcribing") THEN Reached(before, minute) ELSE before
           e == [minutes |-> IF after = None THEN 0 ELSE after, age |-> job[w].age]
<1>1. /\ job[w] \in Jobs /\ r \in Recordings /\ row[r] # None /\ row[r] \in Rows
      /\ job[w].age \in 0..(Window + 1)
  BY DEF Finish, Leave, Rowwise, TypeOK, Held, Is, Jobs
<1>2. before \in Durations
  BY <1>1, RowFields
<1>3. after \in Durations /\ (after = None => before = None)
  BY <1>2, ReachedType
<1>4. Outcome(w, "done", after)
  BY DEF Finish
<1>5. ledger' = [ledger EXCEPT ![r] = IF job[w].age > Window THEN None ELSE e]
  BY DEF Finish
<1>6. ledger \in [Recordings -> Entries \cup {None}]
  BY DEF Rowwise, TypeOK
<1>7. ~(job[w].age > Window) => e \in Entries
  <2>1. (IF after = None THEN 0 ELSE after) \in 0..MaxMinutes
    BY <1>3, Apart DEF Durations, Lengths
  <2>2. ~(job[w].age > Window) => job[w].age \in 0..Window
    BY <1>1, Apart
  <2> HIDE DEF after
  <2>3. QED
    BY <2>1, <2>2 DEF Entries
<1>8. ASSUME Is(r, "transcribing"), ledger'[r] # None, ledger'[r].minutes = 0
      PROVE  row[r].free
  <2>1. ledger'[r] = e
    BY <1>1, <1>5, <1>6, <1>8
  <2>2. e.minutes = IF after = None THEN 0 ELSE after
    OBVIOUS
  <2>3. after = None
    <3> HIDE DEF e, after
    <3>1. QED
      BY <1>3, <1>8, <2>1, <2>2, Apart DEF Durations
  <2>4. before = None
    BY <1>3, <2>3
  <2>5. QED
    BY <1>1, <1>8, <2>4 DEF Rowwise, Known
<1> HIDE DEF e, after
<1>9. /\ ledger' \in [Recordings -> Entries \cup {None}]
      /\ \A q \in Recordings : q # r => ledger'[q] = ledger[q]
  BY <1>1, <1>5, <1>6, <1>7
<1>10. QED
  BY <1>3, <1>4, <1>8, <1>9

LEMMA FinishKeeps ==
    ASSUME Rowwise, NEW w \in Workers, NEW minute \in 0..MaxMinutes, Finish(w, minute)
    PROVE  Rowwise'
<1>1. PICK d \in Durations : Outcome(w, "done", d)
  BY FinishEntry
<1>2. PICK r : r = job[w].recording
  OBVIOUS
<1>3. /\ ledger' \in [Recordings -> Entries \cup {None}]
      /\ \A q \in Recordings : q # r => ledger'[q] = ledger[q]
      /\ Is(r, "transcribing") /\ ledger'[r] # None /\ ledger'[r].minutes = 0 => row[r].free
  BY <1>2, FinishEntry
<1>4. Leave(w)
  BY DEF Finish
<1>5. QED
  BY <1>1, <1>2, <1>3, <1>4, LeaveKeeps

\* What is held back and fits waits again.
LEMMA ReleaseRows ==
    ASSUME TypeOK, Release
    PROVE  /\ row' \in [Recordings -> Rows \cup {None}]
           /\ \A q \in Recordings :
                 \/ row'[q] = row[q]
                 \/ /\ Is(q, "quota_blocked") /\ row'[q] # None /\ row'[q].status = "pending"
                    /\ row'[q].size = row[q].size /\ row'[q].source = row[q].source
<1> DEFINE y(q) == IF q \in Released THEN [row[q] EXCEPT !.status = "pending"] ELSE row[q]
<1>1. ASSUME NEW q \in Recordings
      PROVE  /\ y(q) \in Rows \cup {None}
             /\ \/ y(q) = row[q]
                \/ /\ Is(q, "quota_blocked") /\ y(q) # None /\ y(q).status = "pending"
                   /\ y(q).size = row[q].size /\ y(q).source = row[q].source
  <2>1. CASE q \notin Released
    BY <2>1 DEF TypeOK
  <2>2. CASE q \in Released
    <3> DEFINE x == row[q]
    <3>1. x \in Rows /\ Is(q, "quota_blocked")
      BY <2>2 DEF Released, Is, TypeOK
    <3>2. PICK z : z = With(x, "pending", x.duration, x.free)
      OBVIOUS
    <3>3. /\ z \in Rows /\ z.status = "pending" /\ z.size = x.size /\ z.source = x.source
      <4>1. x.duration \in Durations /\ x.free \in BOOLEAN
        BY <3>1, RowFields
      <4>2. "pending" \in Statuses
        BY DEF Statuses
      <4> HIDE DEF x
      <4>3. QED
        BY <3>1, <3>2, <4>1, <4>2, RowWith
    <3>4. [x EXCEPT !.status = "pending"] = With(x, "pending", x.duration, x.free)
      BY <3>1 DEF Rows, With
    <3>5. y(q) = z
      BY <2>2, <3>2, <3>4
    <3> HIDE DEF y
    <3>6. QED
      BY <3>1, <3>3, <3>5, Apart
  <2>3. QED
    BY <2>1, <2>2
<1>2. row' = [q \in Recordings |-> y(q)]
  BY DEF Release
<1> HIDE DEF y
<1>3. QED
  BY <1>1, <1>2

LEMMA ReleaseKeeps ==
    ASSUME Rowwise, Release
    PROVE  Rowwise'
<1> USE DEF Rowwise
<1>1. /\ row' \in [Recordings -> Rows \cup {None}]
      /\ \A q \in Recordings :
            \/ row'[q] = row[q]
            \/ Is(q, "quota_blocked") /\ row'[q] # None /\ row'[q].status = "pending"
      /\ UNCHANGED <<ledger, job, upload, quota>>
  BY ReleaseRows DEF Release
<1>2. TypeOK'
  BY <1>1 DEF TypeOK, Is
<1>3. Held'
  BY <1>1 DEF Held, TypeOK, Jobs, Is
<1>4. Alone'
  BY <1>1 DEF Alone
<1>5. Known' /\ NoFreeRide'
  BY <1>1 DEF Known, NoFreeRide, Is
<1>6. QED
  BY <1>2, <1>3, <1>4, <1>5

\* An hour later an entry is the same or gone, and a job the same.
LEMMA OlderEntry ==
    ASSUME NEW x \in Entries, x.age # Window
    PROVE  /\ Older(x, Window) \in Entries /\ Older(x, Window) # None
           /\ Older(x, Window).minutes = x.minutes
<1>1. PICK y : y = [minutes |-> x.minutes, age |-> x.age + 1]
  OBVIOUS
<1>2. x = [minutes |-> x.minutes, age |-> x.age] /\ x.minutes \in 0..MaxMinutes /\ x.age \in 0..Window
  BY DEF Entries
<1>3. x.age < Window /\ x.age + 1 \in 0..Window
  BY <1>2, Apart
<1>4. Older(x, Window) = y
  BY <1>1, <1>2, <1>3, Apart DEF Older
<1>5. y \in Entries /\ y.minutes = x.minutes
  BY <1>1, <1>2, <1>3 DEF Entries
<1>6. QED
  BY <1>4, <1>5, Apart

LEMMA OlderJob ==
    ASSUME NEW x \in Jobs
    PROVE  /\ Older(x, Window + 1) \in Jobs /\ Older(x, Window + 1) # None
           /\ Older(x, Window + 1).recording = x.recording
<1>1. x = [recording |-> x.recording, age |-> x.age] /\ x.recording \in Recordings
      /\ x.age \in 0..(Window + 1)
  BY DEF Jobs
<1>2. CASE x.age < Window + 1
  <2>1. PICK y : y = [recording |-> x.recording, age |-> x.age + 1]
    OBVIOUS
  <2>2. Older(x, Window + 1) = y
    BY <1>1, <1>2, <2>1, Apart DEF Older
  <2>3. x.age + 1 \in 0..(Window + 1)
    BY <1>1, <1>2, Apart
  <2>4. y \in Jobs /\ y.recording = x.recording
    BY <1>1, <2>1, <2>3 DEF Jobs
  <2>5. QED
    BY <2>2, <2>4, Apart
<1>3. CASE ~(x.age < Window + 1)
  <2>1. Older(x, Window + 1) = x
    BY <1>3, Apart DEF Older
  <2>2. QED
    BY <2>1, Apart
<1>4. QED
  BY <1>2, <1>3

LEMMA TickFacts ==
    ASSUME TypeOK, Tick
    PROVE  /\ ledger' \in [Recordings -> Entries \cup {None}]
           /\ \A r \in Recordings :
                 ledger'[r] # None => ledger[r] # None /\ ledger'[r].minutes = ledger[r].minutes
           /\ job' \in [Workers -> Jobs \cup {None}]
           /\ \A w \in Workers :
                 job[w] # None => job'[w] # None /\ job'[w].recording = job[w].recording
           /\ \A w \in Workers :
                 job'[w] # None => job[w] # None /\ job'[w].recording = job[w].recording
<1> DEFINE e(r) == IF r \in Billed /\ ledger[r].age = Window THEN None ELSE Older(ledger[r], Window)
           j(w) == Older(job[w], Window + 1)
<1>1. ledger' = [r \in Recordings |-> e(r)] /\ job' = [w \in Workers |-> j(w)]
  BY DEF Tick
<1>2. ASSUME NEW r \in Recordings
      PROVE  /\ e(r) \in Entries \cup {None}
             /\ e(r) # None => ledger[r] # None /\ e(r).minutes = ledger[r].minutes
  <2>1. CASE ledger[r] = None
    BY <2>1 DEF Older
  <2>2. CASE ledger[r] # None /\ ledger[r].age = Window
    BY <2>2 DEF Billed
  <2>3. CASE ledger[r] # None /\ ledger[r].age # Window
    <3>1. ledger[r] \in Entries
      BY <2>3 DEF TypeOK
    <3>2. e(r) = Older(ledger[r], Window)
      BY <2>3
    <3> HIDE DEF e
    <3>3. QED
      BY <2>3, <3>1, <3>2, OlderEntry
  <2>4. QED
    BY <2>1, <2>2, <2>3
<1>3. ASSUME NEW w \in Workers
      PROVE  /\ j(w) \in Jobs \cup {None}
             /\ job[w] # None => j(w) # None /\ j(w).recording = job[w].recording
             /\ j(w) # None => job[w] # None /\ j(w).recording = job[w].recording
  <2>1. CASE job[w] = None
    BY <2>1 DEF Older
  <2>2. CASE job[w] # None
    <3>1. job[w] \in Jobs
      BY <2>2 DEF TypeOK
    <3>2. QED
      BY <2>2, <3>1, OlderJob
  <2>3. QED
    BY <2>1, <2>2
<1> HIDE DEF e, j
<1>4. QED
  BY <1>1, <1>2, <1>3

LEMMA TickKeeps ==
    ASSUME Rowwise, Tick
    PROVE  Rowwise'
<1> USE DEF Rowwise
<1>1. UNCHANGED <<row, upload, quota>>
  BY DEF Tick
<1>2. /\ ledger' \in [Recordings -> Entries \cup {None}]
      /\ \A r \in Recordings :
            ledger'[r] # None => ledger[r] # None /\ ledger'[r].minutes = ledger[r].minutes
      /\ job' \in [Workers -> Jobs \cup {None}]
      /\ \A w \in Workers :
            job[w] # None => job'[w] # None /\ job'[w].recording = job[w].recording
      /\ \A w \in Workers :
            job'[w] # None => job[w] # None /\ job'[w].recording = job[w].recording
  BY TickFacts
<1>3. TypeOK'
  <2>1. ASSUME NEW r \in Recordings, Is(r, "transcribing")'
        PROVE  \E w \in Workers : job'[w] # None /\ job'[w].recording = r
    <3>1. PICK w \in Workers : job[w] # None /\ job[w].recording = r
      BY <1>1, <2>1 DEF TypeOK, Is
    <3>2. QED
      BY <1>2, <3>1
  <2>2. QED
    BY <1>1, <1>2, <2>1 DEF TypeOK
<1>4. Held'
  BY <1>1, <1>2 DEF Held, TypeOK, Jobs, Is
<1>5. Alone'
  BY <1>1, <1>2 DEF Alone
<1>6. Known' /\ NoFreeRide'
  BY <1>1, <1>2 DEF Known, NoFreeRide, Is
<1>7. QED
  BY <1>3, <1>4, <1>5, <1>6

LEMMA UploadKeeps ==
    ASSUME Rowwise, upload' \in [Requests -> Files \cup {None}], UNCHANGED <<row, ledger, job, quota>>
    PROVE  Rowwise'
<1>1. TypeOK'
  BY DEF Rowwise, TypeOK, Is
<1>2. Held' /\ Alone' /\ Known' /\ NoFreeRide'
  BY DEF Rowwise, Held, Alone, Known, NoFreeRide, Is
<1>3. QED
  BY <1>1, <1>2 DEF Rowwise

LEMMA RowwiseNext ==
    ASSUME Rowwise, Next
    PROVE  Rowwise'
<1>1. CASE Uploading
  <2>1. ASSUME NEW u \in Requests, NEW file \in Files, UploadChecks(u, file) PROVE Rowwise'
    <3>1. upload' \in [Requests -> Files \cup {None}] /\ UNCHANGED <<row, ledger, job, quota>>
      BY <2>1 DEF UploadChecks, Rowwise, TypeOK
    <3>2. QED
      BY <3>1, UploadKeeps
  <2>2. ASSUME NEW u \in Requests, UploadFails(u) PROVE Rowwise'
    <3>1. upload' \in [Requests -> Files \cup {None}] /\ UNCHANGED <<row, ledger, job, quota>>
      BY <2>2 DEF UploadFails, Rowwise, TypeOK
    <3>2. QED
      BY <3>1, UploadKeeps
  <2>3. QED
    BY <1>1, <2>1, <2>2, CommitKeeps DEF Uploading
<1>2. CASE Scanning
  BY <1>2, ScanKeeps DEF Scanning
<1>3. CASE Probing
  BY <1>3, ReprobeKeeps DEF Probing
<1>4. CASE Steering
  BY <1>4, SteeringKeeps
<1>5. CASE Working
  <2>1. ASSUME NEW w \in Workers, NEW r \in Recordings, Block(w, r) \/ Refuse(w, r) PROVE Rowwise'
    BY <2>1, HoldKeeps DEF Block, Refuse
  <2>2. QED
    BY <1>5, <2>1, AdmitKeeps, BreakKeeps, FinishKeeps, ReleaseKeeps DEF Working
<1>6. CASE Tick
  BY <1>6, TickKeeps
<1>7. QED
  BY <1>1, <1>2, <1>3, <1>4, <1>5, <1>6 DEF Next

LEMMA RowwiseInit == Init => Rowwise
<1> SUFFICES ASSUME Init PROVE Rowwise
  OBVIOUS
<1>1. TypeOK
  BY DEF Init, TypeOK, Is
<1>2. Held /\ Alone /\ Known /\ NoFreeRide
  BY DEF Init, Held, Alone, Known, NoFreeRide, Is
<1>3. QED
  BY <1>1, <1>2 DEF Rowwise

LEMMA RowwiseStutters == Rowwise /\ UNCHANGED vars => Rowwise'
BY DEF vars, Rowwise, TypeOK, Held, Alone, Known, NoFreeRide, Is

LEMMA RowwiseInvariant == Spec => []Rowwise
<1>1. Rowwise /\ [Next]_vars => Rowwise'
  BY RowwiseNext, RowwiseStutters
<1>2. QED
  BY <1>1, RowwiseInit, PTL DEF Spec

\* The types are kept, and what is at the runner is in the hands of a worker.
THEOREM TypeCorrect == Spec => []TypeOK
<1>1. Rowwise => TypeOK
  BY DEF Rowwise
<1>2. QED
  BY <1>1, RowwiseInvariant, PTL

\* Where there is a limit no recording is transcribed for nothing: a recording that
\* is done with no minutes entered was admitted without a limit, or its length was lost
\* while it was at the runner.
THEOREM NothingForNothing == Spec => []NoFreeRide
<1>1. Rowwise => NoFreeRide
  BY DEF Rowwise
<1>2. QED
  BY <1>1, RowwiseInvariant, PTL

-----------------------------------------------------------------------------
(* Minutes. *)

LEMMA RecordingsFinite == IsFiniteSet(Recordings)
BY ConstantsOK, FS_Interval DEF Recordings

\* What a recording counts is a number, within its length.
LEMMA MinutesType ==
    ASSUME TypeOK
    PROVE  /\ \A r \in Recordings : Minutes[r] \in 0..MaxMinutes /\ Minutes[r] \in Nat
           /\ SumFunctionOnSet(Minutes, Recordings) \in Nat
<1>1. ASSUME NEW r \in Recordings PROVE Minutes[r] \in 0..MaxMinutes /\ Minutes[r] \in Nat
  <2>1. Minutes[r] = IF ledger[r] = None THEN 0 ELSE ledger[r].minutes
    BY DEF Minutes
  <2>2. ledger[r] # None => ledger[r].minutes \in 0..MaxMinutes
    BY DEF TypeOK, Entries
  <2>3. QED
    BY <2>1, <2>2, Apart
<1>2. QED
  BY <1>1, RecordingsFinite, SumNat

\* What is not billed counts nothing.
LEMMA UsedIsSum ==
    ASSUME TypeOK
    PROVE  UsedMinutes = SumFunctionOnSet(Minutes, Recordings)
<1> DEFINE D == {T \in SUBSET Recordings : Billed \subseteq T =>
                    SumFunctionOnSet(Minutes, T) = SumFunctionOnSet(Minutes, Billed)}
<1>1. ASSUME NEW T \in SUBSET Recordings, \A U \in SUBSET T : U # T => U \in D
      PROVE  T \in D
  <2> SUFFICES ASSUME Billed \subseteq T, Billed # T
               PROVE  SumFunctionOnSet(Minutes, T) = SumFunctionOnSet(Minutes, Billed)
    OBVIOUS
  <2>1. PICK x \in T : x \notin Billed
    OBVIOUS
  <2>2. IsFiniteSet(T) /\ \A r \in T : Minutes[r] \in Nat
    BY RecordingsFinite, FS_Subset, MinutesType
  <2>3. Minutes[x] = 0
    BY <2>1 DEF Minutes, Billed
  <2> DEFINE Less == T \ {x}
  <2>4. SumFunctionOnSet(Minutes, T) = Minutes[x] + SumFunctionOnSet(Minutes, Less)
    BY <2>2, SumElement
  <2>5. Less \in SUBSET T /\ Less # T /\ Billed \subseteq Less
    BY <2>1
  <2>6. SumFunctionOnSet(Minutes, Less) = SumFunctionOnSet(Minutes, Billed)
    BY <1>1, <2>5
  <2>7. SumFunctionOnSet(Minutes, Less) \in Nat
    <3>1. IsFiniteSet(Less) /\ \A r \in Less : Minutes[r] \in Nat
      BY <2>2, FS_Subset
    <3> HIDE DEF Less
    <3>2. QED
      BY <3>1, SumNat
  <2>8. QED
    <3> HIDE DEF Less
    <3>1. QED
      BY <2>3, <2>4, <2>6, <2>7
<1>2. SUBSET Recordings \subseteq D
  <2> HIDE DEF D
  <2>1. QED
    BY <1>1, RecordingsFinite, SubsetInduction
<1>3. Billed \subseteq Recordings
  BY DEF Billed
<1>4. QED
  BY <1>2, <1>3 DEF UsedMinutes

LEMMA BusyFinite ==
    /\ Cardinality(Workers) \in Nat
    /\ IsFiniteSet(Busy) /\ Cardinality(Busy) \in Nat
    /\ Cardinality(Busy) <= Cardinality(Workers)
<1>1. Busy \in SUBSET Workers
  BY DEF Busy
<1>2. QED
  BY <1>1, ConstantsOK, FS_Subset, FS_CardinalityType

\* A product of which one factor grows by one.
LEMMA OneMore ==
    ASSUME NEW n \in Nat, NEW m \in Nat
    PROVE  (n + 1) * m = n * m + m /\ n * m \in Nat
OBVIOUS

\* More workers busy, no less of the bound is taken.
LEMMA ProductMonotonic ==
    ASSUME NEW n \in Nat, NEW k \in Nat, n <= k, NEW m \in Nat
    PROVE  n * m <= k * m
OBVIOUS

\* The bound, with the sum and the workers that are busy as variables.
Within(sum, busy, limit) ==
    limit # None => sum + busy * MaxMinutes < limit + Cardinality(Workers) * MaxMinutes

LEMMA WithinIs ==
    MinutesBounded <=> Within(SumFunctionOnSet(Minutes, Recordings), Cardinality(Busy), quota)
BY DEF MinutesBounded, Within

\* Steps that enter nothing and make no worker busy.
LEMMA MinutesFewer ==
    ASSUME TypeOK, TypeOK', MinutesBounded, Busy' \subseteq Busy,
           \A r \in Recordings : Minutes'[r] <= Minutes[r],
           quota' # None => quota # None /\ quota' >= quota
    PROVE  MinutesBounded'
<1> DEFINE f == Minutes
           g == Minutes'
           s == SumFunctionOnSet(f, Recordings)
           t == SumFunctionOnSet(g, Recordings)
           n == Cardinality(Busy)
           k == Cardinality(Busy')
<1>1. \A r \in Recordings : f[r] \in Nat /\ g[r] \in Nat /\ g[r] <= f[r]
  <2>1. \A r \in Recordings : Minutes[r] \in Nat
    BY MinutesType
  <2>2. ASSUME NEW r \in Recordings PROVE Minutes'[r] \in 0..MaxMinutes
    <3>1. Minutes'[r] = IF ledger'[r] = None THEN 0 ELSE ledger'[r].minutes
      BY DEF Minutes
    <3>2. ledger'[r] # None => ledger'[r].minutes \in 0..MaxMinutes
      BY DEF TypeOK, Entries
    <3>3. QED
      BY <3>1, <3>2, Apart
  <2>3. QED
    BY <2>1, <2>2, Apart
<1>2. s \in Nat /\ t \in Nat /\ t <= s
  <2> HIDE DEF f, g
  <2>1. QED
    BY <1>1, RecordingsFinite, SumNat, SumMonotonic
<1>3. n \in Nat /\ k \in Nat /\ k <= n
  BY BusyFinite, FS_Subset, FS_CardinalityType
<1>4. quota' # None => quota \in Nat /\ quota' \in Nat /\ quota' >= quota /\ quota # None
  BY Apart DEF TypeOK
<1>5. k * MaxMinutes <= n * MaxMinutes /\ n * MaxMinutes \in Nat /\ k * MaxMinutes \in Nat
      /\ Cardinality(Workers) * MaxMinutes \in Nat
  <2> HIDE DEF n, k
  <2>1. QED
    BY <1>3, Apart, BusyFinite, OneMore, ProductMonotonic
<1>6. Within(s, n, quota)
  BY WithinIs
<1>7. Within(t, k, quota')
  <2> HIDE DEF s, t, n, k
  <2>1. QED
    BY <1>2, <1>4, <1>5, <1>6 DEF Within
<1>8. QED
  BY <1>7 DEF MinutesBounded, Within

LEMMA SameLedgerFewer ==
    ASSUME TypeOK, TypeOK', MinutesBounded, UNCHANGED ledger, Busy' \subseteq Busy,
           quota' # None => quota # None /\ quota' >= quota
    PROVE  MinutesBounded'
<1>1. \A r \in Recordings : Minutes'[r] = Minutes[r] /\ Minutes[r] \in Nat
  BY MinutesType DEF Minutes
<1>2. \A r \in Recordings : Minutes'[r] <= Minutes[r]
  BY <1>1
<1>3. QED
  BY <1>2, MinutesFewer

\* Who is let through finds less than the limit used: its recording is no shorter than
\* a minute.
LEMMA AdmitMinutes ==
    ASSUME Rowwise, Rowwise', MinutesBounded, NEW w \in Workers, NEW r \in Recordings, Admit(w, r)
    PROVE  MinutesBounded'
<1> DEFINE s == SumFunctionOnSet(Minutes, Recordings)
           n == Cardinality(Busy)
<1>1. TypeOK /\ TypeOK'
  BY DEF Rowwise
<1>2. UNCHANGED <<ledger, quota>> /\ job[w] = None /\ AllowsMinutes(row[r].duration)
  BY DEF Admit, Judge, Free
<1>3. s \in Nat /\ UsedMinutes = s
  BY <1>1, MinutesType, UsedIsSum
<1>4. SumFunctionOnSet(Minutes, Recordings)' = s
  BY <1>2 DEF Minutes
<1>5. Busy' \subseteq Busy \cup {w} /\ w \notin Busy
  BY <1>1, <1>2 DEF Admit, Busy, TypeOK
<1>6. n \in Nat /\ Cardinality(Busy') \in Nat /\ Cardinality(Workers) \in Nat
      /\ Cardinality(Busy') <= n + 1 /\ n + 1 <= Cardinality(Workers)
  <2>1. IsFiniteSet(Busy \cup {w}) /\ Cardinality(Busy \cup {w}) = n + 1
    BY <1>5, BusyFinite, FS_AddElement
  <2>2. Busy \cup {w} \in SUBSET Workers /\ Busy' \in SUBSET (Busy \cup {w})
    BY <1>5 DEF Busy
  <2>3. Cardinality(Busy \cup {w}) <= Cardinality(Workers)
    BY <2>2, ConstantsOK, FS_Subset
  <2>4. IsFiniteSet(Busy') /\ Cardinality(Busy') <= Cardinality(Busy \cup {w})
    BY <2>1, <2>2, FS_Subset
  <2>5. Cardinality(Busy') \in Nat
    BY <2>4, FS_CardinalityType
  <2>6. QED
    BY <2>1, <2>3, <2>4, <2>5, BusyFinite
<1>7. quota # None => s < quota /\ quota \in Nat
  <2>1. SUFFICES ASSUME quota # None PROVE s < quota /\ quota \in Nat
    OBVIOUS
  <2>2. quota \in Nat
    BY <1>1, <2>1, Apart DEF TypeOK
  <2>3. row[r].duration # None /\ row[r].duration <= Left(quota, s)
    BY <1>2, <1>3, <2>1 DEF AllowsMinutes
  <2>4. row[r].duration \in Nat \ {0}
    <3>1. row[r] \in Rows
      BY <1>1 DEF TypeOK, Admit, Judge, Is
    <3>2. QED
      BY <2>3, <3>1, RowFields, Apart DEF Durations
  <2> HIDE DEF s
  <2>5. QED
    BY <1>3, <2>2, <2>3, <2>4 DEF Left
<1>8. Cardinality(Busy') * MaxMinutes <= Cardinality(Workers) * MaxMinutes
      /\ Cardinality(Busy') * MaxMinutes \in Nat /\ Cardinality(Workers) * MaxMinutes \in Nat
  <2>1. Cardinality(Busy') <= Cardinality(Workers)
    BY <1>6
  <2>2. QED
    BY <1>6, <2>1, Apart, OneMore, ProductMonotonic
<1>9. Within(s, Cardinality(Busy'), quota')
  <2> HIDE DEF s
  <2>1. QED
    BY <1>2, <1>3, <1>7, <1>8 DEF Within
<1>10. QED
  <2>1. MinutesBounded' <=> Within(SumFunctionOnSet(Minutes, Recordings)', Cardinality(Busy'), quota')
    BY DEF MinutesBounded, Within
  <2>2. QED
    BY <1>4, <1>9, <2>1

\* What is entered is no more than was kept for the worker.
LEMMA FinishMinutes ==
    ASSUME Rowwise, Rowwise', MinutesBounded, NEW w \in Workers, NEW minute \in 0..MaxMinutes,
           Finish(w, minute)
    PROVE  MinutesBounded'
<1> DEFINE r == job[w].recording
           f == Minutes
           g == Minutes'
           s == SumFunctionOnSet(f, Recordings)
           t == SumFunctionOnSet(g, Recordings)
           n == Cardinality(Busy)
           k == Cardinality(Busy')
<1>1. TypeOK /\ TypeOK' /\ Leave(w) /\ UNCHANGED quota /\ job[w] # None /\ r \in Recordings
  BY DEF Rowwise, Finish, Leave, TypeOK, Jobs
<1>2. \A q \in Recordings : q # r => ledger'[q] = ledger[q]
  BY FinishEntry
<1>3. \A q \in Recordings : f[q] \in 0..MaxMinutes /\ f[q] \in Nat
  BY <1>1, MinutesType
<1>4. \A q \in Recordings : g[q] \in 0..MaxMinutes /\ g[q] \in Nat
  <2>1. ASSUME NEW q \in Recordings PROVE g[q] \in 0..MaxMinutes /\ g[q] \in Nat
    <3>1. g[q] = IF ledger'[q] = None THEN 0 ELSE ledger'[q].minutes
      BY DEF Minutes
    <3>2. ledger'[q] # None => ledger'[q].minutes \in 0..MaxMinutes
      BY <1>1 DEF TypeOK, Entries
    <3> HIDE DEF g
    <3>3. QED
      BY <3>1, <3>2, Apart
  <2>2. QED
    BY <2>1
<1>5. \A q \in Recordings : q # r => f[q] = g[q]
  BY <1>2 DEF Minutes
<1>6. s \in Nat /\ t \in Nat /\ t <= s + MaxMinutes
  <2> HIDE DEF f, g, r
  <2>1. s \in Nat /\ t \in Nat
    BY <1>3, <1>4, RecordingsFinite, SumNat
  <2>2. t = s - f[r] + g[r]
    BY <1>1, <1>3, <1>4, <1>5, RecordingsFinite, SumUpdate
  <2>3. f[r] \in Nat /\ g[r] \in Nat /\ g[r] <= MaxMinutes
    BY <1>1, <1>3, <1>4, Apart
  <2> HIDE DEF s, t
  <2>4. QED
    BY <2>1, <2>2, <2>3, Apart
<1>7. w \in Busy /\ Busy' = Busy \ {w}
  BY <1>1 DEF Busy, Leave, TypeOK
<1>8. n \in Nat /\ k \in Nat /\ n = k + 1
  <2>1. IsFiniteSet(Busy) /\ n \in Nat
    BY BusyFinite
  <2>2. IsFiniteSet(Busy') /\ k = n - 1
    BY <1>7, <2>1, FS_RemoveElement
  <2>3. k \in Nat
    BY <2>2, FS_CardinalityType
  <2> HIDE DEF n, k
  <2>4. QED
    BY <2>1, <2>2, <2>3
<1>9. n * MaxMinutes = k * MaxMinutes + MaxMinutes /\ k * MaxMinutes \in Nat
      /\ Cardinality(Workers) * MaxMinutes \in Nat
  <2> HIDE DEF n, k
  <2>1. QED
    BY <1>8, Apart, BusyFinite, OneMore
<1>10. quota # None => quota \in Nat
  BY <1>1, Apart DEF TypeOK
<1>11. Within(t, k, quota')
  <2>1. Within(s, n, quota)
    BY WithinIs
  <2> HIDE DEF s, t, n, k
  <2>2. QED
    BY <1>1, <1>6, <1>9, <1>10, <2>1, Apart DEF Within
<1>12. QED
  BY <1>11 DEF MinutesBounded, Within

LEMMA QuotaKept ==
    ASSUME TypeOK, UNCHANGED quota
    PROVE  quota' # None => quota # None /\ quota' >= quota
BY Apart DEF TypeOK

LEMMA MinutesNext ==
    ASSUME Rowwise, Rowwise', MinutesBounded, [Next]_vars
    PROVE  MinutesBounded'
<1>0. TypeOK /\ TypeOK'
  BY DEF Rowwise
<1>1. CASE UNCHANGED <<ledger, job, quota>>
  <2>1. Busy' \subseteq Busy
    BY <1>1 DEF Busy
  <2>2. QED
    BY <1>0, <1>1, <2>1, QuotaKept, SameLedgerFewer
<1>2. CASE Raise
  <2>1. Busy' \subseteq Busy /\ UNCHANGED ledger
    BY <1>2 DEF Raise, Busy
  <2>2. quota' # None => quota # None /\ quota' >= quota
    BY <1>2, Apart DEF Raise
  <2>3. QED
    BY <1>0, <2>1, <2>2, SameLedgerFewer
<1>3. ASSUME NEW w \in Workers, Break(w) \/ Lose(w) PROVE MinutesBounded'
  <2>1. Busy' \subseteq Busy /\ UNCHANGED <<ledger, quota>>
    BY <1>0, <1>3 DEF Break, Lose, Leave, Busy, TypeOK
  <2>2. QED
    BY <1>0, <2>1, QuotaKept, SameLedgerFewer
<1>4. CASE Tick
  <2>1. Busy' \subseteq Busy /\ UNCHANGED quota
    BY <1>0, <1>4, TickFacts DEF Busy, Tick
  <2>2. ASSUME NEW r \in Recordings PROVE Minutes'[r] <= Minutes[r]
    <3>1. Minutes'[r] = IF ledger'[r] = None THEN 0 ELSE ledger'[r].minutes
      BY DEF Minutes
    <3>2. Minutes[r] = IF ledger[r] = None THEN 0 ELSE ledger[r].minutes
      BY DEF Minutes
    <3>3. ledger'[r] # None => ledger[r] # None /\ ledger'[r].minutes = ledger[r].minutes
      BY <1>0, <1>4, TickFacts
    <3>4. Minutes[r] \in Nat
      BY <1>0, MinutesType
    <3>5. QED
      BY <3>1, <3>2, <3>3, <3>4
  <2>3. QED
    BY <1>0, <2>1, <2>2, QuotaKept, MinutesFewer
<1>5. ASSUME NEW w \in Workers, NEW r \in Recordings, Admit(w, r) PROVE MinutesBounded'
  BY <1>5, AdmitMinutes
<1>6. ASSUME NEW w \in Workers, NEW minute \in 0..MaxMinutes, Finish(w, minute) PROVE MinutesBounded'
  BY <1>6, FinishMinutes
<1>7. QED
  <2>1. CASE Next
    <3>1. CASE Uploading \/ Scanning \/ Probing
      BY <1>1, <3>1 DEF Uploading, UploadChecks, UploadCommits, UploadFails, Scanning, Scan, Probing, Reprobe
    <3>2. CASE Steering
      BY <1>1, <1>2, <3>2 DEF Steering, Delete, Retry
    <3>3. CASE Working
      <4>1. ASSUME NEW w \in Workers, NEW r \in Recordings, Block(w, r) \/ Refuse(w, r)
            PROVE  MinutesBounded'
        BY <1>1, <4>1 DEF Block, Refuse, Judge
      <4>2. CASE Release
        BY <1>1, <4>2 DEF Release
      <4>3. QED
        BY <1>3, <1>5, <1>6, <3>3, <4>1, <4>2 DEF Working
    <3>4. QED
      BY <1>4, <2>1, <3>1, <3>2, <3>3 DEF Next
  <2>2. CASE UNCHANGED vars
    BY <1>1, <2>2 DEF vars
  <2>3. QED
    BY <2>1, <2>2

LEMMA MinutesInit == Init => MinutesBounded
<1> SUFFICES ASSUME Init PROVE MinutesBounded
  OBVIOUS
<1>1. \A r \in Recordings : Minutes[r] = 0
  BY DEF Init, Minutes
<1>2. SumFunctionOnSet(Minutes, Recordings) = 0
  <2> DEFINE D == {T \in SUBSET Recordings : SumFunctionOnSet(Minutes, T) = 0}
  <2>1. ASSUME NEW T \in SUBSET Recordings, \A U \in SUBSET T : U # T => U \in D
        PROVE  T \in D
    <3>1. CASE T = {}
      BY <3>1, SumEmpty
    <3>2. CASE T # {}
      <4>1. PICK x \in T : TRUE
        BY <3>2
      <4>2. IsFiniteSet(T) /\ \A r \in T : Minutes[r] \in Nat
        BY <1>1, RecordingsFinite, FS_Subset
      <4>3. SumFunctionOnSet(Minutes, T) = Minutes[x] + SumFunctionOnSet(Minutes, T \ {x})
        BY <4>2, SumElement
      <4>4. T \ {x} \in SUBSET T /\ T \ {x} # T
        OBVIOUS
      <4>5. QED
        BY <1>1, <2>1, <4>3, <4>4
    <3>3. QED
      BY <3>1, <3>2
  <2>2. SUBSET Recordings \subseteq D
    <3> HIDE DEF D
    <3>1. QED
      BY <2>1, RecordingsFinite, SubsetInduction
  <2>3. QED
    BY <2>2
<1>3. Cardinality(Busy) = 0
  <2>1. Busy = {}
    BY DEF Init, Busy
  <2>2. QED
    BY <2>1, FS_EmptySet
<1>4. Cardinality(Workers) * MaxMinutes > 0
  <2>1. Cardinality(Workers) \in Nat \ {0}
    BY ConstantsOK, BusyFinite, FS_EmptySet
  <2>2. PICK n \in Nat : Cardinality(Workers) = n + 1
    BY <2>1
  <2>3. (n + 1) * MaxMinutes = n * MaxMinutes + MaxMinutes /\ n * MaxMinutes \in Nat
    BY <2>2, Apart, OneMore
  <2>4. QED
    BY <2>2, <2>3, Apart
<1>5. quota # None => quota \in Nat
  BY Apart DEF Init
<1>6. 0 * MaxMinutes = 0 /\ Cardinality(Workers) * MaxMinutes \in Nat
  BY Apart, BusyFinite, OneMore
<1>7. Within(0, 0, quota)
  BY <1>4, <1>5, <1>6 DEF Within
<1>8. QED
  BY <1>2, <1>3, <1>7, WithinIs

\* The minutes of the window and those that the busy workers may still enter are less
\* than the limit and a recording for each worker, whoever checks and enters when.
THEOREM MinutesKept == Spec => []MinutesBounded
<1>1. Rowwise /\ MinutesBounded /\ [Next]_vars => Rowwise' /\ MinutesBounded'
  BY RowwiseNext, RowwiseStutters, MinutesNext
<1>2. Init => Rowwise /\ MinutesBounded
  BY RowwiseInit, MinutesInit
<1>3. QED
  BY <1>1, <1>2, PTL DEF Spec

-----------------------------------------------------------------------------
(* Bytes. *)

\* Nothing that is stored of the uploads is new or another size.
Shrinks == \A q \in Uploads' : q \in Uploads /\ row'[q].size = row[q].size

LEMMA UploadsType ==
    ASSUME TypeOK
    PROVE  /\ Uploads \in SUBSET Stored /\ Stored \in SUBSET Recordings
           /\ IsFiniteSet(Uploads) /\ IsFiniteSet(Stored)
           /\ \A q \in Stored : row[q].size \in Nat
           /\ Bytes(Uploads) \in Nat /\ Bytes(Stored) \in Nat /\ Bytes(Uploads) <= Bytes(Stored)
<1> DEFINE f == [q \in Stored |-> row[q].size]
           g == [q \in Uploads |-> row[q].size]
<1>1. Uploads \in SUBSET Stored /\ Stored \in SUBSET Recordings
  BY DEF Uploads, Stored
<1>2. IsFiniteSet(Uploads) /\ IsFiniteSet(Stored)
  BY <1>1, RecordingsFinite, FS_Subset
<1>3. \A q \in Stored : row[q].size \in Nat
  <2>1. \A q \in Stored : row[q] \in Rows
    BY DEF Stored, TypeOK
  <2>2. QED
    BY <2>1, RowFields, Apart
<1>4. \A q \in Stored : f[q] \in Nat
  BY <1>3
<1>5. \A q \in Uploads : g[q] \in Nat /\ g[q] = f[q]
  BY <1>1, <1>3
<1>6. Bytes(Uploads) = SumFunctionOnSet(g, Uploads) /\ Bytes(Stored) = SumFunctionOnSet(f, Stored)
  BY DEF Bytes
<1> HIDE DEF f, g
<1>7. SumFunctionOnSet(g, Uploads) = SumFunctionOnSet(f, Uploads)
  BY <1>2, <1>5, SumEqual
<1>8. SumFunctionOnSet(f, Uploads) <= SumFunctionOnSet(f, Stored)
  BY <1>1, <1>2, <1>4, SumSubset
<1>9. SumFunctionOnSet(g, Uploads) \in Nat /\ SumFunctionOnSet(f, Stored) \in Nat
  BY <1>2, <1>4, <1>5, SumNat
<1>10. QED
  BY <1>1, <1>2, <1>3, <1>6, <1>7, <1>8, <1>9

LEMMA BytesShrink ==
    ASSUME TypeOK, Shrinks
    PROVE  Bytes(Uploads)' \in Nat /\ Bytes(Uploads)' <= Bytes(Uploads)
<1> DEFINE f == [q \in Uploads |-> row[q].size]
           g == [q \in Uploads' |-> row'[q].size]
           U == Uploads'
<1>1. IsFiniteSet(Uploads) /\ \A q \in Uploads : f[q] \in Nat
  BY UploadsType
<1>2. U \in SUBSET Uploads
  BY DEF Shrinks
<1>3. \A q \in U : g[q] = f[q] /\ f[q] \in Nat /\ g[q] \in Nat
  BY <1>1, <1>2 DEF Shrinks
<1>4. Bytes(Uploads) = SumFunctionOnSet(f, Uploads) /\ Bytes(Uploads)' = SumFunctionOnSet(g, U)
  BY DEF Bytes
<1> HIDE DEF f, g, U
<1>5. IsFiniteSet(U)
  BY <1>1, <1>2, FS_Subset
<1>6. SumFunctionOnSet(g, U) = SumFunctionOnSet(f, U) /\ SumFunctionOnSet(g, U) \in Nat
  BY <1>3, <1>5, SumEqual, SumNat
<1>7. SumFunctionOnSet(f, U) <= SumFunctionOnSet(f, Uploads)
  BY <1>1, <1>2, SumSubset
<1>8. QED
  BY <1>4, <1>6, <1>7

\* Of the steps that neither check nor register an upload.
LEMMA ShrinksKeep ==
    ASSUME TypeOK, Reserved, StorageKept, Shrinks,
           \A u \in Requests : upload'[u] # None => upload[u] # None /\ upload'[u] = upload[u]
    PROVE  Reserved' /\ StorageKept'
<1>1. Bytes(Uploads) \in Nat /\ Bytes(Uploads)' \in Nat /\ Bytes(Uploads)' <= Bytes(Uploads)
  BY UploadsType, BytesShrink
<1>2. Bytes(Uploads) <= Space
  BY DEF StorageKept, Uploads
<1>3. Bytes(Uploads)' <= Space
  BY <1>1, <1>2, Apart
<1>4. StorageKept'
  BY <1>3 DEF StorageKept, Uploads
<1>5. ASSUME NEW u \in Requests, upload'[u] # None
      PROVE  Bytes(Uploads)' + upload'[u].size <= Space
  <2>1. upload[u] \in Files /\ upload'[u] = upload[u]
    BY <1>5 DEF TypeOK
  <2>2. upload[u].size \in Nat
    BY <2>1, Apart DEF Files
  <2>3. Bytes(Uploads) + upload[u].size <= Space
    BY <1>5 DEF Reserved
  <2>4. QED
    BY <1>1, <2>1, <2>2, <2>3, Apart
<1>6. \A u, x \in Requests : upload'[u] # None /\ upload'[x] # None => u = x
  BY DEF Reserved
<1>7. QED
  BY <1>4, <1>5, <1>6 DEF Reserved

LEMMA TouchedShrinks ==
    ASSUME TypeOK, NEW r \in Recordings, row[r] # None,
           NEW s \in Statuses, NEW d \in Durations, NEW b \in BOOLEAN, Touched(r, s, d, b),
           s = "deleted" \/ row[r].status # "deleted"
    PROVE  Shrinks
<1>1. /\ row'[r].status = s
      /\ row'[r].size = row[r].size /\ row'[r].source = row[r].source
      /\ \A q \in Recordings : q # r => row'[q] = row[q]
  BY TouchedRow
<1>2. QED
  BY <1>1 DEF Shrinks, Uploads, Stored

LEMMA SameShrinks == UNCHANGED row => Shrinks
BY DEF Shrinks, Uploads, Stored

\* What passes the check fits beside what is stored.
LEMMA ChecksReserve ==
    ASSUME TypeOK, Reserved, StorageKept, NEW u \in Requests, NEW file \in Files, UploadChecks(u, file)
    PROVE  Reserved' /\ StorageKept'
<1>1. UNCHANGED row /\ \A x \in Requests : upload[x] = None
  BY DEF UploadChecks, UploadLocked
<1>2. upload'[u] = file /\ \A x \in Requests : x # u => upload'[x] = None
  BY <1>1 DEF UploadChecks, TypeOK
<1>3. Bytes(Uploads)' = Bytes(Uploads)
  BY <1>1 DEF Bytes, Uploads, Stored
<1>4. StorageKept'
  BY <1>1 DEF StorageKept, Bytes, Stored
<1>5. Bytes(Uploads) + file.size <= Space
  <2>1. file.size \in Nat \ {0}
    BY Apart DEF Files
  <2>2. file.size <= Left(Space, Bytes(Stored))
    BY DEF UploadChecks, AllowsBytes
  <2>3. Bytes(Uploads) \in Nat /\ Bytes(Stored) \in Nat /\ Bytes(Uploads) <= Bytes(Stored)
    BY UploadsType
  <2>4. QED
    BY <2>1, <2>2, <2>3, Apart DEF Left
<1>6. QED
  BY <1>2, <1>3, <1>4, <1>5 DEF Reserved

\* What is registered takes the space that was promised to it.
LEMMA CommitStores ==
    ASSUME TypeOK, Reserved, StorageKept, NEW u \in Requests, NEW r \in Recordings, UploadCommits(u, r)
    PROVE  Reserved' /\ StorageKept'
<1>1. /\ upload[u] # None /\ upload[u] \in Files /\ row[r] = None
      /\ upload' = [upload EXCEPT ![u] = None]
      /\ row' = [row EXCEPT ![r] = New(upload[u].duration, upload[u].size, "upload")]
  BY DEF UploadCommits, IsNext, TypeOK
<1>2. PICK d \in Durations, size \in Sizes : d = upload[u].duration /\ size = upload[u].size
  BY <1>1 DEF Files, Durations
<1>3. row' = [row EXCEPT ![r] = New(d, size, "upload")]
  BY <1>1, <1>2
<1>4. /\ row'[r] # None /\ row'[r].status = "pending" /\ row'[r].size = size
      /\ row'[r].source = "upload" /\ \A q \in Recordings : q # r => row'[q] = row[q]
  BY <1>3, AddedRow
<1>5. \A x \in Requests : upload'[x] = None
  BY <1>1 DEF Reserved, TypeOK
<1>6. Uploads' = Uploads \cup {r} /\ r \notin Uploads
  BY <1>1, <1>4 DEF Uploads, Stored
<1>7. Bytes(Uploads)' = Bytes(Uploads) + size
  <2> DEFINE f == [q \in Uploads |-> row[q].size]
             g == [q \in Uploads' |-> row'[q].size]
             U == Uploads'
  <2>1. IsFiniteSet(Uploads) /\ \A q \in Uploads : row[q].size \in Nat
    BY UploadsType
  <2>2. size \in Nat
    BY Apart
  <2>3. IsFiniteSet(U) /\ r \in U /\ U \ {r} = Uploads
    BY <1>6, <2>1, FS_AddElement
  <2>4. \A q \in U : g[q] \in Nat
    BY <1>4, <1>6, <2>1, <2>2 DEF Uploads, Stored
  <2>5. g[r] = size
    BY <1>4, <1>6
  <2>6. \A q \in Uploads : f[q] \in Nat /\ f[q] = g[q]
    BY <1>4, <1>6, <2>1 DEF Uploads, Stored
  <2>7. Bytes(Uploads) = SumFunctionOnSet(f, Uploads) /\ Bytes(Uploads)' = SumFunctionOnSet(g, U)
    BY DEF Bytes
  <2> HIDE DEF f, g, U
  <2>8. SumFunctionOnSet(g, U) = g[r] + SumFunctionOnSet(g, Uploads)
    BY <2>3, <2>4, SumElement
  <2>9. SumFunctionOnSet(f, Uploads) = SumFunctionOnSet(g, Uploads) /\ SumFunctionOnSet(f, Uploads) \in Nat
    BY <2>1, <2>6, SumEqual, SumNat
  <2>10. QED
    BY <2>2, <2>5, <2>7, <2>8, <2>9
<1>8. Bytes(Uploads)' <= Space
  BY <1>1, <1>2, <1>7 DEF Reserved
<1>9. QED
  BY <1>5, <1>8 DEF Reserved, StorageKept, Uploads

\* No other step stores more of the uploads.
LEMMA RowsShrink ==
    ASSUME Rowwise, Scanning \/ Probing \/ Steering \/ Working \/ Tick
    PROVE  Shrinks /\ UNCHANGED upload
<1>1. TypeOK
  BY DEF Rowwise
<1>2. ASSUME NEW r \in Recordings, NEW d \in Durations, NEW size \in Sizes, Scan(r, d, size)
      PROVE  Shrinks
  <2>1. /\ row'[r].source = "scan" /\ \A q \in Recordings : q # r => row'[q] = row[q]
    BY <1>1, <1>2, AddedRow DEF Scan
  <2>2. QED
    BY <2>1 DEF Shrinks, Uploads, Stored
<1>3. ASSUME NEW r \in Recordings, NEW d \in Durations, Reprobe(r, d) PROVE Shrinks
  <2>1. row[r] # None /\ row[r].status # "deleted" /\ row[r].status \in Statuses
    BY <1>1, <1>3, RowFields DEF Reprobe, TypeOK
  <2>2. PICK b \in BOOLEAN : Touched(r, row[r].status, d, b)
    BY <1>1, <1>3, ReprobeTouches
  <2>3. QED
    BY <1>1, <2>1, <2>2, TouchedShrinks
<1>4. ASSUME NEW r \in Recordings, NEW s \in Statuses, row[r] # None,
             row' = [row EXCEPT ![r].status = s], s = "deleted" \/ row[r].status # "deleted"
      PROVE  Shrinks
  <2>1. row[r].duration \in Durations /\ row[r].free \in BOOLEAN
    BY <1>1, <1>4, RowFields DEF TypeOK
  <2>2. Touched(r, s, row[r].duration, row[r].free)
    BY <1>1, <1>4, StatusTouches, Zenon
  <2>3. QED
    BY <1>1, <1>4, <2>1, <2>2, TouchedShrinks
<1>5. CASE Steering
  <2>1. ASSUME NEW r \in Recordings, Delete(r) PROVE Shrinks
    BY <1>4, <2>1 DEF Delete, Statuses
  <2>2. ASSUME NEW r \in Recordings, Retry(r) PROVE Shrinks
    BY <1>4, <2>2 DEF Retry, Statuses, Is
  <2>3. QED
    BY <1>5, <2>1, <2>2, SameShrinks DEF Steering, Raise, Delete, Retry
<1>6. ASSUME NEW w \in Workers, NEW r \in Recordings, NEW s \in Statuses, Judge(w, r, s)
      PROVE  Shrinks
  <2>1. row[r] # None /\ row[r].status # "deleted" /\ row[r].duration \in Durations
    BY <1>1, <1>6, RowFields DEF Judge, Is, TypeOK
  <2>2. PICK b \in BOOLEAN : Touched(r, s, row[r].duration, b)
    BY <1>1, <1>6, JudgeTouches
  <2>3. QED
    BY <1>1, <2>1, <2>2, TouchedShrinks
<1>7. ASSUME NEW w \in Workers, job[w] # None, NEW s \in Statuses, NEW d \in Durations, Outcome(w, s, d)
      PROVE  Shrinks
  <2>1. PICK r \in Recordings : r = job[w].recording
    BY <1>1, <1>7 DEF TypeOK, Jobs
  <2>2. CASE Is(r, "transcribing")
    <3>1. Touched(r, s, d, row[r].free)
      BY <1>1, <1>7, <2>1, <2>2, OutcomeTouches
    <3>2. row[r] # None /\ row[r].status # "deleted" /\ row[r].free \in BOOLEAN
      BY <1>1, <2>2, RowFields DEF Is, TypeOK
    <3>3. QED
      BY <1>1, <1>7, <3>1, <3>2, TouchedShrinks
  <2>3. CASE ~Is(r, "transcribing")
    BY <1>1, <1>7, <2>1, <2>3, OutcomeTouches, SameShrinks
  <2>4. QED
    BY <2>2, <2>3
<1>8. ASSUME NEW w \in Workers, Break(w) \/ Lose(w) PROVE Shrinks
  <2>1. job[w] # None /\ row[job[w].recording].duration \in Durations
    <3>1. job[w] # None /\ row[job[w].recording] \in Rows
      BY <1>8 DEF Break, Lose, Leave, Rowwise, TypeOK, Held, Is, Jobs
    <3>2. QED
      BY <3>1, RowFields
  <2>2. \E s \in {"pending", "error"} : Outcome(w, s, row[job[w].recording].duration)
    BY <1>8 DEF Break, Lose
  <2>3. PICK d \in Durations, s \in {"pending", "error"} : Outcome(w, s, d)
    BY <2>1, <2>2
  <2>4. s \in Statuses
    BY DEF Statuses
  <2>5. QED
    BY <1>7, <2>1, <2>3, <2>4
<1>9. ASSUME NEW w \in Workers, NEW minute \in 0..MaxMinutes, Finish(w, minute) PROVE Shrinks
  <2>1. PICK d \in Durations : Outcome(w, "done", d)
    BY <1>9, FinishEntry
  <2>2. job[w] # None /\ "done" \in Statuses
    BY <1>9 DEF Finish, Leave, Statuses
  <2>3. QED
    BY <1>7, <2>1, <2>2
<1>10. CASE Working
  <2>1. ASSUME Release PROVE Shrinks
    BY <1>1, <2>1, ReleaseRows DEF Shrinks, Uploads, Stored, Is
  <2>2. ASSUME NEW w \in Workers, NEW r \in Recordings, Admit(w, r) \/ Block(w, r) \/ Refuse(w, r)
        PROVE  Shrinks
    BY <1>6, <2>2 DEF Admit, Block, Refuse, Statuses
  <2>3. Shrinks
    BY <1>8, <1>9, <1>10, <2>1, <2>2 DEF Working
  <2>4. UNCHANGED upload
    BY <1>10 DEF Working, Admit, Block, Refuse, Judge, Break, Lose, Finish, Leave, Release
  <2>5. QED
    BY <2>3, <2>4
<1>11. CASE Scanning \/ Probing \/ Tick
  BY <1>2, <1>3, <1>11, SameShrinks DEF Scanning, Scan, Probing, Reprobe, Tick
<1>12. UNCHANGED upload
  BY <1>10, <1>11 DEF Steering, Raise, Delete, Retry
<1>13. QED
  BY <1>5, <1>10, <1>11, <1>12

LEMMA StorageNext ==
    ASSUME Rowwise, Reserved, StorageKept, [Next]_vars
    PROVE  Reserved' /\ StorageKept'
<1>1. TypeOK
  BY DEF Rowwise
<1>2. CASE Uploading
  <2>1. ASSUME NEW u \in Requests, UploadFails(u) PROVE Reserved' /\ StorageKept'
    <3>1. Shrinks
      BY <2>1, SameShrinks DEF UploadFails
    <3>2. \A x \in Requests : upload'[x] # None => upload[x] # None /\ upload'[x] = upload[x]
      BY <1>1, <2>1 DEF UploadFails, TypeOK
    <3>3. QED
      BY <1>1, <3>1, <3>2, ShrinksKeep
  <2>2. QED
    BY <1>1, <1>2, <2>1, ChecksReserve, CommitStores DEF Uploading
<1>3. CASE Scanning \/ Probing \/ Steering \/ Working \/ Tick
  BY <1>1, <1>3, RowsShrink, ShrinksKeep
<1>4. CASE UNCHANGED vars
  BY <1>1, <1>4, SameShrinks, ShrinksKeep DEF vars
<1>5. QED
  BY <1>2, <1>3, <1>4 DEF Next

LEMMA StorageInit == Init => Reserved /\ StorageKept
<1> SUFFICES ASSUME Init PROVE Reserved /\ StorageKept
  OBVIOUS
<1>1. Uploads = {}
  BY DEF Init, Uploads, Stored
<1>2. Bytes(Uploads) = 0
  BY <1>1, SumEmpty DEF Bytes
<1>3. StorageKept
  BY <1>2, Apart DEF StorageKept, Uploads
<1>4. QED
  BY <1>3 DEF Init, Reserved

\* Uploads never store more than there is space for: each is checked and registered
\* before the next one is checked, and nothing else adds to what they have stored.
THEOREM SpaceKept == Spec => []StorageKept
<1>1. Rowwise /\ Reserved /\ StorageKept /\ [Next]_vars => Rowwise' /\ Reserved' /\ StorageKept'
  BY RowwiseNext, RowwiseStutters, StorageNext
<1>2. Init => Rowwise /\ Reserved /\ StorageKept
  BY RowwiseInit, StorageInit
<1>3. QED
  BY <1>1, <1>2, PTL DEF Spec
=============================================================================
