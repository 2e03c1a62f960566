------------------------------ MODULE FairQueue ------------------------------
(***************************************************************************)
(* The order in which workers take recordings (worker.py, claim_next):     *)
(* workspaces take turns by the time they were last served, and inside a   *)
(* workspace transcription comes before enrichment and new before old.     *)
(*                                                                         *)
(* One action is one SQL statement of claim_next.  The selection of a      *)
(* workspace is two: PostgreSQL sorts by the snapshot of the statement     *)
(* (Sort) and then locks the first row it can, without sorting again       *)
(* (Lock).  What happens to a recording once it is claimed is module       *)
(* Worker; here it is one step from "busy" to whatever comes of it.        *)
(*                                                                         *)
(* Nothing in claim_next waits: rows locked by others are skipped.  Those  *)
(* others are the workers, requests that edit a recording, and scans and   *)
(* uploads, whose INSERT locks the row of the workspace it refers to.      *)
(*                                                                         *)
(* Of the timestamps only the order matters: whenever a worker reads the   *)
(* clock, all those in use are renumbered from 1, and 0 is NULL.           *)
(***************************************************************************)
EXTENDS Naturals, FiniteSets, Sequences

CONSTANTS
    Workspaces,     \* workspace ids
    Recordings,     \* recordings, numbered in the order of recorded_at and id
    Home,           \* the workspace of each recording
    Workers,
    None,           \* no workspace, no recording
    Editable,       \* the recordings that requests may lock
    MaxCrashes      \* bound on crashes

ASSUME ConstantsOK ==
    /\ Workspaces \subseteq Nat /\ IsFiniteSet(Workspaces)
    /\ Recordings \subseteq Nat
    /\ IsFiniteSet(Workers)
    /\ None \notin Workspaces /\ None \notin Recordings
    /\ Home \in [Recordings -> Workspaces]
    /\ Editable \subseteq Recordings
    /\ MaxCrashes \in Nat

VARIABLES
    status,     \* of each recording, as committed
    stamp,      \* last_claimed_at of each workspace, as committed
    editing,    \* recordings locked by a request
    pc, call,   \* where each worker stands in claim_next, and its local variables
    passed,     \* history: how often each workspace was passed over (CountPassed)
    crashes

vars == <<status, stamp, editing, pc, call, passed, crashes>>

Tiers == {"pending", "enriching"}

\* "away" is any status that is neither claimable nor in progress, "inserting" a
\* row whose INSERT is not committed yet.
Statuses == Tiers \cup {"away", "inserting", "busy"}

\* "pending" and "enriching" are the two selections of _claim_in_workspace.
Steps == Tiers \cup {"idle", "sort", "lock", "claimed", "working"}

Calls == [eligible: SUBSET Workspaces, rounds: Nat, now: Nat, order: Seq(Workspaces),
          taken: SUBSET Workspaces, target: Workspaces \cup {None},
          job: Recordings \cup {None}]

NoCall == [eligible |-> {}, rounds |-> 0, now |-> 0, order |-> <<>>,
           taken |-> {}, target |-> None, job |-> None]

TypeOK ==
    /\ status \in [Recordings -> Statuses]
    /\ stamp \in [Workspaces -> Nat]
    /\ editing \subseteq Editable
    /\ pc \in [Workers -> Steps]
    /\ call \in [Workers -> Calls]
    /\ \A w \in Workers :
         /\ pc[w] \in {"claimed", "working"} => call[w].job # None
         /\ pc[w] \in Tiers => call[w].target # None
         /\ pc[w] \in {"sort", "lock"} => call[w].rounds > 0
    /\ passed \in [Workspaces -> Nat]
    /\ crashes \in 0..MaxCrashes

Init ==
    /\ status \in [Recordings -> {"away", "pending"}]
    /\ stamp = [s \in Workspaces |-> 0]
    /\ editing = {}
    /\ pc = [w \in Workers |-> "idle"]
    /\ call = [w \in Workers |-> NoCall]
    /\ passed = [s \in Workspaces |-> 0]
    /\ crashes = 0

-----------------------------------------------------------------------------
(* Rows and their locks. *)

\* Recordings that worker w can lock.  Forgetting SKIP LOCKED and the second look
\* at a row that was locked is RowFree_Unlocked.
RowFree_Unlocked(w, r) == TRUE

RowFree(w, r) ==
    /\ r \notin editing
    /\ \A v \in Workers \ {w} : pc[v] = "claimed" => call[v].job # r

\* Workspaces that worker w can lock FOR UPDATE.
WorkspaceFree(w, s) ==
    /\ \A v \in Workers \ {w} : s \notin call[v].taken
    /\ \A r \in Recordings : status[r] = "inserting" => Home[r] # s

\* What one selection of _claim_in_workspace may return.
Claimable(w, s, tier) ==
    {r \in Recordings : Home[r] = s /\ status[r] = tier /\ RowFree(w, r)}

\* Any worker that came by now could claim something in s.
Servable(s) ==
    /\ \A w \in Workers : s \notin call[w].taken
    /\ \A r \in Recordings : status[r] = "inserting" => Home[r] # s
    /\ \E tier \in Tiers : \A w \in Workers : Claimable(w, s, tier) # {}

-----------------------------------------------------------------------------
(* Timestamps. *)

Times == ({stamp[s] : s \in Workspaces} \cup {call[w].now : w \in Workers}) \ {0}

Rank(t) == Cardinality({u \in Times : u <= t})

\* Never recording that a workspace had its turn.
Stamp_Never(w, s) == stamp[s]

\* last_claimed_at as worker w sees it, its own uncommitted stamps included.
Stamp(w, s) == IF s \in call[w].taken THEN call[w].now ELSE stamp[s]

\* ORDER BY last_claimed_at NULLS FIRST, id
Before(w, s, t) ==
    \/ Stamp(w, s) < Stamp(w, t)
    \/ Stamp(w, s) = Stamp(w, t) /\ s < t

-----------------------------------------------------------------------------
(* claim_next *)

\* _workspaces_with_work, and the clock if there is a choice to make.
Look(w) ==
    LET found == {Home[r] : r \in {q \in Recordings : status[q] \in Tiers}}
    IN  /\ pc[w] = "idle"
        /\ \/ \E s \in Workspaces :
                /\ found = {s}
                /\ pc' = [pc EXCEPT ![w] = "pending"]
                /\ call' = [call EXCEPT ![w] =
                              [NoCall EXCEPT !.eligible = found, !.target = s]]
                /\ UNCHANGED stamp
           \/ /\ Cardinality(found) > 1
              /\ pc' = [pc EXCEPT ![w] = "sort"]
              /\ call' = [v \in Workers |->
                            IF v = w
                            THEN [NoCall EXCEPT !.eligible = found,
                                    !.rounds = Cardinality(found),
                                    !.now = Cardinality(Times) + 1]
                            ELSE [call[v] EXCEPT !.now = Rank(@)]]
              /\ stamp' = [s \in Workspaces |-> Rank(stamp[s])]
        /\ UNCHANGED <<status, editing, crashes>>

Sort(w) ==
    /\ pc[w] = "sort"
    /\ pc' = [pc EXCEPT ![w] = "lock"]
    /\ \E order \in [1..Cardinality(call[w].eligible) -> call[w].eligible] :
         /\ \A i, j \in DOMAIN order : i < j => Before(w, order[i], order[j])
         /\ call' = [call EXCEPT ![w].order = order]
    /\ UNCHANGED <<status, stamp, editing, crashes>>

\* The first row in the snapshot's order that can be locked, locked and stamped.
Lock(w) ==
    /\ pc[w] = "lock"
    /\ \E i \in DOMAIN call[w].order :
         /\ WorkspaceFree(w, call[w].order[i])
         /\ \A j \in 1..(i - 1) : ~WorkspaceFree(w, call[w].order[j])
         /\ call' = [call EXCEPT ![w] =
                       [call[w] EXCEPT !.order = <<>>, !.target = call[w].order[i],
                                       !.rounds = @ - 1,
                                       !.taken = @ \cup {call[w].order[i]}]]
    /\ pc' = [pc EXCEPT ![w] = "pending"]
    /\ UNCHANGED <<status, stamp, editing, crashes>>

\* The newest row that can be locked; it stays locked until the commit that follows.
Claim(w) ==
    /\ pc[w] \in Tiers
    /\ \E r \in Claimable(w, call[w].target, pc[w]) :
         /\ \A q \in Claimable(w, call[w].target, pc[w]) : q <= r
         /\ call' = [call EXCEPT ![w].job = r]
    /\ pc' = [pc EXCEPT ![w] = "claimed"]
    /\ UNCHANGED <<status, stamp, editing, crashes>>

NextTier(w) ==
    /\ pc[w] = "pending"
    /\ Claimable(w, call[w].target, "pending") = {}
    /\ pc' = [pc EXCEPT ![w] = "enriching"]
    /\ UNCHANGED <<status, stamp, editing, call, crashes>>

\* Looping until there is something to claim.
RoundLeft_Always(w) == TRUE

\* for _ in range(len(eligible))
RoundLeft(w) == call[w].rounds > 0

\* Empty-handed, but the loop has rounds left.
NextRound(w) ==
    /\ pc[w] = "enriching"
    /\ Claimable(w, call[w].target, "enriching") = {}
    /\ RoundLeft(w)
    /\ pc' = [pc EXCEPT ![w] = "sort"]
    /\ call' = [call EXCEPT ![w].target = None]
    /\ UNCHANGED <<status, stamp, editing, crashes>>

\* The end of a transaction that claimed nothing: its stamps are rolled back.
Rollback(w) ==
    /\ pc' = [pc EXCEPT ![w] = "idle"]
    /\ call' = [call EXCEPT ![w] = NoCall]

\* claim_next returns None.
GiveUp(w) ==
    /\ \/ /\ pc[w] = "lock"
          /\ \A s \in call[w].eligible : ~WorkspaceFree(w, s)
       \/ /\ pc[w] = "enriching"
          /\ Claimable(w, call[w].target, "enriching") = {}
          /\ ~RoundLeft(w)
    /\ Rollback(w)
    /\ UNCHANGED <<status, stamp, editing, crashes>>

-----------------------------------------------------------------------------
(* What follows a claim. *)

\* The commit of a claim: the row's new status, the stamps, and all locks go.
Commit(w, st) ==
    /\ pc[w] = "claimed"
    /\ status' = [status EXCEPT ![call[w].job] = st]
    /\ stamp' = [s \in Workspaces |-> Stamp(w, s)]
    /\ UNCHANGED <<editing, crashes>>

\* The first commit of transcribe_stage or enrich_stage.
Begin(w) ==
    /\ Commit(w, "busy")
    /\ pc' = [pc EXCEPT ![w] = "working"]
    /\ call' = [call EXCEPT ![w] = [NoCall EXCEPT !.job = call[w].job]]

\* Over its quota, or of unknown length.
SetAside(w) ==
    /\ Commit(w, "away")
    /\ status[call[w].job] = "pending"
    /\ pc' = [pc EXCEPT ![w] = "idle"]
    /\ call' = [call EXCEPT ![w] = NoCall]

\* Done or failed; back in the queue if the runner was away.
Finish(w) ==
    /\ pc[w] = "working"
    /\ \E st \in {"away", "pending"} : status' = [status EXCEPT ![call[w].job] = st]
    /\ Rollback(w)
    /\ UNCHANGED <<stamp, editing, crashes>>

Crash(w) ==
    /\ pc[w] # "idle"
    /\ crashes < MaxCrashes
    /\ crashes' = crashes + 1
    /\ Rollback(w)
    /\ UNCHANGED <<status, stamp, editing>>

\* recover_in_flight, as long as live workers send their heartbeats in time.
Recover(r) ==
    /\ status[r] = "busy"
    /\ \A w \in Workers : pc[w] = "working" => call[w].job # r
    /\ \E st \in Tiers : status' = [status EXCEPT ![r] = st]
    /\ UNCHANGED <<stamp, editing, pc, call, crashes>>

-----------------------------------------------------------------------------
(* Scans, uploads and requests. *)

\* The foreign key makes an INSERT lock the workspace FOR KEY SHARE, which waits
\* for FOR UPDATE and makes FOR UPDATE SKIP LOCKED skip.
BeginInsert(r) ==
    /\ status[r] = "away"
    /\ \A w \in Workers : Home[r] \notin call[w].taken
    /\ status' = [status EXCEPT ![r] = "inserting"]
    /\ UNCHANGED <<stamp, editing, pc, call, crashes>>

EndInsert(r) ==
    /\ status[r] = "inserting"
    /\ status' = [status EXCEPT ![r] = "pending"]
    /\ UNCHANGED <<stamp, editing, pc, call, crashes>>

\* A retry, a release of blocked recordings, a requeue of those without summary.
Return(r) ==
    /\ status[r] = "away"
    /\ \E st \in Tiers : status' = [status EXCEPT ![r] = st]
    /\ UNCHANGED <<stamp, editing, pc, call, crashes>>

\* A request has a row locked until it commits (only locks on claimable rows matter
\* here; the rest of the life of a recording waits for the others).
BeginEdit(r) ==
    /\ r \in Editable \ editing
    /\ status[r] \in Tiers
    /\ \A w \in Workers : pc[w] = "claimed" => call[w].job # r
    /\ editing' = editing \cup {r}
    /\ UNCHANGED <<status, stamp, pc, call, crashes>>

\* It may have deleted the recording.
EndEdit(r) ==
    /\ r \in editing
    /\ editing' = editing \ {r}
    /\ \E st \in {status[r], "away"} : status' = [status EXCEPT ![r] = st]
    /\ UNCHANGED <<stamp, pc, call, crashes>>

-----------------------------------------------------------------------------

WorkerStep(w) ==
    \/ Look(w) \/ Sort(w) \/ Lock(w) \/ Claim(w) \/ NextTier(w) \/ NextRound(w)
    \/ GiveUp(w) \/ Begin(w) \/ SetAside(w) \/ Finish(w)

Others ==
    \E r \in Recordings :
      \/ Recover(r) \/ BeginInsert(r) \/ EndInsert(r) \/ Return(r)
      \/ BeginEdit(r) \/ EndEdit(r)

\* This step is a Lock that prefers another workspace to candidate s.
PassesOver(s) ==
    \E w \in Workers :
      /\ pc[w] = "lock" /\ pc'[w] = "pending"
      /\ s \in call[w].eligible
      /\ call'[w].target # s

\* The other workspaces.
Rivals == Cardinality(Workspaces) - 1

\* The most that claim_next passes over a workspace if nobody crashes: each worker
\* ends the call it is in, which has a round for every workspace; and since that call
\* may commit an older stamp than there is, the others may all be ahead again, once
\* for every worker.
Turns == Cardinality(Workers) * (Cardinality(Workspaces) + Cardinality(Workers) * Rivals)

\* A crash takes back the stamps of a whole call.
Allowed(n) == Turns + n * Rivals

\* The history variable: it starts again when s cannot be served or is picked, and
\* stops counting beyond what BoundedWait allows.
CountPassed ==
    passed' = [s \in Workspaces |->
                 IF ~Servable(s) \/ ~Servable(s)' THEN 0
                 ELSE IF PassesOver(s) /\ passed[s] <= Allowed(MaxCrashes) THEN passed[s] + 1
                 ELSE passed[s]]

Next ==
    /\ Others \/ \E w \in Workers : WorkerStep(w) \/ Crash(w)
    /\ CountPassed

Spec == Init /\ [][Next]_vars

\* Nothing is assumed of a single worker: some worker goes on as long as any can.
\* Each of them loops for ever and none waits for another.
FairSpec == Spec /\ WF_vars((\E w \in Workers : WorkerStep(w)) /\ CountPassed)

-----------------------------------------------------------------------------
(* Properties. *)

\* Committed as claimable, and not under the row lock of a claim.
Waiting ==
    {r \in Recordings :
       status[r] \in Tiers /\ \A w \in Workers : pc[w] = "claimed" => call[w].job # r}

Queue == INSTANCE WorkQueue WITH
           waiting <- Waiting, holder <- [w \in Workers |-> call[w].job]

\* claim_next is a queue that gives no recording to a worker while another has it:
\* every step of the workers, with their locks, stamps and rollbacks, is one of
\* WorkQueue or none (claim_next, the commits that follow it, recover_in_flight).
IsQueue == Queue!Spec

OneHolder ==
    \A v, w \in Workers :
      v # w /\ call[v].job # None => call[w].job # call[v].job

\* No recording is claimed or worked on by two workers at once, since the row a worker
\* has is either waiting under its lock or committed as busy, and nobody else's to
\* change (claim_next, _claim_in_workspace, the first commits of the two stages).
ClaimInv ==
    /\ OneHolder
    /\ \A w \in Workers :
         /\ call[w].job # None => pc[w] \in {"claimed", "working"}
         /\ pc[w] = "claimed" => status[call[w].job] \in Tiers
         /\ pc[w] = "working" => status[call[w].job] = "busy"
    /\ \A r \in editing :
         /\ status[r] \in Tiers
         /\ \A w \in Workers : call[w].job # r

\* A workspace that could be served is passed over a bounded number of times, however
\* long the queues of the others are and however the workers overtake one another,
\* whose stamps may also go back (the order by last_claimed_at, the stamp of every pick).
BoundedWait ==
    \A s \in Workspaces : passed[s] <= Allowed(crashes)

\* While a workspace can be served, claims in it never cease (claim_next under any
\* load in the other workspaces).
Served ==
    \A s \in Workspaces :
      []<>(\/ ~Servable(s)
           \/ \E w \in Workers : pc[w] = "claimed" /\ Home[call[w].job] = s)
=============================================================================
