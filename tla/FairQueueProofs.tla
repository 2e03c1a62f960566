-------------------------- MODULE FairQueueProofs --------------------------
(***************************************************************************)
(* Theorems about FairQueue for every number of workspaces, recordings and *)
(* workers: type correctness, exclusive claims, that claim_next with its   *)
(* locks, stamps and rollbacks implements WorkQueue, and that it passes    *)
(* over a workspace a bounded number of times.                             *)
(***************************************************************************)
EXTENDS FairQueue, Sums

-----------------------------------------------------------------------------
(* Timestamps in use are finitely many numbers. *)

LEMMA ImageFinite ==
    ASSUME NEW S, IsFiniteSet(S), NEW f, f = [x \in S |-> f[x]]
    PROVE  IsFiniteSet({f[x] : x \in S})
<1> DEFINE T == {f[x] : x \in S}
<1>1. f \in Surjection(S, T)
  BY DEF Surjection
<1>2. QED
  BY <1>1, FS_Surjection

LEMMA TimesFinite ==
    ASSUME TypeOK
    PROVE  IsFiniteSet(Times)
<1> DEFINE nows == [w \in Workers |-> call[w].now]
<1>1. IsFiniteSet({stamp[s] : s \in Workspaces})
  BY ImageFinite, ConstantsOK DEF TypeOK
<1>2. IsFiniteSet({nows[w] : w \in Workers})
  <2> HIDE DEF nows
  <2>1. nows = [w \in Workers |-> nows[w]]
    BY DEF nows
  <2>2. QED
    BY <2>1, ImageFinite, ConstantsOK
<1>3. {nows[w] : w \in Workers} = {call[w].now : w \in Workers}
  OBVIOUS
<1>4. IsFiniteSet({stamp[s] : s \in Workspaces} \cup {call[w].now : w \in Workers})
  BY <1>1, <1>2, <1>3, FS_Union
<1>5. QED
  BY <1>4, FS_RemoveElement DEF Times

LEMMA RankType ==
    ASSUME TypeOK
    PROVE  /\ Cardinality(Times) + 1 \in Nat
           /\ \A t : Rank(t) \in Nat
<1>1. Cardinality(Times) \in Nat
  BY TimesFinite, FS_CardinalityType
<1>2. ASSUME NEW t PROVE Rank(t) \in Nat
  <2>1. {u \in Times : u <= t} \in SUBSET Times
    OBVIOUS
  <2>2. IsFiniteSet({u \in Times : u <= t})
    BY <2>1, TimesFinite, FS_Subset
  <2>3. QED
    BY <2>2, FS_CardinalityType DEF Rank
<1>3. QED
  BY <1>1, <1>2

-----------------------------------------------------------------------------
(* Type correctness. *)

LEMMA InitType == Init => TypeOK
BY ConstantsOK DEF Init, TypeOK, Statuses, Tiers, Steps, Calls, NoCall

LEMMA NoCallType == NoCall \in Calls
BY DEF NoCall, Calls

\* The local variables at the start of a call with a choice, and after a pick.
LEMMA StartType ==
    ASSUME NEW e \in SUBSET Workspaces, NEW n \in Nat, NEW t \in Nat
    PROVE  LET c == [NoCall EXCEPT !.eligible = e, !.rounds = n, !.now = t]
           IN  c \in Calls /\ c.rounds = n
BY NoCallType DEF NoCall, Calls

LEMMA PickType ==
    ASSUME NEW c \in Calls, NEW s \in Workspaces, c.rounds - 1 \in Nat
    PROVE  LET d == [c EXCEPT !.order = <<>>, !.target = s, !.rounds = @ - 1,
                              !.taken = @ \cup {s}]
           IN  d \in Calls /\ d.target = s
<1>1. <<>> \in Seq(Workspaces)
  OBVIOUS
<1>2. c.taken \cup {s} \in SUBSET Workspaces
  BY DEF Calls
<1>3. QED
  BY <1>1, <1>2 DEF Calls

\* Steps that leave what claim_next keeps as it is.
LEMMA OthersType == TypeOK /\ Others /\ CountPassed => TypeOK'
<1> SUFFICES ASSUME TypeOK, CountPassed,
                    NEW r \in Recordings,
                    \/ Recover(r) \/ BeginInsert(r) \/ EndInsert(r) \/ Return(r)
                    \/ BeginEdit(r) \/ EndEdit(r)
             PROVE  TypeOK'
  BY DEF Others
<1>1. passed' \in [Workspaces -> Nat]
  BY DEF TypeOK, CountPassed
<1>2. status' \in [Recordings -> Statuses] /\ editing' \subseteq Editable
  BY DEF TypeOK, Recover, BeginInsert, EndInsert, Return, BeginEdit, EndEdit, Statuses, Tiers
<1>3. UNCHANGED <<stamp, pc, call, crashes>>
  BY DEF Recover, BeginInsert, EndInsert, Return, BeginEdit, EndEdit
<1>4. QED
  BY <1>1, <1>2, <1>3 DEF TypeOK

LEMMA LookType ==
    ASSUME TypeOK, CountPassed, NEW w \in Workers, Look(w)
    PROVE  TypeOK'
<1> DEFINE found == {Home[r] : r \in {q \in Recordings : status[q] \in Tiers}}
<1>1. passed' \in [Workspaces -> Nat]
  BY DEF TypeOK, CountPassed
<1>2. found \in SUBSET Workspaces /\ Cardinality(found) \in Nat
  <2>1. found \in SUBSET Workspaces
    BY ConstantsOK DEF TypeOK
  <2>2. QED
    BY <2>1, ConstantsOK, FS_Subset, FS_CardinalityType
<1>3. ASSUME NEW s \in Workspaces, found = {s},
             pc' = [pc EXCEPT ![w] = "pending"],
             call' = [call EXCEPT ![w] = [NoCall EXCEPT !.eligible = found, !.target = s]],
             UNCHANGED <<stamp, status, editing, crashes>>
      PROVE  TypeOK'
  <2> DEFINE new == [NoCall EXCEPT !.eligible = found, !.target = s]
  <2>1. new \in Calls /\ new.target # None
    BY <1>2, ConstantsOK, NoCallType DEF NoCall, Calls
  <2> HIDE DEF new, found
  <2>2. call' \in [Workers -> Calls] /\ pc' \in [Workers -> Steps]
    BY <1>3, <2>1 DEF TypeOK, Steps, Tiers, new
  <2>3. \A v \in Workers : call'[v] = IF v = w THEN new ELSE call[v]
    BY <1>3 DEF TypeOK, new
  <2>4. \A v \in Workers : pc'[v] = IF v = w THEN "pending" ELSE pc[v]
    BY <1>3 DEF TypeOK
  <2>5. QED
    BY <1>1, <1>3, <2>1, <2>2, <2>3, <2>4 DEF TypeOK
<1>4. ASSUME Cardinality(found) > 1,
             pc' = [pc EXCEPT ![w] = "sort"],
             call' = [v \in Workers |->
                        IF v = w
                        THEN [NoCall EXCEPT !.eligible = found,
                                !.rounds = Cardinality(found),
                                !.now = Cardinality(Times) + 1]
                        ELSE [call[v] EXCEPT !.now = Rank(@)]],
             stamp' = [s \in Workspaces |-> Rank(stamp[s])],
             UNCHANGED <<status, editing, crashes>>
      PROVE  TypeOK'
  <2> DEFINE new == [NoCall EXCEPT !.eligible = found, !.rounds = Cardinality(found),
                                   !.now = Cardinality(Times) + 1]
             ranked(v) == [call[v] EXCEPT !.now = Rank(@)]
  <2>1. new \in Calls /\ new.rounds > 0
    <3>1. new \in Calls /\ new.rounds = Cardinality(found)
      BY <1>2, RankType, StartType
    <3> HIDE DEF new, found
    <3>2. QED
      BY <3>1, <1>2, <1>4
  <2>2. ASSUME NEW v \in Workers
        PROVE  /\ ranked(v) \in Calls
               /\ ranked(v).job = call[v].job /\ ranked(v).target = call[v].target
               /\ ranked(v).rounds = call[v].rounds
    BY RankType DEF TypeOK, Calls
  <2>3. stamp' \in [Workspaces -> Nat]
    BY <1>4, RankType
  <2>4. \A v \in Workers : call'[v] = IF v = w THEN new ELSE ranked(v)
    BY <1>4
  <2>5. \A v \in Workers : pc'[v] = IF v = w THEN "sort" ELSE pc[v]
    BY <1>4 DEF TypeOK
  <2>6. call' \in [Workers -> Calls] /\ pc' \in [Workers -> Steps]
    BY <1>4, <2>1, <2>2 DEF TypeOK, Steps
  <2> HIDE DEF new, found, ranked
  <2>7. ASSUME NEW v \in Workers
        PROVE  /\ pc'[v] \in {"claimed", "working"} => call'[v].job # None
               /\ pc'[v] \in Tiers => call'[v].target # None
               /\ pc'[v] \in {"sort", "lock"} => call'[v].rounds > 0
    <3>1. CASE v = w
      BY <3>1, <2>1, <2>4, <2>5 DEF Tiers
    <3>2. CASE v # w
      BY <3>2, <2>2, <2>4, <2>5 DEF TypeOK
    <3>3. QED
      BY <3>1, <3>2
  <2>8. UNCHANGED <<status, editing, crashes>>
    BY <1>4
  <2>9. QED
    BY <1>1, <2>3, <2>6, <2>7, <2>8 DEF TypeOK
<1>5. QED
  BY <1>3, <1>4 DEF Look

LEMMA SortType ==
    ASSUME TypeOK, CountPassed, NEW w \in Workers, Sort(w)
    PROVE  TypeOK'
<1>1. passed' \in [Workspaces -> Nat]
  BY DEF TypeOK, CountPassed
<1>2. PICK order \in [1..Cardinality(call[w].eligible) -> call[w].eligible] :
           call' = [call EXCEPT ![w].order = order]
  BY DEF Sort
<1>3. order \in Seq(Workspaces)
  <2>1. call[w].eligible \in SUBSET Workspaces
    BY DEF TypeOK, Calls
  <2>2. Cardinality(call[w].eligible) \in Nat
    BY <2>1, ConstantsOK, FS_Subset, FS_CardinalityType
  <2>3. QED
    BY <1>2, <2>1, <2>2
<1>4. call' \in [Workers -> Calls]
  BY <1>2, <1>3 DEF TypeOK, Calls
<1>5. \A v \in Workers : /\ call'[v].job = call[v].job /\ call'[v].target = call[v].target
                         /\ call'[v].rounds = call[v].rounds
  BY <1>2 DEF TypeOK, Calls
<1>6. pc[w] = "sort" /\ pc' = [pc EXCEPT ![w] = "lock"] /\ UNCHANGED <<status, stamp, editing, crashes>>
  BY DEF Sort
<1>7. QED
  BY <1>1, <1>4, <1>5, <1>6 DEF TypeOK, Steps, Tiers

LEMMA LockType ==
    ASSUME TypeOK, CountPassed, NEW w \in Workers, Lock(w)
    PROVE  TypeOK'
<1>1. passed' \in [Workspaces -> Nat]
  BY DEF TypeOK, CountPassed
<1>2. PICK i \in DOMAIN call[w].order :
           call' = [call EXCEPT ![w] =
                      [call[w] EXCEPT !.order = <<>>, !.target = call[w].order[i],
                                      !.rounds = @ - 1,
                                      !.taken = @ \cup {call[w].order[i]}]]
  BY DEF Lock
<1>3. call[w].order[i] \in Workspaces
  BY <1>2 DEF TypeOK, Calls
<1>4. pc[w] = "lock" /\ call[w].rounds - 1 \in Nat
  BY DEF Lock, TypeOK, Calls
<1>5. call' \in [Workers -> Calls] /\ call'[w].target # None
  <2> DEFINE new == [call[w] EXCEPT !.order = <<>>, !.target = call[w].order[i],
                       !.rounds = @ - 1, !.taken = @ \cup {call[w].order[i]}]
  <2>1. new \in Calls /\ new.target = call[w].order[i]
    BY <1>3, <1>4, PickType DEF TypeOK
  <2>2. call' = [call EXCEPT ![w] = new]
    BY <1>2
  <2> HIDE DEF new
  <2>3. QED
    BY <1>3, <2>1, <2>2, ConstantsOK DEF TypeOK
<1>6. \A v \in Workers \ {w} : call'[v] = call[v]
  BY <1>2 DEF TypeOK
<1>7. pc' = [pc EXCEPT ![w] = "pending"] /\ UNCHANGED <<status, stamp, editing, crashes>>
  BY DEF Lock
<1>8. QED
  BY <1>1, <1>5, <1>6, <1>7 DEF TypeOK, Steps, Tiers

LEMMA ClaimType ==
    ASSUME TypeOK, CountPassed, NEW w \in Workers,
           Claim(w) \/ NextTier(w) \/ NextRound(w)
    PROVE  TypeOK'
<1>1. passed' \in [Workspaces -> Nat]
  BY DEF TypeOK, CountPassed
<1>2. CASE Claim(w)
  <2>1. PICK r \in Recordings : call' = [call EXCEPT ![w].job = r]
    BY <1>2 DEF Claim, Claimable
  <2>2. call' \in [Workers -> Calls] /\ call'[w].job # None
    BY <2>1, ConstantsOK DEF TypeOK, Calls
  <2>3. \A v \in Workers \ {w} : call'[v] = call[v]
    BY <2>1 DEF TypeOK
  <2>4. pc' = [pc EXCEPT ![w] = "claimed"] /\ UNCHANGED <<status, stamp, editing, crashes>>
    BY <1>2 DEF Claim
  <2>5. QED
    BY <1>1, <2>2, <2>3, <2>4 DEF TypeOK, Steps, Tiers
<1>3. CASE NextTier(w)
  BY <1>1, <1>3 DEF NextTier, TypeOK, Steps, Tiers
<1>4. CASE NextRound(w)
  <2>1. call' \in [Workers -> Calls] /\ call'[w].rounds > 0
    BY <1>4 DEF NextRound, RoundLeft, TypeOK, Calls
  <2>2. \A v \in Workers \ {w} : call'[v] = call[v]
    BY <1>4 DEF NextRound, TypeOK
  <2>3. pc' = [pc EXCEPT ![w] = "sort"] /\ UNCHANGED <<status, stamp, editing, crashes>>
    BY <1>4 DEF NextRound
  <2>4. QED
    BY <1>1, <2>1, <2>2, <2>3 DEF TypeOK, Steps, Tiers
<1>5. QED
  BY <1>2, <1>3, <1>4

LEMMA CommitType ==
    ASSUME TypeOK, CountPassed, NEW w \in Workers,
           \/ GiveUp(w) \/ Begin(w) \/ SetAside(w) \/ Finish(w) \/ Crash(w)
    PROVE  TypeOK'
<1>1. passed' \in [Workspaces -> Nat]
  BY DEF TypeOK, CountPassed
<1>2. PICK s \in {"idle", "working"}, c \in Calls :
           /\ pc' = [pc EXCEPT ![w] = s]
           /\ call' = [call EXCEPT ![w] = c]
           /\ s = "working" => c.job # None
  <2>1. CASE Begin(w)
    <3>1. pc[w] = "claimed" /\ call[w].job \in Recordings
      BY <2>1, ConstantsOK DEF Begin, Commit, TypeOK, Calls
    <3>2. [NoCall EXCEPT !.job = call[w].job] \in Calls
      BY <3>1, NoCallType DEF NoCall, Calls
    <3>3. [NoCall EXCEPT !.job = call[w].job].job # None
      BY <3>1, ConstantsOK DEF NoCall
    <3>4. QED
      BY <2>1, <3>2, <3>3 DEF Begin
  <2>2. CASE GiveUp(w) \/ SetAside(w) \/ Finish(w) \/ Crash(w)
    BY <2>2, NoCallType DEF GiveUp, SetAside, Finish, Crash, Rollback
  <2>3. QED
    BY <2>1, <2>2
<1>3. status' \in [Recordings -> Statuses] /\ stamp' \in [Workspaces -> Nat]
  <2>1. Commit(w, "busy") \/ Commit(w, "away") => stamp' \in [Workspaces -> Nat]
    BY DEF Commit, Stamp, TypeOK, Calls
  <2>2. Begin(w) \/ SetAside(w) => status' \in [Recordings -> Statuses]
    BY DEF Begin, SetAside, Commit, TypeOK, Statuses
  <2>3. Finish(w) => status' \in [Recordings -> Statuses]
    BY DEF Finish, TypeOK, Statuses, Tiers
  <2>4. QED
    BY <2>1, <2>2, <2>3 DEF GiveUp, Begin, SetAside, Finish, Crash, TypeOK
<1>4. editing' \subseteq Editable /\ crashes' \in 0..MaxCrashes
  BY ConstantsOK DEF GiveUp, Begin, SetAside, Commit, Finish, Crash, TypeOK
<1>5. \A v \in Workers : /\ pc'[v] = IF v = w THEN s ELSE pc[v]
                         /\ call'[v] = IF v = w THEN c ELSE call[v]
  BY <1>2 DEF TypeOK
<1>6. call' \in [Workers -> Calls] /\ pc' \in [Workers -> Steps]
  BY <1>2 DEF TypeOK, Steps
<1>7. QED
  BY <1>1, <1>2, <1>3, <1>4, <1>5, <1>6 DEF TypeOK, Tiers

LEMMA StepType == TypeOK /\ [Next]_vars => TypeOK'
<1> SUFFICES ASSUME TypeOK, [Next]_vars PROVE TypeOK'
  OBVIOUS
<1>1. CASE Next
  BY <1>1, OthersType, LookType, SortType, LockType, ClaimType, CommitType
  DEF Next, WorkerStep
<1>2. CASE UNCHANGED vars
  BY <1>2 DEF vars, TypeOK
<1>3. QED
  BY <1>1, <1>2

\* Every variable keeps its type, for all workspaces, recordings and workers.
THEOREM TypeCorrect == Spec => []TypeOK
BY InitType, StepType, PTL DEF Spec

-----------------------------------------------------------------------------
(* Exclusive claims. *)

\* Steps that neither give a recording to a worker nor take one away.
Quiet ==
    /\ UNCHANGED <<status, editing>>
    /\ \A v \in Workers :
         /\ call'[v].job = call[v].job
         /\ pc'[v] = "claimed" <=> pc[v] = "claimed"
         /\ pc'[v] = "working" <=> pc[v] = "working"

\* Worker w's place and recording become s and j; the others keep theirs.
Moves(w, s, j) ==
    /\ pc'[w] = s /\ call'[w].job = j
    /\ \A v \in Workers \ {w} : pc'[v] = pc[v] /\ call'[v].job = call[v].job

LEMMA QuietSteps ==
    ASSUME TypeOK, ClaimInv, NEW w \in Workers,
           \/ Look(w) \/ Sort(w) \/ Lock(w) \/ NextTier(w) \/ NextRound(w) \/ GiveUp(w)
    PROVE  Quiet
<1>1. CASE Look(w)
  <2>1. pc[w] = "idle" /\ call[w].job = None /\ pc'[w] \in {"pending", "sort"}
    BY <1>1 DEF Look, ClaimInv, TypeOK
  <2>2. \A v \in Workers \ {w} : pc'[v] = pc[v]
    BY <1>1 DEF Look, TypeOK
  <2>3. \A v \in Workers : call'[v].job = IF v = w THEN None ELSE call[v].job
    <3> DEFINE found == {Home[r] : r \in {q \in Recordings : status[q] \in Tiers}}
               new == [NoCall EXCEPT !.eligible = found, !.rounds = Cardinality(found),
                                     !.now = Cardinality(Times) + 1]
               ranked(v) == [call[v] EXCEPT !.now = Rank(@)]
    <3>1. new.job = None
      BY DEF NoCall
    <3>2. \A v \in Workers : ranked(v).job = call[v].job
      BY DEF TypeOK, Calls
    <3>3. ASSUME NEW s \in Workspaces,
                 call' = [call EXCEPT ![w] = [NoCall EXCEPT !.eligible = found, !.target = s]]
          PROVE  \A v \in Workers : call'[v].job = IF v = w THEN None ELSE call[v].job
      BY <3>3 DEF TypeOK, NoCall
    <3>4. ASSUME call' = [v \in Workers |-> IF v = w THEN new ELSE ranked(v)]
          PROVE  \A v \in Workers : call'[v].job = IF v = w THEN None ELSE call[v].job
      <4> HIDE DEF new, ranked
      <4>1. QED
        BY <3>1, <3>2, <3>4
    <3>5. QED
      BY <1>1, <3>3, <3>4 DEF Look
  <2>4. UNCHANGED <<status, editing>>
    BY <1>1 DEF Look
  <2>5. QED
    BY <2>1, <2>2, <2>3, <2>4 DEF Quiet
<1>2. CASE Sort(w) \/ Lock(w) \/ NextRound(w)
  <2>1. \A v \in Workers : call'[v].job = call[v].job
    <3>1. CASE Sort(w)
      <4>1. PICK order : call' = [call EXCEPT ![w].order = order]
        BY <3>1 DEF Sort
      <4>2. QED
        BY <4>1 DEF TypeOK, Calls
    <3>2. CASE Lock(w)
      <4>1. PICK i : call' = [call EXCEPT ![w] =
                                [call[w] EXCEPT !.order = <<>>, !.target = call[w].order[i],
                                                !.rounds = @ - 1,
                                                !.taken = @ \cup {call[w].order[i]}]]
        BY <3>2 DEF Lock
      <4>2. QED
        BY <4>1 DEF TypeOK, Calls
    <3>3. CASE NextRound(w)
      BY <3>3 DEF NextRound, TypeOK, Calls
    <3>4. QED
      BY <1>2, <3>1, <3>2, <3>3
  <2>2. QED
    BY <1>2, <2>1 DEF Sort, Lock, NextRound, TypeOK, Quiet
<1>3. CASE NextTier(w)
  BY <1>3 DEF NextTier, TypeOK, Quiet
<1>4. CASE GiveUp(w)
  <2>1. pc[w] \in {"lock", "enriching"} /\ call[w].job = None
    BY <1>4 DEF GiveUp, ClaimInv
  <2>2. QED
    BY <1>4, <2>1 DEF GiveUp, Rollback, NoCall, TypeOK, Quiet
<1>5. QED
  BY <1>1, <1>2, <1>3, <1>4

LEMMA QuietClaims == ClaimInv /\ Quiet => ClaimInv'
BY DEF ClaimInv, OneHolder, Quiet

LEMMA ClaimClaims ==
    ASSUME TypeOK, ClaimInv, NEW w \in Workers, Claim(w)
    PROVE  ClaimInv'
<1>1. PICK r \in Recordings : /\ r \in Claimable(w, call[w].target, pc[w])
                              /\ call' = [call EXCEPT ![w].job = r]
  BY DEF Claim, Claimable
<1>2. /\ pc[w] \in Tiers /\ status[r] \in Tiers /\ r \notin editing /\ r # None
      /\ \A v \in Workers \ {w} : pc[v] = "claimed" => call[v].job # r
  BY <1>1, ConstantsOK DEF Claim, Claimable, RowFree
<1>3. Moves(w, "claimed", r)
  BY <1>1 DEF Claim, TypeOK, Calls, Moves
<1>4. UNCHANGED <<status, editing>>
  BY DEF Claim
<1>5. \A v \in Workers \ {w} : call[v].job # r
  BY <1>2 DEF ClaimInv, Tiers
<1>6. OneHolder'
  BY <1>2, <1>3, <1>5 DEF OneHolder, Moves, ClaimInv
<1>7. QED
  BY <1>2, <1>3, <1>4, <1>5, <1>6 DEF ClaimInv, Moves

\* What the steps after a claim do to the worker and its row.
LEMMA AfterClaim ==
    ASSUME TypeOK, ClaimInv, NEW w \in Workers
    PROVE  /\ Begin(w) =>
                /\ pc[w] = "claimed" /\ Moves(w, "working", call[w].job)
                /\ status' = [status EXCEPT ![call[w].job] = "busy"]
           /\ SetAside(w) =>
                /\ pc[w] = "claimed" /\ Moves(w, "idle", None)
                /\ status' = [status EXCEPT ![call[w].job] = "away"]
           /\ Finish(w) =>
                /\ pc[w] = "working" /\ Moves(w, "idle", None)
                /\ \E st \in {"away", "pending"} :
                     status' = [status EXCEPT ![call[w].job] = st]
           /\ Crash(w) => Moves(w, "idle", None) /\ UNCHANGED status
           /\ Begin(w) \/ SetAside(w) \/ Finish(w) \/ Crash(w) => UNCHANGED editing
BY DEF TypeOK, Calls, Begin, SetAside, Commit, Finish, Crash, Rollback, NoCall, Moves

LEMMA AfterClaims ==
    ASSUME TypeOK, ClaimInv, NEW w \in Workers,
           Begin(w) \/ SetAside(w) \/ Finish(w) \/ Crash(w)
    PROVE  ClaimInv'
<1> DEFINE r == call[w].job
<1>1. PICK s \in {"idle", "working"}, j \in {None, r}, st \in Statuses :
           /\ Moves(w, s, j)
           /\ s = "idle" => j = None
           /\ s = "working" => j = r /\ st = "busy"
           /\ \/ pc[w] \in {"claimed", "working"} /\ status' = [status EXCEPT ![r] = st]
              \/ s = "idle" /\ status' = status
  <2>1. CASE Begin(w)
    BY <2>1, AfterClaim DEF Statuses
  <2>2. CASE SetAside(w)
    BY <2>2, AfterClaim DEF Statuses
  <2>3. CASE Finish(w)
    BY <2>3, AfterClaim DEF Statuses, Tiers
  <2>4. CASE Crash(w)
    BY <2>4, AfterClaim DEF Statuses
  <2>5. QED
    BY <2>1, <2>2, <2>3, <2>4
<1>2. UNCHANGED editing
  BY AfterClaim
<1>3. \A q \in Recordings : q # r => status'[q] = status[q]
  BY <1>1 DEF TypeOK
<1>4. \A v \in Workers : call[v].job \in Recordings \cup {None}
  BY DEF TypeOK, Calls
<1>5. OneHolder'
  BY <1>1 DEF OneHolder, Moves, ClaimInv
<1>6. ASSUME NEW v \in Workers \ {w}
      PROVE  /\ pc'[v] = "claimed" => status'[call'[v].job] \in Tiers
             /\ pc'[v] = "working" => status'[call'[v].job] = "busy"
             /\ call'[v].job # None => pc'[v] \in {"claimed", "working"}
  <2>1. pc'[v] = pc[v] /\ call'[v].job = call[v].job
    BY <1>1 DEF Moves
  <2>2. CASE pc[v] \in {"claimed", "working"}
    <3>1. call[v].job \in Recordings /\ call[v].job # r
      BY <2>2, <1>4 DEF TypeOK, ClaimInv, OneHolder
    <3>2. QED
      BY <2>1, <3>1, <1>3 DEF ClaimInv
  <2>3. QED
    BY <2>1, <2>2 DEF ClaimInv
<1>7. /\ pc'[w] = "claimed" => status'[call'[w].job] \in Tiers
      /\ pc'[w] = "working" => status'[call'[w].job] = "busy"
      /\ call'[w].job # None => pc'[w] \in {"claimed", "working"}
  <2>1. CASE s = "idle"
    BY <2>1, <1>1 DEF Moves
  <2>2. CASE s = "working"
    <3>1. r \in Recordings
      BY <2>2, <1>1, <1>4 DEF TypeOK
    <3>2. QED
      BY <2>2, <3>1, <1>1 DEF Moves, TypeOK
  <2>3. QED
    BY <2>1, <2>2
<1>8. ASSUME NEW q \in editing'
      PROVE  status'[q] \in Tiers /\ \A v \in Workers : call'[v].job # q
  <2>1. q \in Recordings /\ q \in editing /\ q # None
    BY <1>2, ConstantsOK DEF TypeOK
  <2>2. status[q] \in Tiers /\ \A v \in Workers : call[v].job # q
    BY <2>1 DEF ClaimInv
  <2>3. QED
    BY <1>1, <1>3, <2>1, <2>2 DEF Moves
<1>9. QED
  BY <1>5, <1>6, <1>7, <1>8 DEF ClaimInv

\* A row that no worker has may change, and its edit lock may go.
LEMMA NobodysRow ==
    ASSUME TypeOK, ClaimInv, NEW r \in Recordings,
           UNCHANGED <<pc, call>>, editing' = editing \ {r},
           \A q \in Recordings \ {r} : status'[q] = status[q],
           \A v \in Workers : call[v].job # r
    PROVE  ClaimInv'
<1>1. OneHolder'
  BY DEF ClaimInv, OneHolder
<1>2. ASSUME NEW v \in Workers
      PROVE  /\ pc[v] = "claimed" => status'[call[v].job] \in Tiers
             /\ pc[v] = "working" => status'[call[v].job] = "busy"
             /\ call[v].job # None => pc[v] \in {"claimed", "working"}
  <2>1. call[v].job \in Recordings \cup {None}
    BY DEF TypeOK, Calls
  <2>2. QED
    BY <2>1 DEF TypeOK, ClaimInv
<1>3. ASSUME NEW q \in editing'
      PROVE  status'[q] \in Tiers /\ \A v \in Workers : call[v].job # q
  BY ConstantsOK DEF TypeOK, ClaimInv
<1>4. QED
  BY <1>1, <1>2, <1>3 DEF ClaimInv

\* Scans, uploads, requests and recovery touch rows that no worker has.
LEMMA OthersRow ==
    ASSUME TypeOK, ClaimInv, NEW r \in Recordings,
           \/ Recover(r) \/ BeginInsert(r) \/ EndInsert(r) \/ Return(r)
           \/ BeginEdit(r) \/ EndEdit(r)
    PROVE  /\ UNCHANGED <<pc, call>>
           /\ \A q \in Recordings \ {r} : status'[q] = status[q]
           /\ \A v \in Workers : call[v].job # r
<1>1. UNCHANGED <<pc, call>>
  BY DEF Recover, BeginInsert, EndInsert, Return, BeginEdit, EndEdit
<1>2. \A q \in Recordings \ {r} : status'[q] = status[q]
  BY DEF TypeOK, Recover, BeginInsert, EndInsert, Return, BeginEdit, EndEdit
<1>3. ASSUME NEW v \in Workers, call[v].job = r PROVE FALSE
  <2>1. \/ pc[v] = "claimed" /\ status[r] \in Tiers
        \/ pc[v] = "working" /\ status[r] = "busy"
    BY <1>3, ConstantsOK DEF ClaimInv
  <2>2. r \notin editing
    BY <1>3 DEF ClaimInv
  <2>3. QED
    BY <1>3, <2>1, <2>2
    DEF Tiers, Recover, BeginInsert, EndInsert, Return, BeginEdit, EndEdit
<1>4. QED
  BY <1>1, <1>2, <1>3

LEMMA OthersClaims ==
    ASSUME TypeOK, ClaimInv, Others
    PROVE  ClaimInv'
<1> PICK r \in Recordings : \/ Recover(r) \/ BeginInsert(r) \/ EndInsert(r) \/ Return(r)
                            \/ BeginEdit(r) \/ EndEdit(r)
  BY DEF Others
<1>1. CASE Recover(r) \/ BeginInsert(r) \/ EndInsert(r) \/ Return(r)
  <2>1. UNCHANGED editing /\ status[r] \notin Tiers
    BY <1>1 DEF Recover, BeginInsert, EndInsert, Return, Tiers
  <2>2. editing' = editing \ {r}
    BY <2>1 DEF ClaimInv
  <2>3. QED
    BY <2>2, OthersRow, NobodysRow
<1>2. CASE BeginEdit(r)
  <2>1. UNCHANGED status /\ status[r] \in Tiers /\ editing' = editing \cup {r}
    BY <1>2 DEF BeginEdit
  <2>2. QED
    BY <2>1, OthersRow DEF ClaimInv, OneHolder
<1>3. CASE EndEdit(r)
  <2>1. editing' = editing \ {r}
    BY <1>3 DEF EndEdit
  <2>2. QED
    BY <2>1, OthersRow, NobodysRow
<1>4. QED
  BY <1>1, <1>2, <1>3

LEMMA InitClaims == Init => ClaimInv
BY DEF Init, ClaimInv, OneHolder, NoCall

LEMMA StepClaims == TypeOK /\ ClaimInv /\ [Next]_vars => ClaimInv'
<1> SUFFICES ASSUME TypeOK, ClaimInv, [Next]_vars PROVE ClaimInv'
  OBVIOUS
<1>1. CASE Next
  BY <1>1, OthersClaims, QuietSteps, QuietClaims, ClaimClaims, AfterClaims
  DEF Next, WorkerStep
<1>2. CASE UNCHANGED vars
  BY <1>2 DEF vars, ClaimInv, OneHolder
<1>3. QED
  BY <1>1, <1>2

\* No two workers ever have one recording, and nobody changes a row that one has.
THEOREM ClaimsExclusive == Spec => []ClaimInv
BY InitType, StepType, InitClaims, StepClaims, PTL DEF Spec

-----------------------------------------------------------------------------
(* claim_next implements the abstract queue. *)

\* What the queue sees of the workers.
Holder == [w \in Workers |-> call[w].job]

\* A step that concerns only the row r adds r to the queue, takes it out, or neither.
LEMMA OneRow ==
    ASSUME NEW r, \A q \in Recordings \ {r} : q \in Waiting' <=> q \in Waiting
    PROVE  Waiting' \in {Waiting, Waiting \cup {r}, Waiting \ {r}}
BY DEF Waiting

LEMMA InitQueue == Init => Queue!Init
BY DEF Init, Queue!Init, Waiting, NoCall

LEMMA QuietQueue == Quiet => UNCHANGED Queue!vars
<1> SUFFICES ASSUME Quiet PROVE UNCHANGED <<Waiting, Holder>>
  BY DEF Queue!vars, Holder
<1>1. Waiting' = Waiting
  BY DEF Quiet, Waiting
<1>2. Holder' = Holder
  BY DEF Quiet, Holder
<1>3. QED
  BY <1>1, <1>2

LEMMA ClaimQueue ==
    ASSUME TypeOK, ClaimInv, NEW w \in Workers, Claim(w)
    PROVE  Queue!Take(w)
<1>1. PICK r \in Recordings : /\ r \in Claimable(w, call[w].target, pc[w])
                              /\ call' = [call EXCEPT ![w].job = r]
  BY DEF Claim, Claimable
<1>2. /\ pc[w] \in Tiers /\ status[r] \in Tiers /\ r # None
      /\ \A v \in Workers \ {w} : pc[v] = "claimed" => call[v].job # r
  BY <1>1, ConstantsOK DEF Claim, Claimable, RowFree
<1>3. Moves(w, "claimed", r) /\ UNCHANGED status
  BY <1>1 DEF Claim, TypeOK, Calls, Moves
<1>4. Holder[w] = None
  BY <1>2 DEF ClaimInv, Tiers, Holder
<1>5. r \in Waiting /\ Waiting' = Waiting \ {r}
  <2>1. pc[w] # "claimed"
    BY <1>2 DEF Tiers
  <2>2. QED
    BY <1>2, <1>3, <2>1 DEF Waiting, Moves
<1>6. Holder' = [Holder EXCEPT ![w] = r]
  BY <1>3 DEF Holder, Moves
<1>7. QED
  BY <1>4, <1>5, <1>6 DEF Queue!Take, Holder

LEMMA AfterQueue ==
    ASSUME TypeOK, ClaimInv, NEW w \in Workers,
           Begin(w) \/ SetAside(w) \/ Finish(w) \/ Crash(w)
    PROVE  Queue!Release(w) \/ UNCHANGED Queue!vars
<1> DEFINE r == call[w].job
<1>1. CASE r = None
  <2>1. Crash(w) /\ pc[w] \notin {"claimed", "working"}
    BY <1>1, AfterClaim DEF TypeOK
  <2>2. Moves(w, "idle", None) /\ UNCHANGED <<status, editing>>
    BY <2>1, AfterClaim
  <2>3. Quiet
    BY <1>1, <2>1, <2>2 DEF Quiet, Moves
  <2>4. QED
    BY <2>3, QuietQueue
<1>2. CASE r # None
  <2>1. r \in Recordings /\ pc[w] \in {"claimed", "working"}
    BY <1>2 DEF TypeOK, Calls, ClaimInv
  <2>2. r \notin Waiting
    BY <2>1 DEF ClaimInv, Waiting, Tiers
  <2>3. ASSUME NEW s, NEW j \in {None, r}, Moves(w, s, j),
               \A q \in Recordings \ {r} : status'[q] = status[q]
        PROVE  Waiting' \in {Waiting, Waiting \cup {r}}
    <3>1. ASSUME NEW q \in Recordings \ {r} PROVE q \in Waiting' <=> q \in Waiting
      <4>1. call[w].job # q /\ call'[w].job # q
        BY <2>3, ConstantsOK DEF Moves
      <4>2. QED
        BY <2>3, <4>1 DEF Waiting, Moves
    <3>2. Waiting' \in {Waiting, Waiting \cup {r}, Waiting \ {r}}
      BY <3>1, OneRow
    <3>3. QED
      BY <2>2, <3>2
  <2>4. CASE Begin(w)
    <3>1. Moves(w, "working", r) /\ status' = [status EXCEPT ![r] = "busy"]
      BY <2>4, AfterClaim
    <3>2. r \notin Waiting'
      BY <2>1, <3>1 DEF Waiting, TypeOK, Tiers
    <3>3. Waiting' = Waiting
      BY <2>3, <3>1, <3>2 DEF TypeOK
    <3>4. Holder' = Holder
      BY <3>1 DEF Holder, Moves
    <3>5. QED
      BY <3>3, <3>4 DEF Queue!vars, Holder
  <2>5. CASE SetAside(w) \/ Finish(w) \/ Crash(w)
    <3>1. /\ Moves(w, "idle", None)
          /\ \A q \in Recordings \ {r} : status'[q] = status[q]
      BY <2>5, AfterClaim DEF TypeOK
    <3>2. Waiting' \in {Waiting, Waiting \cup {r}}
      BY <2>3, <3>1
    <3>3. Holder' = [Holder EXCEPT ![w] = None] /\ Holder[w] = r
      BY <3>1 DEF Holder, Moves
    <3>4. QED
      BY <1>2, <3>2, <3>3 DEF Queue!Release, Holder
  <2>6. QED
    BY <2>4, <2>5
<1>3. QED
  BY <1>1, <1>2

LEMMA OthersQueue ==
    ASSUME TypeOK, ClaimInv, Others
    PROVE  [Queue!Next]_(Queue!vars)
<1> PICK r \in Recordings : \/ Recover(r) \/ BeginInsert(r) \/ EndInsert(r) \/ Return(r)
                            \/ BeginEdit(r) \/ EndEdit(r)
  BY DEF Others
<1>1. /\ UNCHANGED <<pc, call>>
      /\ \A q \in Recordings \ {r} : status'[q] = status[q]
      /\ \A v \in Workers : call[v].job # r
  BY OthersRow
<1>2. Waiting' \in {Waiting, Waiting \cup {r}, Waiting \ {r}}
  BY <1>1, OneRow DEF Waiting
<1>3. Holder' = Holder
  BY <1>1 DEF Holder
<1>4. ~Queue!Held(r)
  BY <1>1 DEF Queue!Held
<1>5. CASE Waiting' = Waiting
  BY <1>3, <1>5 DEF Queue!vars, Holder
<1>6. CASE Waiting' = Waiting \cup {r}
  <2>1. Queue!Offer(r)
    BY <1>3, <1>4, <1>6 DEF Queue!Offer, Holder
  <2>2. QED
    BY <2>1 DEF Queue!Next
<1>7. CASE Waiting' = Waiting \ {r}
  <2>1. Queue!Withdraw(r)
    BY <1>3, <1>7 DEF Queue!Withdraw, Holder
  <2>2. QED
    BY <2>1 DEF Queue!Next
<1>8. QED
  BY <1>2, <1>5, <1>6, <1>7

LEMMA StepQueue == TypeOK /\ ClaimInv /\ [Next]_vars => [Queue!Next]_(Queue!vars)
<1> SUFFICES ASSUME TypeOK, ClaimInv, [Next]_vars PROVE [Queue!Next]_(Queue!vars)
  OBVIOUS
<1>1. CASE Others
  BY <1>1, OthersQueue
<1>2. ASSUME NEW w \in Workers,
             \/ Look(w) \/ Sort(w) \/ Lock(w) \/ NextTier(w) \/ NextRound(w) \/ GiveUp(w)
      PROVE  UNCHANGED Queue!vars
  BY <1>2, QuietSteps, QuietQueue
<1>3. ASSUME NEW w \in Workers, Claim(w) PROVE Queue!Next
  BY <1>3, ClaimQueue DEF Queue!Next
<1>4. ASSUME NEW w \in Workers, Begin(w) \/ SetAside(w) \/ Finish(w) \/ Crash(w)
      PROVE  [Queue!Next]_(Queue!vars)
  BY <1>4, AfterQueue DEF Queue!Next
<1>5. CASE UNCHANGED vars
  BY <1>5 DEF vars, Queue!vars, Waiting
<1>6. QED
  BY <1>1, <1>2, <1>3, <1>4, <1>5 DEF Next, WorkerStep

\* claim_next, with its locks, stamps and rollbacks, is a queue that gives each
\* recording to one worker at a time.
THEOREM Implements == Spec => IsQueue
<1>1. Init => Queue!Init
  BY InitQueue
<1>2. Init => TypeOK /\ ClaimInv
  BY InitType, InitClaims
<1>3. TypeOK /\ ClaimInv /\ [Next]_vars => TypeOK' /\ ClaimInv'
  BY StepType, StepClaims
<1>4. TypeOK /\ ClaimInv /\ [Next]_vars => [Queue!Next]_(Queue!vars)
  BY StepQueue
<1>5. QED
  BY <1>1, <1>2, <1>3, <1>4, PTL DEF Spec, IsQueue, Queue!Spec
-----------------------------------------------------------------------------
(* Bounded waiting: what claim_next may still pass over workspace s. *)

\* The workspaces before s by the committed stamps.
Front(s) == {t \in Workspaces : stamp[t] < stamp[s] \/ (stamp[t] = stamp[s] /\ t < s)}

\* Those before s in the order a worker has sorted and not yet used.
Ahead(w, s) ==
    {t \in Workspaces \ {s} :
       pc[w] = "lock" /\ \E i, j \in DOMAIN call[w].order :
                           i < j /\ call[w].order[i] = t /\ call[w].order[j] = s}

\* A worker that takes no workspace twice before it takes s, and whose stamps, once
\* they are committed, put what it has taken behind s.
Fresh(w, s) ==
    \/ call[w].taken = {} /\ pc[w] \notin {"sort", "lock"}
    \/ /\ s \in call[w].eligible /\ stamp[s] < call[w].now
       /\ call[w].rounds = Cardinality(call[w].eligible \ call[w].taken)
       /\ Ahead(w, s) \cap call[w].taken = {}

Ready(w, s) == (Front(s) \cup Ahead(w, s)) \ call[w].taken

\* How often a worker may still pass s over, in this call and in those that follow.  Of
\* a call that is not fresh only the rounds count; its end may put all others before
\* s again, for every worker.
Again == Cardinality(Workers) * Rivals
Left(w, s) == IF Fresh(w, s) THEN Cardinality(Ready(w, s)) ELSE call[w].rounds + Again

LeftOf(s) == [w \in Workers |-> Left(w, s)]
Total(s) == SumFunctionOnSet(LeftOf(s), Workers)

\* What a worker keeps of its call, by where it stands in it.
CallInv ==
    \A w \in Workers :
      /\ pc[w] \in {"idle", "working"} => call[w].taken = {}
      /\ pc[w] \in Tiers /\ call[w].taken = {} => call[w].rounds = 0
      /\ call[w].rounds <= Cardinality(Workspaces)
      /\ pc[w] = "lock" =>
           call[w].eligible = {call[w].order[i] : i \in DOMAIN call[w].order}

\* A workspace has been passed over so often that what is left stays within the bound.
WaitInv ==
    \A s \in Workspaces :
      IF Servable(s) THEN passed[s] + Total(s) <= Allowed(crashes) ELSE passed[s] = 0

\* The numbers in these definitions are natural numbers.
LEMMA WaitNumbers ==
    ASSUME TypeOK, NEW s \in Workspaces, NEW w \in Workers
    PROVE  /\ Cardinality(Workers) \in Nat /\ Cardinality(Workspaces) \in Nat
           /\ Rivals \in Nat /\ Cardinality(Workspaces) = Rivals + 1
           /\ Again \in Nat /\ Rivals <= Again
           /\ call[w].rounds \in Nat /\ call[w].now \in Nat
<1>1. Cardinality(Workers) \in Nat /\ Cardinality(Workers) # 0
  BY ConstantsOK, FS_CardinalityType, FS_EmptySet
<1>2. Cardinality(Workspaces) \in Nat /\ Cardinality(Workspaces) # 0
  BY ConstantsOK, FS_CardinalityType, FS_EmptySet
<1>3. Rivals \in Nat /\ Cardinality(Workspaces) = Rivals + 1
  BY <1>2 DEF Rivals
<1>4. ASSUME NEW m \in Nat, NEW n \in Nat, m # 0 PROVE m * n \in Nat /\ n <= m * n
  <2>1. (m - 1) * n \in Nat /\ m * n = (m - 1) * n + n
    BY <1>4
  <2>2. QED
    BY <2>1
<1>5. Again \in Nat /\ Rivals <= Again
  BY <1>1, <1>3, <1>4 DEF Again
<1>6. QED
  BY <1>1, <1>2, <1>3, <1>5 DEF TypeOK, Calls

\* A set of workspaces without s has at most as many as there are others.
LEMMA Fewer ==
    ASSUME NEW s \in Workspaces, NEW S, S \subseteq Workspaces \ {s}
    PROVE  /\ IsFiniteSet(S) /\ Cardinality(S) \in Nat
           /\ Cardinality(S) <= Rivals
<1>1. IsFiniteSet(Workspaces \ {s}) /\ Cardinality(Workspaces \ {s}) = Rivals
  BY ConstantsOK, FS_RemoveElement DEF Rivals
<1>2. QED
  BY <1>1, FS_Subset, FS_CardinalityType

\* Neither is more left than a worker's rounds and its end come to.
LEMMA LeftBounds ==
    ASSUME TypeOK, NEW s \in Workspaces, NEW w \in Workers
    PROVE  /\ Left(w, s) \in Nat
           /\ Ready(w, s) \subseteq Workspaces \ {s} /\ Front(s) \subseteq Workspaces \ {s}
           /\ Fresh(w, s) => Left(w, s) = Cardinality(Ready(w, s)) /\ Left(w, s) <= Rivals
           /\ ~Fresh(w, s) => Left(w, s) = call[w].rounds + Again
           /\ CallInv => Left(w, s) <= Cardinality(Workspaces) + Again
<1>1. Front(s) \subseteq Workspaces \ {s}
  BY ConstantsOK DEF Front, TypeOK
<1>2. Ready(w, s) \subseteq Workspaces \ {s}
  BY <1>1 DEF Ready, Ahead
<1>3. CASE Fresh(w, s)
  BY <1>1, <1>2, <1>3, Fewer, WaitNumbers DEF Left
<1>4. CASE ~Fresh(w, s)
  BY <1>1, <1>2, <1>4, WaitNumbers DEF Left, CallInv
<1>5. QED
  BY <1>3, <1>4

\* Together it is never more than Turns.
LEMMA TotalBounds ==
    ASSUME TypeOK, CallInv, NEW s \in Workspaces
    PROVE  Total(s) \in Nat /\ Total(s) <= Turns /\ Turns \in Nat
<1> DEFINE f == LeftOf(s)
           k == Cardinality(Workspaces) + Again
<1>1. \A w \in Workers : f[w] \in Nat /\ f[w] <= k
  BY LeftBounds DEF LeftOf
<1>2. k \in Nat
  <2>1. Cardinality(Workers) \in Nat /\ Cardinality(Workspaces) \in Nat /\ Rivals \in Nat
    BY ConstantsOK, FS_CardinalityType, FS_EmptySet DEF Rivals
  <2>2. QED
    BY <2>1 DEF Again
<1>3. Turns = Cardinality(Workers) * k /\ Turns \in Nat
  <2>1. Cardinality(Workers) \in Nat
    BY ConstantsOK, FS_CardinalityType
  <2>2. QED
    BY <1>2, <2>1 DEF Turns, Again
<1>4. IsFiniteSet(Workers)
  BY ConstantsOK
<1> HIDE DEF f, k
<1>5. SumFunctionOnSet(f, Workers) \in Nat /\ SumFunctionOnSet(f, Workers) <= Cardinality(Workers) * k
  BY <1>1, <1>2, <1>4, SumNat, SumBounded
<1>6. QED
  BY <1>3, <1>5 DEF Total, f

-----------------------------------------------------------------------------
(* What each step does to a call. *)

\* The order of stamps and clocks is all that counts of them.
LEMMA RankOrders ==
    ASSUME TypeOK, NEW x \in Times \cup {0}, NEW y \in Times \cup {0}
    PROVE  /\ x < y <=> Rank(x) < Rank(y)
           /\ x = y <=> Rank(x) = Rank(y)
           /\ Rank(x) < Cardinality(Times) + 1
<1>1. Times \subseteq Nat \ {0} /\ IsFiniteSet(Times)
  BY TimesFinite DEF Times, TypeOK, Calls
<1>2. ASSUME NEW a \in Times \cup {0}, NEW b \in Times \cup {0}, a < b
      PROVE  Rank(a) < Rank(b)
  <2> DEFINE A == {u \in Times : u <= a}
             B == {u \in Times : u <= b}
  <2>1. A \in SUBSET B /\ b \in B /\ b \notin A
    <3>1. a \in Nat /\ b \in Nat /\ b \in Times
      BY <1>1, <1>2
    <3>2. \A u \in Times : u <= a => u <= b
      BY <1>1, <1>2, <3>1
    <3>3. b <= b /\ ~(b <= a)
      BY <1>2, <3>1
    <3>4. QED
      BY <3>1, <3>2, <3>3
  <2>2. IsFiniteSet(B)
    BY <1>1, FS_Subset
  <2> HIDE DEF A, B
  <2>3. Cardinality(A) <= Cardinality(B) /\ Cardinality(A) # Cardinality(B)
    BY <2>1, <2>2, FS_Subset
  <2>4. Cardinality(A) \in Nat /\ Cardinality(B) \in Nat
    BY <2>1, <2>2, FS_Subset, FS_CardinalityType
  <2>5. QED
    BY <2>3, <2>4 DEF A, B, Rank
<1>3. Rank(x) < Cardinality(Times) + 1
  <2>1. {u \in Times : u <= x} \in SUBSET Times
    OBVIOUS
  <2>2. Cardinality({u \in Times : u <= x}) <= Cardinality(Times)
    BY <1>1, <2>1, FS_Subset
  <2>3. Cardinality(Times) \in Nat /\ Cardinality({u \in Times : u <= x}) \in Nat
    BY <1>1, <2>1, FS_Subset, FS_CardinalityType
  <2>4. QED
    BY <2>2, <2>3 DEF Rank
<1>4. Rank(x) \in Nat /\ Rank(y) \in Nat
  BY RankType
<1>5. x < y \/ x = y \/ y < x
  BY <1>1
<1>6. QED
  BY <1>1, <1>2, <1>3, <1>4, <1>5

\* A worker's call but for the number of its time.
SameCall(v) ==
    /\ call'[v].eligible = call[v].eligible /\ call'[v].rounds = call[v].rounds
    /\ call'[v].order = call[v].order /\ call'[v].taken = call[v].taken

\* Nothing has become of the order of stamps as worker v sees it.
SameOrder(v, s) ==
    /\ Front(s)' = Front(s)
    /\ stamp'[s] < call'[v].now <=> stamp[s] < call[v].now

\* The part of the step is played by where a worker stands.
SamePlace(v) ==
    /\ pc'[v] = "lock" <=> pc[v] = "lock"
    /\ pc'[v] = "sort" <=> pc[v] = "sort"

LEMMA SameLeft ==
    ASSUME NEW s \in Workspaces, NEW v \in Workers, SameCall(v), SameOrder(v, s), SamePlace(v)
    PROVE  /\ Left(v, s)' = Left(v, s)
           /\ Fresh(v, s)' <=> Fresh(v, s)
           /\ Ready(v, s)' = Ready(v, s)
<1>1. Ahead(v, s)' = Ahead(v, s)
  BY DEF Ahead, SameCall, SamePlace
<1>2. Fresh(v, s)' <=> Fresh(v, s)
  BY <1>1 DEF Fresh, SameCall, SameOrder, SamePlace
<1>3. Ready(v, s)' = Ready(v, s)
  BY <1>1 DEF Ready, SameCall, SameOrder
<1>4. QED
  BY <1>2, <1>3 DEF Left, SameCall, Again, Rivals

\* What claim_next found when it started, before s can be served, has s in it; and the
\* clocks it renumbers keep their order.
LEMMA LookEffect ==
    ASSUME TypeOK, CallInv, NEW w \in Workers, Look(w), NEW s \in Workspaces
    PROVE  /\ \A v \in Workers \ {w} : SameCall(v) /\ SamePlace(v) /\ SameOrder(v, s)
           /\ Front(s)' = Front(s)
           /\ pc[w] = "idle" /\ pc'[w] \in {"pending", "sort"}
           /\ pc'[w] = "pending" => call'[w].taken = {} /\ call'[w].rounds = 0
           /\ pc'[w] = "sort" =>
                /\ call'[w].taken = {} /\ stamp'[s] < call'[w].now
                /\ call'[w].rounds = Cardinality(call'[w].eligible)
                /\ call'[w].eligible \subseteq Workspaces
                /\ Servable(s) => s \in call'[w].eligible
<1> DEFINE found == {Home[r] : r \in {q \in Recordings : status[q] \in Tiers}}
<1>1. pc[w] = "idle" /\ found \subseteq Workspaces /\ (Servable(s) => s \in found)
  <2>1. pc[w] = "idle" /\ found \subseteq Workspaces
    BY ConstantsOK DEF Look
  <2>2. ASSUME Servable(s) PROVE s \in found
    <3>1. PICK tier \in Tiers : Claimable(w, s, tier) # {}
      BY <2>2 DEF Servable
    <3>2. PICK r \in Recordings : Home[r] = s /\ status[r] = tier
      BY <3>1 DEF Claimable
    <3>3. QED
      BY <3>1, <3>2
  <2>3. QED
    BY <2>1, <2>2
<1>2. ASSUME NEW t \in Workspaces,
             pc' = [pc EXCEPT ![w] = "pending"],
             call' = [call EXCEPT ![w] = [NoCall EXCEPT !.eligible = found, !.target = t]],
             UNCHANGED stamp
      PROVE  /\ \A v \in Workers \ {w} : SameCall(v) /\ SamePlace(v) /\ SameOrder(v, s)
             /\ Front(s)' = Front(s)
             /\ pc'[w] = "pending" /\ call'[w].taken = {} /\ call'[w].rounds = 0
  <2> DEFINE new == [NoCall EXCEPT !.eligible = found, !.target = t]
  <2>1. new.taken = {} /\ new.rounds = 0
    BY DEF NoCall
  <2> HIDE DEF new
  <2>2. Front(s)' = Front(s)
    BY <1>2 DEF Front
  <2>3. /\ \A v \in Workers : call'[v] = IF v = w THEN new ELSE call[v]
        /\ \A v \in Workers : pc'[v] = IF v = w THEN "pending" ELSE pc[v]
    BY <1>2 DEF TypeOK, new
  <2>4. QED
    BY <1>2, <2>1, <2>2, <2>3 DEF SameCall, SamePlace, SameOrder
<1>3. ASSUME pc' = [pc EXCEPT ![w] = "sort"],
             call' = [v \in Workers |->
                        IF v = w
                        THEN [NoCall EXCEPT !.eligible = found,
                                !.rounds = Cardinality(found),
                                !.now = Cardinality(Times) + 1]
                        ELSE [call[v] EXCEPT !.now = Rank(@)]],
             stamp' = [t \in Workspaces |-> Rank(stamp[t])]
      PROVE  /\ \A v \in Workers \ {w} : SameCall(v) /\ SamePlace(v) /\ SameOrder(v, s)
             /\ Front(s)' = Front(s)
             /\ pc'[w] = "sort" /\ call'[w].taken = {} /\ stamp'[s] < call'[w].now
             /\ call'[w].rounds = Cardinality(found) /\ call'[w].eligible = found
  <2> DEFINE new == [NoCall EXCEPT !.eligible = found, !.rounds = Cardinality(found),
                                   !.now = Cardinality(Times) + 1]
             ranked(v) == [call[v] EXCEPT !.now = Rank(@)]
  <2>1. /\ new.taken = {} /\ new.rounds = Cardinality(found) /\ new.eligible = found
        /\ new.now = Cardinality(Times) + 1
    BY DEF NoCall
  <2>2. ASSUME NEW v \in Workers
        PROVE  /\ ranked(v).eligible = call[v].eligible /\ ranked(v).rounds = call[v].rounds
               /\ ranked(v).order = call[v].order /\ ranked(v).taken = call[v].taken
               /\ ranked(v).now = Rank(call[v].now)
    BY DEF TypeOK, Calls
  <2>3. /\ \A v \in Workers : call'[v] = IF v = w THEN new ELSE ranked(v)
        /\ \A v \in Workers : pc'[v] = IF v = w THEN "sort" ELSE pc[v]
        /\ \A t \in Workspaces : stamp'[t] = Rank(stamp[t])
    BY <1>3 DEF TypeOK
  <2> HIDE DEF new, ranked, found
  <2>4. /\ \A t \in Workspaces : stamp[t] \in Times \cup {0}
        /\ \A v \in Workers : call[v].now \in Times \cup {0}
    BY DEF Times
  <2>5. Front(s)' = Front(s)
    <3>1. \A t \in Workspaces : /\ stamp'[t] < stamp'[s] <=> stamp[t] < stamp[s]
                                /\ stamp'[t] = stamp'[s] <=> stamp[t] = stamp[s]
      BY <2>3, <2>4, RankOrders
    <3>2. QED
      BY <3>1 DEF Front
  <2>6. ASSUME NEW v \in Workers \ {w} PROVE SameCall(v) /\ SamePlace(v) /\ SameOrder(v, s)
    <3>1. call'[v] = ranked(v) /\ pc'[v] = pc[v]
      BY <2>3
    <3>2. stamp'[s] < call'[v].now <=> stamp[s] < call[v].now
      BY <2>2, <2>3, <2>4, <3>1, RankOrders
    <3>3. QED
      BY <2>2, <2>5, <3>1, <3>2 DEF SameCall, SamePlace, SameOrder
  <2>7. stamp'[s] < call'[w].now
    BY <2>1, <2>3, <2>4, RankOrders
  <2>8. QED
    BY <2>1, <2>3, <2>5, <2>6, <2>7
<1> HIDE DEF found
<1>4. \/ pc'[w] = "pending" /\ call'[w].taken = {} /\ call'[w].rounds = 0
      \/ /\ pc'[w] = "sort" /\ call'[w].taken = {} /\ stamp'[s] < call'[w].now
         /\ call'[w].rounds = Cardinality(found) /\ call'[w].eligible = found
  BY <1>2, <1>3 DEF Look, found
<1>5. /\ \A v \in Workers \ {w} : SameCall(v) /\ SamePlace(v) /\ SameOrder(v, s)
      /\ Front(s)' = Front(s)
  BY <1>2, <1>3 DEF Look, found
<1>6. QED
  BY <1>1, <1>4, <1>5

\* Only worker w's call changes, and no stamp.
Alone(w) ==
    /\ UNCHANGED stamp
    /\ \A v \in Workers \ {w} : call'[v] = call[v] /\ pc'[v] = pc[v]

LEMMA AloneOthers ==
    ASSUME NEW w \in Workers, Alone(w), NEW s \in Workspaces
    PROVE  /\ Front(s)' = Front(s)
           /\ \A v \in Workers \ {w} : SameCall(v) /\ SamePlace(v) /\ SameOrder(v, s)
<1>1. Front(s)' = Front(s)
  BY DEF Alone, Front
<1>2. QED
  BY <1>1 DEF Alone, SameCall, SamePlace, SameOrder

\* Sorting: all candidates are in the order, and those before s are in front of it or
\* have been taken with an older clock.
LEMMA SortEffect ==
    ASSUME TypeOK, CallInv, NEW w \in Workers, Sort(w)
    PROVE  /\ Alone(w)
           /\ pc[w] = "sort" /\ pc'[w] = "lock"
           /\ call'[w].eligible = call[w].eligible /\ call'[w].rounds = call[w].rounds
           /\ call'[w].taken = call[w].taken /\ call'[w].now = call[w].now
           /\ \A i, j \in DOMAIN call'[w].order :
                i < j => Before(w, call'[w].order[i], call'[w].order[j])
           /\ call[w].eligible = {call'[w].order[i] : i \in DOMAIN call'[w].order}
<1> DEFINE E == call[w].eligible
           n == Cardinality(E)
<1>1. PICK order \in [1..n -> E] :
        /\ \A i, j \in DOMAIN order : i < j => Before(w, order[i], order[j])
        /\ call' = [call EXCEPT ![w].order = order]
  BY DEF Sort
<1>2. /\ call'[w].eligible = E /\ call'[w].rounds = call[w].rounds
      /\ call'[w].taken = call[w].taken /\ call'[w].now = call[w].now
      /\ call'[w].order = order /\ \A v \in Workers \ {w} : call'[v] = call[v]
  BY <1>1 DEF TypeOK, Calls
<1>3. IsFiniteSet(E) /\ n \in Nat /\ E \subseteq Workspaces
  <2>1. E \in SUBSET Workspaces
    BY DEF TypeOK, Calls
  <2>2. QED
    BY <2>1, ConstantsOK, FS_Subset, FS_CardinalityType
<1> HIDE DEF E, n
<1>4. \A s \in Workspaces : ~Before(w, s, s)
  BY ConstantsOK DEF Before, Stamp, TypeOK, Calls
<1>5. order \in Injection(1..n, E)
  <2>1. \A i, j \in 1..n : order[i] = order[j] => i = j
    <3> SUFFICES ASSUME NEW i \in 1..n, NEW j \in 1..n, order[i] = order[j], i # j PROVE FALSE
      OBVIOUS
    <3>1. i < j \/ j < i
      BY <1>3
    <3>2. order[i] \in Workspaces /\ DOMAIN order = 1..n
      BY <1>1, <1>3
    <3>3. QED
      BY <1>1, <1>4, <3>1, <3>2
  <2>2. QED
    BY <1>1, <2>1 DEF Injection, IsInjective
<1>6. order \in Surjection(1..n, E)
  <2>1. Cardinality(1..n) = n
    BY <1>3, FS_Interval
  <2>2. QED
    BY <1>3, <1>5, <2>1, FS_Injection DEF n
<1>7. E = {order[i] : i \in DOMAIN order}
  BY <1>1, <1>6 DEF Surjection
<1>8. pc[w] = "sort" /\ pc' = [pc EXCEPT ![w] = "lock"] /\ UNCHANGED stamp
  BY DEF Sort
<1>9. pc'[w] = "lock" /\ \A v \in Workers \ {w} : pc'[v] = pc[v]
  BY <1>8 DEF TypeOK
<1>10. E = {call'[w].order[i] : i \in DOMAIN call'[w].order}
  BY <1>2, <1>7, Zenon
<1>11. /\ call'[w].eligible = E /\ pc'[w] = "lock" /\ Alone(w)
       /\ \A i, j \in DOMAIN call'[w].order :
            i < j => Before(w, call'[w].order[i], call'[w].order[j])
  BY <1>1, <1>2, <1>8, <1>9 DEF Alone
<1>12. QED
  BY <1>2, <1>8, <1>10, <1>11, Zenon DEF E

\* Locking takes the first workspace of the order that is free.
LEMMA LockEffect ==
    ASSUME TypeOK, NEW w \in Workers, Lock(w)
    PROVE  /\ Alone(w)
           /\ pc[w] = "lock" /\ pc'[w] = "pending"
           /\ call'[w].eligible = call[w].eligible /\ call'[w].now = call[w].now
           /\ call[w].rounds # 0 /\ call'[w].rounds = call[w].rounds - 1
           /\ \E i \in DOMAIN call[w].order :
                /\ call[w].order[i] \in Workspaces
                /\ call'[w].target = call[w].order[i]
                /\ call'[w].taken = call[w].taken \cup {call[w].order[i]}
                /\ \A j \in 1..(i - 1) : ~WorkspaceFree(w, call[w].order[j])
<1>1. PICK i \in DOMAIN call[w].order :
        /\ \A j \in 1..(i - 1) : ~WorkspaceFree(w, call[w].order[j])
        /\ call' = [call EXCEPT ![w] =
                      [call[w] EXCEPT !.order = <<>>, !.target = call[w].order[i],
                                      !.rounds = @ - 1,
                                      !.taken = @ \cup {call[w].order[i]}]]
  BY DEF Lock
<1>2. /\ call'[w].eligible = call[w].eligible /\ call'[w].now = call[w].now
      /\ call'[w].rounds = call[w].rounds - 1 /\ call'[w].target = call[w].order[i]
      /\ call'[w].taken = call[w].taken \cup {call[w].order[i]}
      /\ \A v \in Workers \ {w} : call'[v] = call[v]
  BY <1>1 DEF TypeOK, Calls
<1>3. call[w].order[i] \in Workspaces
  BY <1>1 DEF TypeOK, Calls
<1>4. pc[w] = "lock" /\ pc' = [pc EXCEPT ![w] = "pending"] /\ UNCHANGED stamp /\ call[w].rounds # 0
  BY DEF Lock, TypeOK, Calls
<1>5. pc'[w] = "pending" /\ \A v \in Workers \ {w} : pc'[v] = pc[v]
  BY <1>4 DEF TypeOK
<1>6. QED
  BY <1>1, <1>2, <1>3, <1>4, <1>5 DEF Alone

\* Steps inside the workspace that was taken leave the rest of the call alone.
LEMMA InsideEffect ==
    ASSUME TypeOK, NEW w \in Workers, Claim(w) \/ NextTier(w) \/ NextRound(w)
    PROVE  /\ Alone(w) /\ SameCall(w) /\ call'[w].now = call[w].now
           /\ pc[w] \in Tiers /\ pc'[w] \in {"enriching", "claimed", "sort"}
           /\ pc'[w] = "sort" => call[w].rounds # 0
<1>1. UNCHANGED stamp /\ pc[w] \in Tiers
  BY DEF Claim, NextTier, NextRound, Tiers
<1>2. /\ pc'[w] \in {"enriching", "claimed", "sort"}
      /\ \A v \in Workers \ {w} : pc'[v] = pc[v]
  BY DEF Claim, NextTier, NextRound, TypeOK
<1>3. pc'[w] = "sort" => call[w].rounds # 0
  BY DEF Claim, NextTier, NextRound, RoundLeft, TypeOK, Calls
<1>4. /\ SameCall(w) /\ call'[w].now = call[w].now
      /\ \A v \in Workers \ {w} : call'[v] = call[v]
  <2>1. CASE Claim(w)
    <3>1. PICK r : call' = [call EXCEPT ![w].job = r]
      BY <2>1 DEF Claim
    <3>2. QED
      BY <3>1 DEF TypeOK, Calls, SameCall
  <2>2. CASE NextTier(w)
    BY <2>2 DEF NextTier, SameCall
  <2>3. CASE NextRound(w)
    <3>1. call' = [call EXCEPT ![w].target = None]
      BY <2>3 DEF NextRound
    <3>2. QED
      BY <3>1 DEF TypeOK, Calls, SameCall
  <2>4. QED
    BY <2>1, <2>2, <2>3
<1>5. QED
  BY <1>1, <1>2, <1>3, <1>4 DEF Alone

\* The end of a call, with or without its stamps.
LEMMA EndEffect ==
    ASSUME TypeOK, NEW w \in Workers,
           GiveUp(w) \/ Begin(w) \/ SetAside(w) \/ Finish(w) \/ Crash(w)
    PROVE  /\ \A v \in Workers \ {w} : call'[v] = call[v] /\ pc'[v] = pc[v]
           /\ call'[w].taken = {} /\ call'[w].rounds = 0
           /\ pc'[w] \in {"idle", "working"}
           /\ GiveUp(w) \/ Finish(w) \/ Crash(w) => UNCHANGED stamp
           /\ Begin(w) \/ SetAside(w) => stamp' = [s \in Workspaces |-> Stamp(w, s)]
<1>1. PICK c : /\ call' = [call EXCEPT ![w] = c] /\ c.taken = {} /\ c.rounds = 0
  <2>1. CASE Begin(w)
    <3> DEFINE c == [NoCall EXCEPT !.job = call[w].job]
    <3>1. c.taken = {} /\ c.rounds = 0
      BY DEF NoCall
    <3>2. call' = [call EXCEPT ![w] = c]
      BY <2>1 DEF Begin
    <3> HIDE DEF c
    <3>3. QED
      BY <3>1, <3>2
  <2>2. CASE GiveUp(w) \/ SetAside(w) \/ Finish(w) \/ Crash(w)
    <3>1. call' = [call EXCEPT ![w] = NoCall]
      BY <2>2 DEF GiveUp, SetAside, Finish, Crash, Rollback
    <3>2. NoCall.taken = {} /\ NoCall.rounds = 0
      BY DEF NoCall
    <3>3. QED
      BY <3>1, <3>2
  <2>3. QED
    BY <2>1, <2>2
<1>2. PICK p \in {"idle", "working"} : pc' = [pc EXCEPT ![w] = p]
  BY DEF GiveUp, Begin, SetAside, Finish, Crash, Rollback
<1>3. /\ GiveUp(w) \/ Finish(w) \/ Crash(w) => UNCHANGED stamp
      /\ Begin(w) \/ SetAside(w) => stamp' = [s \in Workspaces |-> Stamp(w, s)]
  BY DEF GiveUp, Begin, SetAside, Commit, Finish, Crash
<1>4. QED
  BY <1>1, <1>2, <1>3 DEF TypeOK

\* What a call keeps, at each of its steps.
LEMMA StepCalls == TypeOK /\ CallInv /\ [Next]_vars => CallInv'
<1> SUFFICES ASSUME TypeOK, CallInv, [Next]_vars PROVE CallInv'
  OBVIOUS
<1> DEFINE Keeps(v) ==
             /\ pc[v] \in {"idle", "working"} => call[v].taken = {}
             /\ pc[v] \in Tiers /\ call[v].taken = {} => call[v].rounds = 0
             /\ call[v].rounds <= Cardinality(Workspaces)
             /\ pc[v] = "lock" =>
                  call[v].eligible = {call[v].order[i] : i \in DOMAIN call[v].order}
<1>1. Cardinality(Workspaces) \in Nat /\ 0 <= Cardinality(Workspaces)
  BY ConstantsOK, FS_CardinalityType
<1>2. \A v \in Workers : call[v].rounds \in Nat
  BY DEF TypeOK, Calls
<1>3. ASSUME NEW w \in Workers, Look(w) PROVE CallInv'
  <2>1. PICK s \in Workspaces : TRUE
    <3> DEFINE found == {Home[r] : r \in {q \in Recordings : status[q] \in Tiers}}
    <3>1. found # {}
      <4>1. Cardinality({}) = 0
        BY FS_EmptySet
      <4>2. found = {} => ~(Cardinality(found) > 1)
        BY <4>1
      <4>3. (\E s \in Workspaces : found = {s}) \/ Cardinality(found) > 1
        BY <1>3 DEF Look
      <4> HIDE DEF found
      <4>4. QED
        BY <4>2, <4>3
    <3>2. QED
      BY <3>1, ConstantsOK
  <2>2. \A v \in Workers \ {w} : SameCall(v) /\ pc'[v] = pc[v]
    <3>1. \A v \in Workers \ {w} : pc'[v] = pc[v]
      BY <1>3 DEF Look, TypeOK
    <3>2. QED
      BY <1>3, <2>1, <3>1, LookEffect
  <2>3. /\ pc'[w] \in {"pending", "sort"} /\ call'[w].taken = {}
        /\ pc'[w] = "pending" => call'[w].rounds = 0
        /\ pc'[w] = "sort" => /\ call'[w].rounds = Cardinality(call'[w].eligible)
                              /\ call'[w].eligible \subseteq Workspaces
    BY <1>3, <2>1, LookEffect
  <2>4. call'[w].rounds <= Cardinality(Workspaces)
    <3>1. call'[w].eligible \subseteq Workspaces => Cardinality(call'[w].eligible) <= Cardinality(Workspaces)
      BY ConstantsOK, FS_Subset
    <3>2. QED
      BY <1>1, <2>3, <3>1
  <2>5. \A v \in Workers \ {w} : Keeps(v)'
    BY <2>2 DEF CallInv, SameCall
  <2>6. Keeps(w)'
    BY <2>3, <2>4 DEF Tiers
  <2>7. QED
    BY <2>5, <2>6 DEF CallInv
<1>4. ASSUME NEW w \in Workers, Sort(w) PROVE CallInv'
  <2>1. \A v \in Workers \ {w} : Keeps(v)'
    BY <1>4, SortEffect DEF CallInv, Alone
  <2>2. Keeps(w)'
    BY <1>4, SortEffect DEF CallInv, Tiers
  <2>3. QED
    BY <2>1, <2>2 DEF CallInv
<1>5. ASSUME NEW w \in Workers, Lock(w) PROVE CallInv'
  <2>1. \A v \in Workers \ {w} : Keeps(v)'
    BY <1>5, LockEffect DEF CallInv, Alone
  <2>2. Keeps(w)'
    <3>1. /\ pc'[w] = "pending" /\ call'[w].taken # {}
          /\ call'[w].rounds = call[w].rounds - 1 /\ call[w].rounds <= Cardinality(Workspaces)
      BY <1>5, LockEffect DEF CallInv
    <3>2. QED
      BY <1>1, <1>2, <3>1
  <2>3. QED
    BY <2>1, <2>2 DEF CallInv
<1>6. ASSUME NEW w \in Workers, Claim(w) \/ NextTier(w) \/ NextRound(w) PROVE CallInv'
  <2>1. \A v \in Workers \ {w} : Keeps(v)'
    BY <1>6, InsideEffect DEF CallInv, Alone
  <2>2. Keeps(w)'
    BY <1>6, InsideEffect DEF CallInv, SameCall, Tiers
  <2>3. QED
    BY <2>1, <2>2 DEF CallInv
<1>7. ASSUME NEW w \in Workers, GiveUp(w) \/ Begin(w) \/ SetAside(w) \/ Finish(w) \/ Crash(w)
      PROVE  CallInv'
  <2>1. \A v \in Workers \ {w} : Keeps(v)'
    BY <1>7, EndEffect DEF CallInv
  <2>2. Keeps(w)'
    BY <1>1, <1>7, EndEffect DEF Tiers
  <2>3. QED
    BY <2>1, <2>2 DEF CallInv
<1>8. CASE UNCHANGED <<pc, call>>
  BY <1>8 DEF CallInv
<1>9. CASE Others
  BY <1>8, <1>9 DEF Others, Recover, BeginInsert, EndInsert, Return, BeginEdit, EndEdit
<1>10. QED
  BY <1>3, <1>4, <1>5, <1>6, <1>7, <1>8, <1>9 DEF Next, WorkerStep, vars

-----------------------------------------------------------------------------
(* What each step leaves. *)

\* The bounds of what is left, before and after a step.
Within ==
    \A s \in Workspaces, w \in Workers :
      /\ Left(w, s) \in Nat
      /\ Ready(w, s) \subseteq Workspaces \ {s} /\ Front(s) \subseteq Workspaces \ {s}
      /\ Fresh(w, s) => Left(w, s) = Cardinality(Ready(w, s)) /\ Left(w, s) <= Rivals
      /\ ~Fresh(w, s) => Left(w, s) = call[w].rounds + Again

LEMMA AlwaysWithin == TypeOK => Within
BY LeftBounds DEF Within

LEMMA Bounds ==
    ASSUME TypeOK, NEW s \in Workspaces, NEW w \in Workers
    PROVE  /\ Left(w, s) \in Nat
           /\ Ready(w, s) \subseteq Workspaces \ {s} /\ Front(s) \subseteq Workspaces \ {s}
           /\ Fresh(w, s) => Left(w, s) = Cardinality(Ready(w, s)) /\ Left(w, s) <= Rivals
           /\ ~Fresh(w, s) => Left(w, s) = call[w].rounds + Again
           /\ Rivals \in Nat /\ Again \in Nat /\ Rivals <= Again /\ call[w].rounds \in Nat
BY LeftBounds, WaitNumbers

LEMMA BoundsNext ==
    ASSUME TypeOK', NEW s \in Workspaces, NEW w \in Workers
    PROVE  /\ Left(w, s)' \in Nat
           /\ Ready(w, s)' \subseteq Workspaces \ {s} /\ Front(s)' \subseteq Workspaces \ {s}
           /\ Fresh(w, s)' => Left(w, s)' = Cardinality(Ready(w, s)') /\ Left(w, s)' <= Rivals
           /\ ~Fresh(w, s)' => Left(w, s)' = call'[w].rounds + Again
<1>1. TypeOK' => Within'
  BY AlwaysWithin, PTL
<1>2. Within'
  BY <1>1
<1>3. Again' = Again /\ Rivals' = Rivals
  BY DEF Again, Rivals
<1>4. QED
  BY <1>2, <1>3 DEF Within

LEMMA ServableFree ==
    ASSUME NEW s \in Workspaces, Servable(s), NEW w \in Workers
    PROVE  s \notin call[w].taken /\ WorkspaceFree(w, s)
BY DEF Servable, WorkspaceFree

\* A worker that starts again has all that is before s still to pass.
LEMMA Anew ==
    ASSUME NEW s \in Workspaces, NEW w \in Workers,
           call[w].taken = {}, pc[w] \notin {"sort", "lock"}
    PROVE  Fresh(w, s) /\ Ready(w, s) = Front(s)
BY DEF Fresh, Ready, Ahead

LEMMA AnewNext ==
    ASSUME NEW s \in Workspaces, NEW w \in Workers,
           call'[w].taken = {}, pc'[w] \notin {"sort", "lock"}
    PROVE  Fresh(w, s)' /\ Ready(w, s)' = Front(s)'
BY DEF Fresh, Ready, Ahead

LEMMA LookLeft ==
    ASSUME TypeOK, TypeOK', CallInv, NEW w \in Workers, Look(w), NEW s \in Workspaces, Servable(s)
    PROVE  Left(w, s)' <= Left(w, s)
<1>1. Fresh(w, s) /\ Ready(w, s) = Front(s)
  BY LookEffect, Anew DEF CallInv
<1>2. Fresh(w, s)' /\ Ready(w, s)' = Front(s)'
  <2>1. CASE pc'[w] = "pending"
    BY <2>1, LookEffect, AnewNext
  <2>2. CASE pc'[w] = "sort"
    <3>1. Ahead(w, s)' = {}
      BY <2>2 DEF Ahead
    <3>2. /\ call'[w].taken = {} /\ s \in call'[w].eligible /\ stamp'[s] < call'[w].now
          /\ call'[w].rounds = Cardinality(call'[w].eligible)
      BY <2>2, LookEffect
    <3>3. call'[w].eligible \ call'[w].taken = call'[w].eligible
      BY <3>2
    <3>4. QED
      BY <3>1, <3>2, <3>3 DEF Fresh, Ready
  <2>3. QED
    BY <2>1, <2>2, LookEffect
<1>3. Left(w, s) = Cardinality(Front(s)) /\ Left(w, s)' = Cardinality(Front(s)) /\ Left(w, s) \in Nat
  BY <1>1, <1>2, LookEffect, Bounds, BoundsNext
<1>4. QED
  BY <1>3

\* A call that is not fresh has more left than any that is.
LEMMA NotFreshLeft ==
    ASSUME TypeOK, TypeOK', NEW w \in Workers, NEW s \in Workspaces,
           ~Fresh(w, s), NEW n \in Nat, call'[w].rounds + n <= call[w].rounds
    PROVE  Left(w, s)' + n <= Left(w, s)
<1>1. /\ Left(w, s) = call[w].rounds + Again /\ Left(w, s)' \in Nat
      /\ Rivals \in Nat /\ Again \in Nat /\ Rivals <= Again
      /\ call[w].rounds \in Nat /\ call'[w].rounds \in Nat
  BY Bounds, BoundsNext DEF TypeOK, Calls
<1>2. CASE Fresh(w, s)'
  <2>1. Left(w, s)' <= Rivals
    BY <1>2, BoundsNext
  <2>2. QED
    BY <1>1, <2>1
<1>3. CASE ~Fresh(w, s)'
  <2>1. Left(w, s)' = call'[w].rounds + Again
    BY <1>3, BoundsNext
  <2>2. QED
    BY <1>1, <2>1
<1>4. QED
  BY <1>2, <1>3

\* The order a fresh worker sorts has before s only what is in front of s.
LEMMA SortLeft ==
    ASSUME TypeOK, TypeOK', CallInv, NEW w \in Workers, Sort(w), NEW s \in Workspaces, Servable(s)
    PROVE  Left(w, s)' <= Left(w, s)
<1>1. /\ call'[w].eligible = call[w].eligible /\ call'[w].rounds = call[w].rounds
      /\ call'[w].taken = call[w].taken /\ call'[w].now = call[w].now
      /\ pc[w] = "sort" /\ pc'[w] = "lock" /\ stamp' = stamp
      /\ \A i, j \in DOMAIN call'[w].order :
           i < j => Before(w, call'[w].order[i], call'[w].order[j])
  BY SortEffect DEF Alone
<1>2. CASE Fresh(w, s)
  <2>1. /\ s \in call[w].eligible /\ stamp[s] < call[w].now /\ s \notin call[w].taken
        /\ call[w].rounds = Cardinality(call[w].eligible \ call[w].taken)
    BY <1>1, <1>2, ServableFree DEF Fresh
  <2>2. ASSUME NEW t \in Ahead(w, s)'
        PROVE  t \in Front(s) /\ t \notin call[w].taken
    <3>1. t \in Workspaces /\ Before(w, t, s)
      BY <1>1, <2>2 DEF Ahead
    <3>2. /\ stamp[t] \in Nat /\ stamp[s] \in Nat /\ call[w].now \in Nat
          /\ t \in Nat /\ s \in Nat
      BY <3>1, ConstantsOK DEF TypeOK, Calls
    <3>3. Stamp(w, s) = stamp[s]
      BY <2>1 DEF Stamp
    <3>4. t \notin call[w].taken
      BY <2>1, <3>1, <3>2, <3>3 DEF Before, Stamp
    <3>5. Stamp(w, t) = stamp[t]
      BY <3>4 DEF Stamp
    <3>6. QED
      BY <3>1, <3>3, <3>4, <3>5 DEF Before, Front
  <2>3. Front(s)' = Front(s)
    BY <1>1 DEF Front
  <2>4. Fresh(w, s)'
    BY <1>1, <2>1, <2>2 DEF Fresh
  <2>5. Ready(w, s)' \subseteq Ready(w, s)
    BY <1>1, <2>2, <2>3 DEF Ready
  <2>6. IsFiniteSet(Ready(w, s)) /\ Ready(w, s)' \in SUBSET Ready(w, s)
    BY <2>5, Bounds, ConstantsOK, FS_Subset
  <2>7. QED
    BY <1>2, <2>4, <2>6, Bounds, BoundsNext, FS_Subset
<1>3. CASE ~Fresh(w, s)
  <2>1. call[w].rounds + 0 <= call[w].rounds /\ Left(w, s)' \in Nat
    BY Bounds, BoundsNext
  <2>2. Left(w, s)' + 0 <= Left(w, s)
    BY <1>1, <1>3, <2>1, NotFreshLeft
  <2>3. QED
    BY <2>1, <2>2
<1>4. QED
  BY <1>2, <1>3

\* A worker that passes s over, or takes anything else, has one turn less.
LEMMA LockLeft ==
    ASSUME TypeOK, TypeOK', CallInv, NEW w \in Workers, Lock(w), NEW s \in Workspaces,
           Servable(s), s \notin call'[w].taken
    PROVE  Left(w, s)' + 1 <= Left(w, s)
<1>1. PICK i \in DOMAIN call[w].order :
        /\ call[w].order[i] \in Workspaces
        /\ call'[w].taken = call[w].taken \cup {call[w].order[i]}
        /\ \A j \in 1..(i - 1) : ~WorkspaceFree(w, call[w].order[j])
  BY LockEffect
<1> DEFINE t == call[w].order[i]
<1>2. /\ pc[w] = "lock" /\ pc'[w] = "pending" /\ stamp' = stamp
      /\ call'[w].eligible = call[w].eligible /\ call'[w].now = call[w].now
      /\ call[w].rounds # 0 /\ call'[w].rounds = call[w].rounds - 1
  BY LockEffect DEF Alone
<1>3. call[w].rounds \in Nat /\ DOMAIN call[w].order \subseteq Nat \ {0} /\ t # s
  <2>1. call[w].rounds \in Nat /\ call[w].order \in Seq(Workspaces)
    BY DEF TypeOK, Calls
  <2>2. DOMAIN call[w].order = 1..Len(call[w].order) /\ Len(call[w].order) \in Nat
    BY <2>1
  <2>3. DOMAIN call[w].order \subseteq Nat \ {0}
    BY <2>2
  <2>4. QED
    BY <1>1, <2>1, <2>3
<1>4. CASE Fresh(w, s)
  <2>1. /\ s \in call[w].eligible /\ stamp[s] < call[w].now
        /\ call[w].rounds = Cardinality(call[w].eligible \ call[w].taken)
        /\ Ahead(w, s) \cap call[w].taken = {}
    BY <1>2, <1>4 DEF Fresh
  <2>2. call[w].eligible = {call[w].order[j] : j \in DOMAIN call[w].order}
    BY <1>2 DEF CallInv
  <2>3. PICK k \in DOMAIN call[w].order : call[w].order[k] = s
    BY <2>1, <2>2
  <2>4. i < k
    <3>1. ~(k \in 1..(i - 1))
      BY <1>1, <2>3, ServableFree
    <3>2. k # i
      BY <1>3, <2>3
    <3>3. QED
      BY <1>3, <3>1, <3>2
  <2>5. t \in Ahead(w, s)
    BY <1>1, <1>2, <1>3, <2>3, <2>4 DEF Ahead
  <2>6. t \notin call[w].taken /\ t \in call[w].eligible
    BY <2>1, <2>2, <2>5
  <2> HIDE DEF t
  <2>7. Ahead(w, s)' = {}
    BY <1>2 DEF Ahead
  <2>8. Front(s)' = Front(s)
    BY <1>2 DEF Front
  <2>9. call'[w].taken = call[w].taken \cup {t}
    BY <1>1 DEF t
  <2>10. Fresh(w, s)'
    <3> DEFINE E == call[w].eligible \ call[w].taken
    <3>1. IsFiniteSet(E) /\ t \in E /\ call'[w].eligible \ call'[w].taken = E \ {t}
      <4>1. call[w].eligible \in SUBSET Workspaces
        BY DEF TypeOK, Calls
      <4>2. E \in SUBSET Workspaces
        BY <4>1
      <4>3. IsFiniteSet(E)
        BY <4>2, ConstantsOK, FS_Subset
      <4>4. QED
        BY <1>2, <2>6, <2>9, <4>3
    <3>2. Cardinality(E \ {t}) = Cardinality(E) - 1
      <4> HIDE DEF E
      <4>1. QED
        BY <3>1, FS_RemoveElement
    <3>3. call'[w].rounds = Cardinality(call'[w].eligible \ call'[w].taken)
      BY <1>2, <2>1, <3>1, <3>2
    <3>4. QED
      BY <1>2, <2>1, <2>7, <3>3 DEF Fresh
  <2>11. t \in Ready(w, s) /\ Ready(w, s)' \subseteq Ready(w, s) \ {t}
    BY <2>5, <2>6, <2>7, <2>8, <2>9 DEF Ready
  <2> DEFINE R == Ready(w, s)
             Q == Ready(w, s)'
  <2>12. IsFiniteSet(R)
    BY Bounds, ConstantsOK, FS_Subset
  <2>13. t \in R /\ Q \in SUBSET (R \ {t})
    BY <2>11
  <2>14. Left(w, s) = Cardinality(R) /\ Left(w, s)' = Cardinality(Q)
    BY <1>4, <2>10, Bounds, BoundsNext
  <2> HIDE DEF R, Q
  <2>15. /\ IsFiniteSet(R \ {t}) /\ Cardinality(R \ {t}) = Cardinality(R) - 1
         /\ Cardinality(R) \in Nat
    BY <2>12, <2>13, FS_RemoveElement, FS_CardinalityType
  <2>16. Cardinality(Q) <= Cardinality(R \ {t}) /\ Cardinality(Q) \in Nat
    BY <2>13, <2>15, FS_Subset, FS_CardinalityType
  <2>17. QED
    BY <2>14, <2>15, <2>16
<1>5. CASE ~Fresh(w, s)
  <2>1. call'[w].rounds + 1 <= call[w].rounds
    BY <1>2, <1>3
  <2>2. QED
    BY <1>5, <2>1, NotFreshLeft
<1>6. QED
  BY <1>4, <1>5

LEMMA InsideLeft ==
    ASSUME TypeOK, TypeOK', CallInv, NEW w \in Workers, Claim(w) \/ NextTier(w) \/ NextRound(w),
           NEW s \in Workspaces
    PROVE  Left(w, s)' <= Left(w, s)
<1>1. /\ Alone(w) /\ SameCall(w) /\ call'[w].now = call[w].now
      /\ pc[w] \in Tiers /\ pc'[w] \in {"enriching", "claimed", "sort"}
      /\ pc'[w] = "sort" => call[w].rounds # 0
  BY InsideEffect
<1>2. Ahead(w, s) = {} /\ Ahead(w, s)' = {} /\ Front(s)' = Front(s)
  BY <1>1 DEF Ahead, Front, Alone, Tiers
<1>3. CASE Fresh(w, s)
  <2>1. Fresh(w, s)'
    <3>1. CASE call[w].taken = {}
      <4>1. pc'[w] # "sort" /\ call'[w].taken = {}
        BY <1>1, <3>1 DEF CallInv, SameCall
      <4>2. QED
        BY <1>1, <4>1 DEF Fresh
    <3>2. CASE call[w].taken # {}
      BY <1>1, <1>2, <1>3, <3>2 DEF Fresh, SameCall, Alone
    <3>3. QED
      BY <3>1, <3>2
  <2>2. Ready(w, s)' = Ready(w, s)
    BY <1>1, <1>2 DEF Ready, SameCall
  <2>3. Left(w, s)' = Left(w, s) /\ Left(w, s) \in Nat
    BY <1>3, <2>1, <2>2, Bounds, BoundsNext
  <2>4. QED
    BY <2>3
<1>4. CASE ~Fresh(w, s)
  <2>1. call[w].rounds \in Nat /\ call'[w].rounds = call[w].rounds /\ Left(w, s)' \in Nat
    BY <1>1, Bounds, BoundsNext DEF SameCall
  <2>2. Left(w, s)' + 0 <= Left(w, s)
    BY <1>4, <2>1, NotFreshLeft
  <2>3. QED
    BY <2>1, <2>2, Bounds
<1>5. QED
  BY <1>3, <1>4

\* The end of any call leaves no more than the others.
LEMMA EndsFresh ==
    ASSUME TypeOK, TypeOK', NEW w \in Workers,
           GiveUp(w) \/ Begin(w) \/ SetAside(w) \/ Finish(w) \/ Crash(w),
           NEW s \in Workspaces
    PROVE  /\ Left(w, s)' = Cardinality(Front(s)') /\ Left(w, s)' <= Rivals
           /\ Left(w, s)' \in Nat
           /\ \A v \in Workers \ {w} : SameCall(v) /\ SamePlace(v) /\ call'[v].now = call[v].now
<1>1. Fresh(w, s)' /\ Ready(w, s)' = Front(s)'
  BY EndEffect, AnewNext
<1>2. \A v \in Workers \ {w} : SameCall(v) /\ SamePlace(v) /\ call'[v].now = call[v].now
  BY EndEffect DEF SameCall, SamePlace
<1>3. QED
  BY <1>1, <1>2, BoundsNext

\* Without its stamps: a worker gives up, while s can be served, only when it has
\* nothing to lose by it; a crash loses what it has taken.
LEMMA RollbackLeft ==
    ASSUME TypeOK, TypeOK', CallInv, NEW w \in Workers, GiveUp(w) \/ Finish(w) \/ Crash(w),
           NEW s \in Workspaces, Servable(s)
    PROVE  Left(w, s)' <= IF Crash(w) THEN Left(w, s) + Rivals ELSE Left(w, s)
<1>1. /\ Left(w, s)' = Cardinality(Front(s)') /\ Left(w, s)' <= Rivals /\ Left(w, s)' \in Nat
      /\ Left(w, s) \in Nat /\ Rivals \in Nat /\ Again \in Nat /\ Rivals <= Again
      /\ call[w].rounds \in Nat
  BY EndsFresh, Bounds
<1>2. Front(s)' = Front(s)
  BY EndEffect DEF Front
<1>3. CASE Crash(w)
  BY <1>1, <1>3
<1>4. CASE ~Crash(w) /\ call[w].taken = {} /\ pc[w] \notin {"sort", "lock"}
  <2>1. Left(w, s) = Cardinality(Front(s))
    BY <1>4, Anew, Bounds
  <2>2. QED
    BY <1>1, <1>2, <1>4, <2>1
<1>5. CASE ~Crash(w) /\ ~Fresh(w, s)
  <2>1. Left(w, s) = call[w].rounds + Again
    BY <1>5, Bounds
  <2>2. QED
    BY <1>1, <1>5, <2>1
<1>6. CASE ~Crash(w) /\ Fresh(w, s) /\ ~(call[w].taken = {} /\ pc[w] \notin {"sort", "lock"})
  <2>1. /\ s \in call[w].eligible
        /\ call[w].rounds = Cardinality(call[w].eligible \ call[w].taken)
    BY <1>6 DEF Fresh
  <2>2. s \notin call[w].taken /\ WorkspaceFree(w, s)
    BY ServableFree
  <2>3. GiveUp(w)
    BY <1>6 DEF Finish, CallInv
  <2>4. call[w].rounds = 0
    BY <2>1, <2>2, <2>3, <1>1 DEF GiveUp, RoundLeft
  <2>5. call[w].eligible \ call[w].taken = {}
    <3>1. call[w].eligible \ call[w].taken \in SUBSET Workspaces
      BY DEF TypeOK, Calls
    <3>2. QED
      BY <2>1, <2>4, <3>1, ConstantsOK, FS_Subset, FS_EmptySet
  <2>6. QED
    BY <2>1, <2>2, <2>5
<1>7. QED
  BY <1>3, <1>4, <1>5, <1>6

\* With its stamps: what is before s afterwards, and what the others have left.
LEMMA CommitLeft ==
    ASSUME TypeOK, TypeOK', CallInv, NEW w \in Workers, Begin(w) \/ SetAside(w),
           NEW s \in Workspaces, Servable(s)
    PROVE  /\ Fresh(w, s) => \A v \in Workers : Left(v, s)' <= Left(v, s)
           /\ ~Fresh(w, s) =>
                /\ \A v \in Workers \ {w} : Left(v, s)' <= Left(v, s) + Rivals
                /\ Left(w, s)' <= Rivals /\ Again <= Left(w, s)
<1>1. /\ Left(w, s)' = Cardinality(Front(s)') /\ Left(w, s)' <= Rivals
      /\ \A v \in Workers \ {w} : SameCall(v) /\ SamePlace(v) /\ call'[v].now = call[v].now
  BY EndsFresh
<1>2. s \notin call[w].taken /\ pc[w] = "claimed"
  BY ServableFree DEF Begin, SetAside, Commit
<1>3. /\ \A t \in Workspaces : stamp'[t] = IF t \in call[w].taken THEN call[w].now ELSE stamp[t]
      /\ stamp'[s] = stamp[s]
  BY <1>2, EndEffect DEF Stamp
<1>4. \A v \in Workers \ {w} : /\ Ahead(v, s)' = Ahead(v, s)
                               /\ Fresh(v, s)' <=> Fresh(v, s)
  <2> SUFFICES ASSUME NEW v \in Workers \ {w}
               PROVE  Ahead(v, s)' = Ahead(v, s) /\ (Fresh(v, s)' <=> Fresh(v, s))
    OBVIOUS
  <2>1. Ahead(v, s)' = Ahead(v, s)
    BY <1>1 DEF Ahead, SameCall, SamePlace
  <2>2. QED
    BY <1>1, <1>3, <2>1 DEF Fresh, SameCall, SamePlace
<1>5. ASSUME Fresh(w, s), NEW v \in Workers PROVE Left(v, s)' <= Left(v, s)
  <2>1. Front(s)' \subseteq Front(s) \ call[w].taken
    <3>1. CASE call[w].taken = {}
      BY <1>3, <3>1 DEF Front
    <3>2. CASE call[w].taken # {}
      <4>1. stamp[s] < call[w].now
        BY <1>5, <3>2 DEF Fresh
      <4>2. \A t \in Front(s)' : t \notin call[w].taken
        <5>1. stamp[s] \in Nat /\ call[w].now \in Nat
          BY DEF TypeOK, Calls
        <5>2. QED
          BY <1>3, <4>1, <5>1 DEF Front
      <4>3. QED
        BY <1>3, <4>2 DEF Front
    <3>3. QED
      BY <3>1, <3>2
  <2>2. CASE v = w
    <3>1. Ready(w, s) = Front(s) \ call[w].taken
      BY <1>2 DEF Ready, Ahead
    <3>2. /\ Front(s)' \in SUBSET Ready(w, s) /\ IsFiniteSet(Ready(w, s))
          /\ Left(w, s) = Cardinality(Ready(w, s))
      BY <1>5, <2>1, <3>1, Bounds, ConstantsOK, FS_Subset
    <3>3. QED
      BY <1>1, <2>2, <3>2, FS_Subset
  <2>3. CASE v # w /\ Fresh(v, s)
    <3>1. Ready(v, s)' \subseteq Ready(v, s)
      BY <1>1, <1>4, <2>1, <2>3 DEF Ready, SameCall
    <3>2. Ready(v, s)' \in SUBSET Ready(v, s) /\ IsFiniteSet(Ready(v, s))
      BY <3>1, Bounds, ConstantsOK, FS_Subset
    <3>3. Left(v, s) = Cardinality(Ready(v, s)) /\ Left(v, s)' = Cardinality(Ready(v, s)')
      BY <1>4, <2>3, Bounds, BoundsNext
    <3>4. QED
      BY <3>2, <3>3, FS_Subset
  <2>4. CASE v # w /\ ~Fresh(v, s)
    <3>1. Left(v, s)' = Left(v, s) /\ Left(v, s) \in Nat
      BY <1>1, <1>4, <2>4, Bounds, BoundsNext DEF SameCall
    <3>2. QED
      BY <3>1
  <2>5. QED
    BY <2>2, <2>3, <2>4
<1>6. ASSUME ~Fresh(w, s), NEW v \in Workers \ {w}
      PROVE  Left(v, s)' <= Left(v, s) + Rivals
  <2>1. Left(v, s) \in Nat /\ Left(v, s)' \in Nat /\ Rivals \in Nat
    BY Bounds, BoundsNext
  <2>2. CASE Fresh(v, s)
    <3>1. Left(v, s)' <= Rivals
      BY <1>4, <2>2, BoundsNext
    <3>2. QED
      BY <2>1, <3>1
  <2>3. CASE ~Fresh(v, s)
    <3>1. Left(v, s)' = Left(v, s)
      BY <1>1, <1>4, <2>3, Bounds, BoundsNext DEF SameCall
    <3>2. QED
      BY <2>1, <3>1
  <2>4. QED
    BY <2>2, <2>3
<1>7. ASSUME ~Fresh(w, s) PROVE Again <= Left(w, s)
  <2>1. /\ Left(w, s) = call[w].rounds + Again
        /\ call[w].rounds \in Nat /\ Again \in Nat
    BY <1>7, Bounds
  <2>2. QED
    BY <2>1
<1>8. QED
  BY <1>1, <1>5, <1>6, <1>7

-----------------------------------------------------------------------------
(* What all workers have left together. *)

LEMMA LeftNumbers ==
    ASSUME TypeOK, TypeOK', NEW s \in Workspaces
    PROVE  /\ IsFiniteSet(Workers)
           /\ \A v \in Workers : LeftOf(s)[v] = Left(v, s) /\ LeftOf(s)[v] \in Nat
           /\ \A v \in Workers : LeftOf(s)'[v] = Left(v, s)' /\ LeftOf(s)'[v] \in Nat
           /\ Total(s) = SumFunctionOnSet(LeftOf(s), Workers) /\ Total(s) \in Nat
           /\ Total(s)' = SumFunctionOnSet(LeftOf(s)', Workers) /\ Total(s)' \in Nat
<1>1. IsFiniteSet(Workers)
  BY ConstantsOK
<1>2. \A v \in Workers : LeftOf(s)[v] = Left(v, s) /\ LeftOf(s)[v] \in Nat
  BY Bounds DEF LeftOf
<1>3. \A v \in Workers : LeftOf(s)'[v] = Left(v, s)' /\ LeftOf(s)'[v] \in Nat
  BY BoundsNext DEF LeftOf
<1>4. Total(s) = SumFunctionOnSet(LeftOf(s), Workers) /\ Total(s) \in Nat
  BY <1>1, <1>2, SumNat DEF Total
<1>5. Total(s)' = SumFunctionOnSet(LeftOf(s)', Workers) /\ Total(s)' \in Nat
  <2> DEFINE g == LeftOf(s)'
  <2>1. Total(s)' = SumFunctionOnSet(g, Workers) /\ \A v \in Workers : g[v] \in Nat
    BY <1>3 DEF Total
  <2> HIDE DEF g
  <2>2. SumFunctionOnSet(g, Workers) \in Nat
    BY <1>1, <2>1, SumNat
  <2>3. QED
    BY <2>1, <2>2 DEF g
<1>6. QED
  BY <1>1, <1>2, <1>3, <1>4, <1>5

\* One worker's share changes, and the total by as much.
LEMMA OneLess ==
    ASSUME TypeOK, TypeOK', NEW s \in Workspaces, NEW w \in Workers,
           \A v \in Workers \ {w} : Left(v, s)' = Left(v, s)
    PROVE  Total(s)' = Total(s) - Left(w, s) + Left(w, s)'
<1> DEFINE f == LeftOf(s)
           g == LeftOf(s)'
<1>1. /\ IsFiniteSet(Workers)
      /\ \A v \in Workers : f[v] = Left(v, s) /\ f[v] \in Nat
      /\ \A v \in Workers : g[v] = Left(v, s)' /\ g[v] \in Nat
      /\ Total(s) = SumFunctionOnSet(f, Workers) /\ Total(s)' = SumFunctionOnSet(g, Workers)
  BY LeftNumbers
<1> HIDE DEF f, g
<1>2. \A v \in Workers : v # w => f[v] = g[v]
  BY <1>1
<1>3. SumFunctionOnSet(g, Workers) = SumFunctionOnSet(f, Workers) - f[w] + g[w]
  BY <1>1, <1>2, SumUpdate
<1>4. QED
  BY <1>1, <1>3

\* No worker's share grows, nor does the total.
LEMMA NoneMore ==
    ASSUME TypeOK, TypeOK', NEW s \in Workspaces,
           \A v \in Workers : Left(v, s)' <= Left(v, s)
    PROVE  Total(s)' <= Total(s)
<1> DEFINE f == LeftOf(s)
           g == LeftOf(s)'
<1>1. /\ IsFiniteSet(Workers)
      /\ \A v \in Workers : f[v] = Left(v, s) /\ f[v] \in Nat
      /\ \A v \in Workers : g[v] = Left(v, s)' /\ g[v] \in Nat
      /\ Total(s) = SumFunctionOnSet(f, Workers) /\ Total(s)' = SumFunctionOnSet(g, Workers)
  BY LeftNumbers
<1> HIDE DEF f, g
<1>2. SumFunctionOnSet(g, Workers) <= SumFunctionOnSet(f, Workers)
  BY <1>1, SumMonotonic
<1>3. QED
  BY <1>1, <1>2

\* What the others gain by the end of a call that was not fresh, that call had left.
LEMMA PaidFor ==
    ASSUME TypeOK, TypeOK', NEW s \in Workspaces, NEW w \in Workers,
           \A v \in Workers \ {w} : Left(v, s)' <= Left(v, s) + Rivals,
           Left(w, s)' <= Rivals, Again <= Left(w, s)
    PROVE  Total(s)' <= Total(s)
<1> DEFINE f == LeftOf(s)
           g == LeftOf(s)'
           h == [v \in Workers |-> IF v = w THEN 0 ELSE f[v]]
<1>1. /\ IsFiniteSet(Workers)
      /\ \A v \in Workers : f[v] = Left(v, s) /\ f[v] \in Nat
      /\ \A v \in Workers : g[v] = Left(v, s)' /\ g[v] \in Nat
      /\ Total(s) = SumFunctionOnSet(f, Workers) /\ Total(s)' = SumFunctionOnSet(g, Workers)
      /\ Total(s) \in Nat /\ Total(s)' \in Nat
  BY LeftNumbers
<1>2. Rivals \in Nat /\ Again = Cardinality(Workers) * Rivals /\ Again \in Nat
  BY WaitNumbers DEF Again
<1> HIDE DEF f, g
<1>3. \A v \in Workers : h[v] = (IF v = w THEN 0 ELSE f[v]) /\ h[v] \in Nat
  BY <1>1
<1>4. h[w] = 0 /\ \A v \in Workers : v # w => f[v] = h[v]
  BY <1>3
<1> HIDE DEF h
<1>5. \A v \in Workers : h[v] \in Nat /\ g[v] \in Nat /\ g[v] <= h[v] + Rivals
  BY <1>1, <1>2, <1>3
<1>6. SumFunctionOnSet(g, Workers) <= SumFunctionOnSet(h, Workers) + Cardinality(Workers) * Rivals
  BY <1>1, <1>2, <1>5, SumGrows
<1>7. SumFunctionOnSet(h, Workers) = SumFunctionOnSet(f, Workers) - f[w] + h[w]
  BY <1>1, <1>3, <1>4, SumUpdate
<1>8. f[w] = Left(w, s) /\ f[w] \in Nat
  BY <1>1
<1>9. QED
  BY <1>1, <1>2, <1>4, <1>6, <1>7, <1>8

-----------------------------------------------------------------------------
(* No step leaves more than it takes. *)

\* What has been counted and what is left, before and after a step of worker w, while
\* s can be served.
LEMMA WorkerWait ==
    ASSUME TypeOK, TypeOK', CallInv, NEW w \in Workers, WorkerStep(w) \/ Crash(w),
           NEW s \in Workspaces, Servable(s), Servable(s)'
    PROVE  /\ Total(s)' + (IF PassesOver(s) THEN 1 ELSE 0)
                <= Total(s) + (IF Crash(w) THEN Rivals ELSE 0)
           /\ UNCHANGED crashes \/ Crash(w)
<1>1. UNCHANGED crashes \/ Crash(w)
  BY DEF WorkerStep, Look, Sort, Lock, Claim, NextTier, NextRound, GiveUp, Begin, SetAside,
         Commit, Finish
<1>2. /\ Total(s) \in Nat /\ Total(s)' \in Nat /\ Left(w, s) \in Nat /\ Left(w, s)' \in Nat
      /\ Rivals \in Nat
  BY LeftNumbers, Bounds, BoundsNext
<1>3. Front(s)' = Front(s) /\ (\A v \in Workers \ {w} : SameCall(v) /\ SamePlace(v) /\ SameOrder(v, s))
        => Total(s)' = Total(s) - Left(w, s) + Left(w, s)'
  BY SameLeft, OneLess
<1>4. ASSUME NEW v \in Workers, pc[v] = "lock", pc'[v] = "pending" PROVE Lock(w)
  <2>1. CASE v = w
    BY <1>4, <2>1, LookEffect, SortEffect, InsideEffect, EndEffect DEF WorkerStep
  <2>2. CASE v # w
    <3>1. pc'[v] = pc[v]
      <4>1. CASE Look(w)
        BY <2>2, <4>1 DEF Look, TypeOK
      <4>2. CASE ~Look(w)
        BY <2>2, <4>2, SortEffect, LockEffect, InsideEffect, EndEffect DEF WorkerStep, Alone
      <4>3. QED
        BY <4>1, <4>2
    <3>2. QED
      BY <1>4, <3>1
  <2>3. QED
    BY <2>1, <2>2
<1>5. PassesOver(s) => Lock(w)
  BY <1>4 DEF PassesOver
<1>6. CASE Look(w)
  <2>1. ~Lock(w) /\ ~Crash(w) /\ Left(w, s)' <= Left(w, s)
    BY <1>6, LookLeft DEF Look, Lock, Crash
  <2>2. Total(s)' = Total(s) - Left(w, s) + Left(w, s)'
    BY <1>3, <1>6, LookEffect
  <2>3. Total(s)' <= Total(s)
    BY <1>2, <2>1, <2>2
  <2>4. QED
    BY <1>1, <1>2, <1>5, <2>1, <2>3
<1>7. CASE Sort(w)
  <2>1. ~Lock(w) /\ Left(w, s)' <= Left(w, s)
    BY <1>7, SortLeft DEF Sort, Lock
  <2>2. Total(s)' = Total(s) - Left(w, s) + Left(w, s)'
    BY <1>3, <1>7, SortEffect, AloneOthers
  <2>3. Total(s)' <= Total(s)
    BY <1>2, <2>1, <2>2
  <2>4. QED
    BY <1>1, <1>2, <1>5, <2>1, <2>3
<1>8. CASE Lock(w)
  <2>1. s \notin call'[w].taken
    BY DEF Servable
  <2>2. Left(w, s)' + 1 <= Left(w, s)
    BY <1>8, <2>1, LockLeft
  <2>3. Total(s)' = Total(s) - Left(w, s) + Left(w, s)'
    BY <1>3, <1>8, LockEffect, AloneOthers
  <2>4. Total(s)' + 1 <= Total(s)
    BY <1>2, <2>2, <2>3
  <2>5. QED
    BY <1>1, <1>2, <2>4
<1>9. CASE Claim(w) \/ NextTier(w) \/ NextRound(w)
  <2>1. ~Lock(w) /\ Left(w, s)' <= Left(w, s)
    BY <1>9, InsideLeft DEF Claim, NextTier, NextRound, Lock, Tiers
  <2>2. Total(s)' = Total(s) - Left(w, s) + Left(w, s)'
    BY <1>3, <1>9, InsideEffect, AloneOthers
  <2>3. Total(s)' <= Total(s)
    BY <1>2, <2>1, <2>2
  <2>4. QED
    BY <1>1, <1>2, <1>5, <2>1, <2>3
<1>10. CASE GiveUp(w) \/ Finish(w) \/ Crash(w)
  <2>1. ~PassesOver(s)
    BY <1>10, EndEffect, LockEffect, <1>5
  <2>2. Left(w, s)' <= IF Crash(w) THEN Left(w, s) + Rivals ELSE Left(w, s)
    BY <1>10, RollbackLeft
  <2>3. Front(s)' = Front(s)
    BY <1>10, EndEffect DEF Front
  <2>4. \A v \in Workers \ {w} : SameCall(v) /\ SamePlace(v) /\ SameOrder(v, s)
    BY <1>10, <2>3, EndsFresh, EndEffect DEF SameOrder
  <2>5. Total(s)' = Total(s) - Left(w, s) + Left(w, s)'
    BY <1>3, <2>3, <2>4
  <2>6. QED
    BY <1>1, <1>2, <2>1, <2>2, <2>5
<1>11. CASE Begin(w) \/ SetAside(w)
  <2>1. ~PassesOver(s)
    BY <1>11, EndEffect, LockEffect, <1>5
  <2>2. Total(s)' <= Total(s)
    <3>1. CASE Fresh(w, s)
      BY <1>11, <3>1, CommitLeft, NoneMore
    <3>2. CASE ~Fresh(w, s)
      BY <1>11, <3>2, CommitLeft, PaidFor
    <3>3. QED
      BY <3>1, <3>2
  <2>3. QED
    BY <1>1, <1>2, <2>1, <2>2
<1>12. QED
  BY <1>6, <1>7, <1>8, <1>9, <1>10, <1>11 DEF WorkerStep

\* Nothing is left or taken by the steps of the others.
LEMMA OthersWait ==
    ASSUME TypeOK, TypeOK', UNCHANGED <<stamp, pc, call>>, NEW s \in Workspaces
    PROVE  Total(s)' = Total(s)
<1>1. Front(s)' = Front(s)
  BY DEF Front
<1>2. \A v \in Workers : SameCall(v) /\ SamePlace(v) /\ SameOrder(v, s)
  BY <1>1 DEF SameCall, SamePlace, SameOrder
<1>3. \A v \in Workers : Left(v, s)' = Left(v, s) /\ Left(v, s) \in Nat
  BY <1>2, SameLeft, Bounds
<1>4. Total(s)' <= Total(s)
  BY <1>3, NoneMore
<1>5. LeftOf(s)' = LeftOf(s)
  BY <1>3 DEF LeftOf
<1>6. QED
  BY <1>5 DEF Total

\* The bound grows with the crashes.
LEMMA AllowedNumbers ==
    ASSUME TypeOK, CallInv, NEW s \in Workspaces, NEW n \in Nat
    PROVE  /\ Allowed(n) \in Nat /\ Turns <= Allowed(n)
           /\ Allowed(n + 1) = Allowed(n) + Rivals
           /\ Total(s) \in Nat /\ Total(s) <= Turns
<1>1. /\ Turns \in Nat /\ Total(s) \in Nat /\ Total(s) <= Turns
  BY TotalBounds
<1>2. Rivals \in Nat
  BY ConstantsOK, FS_CardinalityType, FS_EmptySet DEF Rivals
<1>3. n * Rivals \in Nat /\ (n + 1) * Rivals = n * Rivals + Rivals
  BY <1>2
<1>4. QED
  BY <1>1, <1>2, <1>3 DEF Allowed

\* Afterwards as before; stated for the state after a step.
Counts == \A s \in Workspaces : Total(s) \in Nat /\ Total(s) <= Turns

LEMMA CountsHold == TypeOK /\ CallInv => Counts
BY TotalBounds DEF Counts

LEMMA StepWait == TypeOK /\ CallInv /\ WaitInv /\ [Next]_vars => WaitInv'
<1> SUFFICES ASSUME TypeOK, CallInv, WaitInv, [Next]_vars, NEW s \in Workspaces
             PROVE  IF Servable(s)' THEN passed'[s] + Total(s)' <= Allowed(crashes')
                    ELSE passed'[s] = 0
  BY DEF WaitInv, Allowed, Turns, Rivals
<1>1. TypeOK' /\ CallInv'
  BY StepType, StepCalls
<1>2. TypeOK' /\ CallInv' => Counts'
  BY CountsHold, PTL
<1>3. /\ Total(s)' \in Nat /\ Total(s)' <= Turns
      /\ Total(s) \in Nat /\ Total(s) <= Turns /\ Turns \in Nat
  <2>1. Total(s)' \in Nat /\ Total(s)' <= Turns'
    BY <1>1, <1>2 DEF Counts
  <2>2. Turns' = Turns
    BY DEF Turns, Rivals
  <2>3. QED
    BY <2>1, <2>2, TotalBounds
<1>4. /\ crashes \in Nat /\ crashes' \in Nat /\ passed[s] \in Nat
      /\ Turns <= Allowed(crashes') /\ Allowed(crashes) \in Nat /\ Allowed(crashes') \in Nat
      /\ Allowed(crashes + 1) = Allowed(crashes) + Rivals /\ Rivals \in Nat
  <2>1. crashes \in Nat /\ crashes' \in Nat /\ passed[s] \in Nat
    BY <1>1, ConstantsOK DEF TypeOK
  <2>2. Rivals \in Nat
    BY ConstantsOK, FS_CardinalityType, FS_EmptySet DEF Rivals
  <2>3. QED
    BY <2>1, <2>2, AllowedNumbers
<1>5. CASE UNCHANGED vars
  <2>1. Total(s)' = Total(s)
    BY <1>1, <1>5, OthersWait DEF vars
  <2>2. Servable(s)' <=> Servable(s)
    BY <1>5 DEF vars, Servable, Claimable, RowFree
  <2>3. QED
    BY <1>5, <2>1, <2>2 DEF vars, WaitInv
<1>6. CASE Next
  <2>1. passed'[s] = IF ~Servable(s) \/ ~Servable(s)' THEN 0
                     ELSE IF PassesOver(s) /\ passed[s] <= Allowed(MaxCrashes)
                     THEN passed[s] + 1 ELSE passed[s]
    BY <1>6 DEF Next, CountPassed
  <2>2. CASE ~Servable(s)'
    BY <2>1, <2>2
  <2>3. CASE Servable(s)' /\ ~Servable(s)
    BY <1>3, <1>4, <2>1, <2>3
  <2>4. CASE Servable(s)' /\ Servable(s)
    <3>1. passed[s] + Total(s) <= Allowed(crashes)
      BY <2>4 DEF WaitInv
    <3>2. passed'[s] <= passed[s] + IF PassesOver(s) THEN 1 ELSE 0
      BY <1>4, <2>1, <2>4
    <3>3. ASSUME NEW w \in Workers, WorkerStep(w) \/ Crash(w)
          PROVE  passed'[s] + Total(s)' <= Allowed(crashes')
      <4>1. /\ Total(s)' + (IF PassesOver(s) THEN 1 ELSE 0)
                 <= Total(s) + (IF Crash(w) THEN Rivals ELSE 0)
            /\ UNCHANGED crashes \/ Crash(w)
        BY <1>1, <2>4, <3>3, WorkerWait
      <4>2. passed'[s] \in Nat
        BY <1>1 DEF TypeOK
      <4>3. CASE Crash(w)
        <5>1. crashes' = crashes + 1
          BY <4>3 DEF Crash
        <5>2. QED
          BY <1>3, <1>4, <3>1, <3>2, <4>1, <4>2, <4>3, <5>1
      <4>4. CASE ~Crash(w)
        BY <1>3, <1>4, <3>1, <3>2, <4>1, <4>2, <4>4
      <4>5. QED
        BY <4>3, <4>4
    <3>4. CASE Others
      <4>1. UNCHANGED <<stamp, pc, call, crashes>>
        BY <3>4 DEF Others, Recover, BeginInsert, EndInsert, Return, BeginEdit, EndEdit
      <4>2. ~PassesOver(s)
        BY <4>1 DEF PassesOver
      <4>3. Total(s)' = Total(s)
        BY <1>1, <4>1, OthersWait
      <4>4. QED
        BY <2>1, <2>4, <3>1, <4>1, <4>2, <4>3
    <3>5. QED
      BY <1>6, <2>4, <3>3, <3>4 DEF Next
  <2>5. QED
    BY <2>2, <2>3, <2>4
<1>7. QED
  BY <1>5, <1>6

LEMMA InitCalls == Init => CallInv
BY ConstantsOK, FS_CardinalityType DEF Init, CallInv, NoCall

LEMMA InitWait == Init => WaitInv
<1> SUFFICES ASSUME Init, NEW s \in Workspaces
             PROVE  IF Servable(s) THEN passed[s] + Total(s) <= Allowed(crashes)
                    ELSE passed[s] = 0
  BY DEF WaitInv
<1>1. TypeOK /\ CallInv
  BY InitType, InitCalls
<1>2. passed[s] = 0 /\ crashes = 0
  BY DEF Init
<1>3. Total(s) \in Nat /\ Total(s) <= Turns /\ Turns <= Allowed(0) /\ Allowed(0) \in Nat
      /\ Turns \in Nat
  BY <1>1, AllowedNumbers, TotalBounds
<1>4. QED
  BY <1>2, <1>3

LEMMA WaitBound == TypeOK /\ CallInv /\ WaitInv => BoundedWait
<1> SUFFICES ASSUME TypeOK, CallInv, WaitInv, NEW s \in Workspaces
             PROVE  passed[s] <= Allowed(crashes)
  BY DEF BoundedWait
<1>1. crashes \in Nat /\ passed[s] \in Nat
  BY ConstantsOK DEF TypeOK
<1>2. Total(s) \in Nat /\ Allowed(crashes) \in Nat
  BY <1>1, AllowedNumbers
<1>3. QED
  BY <1>1, <1>2 DEF WaitInv

\* A workspace that could be served is passed over a bounded number of times, for any
\* number of workspaces, workers and crashes: each step that passes it over takes from
\* what the workers have left, and none but a crash adds to it.
THEOREM WaitsBounded == Spec => []BoundedWait
<1>1. Init => TypeOK /\ CallInv /\ WaitInv
  BY InitType, InitCalls, InitWait
<1>2. TypeOK /\ CallInv /\ WaitInv /\ [Next]_vars => TypeOK' /\ CallInv' /\ WaitInv'
  BY StepType, StepCalls, StepWait
<1>3. TypeOK /\ CallInv /\ WaitInv => BoundedWait
  BY WaitBound
<1>4. QED
  BY <1>1, <1>2, <1>3, PTL DEF Spec
=============================================================================
