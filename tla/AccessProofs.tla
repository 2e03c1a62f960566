---------------------------- MODULE AccessProofs ----------------------------
(***************************************************************************)
(* Proofs about Access for any number of people, sessions, invites, shares *)
(* and overlapping requests.                                               *)
(*                                                                         *)
(* What a request writes follows from what it read, so that each property  *)
(* rests on how far a reading may lag behind: ReadsInv for invites,        *)
(* PasswordInv for sessions, OutInv for what a removed person still holds, *)
(* PromiseInv for the shares that an approval takes over.                  *)
(***************************************************************************)
EXTENDS Access, TLAPS

\* An invite that was read is still there, with as many seats, and had one left.
HasRead(r, i) ==
    /\ request[r] # None /\ request[r].op \in {"accept", "guest", "approve"}
    /\ request[r].invites[i] # None
LetterOK(read, now) == now # None /\ now.max = read.max /\ read.uses < read.max
ReadsInv ==
    \A r \in Requests, i \in Invites :
        HasRead(r, i) => LetterOK(request[r].invites[i], invite[i])

\* The count of uses is right but for what was overwritten.
SeatOK(now) == now.uses <= now.max /\ now.sold = now.uses + now.blind
SeatsInv == \A i \in Invites : invite[i] # None => SeatOK(invite[i])

\* A change of password keeps a session of the same person.
PasswordInv ==
    \A r \in Requests :
        Doing(r, "password") /\ session[request[r].session] # None =>
            session[request[r].session].user = request[r].user

\* An upload that is still possible has its workspace.
HomeInv ==
    \A r \in Requests :
        Doing(r, "upload") /\ request[r].home # {} => home[request[r].user] # {}

\* Nobody and nothing has a letter for whoever is barred.
OutOK(u) ==
    /\ team[u] = "none"
    /\ \A i \in Invites : invite[i] # None /\ invite[i].live => invite[i].email \notin {u, None}
    /\ \A r \in Requests, i \in Invites :
         request[r] # None /\ request[r].op \in {"accept", "approve"} /\ request[r].user = u
             => request[r].invites[i] = None
OutInv == \A u \in Users : barred[u] => OutOK(u)

Letters0 == [Invites -> InviteRows \cup {None}]
Shares0 == [Shares -> ShareRows \cup {None}]

\* TypeOK in its parts: the rows, and the requests.
RowsOK ==
    /\ account \in [Users -> Accounts]
    /\ home \in [Users -> Homes]
    /\ team \in [Users -> Roles \cup {"none"}]
    /\ session \in [Sessions -> SessionRows \cup {None}]
    /\ invite \in Letters0
    /\ share \in Shares0
    /\ barred \in [Users -> BOOLEAN]

-----------------------------------------------------------------------------
(* What a request under way has read. *)

LEMMA Read ==
    ASSUME TypeOK, NEW r \in Requests, request[r] # None
    PROVE  LET k == request[r] IN
           /\ k \in Readings
           /\ k.op = "login" => k \in [op: {"login"}, user: Users, password: 0..MaxPassword]
           /\ k.op = "password" => k \in [op: {"password"}, user: Users, session: Sessions]
           /\ k.op = "approve" => k \in [op: {"approve"}, user: Users, account: Accounts,
                                         shares: Shares0, invites: Letters0]
           /\ k.op = "reject" => k \in [op: {"reject"}, user: Users, account: Accounts, home: Homes]
           /\ k.op = "disable" => k \in [op: {"disable"}, user: Users, account: Accounts]
           /\ k.op = "accept" => k \in [op: {"accept"}, user: Users, account: Accounts, invites: Letters0]
           /\ k.op = "guest" => k \in [op: {"guest"}, invites: Letters0]
           /\ k.op = "remove" => k \in [op: {"remove"}, user: Users, account: Accounts, member: BOOLEAN]
           /\ k.op = "share" => k \in [op: {"share"}, user: Users, perm: {"view", "edit"},
                                       target: BOOLEAN, shares: Shares0]
           /\ k.op = "upload" => k \in [op: {"upload"}, user: Users, home: Homes]
<1>1. request[r] \in Readings
  BY DEF TypeOK
<1> QED BY <1>1, SMTT(60) DEF Readings, Letters0, Shares0

LEMMA TypeParts == TypeOK <=> RowsOK /\ request \in [Requests -> Readings \cup {None}]
BY DEF TypeOK, RowsOK, Letters0, Shares0

LEMMA TypePartsNext == RowsOK' /\ request' \in [Requests -> Readings \cup {None}] => TypeOK'
BY DEF TypeOK, RowsOK, Letters0, Shares0

LEMMA RowsStay == ASSUME RowsOK, UNCHANGED Rest PROVE RowsOK'
BY DEF Rest, RowsOK

\* The first step of a request changes nothing but itself; its end neither.
LEMMA BeginTyped ==
    ASSUME TypeOK, NEW r \in Requests, NEW k \in Readings, Begin(r, k), UNCHANGED Rest
    PROVE  TypeOK'
<1>1. request' \in [Requests -> Readings \cup {None}]
  BY TypeParts DEF Begin
<1> QED BY <1>1, TypeParts, TypePartsNext, RowsStay

LEMMA EndTyped ==
    ASSUME TypeOK, NEW r \in Requests, End(r)
    PROVE  request' \in [Requests -> Readings \cup {None}]
BY TypeParts DEF End

LEMMA FailTyped ==
    ASSUME TypeOK, NEW r \in Requests, Fail(r)
    PROVE  TypeOK'
<1>1. request' \in [Requests -> Readings \cup {None}]
  BY EndTyped DEF Fail
<1> QED BY <1>1, TypeParts, TypePartsNext, RowsStay DEF Fail

-----------------------------------------------------------------------------
(* Types of what is written. *)

LEMMA NoAccountTyped == ASSUME ConstantsOK PROVE NoAccount \in Accounts
BY DEF ConstantsOK, NoAccount, Accounts, Statuses

LEMMA AccountStatus ==
    ASSUME NEW a \in [Users -> Accounts], NEW u \in Users, NEW status \in Statuses
    PROVE  [a EXCEPT ![u].status = status] \in [Users -> Accounts]
BY DEF Accounts

LEMMA AccountDefault ==
    ASSUME NEW a \in [Users -> Accounts], NEW u \in Users, NEW d \in {"home", "team", None}
    PROVE  [a EXCEPT ![u].default = d] \in [Users -> Accounts]
BY DEF Accounts

LEMMA AccountBoth ==
    ASSUME NEW a \in [Users -> Accounts], NEW u \in Users,
           NEW status \in Statuses, NEW d \in {"home", "team", None}
    PROVE  [a EXCEPT ![u].status = status, ![u].default = d] \in [Users -> Accounts]
BY DEF Accounts

LEMMA Reviewing ==
    ASSUME NEW read \in Accounts, NEW now \in Accounts, NEW status \in Statuses
    PROVE  Reviewed(read, now, status) \in Statuses
BY DEF Reviewed, Accounts

LEMMA RevokedTyped ==
    ASSUME RowsOK, NEW u, NEW kept
    PROVE  RevokeSessions(u, kept) \in [Sessions -> SessionRows \cup {None}]
BY DEF RowsOK, RevokeSessions

LEMMA HomesTyped == Empty \in Homes /\ {} \in Homes
BY DEF Empty, Homes

LEMMA ContentsTyped ==
    ASSUME NEW h \in Homes, h # {}, NEW x \in {"recording", "usage"}
    PROVE  /\ h \cup {x} \in Homes /\ h \cup {x} # {}
           /\ h \ {"recording"} \in Homes /\ h \ {"recording"} # {}
<1>1. PICK g \in SUBSET {"recording", "usage"} : h = {"itself"} \cup g
  BY DEF Homes
<1>2. h \cup {x} = {"itself"} \cup (g \cup {x}) /\ g \cup {x} \in SUBSET {"recording", "usage"}
  BY <1>1
<1>3. h \ {"recording"} = {"itself"} \cup (g \ {"recording"})
      /\ g \ {"recording"} \in SUBSET {"recording", "usage"}
  BY <1>1
<1>4. h \cup {x} \in Homes
  BY <1>2 DEF Homes
<1>5. h \ {"recording"} \in Homes
  BY <1>3 DEF Homes
<1> QED BY <1>2, <1>3, <1>4, <1>5

LEMMA InviteDead ==
    ASSUME NEW row \in InviteRows
    PROVE  [row EXCEPT !.live = FALSE] \in InviteRows
BY DEF InviteRows

LEMMA ToTyped ==
    ASSUME RowsOK, NEW u PROVE To(u, share) \in Shares0
BY DEF RowsOK, To, Shares0

LEMMA LettersTyped ==
    ASSUME RowsOK PROVE (\A u : Letters(u) \in Letters0) /\ (\A i : Only(i) \in Letters0)
BY DEF RowsOK, Letters, Only, Letters0, Usable

LEMMA SeatTyped ==
    ASSUME ConstantsOK, NEW i \in Invites, NEW read \in InviteRows, read.uses < read.max,
           invite[i] \in InviteRows
    PROVE  LET now == invite[i] seat == Seat(i, read)
           IN  /\ seat \in InviteRows
               /\ seat.uses = read.uses + 1 /\ seat.max = now.max /\ seat.live = now.live
               /\ seat.email = now.email
               /\ now.sold = now.uses + now.blind => seat.sold = seat.uses + seat.blind
<1> DEFINE now == invite[i]
           seat == Seat(i, read)
<1>1. seat = [email |-> now.email, role |-> now.role, uses |-> read.uses + 1, max |-> now.max,
              live |-> now.live, sold |-> now.sold + 1, blind |-> now.blind + (now.uses - read.uses)]
  BY DEF Seat
<1>2. /\ read.uses \in Nat /\ read.max \in Nat /\ read.max <= MaxUses /\ MaxUses \in Nat
      /\ now.uses \in Nat /\ now.sold \in Nat /\ now.blind \in Int
      /\ now.email \in Users \cup {None} /\ now.role \in Roles /\ now.max \in 1..MaxUses
      /\ now.live \in BOOLEAN
  BY DEF ConstantsOK, InviteRows
<1>3. read.uses + 1 \in 0..MaxUses
  BY <1>2
<1> HIDE DEF now, seat
<1>4. seat \in InviteRows
  BY <1>1, <1>2, <1>3 DEF InviteRows
<1>5. now.sold = now.uses + now.blind => seat.sold = seat.uses + seat.blind
  BY <1>1, <1>2
<1> QED BY <1>1, <1>4, <1>5 DEF now, seat

LEMMA Claimed ==
    ASSUME NEW row \in ShareRows PROVE [row EXCEPT !.claimed = TRUE] \in ShareRows
BY DEF ShareRows

LEMMA Permitted ==
    ASSUME NEW row \in ShareRows, NEW p \in {"view", "edit"}
    PROVE  [row EXCEPT !.perm = p] \in ShareRows
BY DEF ShareRows

\* Shares that are claimed after a reading that has not been overtaken.
LEMMA ClaimTyped ==
    ASSUME RowsOK, NEW u \in Users, NEW read \in Shares0, ~ClaimFails(u, read)
    PROVE  ClaimShares(u, read) \in Shares0
<1> SUFFICES ASSUME NEW x \in Shares
             PROVE  ClaimShares(u, read)[x] \in ShareRows \cup {None}
  BY DEF ClaimShares, Shares0
<1> DEFINE claimed == [share[x] EXCEPT !.claimed = TRUE]
           raised == [share[x] EXCEPT !.perm = "edit"]
<1>0. share[x] \in ShareRows \cup {None}
  BY DEF RowsOK, Shares0
<1>1. share[x] # None => claimed \in ShareRows /\ raised \in ShareRows
  BY <1>0, Claimed, Permitted
<1>2. ClaimShares(u, read)[x] =
        CASE x \in Pending(u, read) -> IF Own(u, read) = {} THEN claimed ELSE None
          [] x \in Raised(u, read) -> raised
          [] OTHER -> share[x]
  BY DEF ClaimShares
<1> HIDE DEF claimed, raised
<1>3. /\ Own(u, read) = {} /\ x \in Pending(u, read) => share[x] # None
      /\ x \in Raised(u, read) => share[x] # None
  BY DEF ClaimFails
<1> QED BY <1>0, <1>1, <1>2, <1>3

\* Joining by one of the letters that were read.
LEMMA JoinTyped ==
    ASSUME ConstantsOK, RowsOK, NEW u \in Users, NEW letters \in Letters0,
           \A i \in Invites : letters[i] # None => LetterOK(letters[i], invite[i]),
           ClaimInvites(u, letters)
    PROVE  team' \in [Users -> Roles \cup {"none"}] /\ invite' \in Letters0
<1>1. CASE team[u] # "none" \/ Live(letters) = {}
  BY <1>1 DEF ClaimInvites, RowsOK
<1>2. CASE ~(team[u] # "none" \/ Live(letters) = {})
  <2>1. PICK i \in Live(letters) :
            /\ team' = [team EXCEPT ![u] = letters[i].role]
            /\ invite' = [invite EXCEPT ![i] = Seat(i, letters[i])]
    BY <1>2 DEF ClaimInvites
  <2>2. i \in Invites /\ letters[i] \in InviteRows /\ invite[i] \in InviteRows
        /\ letters[i].uses < letters[i].max
    BY DEF Live, Letters0, LetterOK, RowsOK
  <2>3. Seat(i, letters[i]) \in InviteRows
    BY <2>2, SeatTyped
  <2> QED BY <2>1, <2>2, <2>3 DEF RowsOK, Letters0, InviteRows
<1> QED BY <1>1, <1>2

-----------------------------------------------------------------------------
(* Type correctness, operation by operation. *)

LEMMA SignupTyped ==
    ASSUME ConstantsOK, TypeOK, NEW u \in Users, NEW auto \in BOOLEAN, Signup(u, auto)
    PROVE  TypeOK'
<1>0. RowsOK /\ request' = request
  BY TypeParts DEF Signup
<1>1. account' \in [Users -> Accounts]
  <2> DEFINE a == [status |-> IF auto THEN "active" ELSE "pending", password |-> 0, default |-> "home"]
  <2>1. a \in Accounts
    BY DEF Accounts, Statuses, ConstantsOK
  <2>2. account' = [account EXCEPT ![u] = a]
    BY DEF Signup
  <2> HIDE DEF a
  <2> QED BY <1>0, <2>1, <2>2 DEF RowsOK
<1>2. home' \in [Users -> Homes]
  BY <1>0, HomesTyped DEF Signup, RowsOK
<1>3. session' \in [Sessions -> SessionRows \cup {None}]
  <2>1. PICK s \in Sessions :
            session' = [session EXCEPT ![s] = [user |-> u, password |-> 0, stray |-> FALSE]]
    BY DEF Signup
  <2>2. [user |-> u, password |-> 0, stray |-> FALSE] \in SessionRows
    BY DEF SessionRows, ConstantsOK
  <2> QED BY <1>0, <2>1, <2>2 DEF RowsOK
<1>4. share' \in Shares0 /\ team' \in [Users -> Roles \cup {"none"}] /\ invite' \in Letters0
  <2>1. CASE auto
    <3>1. share' = ClaimShares(u, To(u, share)) /\ ClaimInvites(u, Letters(u))
      BY <2>1 DEF Signup
    <3>2. ~ClaimFails(u, To(u, share))
      BY <1>0 DEF ClaimFails, Own, Pending, Raised, Live, To, RowsOK, Shares0
    <3>3. \A i \in Invites : Letters(u)[i] # None => LetterOK(Letters(u)[i], invite[i])
      BY DEF Letters, LetterOK, Usable
    <3> QED BY <1>0, <3>1, <3>2, <3>3, ToTyped, LettersTyped, ClaimTyped, JoinTyped
  <2>2. CASE ~auto
    BY <1>0, <2>2 DEF Signup, RowsOK
  <2> QED BY <2>1, <2>2
<1>5. barred' \in [Users -> BOOLEAN]
  BY <1>0 DEF Signup, RowsOK
<1>6. RowsOK'
  BY <1>1, <1>2, <1>3, <1>4, <1>5 DEF RowsOK, Letters0, Shares0
<1> QED BY <1>0, <1>6, TypeParts, TypePartsNext

LEMMA BeginsTyped ==
    ASSUME ConstantsOK, TypeOK, NEW r \in Requests
    PROVE  /\ \A u \in Users :
                Login(r, u) \/ Approve(r, u) \/ Reject(r, u) \/ Disable(r, u) \/ Remove(r, u)
                  \/ Upload(r, u) => TypeOK'
           /\ \A s \in Sessions : Password(r, s) => TypeOK'
           /\ \A i \in Invites : Guest(r, i) \/ (\E u \in Users : Accept(r, u, i)) => TypeOK'
           /\ \A u \in Users, perm \in {"view", "edit"} : Share(r, u, perm) => TypeOK'
<1>0. RowsOK
  BY TypeParts
<1>1. \A u \in Users : account[u] \in Accounts /\ account[u].password \in 0..MaxPassword /\ home[u] \in Homes
  BY <1>0 DEF RowsOK, Accounts
<1>2. ASSUME NEW u \in Users, Login(r, u) PROVE TypeOK'
  <2> DEFINE k == [op |-> "login", user |-> u, password |-> account[u].password]
  <2>1. k \in Readings
    BY <1>1 DEF Readings
  <2> QED BY <1>2, <2>1, BeginTyped DEF Login
<1>3. ASSUME NEW u \in Users, Approve(r, u) PROVE TypeOK'
  <2> DEFINE k == [op |-> "approve", user |-> u, account |-> account[u],
                   shares |-> To(u, share), invites |-> Letters(u)]
  <2>1. k \in Readings
    BY <1>0, <1>1, ToTyped, LettersTyped DEF Readings, Shares0, Letters0
  <2> QED BY <1>3, <2>1, BeginTyped DEF Approve
<1>4. ASSUME NEW u \in Users, Reject(r, u) PROVE TypeOK'
  <2> DEFINE k == [op |-> "reject", user |-> u, account |-> account[u], home |-> home[u]]
  <2>1. k \in Readings
    BY <1>1 DEF Readings
  <2> QED BY <1>4, <2>1, BeginTyped DEF Reject
<1>5. ASSUME NEW u \in Users, Disable(r, u) PROVE TypeOK'
  <2> DEFINE k == [op |-> "disable", user |-> u, account |-> account[u]]
  <2>1. k \in Readings
    BY <1>1 DEF Readings
  <2> QED BY <1>5, <2>1, BeginTyped DEF Disable
<1>6. ASSUME NEW u \in Users, Remove(r, u) PROVE TypeOK'
  <2> DEFINE k == [op |-> "remove", user |-> u, account |-> account[u], member |-> TRUE]
  <2>1. k \in Readings
    BY <1>1 DEF Readings
  <2> QED BY <1>6, <2>1, BeginTyped DEF Remove
<1>7. ASSUME NEW u \in Users, Upload(r, u) PROVE TypeOK'
  <2> DEFINE k == [op |-> "upload", user |-> u, home |-> home[u]]
  <2>1. k \in Readings
    BY <1>1 DEF Readings
  <2> QED BY <1>7, <2>1, BeginTyped DEF Upload
<1>8. ASSUME NEW s \in Sessions, Password(r, s) PROVE TypeOK'
  <2> DEFINE k == [op |-> "password", user |-> session[s].user, session |-> s]
  <2>1. session[s].user \in Users
    BY <1>0, <1>8 DEF RowsOK, Password, SessionLives, SessionRows
  <2>2. k \in Readings
    BY <2>1 DEF Readings
  <2> QED BY <1>8, <2>2, BeginTyped DEF Password
<1>9. ASSUME NEW i \in Invites, Guest(r, i) PROVE TypeOK'
  <2> DEFINE k == [op |-> "guest", invites |-> Only(i)]
  <2>1. k \in Readings
    BY <1>0, LettersTyped DEF Readings, Letters0
  <2> QED BY <1>9, <2>1, BeginTyped DEF Guest
<1>10. ASSUME NEW i \in Invites, NEW u \in Users, Accept(r, u, i) PROVE TypeOK'
  <2> DEFINE k == [op |-> "accept", user |-> u, account |-> account[u], invites |-> Only(i)]
  <2>1. k \in Readings
    BY <1>0, <1>1, LettersTyped DEF Readings, Letters0
  <2> QED BY <1>10, <2>1, BeginTyped DEF Accept
<1>11. ASSUME NEW u \in Users, NEW perm \in {"view", "edit"}, Share(r, u, perm) PROVE TypeOK'
  <2> DEFINE target == account[u].status # "none"
             found == IF target THEN Own(u, share) ELSE Pending(u, share)
             rows == [x \in Shares |-> IF x \in found THEN share[x] ELSE None]
             k == [op |-> "share", user |-> u, perm |-> perm, target |-> target, shares |-> rows]
  <2>1. rows \in Shares0
    BY <1>0 DEF RowsOK, Shares0
  <2>2. k \in Readings
    <3> HIDE DEF rows
    <3> QED BY <2>1 DEF Readings, Shares0
  <2> QED BY <1>11, <2>2, BeginTyped DEF Share
<1> QED BY <1>2, <1>3, <1>4, <1>5, <1>6, <1>7, <1>8, <1>9, <1>10, <1>11

LEMMA SessionsTyped ==
    ASSUME ConstantsOK, TypeOK
    PROVE  /\ \A r \in Requests : LoginCommit(r) \/ PasswordCommit(r) => TypeOK'
           /\ \A s \in Sessions : SessionEnds(s) => TypeOK'
<1>0. RowsOK
  BY TypeParts
<1>1. ASSUME NEW r \in Requests, LoginCommit(r) PROVE TypeOK'
  <2>1. PICK s \in Sessions : session' = [session EXCEPT ![s] =
              [user |-> request[r].user, password |-> request[r].password,
               stray |-> ~MayLogIn(request[r].user)
                          \/ account[request[r].user].password # request[r].password]]
    BY <1>1 DEF LoginCommit
  <2>2. request[r].user \in Users /\ request[r].password \in 0..MaxPassword
    BY <1>1, Read DEF LoginCommit, Doing
  <2>3. session' \in [Sessions -> SessionRows \cup {None}]
    BY <1>0, <2>1, <2>2 DEF RowsOK, SessionRows
  <2>4. RowsOK' /\ request' \in [Requests -> Readings \cup {None}]
    BY <1>0, <1>1, <2>3, EndTyped DEF RowsOK, LoginCommit
  <2> QED BY <2>4, TypePartsNext
<1>2. ASSUME NEW r \in Requests, PasswordCommit(r) PROVE TypeOK'
  <2> DEFINE k == request[r]
             new == account[k.user].password + 1
             left == RevokeSessions(k.user, k.session)
  <2>1. k.user \in Users /\ k.session \in Sessions
    BY <1>2, Read DEF PasswordCommit, Doing
  <2>2. CASE new > MaxPassword
    BY <1>2, <2>2, FailTyped DEF PasswordCommit
  <2>3. CASE ~(new > MaxPassword)
    <3>1. /\ account' = [account EXCEPT ![k.user].password = new]
          /\ session' = IF left[k.session] = None THEN left
                        ELSE [left EXCEPT ![k.session].password = new]
          /\ End(r)
          /\ UNCHANGED <<home, team, invite, share, barred>>
      BY <1>2, <2>3 DEF PasswordCommit
    <3>2. new \in 0..MaxPassword
      BY <1>0, <2>1, <2>3 DEF RowsOK, Accounts, ConstantsOK
    <3>3. account' \in [Users -> Accounts]
      <4> HIDE DEF new
      <4> QED BY <1>0, <2>1, <3>1, <3>2 DEF RowsOK, Accounts
    <3>4. left \in [Sessions -> SessionRows \cup {None}]
      BY <1>0, RevokedTyped
    <3>5. session' \in [Sessions -> SessionRows \cup {None}]
      <4> HIDE DEF left, new
      <4>1. CASE left[k.session] = None
        BY <3>1, <3>4, <4>1
      <4>2. CASE left[k.session] # None
        <5>1. left[k.session] \in SessionRows
          BY <2>1, <3>4, <4>2
        <5>2. [left[k.session] EXCEPT !.password = new] \in SessionRows
          BY <3>2, <5>1 DEF SessionRows
        <5>3. session' = [left EXCEPT ![k.session] = [left[k.session] EXCEPT !.password = new]]
          BY <3>1, <4>2
        <5> QED BY <2>1, <3>4, <5>2, <5>3
      <4> QED BY <4>1, <4>2
    <3>6. RowsOK' /\ request' \in [Requests -> Readings \cup {None}]
      BY <1>0, <3>1, <3>3, <3>5, EndTyped DEF RowsOK
    <3> QED BY <3>6, TypePartsNext
  <2> QED BY <2>2, <2>3
<1>3. ASSUME NEW s \in Sessions, SessionEnds(s) PROVE TypeOK'
  <2>1. RowsOK' /\ request' \in [Requests -> Readings \cup {None}]
    BY <1>0, <1>3, TypeParts DEF RowsOK, SessionEnds
  <2> QED BY <2>1, TypePartsNext
<1> QED BY <1>1, <1>2, <1>3

LEMMA ReviewsTyped ==
    ASSUME ConstantsOK, TypeOK, ReadsInv, NEW r \in Requests
    PROVE  ApproveCommit(r) \/ RejectCommit(r) \/ DisableCommit(r) => TypeOK'
<1>0. RowsOK
  BY TypeParts
<1> DEFINE k == request[r]
<1>1. ASSUME ApproveCommit(r) PROVE TypeOK'
  <2>1. k.user \in Users /\ k.account \in Accounts /\ k.shares \in Shares0 /\ k.invites \in Letters0
    BY <1>1, Read DEF ApproveCommit, Doing
  <2>2. CASE ClaimFails(k.user, k.shares)
    BY <1>1, <2>2, FailTyped DEF ApproveCommit
  <2>3. CASE ~ClaimFails(k.user, k.shares)
    <3>1. /\ Settle(k.user, k.account)
          /\ share' = ClaimShares(k.user, k.shares)
          /\ ClaimInvites(k.user, k.invites)
          /\ End(r)
          /\ UNCHANGED <<session, barred>>
      BY <1>1, <2>3 DEF ApproveCommit
    <3>2. \A i \in Invites : k.invites[i] # None => LetterOK(k.invites[i], invite[i])
      BY <1>1 DEF ReadsInv, HasRead, ApproveCommit, Doing
    <3>3. team' \in [Users -> Roles \cup {"none"}] /\ invite' \in Letters0
      BY <1>0, <2>1, <3>1, <3>2, JoinTyped
    <3>4. share' \in Shares0
      BY <1>0, <2>1, <2>3, <3>1, ClaimTyped
    <3>5. account' \in [Users -> Accounts]
      <4> DEFINE status == Reviewed(k.account, account[k.user], "active")
      <4>1. status \in Statuses
        BY <1>0, <2>1, Reviewing DEF RowsOK, Statuses
      <4>2. PICK d \in IF Workspaces(k.user) = {} THEN {"home"}
                       ELSE IF k.account.default = None THEN Workspaces(k.user)
                       ELSE {account[k.user].default} :
                account' = [account EXCEPT ![k.user].status = status, ![k.user].default = d]
        BY <3>1 DEF Settle
      <4>3. d \in {"home", "team", None}
        BY <1>0, <2>1, <4>2 DEF Workspaces, RowsOK, Accounts
      <4> HIDE DEF status
      <4> QED BY <1>0, <2>1, <4>1, <4>2, <4>3, AccountBoth DEF RowsOK
    <3>6. home' \in [Users -> Homes]
      BY <1>0, <2>1, <3>1, HomesTyped DEF Settle, RowsOK
    <3>7. RowsOK' /\ request' \in [Requests -> Readings \cup {None}]
      BY <1>0, <3>1, <3>3, <3>4, <3>5, <3>6, EndTyped DEF RowsOK
    <3> QED BY <3>7, TypePartsNext
  <2> QED BY <2>2, <2>3
<1>2. ASSUME RejectCommit(r) PROVE TypeOK'
  <2> DEFINE u == k.user
             drops == Counted(k.home) = Empty
             lost == drops /\ "home" \in {k.account.default, account[u].default}
             status == Reviewed(k.account, account[u], "rejected")
             d == IF lost THEN None ELSE account[u].default
  <2>1. u \in Users /\ k.account \in Accounts
    BY <1>2, Read DEF RejectCommit, Doing
  <2>2. account' = [account EXCEPT ![u].status = status, ![u].default = d]
    BY <1>2 DEF RejectCommit
  <2>9. /\ session' = RevokeSessions(u, None)
        /\ IF drops THEN home' = [home EXCEPT ![u] = {}] /\ Forsake(r, u)
           ELSE End(r) /\ UNCHANGED home
        /\ UNCHANGED <<team, invite, share, barred>>
    BY <1>2 DEF RejectCommit
  <2>3. status \in Statuses /\ d \in {"home", "team", None}
    BY <1>0, <2>1, Reviewing DEF RowsOK, Statuses, Accounts
  <2>4. account' \in [Users -> Accounts]
    <3> HIDE DEF status, d
    <3> QED BY <1>0, <2>1, <2>2, <2>3, AccountBoth DEF RowsOK
  <2>5. session' \in [Sessions -> SessionRows \cup {None}] /\ home' \in [Users -> Homes]
    <3> HIDE DEF drops
    <3>1. session' \in [Sessions -> SessionRows \cup {None}]
      BY <1>0, <2>9, RevokedTyped
    <3>2. CASE drops
      <4>1. home' = [home EXCEPT ![u] = {}]
        BY <2>9, <3>2
      <4> QED BY <1>0, <3>1, <4>1, HomesTyped DEF RowsOK
    <3>3. CASE ~drops
      BY <1>0, <2>9, <3>1, <3>3 DEF RowsOK
    <3> QED BY <3>2, <3>3
  <2>6. request' \in [Requests -> Readings \cup {None}]
    <3>1. CASE drops
      <4>1. ASSUME NEW q \in Requests, request[q] # None, request[q].op \in {"reject", "upload"}
            PROVE  [request[q] EXCEPT !.home = {}] \in Readings
        <5>1. CASE request[q].op = "reject"
          <6>1. request[q] \in [op: {"reject"}, user: Users, account: Accounts, home: Homes]
            BY <4>1, <5>1, Read
          <6> QED BY <6>1, HomesTyped DEF Readings
        <5>2. CASE request[q].op = "upload"
          <6>1. request[q] \in [op: {"upload"}, user: Users, home: Homes]
            BY <4>1, <5>2, Read
          <6> QED BY <6>1, HomesTyped DEF Readings
        <5> QED BY <4>1, <5>1, <5>2
      <4> DEFINE gone(q) == [request[q] EXCEPT !.home = {}]
      <4>2. request' = [q \in Requests |->
              IF q = r THEN None
              ELSE IF request[q] # None /\ request[q].op \in {"reject", "upload"} /\ request[q].user = u
              THEN gone(q) ELSE request[q]]
        BY <2>9, <3>1 DEF Forsake
      <4>3. \A q \in Requests : request[q] \in Readings \cup {None}
        BY DEF TypeOK
      <4>4. \A q \in Requests : request[q] # None /\ request[q].op \in {"reject", "upload"} => gone(q) \in Readings
        BY <4>1
      <4> HIDE DEF gone
      <4> QED BY <4>2, <4>3, <4>4
    <3>2. CASE ~drops
      BY <2>9, <3>2, EndTyped
    <3> QED BY <3>1, <3>2
  <2>7. RowsOK'
    BY <1>0, <2>9, <2>4, <2>5 DEF RowsOK
  <2> QED BY <2>6, <2>7, TypePartsNext
<1>3. ASSUME DisableCommit(r) PROVE TypeOK'
  <2> DEFINE status == Reviewed(k.account, account[k.user], "disabled")
  <2>1. k.user \in Users /\ k.account \in Accounts
    BY <1>3, Read DEF DisableCommit, Doing
  <2>2. status \in Statuses
    BY <1>0, <2>1, Reviewing DEF RowsOK, Statuses
  <2>3. account' = [account EXCEPT ![k.user].status = status] /\ session' = RevokeSessions(k.user, None)
        /\ End(r) /\ UNCHANGED <<home, team, invite, share, barred>>
    BY <1>3 DEF DisableCommit
  <2>4. account' \in [Users -> Accounts]
    <3> HIDE DEF status
    <3> QED BY <1>0, <2>1, <2>2, <2>3, AccountStatus DEF RowsOK
  <2>5. RowsOK' /\ request' \in [Requests -> Readings \cup {None}]
    BY <1>0, <2>3, <2>4, RevokedTyped, EndTyped DEF RowsOK
  <2> QED BY <2>5, TypePartsNext
<1> QED BY <1>1, <1>2, <1>3

LEMMA MembersTyped ==
    ASSUME ConstantsOK, TypeOK, ReadsInv, NEW r \in Requests
    PROVE  AcceptCommit(r) \/ GuestCommit(r) \/ RemoveCommit(r) => TypeOK'
<1>0. RowsOK
  BY TypeParts
<1> DEFINE k == request[r]
<1>1. ASSUME AcceptCommit(r) PROVE TypeOK'
  <2> DEFINE d == IF k.account.default = None THEN "team" ELSE account[k.user].default
  <2>1. k.user \in Users /\ k.account \in Accounts /\ k.invites \in Letters0
    BY <1>1, Read DEF AcceptCommit, Doing
  <2>2. \A i \in Invites : k.invites[i] # None => LetterOK(k.invites[i], invite[i])
    BY <1>1 DEF ReadsInv, HasRead, AcceptCommit, Doing
  <2>3. team' \in [Users -> Roles \cup {"none"}] /\ invite' \in Letters0
    BY <1>0, <1>1, <2>1, <2>2, JoinTyped DEF AcceptCommit
  <2>4. account' \in [Users -> Accounts]
    <3>1. account' = [account EXCEPT ![k.user].default = d]
      BY <1>1 DEF AcceptCommit
    <3>2. d \in {"home", "team", None}
      BY <1>0, <2>1 DEF RowsOK, Accounts
    <3> HIDE DEF d
    <3> QED BY <1>0, <2>1, <3>1, <3>2, AccountDefault DEF RowsOK
  <2>5. End(r) /\ UNCHANGED <<home, session, share, barred>>
    BY <1>1 DEF AcceptCommit
  <2>6. RowsOK' /\ request' \in [Requests -> Readings \cup {None}]
    BY <1>0, <2>3, <2>4, <2>5, EndTyped DEF RowsOK
  <2> QED BY <2>6, TypePartsNext
<1>2. ASSUME GuestCommit(r) PROVE TypeOK'
  <2>1. PICK i \in Live(k.invites) : invite' = [invite EXCEPT ![i] = Seat(i, k.invites[i])]
    BY <1>2 DEF GuestCommit
  <2>2. k.invites \in Letters0
    BY <1>2, Read DEF GuestCommit, Doing
  <2>3. i \in Invites /\ k.invites[i] \in InviteRows /\ LetterOK(k.invites[i], invite[i])
    BY <1>2, <2>1, <2>2 DEF Live, Letters0, ReadsInv, HasRead, GuestCommit, Doing
  <2>4. Seat(i, k.invites[i]) \in InviteRows
    BY <1>0, <2>3, SeatTyped DEF LetterOK, RowsOK, Letters0
  <2>5. invite' \in Letters0
    BY <1>0, <2>1, <2>4 DEF RowsOK, Letters0
  <2>6. RowsOK' /\ request' \in [Requests -> Readings \cup {None}]
    BY <1>0, <1>2, <2>5, EndTyped DEF RowsOK, GuestCommit
  <2> QED BY <2>6, TypePartsNext
<1>3. ASSUME RemoveCommit(r) PROVE TypeOK'
  <2> DEFINE u == k.user
             d == IF k.account.default # "team" THEN account[u].default
                  ELSE IF home[u] # {} THEN "home"
                  ELSE IF team'[u] # "none" THEN "team" ELSE None
             out(q) == [request[q] EXCEPT !.member = FALSE]
  <2>1. u \in Users /\ k.account \in Accounts /\ k.member \in BOOLEAN
    BY <1>3, Read DEF RemoveCommit, Doing
  <2>2. team' = (IF k.member THEN [team EXCEPT ![u] = "none"] ELSE team)
        /\ invite' = Withdrawn(u) /\ UNCHANGED <<home, session, share>>
    BY <1>3 DEF RemoveCommit
  <2>3. barred' = [barred EXCEPT ![u] = IF k.member THEN ~WayBack(r, u) ELSE barred[u]]
    BY <1>3 DEF RemoveCommit
  <2>4. account' = [account EXCEPT ![u].default = d]
    BY <1>3 DEF RemoveCommit
  <2>5. request' = [q \in Requests |->
          IF q = r THEN None
          ELSE IF k.member /\ Doing(q, "remove") /\ request[q].user = u THEN out(q) ELSE request[q]]
    BY <1>3 DEF RemoveCommit
  <2>6. account' \in [Users -> Accounts]
    <3>1. d \in {"home", "team", None}
      BY <1>0, <2>1 DEF RowsOK, Accounts
    <3> HIDE DEF d
    <3> QED BY <1>0, <2>1, <2>4, <3>1, AccountDefault DEF RowsOK
  <2>7. team' \in [Users -> Roles \cup {"none"}] /\ invite' \in Letters0
    <3>1. ASSUME NEW i \in Invites PROVE Withdrawn(u)[i] \in InviteRows \cup {None}
      <4>1. invite[i] # None => [invite[i] EXCEPT !.live = FALSE] \in InviteRows
        BY <1>0, InviteDead DEF RowsOK, Letters0
      <4> DEFINE dead == [invite[i] EXCEPT !.live = FALSE]
      <4>2. Withdrawn(u)[i] = IF invite[i] # None /\ invite[i].email = u THEN dead ELSE invite[i]
        BY DEF Withdrawn
      <4> HIDE DEF dead
      <4>3. invite[i] # None => dead \in InviteRows
        BY <4>1 DEF dead
      <4> QED BY <1>0, <4>2, <4>3 DEF RowsOK, Letters0
    <3>2. Withdrawn(u) \in Letters0
      BY <3>1 DEF Withdrawn, Letters0
    <3> QED BY <1>0, <2>1, <2>2, <3>2 DEF RowsOK
  <2>8. barred' \in [Users -> BOOLEAN]
    BY <1>0, <2>1, <2>3, Zenon DEF RowsOK
  <2>9. request' \in [Requests -> Readings \cup {None}]
    <3>1. ASSUME NEW q \in Requests, Doing(q, "remove") PROVE out(q) \in Readings
      <4>1. request[q] \in [op: {"remove"}, user: Users, account: Accounts, member: BOOLEAN]
        BY <3>1, Read DEF Doing
      <4> QED BY <4>1 DEF Readings
    <3>2. \A q \in Requests : request[q] \in Readings \cup {None}
      BY DEF TypeOK
    <3> HIDE DEF out
    <3> QED BY <2>5, <3>1, <3>2
  <2>10. RowsOK'
    BY <1>0, <2>2, <2>6, <2>7, <2>8 DEF RowsOK
  <2> QED BY <2>9, <2>10, TypePartsNext
<1> QED BY <1>1, <1>2, <1>3

LEMMA InvitesTyped ==
    ASSUME ConstantsOK, TypeOK
    PROVE  /\ \A i \in Invites, email \in Users \cup {None}, role \in Roles, max \in 1..MaxUses :
                Issue(i, email, role, max) => TypeOK'
           /\ \A i \in Invites : InviteEnds(i) => TypeOK'
           /\ \A u \in Users, role \in Roles : SetRole(u, role) => TypeOK'
<1>0. RowsOK /\ request \in [Requests -> Readings \cup {None}]
  BY TypeParts
<1>1. ASSUME NEW i \in Invites, NEW email \in Users \cup {None}, NEW role \in Roles,
             NEW max \in 1..MaxUses, Issue(i, email, role, max)
      PROVE  TypeOK'
  <2> DEFINE row == [email |-> email, role |-> role, uses |-> 0, max |-> max, live |-> TRUE,
                     sold |-> 0, blind |-> 0]
  <2>1. row \in InviteRows
    BY DEF InviteRows, ConstantsOK
  <2>2. invite' = [invite EXCEPT ![i] = row]
    BY <1>1 DEF Issue
  <2>3. invite' \in Letters0
    <3> HIDE DEF row
    <3> QED BY <1>0, <2>1, <2>2 DEF RowsOK, Letters0
  <2>4. barred' \in [Users -> BOOLEAN]
    <3>1. barred' = [v \in Users |-> barred[v] /\ email \notin {v, None}]
      BY <1>1 DEF Issue
    <3>2. \A v \in Users : (barred[v] /\ email \notin {v, None}) \in BOOLEAN
      OBVIOUS
    <3> QED BY <3>1, <3>2, Zenon
  <2>5. UNCHANGED <<account, home, team, session, share, request>>
    BY <1>1 DEF Issue
  <2>6. RowsOK' /\ request' \in [Requests -> Readings \cup {None}]
    BY <1>0, <2>3, <2>4, <2>5 DEF RowsOK
  <2> QED BY <2>6, TypePartsNext
<1>2. ASSUME NEW i \in Invites, InviteEnds(i) PROVE TypeOK'
  <2>1. invite' \in Letters0
    <3> DEFINE dead == [invite[i] EXCEPT !.live = FALSE]
    <3>1. invite[i] \in InviteRows
      BY <1>0, <1>2 DEF InviteEnds, RowsOK, Letters0
    <3>2. dead \in InviteRows
      BY <3>1, InviteDead
    <3>3. invite' = [invite EXCEPT ![i] = dead]
      BY <1>2 DEF InviteEnds
    <3> HIDE DEF dead
    <3> QED BY <1>0, <3>2, <3>3 DEF RowsOK, Letters0
  <2>2. RowsOK' /\ request' \in [Requests -> Readings \cup {None}]
    BY <1>0, <1>2, <2>1 DEF RowsOK, InviteEnds
  <2> QED BY <2>2, TypePartsNext
<1>3. ASSUME NEW u \in Users, NEW role \in Roles, SetRole(u, role) PROVE TypeOK'
  <2>1. RowsOK' /\ request' \in [Requests -> Readings \cup {None}]
    BY <1>0, <1>3 DEF RowsOK, SetRole
  <2> QED BY <2>1, TypePartsNext
<1> QED BY <1>1, <1>2, <1>3

LEMMA SharesTyped ==
    ASSUME ConstantsOK, TypeOK, HomeInv
    PROVE  /\ \A r \in Requests : ShareCommit(r) \/ UploadCommit(r) => TypeOK'
           /\ \A x \in Shares : RevokeShare(x) => TypeOK'
           /\ \A u \in Users : Transcribed(u) \/ DeleteRecording(u) => TypeOK'
<1>0. RowsOK /\ request \in [Requests -> Readings \cup {None}]
  BY TypeParts
<1>1. ASSUME NEW r \in Requests, ShareCommit(r) PROVE TypeOK'
  <2> DEFINE k == request[r]
             changed == {x \in Live(k.shares) : k.shares[x].perm # k.perm}
             twins == IF k.target THEN Own(k.user, share) ELSE Pending(k.user, share)
             new(x) == [share[x] EXCEPT !.perm = k.perm]
             row == [to |-> k.user, claimed |-> k.target, perm |-> k.perm,
                     late |-> ~k.target /\ account[k.user].status # "none"]
  <2>1. k.user \in Users /\ k.target \in BOOLEAN /\ k.perm \in {"view", "edit"} /\ k.shares \in Shares0
    BY <1>1, Read DEF ShareCommit, Doing
  <2>2. CASE Fail(r)
    BY <2>2, FailTyped
  <2>3. CASE /\ Live(k.shares) # {}
             /\ ~(\E x \in changed : share[x] = None)
    <3>1. /\ share' = [x \in Shares |-> IF x \in changed THEN new(x) ELSE share[x]]
          /\ End(r)
          /\ UNCHANGED <<account, home, team, session, invite, barred>>
      BY <1>1, <2>3 DEF ShareCommit
    <3>2. ASSUME NEW x \in Shares, x \in changed PROVE new(x) \in ShareRows
      <4>1. share[x] \in ShareRows
        BY <1>0, <2>3, <3>2 DEF RowsOK, Shares0
      <4> QED BY <2>1, <4>1, Permitted
    <3>3. share' \in Shares0
      <4>1. \A x \in Shares : share[x] \in ShareRows \cup {None}
        BY <1>0 DEF RowsOK, Shares0
      <4> HIDE DEF new, changed
      <4> QED BY <3>1, <3>2, <4>1 DEF Shares0
    <3>4. RowsOK' /\ request' \in [Requests -> Readings \cup {None}]
      <4> HIDE DEF new, changed
      <4> QED BY <1>0, <3>1, <3>3, EndTyped DEF RowsOK
    <3> QED BY <3>4, TypePartsNext
  <2>4. CASE Live(k.shares) = {} /\ twins = {}
    <3>1. /\ \E x \in Shares : share' = [share EXCEPT ![x] = row]
          /\ End(r)
          /\ UNCHANGED <<account, home, team, session, invite, barred>>
      BY <1>1, <2>4 DEF ShareCommit
    <3>2. row \in ShareRows
      BY <2>1 DEF ShareRows
    <3>3. share' \in Shares0
      <4> HIDE DEF row
      <4> QED BY <1>0, <3>1, <3>2 DEF RowsOK, Shares0
    <3>4. RowsOK' /\ request' \in [Requests -> Readings \cup {None}]
      BY <1>0, <3>1, <3>3, EndTyped DEF RowsOK
    <3> QED BY <3>4, TypePartsNext
  <2> QED BY <1>1, <2>2, <2>3, <2>4 DEF ShareCommit
<1>2. ASSUME NEW r \in Requests, UploadCommit(r) PROVE TypeOK'
  <2> DEFINE k == request[r]
  <2>1. k.user \in Users /\ k.home \in Homes
    BY <1>2, Read DEF UploadCommit, Doing
  <2>2. CASE k.home = {}
    BY <1>2, <2>2, FailTyped DEF UploadCommit
  <2>3. CASE k.home # {}
    <3>1. home' = [home EXCEPT ![k.user] = @ \cup {"recording"}] /\ End(r)
          /\ UNCHANGED <<account, team, session, invite, share, barred>>
      BY <1>2, <2>3 DEF UploadCommit
    <3>2. home[k.user] \in Homes /\ home[k.user] # {}
      BY <1>0, <1>2, <2>1, <2>3 DEF HomeInv, UploadCommit, RowsOK
    <3>3. home' \in [Users -> Homes]
      BY <1>0, <3>1, <3>2, ContentsTyped DEF RowsOK
    <3>4. RowsOK' /\ request' \in [Requests -> Readings \cup {None}]
      BY <1>0, <3>1, <3>3, EndTyped DEF RowsOK
    <3> QED BY <3>4, TypePartsNext
  <2> QED BY <1>2, <2>2, <2>3 DEF UploadCommit
<1>3. ASSUME NEW x \in Shares, RevokeShare(x) PROVE TypeOK'
  <2>1. share' \in Shares0
    BY <1>0, <1>3 DEF RevokeShare, RowsOK, Shares0
  <2>2. RowsOK' /\ request' \in [Requests -> Readings \cup {None}]
    BY <1>0, <1>3, <2>1 DEF RowsOK, RevokeShare
  <2> QED BY <2>2, TypePartsNext
<1>4. ASSUME NEW u \in Users, Transcribed(u) \/ DeleteRecording(u) PROVE TypeOK'
  <2>1. home' \in [Users -> Homes]
    <3>1. home[u] \in Homes /\ home[u] # {}
      BY <1>0, <1>4 DEF Transcribed, DeleteRecording, RowsOK
    <3>2. home[u] \cup {"usage"} \in Homes /\ home[u] \ {"recording"} \in Homes
      BY <3>1, ContentsTyped
    <3> QED BY <1>0, <1>4, <3>2 DEF Transcribed, DeleteRecording, RowsOK
  <2>2. RowsOK' /\ request' \in [Requests -> Readings \cup {None}]
    BY <1>0, <1>4, <2>1 DEF RowsOK, Transcribed, DeleteRecording
  <2> QED BY <2>2, TypePartsNext
<1> QED BY <1>1, <1>2, <1>3, <1>4

LEMMA TypeStep ==
    ASSUME ConstantsOK, TypeOK, ReadsInv, HomeInv, Next
    PROVE  TypeOK'
<1>1. CASE Reviews
  BY <1>1, SignupTyped, BeginsTyped, ReviewsTyped DEF Reviews
<1>2. CASE Visits
  BY <1>2, BeginsTyped, SessionsTyped DEF Visits
<1>3. CASE Members
  BY <1>3, BeginsTyped, InvitesTyped, MembersTyped DEF Members
<1>4. CASE Sharing
  BY <1>4, BeginsTyped, SharesTyped DEF Sharing
<1>5. CASE Library
  BY <1>5, BeginsTyped, SharesTyped DEF Library
<1>6. CASE \E s \in Sessions : SessionEnds(s)
  BY <1>6, SessionsTyped
<1> QED BY <1>1, <1>2, <1>3, <1>4, <1>5, <1>6 DEF Next

-----------------------------------------------------------------------------
(* What a step does to one request, invite or workspace. *)

\* The first step of a request.
Begins(r) ==
    \/ \E u \in Users : Login(r, u) \/ Approve(r, u) \/ Reject(r, u) \/ Disable(r, u)
                          \/ Remove(r, u) \/ Upload(r, u)
    \/ \E s \in Sessions : Password(r, s)
    \/ \E i \in Invites : Guest(r, i) \/ (\E u \in Users : Accept(r, u, i))
    \/ \E u \in Users, perm \in {"view", "edit"} : Share(r, u, perm)

\* The second.
Ends(r) ==
    \/ ApproveCommit(r) \/ DisableCommit(r) \/ LoginCommit(r) \/ PasswordCommit(r)
    \/ AcceptCommit(r) \/ GuestCommit(r) \/ ShareCommit(r) \/ UploadCommit(r)

\* A step of no request.
Alone ==
    \/ \E u \in Users, auto \in BOOLEAN : Signup(u, auto)
    \/ \E i \in Invites, email \in Users \cup {None}, role \in Roles, max \in 1..MaxUses :
         Issue(i, email, role, max)
    \/ \E i \in Invites : InviteEnds(i)
    \/ \E u \in Users, role \in Roles : SetRole(u, role)
    \/ \E x \in Shares : RevokeShare(x)
    \/ \E u \in Users : Transcribed(u) \/ DeleteRecording(u)
    \/ \E s \in Sessions : SessionEnds(s)

LEMMA Steps ==
    ASSUME Next
    PROVE  \/ \E r \in Requests : Begins(r)
           \/ \E r \in Requests : Ends(r) \/ RejectCommit(r) \/ RemoveCommit(r)
           \/ Alone
<1>1. CASE Reviews
  BY <1>1, Zenon DEF Reviews, Begins, Ends, Alone
<1>2. CASE Visits
  BY <1>2, Zenon DEF Visits, Begins, Ends, Alone
<1>3. CASE Members
  BY <1>3, Zenon DEF Members, Begins, Ends, Alone
<1>4. CASE Sharing
  BY <1>4, Zenon DEF Sharing, Begins, Ends, Alone
<1>5. CASE Library
  BY <1>5, Zenon DEF Library, Begins, Ends, Alone
<1>6. CASE \E s \in Sessions : SessionEnds(s)
  BY <1>6, Zenon DEF Alone
<1> QED BY <1>1, <1>2, <1>3, <1>4, <1>5, <1>6 DEF Next

LEMMA BeginsRest ==
    ASSUME NEW r \in Requests, Begins(r)
    PROVE  UNCHANGED Rest /\ request[r] = None /\ \E k : request' = [request EXCEPT ![r] = k]
BY DEF Begins, Begin, Login, Approve, Reject, Disable, Remove, Upload, Password, Guest, Accept, Share

LEMMA EndsRequest ==
    ASSUME NEW r \in Requests, Ends(r)
    PROVE  End(r)
BY DEF Ends, Fail, ApproveCommit, DisableCommit, LoginCommit, PasswordCommit, AcceptCommit,
       GuestCommit, ShareCommit, UploadCommit

LEMMA AloneRequest == ASSUME Alone PROVE UNCHANGED request
BY DEF Alone, Signup, Issue, InviteEnds, SetRole, RevokeShare, Transcribed, DeleteRecording, SessionEnds

\* A request begins, ends, stays, or hears that what it was about is gone.
LEMMA RequestEffect ==
    ASSUME TypeOK, Next, NEW r \in Requests
    PROVE  \/ request'[r] = None
           \/ request'[r] = request[r]
           \/ Begins(r)
           \/ /\ request[r] # None /\ request'[r] # None
              /\ request'[r].op = request[r].op /\ request'[r].user = request[r].user
              /\ request'[r].op \in {"reject", "upload", "remove"}
              /\ request'[r].op = "upload" => request'[r].home = {}
<1>0. request \in [Requests -> Readings \cup {None}]
  BY DEF TypeOK
<1>1. ASSUME NEW q \in Requests, Begins(q) PROVE Begins(r) \/ request'[r] = request[r]
  <2>1. PICK k : request' = [request EXCEPT ![q] = k]
    BY <1>1, BeginsRest
  <2> QED BY <1>0, <1>1, <2>1
<1>2. ASSUME NEW q \in Requests, Ends(q) PROVE request'[r] \in {None, request[r]}
  BY <1>0, <1>2, EndsRequest DEF End
<1>3. ASSUME NEW q \in Requests, RejectCommit(q)
      PROVE  \/ request'[r] \in {None, request[r]}
             \/ /\ request[r] # None /\ request'[r] # None
                /\ request'[r].op = request[r].op /\ request'[r].user = request[r].user
                /\ request'[r].op \in {"reject", "upload"} /\ request'[r].home = {}
  <2>1. CASE End(q)
    BY <1>0, <2>1 DEF End
  <2>2. CASE Forsake(q, request[q].user)
    <3> DEFINE gone == [request[r] EXCEPT !.home = {}]
               named == request[r] # None /\ request[r].op \in {"reject", "upload"}
    <3>1. request'[r] = IF r = q THEN None
                        ELSE IF named /\ request[r].user = request[q].user THEN gone ELSE request[r]
      BY <2>2 DEF Forsake
    <3>2. ASSUME named PROVE gone.op = request[r].op /\ gone.user = request[r].user /\ gone.home = {}
      <4>1. \/ request[r] \in [op: {"reject"}, user: Users, account: Accounts, home: Homes]
            \/ request[r] \in [op: {"upload"}, user: Users, home: Homes]
        BY <3>2, Read
      <4> QED BY <4>1
    <3> HIDE DEF gone
    <3> QED BY <3>1, <3>2
  <2> QED BY <1>3, <2>1, <2>2 DEF RejectCommit
<1>4. ASSUME NEW q \in Requests, RemoveCommit(q)
      PROVE  \/ request'[r] \in {None, request[r]}
             \/ /\ request[r] # None /\ request'[r] # None
                /\ request'[r].op = request[r].op /\ request'[r].user = request[r].user
                /\ request'[r].op = "remove"
  <2> DEFINE out == [request[r] EXCEPT !.member = FALSE]
             named == request[q].member /\ Doing(r, "remove") /\ request[r].user = request[q].user
  <2>1. request'[r] = IF r = q THEN None ELSE IF named THEN out ELSE request[r]
    BY <1>4 DEF RemoveCommit
  <2>2. ASSUME named PROVE out.op = request[r].op /\ out.user = request[r].user
    <3>1. request[r] \in [op: {"remove"}, user: Users, account: Accounts, member: BOOLEAN]
      BY <2>2, Read DEF Doing
    <3> QED BY <3>1
  <2>3. named => request[r] # None /\ request[r].op = "remove"
    BY DEF Doing
  <2> HIDE DEF out, named
  <2> QED BY <2>1, <2>2, <2>3
<1> QED BY <1>1, <1>2, <1>3, <1>4, Steps, AloneRequest

\* Letters as they are read are good, and so are those of a request under way.
LEMMA LettersGood ==
    /\ \A u : \A i \in Invites : Letters(u)[i] # None => LetterOK(Letters(u)[i], invite[i])
    /\ \A i, j \in Invites : Usable(j) /\ Only(j)[i] # None => LetterOK(Only(j)[i], invite[i])
BY DEF Letters, Only, LetterOK, Usable

\* One more person came by an invite of which read was the reading.
Sold(i, read) == LetterOK(read, invite[i]) /\ invite'[i] = Seat(i, read)

LEMMA JoinEffect ==
    ASSUME RowsOK, NEW u \in Users, NEW letters \in Letters0, NEW i \in Invites,
           \A j \in Invites : letters[j] # None => LetterOK(letters[j], invite[j]),
           ClaimInvites(u, letters)
    PROVE  invite'[i] = invite[i] \/ \E read \in InviteRows : Sold(i, read)
<1>1. CASE UNCHANGED invite
  BY <1>1
<1>2. CASE \E j \in Live(letters) : invite' = [invite EXCEPT ![j] = Seat(j, letters[j])]
  <2>1. PICK j \in Live(letters) : invite' = [invite EXCEPT ![j] = Seat(j, letters[j])]
    BY <1>2
  <2>2. j \in Invites /\ letters[j] \in InviteRows /\ LetterOK(letters[j], invite[j])
    BY DEF Live, Letters0
  <2> QED BY <2>1, <2>2 DEF RowsOK, Letters0, Sold
<1> QED BY <1>1, <1>2 DEF ClaimInvites

LEMMA InviteEffect ==
    ASSUME TypeOK, ReadsInv, Next, NEW i \in Invites
    PROVE  \/ invite'[i] = invite[i]
           \/ \E email \in Users \cup {None}, role \in Roles, max \in 1..MaxUses :
                Issue(i, email, role, max)
           \/ /\ invite[i] # None
              /\ invite'[i] = [invite[i] EXCEPT !.live = FALSE]
           \/ \E read \in InviteRows : Sold(i, read)
<1>0. RowsOK
  BY TypeParts
<1>1. ASSUME NEW r \in Requests, Begins(r) PROVE invite'[i] = invite[i]
  BY <1>1, BeginsRest DEF Rest
<1>2. ASSUME NEW r \in Requests, Ends(r)
      PROVE  invite'[i] = invite[i] \/ \E read \in InviteRows : Sold(i, read)
  <2> DEFINE k == request[r]
  <2>1. ASSUME Doing(r, "approve") \/ Doing(r, "accept"), ClaimInvites(k.user, k.invites)
        PROVE  invite'[i] = invite[i] \/ \E read \in InviteRows : Sold(i, read)
    <3>1. k.user \in Users /\ k.invites \in Letters0
      BY <2>1, Read DEF Doing
    <3>2. \A j \in Invites : k.invites[j] # None => LetterOK(k.invites[j], invite[j])
      BY <2>1 DEF ReadsInv, HasRead, Doing
    <3> QED BY <1>0, <2>1, <3>1, <3>2, JoinEffect
  <2>2. CASE ApproveCommit(r)
    BY <2>1, <2>2 DEF ApproveCommit, Fail, Rest
  <2>3. CASE AcceptCommit(r)
    BY <2>1, <2>3 DEF AcceptCommit
  <2>4. CASE GuestCommit(r)
    <3>1. PICK j \in Live(k.invites) : invite' = [invite EXCEPT ![j] = Seat(j, k.invites[j])]
      BY <2>4 DEF GuestCommit
    <3>2. k.invites \in Letters0
      BY <2>4, Read DEF GuestCommit, Doing
    <3>3. j \in Invites /\ k.invites[j] \in InviteRows /\ LetterOK(k.invites[j], invite[j])
      BY <2>4, <3>2 DEF Live, Letters0, ReadsInv, HasRead, GuestCommit, Doing
    <3> QED BY <1>0, <3>1, <3>3 DEF RowsOK, Letters0, Sold
  <2>5. CASE DisableCommit(r) \/ LoginCommit(r) \/ PasswordCommit(r) \/ ShareCommit(r) \/ UploadCommit(r)
    BY <2>5 DEF DisableCommit, LoginCommit, PasswordCommit, ShareCommit, UploadCommit, Fail, Rest
  <2> QED BY <1>2, <2>2, <2>3, <2>4, <2>5 DEF Ends
<1>3. ASSUME NEW r \in Requests, RejectCommit(r) \/ RemoveCommit(r)
      PROVE  \/ invite'[i] = invite[i]
             \/ invite[i] # None /\ invite'[i] = [invite[i] EXCEPT !.live = FALSE]
  BY <1>3 DEF RejectCommit, RemoveCommit, Withdrawn
<1>4. ASSUME NEW u \in Users, NEW auto \in BOOLEAN, Signup(u, auto)
      PROVE  invite'[i] = invite[i] \/ \E read \in InviteRows : Sold(i, read)
  <2>1. CASE auto
    <3>1. ClaimInvites(u, Letters(u))
      BY <1>4, <2>1 DEF Signup
    <3> QED BY <1>0, <3>1, LettersTyped, LettersGood, JoinEffect
  <2>2. CASE ~auto
    BY <1>4, <2>2 DEF Signup
  <2> QED BY <2>1, <2>2
<1>5. ASSUME NEW j \in Invites, NEW email \in Users \cup {None}, NEW role \in Roles,
             NEW max \in 1..MaxUses, Issue(j, email, role, max)
      PROVE  invite'[i] = invite[i] \/ Issue(i, email, role, max)
  <2>1. CASE i = j
    BY <1>5, <2>1
  <2>2. CASE i # j
    <3> DEFINE row == [email |-> email, role |-> role, uses |-> 0, max |-> max, live |-> TRUE,
                       sold |-> 0, blind |-> 0]
    <3>1. invite' = [invite EXCEPT ![j] = row]
      BY <1>5 DEF Issue
    <3> HIDE DEF row
    <3> QED BY <1>0, <2>2, <3>1 DEF RowsOK, Letters0
  <2> QED BY <2>1, <2>2
<1>6. ASSUME NEW j \in Invites, InviteEnds(j)
      PROVE  \/ invite'[i] = invite[i]
             \/ invite[i] # None /\ invite'[i] = [invite[i] EXCEPT !.live = FALSE]
  <2> DEFINE dead == [invite[j] EXCEPT !.live = FALSE]
  <2>1. invite[j] # None /\ invite' = [invite EXCEPT ![j] = dead]
    BY <1>6 DEF InviteEnds
  <2>2. invite'[i] = IF i = j THEN dead ELSE invite[i]
    <3> HIDE DEF dead
    <3> QED BY <1>0, <2>1 DEF RowsOK, Letters0
  <2> QED BY <2>1, <2>2
<1>7. ASSUME Alone PROVE \/ UNCHANGED invite
                         \/ \E u \in Users, auto \in BOOLEAN : Signup(u, auto)
                         \/ \E j \in Invites, email \in Users \cup {None}, role \in Roles, max \in 1..MaxUses :
                              Issue(j, email, role, max)
                         \/ \E j \in Invites : InviteEnds(j)
  BY <1>7 DEF Alone, SetRole, RevokeShare, Transcribed, DeleteRecording, SessionEnds
<1> QED BY <1>1, <1>2, <1>3, <1>4, <1>5, <1>6, <1>7, Steps, Zenon

LEMMA DeadEffect ==
    ASSUME NEW row \in InviteRows
    PROVE  LET dead == [row EXCEPT !.live = FALSE] IN
           /\ ~dead.live
           /\ dead.max = row.max /\ dead.uses = row.uses /\ dead.sold = row.sold /\ dead.blind = row.blind
BY DEF InviteRows

-----------------------------------------------------------------------------
(* Readings lag behind only in the uses. *)

LEMMA ReadsStep ==
    ASSUME ConstantsOK, TypeOK, ReadsInv, Next, TypeOK'
    PROVE  ReadsInv'
<1>0. RowsOK /\ RowsOK'
  BY DEF TypeOK, RowsOK, Letters0, Shares0
<1> SUFFICES ASSUME NEW r \in Requests, NEW i \in Invites, HasRead(r, i)'
             PROVE  LetterOK(request[r].invites[i], invite[i])'
  BY DEF ReadsInv
<1>1. CASE request'[r] = request[r]
  <2>1. HasRead(r, i) /\ LetterOK(request[r].invites[i], invite[i])
    BY <1>1 DEF HasRead, ReadsInv
  <2>2. ~FreeInvite(i)
    BY <2>1 DEF HasRead, FreeInvite
  <2>3. invite[i] \in InviteRows
    BY <1>0, <2>1 DEF LetterOK, RowsOK, Letters0
  <2>4. invite'[i] \in InviteRows \cup {None}
    BY <1>0 DEF RowsOK, Letters0
  <2>5. invite'[i] = [invite[i] EXCEPT !.live = FALSE] =>
          invite'[i] \in InviteRows /\ invite'[i].max = invite[i].max
    BY <2>3, DeadEffect, InviteDead
  <2>6. ASSUME NEW read \in InviteRows, Sold(i, read)
        PROVE  invite'[i] \in InviteRows /\ invite'[i].max = invite[i].max
    BY <2>3, <2>6, SeatTyped DEF Sold, LetterOK
  <2>7. invite'[i] \in InviteRows => invite'[i] # None
    BY NullOK
  <2> QED BY <1>1, <2>1, <2>2, <2>5, <2>6, <2>7, InviteEffect DEF LetterOK, Issue
<1>2. CASE Begins(r)
  <2>1. UNCHANGED invite /\ \E k : request' = [request EXCEPT ![r] = k]
    BY <1>2, BeginsRest DEF Rest
  <2>2. PICK k : request' = [request EXCEPT ![r] = k]
    BY <2>1
  <2>3. request'[r] = k
    BY <2>2 DEF TypeOK
  <2>4. request'[r].op \in {"accept", "guest", "approve"} /\ request'[r].invites[i] # None
    BY DEF HasRead
  <2>5. \/ \E u \in Users : Approve(r, u)
        \/ \E j \in Invites : Guest(r, j) \/ (\E u \in Users : Accept(r, u, j))
    BY <1>2, <2>4 DEF Begins, Begin, Login, Reject, Disable, Remove, Upload, Password, Share, TypeOK
  <2>6. ASSUME NEW u \in Users, Approve(r, u) PROVE request'[r].invites = Letters(u)
    BY <2>6 DEF Approve, Begin, TypeOK
  <2>7. ASSUME NEW j \in Invites, Guest(r, j) \/ (\E u \in Users : Accept(r, u, j))
        PROVE  Usable(j) /\ request'[r].invites = Only(j)
    BY <2>7 DEF Guest, Accept, Begin, TypeOK
  <2>8. LetterOK(request'[r].invites[i], invite[i])
    BY <2>4, <2>5, <2>6, <2>7, LettersGood
  <2> QED BY <2>1, <2>8
<1> QED BY <1>1, <1>2, RequestEffect DEF HasRead

-----------------------------------------------------------------------------
(* Seats. *)

LEMMA SeatsStep ==
    ASSUME ConstantsOK, TypeOK, ReadsInv, SeatsInv, Next
    PROVE  SeatsInv'
<1> SUFFICES ASSUME NEW i \in Invites, invite'[i] # None
             PROVE  SeatOK(invite'[i])
  BY DEF SeatsInv
<1>0. invite[i] \in InviteRows \cup {None}
  BY DEF TypeOK
<1>1. invite[i] # None => SeatOK(invite[i]) /\ invite[i] \in InviteRows
  BY <1>0 DEF SeatsInv
<1>2. ASSUME NEW email \in Users \cup {None}, NEW role \in Roles, NEW max \in 1..MaxUses,
             Issue(i, email, role, max)
      PROVE  SeatOK(invite'[i])
  BY <1>2 DEF Issue, SeatOK, TypeOK
<1>3. ASSUME invite[i] # None, invite'[i] = [invite[i] EXCEPT !.live = FALSE]
      PROVE  SeatOK(invite'[i])
  BY <1>1, <1>3, DeadEffect DEF SeatOK
<1>4. ASSUME NEW read \in InviteRows, Sold(i, read)
      PROVE  SeatOK(invite'[i])
  <2>1. read.uses < read.max /\ read.max = invite[i].max /\ SeatOK(invite[i])
    BY <1>1, <1>4 DEF Sold, LetterOK
  <2>2. invite'[i] \in InviteRows /\ invite'[i].uses = read.uses + 1 /\ invite'[i].max = invite[i].max
        /\ (invite[i].sold = invite[i].uses + invite[i].blind =>
              invite'[i].sold = invite'[i].uses + invite'[i].blind)
    BY <1>1, <1>4, <2>1, SeatTyped DEF Sold, LetterOK
  <2>3. read.uses \in Nat /\ read.max \in Nat
    BY DEF InviteRows
  <2> QED BY <2>1, <2>2, <2>3 DEF SeatOK
<1> QED BY <1>1, <1>2, <1>3, <1>4, InviteEffect

LEMMA SeatsCountedFromInv == TypeOK /\ SeatsInv => SeatsCounted
<1> SUFFICES ASSUME TypeOK, SeatsInv, NEW i \in Invites, invite[i] # None
             PROVE  invite[i].sold <= invite[i].max + invite[i].blind
  BY DEF SeatsCounted
<1>1. invite[i] \in InviteRows /\ SeatOK(invite[i])
  BY DEF TypeOK, SeatsInv
<1>2. invite[i].max \in Nat /\ invite[i].uses \in Nat /\ invite[i].blind \in Int
  BY <1>1 DEF InviteRows
<1> QED BY <1>1, <1>2 DEF SeatOK

-----------------------------------------------------------------------------
(* Personal workspaces. *)

\* A workspace goes only with a rejection that had counted nothing in it.
LEMMA HomeEffect ==
    ASSUME TypeOK, Next, NEW u \in Users, home[u] # {}, home'[u] = {}
    PROVE  \E r \in Requests :
              Doing(r, "reject") /\ request[r].user = u /\ request[r].home = Empty /\ Forsake(r, u)
<1>0. home \in [Users -> Homes] /\ home[u] \in Homes
  BY DEF TypeOK
<1>1. ASSUME NEW r \in Requests, Begins(r) PROVE home'[u] # {}
  BY <1>1, BeginsRest DEF Rest
<1>2. ASSUME NEW r \in Requests, Ends(r) PROVE home'[u] # {}
  <2>1. CASE ApproveCommit(r)
    <3>1. home' = home \/ \E v \in Users : home' = [home EXCEPT ![v] = Empty]
      <4>1. request[r].user \in Users
        BY <2>1, Read DEF ApproveCommit, Doing
      <4> QED BY <2>1, <4>1 DEF ApproveCommit, Settle, Fail, Rest
    <3> QED BY <1>0, <3>1 DEF Empty
  <2>2. CASE UploadCommit(r)
    BY <1>0, <2>2 DEF UploadCommit, Fail, Rest
  <2>3. CASE DisableCommit(r) \/ LoginCommit(r) \/ PasswordCommit(r) \/ ShareCommit(r) \/ AcceptCommit(r)
               \/ GuestCommit(r)
    BY <2>3 DEF DisableCommit, LoginCommit, PasswordCommit, ShareCommit, AcceptCommit, GuestCommit,
                Fail, Rest
  <2> QED BY <1>2, <2>1, <2>2, <2>3 DEF Ends
<1>3. ASSUME NEW r \in Requests, RejectCommit(r)
      PROVE  \/ home'[u] # {}
             \/ Doing(r, "reject") /\ request[r].user = u /\ request[r].home = Empty /\ Forsake(r, u)
  BY <1>0, <1>3 DEF RejectCommit, Counted
<1>4. ASSUME NEW r \in Requests, RemoveCommit(r) PROVE home'[u] # {}
  BY <1>4 DEF RemoveCommit
<1>5. ASSUME Alone PROVE home'[u] # {}
  <2>1. UNCHANGED home \/ \E v \in Users :
           \/ home' = [home EXCEPT ![v] = Empty]
           \/ Transcribed(v) \/ DeleteRecording(v)
    BY <1>5 DEF Alone, Signup, Issue, InviteEnds, SetRole, RevokeShare, SessionEnds
  <2>2. home[u] \cup {"usage"} # {} /\ home[u] \ {"recording"} # {}
    BY <1>0, ContentsTyped
  <2> QED BY <1>0, <2>1, <2>2 DEF Empty, Transcribed, DeleteRecording
<1> QED BY <1>1, <1>2, <1>3, <1>4, <1>5, Steps

LEMMA HomeStep ==
    ASSUME TypeOK, HomeInv, Next
    PROVE  HomeInv'
<1> SUFFICES ASSUME NEW r \in Requests, request'[r] # None, request'[r].op = "upload",
                    request'[r].home # {}, home'[request'[r].user] = {}
             PROVE  FALSE
  BY DEF HomeInv, Doing
<1>1. CASE request'[r] = request[r]
  <2>1. request[r].user \in Users /\ home[request[r].user] # {}
    BY <1>1, Read DEF HomeInv, Doing
  <2>2. PICK q \in Requests :
           Doing(q, "reject") /\ request[q].user = request[r].user /\ Forsake(q, request[r].user)
    BY <1>1, <2>1, HomeEffect
  <2>3. q # r
    BY <1>1, <2>2 DEF Doing
  <2>4. request'[r] = [request[r] EXCEPT !.home = {}]
    BY <1>1, <2>2, <2>3 DEF Forsake
  <2>5. request[r] \in [op: {"upload"}, user: Users, home: Homes]
    BY <1>1, Read
  <2> QED BY <2>4, <2>5
<1>2. CASE Begins(r)
  <2>1. UNCHANGED home
    BY <1>2, BeginsRest DEF Rest
  <2>2. PICK k : request' = [request EXCEPT ![r] = k]
    BY <1>2, BeginsRest
  <2>3. PICK u \in Users : Upload(r, u)
    BY <1>2 DEF Begins, Begin, Login, Approve, Reject, Disable, Remove, Password, Guest, Accept, Share, TypeOK
  <2> QED BY <2>1, <2>3 DEF Upload, Begin, TypeOK
<1> QED BY <1>1, <1>2, RequestEffect

-----------------------------------------------------------------------------
(* Sessions. *)

\* The same session under a new password.
Renewed(row, new) == [row EXCEPT !.password = new]

LEMMA RenewedRow ==
    ASSUME NEW row \in SessionRows, NEW new
    PROVE  Renewed(row, new).user = row.user /\ Renewed(row, new).stray = row.stray
           /\ Renewed(row, new).password = new
BY DEF SessionRows, Renewed

\* The session a login opens.
Opened(r) ==
    [user |-> request[r].user, password |-> request[r].password,
     stray |-> ~MayLogIn(request[r].user) \/ account[request[r].user].password # request[r].password]

\* A session stays, ends, is opened in a free slot, or moves on to the new password.
LEMMA SessionEffect ==
    ASSUME TypeOK, Next, NEW s \in Sessions
    PROVE  \/ session'[s] \in {None, session[s]}
           \/ FreeSession(s) /\ UNCHANGED account
                /\ \E r \in Requests : Doing(r, "login") /\ session'[s] = Opened(r)
           \/ FreeSession(s) /\ \E u \in Users : account'[u].status \in {"pending", "active"}
                /\ account'[u].password = 0
                /\ session'[s] = [user |-> u, password |-> 0, stray |-> FALSE]
           \/ /\ session[s] # None
              /\ \E r \in Requests : /\ Doing(r, "password") /\ request[r].session = s
                                     /\ account'[request[r].user].password = account[request[r].user].password + 1
                                     /\ account'[request[r].user].status = account[request[r].user].status
                                     /\ session'[s] = Renewed(session[s], account[request[r].user].password + 1)
<1>0. session \in [Sessions -> SessionRows \cup {None}] /\ account \in [Users -> Accounts]
  BY DEF TypeOK
<1>1. ASSUME NEW r \in Requests, LoginCommit(r)
      PROVE  \/ session'[s] = session[s]
             \/ FreeSession(s) /\ UNCHANGED account
                /\ Doing(r, "login") /\ session'[s] = Opened(r)
  <2> DEFINE row == Opened(r)
  <2>1. PICK t \in Sessions : FreeSession(t) /\ session' = [session EXCEPT ![t] = row]
    BY <1>1 DEF LoginCommit, Opened
  <2>2. Doing(r, "login") /\ UNCHANGED account
    BY <1>1 DEF LoginCommit
  <2>3. session'[s] = IF s = t THEN row ELSE session[s]
    <3> HIDE DEF row
    <3> QED BY <1>0, <2>1
  <2> QED BY <2>1, <2>2, <2>3
<1>2. ASSUME NEW u \in Users, NEW auto \in BOOLEAN, Signup(u, auto)
      PROVE  \/ session'[s] = session[s]
             \/ FreeSession(s) /\ account'[u].status \in {"pending", "active"}
                /\ account'[u].password = 0
                /\ session'[s] = [user |-> u, password |-> 0, stray |-> FALSE]
  <2>1. account'[u] = [status |-> IF auto THEN "active" ELSE "pending", password |-> 0, default |-> "home"]
    BY <1>0, <1>2 DEF Signup
  <2>2. PICK t \in Sessions : FreeSession(t)
           /\ session' = [session EXCEPT ![t] = [user |-> u, password |-> 0, stray |-> FALSE]]
    BY <1>2 DEF Signup
  <2> QED BY <1>0, <2>1, <2>2
<1>3. ASSUME NEW r \in Requests, PasswordCommit(r)
      PROVE  \/ session'[s] \in {None, session[s]}
             \/ /\ session[s] # None
                /\ Doing(r, "password") /\ request[r].session = s
                /\ account'[request[r].user].password = account[request[r].user].password + 1
                /\ account'[request[r].user].status = account[request[r].user].status
                /\ session'[s] = Renewed(session[s], account[request[r].user].password + 1)
  <2> DEFINE u == request[r].user
             new == account[u].password + 1
             left == RevokeSessions(u, request[r].session)
             kept == Renewed(left[request[r].session], new)
  <2>0. u \in Users /\ request[r].session \in Sessions /\ account[u] \in Accounts
    BY <1>0, <1>3, Read DEF PasswordCommit, Doing
  <2>1. CASE Fail(r)
    BY <2>1 DEF Fail, Rest
  <2>2. CASE ~(new > MaxPassword)
    <3>1. account' = [account EXCEPT ![u].password = new]
          /\ session' = IF left[request[r].session] = None THEN left
                        ELSE [left EXCEPT ![request[r].session] = kept]
      BY <1>3, <2>2 DEF PasswordCommit, Renewed
    <3>2. account'[u].password = new /\ account'[u].status = account[u].status
      BY <1>0, <2>0, <3>1 DEF Accounts
    <3>3. left[s] \in {None, session[s]} /\ (request[r].session = s => left[s] = session[s])
          /\ left = [t \in Sessions |-> left[t]]
      BY DEF RevokeSessions
    <3>4. session'[s] = IF left[request[r].session] # None /\ s = request[r].session THEN kept ELSE left[s]
      <4> HIDE DEF kept, left
      <4> QED BY <3>1, <3>3
    <3>5. CASE left[request[r].session] # None /\ s = request[r].session
      BY <1>3, <3>2, <3>3, <3>4, <3>5 DEF PasswordCommit
    <3> QED BY <3>3, <3>4, <3>5
  <2>3. Fail(r) \/ ~(new > MaxPassword)
    BY <1>3 DEF PasswordCommit
  <2> QED BY <2>1, <2>2, <2>3
<1>4. ASSUME NEW r \in Requests, Ends(r), ~LoginCommit(r), ~PasswordCommit(r)
      PROVE  session'[s] \in {None, session[s]}
  BY <1>4 DEF Ends, ApproveCommit, DisableCommit, RevokeSessions, AcceptCommit, GuestCommit, ShareCommit,
              UploadCommit, Fail, Rest
<1>5. ASSUME NEW r \in Requests, Begins(r) \/ RejectCommit(r) \/ RemoveCommit(r)
      PROVE  session'[s] \in {None, session[s]}
  BY <1>5, BeginsRest DEF Rest, RejectCommit, RemoveCommit, RevokeSessions
<1>6. ASSUME Alone, \A u \in Users, auto \in BOOLEAN : ~Signup(u, auto)
      PROVE  session'[s] \in {None, session[s]}
  BY <1>0, <1>6 DEF Alone, Issue, InviteEnds, SetRole, RevokeShare, Transcribed, DeleteRecording, SessionEnds
<1> QED BY <1>1, <1>2, <1>3, <1>4, <1>5, <1>6, Steps

\* What closes an account or changes its password reaches the sessions it is true of.
LEMMA AccountEffect ==
    ASSUME TypeOK, Next, NEW s \in Sessions, session[s] # None, session'[s] = session[s],
           MayLogIn(session[s].user), session[s].password = account[session[s].user].password
    PROVE  LET u == session[s].user IN
           account'[u].status \in {"pending", "active"} /\ account'[u].password = account[u].password
<1> DEFINE u == session[s].user
<1>0. /\ account \in [Users -> Accounts] /\ session[s] \in SessionRows
      /\ u \in Users /\ account[u] \in Accounts /\ account[u].password \in Nat
      /\ account[u].status \in {"pending", "active"}
  BY DEF TypeOK, SessionRows, Accounts, MayLogIn, ConstantsOK
<1> SUFFICES account'[u].status \in {"pending", "active"} /\ account'[u].password = account[u].password
  OBVIOUS
<1>1. CASE UNCHANGED account
  BY <1>0, <1>1
<1>2. ASSUME NEW v \in Users, NEW auto \in BOOLEAN, Signup(v, auto)
      PROVE  account'[u] = account[u]
  BY <1>0, <1>2 DEF Signup
<1>3. ASSUME NEW r \in Requests, Doing(r, "reject") \/ Doing(r, "disable"),
             session' = RevokeSessions(request[r].user, None)
      PROVE  request[r].user # u \/ session'[s] = None
  BY <1>3, ConstantsOK DEF RevokeSessions
<1>4. ASSUME NEW v \in Users, NEW status, NEW d, v # u,
             account' = [account EXCEPT ![v].status = status, ![v].default = d]
      PROVE  account'[u] = account[u]
  BY <1>0, <1>4
<1>5. ASSUME NEW r \in Requests, RejectCommit(r) PROVE account'[u] = account[u]
  <2> DEFINE v == request[r].user
             lost == Counted(request[r].home) = Empty /\ "home" \in {request[r].account.default, account[v].default}
             status == Reviewed(request[r].account, account[v], "rejected")
             d == IF lost THEN None ELSE account[v].default
  <2>1. v \in Users
    BY <1>5, Read DEF RejectCommit, Doing
  <2>2. account' = [account EXCEPT ![v].status = status, ![v].default = d]
    BY <1>5 DEF RejectCommit
  <2>3. v # u
    BY <1>3, <1>5 DEF RejectCommit
  <2> HIDE DEF status, d
  <2> QED BY <1>4, <2>1, <2>2, <2>3
<1>6. ASSUME NEW r \in Requests, DisableCommit(r) PROVE account'[u] = account[u]
  <2> DEFINE v == request[r].user
             status == Reviewed(request[r].account, account[v], "disabled")
  <2>1. v \in Users
    BY <1>6, Read DEF DisableCommit, Doing
  <2>2. account' = [account EXCEPT ![v].status = status]
    BY <1>6 DEF DisableCommit
  <2>3. v # u
    BY <1>3, <1>6 DEF DisableCommit
  <2> HIDE DEF status
  <2> QED BY <1>0, <2>1, <2>2, <2>3
<1>7. ASSUME NEW r \in Requests, AcceptCommit(r) \/ RemoveCommit(r)
      PROVE  account'[u].status = account[u].status /\ account'[u].password = account[u].password
  <2>1. request[r].user \in Users
    BY <1>7, Read DEF AcceptCommit, RemoveCommit, Doing
  <2>2. \E d : account' = [account EXCEPT ![request[r].user].default = d]
    BY <1>7 DEF AcceptCommit, RemoveCommit
  <2> QED BY <1>0, <2>1, <2>2 DEF Accounts
<1>8. ASSUME NEW r \in Requests, ApproveCommit(r), ~Fail(r)
      PROVE  account'[u].status \in {"pending", "active"} /\ account'[u].password = account[u].password
  <2> DEFINE v == request[r].user
             status == Reviewed(request[r].account, account[v], "active")
  <2>1. v \in Users /\ request[r].account \in Accounts
    BY <1>8, Read DEF ApproveCommit, Doing
  <2>2. Settle(v, request[r].account)
    BY <1>8 DEF ApproveCommit
  <2>3. PICK d : account' = [account EXCEPT ![v].status = status, ![v].default = d]
    BY <2>2 DEF Settle
  <2>4. v = u => status \in {"pending", "active"}
    BY <1>0 DEF Reviewed
  <2>5. account'[u].password = account[u].password
        /\ (v = u => account'[u].status = status) /\ (v # u => account'[u] = account[u])
    <3> HIDE DEF status
    <3> QED BY <1>0, <2>1, <2>3 DEF Accounts
  <2> QED BY <1>0, <2>4, <2>5
<1>9. ASSUME NEW r \in Requests, PasswordCommit(r), ~Fail(r)
      PROVE  account'[u] = account[u]
  <2> DEFINE v == request[r].user
             new == account[v].password + 1
             left == RevokeSessions(v, request[r].session)
  <2>1. v \in Users /\ request[r].session \in Sessions
    BY <1>9, Read DEF PasswordCommit, Doing
  <2>2. account' = [account EXCEPT ![v].password = new]
        /\ session' = IF left[request[r].session] = None THEN left
                      ELSE [left EXCEPT ![request[r].session].password = new]
    BY <1>9 DEF PasswordCommit
  <2>3. CASE v # u
    BY <1>0, <2>1, <2>2, <2>3
  <2>4. CASE v = u
    <3>1. left = [t \in Sessions |-> left[t]]
          /\ (s # request[r].session => left[s] = None) /\ (s = request[r].session => left[s] = session[s])
      BY <2>4 DEF RevokeSessions
    <3>2. CASE s # request[r].session
      BY <2>1, <2>2, <3>1, <3>2
    <3>3. CASE s = request[r].session
      <4> DEFINE kept == [session[s] EXCEPT !.password = new]
      <4>1. session'[s] = kept
        <5> HIDE DEF left
        <5> QED BY <2>1, <2>2, <3>1, <3>3
      <4>2. kept.password = new
        BY <1>0 DEF SessionRows
      <4> QED BY <1>0, <2>4, <4>1, <4>2
    <3> QED BY <3>2, <3>3
  <2> QED BY <2>3, <2>4
<1>10. ASSUME NEW r \in Requests, Ends(r), ~ApproveCommit(r), ~PasswordCommit(r), ~AcceptCommit(r), ~DisableCommit(r)
       PROVE  UNCHANGED account
  BY <1>10 DEF Ends, LoginCommit, GuestCommit, ShareCommit, UploadCommit, Fail, Rest
<1>11. ASSUME Alone, \A v \in Users, auto \in BOOLEAN : ~Signup(v, auto)
       PROVE  UNCHANGED account
  BY <1>11 DEF Alone, Issue, InviteEnds, SetRole, RevokeShare, Transcribed, DeleteRecording, SessionEnds
<1>12. ASSUME NEW r \in Requests, Begins(r) \/ Fail(r) PROVE UNCHANGED account
  BY <1>12, BeginsRest DEF Fail, Rest
<1> HIDE DEF u
<1> QED BY <1>0, <1>1, <1>2, <1>5, <1>6, <1>7, <1>8, <1>9, <1>10, <1>11, <1>12, Steps

LEMMA SessionsStep ==
    ASSUME ConstantsOK, TypeOK, PasswordInv, SessionsEnd, Next
    PROVE  SessionsEnd'
<1> SUFFICES ASSUME NEW s \in Sessions, session'[s] # None
             PROVE  \/ session'[s].stray
                    \/ /\ account'[session'[s].user].status \in {"pending", "active"}
                       /\ session'[s].password = account'[session'[s].user].password
  BY DEF SessionsEnd, MayLogIn
<1>0. session[s] \in SessionRows \cup {None}
  BY DEF TypeOK
<1>1. CASE session'[s] = session[s]
  <2>1. \/ session[s].stray
        \/ MayLogIn(session[s].user) /\ session[s].password = account[session[s].user].password
    BY <1>1 DEF SessionsEnd
  <2> QED BY <1>1, <2>1, AccountEffect
<1>2. ASSUME NEW r \in Requests, Doing(r, "password"), request[r].session = s, session[s] # None,
             account'[request[r].user].password = account[request[r].user].password + 1,
             account'[request[r].user].status = account[request[r].user].status,
             session'[s] = Renewed(session[s], account[request[r].user].password + 1)
      PROVE  \/ session'[s].stray
             \/ /\ account'[session'[s].user].status \in {"pending", "active"}
                /\ session'[s].password = account'[session'[s].user].password
  <2>1. session[s].user = request[r].user
    BY <1>2 DEF PasswordInv
  <2>2. session[s].stray \/ MayLogIn(session[s].user)
    BY <1>2 DEF SessionsEnd
  <2>3. session'[s].user = session[s].user /\ session'[s].stray = session[s].stray
        /\ session'[s].password = account[request[r].user].password + 1
    BY <1>0, <1>2, RenewedRow
  <2> QED BY <1>2, <2>1, <2>2, <2>3 DEF MayLogIn
<1>3. ASSUME NEW r \in Requests, Doing(r, "login"), UNCHANGED account,
             session'[s] = Opened(r)
      PROVE  \/ session'[s].stray
             \/ /\ account'[session'[s].user].status \in {"pending", "active"}
                /\ session'[s].password = account'[session'[s].user].password
  <2> DEFINE stray == ~MayLogIn(request[r].user) \/ account[request[r].user].password # request[r].password
  <2>1. /\ session'[s].user = request[r].user /\ session'[s].password = request[r].password
        /\ session'[s].stray = stray
    BY <1>3 DEF Opened
  <2>2. CASE stray
    BY <2>1, <2>2, Zenon
  <2>3. CASE ~stray
    BY <1>3, <2>1, <2>3 DEF MayLogIn
  <2> QED BY <2>2, <2>3
<1>4. ASSUME NEW u \in Users, account'[u].status \in {"pending", "active"}, account'[u].password = 0,
             session'[s] = [user |-> u, password |-> 0, stray |-> FALSE]
      PROVE  /\ account'[session'[s].user].status \in {"pending", "active"}
             /\ session'[s].password = account'[session'[s].user].password
  BY <1>4
<1> QED BY <1>1, <1>2, <1>3, <1>4, SessionEffect, Zenon

LEMMA PasswordStep ==
    ASSUME TypeOK, PasswordInv, Next
    PROVE  PasswordInv'
<1> SUFFICES ASSUME NEW r \in Requests, request'[r] # None, request'[r].op = "password",
                    session'[request'[r].session] # None
             PROVE  session'[request'[r].session].user = request'[r].user
  BY DEF PasswordInv, Doing
<1>1. CASE request'[r] = request[r]
  <2> DEFINE s == request[r].session
  <2>1. ~FreeSession(s)
    BY <1>1, Read DEF FreeSession, Doing
  <2>2. s \in Sessions /\ session[s] \in SessionRows \cup {None}
    BY <1>1, Read DEF TypeOK, Doing
  <2>3. ~FreeSession(s)
    BY <1>1 DEF FreeSession, Doing
  <2>4. session[s] # None => session[s].user = request[r].user
    BY <1>1 DEF PasswordInv, Doing
  <2>5. ASSUME NEW new, session[s] # None, session'[s] = Renewed(session[s], new)
        PROVE  session'[s].user = session[s].user
    BY <2>2, <2>5, RenewedRow
  <2> HIDE DEF s
  <2>6. session'[s] = session[s] \/ (session[s] # None /\ session'[s].user = session[s].user) \/ session'[s] = None
    BY <2>2, <2>3, <2>5, SessionEffect
  <2>7. session'[s] # None
    BY <1>1 DEF s
  <2>8. session'[s].user = request[r].user
    BY <2>4, <2>6, <2>7
  <2> QED BY <1>1, <2>8 DEF s
<1>2. CASE Begins(r)
  <2>1. UNCHANGED session
    BY <1>2, BeginsRest DEF Rest
  <2>2. PICK s \in Sessions : Password(r, s)
    BY <1>2 DEF Begins, Begin, Login, Approve, Reject, Disable, Remove, Upload, Guest, Accept, Share, TypeOK
  <2> QED BY <2>1, <2>2 DEF Password, Begin, TypeOK
<1> QED BY <1>1, <1>2, RequestEffect

-----------------------------------------------------------------------------
(* Removed people. *)

\* Barred by a removal that leaves no way back, and free again by a new invite only.
LEMMA BarredEffect ==
    ASSUME TypeOK, Next, NEW u \in Users, barred'[u]
    PROVE  \/ \E r \in Requests :
                RemoveCommit(r) /\ request[r].user = u /\ request[r].member /\ ~WayBack(r, u)
           \/ /\ barred[u]
              /\ \A i \in Invites, email \in Users \cup {None}, role \in Roles, max \in 1..MaxUses :
                   Issue(i, email, role, max) => email \notin {u, None}
<1>0. barred \in [Users -> BOOLEAN]
  BY DEF TypeOK
<1>1. ASSUME NEW i \in Invites, NEW email \in Users \cup {None}, NEW role \in Roles,
             NEW max \in 1..MaxUses, Issue(i, email, role, max)
      PROVE  barred[u] /\ email \notin {u, None}
  BY <1>1, Zenon DEF Issue
<1>2. ASSUME NEW r \in Requests, RemoveCommit(r)
      PROVE  \/ barred[u]
             \/ RemoveCommit(r) /\ request[r].user = u /\ request[r].member /\ ~WayBack(r, u)
  <2>1. barred' = [barred EXCEPT ![request[r].user] =
                     IF request[r].member THEN ~WayBack(r, request[r].user) ELSE barred[request[r].user]]
    BY <1>2 DEF RemoveCommit
  <2>2. CASE request[r].user # u
    BY <1>0, <2>1, <2>2, Zenon
  <2>3. CASE request[r].user = u
    <3>1. barred'[u] = IF request[r].member THEN ~WayBack(r, u) ELSE barred[u]
      BY <1>0, <2>1, <2>3, Zenon
    <3>2. CASE request[r].member
      BY <1>2, <2>3, <3>1, <3>2, Zenon
    <3>3. CASE ~request[r].member
      BY <3>1, <3>3, Zenon
    <3> QED BY <3>2, <3>3
  <2> QED BY <2>2, <2>3
<1>3. ASSUME NEW r \in Requests, Begins(r) \/ Ends(r) \/ RejectCommit(r)
      PROVE  barred' = barred
  BY <1>3, BeginsRest DEF Rest, Ends, Fail, ApproveCommit, DisableCommit, LoginCommit, PasswordCommit,
     AcceptCommit, GuestCommit, ShareCommit, UploadCommit, RejectCommit
<1>4. ASSUME Alone
      PROVE  \/ barred' = barred
             \/ \E i \in Invites, email \in Users \cup {None}, role \in Roles, max \in 1..MaxUses :
                  Issue(i, email, role, max)
  BY <1>4 DEF Alone, Signup, InviteEnds, SetRole, RevokeShare, Transcribed, DeleteRecording, SessionEnds
<1>5. barred[u] \/ \E r \in Requests :
         RemoveCommit(r) /\ request[r].user = u /\ request[r].member /\ ~WayBack(r, u)
  BY <1>1, <1>2, <1>3, <1>4, Steps, Zenon
<1> QED BY <1>1, <1>5, Zenon

\* Whoever holds no letter does not come in.
LEMMA NobodyJoins ==
    ASSUME TypeOK, Next, NEW u \in Users, OutOK(u)
    PROVE  team'[u] = "none"
<1>0. team \in [Users -> Roles \cup {"none"}] /\ team[u] = "none"
  BY DEF TypeOK, OutOK
<1>1. ASSUME NEW v \in Users, NEW letters, ClaimInvites(v, letters), v = u => Live(letters) = {}
      PROVE  team'[u] = "none"
  BY <1>0, <1>1 DEF ClaimInvites
<1>2. ASSUME NEW r \in Requests, Doing(r, "approve") \/ Doing(r, "accept"),
             ClaimInvites(request[r].user, request[r].invites)
      PROVE  team'[u] = "none"
  <2>1. request[r].user \in Users /\ request[r].invites \in Letters0
    BY <1>2, Read DEF Doing
  <2>2. request[r].user = u => Live(request[r].invites) = {}
    BY <1>2, <2>1 DEF OutOK, Live, Doing, Letters0
  <2> QED BY <1>1, <1>2, <2>1, <2>2
<1>3. ASSUME NEW r \in Requests, ApproveCommit(r) \/ AcceptCommit(r)
      PROVE  team'[u] = "none"
  BY <1>0, <1>2, <1>3 DEF ApproveCommit, AcceptCommit, Fail, Rest
<1>4. ASSUME NEW v \in Users, NEW auto \in BOOLEAN, Signup(v, auto)
      PROVE  team'[u] = "none"
  <2>1. v = u => Live(Letters(v)) = {}
    BY DEF OutOK, Live, Letters, Usable
  <2>2. ClaimInvites(v, Letters(v)) \/ UNCHANGED team
    BY <1>4 DEF Signup
  <2> QED BY <1>0, <1>1, <2>1, <2>2
<1>5. ASSUME NEW v \in Users, NEW role \in Roles, SetRole(v, role)
      PROVE  team'[u] = "none"
  BY <1>0, <1>5 DEF SetRole
<1>6. ASSUME NEW r \in Requests, RemoveCommit(r)
      PROVE  team'[u] = "none"
  BY <1>0, <1>6 DEF RemoveCommit
<1>7. ASSUME NEW r \in Requests, Begins(r) \/ RejectCommit(r) \/ Ends(r), ~ApproveCommit(r), ~AcceptCommit(r)
      PROVE  UNCHANGED team
  BY <1>7, BeginsRest DEF Rest, Ends, Fail, DisableCommit, LoginCommit, PasswordCommit,
     GuestCommit, ShareCommit, UploadCommit, RejectCommit
<1>8. ASSUME Alone
      PROVE  \/ UNCHANGED team
             \/ \E v \in Users, auto \in BOOLEAN : Signup(v, auto)
             \/ \E v \in Users, role \in Roles : SetRole(v, role)
  BY <1>8 DEF Alone, Issue, InviteEnds, RevokeShare, Transcribed, DeleteRecording, SessionEnds
<1>9. CASE UNCHANGED team
  BY <1>0, <1>9
<1> QED BY <1>3, <1>4, <1>5, <1>6, <1>7, <1>8, <1>9, Steps, Zenon

LEMMA OutStep ==
    ASSUME ConstantsOK, TypeOK, ReadsInv, OutInv, Next
    PROVE  OutInv'
<1> SUFFICES ASSUME NEW u \in Users, barred'[u] PROVE OutOK(u)'
  BY DEF OutInv
<1>1. ASSUME NEW r \in Requests, RemoveCommit(r), request[r].user = u, request[r].member, ~WayBack(r, u)
      PROVE  OutOK(u)'
  <2>1. team'[u] = "none"
    BY <1>1 DEF RemoveCommit, TypeOK
  <2>2. ASSUME NEW i \in Invites, invite'[i] # None, invite'[i].live
        PROVE  invite'[i].email \notin {u, None}
    <3> DEFINE dead == [invite[i] EXCEPT !.live = FALSE]
    <3>0. invite[i] \in InviteRows \cup {None}
      BY DEF TypeOK
    <3>1. invite'[i] = IF invite[i] # None /\ invite[i].email = u THEN dead ELSE invite[i]
      BY <1>1 DEF RemoveCommit, Withdrawn
    <3>2. invite[i] # None => ~dead.live
      BY <3>0, DeadEffect
    <3> HIDE DEF dead
    <3>3. invite'[i] = invite[i] /\ invite[i] # None /\ invite[i].email # u
      BY <2>2, <3>1, <3>2
    <3>4. invite[i].live
      BY <2>2, <3>3, Zenon
    <3>5. i \in Live(invite)
      BY <3>3, <3>0 DEF Live, TypeOK
    <3>6. invite[i].email # None
      BY <1>1, <3>4, <3>5, Zenon DEF WayBack
    <3> QED BY <3>3, <3>6
  <2>3. ASSUME NEW q \in Requests, NEW i \in Invites, request'[q] # None,
               request'[q].op \in {"accept", "approve"}, request'[q].user = u
        PROVE  request'[q].invites[i] = None
    <3>1. q # r
      BY <1>1, <2>3 DEF RemoveCommit
    <3>2. request'[q] = request[q]
      BY <1>1, <2>3, <3>1, RequestEffect, BeginsRest DEF RemoveCommit, Doing
    <3>3. request[q].invites \in Letters0
      BY <2>3, <3>2, Read
    <3> QED BY <1>1, <2>3, <3>1, <3>2, <3>3 DEF WayBack, Live, Letters0
  <2> QED BY <2>1, <2>2, <2>3 DEF OutOK
<1>2. ASSUME barred[u],
             \A i \in Invites, email \in Users \cup {None}, role \in Roles, max \in 1..MaxUses :
                Issue(i, email, role, max) => email \notin {u, None}
      PROVE  OutOK(u)'
  <2>0. OutOK(u)
    BY <1>2 DEF OutInv
  <2>1. team'[u] = "none"
    BY <2>0, NobodyJoins
  <2>2. ASSUME NEW i \in Invites, invite'[i] # None, invite'[i].live
        PROVE  invite'[i].email \notin {u, None}
    <3>0. invite[i] \in InviteRows \cup {None}
      BY DEF TypeOK
    <3>1. CASE invite'[i] = invite[i]
      BY <2>0, <2>2, <3>1 DEF OutOK
    <3>2. ASSUME NEW email \in Users \cup {None}, NEW role \in Roles, NEW max \in 1..MaxUses,
                 Issue(i, email, role, max)
          PROVE  invite'[i].email \notin {u, None}
      <4>1. email \notin {u, None}
        BY <1>2, <3>2
      <4>2. invite'[i].email = email
        BY <3>2 DEF Issue, TypeOK
      <4> QED BY <4>1, <4>2
    <3>3. ASSUME invite[i] # None, invite'[i] = [invite[i] EXCEPT !.live = FALSE]
          PROVE  FALSE
      BY <2>2, <3>0, <3>3, DeadEffect
    <3>4. ASSUME NEW read \in InviteRows, Sold(i, read)
          PROVE  invite'[i].email \notin {u, None}
      <4>1. invite[i] \in InviteRows /\ invite[i] # None /\ read.uses < read.max
        BY <3>0, <3>4 DEF Sold, LetterOK
      <4>2. invite'[i].email = invite[i].email /\ invite'[i].live = invite[i].live
        BY <3>4, <4>1, SeatTyped DEF Sold
      <4>3. invite[i].live
        BY <2>2, <4>2, Zenon
      <4> QED BY <2>0, <4>1, <4>2, <4>3 DEF OutOK
    <3> QED BY <3>1, <3>2, <3>3, <3>4, InviteEffect
  <2>3. ASSUME NEW q \in Requests, NEW i \in Invites, request'[q] # None,
               request'[q].op \in {"accept", "approve"}, request'[q].user = u
        PROVE  request'[q].invites[i] = None
    <3>1. CASE request'[q] = request[q]
      BY <2>0, <2>3, <3>1 DEF OutOK
    <3>2. CASE Begins(q)
      <4>1. \/ \E v \in Users : Approve(q, v)
            \/ \E j \in Invites, v \in Users : Accept(q, v, j)
        BY <2>3, <3>2 DEF Begins, Begin, Login, Reject, Disable, Remove, Upload, Password, Share, Guest, TypeOK
      <4>2. ASSUME NEW v \in Users, Approve(q, v) PROVE request'[q].invites[i] = None
        <5>1. v = u /\ request'[q].invites = Letters(v)
          BY <2>3, <4>2 DEF Approve, Begin, TypeOK
        <5> QED BY <2>0, <5>1 DEF OutOK, Letters, Usable
      <4>3. ASSUME NEW v \in Users, NEW j \in Invites, Accept(q, v, j) PROVE FALSE
        <5>1. v = u /\ Usable(j) /\ invite[j].email \in {v, None}
          BY <2>3, <4>3 DEF Accept, Begin, TypeOK
        <5> QED BY <2>0, <5>1 DEF OutOK, Usable
      <4> QED BY <4>1, <4>2, <4>3
    <3> QED BY <2>3, <3>1, <3>2, RequestEffect
  <2> QED BY <2>1, <2>2, <2>3 DEF OutOK
<1> QED BY <1>1, <1>2, BarredEffect

-----------------------------------------------------------------------------
(* What was shared with an address. *)

\* An approval under way is of an account, and has read every pending share of its
\* person, unless that one is late.
ApprovalOK(r) ==
    LET k == request[r] IN
    /\ account[k.user].status # "none"
    /\ \A x \in Shares :
         /\ k.shares[x] # None => k.shares[x].to = k.user
         /\ x \in Pending(k.user, share) => share[x].late \/ x \in Pending(k.user, k.shares)
ApprovalInv == \A r \in Requests : Doing(r, "approve") => ApprovalOK(r)

\* Nothing on time is left pending for somebody who has an account.
PendingInv ==
    \A u \in Users, x \in Shares : HasOwnAccess(u) /\ x \in Pending(u, share) => share[x].late

PromiseInv == ApprovalInv /\ PendingInv

\* The row that claims a share, and the one that takes another permission.
OwnRow(row) == [row EXCEPT !.claimed = TRUE]
PermRow(row, p) == [row EXCEPT !.perm = p]

LEMMA ChangedRows ==
    ASSUME NEW row \in ShareRows, NEW p \in {"view", "edit"}
    PROVE  /\ OwnRow(row) \in ShareRows /\ PermRow(row, p) \in ShareRows
           /\ OwnRow(row).to = row.to /\ OwnRow(row).claimed /\ OwnRow(row).perm = row.perm
           /\ PermRow(row, p).to = row.to /\ PermRow(row, p).claimed = row.claimed
           /\ PermRow(row, p).late = row.late /\ PermRow(row, p).perm = p
BY DEF ShareRows, OwnRow, PermRow

LEMMA SharesAre ==
    ASSUME TypeOK
    PROVE  /\ share \in Shares0
           /\ \A x \in Shares : share[x] \in ShareRows \cup {None} /\ (share[x] # None => share[x] \in ShareRows)
           /\ \A rows \in Shares0 : \A x \in Shares : rows[x] # None => rows[x] \in ShareRows
           /\ \A rows \in Shares0 : \A u, x :
                /\ x \in Own(u, rows) <=> x \in Shares /\ rows[x] # None /\ rows[x].to = u /\ rows[x].claimed
                /\ x \in Pending(u, rows) <=> x \in Shares /\ rows[x] # None /\ rows[x].to = u /\ ~rows[x].claimed
BY DEF TypeOK, Shares0, Own, Pending, Live

\* claim_pending takes every pending share that was read, and changes of the others
\* nothing but the permission of the person's own.
LEMMA ClaimEffect ==
    ASSUME TypeOK, NEW u \in Users, NEW read \in Shares0, ~ClaimFails(u, read),
           share' = ClaimShares(u, read), NEW x \in Shares
    PROVE  /\ x \in Pending(u, read) =>
                share'[x] = None \/ (share[x] # None /\ share'[x] = OwnRow(share[x]))
           /\ x \in Raised(u, read) => share[x] # None /\ share'[x] = PermRow(share[x], "edit")
           /\ x \notin Pending(u, read) /\ x \notin Raised(u, read) => share'[x] = share[x]
           /\ x \in Pending(u, read) /\ Own(u, read) = {} => share'[x] # None
<1>1. share'[x] =
        CASE x \in Pending(u, read) -> IF Own(u, read) = {} THEN OwnRow(share[x]) ELSE None
          [] x \in Raised(u, read) -> PermRow(share[x], "edit")
          [] OTHER -> share[x]
  BY DEF ClaimShares, OwnRow, PermRow
<1>2. ~(x \in Pending(u, read) /\ x \in Raised(u, read))
  BY SharesAre DEF Raised
<1>3. /\ Own(u, read) = {} /\ x \in Pending(u, read) => share[x] # None
      /\ x \in Raised(u, read) => share[x] # None
  BY DEF ClaimFails
<1>4. share[x] # None => OwnRow(share[x]) # None
  BY NullOK, SharesAre, ChangedRows
<1> QED BY <1>1, <1>2, <1>3, <1>4

\* Nothing that a signup reads can be gone when it writes.
LEMMA SignupClaims ==
    ASSUME TypeOK, NEW u \in Users, Signup(u, TRUE)
    PROVE  /\ To(u, share) \in Shares0 /\ ~ClaimFails(u, To(u, share))
           /\ share' = ClaimShares(u, To(u, share))
           /\ Pending(u, To(u, share)) = Pending(u, share)
<1>1. To(u, share) \in Shares0
  BY TypeParts, ToTyped
<1>2. \A x \in Shares : To(u, share)[x] = IF share[x] # None /\ share[x].to = u THEN share[x] ELSE None
  BY DEF To
<1>3. Pending(u, To(u, share)) = Pending(u, share) /\ Own(u, To(u, share)) = Own(u, share)
  <2>1. share \in Shares0 /\ DOMAIN share = Shares /\ DOMAIN To(u, share) = Shares
    BY SharesAre DEF Shares0, To
  <2> HIDE DEF To
  <2> QED BY <1>2, <2>1 DEF Own, Pending, Live
<1>4. ~ClaimFails(u, To(u, share))
  BY <1>3, SharesAre DEF ClaimFails, Raised
<1> QED BY <1>1, <1>3, <1>4 DEF Signup

\* A pending share was pending before, or it is new, and late if there is an account.
Kept(x) ==
    /\ share[x] # None /\ ~share[x].claimed
    /\ share'[x].to = share[x].to /\ share'[x].late = share[x].late
New(x) == UNCHANGED account /\ (account[share'[x].to].status # "none" => share'[x].late)

LEMMA ClaimedRows ==
    ASSUME TypeOK, NEW u \in Users, NEW read \in Shares0, ~ClaimFails(u, read),
           share' = ClaimShares(u, read), NEW x \in Shares, share'[x] # None, ~share'[x].claimed
    PROVE  Kept(x) /\ x \notin Pending(u, read)
<1>1. x \notin Pending(u, read)
  BY ClaimEffect, SharesAre, ChangedRows
<1>2. CASE x \in Raised(u, read)
  BY <1>2, ClaimEffect, SharesAre, ChangedRows DEF Kept
<1>3. CASE x \notin Raised(u, read)
  BY <1>1, <1>3, ClaimEffect DEF Kept
<1> QED BY <1>1, <1>2, <1>3

LEMMA ShareCommits ==
    ASSUME TypeOK, NEW r \in Requests, ShareCommit(r), NEW x \in Shares,
           share'[x] # None, ~share'[x].claimed
    PROVE  Kept(x) \/ New(x)
<1> DEFINE k == request[r]
           changed == {y \in Live(k.shares) : k.shares[y].perm # k.perm}
           row == [to |-> k.user, claimed |-> k.target, perm |-> k.perm,
                   late |-> ~k.target /\ account[k.user].status # "none"]
<1>1. k.user \in Users /\ k.target \in BOOLEAN /\ k.perm \in {"view", "edit"} /\ k.shares \in Shares0
  BY Read DEF ShareCommit, Doing
<1>2. CASE share' = share
  BY <1>2 DEF Kept
<1>3. CASE /\ ~(\E y \in changed : share[y] = None)
           /\ share' = [y \in Shares |-> IF y \in changed THEN PermRow(share[y], k.perm) ELSE share[y]]
  <2>1. CASE x \in changed
    <3>1. share[x] # None /\ share'[x] = PermRow(share[x], k.perm)
      BY <1>3, <2>1
    <3> QED BY <1>1, <3>1, SharesAre, ChangedRows DEF Kept
  <2>2. CASE x \notin changed
    <3>1. share'[x] = share[x]
      BY <1>3, <2>2
    <3> QED BY <3>1 DEF Kept
  <2> QED BY <2>1, <2>2
<1>4. CASE UNCHANGED account /\ \E y \in Shares : share' = [share EXCEPT ![y] = row]
  <2>1. PICK y \in Shares : share' = [share EXCEPT ![y] = row]
    BY <1>4
  <2>2. CASE y = x
    <3>1. share'[x] = row
      BY <2>1, <2>2, SharesAre DEF Shares0
    <3>2. row.to = k.user /\ row.claimed = k.target
          /\ row.late = (~k.target /\ account[k.user].status # "none")
      OBVIOUS
    <3> HIDE DEF row, k
    <3> QED BY <1>4, <3>1, <3>2 DEF New
  <2>3. CASE y # x
    <3> HIDE DEF row
    <3>1. share'[x] = share[x]
      BY <2>1, <2>3, SharesAre DEF Shares0
    <3> QED BY <3>1 DEF Kept
  <2> QED BY <2>2, <2>3
<1>5. share' = share
      \/ (/\ ~(\E y \in changed : share[y] = None)
          /\ share' = [y \in Shares |-> IF y \in changed THEN PermRow(share[y], k.perm) ELSE share[y]])
      \/ (UNCHANGED account /\ \E y \in Shares : share' = [share EXCEPT ![y] = row])
  BY DEF ShareCommit, Fail, Rest, PermRow
<1> QED BY <1>2, <1>3, <1>4, <1>5

\* Every step, as a pending share sees it.
LEMMA ShareEffect ==
    ASSUME TypeOK, Next, NEW x \in Shares, share'[x] # None, ~share'[x].claimed
    PROVE  Kept(x) \/ New(x)
<1>1. ASSUME UNCHANGED share PROVE Kept(x)
  BY <1>1 DEF Kept
<1>2. ASSUME NEW r \in Requests, Begins(r) PROVE Kept(x)
  BY <1>1, <1>2, BeginsRest DEF Rest
<1>3. ASSUME NEW r \in Requests, Ends(r) PROVE Kept(x) \/ New(x)
  <2>1. CASE ApproveCommit(r)
    <3>1. CASE UNCHANGED share
      BY <1>1, <3>1
    <3>2. CASE ~ClaimFails(request[r].user, request[r].shares)
      <4>1. request[r].user \in Users /\ request[r].shares \in Shares0
        BY <2>1, Read DEF ApproveCommit, Doing
      <4>2. share' = ClaimShares(request[r].user, request[r].shares)
        BY <2>1, <3>2 DEF ApproveCommit
      <4> QED BY <3>2, <4>1, <4>2, ClaimedRows
    <3> QED BY <2>1, <3>1, <3>2 DEF ApproveCommit, Fail, Rest
  <2>2. CASE ShareCommit(r)
    BY <2>2, ShareCommits
  <2>3. CASE ~ApproveCommit(r) /\ ~ShareCommit(r)
    BY <1>1, <1>3, <2>3 DEF Ends, DisableCommit, LoginCommit, PasswordCommit, AcceptCommit, GuestCommit,
                            UploadCommit, Fail, Rest
  <2> QED BY <2>1, <2>2, <2>3
<1>4. ASSUME NEW r \in Requests, RejectCommit(r) \/ RemoveCommit(r) PROVE Kept(x)
  BY <1>1, <1>4 DEF RejectCommit, RemoveCommit
<1>5. ASSUME NEW u \in Users, NEW auto \in BOOLEAN, Signup(u, auto) PROVE Kept(x)
  <2>1. CASE auto
    BY <1>5, <2>1, SignupClaims, ClaimedRows
  <2>2. CASE ~auto
    BY <1>1, <1>5, <2>2 DEF Signup
  <2> QED BY <2>1, <2>2
<1>6. ASSUME NEW y \in Shares, RevokeShare(y) PROVE Kept(x)
  <2>1. share'[x] = share[x]
    BY <1>6, SharesAre DEF RevokeShare, Shares0
  <2> QED BY <2>1 DEF Kept
<1>7. ASSUME Alone, \A u \in Users, auto \in BOOLEAN : ~Signup(u, auto), \A y \in Shares : ~RevokeShare(y)
      PROVE  UNCHANGED share
  BY <1>7 DEF Alone, Issue, InviteEnds, SetRole, Transcribed, DeleteRecording, SessionEnds
<1> QED BY <1>1, <1>2, <1>3, <1>4, <1>5, <1>6, <1>7, Steps

\* An account is opened by its signup, and made active there or by an approval.
LEMMA StatusEffect ==
    ASSUME TypeOK, Next, NEW u \in Users
    PROVE  /\ account[u].status # "none" => account'[u].status # "none"
           /\ \/ account'[u].status = "active" => account[u].status = "active"
              \/ Signup(u, TRUE)
              \/ \E r \in Requests :
                   /\ ApproveCommit(r) /\ request[r].user = u
                   /\ ~ClaimFails(u, request[r].shares)
<1>0. account \in [Users -> Accounts] /\ account[u] \in Accounts
  BY DEF TypeOK
<1> DEFINE Goal == /\ account[u].status # "none" => account'[u].status # "none"
                   /\ \/ account'[u].status = "active" => account[u].status = "active"
                      \/ Signup(u, TRUE)
                      \/ \E r \in Requests :
                           /\ ApproveCommit(r) /\ request[r].user = u
                           /\ ~ClaimFails(u, request[r].shares)
<1>1. ASSUME account'[u].status = account[u].status PROVE Goal
  BY <1>1
<1>2. ASSUME NEW v \in Users, NEW auto \in BOOLEAN, Signup(v, auto) PROVE Goal
  <2> DEFINE a == [status |-> IF auto THEN "active" ELSE "pending", password |-> 0, default |-> "home"]
  <2>1. account' = [account EXCEPT ![v] = a] /\ account[v].status = "none"
    BY <1>2 DEF Signup
  <2>2. a.status = IF auto THEN "active" ELSE "pending"
    OBVIOUS
  <2>3. CASE v # u
    <3> HIDE DEF a
    <3> QED BY <1>0, <1>1, <2>1, <2>3
  <2>4. CASE v = u
    <3> HIDE DEF a
    <3>1. account'[u] = a
      BY <1>0, <2>1, <2>4
    <3>2. auto = TRUE \/ auto = FALSE
      OBVIOUS
    <3> QED BY <1>2, <2>1, <2>2, <2>4, <3>1, <3>2
  <2> QED BY <2>3, <2>4
\* Whatever else becomes of the row, its status is this.
<1>3. ASSUME NEW v \in Users, NEW status, NEW d,
             account' = [account EXCEPT ![v].status = status, ![v].default = d]
      PROVE  account'[u].status = IF v = u THEN status ELSE account[u].status
  BY <1>0, <1>3 DEF Accounts
<1>4. ASSUME NEW r \in Requests, ApproveCommit(r) PROVE Goal
  <2> DEFINE v == request[r].user
             status == Reviewed(request[r].account, account[v], "active")
  <2>1. v \in Users /\ request[r].account \in Accounts
    BY <1>4, Read DEF ApproveCommit, Doing
  <2>2. CASE ClaimFails(v, request[r].shares)
    <3>1. UNCHANGED account
      BY <1>4, <2>2 DEF ApproveCommit, Fail, Rest
    <3> QED BY <1>1, <3>1
  <2>3. CASE ~ClaimFails(v, request[r].shares)
    <3>1. PICK d : account' = [account EXCEPT ![v].status = status, ![v].default = d]
      BY <1>4, <2>3 DEF ApproveCommit, Settle
    <3>2. v = u => status \in {"active", account[u].status}
      BY DEF Reviewed
    <3>3. account'[u].status = IF v = u THEN status ELSE account[u].status
      <4> HIDE DEF status
      <4> QED BY <1>3, <2>1, <3>1
    <3>4. CASE v # u
      BY <1>1, <3>3, <3>4
    <3>5. CASE v = u
      <4>1. account[u].status # "none" => account'[u].status # "none"
        BY <3>2, <3>3, <3>5
      <4> QED BY <1>4, <2>3, <3>5, <4>1
    <3> QED BY <3>4, <3>5
  <2> QED BY <2>2, <2>3
<1>5. ASSUME NEW r \in Requests, RejectCommit(r) PROVE Goal
  <2> DEFINE v == request[r].user
             lost == Counted(request[r].home) = Empty /\ "home" \in {request[r].account.default, account[v].default}
             status == Reviewed(request[r].account, account[v], "rejected")
             d == IF lost THEN None ELSE account[v].default
  <2>1. v \in Users
    BY <1>5, Read DEF RejectCommit, Doing
  <2>2. account' = [account EXCEPT ![v].status = status, ![v].default = d]
    BY <1>5 DEF RejectCommit
  <2>3. v = u => status \in {"rejected", account[u].status}
    BY DEF Reviewed
  <2> HIDE DEF status, d
  <2>4. account'[u].status = IF v = u THEN status ELSE account[u].status
    BY <1>3, <2>1, <2>2
  <2> QED BY <1>1, <2>3, <2>4
<1>6. ASSUME NEW r \in Requests, DisableCommit(r) PROVE Goal
  <2> DEFINE v == request[r].user
             status == Reviewed(request[r].account, account[v], "disabled")
  <2>1. v \in Users
    BY <1>6, Read DEF DisableCommit, Doing
  <2>2. account' = [account EXCEPT ![v].status = status]
    BY <1>6 DEF DisableCommit
  <2>3. v = u => status \in {"disabled", account[u].status}
    BY DEF Reviewed
  <2> HIDE DEF status
  <2>4. account'[u].status = IF v = u THEN status ELSE account[u].status
    BY <1>0, <2>1, <2>2 DEF Accounts
  <2> QED BY <1>1, <2>3, <2>4
<1>7. ASSUME NEW r \in Requests, AcceptCommit(r) \/ RemoveCommit(r) PROVE Goal
  <2>1. request[r].user \in Users
    BY <1>7, Read DEF AcceptCommit, RemoveCommit, Doing
  <2>2. \E d : account' = [account EXCEPT ![request[r].user].default = d]
    BY <1>7 DEF AcceptCommit, RemoveCommit
  <2>3. account'[u].status = account[u].status
    BY <1>0, <2>1, <2>2 DEF Accounts
  <2> QED BY <1>1, <2>3
<1>8. ASSUME NEW r \in Requests, PasswordCommit(r) PROVE Goal
  <2> DEFINE v == request[r].user
             new == account[v].password + 1
  <2>1. v \in Users
    BY <1>8, Read DEF PasswordCommit, Doing
  <2>2. UNCHANGED account \/ account' = [account EXCEPT ![v].password = new]
    BY <1>8 DEF PasswordCommit, Fail, Rest
  <2>3. account'[u].status = account[u].status
    <3> HIDE DEF new
    <3> QED BY <1>0, <2>1, <2>2 DEF Accounts
  <2> QED BY <1>1, <2>3
<1>9. ASSUME NEW r \in Requests, Ends(r), ~ApproveCommit(r), ~PasswordCommit(r), ~AcceptCommit(r), ~DisableCommit(r)
      PROVE  UNCHANGED account
  BY <1>9 DEF Ends, LoginCommit, GuestCommit, ShareCommit, UploadCommit, Fail, Rest
<1>10. ASSUME Alone, \A v \in Users, auto \in BOOLEAN : ~Signup(v, auto)
       PROVE  UNCHANGED account
  BY <1>10 DEF Alone, Issue, InviteEnds, SetRole, RevokeShare, Transcribed, DeleteRecording, SessionEnds
<1>11. ASSUME NEW r \in Requests, Begins(r) PROVE UNCHANGED account
  BY <1>11, BeginsRest DEF Rest
<1>12. ASSUME UNCHANGED account PROVE Goal
  BY <1>1, <1>12
<1>13. Goal
  <2> HIDE DEF Goal
  <2> QED BY <1>2, <1>4, <1>5, <1>6, <1>7, <1>8, <1>9, <1>10, <1>11, <1>12, Steps
<1> QED BY <1>13

\* When an account becomes active nothing of it stays pending but what is late.
LEMMA PendingStep ==
    ASSUME TypeOK, PromiseInv, Next
    PROVE  PendingInv'
<1> SUFFICES ASSUME NEW u \in Users, NEW x \in Shares, account'[u].status = "active",
                    share'[x] # None, share'[x].to = u, ~share'[x].claimed
             PROVE  share'[x].late
  BY DEF PendingInv, HasOwnAccess, Pending, Live
<1>1. CASE New(x)
  BY <1>1 DEF New
<1>2. CASE Kept(x)
  <2>1. x \in Pending(u, share) /\ share'[x].late = share[x].late
    BY <1>2, SharesAre DEF Kept
  <2>2. CASE account[u].status = "active"
    BY <2>1, <2>2 DEF PromiseInv, PendingInv, HasOwnAccess
  <2>3. CASE Signup(u, TRUE)
    <3>1. x \notin Pending(u, share)
      BY <2>3, SignupClaims, ClaimedRows
    <3> QED BY <2>1, <3>1
  <2>4. ASSUME NEW r \in Requests, ApproveCommit(r), request[r].user = u, ~ClaimFails(u, request[r].shares)
        PROVE  share[x].late
    <3>1. request[r].shares \in Shares0
      BY <2>4, Read DEF ApproveCommit, Doing
    <3>2. share' = ClaimShares(u, request[r].shares)
      BY <2>4 DEF ApproveCommit
    <3>3. x \notin Pending(u, request[r].shares)
      BY <2>4, <3>1, <3>2, ClaimedRows
    <3> QED BY <2>1, <2>4, <3>3 DEF PromiseInv, ApprovalInv, ApprovalOK, ApproveCommit
  <2> QED BY <2>1, <2>2, <2>3, <2>4, StatusEffect
<1> QED BY <1>1, <1>2, ShareEffect

\* What an approval has read is all there is, however the shares change meanwhile.
LEMMA ApprovalStep ==
    ASSUME TypeOK, TypeOK', PromiseInv, Next
    PROVE  ApprovalInv'
<1> SUFFICES ASSUME NEW r \in Requests, request'[r] # None, request'[r].op = "approve"
             PROVE  ApprovalOK(r)'
  BY DEF ApprovalInv, Doing
<1> DEFINE u == request'[r].user
           read == request'[r].shares
<1>1. CASE request'[r] = request[r]
  <2>1. ApprovalOK(r) /\ u \in Users /\ read \in Shares0
    BY <1>1, Read DEF PromiseInv, ApprovalInv, Doing
  <2>2. account'[u].status # "none"
    BY <1>1, <2>1, StatusEffect DEF ApprovalOK
  <2>3. ASSUME NEW x \in Shares
        PROVE  /\ read[x] # None => read[x].to = u
               /\ share'[x] # None /\ share'[x].to = u /\ ~share'[x].claimed =>
                    share'[x].late \/ x \in Pending(u, read)
    <3>1. read[x] # None => read[x].to = u
      BY <1>1, <2>1 DEF ApprovalOK
    <3>2. ASSUME share'[x] # None, share'[x].to = u, ~share'[x].claimed
          PROVE  share'[x].late \/ x \in Pending(u, read)
      <4>1. CASE New(x)
        BY <2>2, <3>2, <4>1 DEF New
      <4>2. CASE Kept(x)
        <5>1. x \in Pending(u, share)
          BY <3>2, <4>2, SharesAre DEF Kept
        <5> QED BY <1>1, <2>1, <4>2, <5>1 DEF Kept, ApprovalOK
      <4> QED BY <3>2, <4>1, <4>2, ShareEffect
    <3> QED BY <3>1, <3>2
  <2> QED BY <2>2, <2>3 DEF ApprovalOK, Pending, Live
<1>2. CASE Begins(r)
  <2>1. PICK v \in Users : Approve(r, v)
    <3>1. request[r] = None /\ request \in [Requests -> Readings \cup {None}]
      BY <1>2, BeginsRest DEF TypeOK
    <3> QED BY <1>2, <3>1 DEF Begins, Begin, Login, Reject, Disable, Remove, Upload, Password, Guest, Accept, Share
  <2>2. request'[r] = [op |-> "approve", user |-> v, account |-> account[v],
                       shares |-> To(v, share), invites |-> Letters(v)]
    BY <2>1 DEF Approve, Begin, TypeOK
  <2>3. u = v /\ read = To(v, share) /\ account' = account /\ share' = share /\ account[v].status # "none"
    BY <2>1, <2>2 DEF Approve, Rest
  <2>4. \A x \in Shares : To(v, share)[x] = IF share[x] # None /\ share[x].to = v THEN share[x] ELSE None
    BY DEF To
  <2>5. DOMAIN share = Shares /\ DOMAIN To(v, share) = Shares
    BY SharesAre DEF Shares0, To
  <2>6. \A x \in Shares : x \in Pending(v, share) => x \in Pending(v, To(v, share))
    <3> HIDE DEF To
    <3> QED BY <2>4, <2>5 DEF Pending, Live
  <2>7. \A x \in Shares : To(v, share)[x] # None => To(v, share)[x].to = v
    BY <2>4
  <2> HIDE DEF u, read
  <2> QED BY <2>3, <2>6, <2>7 DEF ApprovalOK, u, read
<1> QED BY <1>1, <1>2, RequestEffect

\* Of the few levels of permission the greatest is there, and no less than any other.
Top(W) == CHOOSE m \in W : \A q \in W : q <= m

LEMMA Greatest ==
    ASSUME NEW W \in SUBSET (0..4), W # {}, NEW p \in W
    PROVE  p <= Top(W)
<1>1. \E m \in W : \A q \in W : q <= m
  <2>1. CASE 4 \in W
    BY <2>1
  <2>2. CASE 4 \notin W /\ 3 \in W
    <3>1. \A q \in W : q <= 3
      BY <2>2
    <3> QED BY <2>2, <3>1
  <2>3. CASE 4 \notin W /\ 3 \notin W /\ 2 \in W
    <3>1. \A q \in W : q <= 2
      BY <2>3
    <3> QED BY <2>3, <3>1
  <2>4. CASE 4 \notin W /\ 3 \notin W /\ 2 \notin W /\ 1 \in W
    <3>1. \A q \in W : q <= 1
      BY <2>4
    <3> QED BY <2>4, <3>1
  <2>5. CASE 4 \notin W /\ 3 \notin W /\ 2 \notin W /\ 1 \notin W
    <3>1. \A q \in W : q = 0
      BY <2>5
    <3> QED BY <3>1
  <2> QED BY <2>1, <2>2, <2>3, <2>4, <2>5
<1>2. Top(W) \in W /\ \A q \in W : q <= Top(W)
  BY <1>1 DEF Top
<1> QED BY <1>2

\* A claimed share counts; a pending one of an active account is late.
LEMMA SharesCount ==
    ASSUME TypeOK, PendingInv, NEW u \in Users, NEW x \in Live(share),
           HasOwnAccess(u), share[x].to = u
    PROVE  ShareCounts(u, x)
<1>1. x \in Shares /\ share[x] \in ShareRows /\ share[x] # None
  BY SharesAre DEF Live, Shares0
<1>2. CASE ~share[x].claimed
  BY <1>1, <1>2, SharesAre DEF PendingInv, ShareCounts
<1>3. CASE share[x].claimed
  <2> DEFINE W == {RolePerm(team[u])} \cup {SharePerm(share[y].perm) : y \in Own(u, share)}
  <2>1. RolePerm(team[u]) \in 0..4 /\ \A perm : SharePerm(perm) \in 0..4
    BY DEF RolePerm, SharePerm
  <2>2. W \in SUBSET (0..4) /\ W # {}
    BY <2>1
  <2>3. SharePerm(share[x].perm) \in W
    BY <1>1, <1>3, SharesAre
  <2>4. ResolveRecordingPerm(u) = Top(W)
    BY DEF ResolveRecordingPerm, Top
  <2> HIDE DEF W
  <2>5. SharePerm(share[x].perm) <= ResolveRecordingPerm(u)
    BY <2>2, <2>3, <2>4, Greatest
  <2> QED BY <2>5 DEF ShareCounts
<1> QED BY <1>2, <1>3

\* Only its own commit ends an approval.
LEMMA ApprovalEnds ==
    ASSUME TypeOK, Next, NEW r \in Requests, Doing(r, "approve"), request'[r] = None
    PROVE  ApproveCommit(r)
<1>0. request \in [Requests -> Readings \cup {None}] /\ request[r] # None
  BY DEF TypeOK, Doing
<1>1. ASSUME NEW q \in Requests, Begins(q) PROVE FALSE
  <2>1. request[q] = None /\ \E k : request' = [request EXCEPT ![q] = k]
    BY <1>1, BeginsRest
  <2> QED BY <1>0, <2>1
<1>2. ASSUME NEW q \in Requests, Ends(q) \/ RejectCommit(q) \/ RemoveCommit(q), q # r PROVE FALSE
  <2>1. CASE Ends(q)
    BY <1>0, <1>2, <2>1, EndsRequest DEF End
  <2>2. CASE RejectCommit(q)
    BY <1>0, <1>2, <2>2 DEF RejectCommit, Forsake, End, Doing
  <2>3. CASE RemoveCommit(q)
    BY <1>0, <1>2, <2>3 DEF RemoveCommit, Doing
  <2> QED BY <1>2, <2>1, <2>2, <2>3
<1>3. Ends(r) \/ RejectCommit(r) \/ RemoveCommit(r) => ApproveCommit(r)
  BY DEF Ends, Doing, DisableCommit, LoginCommit, PasswordCommit, AcceptCommit, GuestCommit, ShareCommit,
         UploadCommit, RejectCommit, RemoveCommit
<1>4. Alone => request' = request
  BY AloneRequest
<1> QED BY <1>0, <1>1, <1>2, <1>3, <1>4, Steps

\* A pending share that an approval takes away has left its worth in one of the
\* person's own, or one of these had changed since it was read.
LEMMA ReplacedStep ==
    ASSUME TypeOK, Next, NEW r \in Requests, Doing(r, "approve"), request'[r] = None
    PROVE  Replaced(r)
<1> DEFINE u == request[r].user
           read == request[r].shares
<1> SUFFICES ASSUME NEW x \in Pending(u, read), share[x] # None, share'[x] = None
             PROVE  \/ \E y \in Own(u, read) : share[y] # read[y]
                    \/ \E y \in Own(u, share') : SharePerm(read[x].perm) <= SharePerm(share'[y].perm)
  BY DEF Replaced
<1>1. ApproveCommit(r) /\ u \in Users /\ read \in Shares0
  BY ApprovalEnds, Read DEF Doing
<1>2. CASE ClaimFails(u, read)
  BY <1>1, <1>2 DEF ApproveCommit, Fail, Rest
<1>3. CASE ~ClaimFails(u, read) /\ \A y \in Own(u, read) : share[y] = read[y]
  <2>1. share' = ClaimShares(u, read)
    BY <1>1, <1>3 DEF ApproveCommit
  <2>2. x \in Shares /\ read[x] \in ShareRows
    BY <1>1, SharesAre
  <2> HIDE DEF read, u
  <2>3. PICK y : y \in Own(u, read)
    BY <1>1, <1>3, <2>1, <2>2, ClaimEffect
  <2>4. /\ y \in Shares /\ y \notin Pending(u, read) /\ share[y] = read[y]
        /\ share[y] \in ShareRows /\ share[y] # None /\ share[y].to = u /\ share[y].claimed
    <3>1. y \in Shares /\ read[y] # None /\ read[y].to = u /\ read[y].claimed
      BY <1>1, <2>3, SharesAre
    <3>2. share[y] = read[y] /\ share[y] \in ShareRows
      BY <1>3, <2>3, <3>1, SharesAre
    <3>3. y \notin Pending(u, read)
      BY <3>1 DEF Pending
    <3> QED BY <3>1, <3>2, <3>3
  <2>5. DOMAIN share' = Shares
    BY <2>1 DEF ClaimShares
  <2>6. CASE y \in Raised(u, read)
    <3>1. share'[y] = PermRow(share[y], "edit")
      BY <1>1, <1>3, <2>1, <2>4, <2>6, ClaimEffect
    <3>2. share'[y] # None /\ share'[y].to = u /\ share'[y].claimed /\ share'[y].perm = "edit"
      BY <2>4, <3>1, ChangedRows, NullOK
    <3>3. y \in Own(u, share')
      BY <2>4, <2>5, <3>2 DEF Own, Live
    <3> QED BY <3>2, <3>3 DEF SharePerm
  <2>7. CASE y \notin Raised(u, read)
    <3>1. share'[y] = share[y]
      BY <1>1, <1>3, <2>1, <2>4, <2>7, ClaimEffect
    <3>2. y \in Own(u, share')
      BY <2>4, <2>5, <3>1 DEF Own, Live
    <3>3. read[y].perm = "edit" \/ read[x].perm # "edit"
      BY <2>3, <2>7 DEF Raised
    <3> QED BY <2>4, <3>1, <3>2, <3>3 DEF SharePerm
  <2> QED BY <2>6, <2>7
<1> QED BY <1>2, <1>3

-----------------------------------------------------------------------------
(* The theorems. *)

\* What each property needs of the others.
Inv == TypeOK /\ ReadsInv /\ SeatsInv /\ HomeInv /\ PasswordInv /\ SessionsEnd /\ OutInv

LEMMA InitInv == ASSUME ConstantsOK, Init PROVE Inv
<1>1. TypeOK
  <2>1. NoAccount \in Accounts /\ {} \in Homes
    BY NoAccountTyped, HomesTyped
  <2> QED BY <2>1, Zenon DEF Init, TypeOK
<1>2. ReadsInv /\ HomeInv /\ PasswordInv
  BY DEF Init, ReadsInv, HasRead, HomeInv, PasswordInv, Doing
<1>3. SeatsInv /\ SessionsEnd
  BY DEF Init, SeatsInv, SessionsEnd
<1>4. OutInv
  BY Zenon DEF Init, OutInv
<1> QED BY <1>1, <1>2, <1>3, <1>4 DEF Inv

LEMMA StepInv == ASSUME ConstantsOK, Inv, [Next]_vars PROVE Inv'
<1>1. CASE Next
  <2>1. TypeOK'
    BY <1>1, TypeStep DEF Inv
  <2> QED BY <1>1, <2>1, ReadsStep, SeatsStep, HomeStep, PasswordStep, SessionsStep, OutStep DEF Inv
<1>2. CASE UNCHANGED vars
  <2>1. /\ account' = account /\ home' = home /\ team' = team /\ session' = session
        /\ invite' = invite /\ share' = share /\ request' = request /\ barred' = barred
    BY <1>2 DEF vars
  <2> QED BY <2>1 DEF Inv, TypeOK, ReadsInv, HasRead, SeatsInv, HomeInv, PasswordInv, SessionsEnd, MayLogIn,
                      OutInv, OutOK, Doing
<1> QED BY <1>1, <1>2

LEMMA InvAlways == Spec => []Inv
BY InitInv, StepInv, ConstantsOK, PTL DEF Spec

\* The rows, and what the requests under way have read of them, keep their types:
\* in particular no count of uses passes the bound of its invite (tenancy.py).
THEOREM TypeCorrect == Spec => []TypeOK
<1>1. Inv => TypeOK
  BY DEF Inv
<1> QED BY <1>1, InvAlways, PTL

\* An invite is oversold by no more than what overlapping requests overwrote in its
\* count of uses, however many people come at once by token, approval or signup
\* (tenancy.py accept_invite, claim_pending).
THEOREM SeatsNeverOversold == Spec => []SeatsCounted
<1>1. Inv => SeatsCounted
  BY SeatsCountedFromInv DEF Inv
<1> QED BY <1>1, InvAlways, PTL

\* The sessions of an account that was closed, and those under an old password, are
\* gone, but for those of logins that were under way (auth.py, tenancy.py).
THEOREM ClosedSessionsEnd == Spec => []SessionsEnd
<1>1. Inv => SessionsEnd
  BY DEF Inv
<1> QED BY <1>1, InvAlways, PTL

\* Whoever was removed from the team comes back only by a later invite
\* (tenancy.py remove_member).
THEOREM RemovedStayOut == Spec => []RemovedStaysOut
<1>1. Inv => RemovedStaysOut
  BY DEF Inv, OutInv, OutOK, RemovedStaysOut
<1> QED BY <1>1, InvAlways, PTL

\* No personal workspace is deleted with its usage, unless the usage came after a
\* rejection had looked (tenancy.py _drop_empty_personal_workspaces).
THEOREM UsageNeverDropped == Spec => UsageKept
<1>1. Inv /\ [Next]_vars =>
        [\A u \in Users : home[u] \notin {{}, Empty} /\ home'[u] = {} =>
           \E r \in Requests : Doing(r, "reject") /\ request[r].user = u /\ request[r].home = Empty]_vars
  <2> SUFFICES ASSUME Inv, Next, NEW u \in Users, home[u] \notin {{}, Empty}, home'[u] = {}
               PROVE  \E r \in Requests :
                        Doing(r, "reject") /\ request[r].user = u /\ request[r].home = Empty
    OBVIOUS
  <2> QED BY HomeEffect DEF Inv
<1> QED BY <1>1, InvAlways, PTL DEF Spec, UsageKept

LEMMA PromiseAlways == Spec => []PromiseInv
<1>1. Init => PromiseInv
  BY DEF Init, PromiseInv, ApprovalInv, PendingInv, Doing, Pending, Live
<1>2. Inv /\ Inv' /\ PromiseInv /\ [Next]_vars => PromiseInv'
  <2> SUFFICES ASSUME Inv, Inv', PromiseInv, [Next]_vars PROVE PromiseInv'
    OBVIOUS
  <2>1. CASE Next
    BY <2>1, PendingStep, ApprovalStep DEF Inv, PromiseInv
  <2>2. CASE UNCHANGED vars
    <3>1. account' = account /\ share' = share /\ request' = request
      BY <2>2 DEF vars
    <3> QED BY <3>1 DEF PromiseInv, ApprovalInv, ApprovalOK, PendingInv, Doing, Pending, Live, HasOwnAccess
  <2> QED BY <2>1, <2>2
<1> QED BY <1>1, <1>2, InvAlways, PTL DEF Spec

\* What was shared with an address is its owner's once the account is active, and an
\* approval that merges two shares leaves one that is worth as much: for any number of
\* shares, people and overlapping requests (tenancy.py claim_pending, sharing.py).
THEOREM PromisesAreKept == Spec => PromisesKept
<1> DEFINE Counts == \A u \in Users, x \in Live(share) :
                       HasOwnAccess(u) /\ share[x].to = u => ShareCounts(u, x)
           Merges == \A r \in Requests : Doing(r, "approve") /\ request'[r] = None => Replaced(r)
<1>1. Inv /\ PromiseInv => Counts
  BY SharesCount DEF Inv, PromiseInv
<1>2. Inv /\ [Next]_vars => [Merges]_vars
  BY ReplacedStep DEF Inv
<1>3. PromisesKept <=> []Counts /\ [][Merges]_vars
  BY DEF PromisesKept
<1> HIDE DEF Counts, Merges
<1> QED BY <1>1, <1>2, <1>3, InvAlways, PromiseAlways, PTL DEF Spec
=============================================================================
