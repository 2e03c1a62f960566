------------------------------- MODULE Access -------------------------------
(***************************************************************************)
(* Accounts, workspaces, invites, sessions and shares: tenancy.py, auth.py,*)
(* sharing.py, permissions.py and the routes over them.                    *)
(*                                                                         *)
(* Everybody has an account, perhaps, and a personal workspace ("home");   *)
(* there is one team workspace, run by an administrator outside Users, and *)
(* one recording of the team, which is shared with people.                 *)
(*                                                                         *)
(* A request reads (step one) and then writes and commits (step two),      *)
(* between which another request may commit: nothing read is locked.  The  *)
(* mapper writes an attribute only if it differs from the value read, so   *)
(* that what was read decides what is written.  A constraint of the schema *)
(* that would be broken, or a row to update that is gone, makes the second *)
(* step fail, which leaves everything as it was.                           *)
(*                                                                         *)
(* Expiry of sessions and invites may happen at any time.                  *)
(***************************************************************************)
EXTENDS Integers, FiniteSets

CONSTANTS
    Users,          \* people, known by their e-mail address
    Sessions,       \* slots for login sessions
    Invites,        \* slots for invites to the team
    Shares,         \* slots for shares of the recording
    Requests,       \* requests under way at once
    Roles,          \* roles in use, of INVITABLE_ROLES
    MaxUses,        \* bound on max_uses of an invite
    MaxPassword,    \* bound on changes of a password
    None            \* NULL

ASSUME ConstantsOK ==
    /\ Roles \subseteq {"viewer", "member", "admin"}
    /\ MaxUses \in Nat /\ MaxPassword \in Nat
    /\ None \notin Users \cup Sessions \cup {"home", "team"}

VARIABLES
    account,    \* of each user: status, password, default workspace
    home,       \* of each user: the personal workspace and what it holds
    team,       \* of each user: the role in the team, or "none"
    session,    \* the live sessions
    invite,     \* the invites
    share,      \* the shares of the recording
    request,    \* the requests under way with what they read
    barred      \* history: users removed from the team with no way back

vars == <<account, home, team, session, invite, share, request, barred>>

-----------------------------------------------------------------------------
(* Rows. *)

Statuses == {"none", "pending", "active", "rejected", "disabled"}
Accounts == [status: Statuses, password: 0..MaxPassword, default: {"home", "team", None}]
Homes == {{}} \cup {{"itself"} \cup h : h \in SUBSET {"recording", "usage"}}
Empty == {"itself"}

\* stray (history): opened by a login that had read what was then no longer so.
SessionRows == [user: Users, password: 0..MaxPassword, stray: BOOLEAN]

\* sold, blind (history): people let in, and how many of them the count of uses
\* has lost because a request wrote what it made of an old reading.
InviteRows == [email: Users \cup {None}, role: Roles, uses: 0..MaxUses, max: 1..MaxUses,
               live: BOOLEAN, sold: Nat, blind: Int]

\* claimed: user_id is set, otherwise invite_email.  late (history): made for an
\* address without an account, by a request that missed its account.
ShareRows == [to: Users, claimed: BOOLEAN, perm: {"view", "edit"}, late: BOOLEAN]

\* NULL is no row.
ASSUME NullOK == None \notin InviteRows /\ None \notin ShareRows

NoAccount == [status |-> "none", password |-> 0, default |-> None]

Init ==
    /\ account = [u \in Users |-> NoAccount]
    /\ home = [u \in Users |-> {}]
    /\ team = [u \in Users |-> "none"]
    /\ session = [s \in Sessions |-> None]
    /\ invite = [i \in Invites |-> None]
    /\ share = [x \in Shares |-> None]
    /\ request = [r \in Requests |-> None]
    /\ barred = [u \in Users |-> FALSE]

-----------------------------------------------------------------------------
(* permissions.py *)

RolePerm(role) ==
    CASE role = "viewer" -> 1 [] role = "member" -> 3 [] role = "admin" -> 4 [] OTHER -> 0
SharePerm(perm) == IF perm = "edit" THEN 2 ELSE 1

Live(rows) == {x \in DOMAIN rows : rows[x] # None}
Own(u, rows) == {x \in Live(rows) : rows[x].to = u /\ rows[x].claimed}
Pending(u, rows) == {x \in Live(rows) : rows[x].to = u /\ ~rows[x].claimed}

HasOwnAccess(u) == account[u].status = "active"

\* The greatest of all the ways to the recording.
ResolveRecordingPerm(u) ==
    LET ways == {RolePerm(team[u])} \cup {SharePerm(share[x].perm) : x \in Own(u, share)}
    IN  IF HasOwnAccess(u) THEN CHOOSE p \in ways : \A q \in ways : q <= p ELSE 0

-----------------------------------------------------------------------------
(* Requests. *)

Begin(r, k) == request[r] = None /\ request' = [request EXCEPT ![r] = k]
End(r) == request' = [request EXCEPT ![r] = None]
Doing(r, op) == request[r] # None /\ request[r].op = op

\* Nothing is written: an early return, an error or a rollback.
Rest == <<account, home, team, session, invite, share, barred>>
Fail(r) == End(r) /\ UNCHANGED Rest

\* Slots that no request under way refers to may be used again.
FreeSession(s) ==
    session[s] = None /\ \A r \in Requests : Doing(r, "password") => request[r].session # s
FreeInvite(i) ==
    /\ invite[i] # None => ~invite[i].live
    /\ \A r \in Requests : request[r] # None /\ request[r].op \in {"accept", "guest", "approve"}
                             => request[r].invites[i] = None
FreeShare(x) ==
    /\ share[x] = None
    /\ \A r \in Requests : request[r] # None /\ request[r].op \in {"share", "approve"}
                             => request[r].shares[x] = None


-----------------------------------------------------------------------------
(* auth.py, routes_auth.py: sessions. *)

\* Mutant: the sessions of an account that is closed are left alone.
RevokeSessions_None(u, kept) == session

\* revoke_other_sessions
RevokeSessions(u, kept) ==
    [s \in Sessions |-> IF session[s] # None /\ session[s].user = u /\ s # kept
                        THEN None ELSE session[s]]

MayLogIn(u) == account[u].status \in {"pending", "active"}

\* The person knows the password; the check of it takes its time.
Login(r, u) ==
    /\ MayLogIn(u)
    /\ Begin(r, [op |-> "login", user |-> u, password |-> account[u].password])
    /\ UNCHANGED Rest

LoginCommit(r) ==
    /\ Doing(r, "login")
    /\ LET k == request[r] IN \E s \in Sessions :
         /\ FreeSession(s)
         /\ session' = [session EXCEPT ![s] =
              [user |-> k.user, password |-> k.password,
               stray |-> ~MayLogIn(k.user) \/ account[k.user].password # k.password]]
    /\ End(r)
    /\ UNCHANGED <<account, home, team, invite, share, barred>>

\* load_session finds it: neither revoked nor expired.
SessionLives(s) == session[s] # None

\* Logout, expiry and the sweep.
SessionEnds(s) ==
    /\ SessionLives(s)
    /\ session' = [session EXCEPT ![s] = None]
    /\ UNCHANGED <<account, home, team, invite, share, request, barred>>

Password(r, s) ==
    /\ SessionLives(s)
    /\ account[session[s].user].password < MaxPassword
    /\ Begin(r, [op |-> "password", user |-> session[s].user, session |-> s])
    /\ UNCHANGED Rest

\* The session that asked survives, if it is still alive.
PasswordCommit(r) ==
    /\ Doing(r, "password")
    /\ LET k == request[r]
           new == account[k.user].password + 1
           left == RevokeSessions(k.user, k.session)
       IN  IF new > MaxPassword THEN Fail(r)        \* the bound
           ELSE /\ account' = [account EXCEPT ![k.user].password = new]
                /\ session' = IF left[k.session] = None THEN left
                              ELSE [left EXCEPT ![k.session].password = new]
                /\ End(r)
                /\ UNCHANGED <<home, team, invite, share, barred>>

-----------------------------------------------------------------------------
(* tenancy.py: claim_pending *)

\* Rows of u among those read.
To(u, rows) == [x \in Shares |-> IF rows[x] # None /\ rows[x].to = u THEN rows[x] ELSE None]

\* Mutant: an invite is good however often it was used.
Usable_Often(i) == invite[i] # None /\ invite[i].live

Usable(i) == invite[i] # None /\ invite[i].live /\ invite[i].uses < invite[i].max
Letters(u) == [i \in Invites |-> IF Usable(i) /\ invite[i].email = u THEN invite[i] ELSE None]

\* A pending share becomes the person's own or, if there is one already, is
\* deleted after raising that to edit if need be.
Raised(u, read) ==
    {x \in Own(u, read) : read[x].perm # "edit" /\ \E y \in Pending(u, read) : read[y].perm = "edit"}

ClaimFails(u, read) ==
    \/ Own(u, read) = {} /\ Pending(u, read) # {}
       /\ (Own(u, share) # {} \/ \E x \in Pending(u, read) : share[x] = None)
    \/ \E x \in Raised(u, read) : share[x] = None

\* Mutant: the pending share is always deleted when there is an own one.
ClaimShares_Drop(u, read) ==
    [x \in Shares |->
        IF x \in Pending(u, read)
        THEN IF Own(u, read) = {} THEN [share[x] EXCEPT !.claimed = TRUE] ELSE None
        ELSE share[x]]

ClaimShares(u, read) ==
    [x \in Shares |->
        CASE x \in Pending(u, read) ->
               IF Own(u, read) = {} THEN [share[x] EXCEPT !.claimed = TRUE] ELSE None
          [] x \in Raised(u, read) -> [share[x] EXCEPT !.perm = "edit"]
          [] OTHER -> share[x]]

\* Mutant: joining by the letter found at approval is not counted.
Seat_Free(i, read) == [invite[i] EXCEPT !.sold = @ + 1]

\* One more use than was read.
Seat(i, read) ==
    LET now == invite[i] IN
    [email |-> now.email, role |-> now.role, uses |-> read.uses + 1, max |-> now.max,
     live |-> now.live, sold |-> now.sold + 1, blind |-> now.blind + (now.uses - read.uses)]

\* Of the letters to u the first one lets him in, for the others he is a member.
ClaimInvites(u, letters) ==
    IF team[u] # "none" \/ Live(letters) = {}
    THEN UNCHANGED <<team, invite>>
    ELSE \E i \in Live(letters) :
           /\ team' = [team EXCEPT ![u] = letters[i].role]
           /\ invite' = [invite EXCEPT ![i] = Seat(i, letters[i])]

-----------------------------------------------------------------------------
(* tenancy.py: accounts *)

\* Account, personal workspace and session in one transaction; the address is
\* unique.  With auto_approve the account is active at once.
Signup(u, auto) ==
    /\ account[u].status = "none"
    /\ account' = [account EXCEPT ![u] =
         [status |-> IF auto THEN "active" ELSE "pending", password |-> 0, default |-> "home"]]
    /\ home' = [home EXCEPT ![u] = Empty]
    /\ \E s \in Sessions :
         /\ FreeSession(s)
         /\ session' = [session EXCEPT ![s] = [user |-> u, password |-> 0, stray |-> FALSE]]
    /\ IF auto
       THEN share' = ClaimShares(u, To(u, share)) /\ ClaimInvites(u, Letters(u))
       ELSE UNCHANGED <<share, team, invite>>
    /\ UNCHANGED <<request, barred>>

\* set_user_status of an administrator: the account as read.
Approve(r, u) ==
    /\ account[u].status # "none"
    /\ Begin(r, [op |-> "approve", user |-> u, account |-> account[u],
                 shares |-> To(u, share), invites |-> Letters(u)])
    /\ UNCHANGED Rest

Reviewed(read, now, status) == IF read.status # status THEN status ELSE now.status

Workspaces(u) ==
    (IF home[u] # {} THEN {"home"} ELSE {}) \cup (IF team[u] # "none" THEN {"team"} ELSE {})

\* approve, _ensure_home_workspace: the default is looked at as it was read.
Settle(u, read) ==
    LET status == Reviewed(read, account[u], "active") IN
    /\ home' = IF Workspaces(u) = {} THEN [home EXCEPT ![u] = Empty] ELSE home
    /\ \E d \in IF Workspaces(u) = {} THEN {"home"}
               ELSE IF read.default = None THEN Workspaces(u) ELSE {account[u].default} :
         account' = [account EXCEPT ![u].status = status, ![u].default = d]

ApproveCommit(r) ==
    /\ Doing(r, "approve")
    /\ LET k == request[r] IN
         IF ClaimFails(k.user, k.shares) THEN Fail(r)
         ELSE /\ Settle(k.user, k.account)
              /\ share' = ClaimShares(k.user, k.shares)
              /\ ClaimInvites(k.user, k.invites)
              /\ End(r)
              /\ UNCHANGED <<session, barred>>

\* Mutant: the ledger does not keep a workspace.
Counted_Recordings(contents) == contents \ {"usage"}

\* _drop_empty_personal_workspaces: what it counts.
Counted(contents) == contents

Reject(r, u) ==
    /\ account[u].status # "none"
    /\ Begin(r, [op |-> "reject", user |-> u, account |-> account[u], home |-> home[u]])
    /\ UNCHANGED Rest

\* Whoever else has looked at the workspace that is deleted here finds it gone.
Forsake(r, u) ==
    request' = [q \in Requests |->
        IF q = r THEN None
        ELSE IF request[q] # None /\ request[q].op \in {"reject", "upload"} /\ request[q].user = u
        THEN [request[q] EXCEPT !.home = {}]
        ELSE request[q]]

RejectCommit(r) ==
    /\ Doing(r, "reject")
    /\ LET k == request[r]
           u == k.user
           drops == Counted(k.home) = Empty
           lost == drops /\ "home" \in {k.account.default, account[u].default}
       IN  /\ account' = [account EXCEPT
                ![u].status = Reviewed(k.account, account[u], "rejected"),
                ![u].default = IF lost THEN None ELSE @]
           /\ session' = RevokeSessions(u, None)
           /\ IF drops THEN home' = [home EXCEPT ![u] = {}] /\ Forsake(r, u)
              ELSE End(r) /\ UNCHANGED home
    /\ UNCHANGED <<team, invite, share, barred>>

Disable(r, u) ==
    /\ account[u].status # "none"
    /\ Begin(r, [op |-> "disable", user |-> u, account |-> account[u]])
    /\ UNCHANGED Rest

DisableCommit(r) ==
    /\ Doing(r, "disable")
    /\ LET k == request[r] IN
         /\ account' = [account EXCEPT
              ![k.user].status = Reviewed(k.account, account[k.user], "disabled")]
         /\ session' = RevokeSessions(k.user, None)
    /\ End(r)
    /\ UNCHANGED <<home, team, invite, share, barred>>

-----------------------------------------------------------------------------
(* tenancy.py, routes_workspaces.py: invites and members of the team *)

\* create_invite, for an address or for anyone.
Issue(i, email, role, max) ==
    /\ FreeInvite(i)
    /\ invite' = [invite EXCEPT ![i] =
         [email |-> email, role |-> role, uses |-> 0, max |-> max, live |-> TRUE,
          sold |-> 0, blind |-> 0]]
    /\ barred' = [u \in Users |-> barred[u] /\ email \notin {u, None}]
    /\ UNCHANGED <<account, home, team, session, share, request>>

\* revoke_invite, and expiry.
InviteEnds(i) ==
    /\ invite[i] # None /\ invite[i].live
    /\ invite' = [invite EXCEPT ![i].live = FALSE]
    /\ UNCHANGED <<account, home, team, session, share, request, barred>>

Only(i) == [j \in Invites |-> IF j = i THEN invite[i] ELSE None]

\* take_invite, peek_invite
Accept(r, u, i) ==
    /\ HasOwnAccess(u)
    /\ Usable(i) /\ invite[i].email \in {u, None}
    /\ Begin(r, [op |-> "accept", user |-> u, account |-> account[u], invites |-> Only(i)])
    /\ UNCHANGED Rest

AcceptCommit(r) ==
    /\ Doing(r, "accept")
    /\ LET k == request[r] IN
         /\ ClaimInvites(k.user, k.invites)
         /\ account' = [account EXCEPT
              ![k.user].default = IF k.account.default = None THEN "team" ELSE @]
    /\ End(r)
    /\ UNCHANGED <<home, session, share, barred>>

\* Somebody outside Users takes an open invite.
Guest(r, i) ==
    /\ Usable(i) /\ invite[i].email = None
    /\ Begin(r, [op |-> "guest", invites |-> Only(i)])
    /\ UNCHANGED Rest

GuestCommit(r) ==
    /\ Doing(r, "guest")
    /\ \E i \in Live(request[r].invites) :
         invite' = [invite EXCEPT ![i] = Seat(i, request[r].invites[i])]
    /\ End(r)
    /\ UNCHANGED <<account, home, team, session, share, barred>>

SetRole(u, role) ==
    /\ team[u] # "none"
    /\ team' = [team EXCEPT ![u] = role]
    /\ UNCHANGED <<account, home, session, invite, share, request, barred>>

\* drop_member: the member, and the person's default, as read.
Remove(r, u) ==
    /\ team[u] # "none"
    /\ Begin(r, [op |-> "remove", user |-> u, account |-> account[u], member |-> TRUE])
    /\ UNCHANGED Rest

\* Mutant: the letters to the person stay good.
Withdrawn_None(u) == invite

Withdrawn(u) ==
    [i \in Invites |-> IF invite[i] # None /\ invite[i].email = u
                       THEN [invite[i] EXCEPT !.live = FALSE] ELSE invite[i]]

\* history: an open invite, or a request that has read one, may let him in again.
WayBack(r, u) ==
    \/ \E i \in Live(invite) : invite[i].live /\ invite[i].email = None
    \/ \E q \in Requests \ {r} :
         /\ request[q] # None /\ request[q].op \in {"accept", "approve"}
         /\ request[q].user = u /\ Live(request[q].invites) # {}

\* The membership that was read may be gone by now.
RemoveCommit(r) ==
    /\ Doing(r, "remove")
    /\ LET k == request[r]
           u == k.user
       IN  /\ team' = IF k.member THEN [team EXCEPT ![u] = "none"] ELSE team
           /\ invite' = Withdrawn(u)
           /\ account' = [account EXCEPT
                ![u].default = IF k.account.default # "team" THEN @
                               ELSE IF home[u] # {} THEN "home"
                               ELSE IF team'[u] # "none" THEN "team" ELSE None]
           /\ barred' = [barred EXCEPT ![u] = IF k.member THEN ~WayBack(r, u) ELSE @]
           /\ request' = [q \in Requests |->
                IF q = r THEN None
                ELSE IF k.member /\ Doing(q, "remove") /\ request[q].user = u
                THEN [request[q] EXCEPT !.member = FALSE] ELSE request[q]]
    /\ UNCHANGED <<home, session, share>>

-----------------------------------------------------------------------------
(* sharing.py, routes_sharing.py: shares of the team's recording *)

\* share_with_email, _find_share: by the account if there is one.
Share(r, u, perm) ==
    /\ LET target == account[u].status # "none"
           found == IF target THEN Own(u, share) ELSE Pending(u, share)
       IN  Begin(r, [op |-> "share", user |-> u, perm |-> perm, target |-> target,
                     shares |-> [x \in Shares |-> IF x \in found THEN share[x] ELSE None]])
    /\ UNCHANGED Rest

\* Another permission is written to the row that was found, whatever it has
\* become; without one a row is inserted, which must be the only one.
ShareCommit(r) ==
    /\ Doing(r, "share")
    /\ LET k == request[r]
           changed == {x \in Live(k.shares) : k.shares[x].perm # k.perm}
           twins == IF k.target THEN Own(k.user, share) ELSE Pending(k.user, share)
       IN  IF Live(k.shares) # {}
           THEN IF \E x \in changed : share[x] = None THEN Fail(r)
                ELSE /\ share' = [x \in Shares |-> IF x \in changed
                                   THEN [share[x] EXCEPT !.perm = k.perm] ELSE share[x]]
                     /\ End(r)
                     /\ UNCHANGED <<account, home, team, session, invite, barred>>
           ELSE IF twins # {} THEN Fail(r)
                ELSE /\ \E x \in Shares :
                          /\ FreeShare(x)
                          /\ share' = [share EXCEPT ![x] =
                               [to |-> k.user, claimed |-> k.target, perm |-> k.perm,
                                late |-> ~k.target /\ account[k.user].status # "none"]]
                     /\ End(r)
                     /\ UNCHANGED <<account, home, team, session, invite, barred>>

RevokeShare(x) ==
    /\ share[x] # None
    /\ share' = [share EXCEPT ![x] = None]
    /\ UNCHANGED <<account, home, team, session, invite, request, barred>>

-----------------------------------------------------------------------------
(* What the personal workspace holds: app.py, worker.py *)

\* The right is looked up first; then come the file and the row.
Upload(r, u) ==
    /\ HasOwnAccess(u) /\ home[u] # {}
    /\ Begin(r, [op |-> "upload", user |-> u, home |-> home[u]])
    /\ UNCHANGED Rest

UploadCommit(r) ==
    /\ Doing(r, "upload")
    /\ LET k == request[r] IN
         IF k.home = {} THEN Fail(r)
         ELSE /\ home' = [home EXCEPT ![k.user] = @ \cup {"recording"}]
              /\ End(r)
              /\ UNCHANGED <<account, team, session, invite, share, barred>>

Transcribed(u) ==
    /\ "recording" \in home[u]
    /\ home' = [home EXCEPT ![u] = @ \cup {"usage"}]
    /\ UNCHANGED <<account, team, session, invite, share, request, barred>>

DeleteRecording(u) ==
    /\ HasOwnAccess(u) /\ "recording" \in home[u]
    /\ home' = [home EXCEPT ![u] = @ \ {"recording"}]
    /\ UNCHANGED <<account, team, session, invite, share, request, barred>>

-----------------------------------------------------------------------------

Reviews ==
    \/ \E u \in Users, auto \in BOOLEAN : Signup(u, auto)
    \/ \E r \in Requests, u \in Users : Approve(r, u) \/ Reject(r, u) \/ Disable(r, u)
    \/ \E r \in Requests : ApproveCommit(r) \/ RejectCommit(r) \/ DisableCommit(r)

Visits ==
    \/ \E r \in Requests, u \in Users : Login(r, u)
    \/ \E r \in Requests, s \in Sessions : Password(r, s)
    \/ \E r \in Requests : LoginCommit(r) \/ PasswordCommit(r)

Members ==
    \/ \E i \in Invites, email \in Users \cup {None}, role \in Roles, max \in 1..MaxUses :
         Issue(i, email, role, max)
    \/ \E i \in Invites : InviteEnds(i)
    \/ \E r \in Requests, u \in Users, i \in Invites : Accept(r, u, i)
    \/ \E r \in Requests, i \in Invites : Guest(r, i)
    \/ \E u \in Users, role \in Roles : SetRole(u, role)
    \/ \E r \in Requests, u \in Users : Remove(r, u)
    \/ \E r \in Requests : AcceptCommit(r) \/ GuestCommit(r) \/ RemoveCommit(r)

Sharing ==
    \/ \E r \in Requests, u \in Users, perm \in {"view", "edit"} : Share(r, u, perm)
    \/ \E r \in Requests : ShareCommit(r)
    \/ \E x \in Shares : RevokeShare(x)

Library ==
    \/ \E r \in Requests, u \in Users : Upload(r, u)
    \/ \E r \in Requests : UploadCommit(r)
    \/ \E u \in Users : Transcribed(u) \/ DeleteRecording(u)

Next ==
    \/ Reviews \/ Visits \/ Members \/ Sharing \/ Library
    \/ \E s \in Sessions : SessionEnds(s)

Spec == Init /\ [][Next]_vars

-----------------------------------------------------------------------------
(* Properties. *)

\* The reading a request carries.
Readings ==
    [op: {"login"}, user: Users, password: 0..MaxPassword]
    \cup [op: {"password"}, user: Users, session: Sessions]
    \cup [op: {"approve"}, user: Users, account: Accounts,
          shares: [Shares -> ShareRows \cup {None}], invites: [Invites -> InviteRows \cup {None}]]
    \cup [op: {"reject"}, user: Users, account: Accounts, home: Homes]
    \cup [op: {"disable"}, user: Users, account: Accounts]
    \cup [op: {"accept"}, user: Users, account: Accounts,
          invites: [Invites -> InviteRows \cup {None}]]
    \cup [op: {"guest"}, invites: [Invites -> InviteRows \cup {None}]]
    \cup [op: {"remove"}, user: Users, account: Accounts, member: BOOLEAN]
    \cup [op: {"share"}, user: Users, perm: {"view", "edit"}, target: BOOLEAN,
          shares: [Shares -> ShareRows \cup {None}]]
    \cup [op: {"upload"}, user: Users, home: Homes]

\* The rows and the requests are what they are declared to be.
TypeOK ==
    /\ account \in [Users -> Accounts]
    /\ home \in [Users -> Homes]
    /\ team \in [Users -> Roles \cup {"none"}]
    /\ session \in [Sessions -> SessionRows \cup {None}]
    /\ invite \in [Invites -> InviteRows \cup {None}]
    /\ share \in [Shares -> ShareRows \cup {None}]
    /\ request \in [Requests -> Readings \cup {None}]
    /\ barred \in [Users -> BOOLEAN]

\* A live session belongs to an account that may log in and was opened, or kept,
\* under its present password; the exception is one opened by a login that was
\* under way when the account was closed or the password changed
\* (auth.py revoke_other_sessions, tenancy.py set_user_status, routes_auth.py).
SessionsEnd ==
    \A s \in Sessions : session[s] # None =>
        \/ session[s].stray
        \/ /\ MayLogIn(session[s].user)
           /\ session[s].password = account[session[s].user].password

\* An invite lets in as many people as it has seats, by whichever way they come, and
\* beyond them only those whom overlapping requests lost from its count of uses
\* (tenancy.py accept_invite, claim_pending).
SeatsCounted ==
    \A i \in Invites : invite[i] # None => invite[i].sold <= invite[i].max + invite[i].blind

\* What was shared with an address is what its owner has once the account is
\* active: every share counts in the permission, and one that an approval reads and
\* takes away leaves another that is worth as much.  The exceptions are a share whose
\* request looked for the account before there was one and wrote after, and one of the
\* person's own that was changed or revoked while the approval was under way
\* (sharing.py share_with_email, tenancy.py claim_pending).
ShareCounts(u, x) ==
    \/ share[x].late /\ ~share[x].claimed
    \/ SharePerm(share[x].perm) <= ResolveRecordingPerm(u)
Replaced(r) ==
    LET read == request[r].shares
        u == request[r].user
    IN  \A x \in Pending(u, read) : share[x] # None /\ share'[x] = None =>
          \/ \E y \in Own(u, read) : share[y] # read[y]
          \/ \E y \in Own(u, share') : SharePerm(read[x].perm) <= SharePerm(share'[y].perm)
PromisesKept ==
    /\ [](\A u \in Users, x \in Live(share) : HasOwnAccess(u) /\ share[x].to = u => ShareCounts(u, x))
    /\ [][\A r \in Requests : Doing(r, "approve") /\ request'[r] = None => Replaced(r)]_vars

\* A personal workspace with recordings or usage is deleted only by a rejection
\* that had counted neither: rejecting and approving again resets no quota
\* (tenancy.py _drop_empty_personal_workspaces).
UsageKept ==
    [][\A u \in Users : home[u] \notin {{}, Empty} /\ home'[u] = {} =>
         \E r \in Requests : Doing(r, "reject") /\ request[r].user = u /\ request[r].home = Empty]_vars

\* A removed member is not let in again, by token or by approval, unless an
\* invite is issued later, an open one is left, or somebody was at the door
\* (tenancy.py remove_member).
RemovedStaysOut == \A u \in Users : barred[u] => team[u] = "none"

\* An active account has a default workspace, so that the console knows where
\* to go (tenancy.py remove_member, _ensure_home_workspace).
DefaultKnown == \A u \in Users : HasOwnAccess(u) => account[u].default # None
=============================================================================
