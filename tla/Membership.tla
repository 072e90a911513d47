----------------------------- MODULE Membership -----------------------------
(***************************************************************************)
(* Who is a member and who governs: invitations (registration_invites.py), *)
(* registration (account_auth_routes.py, security.py), its review          *)
(* (registration_moderation.py), roles (roles.py) and what staff does to   *)
(* accounts (account_admin.py).                                            *)
(*                                                                         *)
(* Each transaction is one action; a SELECT before the first write of a    *)
(* handler is an action of its own.  Who may do something is decided on    *)
(* rows read before the write, which names the account's id alone.         *)
(***************************************************************************)
EXTENDS Naturals, FiniteSets

CONSTANTS
    Accounts,     \* accounts that may come to exist
    Invites,      \* invitations that may be sent
    Applicants,   \* requests that register an account
    Staffers,     \* requests of staff
    Given,        \* the roles that are given to accounts
    NoAccount, NoInvite,
    MaxCuts       \* bound: registrations cut short by a failure

Roles == {"read_only", "member", "organizer", "moderator", "admin", "owner"}

ASSUME MembershipAssumption ==
    /\ Given \subseteq Roles /\ NoAccount \notin Accounts /\ NoInvite \notin Invites
    /\ MaxCuts \in Nat

VARIABLES
    people,        \* users: status, role, banned
    invites,       \* registration_invites: status, creator, who accepted
    rpc, form,     \* each applicant's place and local variables
    spc, file,     \* each staff request's place and local variables
    via,           \* history: the invitation each account came with
    shared,        \* history: invitations read by two requests at once
    crossed,       \* history: an account was written on a check older than
                   \* another such write
    late,          \* history: invitations sent by who might not any more
    cuts           \* history: counted so that it can be bounded

memberVars == <<people, invites, rpc, form, spc, file, via, shared, crossed, late, cuts>>

\* ROLE_LEVELS
Level(role) == CASE role = "read_only" -> 10 [] role = "member" -> 20
                 [] role = "organizer" -> 30 [] role = "moderator" -> 35
                 [] role = "admin" -> 40     [] role = "owner" -> 50
\* ROLE_CAPABILITIES, as far as accounts are concerned.
CanModerate == {"moderator", "admin", "owner"}
CanAssign   == {"admin", "owner"}
CanInvite   == {"organizer", "admin", "owner"}

Person == [status : {"none", "active", "pending", "denied"}, role : Roles, banned : BOOLEAN]
Nobody == [status |-> "none", role |-> "member", banned |-> FALSE]
Invite == [status : {"none", "pending", "accepted", "revoked", "expired", "deleted"},
           by : Accounts \cup {NoAccount}, taker : Accounts \cup {NoAccount}]
Form   == [invite : Invites \cup {NoInvite}, first : BOOLEAN, owner : BOOLEAN,
           account : Accounts \cup {NoAccount}]
Blank  == [invite |-> NoInvite, first |-> FALSE, owner |-> FALSE, account |-> NoAccount]
File   == [op : {"none", "invite", "revoke", "role", "ban", "unban", "approve", "deny"},
           target : Accounts \cup {NoAccount}, role : Roles, invite : Invites \cup {NoInvite},
           stale : BOOLEAN]
NoFile == [op |-> "none", target |-> NoAccount, role |-> "member",
           invite |-> NoInvite, stale |-> FALSE]

MembersTypeOK ==
    /\ people \in [Accounts -> Person]
    /\ invites \in [Invites -> Invite]
    /\ rpc \in [Applicants -> {"idle", "read", "counted", "naming", "created"}]
    /\ form \in [Applicants -> Form]
    /\ spc \in [Staffers -> {"idle", "count", "write"}]
    /\ file \in [Staffers -> File]
    /\ via \in [Accounts -> Invites \cup {NoInvite}]
    /\ shared \subseteq Invites /\ late \subseteq Invites
    /\ crossed \in BOOLEAN /\ cuts \in 0..MaxCuts

MembersInit ==
    /\ people = [a \in Accounts |-> Nobody]
    /\ invites = [i \in Invites |->
                    [status |-> "none", by |-> NoAccount, taker |-> NoAccount]]
    /\ rpc = [r \in Applicants |-> "idle"] /\ form = [r \in Applicants |-> Blank]
    /\ spc = [s \in Staffers |-> "idle"] /\ file = [s \in Staffers |-> NoFile]
    /\ via = [a \in Accounts |-> NoInvite]
    /\ shared = {} /\ late = {} /\ crossed = FALSE /\ cuts = 0

-----------------------------------------------------------------------------
Exists(a) == people[a].status # "none"
\* user_has_capability
Able(a, roles) == people[a].status = "active" /\ ~people[a].banned /\ people[a].role \in roles
ActiveOwner(a) == Able(a, {"owner"})

-----------------------------------------------------------------------------
(* Invitations.                                                            *)

InviteExpires(i) ==
    /\ invites[i].status = "pending"
    /\ invites' = [invites EXCEPT ![i].status = "expired"]
    /\ UNCHANGED <<people, rpc, form, spc, file, via, shared, crossed, late, cuts>>
\* delete_registration_invite: only one that is not pending.
DeleteInvite(a, i) ==
    /\ Able(a, CanInvite) /\ invites[i].status \in {"accepted", "revoked", "expired"}
    /\ invites' = [invites EXCEPT ![i].status = "deleted"]
    /\ UNCHANGED <<people, rpc, form, spc, file, via, shared, crossed, late, cuts>>

-----------------------------------------------------------------------------
(* Registration.                                                           *)

\* register: the invitation is read, if there is one; without one the form is
\* taken while nobody is registered, or while the administrators' setting does
\* not ask for one, so that it may be taken at any time.
ReadInvite(r, i) ==
    /\ rpc[r] = "idle" /\ invites[i].status = "pending"
    /\ form' = [form EXCEPT ![r].invite = i]
    /\ shared' = IF \E q \in Applicants : form[q].invite = i THEN shared \cup {i} ELSE shared
    /\ rpc' = [rpc EXCEPT ![r] = "read"]
    /\ UNCHANGED <<people, invites, spc, file, via, crossed, late, cuts>>
WalkIn(r) ==
    /\ rpc[r] = "idle"
    /\ rpc' = [rpc EXCEPT ![r] = "read"]
    /\ UNCHANGED <<people, invites, form, spc, file, via, shared, crossed, late, cuts>>
\* user_count_before decides whether the account waits for approval...
CountBefore(r) ==
    /\ rpc[r] = "read"
    /\ form' = [form EXCEPT ![r].first = \A a \in Accounts : ~Exists(a)]
    /\ rpc' = [rpc EXCEPT ![r] = "counted"]
    /\ UNCHANGED <<people, invites, spc, file, via, shared, crossed, late, cuts>>
\* ...and the count of create_user, before its INSERT, whether it is an owner.
CountAgain(r) ==
    /\ rpc[r] = "counted"
    /\ form' = [form EXCEPT ![r].owner = \A a \in Accounts : ~Exists(a)]
    /\ rpc' = [rpc EXCEPT ![r] = "naming"]
    /\ UNCHANGED <<people, invites, spc, file, via, shared, crossed, late, cuts>>
\* Mutant: a new account gets a role that no level is known for.
CreateUserUnranked(r, a, waits) ==
    /\ rpc[r] = "naming" /\ ~Exists(a) /\ (waits => ~form[r].first)
    /\ people' = [people EXCEPT ![a] =
           [status |-> IF waits THEN "pending" ELSE "active",
            role   |-> IF form[r].owner THEN "owner" ELSE "user",
            banned |-> FALSE]]
    /\ via' = [via EXCEPT ![a] = form[r].invite]
    /\ form' = [form EXCEPT ![r] = Blank] /\ rpc' = [rpc EXCEPT ![r] = "idle"]
    /\ UNCHANGED <<invites, spc, file, shared, crossed, late, cuts>>
\* create_user: the INSERT.  registration_status_for_new_account lets the first
\* account in; the others wait or not, after the mode and their risk score.
CreateUser(r, a, waits) ==
    /\ rpc[r] = "naming" /\ ~Exists(a) /\ (waits => ~form[r].first)
    /\ people' = [people EXCEPT ![a] =
           [status |-> IF waits THEN "pending" ELSE "active",
            role   |-> IF form[r].owner THEN "owner" ELSE "member",
            banned |-> FALSE]]
    /\ via' = [via EXCEPT ![a] = form[r].invite]
    /\ IF form[r].invite = NoInvite
       THEN form' = [form EXCEPT ![r] = Blank] /\ rpc' = [rpc EXCEPT ![r] = "idle"]
       ELSE form' = [form EXCEPT ![r].account = a] /\ rpc' = [rpc EXCEPT ![r] = "created"]
    /\ UNCHANGED <<invites, spc, file, shared, crossed, late, cuts>>
\* The name is taken (IntegrityError), or the process dies: before the INSERT
\* nothing happened, after it the account is there and the invitation open.
RegistrationStops(r) ==
    /\ rpc[r] \in {"naming", "created"} /\ cuts < MaxCuts
    /\ cuts' = cuts + 1
    /\ shared' = IF rpc[r] = "created" THEN shared \cup {form[r].invite} ELSE shared
    /\ form' = [form EXCEPT ![r] = Blank] /\ rpc' = [rpc EXCEPT ![r] = "idle"]
    /\ UNCHANGED <<people, invites, spc, file, via, crossed, late>>
\* Mutant: an invitation stays pending after it has been accepted.
AcceptKeepsPending(r) ==
    LET i == form[r].invite IN
    /\ rpc[r] = "created"
    /\ invites' = IF invites[i].status = "pending"
                  THEN [invites EXCEPT ![i].taker = form[r].account] ELSE invites
    /\ form' = [form EXCEPT ![r] = Blank] /\ rpc' = [rpc EXCEPT ![r] = "idle"]
    /\ UNCHANGED <<people, spc, file, via, shared, crossed, late, cuts>>
\* accept_registration_invite: expires old ones first, so that what it reads
\* is current; an error if it is not pending, though the account exists.
AcceptInvite(r) ==
    LET i == form[r].invite IN
    /\ rpc[r] = "created"
    /\ invites' = IF invites[i].status = "pending"
                  THEN [invites EXCEPT ![i].status = "accepted", ![i].taker = form[r].account]
                  ELSE invites
    /\ form' = [form EXCEPT ![r] = Blank] /\ rpc' = [rpc EXCEPT ![r] = "idle"]
    /\ UNCHANGED <<people, spc, file, via, shared, crossed, late, cuts>>

-----------------------------------------------------------------------------
(* Staff.                                                                  *)

\* user_can_manage_target
MayManage(a, t, roles) == Able(a, roles) /\ a # t /\ Level(people[a].role) > Level(people[t].role)
\* Mutant: one may change one's own role.
MayAssignOwn(a, t, role) ==
    /\ Able(a, CanAssign)
    /\ people[a].role # "owner" => MayManage(a, t, CanAssign)
    /\ people[a].role = "owner" \/ Level(role) < Level("admin")
\* user_can_assign_role: an owner assigns everything to everybody else, an
\* administrator what is below him to those below him.
MayAssign(a, t, role) ==
    /\ Able(a, CanAssign) /\ a # t
    /\ people[a].role # "owner" => MayManage(a, t, CanAssign)
    /\ people[a].role = "owner" \/ Level(role) < Level("admin")

Open(s, place, op, t, role) ==
    /\ spc[s] = "idle" /\ Exists(t)
    /\ file' = [file EXCEPT ![s] = [NoFile EXCEPT !.op = op, !.target = t, !.role = role]]
    /\ spc' = [spc EXCEPT ![s] = place]
    /\ UNCHANGED <<people, invites, rpc, form, via, shared, crossed, late, cuts>>
Close(s) ==
    /\ spc' = [spc EXCEPT ![s] = "idle"] /\ file' = [file EXCEPT ![s] = NoFile]

\* The checks of admin_set_user_role, admin_set_user_ban and
\* admin_review_registration, on the rows of actor and target.
CheckRole(s, a, t, role) ==
    /\ MayAssign(a, t, role)
    /\ Open(s, IF people[t].role = "owner" /\ role # "owner" THEN "count" ELSE "write",
            "role", t, role)
CheckBan(s, a, t) ==
    /\ MayManage(a, t, CanModerate)
    /\ Open(s, "write", IF people[t].banned THEN "unban" ELSE "ban", t, "member")
CheckReview(s, a, t, decision) ==
    /\ MayManage(a, t, CanModerate) /\ people[t].status = "pending"
    /\ Open(s, "write", decision, t, "member")
\* The owners are counted, banned ones too, in a transaction of their own.
CountOwners(s) ==
    /\ spc[s] = "count"
    /\ IF Cardinality({a \in Accounts : Exists(a) /\ people[a].role = "owner"}) <= 1
       THEN Close(s)
       ELSE spc' = [spc EXCEPT ![s] = "write"] /\ UNCHANGED file
    /\ UNCHANGED <<people, invites, rpc, form, via, shared, crossed, late, cuts>>

\* What the write of a request does to its target.
Decided(p, f) ==
    CASE f.op = "role"    -> [p EXCEPT !.role = f.role]
      [] f.op = "ban"     -> [p EXCEPT !.banned = TRUE]
      [] f.op = "unban"   -> [p EXCEPT !.banned = FALSE]
      [] f.op = "approve" -> [p EXCEPT !.status = "active"]
      [] f.op = "deny"    -> [p EXCEPT !.status = "denied"]
\* The write of s is over; the checks of the others are older than it.
Written(s) ==
    /\ crossed' = (crossed \/ file[s].stale)
    /\ file' = [x \in Staffers |-> IF x = s \/ file[x] = NoFile THEN NoFile
                                   ELSE [file[x] EXCEPT !.stale = TRUE]]
    /\ spc' = [spc EXCEPT ![s] = "idle"]
\* Mutant: a ban leaves the invitations of the banned account.
WriteLeavesInvites(s) ==
    LET f == file[s] IN
    /\ spc[s] = "write" /\ f.op \notin {"invite", "revoke"}
    /\ people' = [people EXCEPT ![f.target] = Decided(@, f)]
    /\ Written(s)
    /\ UNCHANGED <<invites, rpc, form, via, shared, late, cuts>>
\* The UPDATE; a ban revokes the pending invitations of the account.
WriteDecision(s) ==
    LET f == file[s] IN
    /\ spc[s] = "write" /\ f.op \notin {"invite", "revoke"}
    /\ people' = [people EXCEPT ![f.target] = Decided(@, f)]
    /\ invites' = [i \in Invites |->
                     IF f.op = "ban" /\ invites[i].by = f.target /\ invites[i].status = "pending"
                     THEN [invites[i] EXCEPT !.status = "revoked"] ELSE invites[i]]
    /\ Written(s)
    /\ UNCHANGED <<rpc, form, via, shared, late, cuts>>

\* admin_invite_create asks what the session's account may do; the mail is
\* sent; create_registration_invite inserts the row.
CheckInviter(s, a) ==
    /\ Able(a, CanInvite) /\ Open(s, "write", "invite", a, "member")
SendInvite(s, i) ==
    LET a == file[s].target IN
    /\ spc[s] = "write" /\ file[s].op = "invite" /\ invites[i].status = "none"
    /\ invites' = [invites EXCEPT ![i].status = "pending", ![i].by = a]
    /\ late' = IF Able(a, CanInvite) THEN late ELSE late \cup {i}
    /\ Close(s)
    /\ UNCHANGED <<people, rpc, form, via, shared, crossed, cuts>>
\* revoke_registration_invite: the status is read before the UPDATE, which
\* names the id alone: it labels one accepted meanwhile as revoked.
CheckRevoke(s, a, i) ==
    /\ Able(a, CanInvite) /\ invites[i].status = "pending" /\ spc[s] = "idle"
    /\ file' = [file EXCEPT ![s] = [NoFile EXCEPT !.op = "revoke", !.invite = i]]
    /\ spc' = [spc EXCEPT ![s] = "write"]
    /\ UNCHANGED <<people, invites, rpc, form, via, shared, crossed, late, cuts>>
RevokeInvite(s) ==
    LET i == file[s].invite IN
    /\ spc[s] = "write" /\ file[s].op = "revoke"
    /\ invites' = IF invites[i].status = "deleted" THEN invites
                  ELSE [invites EXCEPT ![i].status = "revoked"]
    /\ Close(s)
    /\ UNCHANGED <<people, rpc, form, via, shared, crossed, late, cuts>>

-----------------------------------------------------------------------------
ApplicantNext(r) ==
    \/ \E i \in Invites : ReadInvite(r, i)
    \/ WalkIn(r) \/ CountBefore(r) \/ CountAgain(r)
    \/ \E a \in Accounts, waits \in BOOLEAN : CreateUser(r, a, waits)
    \/ RegistrationStops(r) \/ AcceptInvite(r)
StafferNext(s) ==
    \/ \E a, t \in Accounts :
         \/ \E role \in Given : CheckRole(s, a, t, role)
         \/ CheckBan(s, a, t)
         \/ \E decision \in {"approve", "deny"} : CheckReview(s, a, t, decision)
    \/ CountOwners(s) \/ WriteDecision(s)
    \/ \E a \in Accounts : CheckInviter(s, a) \/ \E i \in Invites : CheckRevoke(s, a, i)
    \/ RevokeInvite(s)
    \/ \E i \in Invites : SendInvite(s, i)
MembersNext ==
    \/ \E r \in Applicants : ApplicantNext(r)
    \/ \E s \in Staffers : StafferNext(s)
    \/ \E i \in Invites :
         \/ InviteExpires(i)
         \/ \E a \in Accounts : DeleteInvite(a, i)

MembersSpec == MembersInit /\ [][MembersNext]_memberVars

-----------------------------------------------------------------------------
(* Properties.                                                             *)

\* Somebody governs: once an account exists there is an owner who is neither
\* banned nor unapproved, however roles are given and taken, unless one request
\* of staff wrote on a check that another's write had made old.
SomebodyGoverns ==
    (\E a \in Accounts : Exists(a)) => crossed \/ \E a \in Accounts : ActiveOwner(a)

\* One invitation lets one account in, unless two requests read it at once or
\* a registration stopped between its account and its invitation.
InviteAdmitsOne ==
    \A a, b \in Accounts :
        via[a] = via[b] /\ via[a] # NoInvite => a = b \/ via[a] \in shared

\* An invitation of a banned account is not open: the ban revoked it, unless
\* its mail was still being sent when the ban was written.
BannedInviteNobody ==
    \A i \in Invites : invites[i].status = "pending" =>
        i \in late \/ ~people[invites[i].by].banned
=============================================================================
