------------------------------ MODULE MCAccess ------------------------------
(***************************************************************************)
(* Small instances for TLC of what decides who may do something (sign-in,  *)
(* membership, rate limits), and of the archives that administrators keep. *)
(* They share no state in the model, so a behaviour belongs to one of      *)
(* them; `part` says to which, and which slice of a component with many    *)
(* dimensions.                                                             *)
(***************************************************************************)
EXTENDS SignIn, Membership, RateLimits, Backups, TLC

VARIABLE part

AccessInit ==
    /\ part \in {"password", "factor", "roles", "invites", "rate", "retention", "restore"}
    /\ SignInInit /\ MembersInit /\ RateInit /\ BackupsInit
AccessNext ==
    /\ UNCHANGED part
    /\ \/ part \in {"password", "factor"} /\ SignInNext
          /\ UNCHANGED <<memberVars, rateVars, backupVars>>
       \/ part \in {"roles", "invites"} /\ MembersNext
          /\ UNCHANGED <<signInVars, rateVars, backupVars>>
       \/ part = "rate" /\ RateNext /\ UNCHANGED <<signInVars, memberVars, backupVars>>
       \/ part \in {"retention", "restore"} /\ BackupsNext
          /\ UNCHANGED <<signInVars, memberVars, rateVars>>
AccessSpec ==
    AccessInit /\ [][AccessNext]_<<part, signInVars, memberVars, rateVars, backupVars>>

-----------------------------------------------------------------------------
\* Sign-in without two-factor, one session at a time.
PasswordSlice == totp = "off" /\ Cardinality(sessions) <= 1
\* Sign-in without recovery links: browsers only, one session at a time,
\* a second list of codes neither with a second challenge nor after a change of
\* the password.
FactorSlice ==
    /\ \A l \in Links : links[l] = "none"
    /\ pending = 0 /\ era <= 1 /\ chals + series <= 3
    /\ (era = 1 => series <= 1) /\ Cardinality(sessions) <= 1
    /\ \A v \in Visits : visit[v].kind = "browser" /\ vpc[v] \notin {"asked", "look", "insert"}
\* Accounts are numbered in the order of their creation.
AccountsInOrder == \A a, b \in Accounts : a < b /\ Exists(b) => Exists(a)
\* At most two requests are on their way.
TwoRequests ==
    Cardinality({r \in Applicants : rpc[r] # "idle"})
      + Cardinality({s \in Staffers : spc[s] # "idle"}) <= 2
\* Accounts without invitations, organizers, denials and failures.
RolesSlice ==
    /\ AccountsInOrder /\ TwoRequests /\ cuts = 0
    /\ \A s \in Staffers : file[s].op \notin {"invite", "revoke"} /\ file[s].role # "organizer"
    /\ \A a \in Accounts : people[a].status # "denied"
\* Invitations and bans of organizers, with one owner, no reviews, one of the
\* staff at a time, and a third account only by invitation.
InvitesSlice ==
    /\ AccountsInOrder /\ TwoRequests
    /\ \A a \in Accounts : people[a].status \in {"none", "active"}
    /\ \A a \in Accounts : people[a].role = "owner" => \A b \in Accounts : b >= a
    /\ \A s \in Staffers :
         \/ file[s].op \in {"none", "invite", "revoke", "ban"}
         \/ file[s].op = "role" /\ file[s].role = "organizer"
    /\ \E s \in Staffers : spc[s] = "idle"
    /\ \A a \in Accounts : a = 3 /\ Exists(a) => via[a] # NoInvite
\* At most one of the keepers who are busy does this.
AtMostOne(op) ==
    \A k, l \in Keepers : k # l => order[k].op # op \/ order[l].op # op
\* Who does this is the only one who is busy.
Alone(op) == \A k, l \in Keepers : k # l /\ order[k].op = op => order[l].op = "none"
\* Automatic archives and settings; the schedule is due only at the beginning
\* (runs by hand do not ask), the database does not change.
RetentionSlice ==
    /\ lastRow = 0 /\ (due => mtimes = 0) /\ AtMostOne("settings")
    /\ \A k \in Keepers : order[k].op \in {"none", "auto", "settings"}
\* Restores beside archives made by hand, without automatic ones; fewer archives
\* are retained only by settings that are being saved.
RestoreSlice ==
    /\ due /\ Alone("manual") /\ Alone("settings")
    /\ retained = MaxRetained \/ \E k \in Keepers : order[k].op = "settings"
    /\ \A k \in Keepers : order[k].op \in {"none", "manual", "restore", "settings"}
SliceBound ==
    /\ part = "password" => PasswordSlice
    /\ part = "factor" => FactorSlice
    /\ part = "roles" => RolesSlice
    /\ part = "invites" => InvitesSlice
    /\ part = "retention" => RetentionSlice
    /\ part = "restore" => RestoreSlice

\* Sets of different components share their model values.
Symmetry == Permutations(Applicants) \cup Permutations(Staffers)

\* The variables of the four components keep the types the code gives them.
AccessTypeOK == SignInTypeOK /\ MembersTypeOK /\ RateTypeOK /\ BackupsTypeOK
=============================================================================
