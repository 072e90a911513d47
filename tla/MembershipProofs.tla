-------------------------- MODULE MembershipProofs --------------------------
(***************************************************************************)
(* Proofs about Membership, for any accounts, invitations and requests.    *)
(***************************************************************************)
EXTENDS Membership, TLAPS

-----------------------------------------------------------------------------
(* Types, and what the requests hold.                                      *)

\* A request at work holds what its place says.
Holds ==
    /\ \A r \in Applicants :
         /\ rpc[r] = "idle" => form[r] = Blank
         /\ form[r].invite # NoInvite => invites[form[r].invite].status # "none"
         /\ rpc[r] = "created" => form[r].invite \in Invites /\ form[r].account \in Accounts
    /\ \A s \in Staffers :
         IF spc[s] = "idle" THEN file[s] = NoFile
         ELSE /\ file[s].op # "none"
              /\ file[s].op = "revoke" => /\ file[s].invite \in Invites
                                          /\ invites[file[s].invite].status # "none"
              /\ file[s].op # "revoke" => file[s].target \in Accounts /\ Exists(file[s].target)

LEMMA BlankType == Blank \in Form /\ NoFile \in File /\ Nobody \in Person
BY DEF Blank, Form, NoFile, File, Nobody, Person, Roles

LEMMA FormTypes ==
    ASSUME NEW f \in Form
    PROVE  /\ \A i \in Invites : LET g == [f EXCEPT !.invite = i] IN g \in Form /\ g.invite = i
           /\ \A b \in BOOLEAN : LET g == [f EXCEPT !.first = b] IN
                g \in Form /\ g.invite = f.invite /\ g.first = b
           /\ \A b \in BOOLEAN : LET g == [f EXCEPT !.owner = b] IN
                g \in Form /\ g.invite = f.invite /\ g.first = f.first /\ g.owner = b
           /\ \A a \in Accounts : LET g == [f EXCEPT !.account = a] IN
                g \in Form /\ g.invite = f.invite /\ g.account = a
BY DEF Form

\* The rows of invitations, and the files, that the steps write.
Labelled(x, st) == [x EXCEPT !.status = st]
Taken(x, a) == [x EXCEPT !.status = "accepted", !.taker = a]
Sent(x, a) == [x EXCEPT !.status = "pending", !.by = a]
Opened(op, t, role) == [NoFile EXCEPT !.op = op, !.target = t, !.role = role]

LEMMA LabelledType ==
    ASSUME NEW x \in Invite,
           NEW st \in {"none", "pending", "accepted", "revoked", "expired", "deleted"}
    PROVE  /\ Labelled(x, st) \in Invite /\ Labelled(x, st).status = st
           /\ Labelled(x, st).by = x.by
BY DEF Invite, Labelled

LEMMA TakenType ==
    ASSUME NEW x \in Invite, NEW a \in Accounts
    PROVE  Taken(x, a) \in Invite /\ Taken(x, a).status = "accepted" /\ Taken(x, a).by = x.by
BY DEF Invite, Taken

LEMMA SentType ==
    ASSUME NEW x \in Invite, NEW a \in Accounts
    PROVE  Sent(x, a) \in Invite /\ Sent(x, a).status = "pending" /\ Sent(x, a).by = a
BY DEF Invite, Sent

LEMMA OpenedType ==
    ASSUME NEW t \in Accounts, NEW role \in Roles,
           NEW op \in {"invite", "role", "ban", "unban", "approve", "deny"}
    PROVE  /\ Opened(op, t, role) \in File /\ Opened(op, t, role).op = op
           /\ Opened(op, t, role).target = t /\ Opened(op, t, role).role = role
           /\ Opened(op, t, role).stale = FALSE /\ Opened(op, t, role).invite = NoInvite
BY DEF NoFile, File, Opened

LEMMA RevokedType ==
    ASSUME NEW i \in Invites
    PROVE  LET f == [NoFile EXCEPT !.op = "revoke", !.invite = i] IN
           f \in File /\ f.op = "revoke" /\ f.invite = i
BY DEF NoFile, File, Roles

LEMMA StaleType ==
    ASSUME NEW f \in File
    PROVE  LET g == [f EXCEPT !.stale = TRUE] IN
           /\ g \in File /\ g.op = f.op /\ g.target = f.target /\ g.role = f.role
           /\ g.invite = f.invite /\ g.stale = TRUE
BY DEF File

\* What a decision does to an account.
LEMMA DecidedType ==
    ASSUME NEW p \in Person, NEW f \in File,
           f.op \in {"role", "ban", "unban", "approve", "deny"}
    PROVE  /\ Decided(p, f) \in Person
           /\ p.status # "none" => Decided(p, f).status # "none"
           /\ f.op = "role" => /\ Decided(p, f).status = p.status
                               /\ Decided(p, f).banned = p.banned
           /\ f.op \in {"ban", "unban"} => /\ Decided(p, f).status = p.status
                                           /\ Decided(p, f).role = p.role
           /\ f.op = "ban" => Decided(p, f).banned
           /\ f.op = "unban" => ~Decided(p, f).banned
           /\ f.op \in {"approve", "deny"} => /\ Decided(p, f).role = p.role
                                              /\ Decided(p, f).banned = p.banned
           /\ f.op = "approve" => Decided(p, f).status = "active"
<1>1. CASE f.op = "role"
  BY <1>1 DEF Decided, Person, File
<1>2. CASE f.op = "ban"
  BY <1>2 DEF Decided, Person
<1>3. CASE f.op = "unban"
  BY <1>3 DEF Decided, Person
<1>4. CASE f.op = "approve"
  BY <1>4 DEF Decided, Person
<1>5. CASE f.op = "deny"
  BY <1>5 DEF Decided, Person
<1> QED  BY <1>1, <1>2, <1>3, <1>4, <1>5

\* The write of a staff request closes its file and makes the others stale.
LEMMA WrittenFiles ==
    ASSUME MembersTypeOK, Holds, NEW s \in Staffers, Written(s)
    PROVE  /\ file' \in [Staffers -> File] /\ spc' \in [Staffers -> {"idle", "count", "write"}]
           /\ crossed' \in BOOLEAN /\ crossed' = (crossed \/ file[s].stale)
           /\ spc'[s] = "idle" /\ file'[s] = NoFile
           /\ \A x \in Staffers \ {s} :
                /\ spc'[x] = spc[x]
                /\ file[x] = NoFile => file'[x] = NoFile
                /\ file'[x].op = file[x].op /\ file'[x].target = file[x].target
                /\ file'[x].invite = file[x].invite
                /\ spc[x] # "idle" => file'[x].stale
<1>0. /\ file \in [Staffers -> File] /\ spc \in [Staffers -> {"idle", "count", "write"}]
      /\ crossed \in BOOLEAN /\ file[s].stale \in BOOLEAN
  BY DEF MembersTypeOK, File
<1>1. ASSUME NEW x \in Staffers, x # s
      PROVE  /\ file'[x] \in File /\ spc'[x] = spc[x]
             /\ file[x] = NoFile => file'[x] = NoFile
             /\ file'[x].op = file[x].op /\ file'[x].target = file[x].target
             /\ file'[x].invite = file[x].invite
             /\ spc[x] # "idle" => file'[x].stale
  <2>1. spc'[x] = spc[x]
    BY <1>0, <1>1 DEF Written
  <2>2. CASE file[x] = NoFile
    <3>1. spc[x] = "idle"
      BY <2>2 DEF Holds, NoFile
    <3> QED  BY <1>0, <1>1, <2>1, <2>2, <3>1, BlankType DEF Written
  <2>3. CASE file[x] # NoFile
    <3>1. file'[x] = [file[x] EXCEPT !.stale = TRUE]
      BY <1>1, <2>3 DEF Written
    <3> QED  BY <1>0, <2>1, <2>3, <3>1, StaleType
  <2> QED  BY <2>2, <2>3
<1>2. file'[s] = NoFile /\ spc'[s] = "idle"
  BY <1>0 DEF Written
<1>3. DOMAIN file' = Staffers /\ file' = [x \in Staffers |-> file'[x]]
  BY DEF Written
<1>4. file' \in [Staffers -> File]
  BY <1>1, <1>2, <1>3, BlankType
<1>5. spc' \in [Staffers -> {"idle", "count", "write"}]
  BY <1>0 DEF Written
<1>6. crossed' = (crossed \/ file[s].stale) /\ crossed' \in BOOLEAN
  BY <1>0 DEF Written
<1> QED  BY <1>1, <1>2, <1>4, <1>5, <1>6

\* Nobody who is registered disappears, and an invitation once sent stays one.
Lasting ==
    /\ \A a \in Accounts : Exists(a) => Exists(a)'
    /\ \A i \in Invites : invites[i].status # "none" => invites'[i].status # "none"

\* The local state of the requests, each for itself.
FormOK(r) ==
    /\ rpc[r] \in {"idle", "read", "counted", "naming", "created"} /\ form[r] \in Form
    /\ rpc[r] = "idle" => form[r] = Blank
    /\ form[r].invite # NoInvite => invites[form[r].invite].status # "none"
    /\ rpc[r] = "created" => form[r].invite \in Invites /\ form[r].account \in Accounts
FileOK(s) ==
    /\ spc[s] \in {"idle", "count", "write"} /\ file[s] \in File
    /\ IF spc[s] = "idle" THEN file[s] = NoFile
       ELSE /\ file[s].op # "none"
            /\ file[s].op = "revoke" => /\ file[s].invite \in Invites
                                        /\ invites[file[s].invite].status # "none"
            /\ file[s].op # "revoke" => file[s].target \in Accounts /\ Exists(file[s].target)
Desks ==
    /\ rpc = [r \in Applicants |-> rpc[r]] /\ form = [r \in Applicants |-> form[r]]
    /\ spc = [s \in Staffers |-> spc[s]] /\ file = [s \in Staffers |-> file[s]]
    /\ \A r \in Applicants : FormOK(r)
    /\ \A s \in Staffers : FileOK(s)
\* The tables and the histories.
TablesOK ==
    /\ people \in [Accounts -> Person] /\ invites \in [Invites -> Invite]
    /\ via \in [Accounts -> Invites \cup {NoInvite}]
    /\ shared \subseteq Invites /\ late \subseteq Invites
    /\ crossed \in BOOLEAN /\ cuts \in 0..MaxCuts

LEMMA PartsAreAll == MembersTypeOK /\ Holds <=> TablesOK /\ Desks
<1>1. MembersTypeOK /\ Holds => TablesOK /\ Desks
  BY DEF MembersTypeOK, Holds, TablesOK, Desks, FormOK, FileOK
<1>2. TablesOK /\ Desks => MembersTypeOK /\ Holds
  BY DEF MembersTypeOK, Holds, TablesOK, Desks, FormOK, FileOK
<1> QED  BY <1>1, <1>2

\* Desks that a step leaves alone stay in order.
LEMMA FormStays ==
    ASSUME NEW r \in Applicants, FormOK(r), rpc'[r] = rpc[r], form'[r] = form[r],
           Lasting, form[r].invite \in Invites \cup {NoInvite}
    PROVE  FormOK(r)'
BY DEF FormOK, Lasting

LEMMA FileStays ==
    ASSUME NEW s \in Staffers, FileOK(s), spc'[s] = spc[s], file'[s] = file[s], Lasting
    PROVE  FileOK(s)'
BY DEF FileOK, Lasting

\* A step of applicant r that is in order itself.
LEMMA OneForm ==
    ASSUME Desks, Lasting, NEW r \in Applicants, NEW place, NEW f,
           rpc' = [rpc EXCEPT ![r] = place], form' = [form EXCEPT ![r] = f],
           FormOK(r)', UNCHANGED <<spc, file>>
    PROVE  Desks'
<1>1. ASSUME NEW q \in Applicants, q # r PROVE FormOK(q)'
  <2>1. rpc'[q] = rpc[q] /\ form'[q] = form[q] /\ FormOK(q)
    BY <1>1 DEF Desks
  <2>2. form[q].invite \in Invites \cup {NoInvite}
    BY <2>1 DEF FormOK, Form
  <2> QED  BY <2>1, <2>2, FormStays
<1>2. ASSUME NEW s \in Staffers PROVE FileOK(s)'
  BY FileStays DEF Desks
<1>3. /\ rpc' = [q \in Applicants |-> rpc'[q]] /\ form' = [q \in Applicants |-> form'[q]]
      /\ spc' = [s \in Staffers |-> spc'[s]] /\ file' = [s \in Staffers |-> file'[s]]
  BY DEF Desks
<1> QED  BY <1>1, <1>2, <1>3 DEF Desks

\* A step of staff request s that is in order itself.
LEMMA OneFile ==
    ASSUME Desks, Lasting, NEW s \in Staffers, NEW place, NEW f,
           spc' = [spc EXCEPT ![s] = place], file' = [file EXCEPT ![s] = f],
           FileOK(s)', UNCHANGED <<rpc, form>>
    PROVE  Desks'
<1>1. ASSUME NEW r \in Applicants PROVE FormOK(r)'
  <2>1. FormOK(r) /\ form[r].invite \in Invites \cup {NoInvite}
    BY DEF Desks, FormOK, Form
  <2> QED  BY <2>1, FormStays
<1>2. ASSUME NEW x \in Staffers, x # s PROVE FileOK(x)'
  <2>1. spc'[x] = spc[x] /\ file'[x] = file[x] /\ FileOK(x)
    BY <1>2 DEF Desks
  <2> QED  BY <2>1, FileStays
<1>3. /\ rpc' = [r \in Applicants |-> rpc'[r]] /\ form' = [r \in Applicants |-> form'[r]]
      /\ spc' = [x \in Staffers |-> spc'[x]] /\ file' = [x \in Staffers |-> file'[x]]
  BY DEF Desks
<1> QED  BY <1>1, <1>2, <1>3 DEF Desks

LEMMA NoDesk ==
    ASSUME Desks, Lasting, UNCHANGED <<rpc, form, spc, file>>
    PROVE  Desks'
<1>1. ASSUME NEW r \in Applicants PROVE FormOK(r)'
  <2>1. FormOK(r) /\ form[r].invite \in Invites \cup {NoInvite}
    BY DEF Desks, FormOK, Form
  <2> QED  BY <2>1, FormStays
<1>2. ASSUME NEW x \in Staffers PROVE FileOK(x)'
  BY FileStays DEF Desks
<1> QED  BY <1>1, <1>2 DEF Desks

\* A step of an applicant keeps all of it in order.
LEMMA ApplicantStep ==
    ASSUME TablesOK, Desks, NEW r \in Applicants, ApplicantNext(r)
    PROVE  TablesOK' /\ Lasting /\ Desks'
<1>0. /\ FormOK(r) /\ form[r] \in Form /\ form[r].invite \in Invites \cup {NoInvite}
      /\ rpc[r] \in {"idle", "read", "counted", "naming", "created"}
      /\ form[r].account \in Accounts \cup {NoAccount}
      /\ rpc = [q \in Applicants |-> rpc[q]] /\ form = [q \in Applicants |-> form[q]]
  BY DEF Desks, FormOK, Form
<1>1. ASSUME NEW place, rpc' = [rpc EXCEPT ![r] = place] PROVE rpc'[r] = place
  BY <1>0, <1>1
<1>2. ASSUME NEW g, form' = [form EXCEPT ![r] = g] PROVE form'[r] = g
  BY <1>0, <1>2
<1>3. ASSUME UNCHANGED <<people, invites>> PROVE Lasting
  BY <1>3 DEF Lasting, Exists
<1>4. Blank \in Form /\ Blank.invite = NoInvite
  BY BlankType DEF Blank
<1>5. ASSUME rpc' = [rpc EXCEPT ![r] = "idle"], form' = [form EXCEPT ![r] = Blank],
             Lasting, UNCHANGED <<spc, file>>
      PROVE  Desks'
  <2>1. rpc'[r] = "idle" /\ form'[r] = Blank
    BY <1>1, <1>2, <1>5
  <2>2. FormOK(r)'
    BY <1>4, <2>1, MembershipAssumption DEF FormOK
  <2> QED  BY <1>5, <2>2, OneForm
<1>6. CASE \E i \in Invites : ReadInvite(r, i)
  <2> PICK i \in Invites : ReadInvite(r, i)
    BY <1>6
  <2> DEFINE g == [form[r] EXCEPT !.invite = i]
  <2>1. g \in Form /\ g.invite = i
    BY <1>0, FormTypes
  <2>2. /\ form' = [form EXCEPT ![r] = g] /\ rpc' = [rpc EXCEPT ![r] = "read"]
        /\ UNCHANGED <<people, invites, spc, file, via, crossed, late, cuts>>
        /\ invites[i].status = "pending" /\ shared' \subseteq shared \cup {i}
    BY <1>0 DEF ReadInvite
  <2> HIDE DEF g
  <2>3. FormOK(r)'
    BY <1>1, <1>2, <2>1, <2>2 DEF FormOK
  <2>4. Lasting
    BY <1>3, <2>2
  <2>5. Desks'
    BY <2>2, <2>3, <2>4, OneForm
  <2> QED  BY <2>2, <2>4, <2>5 DEF TablesOK
<1>7. CASE WalkIn(r)
  <2>1. /\ rpc' = [rpc EXCEPT ![r] = "read"] /\ form' = [form EXCEPT ![r] = form[r]]
        /\ UNCHANGED <<people, invites, spc, file, via, shared, crossed, late, cuts>>
    BY <1>0, <1>7 DEF WalkIn
  <2>2. FormOK(r)'
    BY <1>0, <1>1, <1>2, <2>1 DEF FormOK
  <2>3. Lasting
    BY <1>3, <2>1
  <2>4. Desks'
    BY <2>1, <2>2, <2>3, OneForm
  <2> QED  BY <2>1, <2>3, <2>4 DEF TablesOK
<1>8. CASE CountBefore(r)
  <2> DEFINE b == \A a \in Accounts : ~Exists(a)
             g == [form[r] EXCEPT !.first = b]
  <2>1. g \in Form /\ g.invite = form[r].invite
    <3>1. b \in BOOLEAN
      OBVIOUS
    <3> HIDE DEF b
    <3> QED  BY <1>0, <3>1, FormTypes
  <2>2. /\ form' = [form EXCEPT ![r] = g] /\ rpc' = [rpc EXCEPT ![r] = "counted"]
        /\ UNCHANGED <<people, invites, spc, file, via, shared, crossed, late, cuts>>
    BY <1>0, <1>8 DEF CountBefore
  <2> HIDE DEF g
  <2>3. FormOK(r)'
    BY <1>0, <1>1, <1>2, <2>1, <2>2 DEF FormOK
  <2>4. Lasting
    BY <1>3, <2>2
  <2>5. Desks'
    BY <2>2, <2>3, <2>4, OneForm
  <2> QED  BY <2>2, <2>4, <2>5 DEF TablesOK
<1>9. CASE CountAgain(r)
  <2> DEFINE b == \A a \in Accounts : ~Exists(a)
             g == [form[r] EXCEPT !.owner = b]
  <2>1. g \in Form /\ g.invite = form[r].invite
    <3>1. b \in BOOLEAN
      OBVIOUS
    <3> HIDE DEF b
    <3> QED  BY <1>0, <3>1, FormTypes
  <2>2. /\ form' = [form EXCEPT ![r] = g] /\ rpc' = [rpc EXCEPT ![r] = "naming"]
        /\ UNCHANGED <<people, invites, spc, file, via, shared, crossed, late, cuts>>
    BY <1>0, <1>9 DEF CountAgain
  <2> HIDE DEF g
  <2>3. FormOK(r)'
    BY <1>0, <1>1, <1>2, <2>1, <2>2 DEF FormOK
  <2>4. Lasting
    BY <1>3, <2>2
  <2>5. Desks'
    BY <2>2, <2>3, <2>4, OneForm
  <2> QED  BY <2>2, <2>4, <2>5 DEF TablesOK
<1>10. CASE \E a \in Accounts, waits \in BOOLEAN : CreateUser(r, a, waits)
  <2> PICK a \in Accounts, waits \in BOOLEAN : CreateUser(r, a, waits)
    BY <1>10
  <2> DEFINE new == [status |-> IF waits THEN "pending" ELSE "active",
                     role   |-> IF form[r].owner THEN "owner" ELSE "member",
                     banned |-> FALSE]
  <2>1. new \in Person
    BY DEF Person, Roles
  <2>2. /\ people' = [people EXCEPT ![a] = new] /\ ~Exists(a)
        /\ via' = [via EXCEPT ![a] = form[r].invite]
        /\ UNCHANGED <<invites, spc, file, shared, crossed, late, cuts>>
    BY DEF CreateUser
  <2>3. new.status # "none"
    OBVIOUS
  <2> HIDE DEF new
  <2>4. TablesOK'
    BY <1>0, <2>1, <2>2 DEF TablesOK
  <2>5. Lasting
    BY <2>2 DEF Lasting, Exists, TablesOK
  <2>6. CASE form[r].invite = NoInvite
    BY <1>5, <2>2, <2>4, <2>5, <2>6 DEF CreateUser
  <2>7. CASE form[r].invite # NoInvite
    <3> DEFINE g == [form[r] EXCEPT !.account = a]
    <3>1. g \in Form /\ g.invite = form[r].invite /\ g.account = a
      BY <1>0, FormTypes
    <3>2. form' = [form EXCEPT ![r] = g] /\ rpc' = [rpc EXCEPT ![r] = "created"]
      BY <1>0, <2>7 DEF CreateUser
    <3> HIDE DEF g
    <3>3. FormOK(r)'
      BY <1>0, <1>1, <1>2, <2>2, <2>7, <3>1, <3>2 DEF FormOK
    <3> QED  BY <2>2, <2>4, <2>5, <3>2, <3>3, OneForm
  <2> QED  BY <2>6, <2>7
<1>11. CASE RegistrationStops(r)
  <2>1. /\ rpc' = [rpc EXCEPT ![r] = "idle"] /\ form' = [form EXCEPT ![r] = Blank]
        /\ UNCHANGED <<people, invites, spc, file, via, crossed, late>>
        /\ cuts < MaxCuts /\ cuts' = cuts + 1
    BY <1>11 DEF RegistrationStops
  <2>2. shared' \subseteq Invites
    BY <1>0, <1>11 DEF RegistrationStops, TablesOK, FormOK
  <2>3. cuts' \in 0..MaxCuts
    BY <2>1, MembershipAssumption DEF TablesOK
  <2>4. Lasting
    BY <1>3, <2>1
  <2> QED  BY <1>5, <2>1, <2>2, <2>3, <2>4 DEF TablesOK
<1>12. CASE AcceptInvite(r)
  <2> DEFINE i == form[r].invite
             b == form[r].account
  <2>1. /\ rpc' = [rpc EXCEPT ![r] = "idle"] /\ form' = [form EXCEPT ![r] = Blank]
        /\ UNCHANGED <<people, spc, file, via, shared, crossed, late, cuts>>
    BY <1>12 DEF AcceptInvite
  <2>2. i \in Invites /\ invites[i] \in Invite /\ b \in Accounts
    BY <1>0, <1>12 DEF AcceptInvite, FormOK, TablesOK
  <2>3. invites' = invites \/ invites' = [invites EXCEPT ![i] = Taken(invites[i], b)]
    BY <2>2, <1>12 DEF AcceptInvite, TablesOK, Taken
  <2> HIDE DEF i, b
  <2>4. Taken(invites[i], b) \in Invite /\ Taken(invites[i], b).status = "accepted"
    BY <2>2, TakenType
  <2>5. invites' \in [Invites -> Invite] /\ Lasting
    BY <2>1, <2>2, <2>3, <2>4 DEF TablesOK, Lasting, Exists
  <2> QED  BY <1>5, <2>1, <2>5 DEF TablesOK
<1> QED  BY <1>6, <1>7, <1>8, <1>9, <1>10, <1>11, <1>12 DEF ApplicantNext

\* A step of staff, or of time.
LEMMA StaffStep ==
    ASSUME TablesOK, Desks, NEW s \in Staffers, StafferNext(s)
    PROVE  TablesOK' /\ Lasting /\ Desks'
<1>0. /\ FileOK(s) /\ file[s] \in File /\ spc[s] \in {"idle", "count", "write"}
      /\ spc = [x \in Staffers |-> spc[x]] /\ file = [x \in Staffers |-> file[x]]
      /\ MembersTypeOK /\ Holds
  BY PartsAreAll DEF Desks, FileOK
<1>1. ASSUME NEW place, spc' = [spc EXCEPT ![s] = place] PROVE spc'[s] = place
  BY <1>0, <1>1
<1>2. ASSUME NEW g, file' = [file EXCEPT ![s] = g] PROVE file'[s] = g
  BY <1>0, <1>2
<1>3. ASSUME UNCHANGED <<people, invites>> PROVE Lasting
  BY <1>3 DEF Lasting, Exists
<1>4. ASSUME Close(s), Lasting, UNCHANGED <<rpc, form>> PROVE Desks'
  <2>1. spc'[s] = "idle" /\ file'[s] = NoFile
    BY <1>0, <1>4 DEF Close
  <2>2. FileOK(s)'
    BY <2>1, BlankType DEF FileOK
  <2> QED  BY <1>4, <2>2, OneFile DEF Close
<1>5. ASSUME NEW place \in {"count", "write"}, NEW t \in Accounts, NEW role \in Roles,
             NEW op \in {"invite", "role", "ban", "unban", "approve", "deny"},
             Open(s, place, op, t, role)
      PROVE  TablesOK' /\ Lasting /\ Desks'
  <2> DEFINE g == Opened(op, t, role)
  <2>1. /\ spc' = [spc EXCEPT ![s] = place] /\ file' = [file EXCEPT ![s] = g] /\ Exists(t)
        /\ UNCHANGED <<people, invites, rpc, form, via, shared, crossed, late, cuts>>
    BY <1>5 DEF Open, Opened
  <2>2. g \in File /\ g.op = op /\ g.target = t
    BY DEF Opened, NoFile, File
  <2> HIDE DEF g
  <2>3. Lasting
    BY <1>3, <2>1
  <2>4. FileOK(s)'
    BY <1>1, <1>2, <2>1, <2>2, <2>3 DEF FileOK, Lasting
  <2> QED  BY <2>1, <2>3, <2>4, OneFile DEF TablesOK
<1>6. CASE \E a, t \in Accounts, role \in Given : CheckRole(s, a, t, role)
  <2> PICK a \in Accounts, t \in Accounts, role \in Given : CheckRole(s, a, t, role)
    BY <1>6
  <2>1. PICK place \in {"count", "write"} : Open(s, place, "role", t, role)
    BY DEF CheckRole
  <2> QED  BY <1>5, <2>1, MembershipAssumption
<1>7. CASE \E a, t \in Accounts : CheckBan(s, a, t)
  <2> PICK a \in Accounts, t \in Accounts : CheckBan(s, a, t)
    BY <1>7
  <2>1. PICK op \in {"ban", "unban"} : Open(s, "write", op, t, "member")
    BY DEF CheckBan
  <2> QED  BY <1>5, <2>1 DEF Roles
<1>8. CASE \E a, t \in Accounts, decision \in {"approve", "deny"} : CheckReview(s, a, t, decision)
  <2> PICK a \in Accounts, t \in Accounts, decision \in {"approve", "deny"} :
             CheckReview(s, a, t, decision)
    BY <1>8
  <2>1. Open(s, "write", decision, t, "member")
    BY DEF CheckReview
  <2> QED  BY <1>5, <2>1 DEF Roles
<1>9. CASE \E a \in Accounts : CheckInviter(s, a)
  <2> PICK a \in Accounts : CheckInviter(s, a)
    BY <1>9
  <2>1. Open(s, "write", "invite", a, "member")
    BY DEF CheckInviter
  <2> QED  BY <1>5, <2>1 DEF Roles
<1>10. CASE CountOwners(s)
  <2>1. UNCHANGED <<people, invites, rpc, form, via, shared, crossed, late, cuts>>
    BY <1>10 DEF CountOwners
  <2>2. Lasting
    BY <1>3, <2>1
  <2>3. CASE Close(s)
    BY <1>4, <2>1, <2>2, <2>3 DEF TablesOK
  <2>4. CASE spc' = [spc EXCEPT ![s] = "write"] /\ UNCHANGED file
    <3>1. file' = [file EXCEPT ![s] = file[s]] /\ file'[s] = file[s] /\ spc'[s] = "write"
      BY <1>0, <2>4
    <3>2. spc[s] = "count"
      BY <1>10 DEF CountOwners
    <3>3. FileOK(s)'
      BY <1>0, <2>2, <3>1, <3>2 DEF FileOK, Lasting
    <3>4. Desks'
      BY <2>1, <2>2, <2>4, <3>1, <3>3, OneFile
    <3> QED  BY <2>1, <2>2, <3>4 DEF TablesOK
  <2> QED  BY <1>10, <2>3, <2>4 DEF CountOwners
<1>11. CASE WriteDecision(s)
  <2> DEFINE t == file[s].target
             p == Decided(people[t], file[s])
  <2>1. /\ people' = [people EXCEPT ![t] = p] /\ Written(s)
        /\ UNCHANGED <<rpc, form, via, shared, late, cuts>>
        /\ spc[s] = "write" /\ file[s].op \notin {"invite", "revoke"}
    BY <1>11 DEF WriteDecision
  <2>2. t \in Accounts /\ Exists(t) /\ file[s].op \in {"role", "ban", "unban", "approve", "deny"}
    BY <1>0, <2>1 DEF FileOK, File
  <2>3. p \in Person /\ p.status # "none"
    <3>1. people[t] \in Person /\ people[t].status # "none"
      BY <2>2 DEF TablesOK, Exists
    <3> HIDE DEF t
    <3> QED  BY <1>0, <2>2, <3>1, DecidedType
  <2>4. invites' \in [Invites -> Invite]
        /\ \A i \in Invites : invites[i].status # "none" => invites'[i].status # "none"
    <3>1. \A i \in Invites : invites'[i] \in {invites[i], Labelled(invites[i], "revoked")}
      BY <1>11 DEF WriteDecision, Labelled
    <3>2. ASSUME NEW i \in Invites
          PROVE  invites'[i] \in Invite /\ (invites[i].status # "none" => invites'[i].status # "none")
      BY <3>1, LabelledType DEF TablesOK
    <3>3. invites' = [i \in Invites |-> invites'[i]]
      BY <1>11 DEF WriteDecision
    <3> QED  BY <3>2, <3>3
  <2> HIDE DEF t, p
  <2>5. Lasting
    BY <2>1, <2>2, <2>3, <2>4 DEF Lasting, Exists, TablesOK
  <2>6. TablesOK'
    BY <1>0, <2>1, <2>2, <2>3, <2>4, WrittenFiles DEF TablesOK
  <2>7. ASSUME NEW r \in Applicants PROVE FormOK(r)'
    <3>1. FormOK(r) /\ form[r].invite \in Invites \cup {NoInvite}
      BY DEF Desks, FormOK, Form
    <3> QED  BY <2>1, <2>5, <3>1, FormStays
  <2>8. ASSUME NEW x \in Staffers PROVE FileOK(x)'
    <3>1. CASE x = s
      BY <1>0, <2>1, <3>1, WrittenFiles, BlankType DEF FileOK
    <3>2. CASE x # s
      <4>1. FileOK(x) /\ file'[x] \in File
        BY <1>0, <2>1, WrittenFiles DEF Desks
      <4>2. /\ spc'[x] = spc[x] /\ (file[x] = NoFile => file'[x] = NoFile)
            /\ file'[x].op = file[x].op /\ file'[x].target = file[x].target
            /\ file'[x].invite = file[x].invite
        BY <1>0, <2>1, <3>2, WrittenFiles
      <4> QED  BY <2>5, <4>1, <4>2 DEF FileOK, Lasting
    <3> QED  BY <3>1, <3>2
  <2>9. /\ rpc' = [r \in Applicants |-> rpc'[r]] /\ form' = [r \in Applicants |-> form'[r]]
        /\ spc' = [x \in Staffers |-> spc'[x]] /\ file' = [x \in Staffers |-> file'[x]]
    BY <1>0, <2>1, WrittenFiles DEF Desks
  <2> QED  BY <2>5, <2>6, <2>7, <2>8, <2>9 DEF Desks
<1>12. CASE \E i \in Invites : SendInvite(s, i)
  <2> PICK i \in Invites : SendInvite(s, i)
    BY <1>12
  <2> DEFINE a == file[s].target
  <2>1. /\ invites' = [invites EXCEPT ![i] = Sent(invites[i], a)] /\ Close(s)
        /\ late' \subseteq late \cup {i}
        /\ UNCHANGED <<people, rpc, form, via, shared, crossed, cuts>>
    BY DEF SendInvite, TablesOK, Sent
  <2>2. a \in Accounts /\ invites[i] \in Invite
    BY <1>0 DEF SendInvite, FileOK, TablesOK
  <2> HIDE DEF a
  <2>3. Sent(invites[i], a) \in Invite /\ Sent(invites[i], a).status = "pending"
    BY <2>2, SentType
  <2>4. Lasting
    BY <2>1, <2>3 DEF Lasting, Exists, TablesOK
  <2> QED  BY <1>4, <2>1, <2>3, <2>4 DEF TablesOK
<1>13. CASE \E i \in Invites, a \in Accounts : CheckRevoke(s, a, i)
  <2> PICK i \in Invites, a \in Accounts : CheckRevoke(s, a, i)
    BY <1>13
  <2> DEFINE g == [NoFile EXCEPT !.op = "revoke", !.invite = i]
  <2>1. /\ spc' = [spc EXCEPT ![s] = "write"] /\ file' = [file EXCEPT ![s] = g]
        /\ UNCHANGED <<people, invites, rpc, form, via, shared, crossed, late, cuts>>
        /\ invites[i].status = "pending"
    BY DEF CheckRevoke
  <2>2. g \in File /\ g.op = "revoke" /\ g.invite = i
    BY RevokedType
  <2> HIDE DEF g
  <2>3. Lasting
    BY <1>3, <2>1
  <2>4. FileOK(s)'
    BY <1>1, <1>2, <2>1, <2>2 DEF FileOK
  <2> QED  BY <2>1, <2>3, <2>4, OneFile DEF TablesOK
<1>14. CASE RevokeInvite(s)
  <2> DEFINE i == file[s].invite
             x == Labelled(invites[i], "revoked")
  <2>1. /\ Close(s) /\ UNCHANGED <<people, rpc, form, via, shared, crossed, late, cuts>>
        /\ invites' \in {invites, [invites EXCEPT ![i] = x]}
    BY <1>14 DEF RevokeInvite, Labelled, TablesOK
  <2>2. i \in Invites /\ invites[i] \in Invite
    BY <1>0, <1>14 DEF RevokeInvite, FileOK, TablesOK
  <2>3. x \in Invite /\ x.status = "revoked"
    <3> HIDE DEF i
    <3> QED  BY <2>2, LabelledType
  <2> HIDE DEF i, x
  <2>4. invites' \in [Invites -> Invite] /\ Lasting
    BY <2>1, <2>2, <2>3 DEF TablesOK, Lasting, Exists
  <2> QED  BY <1>4, <2>1, <2>4 DEF TablesOK
<1> QED  BY <1>6, <1>7, <1>8, <1>9, <1>10, <1>11, <1>12, <1>13, <1>14 DEF StafferNext

LEMMA MembersStep ==
    ASSUME TablesOK, Desks, [MembersNext]_memberVars
    PROVE  TablesOK' /\ Lasting /\ Desks'
<1>1. CASE \E r \in Applicants : ApplicantNext(r)
  BY <1>1, ApplicantStep
<1>2. CASE \E s \in Staffers : StafferNext(s)
  BY <1>2, StaffStep
<1>3. ASSUME NEW i \in Invites, NEW st \in {"expired", "deleted"},
             invites' = [invites EXCEPT ![i].status = st],
             UNCHANGED <<people, rpc, form, spc, file, via, shared, crossed, late, cuts>>
      PROVE  TablesOK' /\ Lasting /\ Desks'
  <2> DEFINE x == Labelled(invites[i], st)
  <2>1. invites' = [invites EXCEPT ![i] = x]
    BY <1>3 DEF TablesOK, Labelled
  <2>x. x \in Invite /\ x.status = st
    BY LabelledType DEF TablesOK
  <2> HIDE DEF x
  <2>2. TablesOK' /\ Lasting
    BY <1>3, <2>1, <2>x DEF TablesOK, Lasting, Exists
  <2> QED  BY <1>3, <2>2, NoDesk
<1>4. CASE \E i \in Invites : InviteExpires(i) \/ \E a \in Accounts : DeleteInvite(a, i)
  BY <1>3, <1>4 DEF InviteExpires, DeleteInvite
<1>5. CASE UNCHANGED memberVars
  <2>1. Lasting
    BY <1>5 DEF Lasting, Exists, memberVars
  <2> QED  BY <1>5, <2>1, NoDesk DEF memberVars, TablesOK
<1> QED  BY <1>1, <1>2, <1>4, <1>5 DEF MembersNext

LEMMA MembersInvariant == MembersSpec => [](TablesOK /\ Desks)
<1>1. MembersInit => TablesOK /\ Desks
  <2> SUFFICES ASSUME MembersInit PROVE TablesOK /\ Desks
    OBVIOUS
  <2> DEFINE none == [status |-> "none", by |-> NoAccount, taker |-> NoAccount]
  <2>1. none \in Invite
    BY DEF Invite
  <2> HIDE DEF none
  <2>2. invites \in [Invites -> Invite]
    BY <2>1 DEF MembersInit, none
  <2>3. TablesOK
    <3>1. people \in [Accounts -> Person] /\ via \in [Accounts -> Invites \cup {NoInvite}]
      BY BlankType DEF MembersInit
    <3>2. cuts \in 0..MaxCuts
      BY MembershipAssumption DEF MembersInit
    <3>3. shared \subseteq Invites /\ late \subseteq Invites /\ crossed \in BOOLEAN
      BY DEF MembersInit
    <3> QED  BY <2>2, <3>1, <3>2, <3>3 DEF TablesOK
  <2>4. Blank.invite = NoInvite
    BY DEF Blank
  <2>5. Desks
    BY <2>4, BlankType DEF MembersInit, Desks, FormOK, FileOK
  <2> QED  BY <2>3, <2>5
<1>2. TablesOK /\ Desks /\ [MembersNext]_memberVars => (TablesOK /\ Desks)'
  BY MembersStep
<1> QED  BY <1>1, <1>2, PTL DEF MembersSpec

\* Accounts, invitations and the requests in progress stay of their type.
THEOREM MembersTypeCorrect == MembersSpec => []MembersTypeOK
<1>1. TablesOK /\ Desks => MembersTypeOK
  BY PartsAreAll
<1> QED  BY <1>1, MembersInvariant, PTL

-----------------------------------------------------------------------------
(* Somebody governs.                                                       *)

Governed == (\E a \in Accounts : Exists(a)) => \E a \in Accounts : ActiveOwner(a)
\* While nobody exists, whoever registers knows it.
FirstKnown(r) ==
    (\A a \in Accounts : ~Exists(a)) =>
        /\ rpc[r] \in {"counted", "naming"} => form[r].first
        /\ rpc[r] = "naming" => form[r].owner
\* A decision whose check is not older than another write takes nothing from
\* the only owner.
Safe(s) ==
    LET t == file[s].target IN
    spc[s] # "idle" /\ ~file[s].stale /\ file[s].op \in {"role", "ban", "deny"}
        => ~ActiveOwner(t) \/ \E a \in Accounts : a # t /\ ActiveOwner(a)
GovernInv ==
    crossed \/ /\ Governed
               /\ \A r \in Applicants : FirstKnown(r)
               /\ \A s \in Staffers : Safe(s)

LEMMA OwnersAreHighest ==
    \A p, q \in Roles : Level(p) > Level(q) => q # "owner"
BY DEF Level, Roles

LEMMA ManagedIsNoOwner ==
    ASSUME TablesOK, NEW a \in Accounts, NEW t \in Accounts, NEW roles, MayManage(a, t, roles)
    PROVE  ~ActiveOwner(t)
<1>1. people[a].role \in Roles /\ people[t].role \in Roles
  BY DEF TablesOK, Person
<1>2. Level(people[a].role) > Level(people[t].role)
  BY DEF MayManage
<1>3. people[t].role # "owner"
  BY <1>1, <1>2, OwnersAreHighest
<1> QED  BY <1>3 DEF ActiveOwner, Able

LEMMA AssignedIsSafe ==
    ASSUME TablesOK, NEW a \in Accounts, NEW t \in Accounts, NEW role, MayAssign(a, t, role)
    PROVE  ~ActiveOwner(t) \/ \E b \in Accounts : b # t /\ ActiveOwner(b)
<1>1. CASE people[a].role = "owner"
  <2>1. ActiveOwner(a) /\ a # t
    BY <1>1 DEF MayAssign, ActiveOwner, Able
  <2> QED  BY <2>1
<1>2. CASE people[a].role # "owner"
  <2>1. MayManage(a, t, CanAssign)
    BY <1>2 DEF MayAssign
  <2> QED  BY <2>1, ManagedIsNoOwner
<1> QED  BY <1>1, <1>2

\* Steps that leave accounts alone.
LEMMA SameGovernors ==
    ASSUME GovernInv, UNCHANGED <<people, crossed>>,
           \A r \in Applicants : FirstKnown(r) => FirstKnown(r)',
           crossed \/ \A s \in Staffers : Safe(s) => Safe(s)'
    PROVE  GovernInv'
<1>1. CASE crossed
  BY <1>1 DEF GovernInv
<1>2. CASE ~crossed
  <2>1. Governed'
    BY <1>2 DEF GovernInv, Governed, Exists, ActiveOwner, Able
  <2> QED  BY <1>2, <2>1 DEF GovernInv
<1> QED  BY <1>1, <1>2

LEMMA ApplicantGoverns ==
    ASSUME TablesOK, Desks, GovernInv, NEW r \in Applicants, ApplicantNext(r)
    PROVE  GovernInv'
<1>0. /\ rpc = [q \in Applicants |-> rpc[q]] /\ form = [q \in Applicants |-> form[q]]
      /\ form[r] \in Form
  BY DEF Desks, FormOK
<1>1. ASSUME UNCHANGED <<people, crossed, spc, file>>, FirstKnown(r) => FirstKnown(r)',
             \A q \in Applicants : q # r => rpc'[q] = rpc[q] /\ form'[q] = form[q]
      PROVE  GovernInv'
  <2>1. \A q \in Applicants : FirstKnown(q) => FirstKnown(q)'
    BY <1>1 DEF FirstKnown, Exists
  <2>2. \A s \in Staffers : Safe(s) => Safe(s)'
    BY <1>1 DEF Safe, ActiveOwner, Able
  <2> QED  BY <1>1, <2>1, <2>2, SameGovernors
<1>2. CASE (\E i \in Invites : ReadInvite(r, i)) \/ WalkIn(r)
  <2>1. /\ UNCHANGED <<people, crossed, spc, file>> /\ rpc' = [rpc EXCEPT ![r] = "read"]
        /\ \A q \in Applicants : q # r => rpc'[q] = rpc[q] /\ form'[q] = form[q]
    BY <1>0, <1>2 DEF ReadInvite, WalkIn
  <2>2. rpc'[r] = "read"
    BY <1>0, <2>1
  <2>3. FirstKnown(r)'
    BY <2>2 DEF FirstKnown
  <2> QED  BY <1>1, <2>1, <2>3
<1>3. CASE CountBefore(r)
  <2> DEFINE b == \A a \in Accounts : ~Exists(a)
  <2>1. /\ form' = [form EXCEPT ![r] = [form[r] EXCEPT !.first = b]]
        /\ UNCHANGED <<people, crossed, spc, file>> /\ rpc' = [rpc EXCEPT ![r] = "counted"]
    BY <1>0, <1>3 DEF CountBefore
  <2>2. form'[r].first = b /\ rpc'[r] = "counted"
    <3> HIDE DEF b
    <3>1. form'[r] = [form[r] EXCEPT !.first = b]
      BY <1>0, <2>1
    <3> QED  BY <1>0, <2>1, <3>1 DEF Form
  <2>3. FirstKnown(r)'
    BY <2>1, <2>2 DEF FirstKnown, Exists
  <2> HIDE DEF b
  <2>4. \A q \in Applicants : q # r => rpc'[q] = rpc[q] /\ form'[q] = form[q]
    BY <1>0, <2>1
  <2> QED  BY <1>1, <2>1, <2>3, <2>4
<1>4. CASE CountAgain(r)
  <2> DEFINE b == \A a \in Accounts : ~Exists(a)
  <2>1. /\ form' = [form EXCEPT ![r] = [form[r] EXCEPT !.owner = b]]
        /\ UNCHANGED <<people, crossed, spc, file>> /\ rpc' = [rpc EXCEPT ![r] = "naming"]
        /\ rpc[r] = "counted"
    BY <1>0, <1>4 DEF CountAgain
  <2>2. form'[r].owner = b /\ form'[r].first = form[r].first /\ rpc'[r] = "naming"
    <3> HIDE DEF b
    <3>1. form'[r] = [form[r] EXCEPT !.owner = b]
      BY <1>0, <2>1
    <3> QED  BY <1>0, <2>1, <3>1 DEF Form
  <2>3. FirstKnown(r) => FirstKnown(r)'
    BY <2>1, <2>2 DEF FirstKnown, Exists
  <2> HIDE DEF b
  <2>4. \A q \in Applicants : q # r => rpc'[q] = rpc[q] /\ form'[q] = form[q]
    BY <1>0, <2>1
  <2> QED  BY <1>1, <2>1, <2>3, <2>4
<1>5. CASE RegistrationStops(r) \/ AcceptInvite(r)
  <2>1. /\ UNCHANGED <<people, crossed, spc, file>> /\ rpc' = [rpc EXCEPT ![r] = "idle"]
        /\ \A q \in Applicants : q # r => rpc'[q] = rpc[q] /\ form'[q] = form[q]
    BY <1>0, <1>5 DEF RegistrationStops, AcceptInvite
  <2>2. rpc'[r] = "idle"
    BY <1>0, <2>1
  <2>3. FirstKnown(r)'
    BY <2>2 DEF FirstKnown
  <2> QED  BY <1>1, <2>1, <2>3
<1>6. CASE \E a \in Accounts, waits \in BOOLEAN : CreateUser(r, a, waits)
  <2> PICK a \in Accounts, waits \in BOOLEAN : CreateUser(r, a, waits)
    BY <1>6
  <2>1. /\ people' = [people EXCEPT ![a] =
             [status |-> IF waits THEN "pending" ELSE "active",
              role   |-> IF form[r].owner THEN "owner" ELSE "member",
              banned |-> FALSE]]
        /\ ~Exists(a) /\ (waits => ~form[r].first) /\ rpc[r] = "naming"
        /\ UNCHANGED <<spc, file, crossed>>
    BY DEF CreateUser
  <2>2. /\ people'[a].status = (IF waits THEN "pending" ELSE "active")
        /\ people'[a].role = (IF form[r].owner THEN "owner" ELSE "member")
        /\ ~people'[a].banned
        /\ \A b \in Accounts : b # a => people'[b] = people[b]
    BY <2>1 DEF TablesOK
  <2>3. Exists(a)'
    BY <2>2 DEF Exists
  <2>4. ~ActiveOwner(a) /\ \A b \in Accounts : ActiveOwner(b) => ActiveOwner(b)'
    BY <2>1, <2>2 DEF ActiveOwner, Able, Exists
  <2>5. CASE crossed
    BY <2>1, <2>5 DEF GovernInv
  <2>6. CASE ~crossed
    <3>1. Governed'
      <4>1. CASE \E b \in Accounts : Exists(b)
        BY <2>4, <2>6, <4>1 DEF GovernInv, Governed
      <4>2. CASE \A b \in Accounts : ~Exists(b)
        <5>1. form[r].first /\ form[r].owner
          BY <2>1, <2>6, <4>2 DEF GovernInv, FirstKnown
        <5>2. ActiveOwner(a)'
          BY <2>1, <2>2, <5>1 DEF ActiveOwner, Able
        <5> QED  BY <5>2 DEF Governed
      <4> QED  BY <4>1, <4>2
    <3>2. \A q \in Applicants : FirstKnown(q)'
      BY <2>3 DEF FirstKnown
    <3>3. ASSUME NEW s \in Staffers PROVE Safe(s)'
      <4> DEFINE t == file[s].target
      <4>1. CASE spc[s] = "idle" \/ file[s].op \notin {"role", "ban", "deny"} \/ file[s].stale
        BY <2>1, <4>1 DEF Safe
      <4>2. CASE spc[s] # "idle" /\ file[s].op \in {"role", "ban", "deny"} /\ ~file[s].stale
        <5>1. Safe(s) /\ t \in Accounts /\ Exists(t)
          BY <2>6, <4>2 DEF GovernInv, Desks, FileOK
        <5>2. people'[t] = people[t]
          BY <2>1, <2>2, <5>1
        <5>3. ActiveOwner(t)' => ActiveOwner(t)
          BY <2>1, <5>2 DEF ActiveOwner, Able
        <5>4. ~ActiveOwner(t) \/ \E b \in Accounts : b # t /\ ActiveOwner(b)
          BY <4>2, <5>1 DEF Safe
        <5>5. ~ActiveOwner(t)' \/ \E b \in Accounts : b # t /\ ActiveOwner(b)'
          BY <2>4, <5>3, <5>4
        <5>6. file'[s] = file[s]
          BY <2>1
        <5> QED  BY <2>1, <5>5, <5>6 DEF Safe, ActiveOwner, Able
      <4> QED  BY <4>1, <4>2
    <3> QED  BY <3>1, <3>2, <3>3 DEF GovernInv
  <2> QED  BY <2>5, <2>6
<1> QED  BY <1>2, <1>3, <1>4, <1>5, <1>6 DEF ApplicantNext

LEMMA StaffGoverns ==
    ASSUME TablesOK, Desks, GovernInv, NEW s \in Staffers, StafferNext(s)
    PROVE  GovernInv'
<1>0. /\ spc = [x \in Staffers |-> spc[x]] /\ file = [x \in Staffers |-> file[x]]
      /\ MembersTypeOK /\ Holds /\ FileOK(s)
  BY PartsAreAll DEF Desks
<1>1. ASSUME UNCHANGED <<people, crossed, rpc, form>>, crossed \/ (Safe(s) => Safe(s)'),
             \A x \in Staffers : x # s => spc'[x] = spc[x] /\ file'[x] = file[x]
      PROVE  GovernInv'
  <2>1. \A r \in Applicants : FirstKnown(r) => FirstKnown(r)'
    BY <1>1 DEF FirstKnown, Exists
  <2>2. ASSUME NEW x \in Staffers, x # s PROVE Safe(x) => Safe(x)'
    <3>1. spc'[x] = spc[x] /\ file'[x] = file[x]
      BY <1>1, <2>2
    <3> QED  BY <1>1, <3>1 DEF Safe, ActiveOwner, Able
  <2> QED  BY <1>1, <2>1, <2>2, SameGovernors
<1>2. ASSUME UNCHANGED <<people, crossed, rpc, form>>, Close(s) PROVE GovernInv'
  <2>1. spc'[s] = "idle" /\ \A x \in Staffers : x # s => spc'[x] = spc[x] /\ file'[x] = file[x]
    BY <1>0, <1>2 DEF Close
  <2>2. Safe(s)'
    BY <2>1 DEF Safe
  <2> QED  BY <1>1, <1>2, <2>1, <2>2
<1>3. ASSUME NEW place, NEW t \in Accounts, NEW role, NEW op,
             Open(s, place, op, t, role),
             op \in {"role", "ban", "deny"} =>
                ~ActiveOwner(t) \/ \E a \in Accounts : a # t /\ ActiveOwner(a)
      PROVE  GovernInv'
  <2>1. /\ file' = [file EXCEPT ![s] = Opened(op, t, role)] /\ spc' = [spc EXCEPT ![s] = place]
        /\ UNCHANGED <<people, rpc, form, crossed>>
    BY <1>3 DEF Open, Opened
  <2>2. Opened(op, t, role).op = op /\ Opened(op, t, role).target = t
    BY DEF Opened, NoFile
  <2>3. file'[s].op = op /\ file'[s].target = t
    BY <1>0, <2>1, <2>2
  <2>4. op \in {"role", "ban", "deny"} =>
           ~ActiveOwner(t)' \/ \E a \in Accounts : a # t /\ ActiveOwner(a)'
    BY <1>3, <2>1 DEF ActiveOwner, Able
  <2>5. Safe(s)'
    BY <2>3, <2>4 DEF Safe
  <2>6. \A x \in Staffers : x # s => spc'[x] = spc[x] /\ file'[x] = file[x]
    BY <1>0, <2>1
  <2> QED  BY <1>1, <2>1, <2>5, <2>6
<1>4. CASE \E a, t \in Accounts, role \in Given : CheckRole(s, a, t, role)
  <2> PICK a \in Accounts, t \in Accounts, role \in Given : CheckRole(s, a, t, role)
    BY <1>4
  <2>1. PICK place : Open(s, place, "role", t, role)
    BY DEF CheckRole
  <2>2. MayAssign(a, t, role)
    BY DEF CheckRole
  <2> QED  BY <1>3, <2>1, <2>2, AssignedIsSafe
<1>5. CASE \E a, t \in Accounts : CheckBan(s, a, t)
  <2> PICK a \in Accounts, t \in Accounts : CheckBan(s, a, t)
    BY <1>5
  <2>1. PICK op : Open(s, "write", op, t, "member")
    BY DEF CheckBan
  <2>2. MayManage(a, t, CanModerate)
    BY DEF CheckBan
  <2> QED  BY <1>3, <2>1, <2>2, ManagedIsNoOwner
<1>6. CASE \E a, t \in Accounts, decision \in {"approve", "deny"} : CheckReview(s, a, t, decision)
  <2> PICK a \in Accounts, t \in Accounts, decision \in {"approve", "deny"} :
             CheckReview(s, a, t, decision)
    BY <1>6
  <2>1. Open(s, "write", decision, t, "member") /\ MayManage(a, t, CanModerate)
    BY DEF CheckReview
  <2> QED  BY <1>3, <2>1, ManagedIsNoOwner
<1>7. CASE \E a \in Accounts : CheckInviter(s, a)
  <2> PICK a \in Accounts : CheckInviter(s, a)
    BY <1>7
  <2>1. Open(s, "write", "invite", a, "member")
    BY DEF CheckInviter
  <2> QED  BY <1>3, <2>1
<1>8. CASE CountOwners(s)
  <2>1. CASE Close(s)
    BY <1>2, <1>8, <2>1 DEF CountOwners
  <2>2. CASE spc' = [spc EXCEPT ![s] = "write"] /\ UNCHANGED file
    <3>1. spc[s] # "idle" /\ UNCHANGED <<people, crossed, rpc, form>>
      BY <1>8 DEF CountOwners
    <3>2. Safe(s) => Safe(s)'
      BY <2>2, <3>1 DEF Safe, ActiveOwner, Able
    <3>3. \A x \in Staffers : x # s => spc'[x] = spc[x] /\ file'[x] = file[x]
      BY <1>0, <2>2
    <3> QED  BY <1>1, <3>1, <3>2, <3>3
  <2> QED  BY <1>8, <2>1, <2>2 DEF CountOwners
<1>9. CASE WriteDecision(s)
  <2>0. PICK t : t = file[s].target
    OBVIOUS
  <2> DEFINE p == Decided(people[t], file[s])
  <2>1. /\ people' = [people EXCEPT ![t] = p] /\ Written(s)
        /\ UNCHANGED <<rpc, form>>
        /\ spc[s] = "write" /\ file[s].op \notin {"invite", "revoke"}
    BY <1>9, <2>0 DEF WriteDecision
  <2>2. /\ t \in Accounts /\ Exists(t) /\ people[t] \in Person /\ file[s] \in File
        /\ file[s].op \in {"role", "ban", "unban", "approve", "deny"}
    BY <1>0, <2>0, <2>1 DEF FileOK, File, TablesOK
  <2>3. /\ p.status # "none"
        /\ file[s].op = "unban" => p.status = people[t].status /\ p.role = people[t].role /\ ~p.banned
        /\ file[s].op = "approve" => /\ p.role = people[t].role /\ p.banned = people[t].banned
                                     /\ p.status = "active"
    <3>1. people[t].status # "none"
      BY <2>2 DEF Exists
    <3> QED  BY <2>2, <3>1, DecidedType
  <2>4. crossed' = (crossed \/ file[s].stale) /\ crossed' \in BOOLEAN
    BY <1>0, <2>1, WrittenFiles
  <2>5. CASE crossed'
    BY <2>5 DEF GovernInv
  <2>6. CASE ~crossed'
    <3> HIDE DEF p
    <3>0. ~crossed /\ ~file[s].stale /\ Governed /\ Safe(s)
      BY <2>4, <2>6 DEF GovernInv
    <3>1. people'[t] = p /\ \A b \in Accounts : b # t => people'[b] = people[b]
      BY <2>1, <2>2 DEF TablesOK
    <3>2. PICK a \in Accounts : ActiveOwner(a)
      BY <2>2, <3>0 DEF Governed
    <3>3. \A b \in Accounts : b # t /\ ActiveOwner(b) => ActiveOwner(b)'
      BY <3>1 DEF ActiveOwner, Able
    <3>4. Governed'
      <4>1. \E b \in Accounts : ActiveOwner(b)'
        <5>1. CASE file[s].op \in {"unban", "approve"}
          <6>1. ActiveOwner(t) => ActiveOwner(t)'
            BY <2>3, <3>1, <5>1 DEF ActiveOwner, Able
          <6> QED  BY <3>2, <3>3, <6>1
        <5>2. CASE file[s].op \in {"role", "ban", "deny"}
          <6>1. ~ActiveOwner(t) \/ \E b \in Accounts : b # t /\ ActiveOwner(b)
            BY <2>0, <2>1, <3>0, <5>2 DEF Safe
          <6> QED  BY <3>2, <3>3, <6>1
        <5> QED  BY <2>2, <5>1, <5>2
      <4> QED  BY <4>1 DEF Governed
    <3>5. \A r \in Applicants : FirstKnown(r)'
      <4>1. Exists(t)'
        BY <2>3, <3>1 DEF Exists
      <4> QED  BY <2>2, <4>1 DEF FirstKnown
    <3>6. ASSUME NEW x \in Staffers PROVE Safe(x)'
      <4>1. CASE x = s
        BY <1>0, <2>1, <4>1, WrittenFiles DEF Safe
      <4>2. CASE x # s
        BY <1>0, <2>1, <4>2, WrittenFiles DEF Safe
      <4> QED  BY <4>1, <4>2
    <3> QED  BY <3>4, <3>5, <3>6 DEF GovernInv
  <2> QED  BY <2>4, <2>5, <2>6
<1>10. CASE \E i \in Invites : SendInvite(s, i)
  BY <1>2, <1>10 DEF SendInvite
<1>11. CASE \E i \in Invites, a \in Accounts : CheckRevoke(s, a, i)
  <2> PICK i \in Invites, a \in Accounts : CheckRevoke(s, a, i)
    BY <1>11
  <2> DEFINE g == [NoFile EXCEPT !.op = "revoke", !.invite = i]
  <2>1. /\ file' = [file EXCEPT ![s] = g] /\ spc' = [spc EXCEPT ![s] = "write"]
        /\ UNCHANGED <<people, rpc, form, crossed>>
    BY DEF CheckRevoke
  <2>2. g.op = "revoke"
    BY RevokedType
  <2> HIDE DEF g
  <2>3. file'[s].op = "revoke"
    BY <1>0, <2>1, <2>2
  <2>4. Safe(s)'
    BY <2>3 DEF Safe
  <2>5. \A x \in Staffers : x # s => spc'[x] = spc[x] /\ file'[x] = file[x]
    BY <1>0, <2>1
  <2> QED  BY <1>1, <2>1, <2>4, <2>5
<1>12. CASE RevokeInvite(s)
  BY <1>2, <1>12 DEF RevokeInvite
<1> QED  BY <1>4, <1>5, <1>6, <1>7, <1>8, <1>9, <1>10, <1>11, <1>12 DEF StafferNext

\* Somebody governs: once an account exists there is an active owner, unless a
\* write of staff was made on a check older than another such write.
THEOREM SomebodyGovernsCorrect == MembersSpec => []SomebodyGoverns
<1>1. MembersInit => GovernInv
  BY DEF MembersInit, GovernInv, Governed, FirstKnown, Safe, Exists, Nobody
<1>2. TablesOK /\ Desks /\ GovernInv /\ [MembersNext]_memberVars => GovernInv'
  <2> SUFFICES ASSUME TablesOK, Desks, GovernInv, [MembersNext]_memberVars PROVE GovernInv'
    OBVIOUS
  <2>1. ASSUME UNCHANGED <<people, crossed, rpc, form, spc, file>> PROVE GovernInv'
    <3>1. \A r \in Applicants : FirstKnown(r) => FirstKnown(r)'
      BY <2>1 DEF FirstKnown, Exists
    <3>2. \A s \in Staffers : Safe(s) => Safe(s)'
      BY <2>1 DEF Safe, ActiveOwner, Able
    <3> QED  BY <2>1, <3>1, <3>2, SameGovernors
  <2>2. CASE \E i \in Invites : InviteExpires(i) \/ \E a \in Accounts : DeleteInvite(a, i)
    BY <2>1, <2>2 DEF InviteExpires, DeleteInvite
  <2>3. CASE UNCHANGED memberVars
    BY <2>1, <2>3 DEF memberVars
  <2> QED  BY <2>2, <2>3, ApplicantGoverns, StaffGoverns DEF MembersNext
<1>3. GovernInv => SomebodyGoverns
  BY DEF GovernInv, Governed, SomebodyGoverns
<1> QED  BY <1>1, <1>2, <1>3, MembersInvariant, PTL DEF MembersSpec

-----------------------------------------------------------------------------
(* Invitations.                                                            *)

Over(i) == invites[i].status \notin {"none", "pending"}
\* One request holds an invitation; when an account came with it, that request
\* is about to accept it, or it is over; before, no account came with it.
OneGuest(i) ==
    i \in shared \/
    /\ \A q, r \in Applicants : form[q].invite = i /\ form[r].invite = i => q = r
    /\ \A a, b \in Accounts : via[a] = i /\ via[b] = i => a = b
    /\ \A a \in Accounts : via[a] = i =>
         /\ Over(i) \/ \E r \in Applicants : rpc[r] = "created" /\ form[r].invite = i
         /\ \A r \in Applicants : form[r].invite = i => rpc[r] = "created"
GuestInv == \A i \in Invites : OneGuest(i)
\* An invitation that is open was sent by an account that is not banned.
OpenByFree(i) ==
    invites[i].status = "pending" =>
        invites[i].by \in Accounts /\ (i \in late \/ ~people[invites[i].by].banned)

\* Steps that leave the applicants alone.
LEMMA GuestsStay ==
    ASSUME GuestInv, UNCHANGED <<rpc, form, via, shared>>,
           \A i \in Invites : Over(i) => Over(i)'
    PROVE  GuestInv'
BY DEF GuestInv, OneGuest

LEMMA ApplicantGuests ==
    ASSUME TablesOK, Desks, GuestInv, NEW r \in Applicants, ApplicantNext(r)
    PROVE  GuestInv'
<1>0. /\ rpc = [q \in Applicants |-> rpc[q]] /\ form = [q \in Applicants |-> form[q]]
      /\ FormOK(r) /\ form[r] \in Form /\ Blank.invite = NoInvite
  BY DEF Desks, FormOK, Blank
<1>1. CASE \E i \in Invites : ReadInvite(r, i)
  <2> PICK i \in Invites : ReadInvite(r, i)
    BY <1>1
  <2>1. /\ form' = [form EXCEPT ![r].invite = i] /\ rpc' = [rpc EXCEPT ![r] = "read"]
        /\ UNCHANGED <<via, invites>> /\ rpc[r] = "idle" /\ invites[i].status = "pending"
        /\ shared' = IF \E q \in Applicants : form[q].invite = i THEN shared \cup {i} ELSE shared
    BY DEF ReadInvite
  <2>2. /\ rpc'[r] = "read" /\ form'[r].invite = i /\ form[r].invite = NoInvite
        /\ \A q \in Applicants : q # r => rpc'[q] = rpc[q] /\ form'[q] = form[q]
    <3>1. form'[r] = [form[r] EXCEPT !.invite = i]
      BY <1>0, <2>1
    <3>2. form'[r].invite = i
      BY <1>0, <3>1 DEF Form
    <3> QED  BY <1>0, <2>1, <3>2 DEF FormOK
  <2>3. ASSUME NEW j \in Invites PROVE OneGuest(j)'
    <3>1. OneGuest(j)
      BY DEF GuestInv
    <3>2. CASE j # i
      BY <2>1, <2>2, <3>1, <3>2 DEF OneGuest, Over
    <3>3. CASE j = i /\ \E q \in Applicants : form[q].invite = i
      BY <2>1, <3>3 DEF OneGuest
    <3>4. CASE j = i /\ ~\E q \in Applicants : form[q].invite = i
      <4>1. ASSUME i \notin shared, NEW a \in Accounts PROVE via[a] # i
        BY <2>1, <3>1, <3>4, <4>1 DEF OneGuest, Over
      <4> QED  BY <2>1, <2>2, <3>4, <4>1 DEF OneGuest
    <3> QED  BY <3>2, <3>3, <3>4
  <2> QED  BY <2>3 DEF GuestInv
<1>2. CASE WalkIn(r)
  <2>1. /\ rpc' = [rpc EXCEPT ![r] = "read"] /\ UNCHANGED <<form, via, invites, shared>>
        /\ rpc[r] = "idle"
    BY <1>2 DEF WalkIn
  <2>2. /\ form[r].invite = NoInvite
        /\ \A q \in Applicants : q # r => rpc'[q] = rpc[q]
    BY <1>0, <2>1 DEF FormOK
  <2>3. ASSUME NEW j \in Invites PROVE OneGuest(j)'
    <3>1. OneGuest(j) /\ j # NoInvite
      BY MembershipAssumption DEF GuestInv
    <3> QED  BY <2>1, <2>2, <3>1 DEF OneGuest, Over
  <2> QED  BY <2>3 DEF GuestInv
<1>3. CASE CountBefore(r) \/ CountAgain(r)
  <2>1. /\ UNCHANGED <<via, invites, shared>> /\ rpc[r] \in {"read", "counted"}
        /\ rpc' \in {[rpc EXCEPT ![r] = "counted"], [rpc EXCEPT ![r] = "naming"]}
    BY <1>3 DEF CountBefore, CountAgain
  <2>2. \A q \in Applicants : form'[q].invite = form[q].invite
    <3>1. \A q \in Applicants : q # r => form'[q] = form[q]
      BY <1>0, <1>3 DEF CountBefore, CountAgain
    <3>2. form'[r].invite = form[r].invite
      <4> DEFINE b == \A a \in Accounts : ~Exists(a)
      <4>1. form' \in {[form EXCEPT ![r] = [form[r] EXCEPT !.first = b]],
                       [form EXCEPT ![r] = [form[r] EXCEPT !.owner = b]]}
        BY <1>0, <1>3 DEF CountBefore, CountAgain
      <4> HIDE DEF b
      <4>2. form'[r] \in {[form[r] EXCEPT !.first = b], [form[r] EXCEPT !.owner = b]}
        BY <1>0, <4>1
      <4> QED  BY <1>0, <4>2 DEF Form
    <3> QED  BY <3>1, <3>2
  <2>3. (\A q \in Applicants : q # r => rpc'[q] = rpc[q]) /\ rpc'[r] \in {"counted", "naming"}
    BY <1>0, <2>1
  <2>4. ASSUME NEW j \in Invites PROVE OneGuest(j)'
    <3>1. OneGuest(j)
      BY DEF GuestInv
    <3>2. CASE j \in shared
      BY <2>1, <3>2 DEF OneGuest
    <3>3. CASE j \notin shared
      <4>1. \A q \in Applicants, p \in Applicants :
               form'[q].invite = j /\ form'[p].invite = j => q = p
        BY <2>2, <3>1, <3>3 DEF OneGuest
      <4>2. \A a, b \in Accounts : via'[a] = j /\ via'[b] = j => a = b
        BY <2>1, <3>1, <3>3 DEF OneGuest
      <4>3. ASSUME NEW a \in Accounts, via'[a] = j
            PROVE  /\ Over(j)' \/ \E q \in Applicants : rpc'[q] = "created" /\ form'[q].invite = j
                   /\ \A q \in Applicants : form'[q].invite = j => rpc'[q] = "created"
        <5>1. /\ Over(j) \/ \E q \in Applicants : rpc[q] = "created" /\ form[q].invite = j
              /\ \A q \in Applicants : form[q].invite = j => rpc[q] = "created"
          BY <2>1, <3>1, <3>3, <4>3 DEF OneGuest
        <5>2. Over(j)' <=> Over(j)
          BY <2>1 DEF Over
        <5> QED  BY <2>1, <2>2, <2>3, <5>1, <5>2
      <4> QED  BY <4>1, <4>2, <4>3 DEF OneGuest
    <3> QED  BY <3>2, <3>3
  <2> QED  BY <2>4 DEF GuestInv
<1>4. CASE \E a \in Accounts, waits \in BOOLEAN : CreateUser(r, a, waits)
  <2> PICK a \in Accounts, waits \in BOOLEAN : CreateUser(r, a, waits)
    BY <1>4
  <2>0. PICK i : i = form[r].invite
    OBVIOUS
  <2>1. /\ via' = [via EXCEPT ![a] = i] /\ UNCHANGED <<invites, shared>> /\ rpc[r] = "naming"
    BY <2>0 DEF CreateUser
  <2>2. via'[a] = i /\ \A b \in Accounts : b # a => via'[b] = via[b]
    BY <2>1 DEF TablesOK
  <2>3. CASE i = NoInvite
    <3>1. form' = [form EXCEPT ![r] = Blank] /\ rpc' = [rpc EXCEPT ![r] = "idle"]
      BY <2>0, <2>3 DEF CreateUser
    <3>2. /\ form'[r].invite = NoInvite /\ rpc'[r] = "idle"
          /\ \A q \in Applicants : q # r => rpc'[q] = rpc[q] /\ form'[q] = form[q]
      BY <1>0, <3>1
    <3>3. ASSUME NEW j \in Invites PROVE OneGuest(j)'
      <4>1. OneGuest(j) /\ j # NoInvite
        BY MembershipAssumption DEF GuestInv
      <4> QED  BY <2>0, <2>1, <2>2, <2>3, <3>2, <4>1 DEF OneGuest, Over
    <3> QED  BY <3>3 DEF GuestInv
  <2>4. CASE i # NoInvite
    <3>1. /\ form' = [form EXCEPT ![r] = [form[r] EXCEPT !.account = a]]
          /\ rpc' = [rpc EXCEPT ![r] = "created"]
      BY <1>0, <2>0, <2>4 DEF CreateUser
    <3>2. /\ form'[r].invite = i /\ rpc'[r] = "created"
          /\ \A q \in Applicants : q # r => rpc'[q] = rpc[q] /\ form'[q] = form[q]
      <4>1. form'[r] = [form[r] EXCEPT !.account = a]
        BY <1>0, <3>1
      <4>2. form'[r].invite = i
        BY <1>0, <2>0, <4>1 DEF Form
      <4> QED  BY <1>0, <3>1, <4>2
    <3>3. ASSUME NEW j \in Invites PROVE OneGuest(j)'
      <4>1. OneGuest(j)
        BY DEF GuestInv
      <4>2. CASE j # i
        BY <2>0, <2>1, <2>2, <3>2, <4>1, <4>2 DEF OneGuest, Over
      <4>3. CASE j = i
        <5>1. ASSUME j \notin shared, NEW b \in Accounts PROVE via[b] # j
          BY <2>0, <2>1, <4>1, <4>3, <5>1 DEF OneGuest
        <5> QED  BY <2>0, <2>1, <2>2, <3>2, <4>1, <4>3, <5>1 DEF OneGuest, Over
      <4> QED  BY <4>2, <4>3
    <3> QED  BY <3>3 DEF GuestInv
  <2> QED  BY <2>3, <2>4
<1>5. CASE RegistrationStops(r) \/ AcceptInvite(r)
  <2>0. PICK i : i = form[r].invite
    OBVIOUS
  <2>1. /\ form' = [form EXCEPT ![r] = Blank] /\ rpc' = [rpc EXCEPT ![r] = "idle"]
        /\ via' = via /\ shared \subseteq shared'
    BY <1>5 DEF RegistrationStops, AcceptInvite
  <2>2. /\ form'[r].invite = NoInvite /\ rpc'[r] = "idle"
        /\ \A q \in Applicants : q # r => rpc'[q] = rpc[q] /\ form'[q] = form[q]
    BY <1>0, <2>1
  <2>3. rpc[r] = "created" => i \in Invites /\ invites[i].status # "none"
    BY <1>0, <2>0, MembershipAssumption DEF FormOK
  <2>4. \A j \in Invites : Over(j) => Over(j)'
    <3>1. \A j \in Invites : invites'[j] = invites[j] \/ invites'[j].status = "accepted"
      <4>1. CASE RegistrationStops(r)
        BY <4>1 DEF RegistrationStops
      <4>2. CASE AcceptInvite(r)
        <5> DEFINE b == form[r].account
        <5>1. /\ i \in Invites /\ invites[i] \in Invite /\ b \in Accounts
              /\ invites' \in {invites, [invites EXCEPT ![i] = Taken(invites[i], b)]}
          BY <1>0, <2>0, <4>2 DEF AcceptInvite, FormOK, TablesOK, Taken
        <5> HIDE DEF b
        <5>2. Taken(invites[i], b).status = "accepted"
          BY <5>1, TakenType
        <5> QED  BY <5>1, <5>2 DEF TablesOK
      <4> QED  BY <1>5, <4>1, <4>2
    <3> QED  BY <3>1 DEF Over
  <2>5. rpc[r] = "created" => i \in shared' \/ Over(i)'
    <3>1. CASE RegistrationStops(r)
      BY <2>0, <3>1 DEF RegistrationStops
    <3>2. CASE AcceptInvite(r)
      <4> DEFINE b == form[r].account
      <4>1. /\ i \in Invites /\ invites[i] \in Invite /\ b \in Accounts
            /\ invites[i].status = "pending" => invites' = [invites EXCEPT ![i] = Taken(invites[i], b)]
            /\ invites[i].status # "pending" => invites' = invites
        BY <1>0, <2>0, <3>2 DEF AcceptInvite, FormOK, TablesOK, Taken
      <4> HIDE DEF b
      <4>2. Taken(invites[i], b).status = "accepted"
        BY <4>1, TakenType
      <4>3. CASE invites[i].status = "pending"
        BY <4>1, <4>2, <4>3 DEF TablesOK, Over
      <4>4. CASE invites[i].status # "pending"
        BY <2>3, <3>2, <4>1, <4>4 DEF Over, AcceptInvite
      <4> QED  BY <4>3, <4>4
    <3> QED  BY <1>5, <3>1, <3>2
  <2>6. ASSUME NEW j \in Invites PROVE OneGuest(j)'
    <3>1. OneGuest(j) /\ j # NoInvite
      BY MembershipAssumption DEF GuestInv
    <3>2. CASE j \in shared'
      BY <3>2 DEF OneGuest
    <3>3. CASE j \notin shared'
      <4>1. j \notin shared
        BY <2>1, <3>3
      <4>2. \A q, p \in Applicants : form'[q].invite = j /\ form'[p].invite = j => q = p
        BY <2>2, <3>1, <4>1 DEF OneGuest
      <4>3. ASSUME NEW a \in Accounts, via'[a] = j
            PROVE  /\ Over(j)' \/ \E q \in Applicants : rpc'[q] = "created" /\ form'[q].invite = j
                   /\ \A q \in Applicants : form'[q].invite = j => rpc'[q] = "created"
        <5>1. /\ Over(j) \/ \E q \in Applicants : rpc[q] = "created" /\ form[q].invite = j
              /\ \A q \in Applicants : form[q].invite = j => rpc[q] = "created"
          BY <2>1, <3>1, <4>1, <4>3 DEF OneGuest
        <5>2. \A q \in Applicants : form'[q].invite = j => q # r /\ rpc'[q] = "created"
          BY <2>2, <3>1, <5>1
        <5>3. Over(j)' \/ \E q \in Applicants : rpc'[q] = "created" /\ form'[q].invite = j
          <6>1. CASE Over(j)
            BY <2>4, <6>1
          <6>2. CASE \E q \in Applicants : rpc[q] = "created" /\ form[q].invite = j
            <7> PICK q \in Applicants : rpc[q] = "created" /\ form[q].invite = j
              BY <6>2
            <7>1. CASE q = r
              BY <2>0, <2>5, <3>3, <7>1
            <7>2. CASE q # r
              BY <2>2, <7>2
            <7> QED  BY <7>1, <7>2
          <6> QED  BY <5>1, <6>1, <6>2
        <5> QED  BY <5>2, <5>3
      <4>4. \A a, b \in Accounts : via'[a] = j /\ via'[b] = j => a = b
        BY <2>1, <3>1, <4>1 DEF OneGuest
      <4> QED  BY <4>2, <4>3, <4>4 DEF OneGuest
    <3> QED  BY <3>2, <3>3
  <2> QED  BY <2>6 DEF GuestInv
<1> QED  BY <1>1, <1>2, <1>3, <1>4, <1>5 DEF ApplicantNext

\* What a step may do to the row of an invitation.
LEMMA RowSteps ==
    ASSUME TablesOK, Desks, [MembersNext]_memberVars, NEW i \in Invites
    PROVE  \/ invites'[i] = invites[i]
           \/ invites[i].status # "none" /\ invites'[i].status \notin {"none", "pending"}
           \/ /\ invites[i].status = "none"
              /\ \E s \in Staffers : SendInvite(s, i)
<1>0. invites \in [Invites -> Invite] /\ invites[i] \in Invite
  BY DEF TablesOK
<1>1. ASSUME NEW j \in Invites, NEW st \in {"expired", "deleted", "revoked"},
             invites' = [invites EXCEPT ![j].status = st], invites[j].status # "none"
      PROVE  \/ invites'[i] = invites[i]
             \/ invites[i].status # "none" /\ invites'[i].status \notin {"none", "pending"}
  <2>1. invites' = [invites EXCEPT ![j] = Labelled(invites[j], st)]
    BY <1>0, <1>1 DEF Labelled
  <2>2. Labelled(invites[j], st).status = st
    BY <1>0, LabelledType
  <2> QED  BY <1>0, <1>1, <2>1, <2>2
<1>2. CASE \E j \in Invites : InviteExpires(j) \/ \E a \in Accounts : DeleteInvite(a, j)
  BY <1>1, <1>2 DEF InviteExpires, DeleteInvite
<1>3. CASE UNCHANGED invites
  BY <1>3
<1>4. CASE UNCHANGED memberVars
  BY <1>3, <1>4 DEF memberVars
<1>5. ASSUME NEW r \in Applicants, ApplicantNext(r)
      PROVE  \/ invites'[i] = invites[i]
             \/ invites[i].status # "none" /\ invites'[i].status \notin {"none", "pending"}
  <2>1. CASE AcceptInvite(r)
    <3>0. PICK j : j = form[r].invite
      OBVIOUS
    <3> DEFINE b == form[r].account
    <3>1. /\ j \in Invites /\ b \in Accounts
          /\ \/ invites' = invites
             \/ /\ invites[j].status = "pending"
                /\ invites' = [invites EXCEPT ![j] = Taken(invites[j], b)]
      BY <1>0, <2>1, <3>0 DEF AcceptInvite, Desks, FormOK, Taken
    <3> HIDE DEF b
    <3>2. Taken(invites[j], b).status = "accepted"
      BY <1>0, <3>1, TakenType
    <3> QED  BY <1>0, <3>1, <3>2
  <2>2. CASE UNCHANGED invites
    BY <2>2
  <2> QED  BY <1>5, <2>1, <2>2 DEF ApplicantNext, ReadInvite, WalkIn, CountBefore, CountAgain,
              CreateUser, RegistrationStops
<1>6. ASSUME NEW s \in Staffers, StafferNext(s)
      PROVE  \/ invites'[i] = invites[i]
             \/ invites[i].status # "none" /\ invites'[i].status \notin {"none", "pending"}
             \/ invites[i].status = "none" /\ SendInvite(s, i)
  <2>1. CASE UNCHANGED invites
    BY <2>1
  <2>2. CASE WriteDecision(s)
    <3>0. invites' = [j \in Invites |->
               IF file[s].op = "ban" /\ invites[j].by = file[s].target /\ invites[j].status = "pending"
               THEN Labelled(invites[j], "revoked") ELSE invites[j]]
      BY <2>2 DEF WriteDecision, Labelled
    <3>1. invites'[i] = invites[i]
          \/ (invites[i].status = "pending" /\ invites'[i] = Labelled(invites[i], "revoked"))
      BY <3>0
    <3>2. Labelled(invites[i], "revoked").status = "revoked"
      BY <1>0, LabelledType
    <3> QED  BY <3>1, <3>2
  <2>3. CASE RevokeInvite(s)
    <3>0. PICK j : j = file[s].invite
      OBVIOUS
    <3>1. j \in Invites /\ invites[j].status # "none"
      BY <2>3, <3>0 DEF RevokeInvite, Desks, FileOK
    <3> QED  BY <1>1, <2>3, <3>0, <3>1 DEF RevokeInvite
  <2>4. CASE \E j \in Invites : SendInvite(s, j)
    <3> PICK j \in Invites : SendInvite(s, j)
      BY <2>4
    <3> QED  BY <1>0 DEF SendInvite
  <2>5. CASE CountOwners(s) \/ (\E a \in Accounts, j \in Invites : CheckRevoke(s, a, j))
    BY <2>1, <2>5 DEF CountOwners, CheckRevoke
  <2>6. ASSUME NEW a \in Accounts, NEW t \in Accounts, NEW role, NEW decision,
               CheckRole(s, a, t, role) \/ CheckBan(s, a, t) \/ CheckInviter(s, a)
               \/ CheckReview(s, a, t, decision)
        PROVE  invites' = invites
    BY <2>6 DEF CheckRole, CheckBan, CheckReview, CheckInviter, Open
  <2> QED  BY <1>6, <2>1, <2>2, <2>3, <2>4, <2>5, <2>6 DEF StafferNext
<1> QED  BY <1>2, <1>4, <1>5, <1>6 DEF MembersNext

\* One invitation lets one account in, unless two requests read it at once or
\* a registration stopped between its account and its invitation.
THEOREM InviteAdmitsOneCorrect == MembersSpec => []InviteAdmitsOne
<1>1. MembersInit => GuestInv
  BY MembershipAssumption DEF MembersInit, GuestInv, OneGuest, Blank
<1>2. TablesOK /\ Desks /\ GuestInv /\ [MembersNext]_memberVars => GuestInv'
  <2> SUFFICES ASSUME TablesOK, Desks, GuestInv, [MembersNext]_memberVars PROVE GuestInv'
    OBVIOUS
  <2>1. \A i \in Invites : Over(i) => Over(i)'
    BY RowSteps DEF Over
  <2>2. ASSUME UNCHANGED <<rpc, form, via, shared>> PROVE GuestInv'
    BY <2>1, <2>2, GuestsStay
  <2>3. CASE \E s \in Staffers : StafferNext(s)
    <3> PICK s \in Staffers : StafferNext(s)
      BY <2>3
    <3>1. ASSUME NEW a \in Accounts, NEW t \in Accounts, NEW role, NEW decision,
                 CheckRole(s, a, t, role) \/ CheckBan(s, a, t) \/ CheckInviter(s, a)
                 \/ CheckReview(s, a, t, decision)
          PROVE  UNCHANGED <<rpc, form, via, shared>>
      BY <3>1 DEF CheckRole, CheckBan, CheckReview, CheckInviter, Open
    <3>2. CASE CountOwners(s) \/ WriteDecision(s) \/ RevokeInvite(s)
      BY <2>2, <3>2 DEF CountOwners, WriteDecision, RevokeInvite
    <3>3. CASE \E i \in Invites : SendInvite(s, i)
      BY <2>2, <3>3 DEF SendInvite
    <3>4. CASE \E a \in Accounts, i \in Invites : CheckRevoke(s, a, i)
      BY <2>2, <3>4 DEF CheckRevoke
    <3> QED  BY <2>2, <2>3, <3>1, <3>2, <3>3, <3>4 DEF StafferNext
  <2>4. CASE \E i \in Invites : InviteExpires(i) \/ \E a \in Accounts : DeleteInvite(a, i)
    BY <2>2, <2>4 DEF InviteExpires, DeleteInvite
  <2>5. CASE UNCHANGED memberVars
    BY <2>2, <2>5 DEF memberVars
  <2> QED  BY <2>3, <2>4, <2>5, ApplicantGuests DEF MembersNext
<1>3. TablesOK /\ GuestInv => InviteAdmitsOne
  BY DEF TablesOK, GuestInv, OneGuest, InviteAdmitsOne
<1> QED  BY <1>1, <1>2, <1>3, MembersInvariant, PTL DEF MembersSpec

\* What a step may do to the accounts: nobody is banned but by a decision of
\* staff, which revokes what the account has open.
LEMMA BanSteps ==
    ASSUME TablesOK, Desks, [MembersNext]_memberVars, NEW a \in Accounts,
           ~people[a].banned, people'[a].banned
    PROVE  \A i \in Invites : invites[i].by = a => invites'[i].status # "pending"
                                                  \/ invites[i].status = "none"
<1>1. ASSUME people' = people PROVE FALSE
  BY <1>1
<1>2. ASSUME NEW r \in Applicants, ApplicantNext(r) PROVE FALSE
  <2>1. CASE \E b \in Accounts, waits \in BOOLEAN : CreateUser(r, b, waits)
    <3> PICK b \in Accounts, waits \in BOOLEAN : CreateUser(r, b, waits)
      BY <2>1
    <3> DEFINE new == [status |-> IF waits THEN "pending" ELSE "active",
                       role   |-> IF form[r].owner THEN "owner" ELSE "member",
                       banned |-> FALSE]
    <3>1. people' = [people EXCEPT ![b] = new] /\ ~new.banned
      BY DEF CreateUser
    <3> HIDE DEF new
    <3> QED  BY <3>1 DEF TablesOK
  <2> QED  BY <1>1, <1>2, <2>1 DEF ApplicantNext, ReadInvite, WalkIn, CountBefore, CountAgain,
              AcceptInvite, RegistrationStops
<1>3. ASSUME NEW s \in Staffers, StafferNext(s)
      PROVE  WriteDecision(s)
  <2>1. CASE CountOwners(s) \/ RevokeInvite(s) \/ (\E i \in Invites : SendInvite(s, i))
    BY <1>1, <2>1 DEF CountOwners, RevokeInvite, SendInvite
  <2>2. CASE \E b \in Accounts, i \in Invites : CheckRevoke(s, b, i)
    BY <1>1, <2>2 DEF CheckRevoke
  <2>3. ASSUME NEW b \in Accounts, NEW t \in Accounts, NEW role, NEW decision,
               CheckRole(s, b, t, role) \/ CheckBan(s, b, t) \/ CheckInviter(s, b)
               \/ CheckReview(s, b, t, decision)
        PROVE  FALSE
    BY <1>1, <2>3 DEF CheckRole, CheckBan, CheckReview, CheckInviter, Open
  <2> QED  BY <1>3, <2>1, <2>2, <2>3 DEF StafferNext
<1>4. ASSUME NEW s \in Staffers, WriteDecision(s)
      PROVE  \A i \in Invites : invites[i].by = a => invites'[i].status # "pending"
                                                    \/ invites[i].status = "none"
  <2>0. PICK t : t = file[s].target
    OBVIOUS
  <2>1. /\ people' = [people EXCEPT ![t] = Decided(people[t], file[s])]
        /\ spc[s] = "write" /\ file[s].op \notin {"invite", "revoke"}
    BY <1>4, <2>0 DEF WriteDecision
  <2>2. /\ t \in Accounts /\ people[t] \in Person /\ file[s] \in File
        /\ file[s].op \in {"role", "ban", "unban", "approve", "deny"}
    BY <2>0, <2>1 DEF Desks, FileOK, File, TablesOK
  <2>3. t = a /\ Decided(people[t], file[s]).banned
    BY <2>1, <2>2 DEF TablesOK
  <2>4. file[s].op = "ban"
    BY <2>2, <2>3, DecidedType
  <2>5. invites' = [j \in Invites |->
           IF file[s].op = "ban" /\ invites[j].by = file[s].target /\ invites[j].status = "pending"
           THEN Labelled(invites[j], "revoked") ELSE invites[j]]
    BY <1>4 DEF WriteDecision, Labelled
  <2>6. \A i \in Invites : Labelled(invites[i], "revoked").status = "revoked"
    BY LabelledType DEF TablesOK
  <2> QED  BY <2>0, <2>3, <2>4, <2>5, <2>6
<1>5. CASE \E i \in Invites : InviteExpires(i) \/ \E b \in Accounts : DeleteInvite(b, i)
  BY <1>1, <1>5 DEF InviteExpires, DeleteInvite
<1>6. CASE UNCHANGED memberVars
  BY <1>1, <1>6 DEF memberVars
<1> QED  BY <1>2, <1>3, <1>4, <1>5, <1>6 DEF MembersNext

LEMMA BansInductive ==
    ASSUME TablesOK, Desks, \A i \in Invites : OpenByFree(i), [MembersNext]_memberVars,
           NEW i \in Invites
    PROVE  OpenByFree(i)'
<1> SUFFICES ASSUME invites'[i].status = "pending"
             PROVE  /\ invites'[i].by \in Accounts
                    /\ i \in late' \/ ~people'[invites'[i].by].banned
  BY DEF OpenByFree
<1>0. late \subseteq late'
  <2>1. CASE UNCHANGED late
    BY <2>1
  <2>2. ASSUME NEW s \in Staffers, NEW j \in Invites, SendInvite(s, j) PROVE late \subseteq late'
    BY <2>2 DEF SendInvite
  <2>3. ASSUME NEW r \in Applicants, ApplicantNext(r) PROVE late' = late
    BY <2>3 DEF ApplicantNext, ReadInvite, WalkIn, CountBefore, CountAgain, CreateUser,
       AcceptInvite, RegistrationStops
  <2>4. ASSUME NEW s \in Staffers, StafferNext(s) PROVE late \subseteq late'
    <3>1. CASE CountOwners(s) \/ RevokeInvite(s) \/ WriteDecision(s)
      BY <3>1 DEF CountOwners, RevokeInvite, WriteDecision
    <3>2. CASE \E b \in Accounts, j \in Invites : CheckRevoke(s, b, j)
      BY <3>2 DEF CheckRevoke
    <3>3. ASSUME NEW b \in Accounts, NEW t \in Accounts, NEW role, NEW decision,
                 CheckRole(s, b, t, role) \/ CheckBan(s, b, t) \/ CheckInviter(s, b)
                 \/ CheckReview(s, b, t, decision)
          PROVE  late' = late
      BY <3>3 DEF CheckRole, CheckBan, CheckReview, CheckInviter, Open
    <3> QED  BY <2>2, <2>4, <3>1, <3>2, <3>3 DEF StafferNext
  <2>5. CASE \E j \in Invites : InviteExpires(j) \/ \E b \in Accounts : DeleteInvite(b, j)
    BY <2>5 DEF InviteExpires, DeleteInvite
  <2>6. CASE UNCHANGED memberVars
    BY <2>1, <2>6 DEF memberVars
  <2> QED  BY <2>3, <2>4, <2>5, <2>6 DEF MembersNext
<1>1. CASE invites'[i] = invites[i]
  <2>1. invites[i].by \in Accounts /\ (i \in late \/ ~people[invites[i].by].banned)
    BY <1>1 DEF OpenByFree
  <2>2. PICK a \in Accounts : a = invites[i].by
    BY <2>1
  <2>3. ASSUME ~people[a].banned, people'[a].banned PROVE FALSE
    BY <1>1, <2>2, <2>3, BanSteps
  <2>4. people'[a].banned \in BOOLEAN
    BY MembersStep DEF TablesOK, Person
  <2> QED  BY <1>0, <1>1, <2>1, <2>2, <2>3, <2>4
<1>2. CASE \E s \in Staffers : SendInvite(s, i)
  <2> PICK s \in Staffers : SendInvite(s, i)
    BY <1>2
  <2>0. PICK a : a = file[s].target
    OBVIOUS
  <2>1. /\ invites' = [invites EXCEPT ![i] = Sent(invites[i], a)] /\ people' = people
        /\ late' = IF Able(a, CanInvite) THEN late ELSE late \cup {i}
    BY <2>0 DEF SendInvite, Sent, TablesOK
  <2>2. a \in Accounts /\ invites[i] \in Invite
    BY <2>0 DEF SendInvite, Desks, FileOK, TablesOK
  <2>3. invites'[i].by = a
    BY <2>1, <2>2, SentType DEF TablesOK
  <2> QED  BY <2>1, <2>2, <2>3 DEF Able
<1> QED  BY <1>1, <1>2, RowSteps

\* An invitation of a banned account is not open, unless its mail was still
\* being sent when the ban was written.
THEOREM BannedInviteNobodyCorrect == MembersSpec => []BannedInviteNobody
<1> DEFINE Free == \A i \in Invites : OpenByFree(i)
<1>1. MembersInit => Free
  BY DEF MembersInit, OpenByFree
<1>2. TablesOK /\ Desks /\ Free /\ [MembersNext]_memberVars => Free'
  BY BansInductive
<1>3. Free => BannedInviteNobody
  BY DEF OpenByFree, BannedInviteNobody
<1> HIDE DEF Free
<1> QED  BY <1>1, <1>2, <1>3, MembersInvariant, PTL DEF MembersSpec

=============================================================================
