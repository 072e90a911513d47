------------------------------- MODULE SignIn -------------------------------
(***************************************************************************)
(* The credentials of one account and what they open: its password and     *)
(* recovery links (password_recovery.py, account_profile.py), two-factor   *)
(* challenges and recovery codes (security.py), browser sessions and       *)
(* Android sessions (security.py, api.py).  No statement of these handlers *)
(* touches two accounts, so one account stands for all.                    *)
(*                                                                         *)
(* Each transaction is one action; a SELECT before the first write of a    *)
(* handler is an action of its own.  Visits are requests in progress.      *)
(***************************************************************************)
EXTENDS Naturals, FiniteSets

CONSTANTS
    Visits,      \* requests, each with its own local variables
    MaxEra,      \* bound: password changes and bans
    MaxLinks,    \* bound: recovery links issued
    MaxCodes,    \* bound: series of recovery codes generated
    MaxChals     \* bound: two-factor challenges created

ASSUME SignInBounds ==
    /\ MaxEra \in Nat /\ MaxLinks \in Nat /\ MaxCodes \in Nat /\ MaxChals \in Nat

VARIABLES
    era,         \* number of the current password, counted on by a ban
    active,      \* the account is not banned
    totp,        \* two-factor: off, being set up, on
    codes,       \* users.totp_recovery_codes: those not used yet
    series,      \* number of the newest series of recovery codes
    links,       \* password_reset_tokens, in the order of issue
    pending,     \* pending rows of password_recovery_requests
    sessions,    \* sessions, and api_tokens of kind android_session
    challenge,   \* the row of two_factor_challenges: a new one deletes it
    chals,       \* number of challenges created
    vpc, visit,  \* each request's place and its local variables
    accepted,    \* history: how often a recovery code let somebody in
    clobbered    \* history: a list of codes was written over a newer one

signInVars == <<era, active, totp, codes, series, links, pending, sessions,
                challenge, chals, vpc, visit, accepted, clobbered>>

Links   == 1..MaxLinks
Codes   == (1..MaxCodes) \X {1, 2}
Kinds   == {"browser", "android"}
\* What a sign-in was granted on: the password's number, and whether it
\* changed between the check of it and the grant.
Grants  == [kind : Kinds, era : 0..MaxEra, late : BOOLEAN]
Chals   == [id : 0..MaxChals, era : 0..MaxEra, late : BOOLEAN]
NoChal  == [id |-> 0, era |-> 0, late |-> FALSE]
Visit   == [kind : Kinds, start : 0..MaxEra, chal : Chals,
            link : 0..MaxLinks, codes : SUBSET Codes]
NoVisit == [kind |-> "browser", start |-> 0, chal |-> NoChal, link |-> 0, codes |-> {}]

SignInTypeOK ==
    /\ era \in 0..MaxEra /\ active \in BOOLEAN
    /\ totp \in {"off", "setup", "on"}
    /\ codes \subseteq Codes /\ series \in 0..MaxCodes
    /\ links \in [Links -> {"none", "live", "used", "revoked"}]
    /\ pending \in Nat
    /\ sessions \subseteq Grants
    /\ challenge \in Chals /\ chals \in 0..MaxChals
    /\ vpc \in [Visits -> {"idle", "asked", "issued", "look", "insert", "reset", "change",
                           "login", "code", "consume", "verified", "enable", "renew",
                           "drop", "dropall", "grant"}]
    /\ visit \in [Visits -> Visit]
    /\ accepted \in [Codes -> Nat] /\ clobbered \in BOOLEAN

SignInInit ==
    /\ era = 0 /\ active = TRUE /\ totp = "off" /\ codes = {} /\ series = 0
    /\ links = [l \in Links |-> "none"] /\ pending = 0
    /\ sessions = {} /\ challenge = NoChal /\ chals = 0
    /\ vpc = [v \in Visits |-> "idle"] /\ visit = [v \in Visits |-> NoVisit]
    /\ accepted = [c \in Codes |-> 0] /\ clobbered = FALSE

-----------------------------------------------------------------------------
twoFactor == <<totp, codes, series, accepted, clobbered>>
recovery  == <<links, pending>>
granted   == <<sessions, challenge, chals>>

At(v, place) == vpc[v] = place
Go(v, place) == vpc' = [vpc EXCEPT ![v] = place]
\* The request ends: its local variables are gone.
Done(v) == Go(v, "idle") /\ visit' = [visit EXCEPT ![v] = NoVisit]
Begin(v, place, local) ==
    /\ At(v, "idle") /\ Go(v, place)
    /\ visit' = [visit EXCEPT ![v] = local]
Fresh == [NoVisit EXCEPT !.start = era]

\* A new password, or a ban: everything that was granted ends, except the
\* session the change was asked from.
NewEra(kept) ==
    /\ era < MaxEra /\ era' = era + 1
    /\ sessions' = {[s EXCEPT !.era = era + 1, !.late = FALSE] : s \in kept}
    /\ challenge' = NoChal
    /\ UNCHANGED chals

-----------------------------------------------------------------------------
(* Recovery links.                                                         *)

\* request_password_recovery: the account is found.
AskRecovery(v) ==
    /\ active /\ Begin(v, "asked", Fresh)
    /\ UNCHANGED <<era, active, twoFactor, recovery, granted>>

NextLink == 1 + Cardinality({l \in Links : links[l] # "none"})

\* Mutant: a new link leaves the earlier one alone.
IssueBeside(v, byAdmin) ==
    /\ At(v, "asked") /\ NextLink \in Links
    /\ links' = [links EXCEPT ![NextLink] = "live"]
    /\ visit' = [visit EXCEPT ![v].link = NextLink]
    /\ Go(v, "issued")
    /\ UNCHANGED <<era, active, twoFactor, pending, granted>>
\* create_password_reset_token: older links of the account are revoked, open
\* requests are answered; issued by an administrator it ends what is granted
\* in browsers.
IssueLink(v, byAdmin) ==
    /\ At(v, "asked") /\ NextLink \in Links
    /\ links' = [l \in Links |-> IF l = NextLink THEN "live"
                                 ELSE IF links[l] = "live" THEN "revoked" ELSE links[l]]
    /\ visit' = [visit EXCEPT ![v].link = NextLink]
    /\ pending' = 0
    /\ IF byAdmin
       THEN /\ sessions' = {s \in sessions : s.kind # "browser"}
            /\ challenge' = NoChal
            /\ Go(v, "idle")
       ELSE Go(v, "issued") /\ UNCHANGED <<sessions, challenge>>
    /\ UNCHANGED <<era, active, twoFactor, chals>>

\* The mail is out; or it failed and the link, unless it is used, is revoked;
\* or there is no mail at all and no link was issued.
MailSent(v) ==
    /\ At(v, "issued") /\ Done(v)
    /\ UNCHANGED <<era, active, twoFactor, recovery, granted>>
MailFails(v) ==
    /\ At(v, "issued") /\ Go(v, "look")
    /\ links' = [links EXCEPT ![visit[v].link] = IF @ = "used" THEN @ ELSE "revoked"]
    /\ UNCHANGED <<era, active, twoFactor, pending, granted, visit>>
NoMail(v) ==
    /\ At(v, "asked") /\ Go(v, "look")
    /\ UNCHANGED <<era, active, twoFactor, recovery, granted, visit>>

\* create_pending_password_recovery_request: looks for a pending request
\* before its transaction, and inserts one.
LookForRequest(v) ==
    /\ At(v, "look")
    /\ IF pending > 0 THEN Done(v) ELSE Go(v, "insert") /\ UNCHANGED visit
    /\ UNCHANGED <<era, active, twoFactor, recovery, granted>>
InsertRequest(v) ==
    /\ At(v, "insert") /\ pending' = pending + 1 /\ Done(v)
    /\ UNCHANGED <<era, active, twoFactor, links, granted>>

LinkExpires(l) ==
    /\ links[l] = "live" /\ links' = [links EXCEPT ![l] = "revoked"]
    /\ UNCHANGED <<era, active, twoFactor, pending, granted, vpc, visit>>

\* password_reset_from_token, and the checks of the new password.
ReadLink(v, l) ==
    /\ links[l] = "live" /\ active
    /\ Begin(v, "reset", [Fresh EXCEPT !.link = l])
    /\ UNCHANGED <<era, active, twoFactor, recovery, granted>>

\* Mutant: the link that was read is trusted.
TrustReadLink(v) ==
    LET mine == visit[v].link IN
    /\ At(v, "reset") /\ Done(v)
    /\ links' = [l \in Links |-> IF l = mine THEN "used"
                                 ELSE IF links[l] = "live" THEN "revoked" ELSE links[l]]
    /\ pending' = 0
    /\ NewEra({})
    /\ UNCHANGED <<active, twoFactor>>
\* complete_password_reset: the UPDATE of the link decides; the password is
\* set, the other links are revoked, requests are closed, everything that was
\* granted ends.
CompleteReset(v) ==
    LET mine == visit[v].link IN
    /\ At(v, "reset") /\ Done(v)
    /\ IF links[mine] = "live"
       THEN /\ links' = [l \in Links |-> IF l = mine THEN "used"
                                         ELSE IF links[l] = "live" THEN "revoked" ELSE links[l]]
            /\ pending' = 0
            /\ NewEra({})
       ELSE UNCHANGED <<era, recovery, granted>>
    /\ UNCHANGED <<active, twoFactor>>

-----------------------------------------------------------------------------
(* The password, and a ban.                                                *)

\* change_user_password from a session s: the old password is checked on a row
\* read before the transaction.
CheckOldPassword(v, s) ==
    /\ s \in sessions /\ s.era = era /\ active
    /\ Begin(v, "change", [Fresh EXCEPT !.kind = s.kind])
    /\ UNCHANGED <<era, active, twoFactor, recovery, granted>>
\* Mutant: a change of the password leaves the open challenge.
ChangeKeepsChallenge(v) ==
    /\ At(v, "change") /\ Done(v)
    /\ era < MaxEra /\ era' = era + 1
    /\ sessions' = {}
    /\ UNCHANGED <<active, twoFactor, recovery, challenge, chals>>
\* The session the request came with is kept, if it is still there.
ChangePassword(v) ==
    /\ At(v, "change") /\ Done(v)
    /\ \E kept \in SUBSET sessions :
         /\ Cardinality(kept) <= 1 /\ \A s \in kept : s.kind = visit[v].kind
         /\ NewEra(kept)
    /\ UNCHANGED <<active, twoFactor, recovery>>

\* admin_set_user_ban, revoke_user_access_for_moderation.
Ban ==
    /\ active /\ active' = FALSE /\ NewEra({})
    /\ UNCHANGED <<twoFactor, recovery, vpc, visit>>
Unban ==
    /\ ~active /\ active' = TRUE
    /\ UNCHANGED <<era, twoFactor, recovery, granted, vpc, visit>>

-----------------------------------------------------------------------------
(* Signing in.                                                             *)

\* login, api_android_password_login: the row that is read tells whether the
\* password is right and whether a second factor is asked for.
CheckPassword(v, kind) ==
    /\ active
    /\ Begin(v, IF totp = "on" THEN "login" ELSE "verified",
             [Fresh EXCEPT !.kind = kind, !.chal = [NoChal EXCEPT !.era = era]])
    /\ UNCHANGED <<era, active, twoFactor, recovery, granted>>
\* create_two_factor_challenge: one transaction, one row per account.
MakeChallenge(v) ==
    /\ At(v, "login") /\ chals < MaxChals /\ Done(v)
    /\ chals' = chals + 1
    /\ challenge' = [id |-> chals + 1, era |-> visit[v].chal.era, late |-> era # visit[v].start]
    /\ UNCHANGED <<era, active, twoFactor, recovery, sessions>>
ChallengeExpires ==
    /\ challenge # NoChal /\ challenge' = NoChal
    /\ UNCHANGED <<era, active, twoFactor, recovery, sessions, chals, vpc, visit>>
\* complete_two_factor_login: the challenge is read...
ReadChallenge(v, kind) ==
    /\ challenge # NoChal /\ active
    /\ Begin(v, "code", [Fresh EXCEPT !.kind = kind, !.chal = challenge])
    /\ UNCHANGED <<era, active, twoFactor, recovery, granted>>
\* ...and the code checked, on rows read one after the other.
VerifyTotp(v) ==
    /\ At(v, "code") /\ totp = "on" /\ Go(v, "drop")
    /\ UNCHANGED <<era, active, twoFactor, recovery, granted, visit>>
ReadCodes(v) ==
    /\ At(v, "code") /\ totp = "on" /\ codes # {}
    /\ visit' = [visit EXCEPT ![v].codes = codes] /\ Go(v, "consume")
    /\ UNCHANGED <<era, active, twoFactor, recovery, granted>>
WrongCode(v) ==
    /\ At(v, "code") /\ Done(v)
    /\ UNCHANGED <<era, active, twoFactor, recovery, granted>>
\* Mutant: the list is written back without the first code only.
ConsumeFirst(v, c) ==
    /\ At(v, "consume") /\ c \in visit[v].codes /\ Go(v, "drop")
    /\ codes' = {d \in visit[v].codes : d[2] # 1}
    /\ visit' = [visit EXCEPT ![v].codes = {}]
    /\ accepted' = [accepted EXCEPT ![c] = @ + 1]
    /\ clobbered' = (clobbered \/ codes # visit[v].codes)
    /\ UNCHANGED <<era, active, totp, series, recovery, granted>>
\* consume_user_recovery_code: the whole list is written, without the code, as
\* it was read.
ConsumeCode(v, c) ==
    /\ At(v, "consume") /\ c \in visit[v].codes /\ Go(v, "drop")
    /\ codes' = visit[v].codes \ {c}
    /\ visit' = [visit EXCEPT ![v].codes = {}]
    /\ accepted' = [accepted EXCEPT ![c] = @ + 1]
    /\ clobbered' = (clobbered \/ codes # visit[v].codes)
    /\ UNCHANGED <<era, active, totp, series, recovery, granted>>
DropChallenge(v) ==
    /\ At(v, "drop") /\ Go(v, "verified")
    /\ challenge' = IF challenge.id = visit[v].chal.id THEN NoChal ELSE challenge
    /\ UNCHANGED <<era, active, twoFactor, recovery, sessions, chals, visit>>
\* create_session and create_api_token: the account is looked at, then the row
\* is inserted.
CheckActive(v) ==
    /\ At(v, "verified")
    /\ IF active THEN Go(v, "grant") /\ UNCHANGED visit ELSE Done(v)
    /\ UNCHANGED <<era, active, twoFactor, recovery, granted>>
Grant(v) ==
    /\ At(v, "grant") /\ Done(v)
    /\ sessions' = sessions \cup
         {[kind |-> visit[v].kind, era |-> visit[v].chal.era,
           late |-> visit[v].chal.late \/ era # visit[v].start]}
    /\ UNCHANGED <<era, active, twoFactor, recovery, challenge, chals>>
\* logout, api_android_logout, api_android_session_revoke, expiry.
EndSession(s) ==
    /\ s \in sessions /\ sessions' = sessions \ {s}
    /\ UNCHANGED <<era, active, twoFactor, recovery, challenge, chals, vpc, visit>>

-----------------------------------------------------------------------------
(* Settings of the second factor.                                          *)

NewSeries(n) == {c \in Codes : c[1] = n}

\* start_user_totp_setup; the web page does not ask whether it is on already.
StartSetup ==
    /\ totp' = "setup" /\ codes' = {}
    /\ UNCHANGED <<era, active, series, accepted, clobbered, recovery, granted, vpc, visit>>
\* enable_user_totp: the secret is read and the code checked; the row is
\* written; open challenges are deleted in a transaction of their own.
ReadSecret(v) ==
    /\ totp # "off" /\ Begin(v, "enable", Fresh)
    /\ UNCHANGED <<era, active, twoFactor, recovery, granted>>
Enable(v) ==
    /\ At(v, "enable") /\ series < MaxCodes /\ Go(v, "dropall")
    /\ totp' = IF totp = "off" THEN "off" ELSE "on"
    /\ series' = series + 1 /\ codes' = NewSeries(series + 1)
    /\ UNCHANGED <<era, active, accepted, clobbered, recovery, granted, visit>>
\* disable_user_totp: two transactions as well.
Disable(v) ==
    /\ totp' = "off" /\ codes' = {} /\ Begin(v, "dropall", Fresh)
    /\ UNCHANGED <<era, active, series, accepted, clobbered, recovery, granted>>
DropChallenges(v) ==
    /\ At(v, "dropall") /\ challenge' = NoChal /\ Done(v)
    /\ UNCHANGED <<era, active, twoFactor, recovery, sessions, chals>>
\* regenerate_user_totp_recovery_codes.
AskNewCodes(v) ==
    /\ totp = "on" /\ Begin(v, "renew", Fresh)
    /\ UNCHANGED <<era, active, twoFactor, recovery, granted>>
RenewCodes(v) ==
    /\ At(v, "renew") /\ series < MaxCodes /\ Done(v)
    /\ series' = series + 1 /\ codes' = NewSeries(series + 1)
    /\ UNCHANGED <<era, active, totp, accepted, clobbered, recovery, granted>>
\* admin_reset_user_two_factor.
AdminResetTotp ==
    /\ totp' = "off" /\ codes' = {}
    /\ challenge' = NoChal
    /\ sessions' = {s \in sessions : s.kind # "browser"}
    /\ UNCHANGED <<era, active, series, accepted, clobbered, recovery, chals, vpc, visit>>

-----------------------------------------------------------------------------
VisitNext(v) ==
    \/ AskRecovery(v) \/ MailSent(v) \/ MailFails(v) \/ NoMail(v)
    \/ \E byAdmin \in BOOLEAN : IssueLink(v, byAdmin)
    \/ LookForRequest(v) \/ InsertRequest(v)
    \/ \E l \in Links : ReadLink(v, l)
    \/ CompleteReset(v) \/ ChangePassword(v)
    \/ \E s \in sessions : CheckOldPassword(v, s)
    \/ \E kind \in Kinds : CheckPassword(v, kind) \/ ReadChallenge(v, kind)
    \/ MakeChallenge(v) \/ VerifyTotp(v) \/ ReadCodes(v) \/ WrongCode(v)
    \/ \E c \in Codes : ConsumeCode(v, c)
    \/ DropChallenge(v) \/ CheckActive(v) \/ Grant(v)
    \/ ReadSecret(v) \/ Enable(v) \/ Disable(v) \/ DropChallenges(v)
    \/ AskNewCodes(v) \/ RenewCodes(v)
SignInNext ==
    \/ \E v \in Visits : VisitNext(v)
    \/ \E l \in Links : LinkExpires(l)
    \/ \E s \in sessions : EndSession(s)
    \/ Ban \/ Unban \/ ChallengeExpires \/ StartSetup \/ AdminResetTotp

SignInSpec == SignInInit /\ [][SignInNext]_signInVars

-----------------------------------------------------------------------------
(* Properties.                                                             *)

\* However requests, administrators and failing mails interleave, at most one
\* recovery link of an account works.
OneLiveLink ==
    \A l, m \in Links : links[l] = "live" /\ links[m] = "live" => l = m

\* The password is changed through a link only if no newer link was issued
\* and nobody used it before, although the link is read and checked before the
\* transaction that uses it.
LinkIsLastWord ==
    [][\A v \in Visits : At(v, "reset") /\ era' # era /\ vpc'[v] = "idle"
          => \A l \in Links : l >= visit[v].link =>
                 links[l] = IF l = visit[v].link THEN "live" ELSE "none"]_signInVars

\* What is open to somebody was granted on the current password, and since the
\* last ban, unless the password changed while the sign-in was in progress.
NothingOldOpen ==
    /\ \A s \in sessions : s.era = era \/ s.late
    /\ challenge # NoChal => challenge.era = era \/ challenge.late

\* A recovery code lets somebody in once and only until new ones are made,
\* unless lists of codes were written over each other.
CodesAreSpent ==
    clobbered \/ /\ \A c \in Codes : accepted[c] <= 1 /\ (c \in codes => accepted[c] = 0)
                 /\ codes \subseteq NewSeries(series)
=============================================================================
