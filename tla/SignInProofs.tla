---------------------------- MODULE SignInProofs ----------------------------
(***************************************************************************)
(* Proofs about SignIn, for any visits and bounds.                         *)
(***************************************************************************)
EXTENDS SignIn, FiniteSetTheorems, TLAPS

Places == {"idle", "asked", "issued", "look", "insert", "reset", "change", "login", "code",
           "consume", "verified", "enable", "renew", "drop", "dropall", "grant"}

-----------------------------------------------------------------------------
(* Types. *)

LEMMA NoVisitType == NoVisit \in Visit /\ NoChal \in Chals
BY SignInBounds DEF NoVisit, Visit, NoChal, Chals, Kinds

LEMMA FreshType ==
    ASSUME era \in 0..MaxEra
    PROVE  /\ Fresh \in Visit /\ Fresh.start = era /\ Fresh.codes = {}
           /\ \A l \in 0..MaxLinks : [Fresh EXCEPT !.link = l] \in Visit
           /\ \A k \in Kinds : [Fresh EXCEPT !.kind = k] \in Visit
           /\ \A k \in Kinds, c \in Chals : [Fresh EXCEPT !.kind = k, !.chal = c] \in Visit
BY NoVisitType DEF Fresh, Visit, NoVisit, Kinds

LEMMA NowType ==
    ASSUME era \in 0..MaxEra
    PROVE  [NoChal EXCEPT !.era = era] \in Chals /\ [NoChal EXCEPT !.era = era].era = era
BY NoVisitType DEF NoChal, Chals

LEMMA DoneType ==
    ASSUME SignInTypeOK, NEW v \in Visits, Done(v)
    PROVE  vpc' \in [Visits -> Places] /\ visit' \in [Visits -> Visit]
BY NoVisitType DEF SignInTypeOK, Done, Go, Places

LEMMA BeginType ==
    ASSUME SignInTypeOK, NEW v \in Visits, NEW place \in Places, NEW local \in Visit,
           Begin(v, place, local)
    PROVE  vpc' \in [Visits -> Places] /\ visit' \in [Visits -> Visit]
BY DEF SignInTypeOK, Begin, Go, Places

LEMMA GoType ==
    ASSUME SignInTypeOK, NEW v \in Visits, NEW place \in Places, Go(v, place)
    PROVE  vpc' \in [Visits -> Places]
BY DEF SignInTypeOK, Go, Places

LEMMA NewEraType ==
    ASSUME SignInTypeOK, NEW kept \in SUBSET sessions, NewEra(kept)
    PROVE  /\ era' \in 0..MaxEra /\ sessions' \subseteq Grants
           /\ challenge' \in Chals /\ chals' \in 0..MaxChals
           /\ \A s \in sessions' : s.era = era'
           /\ challenge' = NoChal
<1>1. era \in 0..MaxEra /\ sessions \subseteq Grants /\ chals \in 0..MaxChals
  BY DEF SignInTypeOK
<1>2. era' = era + 1 /\ era + 1 \in 0..MaxEra
  <2>1. era < MaxEra /\ era' = era + 1
    BY DEF NewEra
  <2> QED  BY <1>1, <2>1, SignInBounds
<1>3. ASSUME NEW s \in Grants
      PROVE  /\ [s EXCEPT !.era = era + 1, !.late = FALSE] \in Grants
             /\ [s EXCEPT !.era = era + 1, !.late = FALSE].era = era + 1
  BY <1>2 DEF Grants
<1>4. sessions' = {[s EXCEPT !.era = era + 1, !.late = FALSE] : s \in kept}
  BY DEF NewEra
<1>5. /\ sessions' \subseteq Grants
      /\ \A s \in sessions' : s.era = era + 1
  <2>1. ASSUME NEW t \in sessions' PROVE t \in Grants /\ t.era = era + 1
    <3>1. PICK s \in kept : t = [s EXCEPT !.era = era + 1, !.late = FALSE]
      BY <1>4
    <3>2. s \in Grants
      BY <1>1
    <3> QED  BY <3>1, <3>2, <1>3
  <2> QED  BY <2>1
<1>6. challenge' = NoChal /\ chals' = chals
  BY DEF NewEra
<1> QED  BY <1>1, <1>2, <1>5, <1>6, NoVisitType

LEMMA LinkCountType == NextLink \in Links => NextLink \in 1..MaxLinks
BY DEF Links

LEMMA CodeTypes ==
    ASSUME SignInTypeOK, NEW c \in Codes
    PROVE  /\ [accepted EXCEPT ![c] = @ + 1] \in [Codes -> Nat]
           /\ \A d \in Codes : [accepted EXCEPT ![c] = @ + 1][d]
                                 = accepted[d] + (IF d = c THEN 1 ELSE 0)
BY DEF SignInTypeOK

\* No request's step leaves the types.
LEMMA VisitType ==
    ASSUME SignInTypeOK, NEW v \in Visits, VisitNext(v)
    PROVE  SignInTypeOK'
<1> DEFINE Vary == vpc' \in [Visits -> Places] /\ visit' \in [Visits -> Visit]
<1>0. /\ era \in 0..MaxEra /\ visit \in [Visits -> Visit] /\ visit[v] \in Visit
      /\ links \in [Links -> {"none", "live", "used", "revoked"}]
      /\ sessions \subseteq Grants /\ challenge \in Chals /\ chals \in 0..MaxChals
      /\ visit[v].chal \in Chals /\ visit[v].link \in 0..MaxLinks
      /\ visit[v].kind \in Kinds /\ visit[v].start \in 0..MaxEra
      /\ visit[v].codes \subseteq Codes
  BY DEF SignInTypeOK, Visit
<1>fresh. /\ Fresh \in Visit
          /\ \A l \in 0..MaxLinks : [Fresh EXCEPT !.link = l] \in Visit
          /\ \A k \in Kinds : [Fresh EXCEPT !.kind = k] \in Visit
          /\ \A k \in Kinds, c \in Chals : [Fresh EXCEPT !.kind = k, !.chal = c] \in Visit
  BY <1>0, FreshType
<1> USE DEF Places
<1>1. CASE AskRecovery(v)
  <2>1. Begin(v, "asked", Fresh)
    BY <1>1 DEF AskRecovery
  <2>2. Vary
    BY <2>1, <1>fresh, <1>0, BeginType
  <2> QED  BY <1>1, <2>2 DEF AskRecovery, SignInTypeOK, twoFactor, recovery, granted
<1>2. CASE MailSent(v)
  <2>1. Vary
    BY <1>2, DoneType DEF MailSent
  <2> QED  BY <1>2, <2>1 DEF MailSent, SignInTypeOK, twoFactor, recovery, granted
<1>3. CASE MailFails(v)
  <2>1. Vary
    BY <1>3, <1>0, GoType DEF MailFails
  <2>2. links' \in [Links -> {"none", "live", "used", "revoked"}]
    BY <1>3, <1>0 DEF MailFails
  <2> QED  BY <1>3, <2>1, <2>2 DEF MailFails, SignInTypeOK, twoFactor, recovery, granted
<1>4. CASE NoMail(v)
  <2>1. Vary
    BY <1>4, <1>0, GoType DEF NoMail
  <2> QED  BY <1>4, <2>1 DEF NoMail, SignInTypeOK, twoFactor, recovery, granted
<1>5. CASE \E byAdmin \in BOOLEAN : IssueLink(v, byAdmin)
  <2> PICK byAdmin \in BOOLEAN : IssueLink(v, byAdmin)
    BY <1>5
  <2> DEFINE mine == NextLink
  <2>1. mine \in 0..MaxLinks
    BY LinkCountType, SignInBounds DEF IssueLink
  <2>2. visit' = [visit EXCEPT ![v].link = mine]
    BY DEF IssueLink
  <2>3. visit' \in [Visits -> Visit]
    <3> HIDE DEF mine
    <3>1. [visit[v] EXCEPT !.link = mine] \in Visit
      BY <2>1, <1>0 DEF Visit
    <3> QED  BY <2>2, <3>1, <1>0
  <2>4. vpc' \in [Visits -> Places]
    BY GoType DEF IssueLink
  <2>5. links' \in [Links -> {"none", "live", "used", "revoked"}]
    BY <1>0 DEF IssueLink
  <2>6. sessions' \subseteq Grants /\ challenge' \in Chals
    BY <1>0, NoVisitType DEF IssueLink
  <2>7. pending' \in Nat /\ UNCHANGED <<era, active, totp, codes, series, accepted, clobbered, chals>>
    BY DEF IssueLink, twoFactor
  <2> QED  BY <2>3, <2>4, <2>5, <2>6, <2>7 DEF SignInTypeOK
<1>6. CASE LookForRequest(v)
  <2>1. CASE Done(v)
    BY <1>6, <2>1, DoneType DEF LookForRequest, SignInTypeOK, twoFactor, recovery, granted
  <2>2. CASE Go(v, "insert") /\ UNCHANGED visit
    BY <1>6, <2>2, GoType DEF LookForRequest, SignInTypeOK, twoFactor, recovery, granted
  <2> QED  BY <1>6, <2>1, <2>2 DEF LookForRequest
<1>7. CASE InsertRequest(v)
  <2>1. Vary
    BY <1>7, DoneType DEF InsertRequest
  <2> QED  BY <1>7, <2>1 DEF InsertRequest, SignInTypeOK, twoFactor, recovery, granted
<1>8. CASE \E l \in Links : ReadLink(v, l)
  <2> PICK l \in Links : ReadLink(v, l)
    BY <1>8
  <2>1. Begin(v, "reset", [Fresh EXCEPT !.link = l]) /\ l \in 0..MaxLinks
    BY SignInBounds DEF ReadLink, Links
  <2>2. Vary
    BY <2>1, <1>fresh, BeginType
  <2> QED  BY <2>2 DEF ReadLink, SignInTypeOK, twoFactor, recovery, granted
<1>9. CASE CompleteReset(v)
  <2>1. Vary
    BY <1>9, DoneType DEF CompleteReset
  <2>2. links' \in [Links -> {"none", "live", "used", "revoked"}] /\ pending' \in Nat
    BY <1>9, <1>0 DEF CompleteReset, recovery, SignInTypeOK
  <2>3. era' \in 0..MaxEra /\ sessions' \subseteq Grants
        /\ challenge' \in Chals /\ chals' \in 0..MaxChals
    <3>1. CASE NewEra({})
      BY <3>1, NewEraType
    <3>2. CASE UNCHANGED <<era, granted>>
      BY <3>2, <1>0 DEF granted
    <3> QED  BY <1>9, <3>1, <3>2 DEF CompleteReset
  <2> QED  BY <1>9, <2>1, <2>2, <2>3 DEF CompleteReset, SignInTypeOK, twoFactor
<1>10. CASE ChangePassword(v)
  <2>1. Vary
    BY <1>10, DoneType DEF ChangePassword
  <2>2. PICK kept \in SUBSET sessions : NewEra(kept)
    BY <1>10 DEF ChangePassword
  <2>3. era' \in 0..MaxEra /\ sessions' \subseteq Grants
        /\ challenge' \in Chals /\ chals' \in 0..MaxChals
    BY <2>2, NewEraType
  <2> QED  BY <1>10, <2>1, <2>3 DEF ChangePassword, SignInTypeOK, twoFactor, recovery
<1>11. CASE \E s \in sessions : CheckOldPassword(v, s)
  <2> PICK s \in sessions : CheckOldPassword(v, s)
    BY <1>11
  <2>1. Begin(v, "change", [Fresh EXCEPT !.kind = s.kind]) /\ s.kind \in Kinds
    BY <1>0 DEF CheckOldPassword, Grants
  <2>2. Vary
    BY <2>1, <1>fresh, BeginType
  <2> QED  BY <2>2 DEF CheckOldPassword, SignInTypeOK, twoFactor, recovery, granted
<1>12. CASE \E kind \in Kinds : CheckPassword(v, kind)
  <2> PICK kind \in Kinds : CheckPassword(v, kind)
    BY <1>12
  <2> DEFINE now == [NoChal EXCEPT !.era = era]
  <2>1. now \in Chals
    BY <1>0, NowType
  <2>2. [Fresh EXCEPT !.kind = kind, !.chal = now] \in Visit
    BY <2>1, <1>fresh
  <2>3. \E place \in Places : Begin(v, place, [Fresh EXCEPT !.kind = kind, !.chal = now])
    BY DEF CheckPassword
  <2>4. Vary
    <3> HIDE DEF now
    <3> QED  BY <2>2, <2>3, BeginType
  <2> QED  BY <2>4 DEF CheckPassword, SignInTypeOK, twoFactor, recovery, granted
<1>13. CASE \E kind \in Kinds : ReadChallenge(v, kind)
  <2> PICK kind \in Kinds : ReadChallenge(v, kind)
    BY <1>13
  <2>1. Begin(v, "code", [Fresh EXCEPT !.kind = kind, !.chal = challenge])
    BY DEF ReadChallenge
  <2>2. [Fresh EXCEPT !.kind = kind, !.chal = challenge] \in Visit
    BY <1>0, <1>fresh
  <2>3. Vary
    BY <2>1, <2>2, BeginType
  <2> QED  BY <2>3 DEF ReadChallenge, SignInTypeOK, twoFactor, recovery, granted
<1>14. CASE MakeChallenge(v)
  <2>1. Vary
    BY <1>14, DoneType DEF MakeChallenge
  <2>2. chals + 1 \in 0..MaxChals
    BY <1>14, <1>0, SignInBounds DEF MakeChallenge
  <2>3. challenge' \in Chals
    BY <1>14, <2>2, <1>0 DEF MakeChallenge, Chals
  <2> QED  BY <1>14, <2>1, <2>2, <2>3 DEF MakeChallenge, SignInTypeOK, twoFactor, recovery
<1>15. CASE VerifyTotp(v)
  <2>1. Vary
    BY <1>15, <1>0, GoType DEF VerifyTotp
  <2> QED  BY <1>15, <2>1 DEF VerifyTotp, SignInTypeOK, twoFactor, recovery, granted
<1>16. CASE ReadCodes(v)
  <2>1. vpc' \in [Visits -> Places] /\ visit' = [visit EXCEPT ![v].codes = codes]
    BY <1>16, GoType DEF ReadCodes
  <2>2. visit' \in [Visits -> Visit]
    <3>1. [visit[v] EXCEPT !.codes = codes] \in Visit
      BY <1>0 DEF Visit, SignInTypeOK
    <3> QED  BY <2>1, <3>1, <1>0
  <2> QED  BY <1>16, <2>1, <2>2 DEF ReadCodes, SignInTypeOK, twoFactor, recovery, granted
<1>17. CASE WrongCode(v)
  <2>1. Vary
    BY <1>17, DoneType DEF WrongCode
  <2> QED  BY <1>17, <2>1 DEF WrongCode, SignInTypeOK, twoFactor, recovery, granted
<1>18. CASE \E c \in Codes : ConsumeCode(v, c)
  <2> PICK c \in Codes : ConsumeCode(v, c)
    BY <1>18
  <2>1. vpc' \in [Visits -> Places] /\ visit' = [visit EXCEPT ![v].codes = {}]
    BY GoType DEF ConsumeCode
  <2>2. visit' \in [Visits -> Visit]
    <3>1. [visit[v] EXCEPT !.codes = {}] \in Visit
      BY <1>0 DEF Visit
    <3> QED  BY <2>1, <3>1, <1>0
  <2>3. accepted' \in [Codes -> Nat] /\ codes' \subseteq Codes
    BY <1>0, CodeTypes DEF ConsumeCode
  <2>4. clobbered' \in BOOLEAN
    BY DEF ConsumeCode, SignInTypeOK
  <2> QED  BY <2>1, <2>2, <2>3, <2>4 DEF ConsumeCode, SignInTypeOK, recovery, granted
<1>19. CASE DropChallenge(v)
  <2>1. vpc' \in [Visits -> Places]
    BY <1>19, GoType DEF DropChallenge
  <2>2. challenge' \in Chals
    BY <1>19, <1>0, NoVisitType DEF DropChallenge
  <2> QED  BY <1>19, <2>1, <2>2 DEF DropChallenge, SignInTypeOK, twoFactor, recovery
<1>20. CASE CheckActive(v)
  <2>1. CASE Done(v)
    BY <1>20, <2>1, DoneType DEF CheckActive, SignInTypeOK, twoFactor, recovery, granted
  <2>2. CASE Go(v, "grant") /\ UNCHANGED visit
    BY <1>20, <2>2, GoType DEF CheckActive, SignInTypeOK, twoFactor, recovery, granted
  <2> QED  BY <1>20, <2>1, <2>2 DEF CheckActive
<1>21. CASE Grant(v)
  <2>1. Vary
    BY <1>21, DoneType DEF Grant
  <2>2. [kind |-> visit[v].kind, era |-> visit[v].chal.era,
         late |-> visit[v].chal.late \/ era # visit[v].start] \in Grants
    BY <1>0 DEF Grants, Chals
  <2>3. sessions' \subseteq Grants
    BY <1>21, <2>2, <1>0 DEF Grant
  <2> QED  BY <1>21, <2>1, <2>3 DEF Grant, SignInTypeOK, twoFactor, recovery
<1>22. CASE ReadSecret(v)
  <2>1. Begin(v, "enable", Fresh)
    BY <1>22 DEF ReadSecret
  <2>2. Vary
    BY <2>1, <1>fresh, <1>0, BeginType
  <2> QED  BY <1>22, <2>2 DEF ReadSecret, SignInTypeOK, twoFactor, recovery, granted
<1>23. CASE Enable(v)
  <2>1. vpc' \in [Visits -> Places]
    BY <1>23, GoType DEF Enable
  <2>2. series' \in 0..MaxCodes /\ codes' \subseteq Codes
    BY <1>23, SignInBounds DEF Enable, NewSeries, SignInTypeOK
  <2> QED  BY <1>23, <2>1, <2>2 DEF Enable, SignInTypeOK, recovery, granted
<1>24. CASE Disable(v)
  <2>1. Begin(v, "dropall", Fresh)
    BY <1>24 DEF Disable
  <2>2. Vary
    BY <2>1, <1>fresh, <1>0, BeginType
  <2> QED  BY <1>24, <2>2 DEF Disable, SignInTypeOK, twoFactor, recovery, granted
<1>25. CASE DropChallenges(v)
  <2>1. Vary
    BY <1>25, DoneType DEF DropChallenges
  <2> QED  BY <1>25, <2>1, NoVisitType DEF DropChallenges, SignInTypeOK, twoFactor, recovery
<1>26. CASE AskNewCodes(v)
  <2>1. Begin(v, "renew", Fresh)
    BY <1>26 DEF AskNewCodes
  <2>2. Vary
    BY <2>1, <1>fresh, <1>0, BeginType
  <2> QED  BY <1>26, <2>2 DEF AskNewCodes, SignInTypeOK, twoFactor, recovery, granted
<1>27. CASE RenewCodes(v)
  <2>1. Vary
    BY <1>27, DoneType DEF RenewCodes
  <2>2. series' \in 0..MaxCodes /\ codes' \subseteq Codes
    BY <1>27, SignInBounds DEF RenewCodes, NewSeries, SignInTypeOK
  <2> QED  BY <1>27, <2>1, <2>2 DEF RenewCodes, SignInTypeOK, recovery, granted
<1> QED  BY <1>1, <1>2, <1>3, <1>4, <1>5, <1>6, <1>7, <1>8, <1>9, <1>10, <1>11, <1>12, <1>13, <1>14, <1>15, <1>16, <1>17, <1>18, <1>19, <1>20, <1>21, <1>22, <1>23, <1>24, <1>25, <1>26, <1>27 DEF VisitNext

LEMMA NextType ==
    ASSUME SignInTypeOK, SignInNext
    PROVE  SignInTypeOK'
<1>1. CASE \E v \in Visits : VisitNext(v)
  BY <1>1, VisitType
<1>2. CASE \E l \in Links : LinkExpires(l)
  <2> PICK l \in Links : LinkExpires(l)
    BY <1>2
  <2>1. links' \in [Links -> {"none", "live", "used", "revoked"}]
    BY DEF LinkExpires, SignInTypeOK
  <2> QED  BY <2>1 DEF LinkExpires, SignInTypeOK, twoFactor, granted
<1>3. CASE \E s \in sessions : EndSession(s)
  BY <1>3 DEF EndSession, SignInTypeOK, twoFactor, recovery
<1>4. CASE Ban
  <2>1. era' \in 0..MaxEra /\ sessions' \subseteq Grants
        /\ challenge' \in Chals /\ chals' \in 0..MaxChals
    BY <1>4, NewEraType DEF Ban
  <2> QED  BY <1>4, <2>1 DEF Ban, SignInTypeOK, twoFactor, recovery
<1>5. CASE Unban
  BY <1>5 DEF Unban, SignInTypeOK, twoFactor, recovery, granted
<1>6. CASE ChallengeExpires
  BY <1>6, NoVisitType DEF ChallengeExpires, SignInTypeOK, twoFactor, recovery
<1>7. CASE StartSetup
  BY <1>7 DEF StartSetup, SignInTypeOK, recovery, granted
<1>8. CASE AdminResetTotp
  BY <1>8, NoVisitType DEF AdminResetTotp, SignInTypeOK, recovery
<1> QED  BY <1>1, <1>2, <1>3, <1>4, <1>5, <1>6, <1>7, <1>8 DEF SignInNext

\* The state of the account's credentials and of the requests in progress
\* stays of its type.
THEOREM SignInTypeCorrect == SignInSpec => []SignInTypeOK
<1>1. SignInInit => SignInTypeOK
  <2> SUFFICES ASSUME SignInInit PROVE SignInTypeOK
    OBVIOUS
  <2>1. era \in 0..MaxEra /\ series \in 0..MaxCodes /\ chals \in 0..MaxChals
    BY SignInBounds DEF SignInInit
  <2>2. links \in [Links -> {"none", "live", "used", "revoked"}]
    BY DEF SignInInit
  <2>3. vpc \in [Visits -> Places] /\ visit \in [Visits -> Visit]
    BY NoVisitType DEF SignInInit, Places
  <2>4. accepted \in [Codes -> Nat] /\ clobbered \in BOOLEAN
    BY DEF SignInInit
  <2> QED  BY <2>1, <2>2, <2>3, <2>4, NoVisitType DEF SignInInit, SignInTypeOK, Places
<1>2. SignInTypeOK /\ [SignInNext]_signInVars => SignInTypeOK'
  <2> SUFFICES ASSUME SignInTypeOK, [SignInNext]_signInVars PROVE SignInTypeOK'
    OBVIOUS
  <2>1. CASE SignInNext
    BY <2>1, NextType
  <2>2. CASE UNCHANGED signInVars
    BY <2>2 DEF signInVars, SignInTypeOK
  <2> QED  BY <2>1, <2>2
<1> QED  BY <1>1, <1>2, PTL DEF SignInSpec

-----------------------------------------------------------------------------
(* Links.                                                                  *)

\* A step of one request leaves the others where they are.
LEMMA OthersStay ==
    ASSUME SignInTypeOK, NEW v \in Visits, VisitNext(v), NEW w \in Visits, w # v
    PROVE  vpc'[w] = vpc[w] /\ visit'[w] = visit[w]
<1>0. vpc \in [Visits -> Places] /\ visit \in [Visits -> Visit]
  BY DEF SignInTypeOK, Places
<1>1. ASSUME NEW place, Go(v, place) PROVE vpc'[w] = vpc[w]
  BY <1>0, <1>1 DEF Go
<1>2. ASSUME Done(v) PROVE vpc'[w] = vpc[w] /\ visit'[w] = visit[w]
  BY <1>0, <1>2 DEF Done, Go
<1>3. ASSUME NEW place, NEW local, Begin(v, place, local)
      PROVE  vpc'[w] = vpc[w] /\ visit'[w] = visit[w]
  BY <1>0, <1>3 DEF Begin, Go
<1>4. CASE AskRecovery(v) \/ ReadSecret(v) \/ Disable(v) \/ AskNewCodes(v)
  BY <1>3, <1>4 DEF AskRecovery, ReadSecret, Disable, AskNewCodes
<1>5. CASE MailSent(v) \/ InsertRequest(v) \/ CompleteReset(v) \/ ChangePassword(v)
           \/ MakeChallenge(v) \/ WrongCode(v) \/ Grant(v) \/ DropChallenges(v)
           \/ RenewCodes(v)
  BY <1>2, <1>5 DEF MailSent, InsertRequest, CompleteReset, ChangePassword,
     MakeChallenge, WrongCode, Grant, DropChallenges, RenewCodes
<1>6. CASE MailFails(v) \/ NoMail(v) \/ VerifyTotp(v) \/ DropChallenge(v) \/ Enable(v)
  BY <1>1, <1>6 DEF MailFails, NoMail, VerifyTotp, DropChallenge, Enable
<1>7. CASE LookForRequest(v) \/ CheckActive(v)
  BY <1>1, <1>2, <1>7 DEF LookForRequest, CheckActive
<1>8. CASE \E byAdmin \in BOOLEAN : IssueLink(v, byAdmin)
  <2>1. visit' = [visit EXCEPT ![v].link = NextLink]
    BY <1>8 DEF IssueLink
  <2> QED  BY <1>0, <1>1, <1>8, <2>1 DEF IssueLink
<1>9. CASE ReadCodes(v)
  BY <1>0, <1>1, <1>9 DEF ReadCodes
<1>10. CASE \E c \in Codes : ConsumeCode(v, c)
  BY <1>0, <1>1, <1>10 DEF ConsumeCode
<1>11. CASE \/ \E l \in Links : ReadLink(v, l)
            \/ \E s \in sessions : CheckOldPassword(v, s)
  BY <1>3, <1>11 DEF ReadLink, CheckOldPassword
<1>12. CASE \E kind \in Kinds : CheckPassword(v, kind) \/ ReadChallenge(v, kind)
  BY <1>3, <1>12 DEF CheckPassword, ReadChallenge
<1> QED  BY <1>4, <1>5, <1>6, <1>7, <1>8, <1>9, <1>10, <1>11, <1>12 DEF VisitNext

\* The first k links were issued, and only the last of them may work.
Issued(k, f) == \A l \in Links : /\ f[l] # "none" <=> l <= k
                                 /\ f[l] = "live" => l = k
LinkOrder == \E k \in 0..MaxLinks : Issued(k, links)
\* A request holds a link that was issued.
LinkHeld(v) ==
    /\ At(v, "issued") => visit[v].link \in Links /\ links[visit[v].link] # "none"
    /\ At(v, "reset") => visit[v].link \in Links
LinkInv == LinkOrder /\ \A v \in Visits : LinkHeld(v)

\* What a step may do to the links: nothing, or issue the next one, or end some.
LinkAdded ==
    /\ NextLink \in Links /\ links'[NextLink] = "live"
    /\ \A l \in Links \ {NextLink} :
         links'[l] # "live" /\ (links'[l] # "none" <=> links[l] # "none")
LinksEnd ==
    \A l \in Links : /\ (links'[l] # "none") <=> (links[l] # "none")
                     /\ (links'[l] = "live") => (links[l] = "live")
LinkStep == UNCHANGED links \/ LinkAdded \/ LinksEnd

LEMMA NextIsNew ==
    ASSUME NEW k \in 0..MaxLinks, Issued(k, links)
    PROVE  NextLink = k + 1
<1>1. {l \in Links : links[l] # "none"} = 1..k
  BY SignInBounds DEF Issued, Links
<1>2. Cardinality(1..k) = k
  <2>1. Cardinality(1..k) = IF 1 > k THEN 0 ELSE k - 1 + 1
    BY FS_Interval
  <2> QED  BY <2>1, SignInBounds
<1>3. Cardinality({l \in Links : links[l] # "none"}) = k
  BY <1>1, <1>2
<1> QED  BY <1>3, SignInBounds DEF NextLink

LEMMA OrderKept ==
    ASSUME SignInTypeOK, LinkOrder, LinkStep
    PROVE  LinkOrder' /\ \A l \in Links : links[l] # "none" => links'[l] # "none"
<1> PICK k \in 0..MaxLinks : Issued(k, links)
  BY DEF LinkOrder
<1>1. NextLink = k + 1
  BY NextIsNew
<1>2. CASE UNCHANGED links
  BY <1>2 DEF LinkOrder, Issued
<1>3. CASE LinkAdded
  <2> USE <1>3 DEF LinkAdded
  <2>1. k + 1 \in 0..MaxLinks /\ k + 1 \in Links
    BY <1>1, <1>3, SignInBounds DEF Links
  <2>2. ASSUME NEW l \in Links
        PROVE  (links'[l] # "none" <=> l <= k + 1) /\ (links'[l] = "live" => l = k + 1)
    <3>1. CASE l = k + 1
      BY <3>1, <1>1, <1>3
    <3>2. CASE l # k + 1
      <4>1. l \in Links \ {NextLink}
        BY <3>2, <1>1
      <4>2. links'[l] # "live" /\ (links'[l] # "none" <=> links[l] # "none")
        BY <4>1, <1>3
      <4>3. links[l] # "none" <=> l <= k
        BY DEF Issued
      <4> QED  BY <3>2, <4>2, <4>3, SignInBounds DEF Links
    <3> QED  BY <3>1, <3>2
  <2>4. \A l \in Links : links[l] # "none" => links'[l] # "none"
    BY <1>3
  <2> QED  BY <2>1, <2>2, <2>4 DEF LinkOrder, Issued
<1>4. CASE LinksEnd
  <2>1. ASSUME NEW l \in Links
        PROVE  (links'[l] # "none" <=> l <= k) /\ (links'[l] = "live" => l = k)
    <3>1. (links[l] # "none" <=> l <= k) /\ (links[l] = "live" => l = k)
      BY DEF Issued
    <3>2. /\ (links'[l] # "none") <=> (links[l] # "none")
          /\ (links'[l] = "live") => (links[l] = "live")
      BY <1>4 DEF LinksEnd
    <3> QED  BY <3>1, <3>2
  <2> QED  BY <2>1, <1>4 DEF LinkOrder, Issued, LinksEnd
<1> QED  BY <1>2, <1>3, <1>4 DEF LinkStep

\* The step of one request: the links, and the link it holds afterwards.
LEMMA VisitLinks ==
    ASSUME SignInTypeOK, LinkInv, NEW v \in Visits, VisitNext(v)
    PROVE  LinkStep /\ LinkHeld(v)'
<1>0. /\ vpc \in [Visits -> Places] /\ visit \in [Visits -> Visit] /\ LinkHeld(v)
      /\ links \in [Links -> {"none", "live", "used", "revoked"}]
      /\ visit[v] \in Visit
  BY DEF SignInTypeOK, Places, LinkInv
<1>1. ASSUME NEW place, Go(v, place) PROVE vpc'[v] = place
  BY <1>0, <1>1 DEF Go
<1>2. ASSUME Done(v) PROVE vpc'[v] = "idle"
  BY <1>0, <1>2 DEF Done, Go
<1>3. ASSUME NEW place, NEW local, Begin(v, place, local)
      PROVE  vpc'[v] = place /\ visit'[v] = local
  BY <1>0, <1>3 DEF Begin, Go
<1>4. CASE AskRecovery(v) \/ ReadSecret(v) \/ Disable(v) \/ AskNewCodes(v)
  BY <1>3, <1>4 DEF AskRecovery, ReadSecret, Disable, AskNewCodes, LinkStep, LinkHeld,
     At, recovery
<1>5. CASE MailSent(v) \/ InsertRequest(v) \/ ChangePassword(v)
           \/ MakeChallenge(v) \/ WrongCode(v) \/ Grant(v) \/ DropChallenges(v)
           \/ RenewCodes(v)
  BY <1>2, <1>5 DEF MailSent, InsertRequest, ChangePassword, MakeChallenge, WrongCode,
     Grant, DropChallenges, RenewCodes, LinkStep, LinkHeld, At, recovery
<1>6. CASE NoMail(v) \/ VerifyTotp(v) \/ DropChallenge(v) \/ Enable(v)
  BY <1>1, <1>6 DEF NoMail, VerifyTotp, DropChallenge, Enable, LinkStep, LinkHeld,
     At, recovery
<1>7. CASE LookForRequest(v) \/ CheckActive(v)
  BY <1>1, <1>2, <1>7 DEF LookForRequest, CheckActive, LinkStep, LinkHeld, At, recovery
<1>8. CASE \E byAdmin \in BOOLEAN : IssueLink(v, byAdmin)
  <2> PICK byAdmin \in BOOLEAN : IssueLink(v, byAdmin)
    BY <1>8
  <2>1. LinkAdded
    BY <1>0 DEF IssueLink, LinkAdded
  <2>2. vpc'[v] \in {"idle", "issued"}
    BY <1>1 DEF IssueLink
  <2>3. visit'[v].link = NextLink
    <3> DEFINE mine == NextLink
    <3>1. visit' = [visit EXCEPT ![v].link = mine]
      BY DEF IssueLink
    <3>2. visit'[v] = [visit[v] EXCEPT !.link = mine]
      BY <3>1, <1>0
    <3> HIDE DEF mine
    <3>3. visit'[v].link = mine
      BY <3>2, <1>0 DEF Visit
    <3> QED  BY <3>3 DEF mine
  <2>4. visit'[v].link \in Links /\ links'[visit'[v].link] # "none"
    BY <2>1, <2>3 DEF LinkAdded
  <2>5. vpc'[v] # "reset"
    BY <2>2
  <2>6. LinkHeld(v)'
    BY <2>4, <2>5 DEF LinkHeld, At
  <2> QED  BY <2>1, <2>6 DEF LinkStep
<1>9. CASE ReadCodes(v)
  BY <1>1, <1>9 DEF ReadCodes, LinkStep, LinkHeld, At, recovery
<1>10. CASE \E c \in Codes : ConsumeCode(v, c)
  BY <1>1, <1>10 DEF ConsumeCode, LinkStep, LinkHeld, At, recovery
<1>11. CASE \E l \in Links : ReadLink(v, l)
  <2> PICK l \in Links : ReadLink(v, l)
    BY <1>11
  <2>1. vpc'[v] = "reset" /\ visit'[v] = [Fresh EXCEPT !.link = l]
    BY <1>3 DEF ReadLink
  <2>2. visit'[v].link = l
    BY <2>1, FreshType DEF Fresh, NoVisit
  <2> QED  BY <2>1, <2>2 DEF ReadLink, LinkStep, LinkHeld, At, recovery
<1>12. CASE \E s \in sessions : CheckOldPassword(v, s)
  BY <1>3, <1>12 DEF CheckOldPassword, LinkStep, LinkHeld, At, recovery
<1>13. CASE \E kind \in Kinds : CheckPassword(v, kind) \/ ReadChallenge(v, kind)
  <2> PICK kind \in Kinds : CheckPassword(v, kind) \/ ReadChallenge(v, kind)
    BY <1>13
  <2>1. vpc'[v] \in {"login", "verified", "code"}
    BY <1>3 DEF CheckPassword, ReadChallenge
  <2> QED  BY <2>1 DEF CheckPassword, ReadChallenge, LinkStep, LinkHeld, At, recovery
<1>14. CASE MailFails(v)
  <2>1. LinksEnd
    BY <1>0, <1>14 DEF MailFails, LinkHeld, At, LinksEnd
  <2>2. LinkStep
    BY <2>1 DEF LinkStep
  <2> QED  BY <1>1, <1>14, <2>2 DEF MailFails, LinkHeld, At
<1>15. CASE CompleteReset(v)
  <2>1. vpc'[v] = "idle"
    BY <1>2, <1>15 DEF CompleteReset
  <2>2. LinkStep
    <3>1. CASE links[visit[v].link] = "live"
      BY <1>0, <1>15, <3>1 DEF CompleteReset, LinkStep, LinksEnd, LinkHeld, At
    <3>2. CASE links[visit[v].link] # "live"
      BY <1>15, <3>2 DEF CompleteReset, LinkStep, recovery
    <3> QED  BY <3>1, <3>2
  <2> QED  BY <2>1, <2>2 DEF LinkHeld, At
<1> QED  BY <1>4, <1>5, <1>6, <1>7, <1>8, <1>9, <1>10, <1>11, <1>12, <1>13, <1>14, <1>15
         DEF VisitNext

LEMMA LinkInductive ==
    ASSUME SignInTypeOK, LinkInv, [SignInNext]_signInVars
    PROVE  LinkInv'
<1>1. CASE \E v \in Visits : VisitNext(v)
  <2> PICK v \in Visits : VisitNext(v)
    BY <1>1
  <2>1. LinkStep /\ LinkHeld(v)'
    BY VisitLinks
  <2>2. LinkOrder' /\ \A l \in Links : links[l] # "none" => links'[l] # "none"
    BY <2>1, OrderKept DEF LinkInv
  <2>3. ASSUME NEW w \in Visits, w # v PROVE LinkHeld(w)'
    BY <2>2, <2>3, OthersStay DEF LinkInv, LinkHeld, At
  <2> QED  BY <2>1, <2>2, <2>3 DEF LinkInv
<1>2. CASE \E l \in Links : LinkExpires(l)
  <2> PICK l \in Links : LinkExpires(l)
    BY <1>2
  <2>1. LinksEnd
    BY DEF LinkExpires, SignInTypeOK, LinksEnd
  <2> LinkStep
    BY <2>1 DEF LinkStep
  <2>2. LinkOrder' /\ \A m \in Links : links[m] # "none" => links'[m] # "none"
    BY OrderKept DEF LinkInv
  <2>3. UNCHANGED <<vpc, visit>>
    BY DEF LinkExpires
  <2>4. ASSUME NEW w \in Visits PROVE LinkHeld(w)'
    BY <2>2, <2>3 DEF LinkInv, LinkHeld, At
  <2> QED  BY <2>2, <2>4 DEF LinkInv
<1>3. CASE UNCHANGED <<links, vpc, visit>>
  BY <1>3 DEF LinkInv, LinkOrder, Issued, LinkHeld, At
<1>4. CASE (\E s \in sessions : EndSession(s)) \/ Ban \/ Unban \/ ChallengeExpires
           \/ StartSetup \/ AdminResetTotp
  BY <1>3, <1>4 DEF EndSession, Ban, Unban, ChallengeExpires, StartSetup, AdminResetTotp,
     recovery
<1> QED  BY <1>1, <1>2, <1>3, <1>4 DEF SignInNext, signInVars

LEMMA LinkInvariant == SignInSpec => []LinkInv
<1>1. SignInInit => LinkInv
  <2> SUFFICES ASSUME SignInInit PROVE LinkInv
    OBVIOUS
  <2>1. Issued(0, links)
    BY DEF SignInInit, Issued, Links
  <2>2. \A v \in Visits : LinkHeld(v)
    BY DEF SignInInit, LinkHeld, At
  <2> QED  BY <2>1, <2>2, SignInBounds DEF LinkInv, LinkOrder
<1> QED  BY <1>1, LinkInductive, SignInTypeCorrect, PTL DEF SignInSpec

\* However requests, administrators and failing mails interleave, at most one
\* recovery link of the account works: the one issued last.
THEOREM OneLiveLinkCorrect == SignInSpec => []OneLiveLink
<1>1. LinkInv => OneLiveLink
  BY DEF LinkInv, LinkOrder, Issued, OneLiveLink
<1> QED  BY <1>1, LinkInvariant, PTL

\* The password is changed through a link only while it is the newest one and
\* nobody used it, although it is read and checked before the transaction.
THEOREM LinkIsLastWordCorrect == SignInSpec => LinkIsLastWord
<1> DEFINE Step == \A v \in Visits : At(v, "reset") /\ era' # era /\ vpc'[v] = "idle"
                     => \A l \in Links : l >= visit[v].link =>
                          links[l] = IF l = visit[v].link THEN "live" ELSE "none"
<1>1. SignInTypeOK /\ LinkInv /\ [SignInNext]_signInVars => [Step]_signInVars
  <2> SUFFICES ASSUME SignInTypeOK, LinkInv, SignInNext,
                      NEW v \in Visits, At(v, "reset"), era' # era, vpc'[v] = "idle",
                      NEW l \in Links, l >= visit[v].link
               PROVE  links[l] = IF l = visit[v].link THEN "live" ELSE "none"
    BY DEF signInVars
  <2>1. vpc \in [Visits -> Places] /\ vpc'[v] # vpc[v]
    BY DEF SignInTypeOK, At, Places
  <2>2. CASE VisitNext(v)
    <3>1. CompleteReset(v)
      BY <2>2 DEF VisitNext, At, Begin, AskRecovery, MailSent, MailFails, NoMail, IssueLink,
         LookForRequest, InsertRequest, ReadLink, ChangePassword, CheckOldPassword,
         CheckPassword, ReadChallenge, MakeChallenge, VerifyTotp, ReadCodes, WrongCode,
         ConsumeCode, DropChallenge, CheckActive, Grant, ReadSecret, Enable, Disable,
         DropChallenges, AskNewCodes, RenewCodes
    <3>2. links[visit[v].link] = "live"
      BY <3>1 DEF CompleteReset
    <3>3. visit[v].link \in Links
      BY DEF LinkInv, LinkHeld
    <3>4. PICK k \in 0..MaxLinks : Issued(k, links)
      BY DEF LinkInv, LinkOrder
    <3> QED  BY <3>2, <3>3, <3>4, SignInBounds DEF Issued, Links
  <2>3. CASE \E w \in Visits \ {v} : VisitNext(w)
    BY <2>1, <2>3, OthersStay
  <2>4. CASE UNCHANGED vpc
    BY <2>1, <2>4
  <2>5. CASE (\E m \in Links : LinkExpires(m)) \/ (\E s \in sessions : EndSession(s))
             \/ Ban \/ Unban \/ ChallengeExpires \/ StartSetup \/ AdminResetTotp
    BY <2>4, <2>5 DEF LinkExpires, EndSession, Ban, Unban, ChallengeExpires, StartSetup,
       AdminResetTotp
  <2> QED  BY <2>2, <2>3, <2>5 DEF SignInNext
<1> QED  BY <1>1, LinkInvariant, SignInTypeCorrect, PTL DEF SignInSpec, LinkIsLastWord

-----------------------------------------------------------------------------
(* What is open.                                                           *)

SigningIn == {"code", "consume", "drop", "verified", "grant"}
\* What a request in progress will grant was checked against the password of
\* its start, or is known to be late.
ChalFits(v) ==
    /\ At(v, "login") => visit[v].chal.era = visit[v].start
    /\ vpc[v] \in SigningIn => visit[v].chal.era = visit[v].start \/ visit[v].chal.late
OpenInv == NothingOldOpen /\ \A v \in Visits : ChalFits(v)

\* What is open afterwards was open before, or is new.
OpenLess ==
    /\ era' = era
    /\ sessions' \subseteq sessions
    /\ challenge' = challenge \/ challenge' = NoChal

LEMMA LessIsOld ==
    ASSUME NothingOldOpen, OpenLess
    PROVE  NothingOldOpen'
BY DEF NothingOldOpen, OpenLess

LEMMA NewEraOpens ==
    ASSUME SignInTypeOK, NEW kept \in SUBSET sessions, NewEra(kept)
    PROVE  NothingOldOpen'
BY NewEraType DEF NothingOldOpen

LEMMA VisitOpens ==
    ASSUME SignInTypeOK, OpenInv, NEW v \in Visits, VisitNext(v)
    PROVE  NothingOldOpen' /\ ChalFits(v)'
<1>0. /\ vpc \in [Visits -> Places] /\ visit \in [Visits -> Visit] /\ ChalFits(v)
      /\ NothingOldOpen /\ visit[v] \in Visit /\ era \in 0..MaxEra /\ challenge \in Chals
  BY DEF SignInTypeOK, Places, OpenInv
<1>1. ASSUME NEW place, Go(v, place) PROVE vpc'[v] = place
  BY <1>0, <1>1 DEF Go
<1>2. ASSUME Done(v) PROVE vpc'[v] = "idle"
  BY <1>0, <1>2 DEF Done, Go
<1>3. ASSUME NEW place, NEW local, Begin(v, place, local)
      PROVE  vpc'[v] = place /\ visit'[v] = local
  BY <1>0, <1>3 DEF Begin, Go
<1>4. ASSUME vpc'[v] \notin SigningIn \cup {"login"} PROVE ChalFits(v)'
  BY <1>4 DEF ChalFits, At
<1>5. ASSUME vpc[v] \in SigningIn, visit'[v].chal = visit[v].chal,
             visit'[v].start = visit[v].start, vpc'[v] # "login"
      PROVE  ChalFits(v)'
  BY <1>0, <1>5 DEF ChalFits, At
<1>6. CASE AskRecovery(v) \/ ReadSecret(v) \/ Disable(v) \/ AskNewCodes(v)
           \/ (\E l \in Links : ReadLink(v, l))
           \/ (\E s \in sessions : CheckOldPassword(v, s))
  <2>1. ChalFits(v)'
    <3>1. CASE AskRecovery(v) \/ ReadSecret(v) \/ Disable(v) \/ AskNewCodes(v)
      BY <1>3, <1>4, <3>1 DEF AskRecovery, ReadSecret, Disable, AskNewCodes, SigningIn
    <3>2. CASE \E l \in Links : ReadLink(v, l)
      BY <1>3, <1>4, <3>2 DEF ReadLink, SigningIn
    <3>3. CASE \E s \in sessions : CheckOldPassword(v, s)
      BY <1>3, <1>4, <3>3 DEF CheckOldPassword, SigningIn
    <3> QED  BY <1>6, <3>1, <3>2, <3>3
  <2>2. OpenLess
    BY <1>6 DEF AskRecovery, ReadSecret, Disable, AskNewCodes, ReadLink,
       CheckOldPassword, OpenLess, granted
  <2> QED  BY <1>0, <2>1, <2>2, LessIsOld
<1>7. CASE MailSent(v) \/ InsertRequest(v) \/ WrongCode(v) \/ DropChallenges(v)
           \/ RenewCodes(v)
  <2>1. ChalFits(v)'
    BY <1>2, <1>4, <1>7 DEF MailSent, InsertRequest, WrongCode, DropChallenges, RenewCodes,
       SigningIn
  <2>2. OpenLess
    BY <1>7 DEF MailSent, InsertRequest, WrongCode, DropChallenges, RenewCodes, OpenLess,
       granted
  <2> QED  BY <1>0, <2>1, <2>2, LessIsOld
<1>8. CASE MailFails(v) \/ NoMail(v) \/ Enable(v) \/ LookForRequest(v)
  <2>1. ChalFits(v)'
    BY <1>1, <1>2, <1>4, <1>8 DEF MailFails, NoMail, Enable, LookForRequest, SigningIn
  <2>2. OpenLess
    BY <1>8 DEF MailFails, NoMail, Enable, LookForRequest, OpenLess, granted
  <2> QED  BY <1>0, <2>1, <2>2, LessIsOld
<1>9. CASE \E byAdmin \in BOOLEAN : IssueLink(v, byAdmin)
  <2>1. ChalFits(v)'
    BY <1>1, <1>4, <1>9 DEF IssueLink, SigningIn
  <2>2. OpenLess
    BY <1>9 DEF IssueLink, OpenLess
  <2> QED  BY <1>0, <2>1, <2>2, LessIsOld
<1>10. CASE VerifyTotp(v) \/ DropChallenge(v) \/ CheckActive(v)
  <2>1. ChalFits(v)'
    <3>1. CASE visit' = visit
      <4>1. vpc[v] \in SigningIn
        BY <1>10 DEF VerifyTotp, DropChallenge, CheckActive, SigningIn, At
      <4>2. vpc'[v] # "login"
        BY <1>1, <1>2, <1>10 DEF VerifyTotp, DropChallenge, CheckActive
      <4> QED  BY <1>5, <3>1, <4>1, <4>2
    <3>2. CASE Done(v)
      BY <1>2, <1>4, <3>2 DEF SigningIn
    <3> QED  BY <1>10, <3>1, <3>2 DEF VerifyTotp, DropChallenge, CheckActive
  <2>2. OpenLess
    BY <1>10 DEF VerifyTotp, DropChallenge, CheckActive, OpenLess, granted
  <2> QED  BY <1>0, <2>1, <2>2, LessIsOld
<1>11. CASE ReadCodes(v)
  <2>1. visit'[v] = [visit[v] EXCEPT !.codes = codes] /\ vpc'[v] = "consume" /\ vpc[v] = "code"
    BY <1>0, <1>1, <1>11 DEF ReadCodes, At
  <2>2. visit'[v].chal = visit[v].chal /\ visit'[v].start = visit[v].start
    BY <1>0, <2>1 DEF Visit
  <2>3. ChalFits(v)'
    BY <1>5, <2>1, <2>2 DEF SigningIn
  <2>4. OpenLess
    BY <1>11 DEF ReadCodes, OpenLess, granted
  <2> QED  BY <1>0, <2>3, <2>4, LessIsOld
<1>12. CASE \E c \in Codes : ConsumeCode(v, c)
  <2>1. visit'[v] = [visit[v] EXCEPT !.codes = {}] /\ vpc'[v] = "drop" /\ vpc[v] = "consume"
    BY <1>0, <1>1, <1>12 DEF ConsumeCode, At
  <2>2. visit'[v].chal = visit[v].chal /\ visit'[v].start = visit[v].start
    BY <1>0, <2>1 DEF Visit
  <2>3. ChalFits(v)'
    BY <1>5, <2>1, <2>2 DEF SigningIn
  <2>4. OpenLess
    BY <1>12 DEF ConsumeCode, OpenLess, granted
  <2> QED  BY <1>0, <2>3, <2>4, LessIsOld
<1>13. CASE \E kind \in Kinds : CheckPassword(v, kind)
  <2> PICK kind \in Kinds : CheckPassword(v, kind)
    BY <1>13
  <2> DEFINE now == [NoChal EXCEPT !.era = era]
  <2>1. visit'[v] = [Fresh EXCEPT !.kind = kind, !.chal = now]
    BY <1>3 DEF CheckPassword
  <2>2. now.era = era
    BY <1>0, NowType
  <2>3. visit'[v].chal.era = visit'[v].start
    <3> HIDE DEF now
    <3> QED  BY <1>0, <2>1, <2>2, FreshType DEF Visit
  <2>4. ChalFits(v)'
    BY <2>3 DEF ChalFits
  <2>5. OpenLess
    BY DEF CheckPassword, OpenLess, granted
  <2> QED  BY <1>0, <2>4, <2>5, LessIsOld
<1>14. CASE \E kind \in Kinds : ReadChallenge(v, kind)
  <2> PICK kind \in Kinds : ReadChallenge(v, kind)
    BY <1>14
  <2>1. visit'[v] = [Fresh EXCEPT !.kind = kind, !.chal = challenge] /\ vpc'[v] = "code"
    BY <1>3 DEF ReadChallenge
  <2>2. visit'[v].chal = challenge /\ visit'[v].start = era
    BY <1>0, <2>1, FreshType DEF Visit
  <2>3. challenge.era = era \/ challenge.late
    BY <1>0 DEF ReadChallenge, NothingOldOpen
  <2>4. ChalFits(v)'
    BY <2>1, <2>2, <2>3 DEF ChalFits, At
  <2>5. OpenLess
    BY DEF ReadChallenge, OpenLess, granted
  <2> QED  BY <1>0, <2>4, <2>5, LessIsOld
<1>15. CASE MakeChallenge(v)
  <2>1. ChalFits(v)'
    BY <1>2, <1>4, <1>15 DEF MakeChallenge, SigningIn
  <2>2. challenge'.era = visit[v].chal.era /\ challenge'.late = (era # visit[v].start)
    BY <1>15 DEF MakeChallenge
  <2>3. visit[v].chal.era = visit[v].start
    BY <1>0, <1>15 DEF MakeChallenge, ChalFits
  <2>4. era' = era /\ sessions' = sessions
    BY <1>15 DEF MakeChallenge
  <2>5. challenge'.era = era' \/ challenge'.late
    BY <2>2, <2>3, <2>4
  <2> QED  BY <1>0, <2>1, <2>4, <2>5 DEF NothingOldOpen
<1>16. CASE Grant(v)
  <2> DEFINE new == [kind |-> visit[v].kind, era |-> visit[v].chal.era,
                     late |-> visit[v].chal.late \/ era # visit[v].start]
  <2>1. ChalFits(v)'
    BY <1>2, <1>4, <1>16 DEF Grant, SigningIn
  <2>2. visit[v].chal.era = visit[v].start \/ visit[v].chal.late
    BY <1>0, <1>16 DEF Grant, ChalFits, SigningIn, At
  <2>3. new.era = era \/ new.late
    BY <2>2
  <2>4. era' = era /\ sessions' = sessions \cup {new} /\ challenge' = challenge
    BY <1>16 DEF Grant
  <2>5. \A s \in sessions : s.era = era \/ s.late
    BY <1>0 DEF NothingOldOpen
  <2>6. \A s \in sessions' : s.era = era' \/ s.late
    <3> HIDE DEF new
    <3> QED  BY <2>3, <2>4, <2>5
  <2>7. challenge' # NoChal => challenge'.era = era' \/ challenge'.late
    BY <1>0, <2>4 DEF NothingOldOpen
  <2> QED  BY <2>1, <2>6, <2>7 DEF NothingOldOpen
<1>17. CASE CompleteReset(v)
  <2>1. ChalFits(v)'
    BY <1>2, <1>4, <1>17 DEF CompleteReset, SigningIn
  <2>2. CASE NewEra({})
    BY <2>1, <2>2, NewEraOpens
  <2>3. CASE UNCHANGED <<era, granted>>
    BY <1>0, <2>1, <2>3 DEF NothingOldOpen, granted
  <2> QED  BY <1>17, <2>2, <2>3 DEF CompleteReset
<1>18. CASE ChangePassword(v)
  <2>1. ChalFits(v)'
    BY <1>2, <1>4, <1>18 DEF ChangePassword, SigningIn
  <2>2. PICK kept \in SUBSET sessions : NewEra(kept)
    BY <1>18 DEF ChangePassword
  <2> QED  BY <2>1, <2>2, NewEraOpens
<1> QED  BY <1>6, <1>7, <1>8, <1>9, <1>10, <1>11, <1>12, <1>13, <1>14, <1>15, <1>16, <1>17,
         <1>18 DEF VisitNext

LEMMA OpenInductive ==
    ASSUME SignInTypeOK, OpenInv, [SignInNext]_signInVars
    PROVE  OpenInv'
<1>1. CASE \E v \in Visits : VisitNext(v)
  <2> PICK v \in Visits : VisitNext(v)
    BY <1>1
  <2>1. NothingOldOpen' /\ ChalFits(v)'
    BY VisitOpens
  <2>2. ASSUME NEW w \in Visits, w # v PROVE ChalFits(w)'
    BY <2>2, OthersStay DEF OpenInv, ChalFits, At
  <2> QED  BY <2>1, <2>2 DEF OpenInv
<1>2. ASSUME UNCHANGED <<vpc, visit>>, NothingOldOpen' PROVE OpenInv'
  BY <1>2 DEF OpenInv, ChalFits, At
<1>3. CASE (\E l \in Links : LinkExpires(l)) \/ (\E s \in sessions : EndSession(s))
           \/ Unban \/ ChallengeExpires \/ StartSetup \/ AdminResetTotp
  <2>1. OpenLess /\ UNCHANGED <<vpc, visit>>
    BY <1>3 DEF LinkExpires, EndSession, Unban, ChallengeExpires, StartSetup, AdminResetTotp,
       OpenLess, granted
  <2> QED  BY <1>2, <2>1, LessIsOld DEF OpenInv
<1>4. CASE Ban
  BY <1>2, <1>4, NewEraOpens DEF Ban
<1>5. CASE UNCHANGED signInVars
  BY <1>2, <1>5 DEF signInVars, OpenInv, NothingOldOpen
<1> QED  BY <1>1, <1>3, <1>4, <1>5 DEF SignInNext

\* Sessions, Android sessions and challenges that are open were granted on the
\* current password and since the last ban, unless the password changed while
\* the sign-in was in progress.
THEOREM NothingOldOpenCorrect == SignInSpec => []NothingOldOpen
<1>1. SignInInit => OpenInv
  BY DEF SignInInit, OpenInv, NothingOldOpen, ChalFits, SigningIn, At
<1>2. OpenInv => NothingOldOpen
  BY DEF OpenInv
<1> QED  BY <1>1, <1>2, OpenInductive, SignInTypeCorrect, PTL DEF SignInSpec

-----------------------------------------------------------------------------
(* Recovery codes.                                                         *)

\* Codes of a series that is still to come let nobody in.
CodesInv ==
    clobbered \/ /\ \A c \in Codes : accepted[c] <= 1 /\ (c \in codes => accepted[c] = 0)
                 /\ codes \subseteq NewSeries(series)
                 /\ \A c \in Codes : c[1] > series => accepted[c] = 0

LEMMA CodesFewer ==
    ASSUME SignInTypeOK, CodesInv, codes' \in {codes, {}}, UNCHANGED <<series, accepted, clobbered>>
    PROVE  CodesInv'
BY DEF CodesInv, NewSeries

LEMMA CodesRenewed ==
    ASSUME SignInTypeOK, CodesInv, series' = series + 1, codes' = NewSeries(series + 1),
           UNCHANGED <<accepted, clobbered>>
    PROVE  CodesInv'
<1>1. CASE clobbered
  BY <1>1 DEF CodesInv
<1>2. CASE ~clobbered
  <2>1. /\ \A c \in Codes : accepted[c] <= 1
        /\ \A c \in Codes : c[1] > series => accepted[c] = 0
    BY <1>2 DEF CodesInv
  <2>2. series \in Nat /\ \A c \in Codes : c[1] \in Nat
    BY SignInBounds DEF SignInTypeOK, Codes
  <2>3. \A c \in Codes : (c \in codes' => accepted[c] = 0)
                       /\ (c[1] > series' => accepted[c] = 0)
    BY <2>1, <2>2 DEF NewSeries
  <2>4. codes' \subseteq NewSeries(series')
    BY DEF NewSeries
  <2>5. \A c \in Codes : accepted'[c] = accepted[c]
    OBVIOUS
  <2> QED  BY <2>1, <2>3, <2>4, <2>5 DEF CodesInv, NewSeries
<1> QED  BY <1>1, <1>2

LEMMA CodeConsumed ==
    ASSUME SignInTypeOK, CodesInv, NEW v \in Visits, NEW c \in Codes, ConsumeCode(v, c)
    PROVE  CodesInv'
<1>1. /\ c \in visit[v].codes /\ codes' = visit[v].codes \ {c} /\ series' = series
      /\ clobbered' = (clobbered \/ codes # visit[v].codes)
  BY DEF ConsumeCode
<1>2. CASE clobbered'
  BY <1>2 DEF CodesInv
<1>3. CASE ~clobbered'
  <2>1. ~clobbered /\ codes = visit[v].codes
    BY <1>1, <1>3
  <2>2. /\ \A d \in Codes : accepted[d] <= 1 /\ (d \in codes => accepted[d] = 0)
        /\ codes \subseteq NewSeries(series)
        /\ \A d \in Codes : d[1] > series => accepted[d] = 0
    BY <2>1 DEF CodesInv
  <2>3. \A d \in Codes : accepted'[d] = accepted[d] + (IF d = c THEN 1 ELSE 0)
    BY CodeTypes DEF ConsumeCode
  <2>4. c \in codes /\ accepted[c] = 0 /\ c[1] = series /\ series \in Nat
    BY <1>1, <2>1, <2>2, SignInBounds DEF NewSeries, SignInTypeOK
  <2>5. \A d \in Codes : accepted[d] \in Nat
    BY DEF SignInTypeOK
  <2>6. ASSUME NEW d \in Codes
        PROVE  /\ accepted'[d] <= 1 /\ (d \in codes' => accepted'[d] = 0)
               /\ (d[1] > series' => accepted'[d] = 0)
    <3>1. CASE d = c
      BY <1>1, <2>3, <2>4, <3>1
    <3>2. CASE d # c
      BY <1>1, <2>1, <2>2, <2>3, <2>5, <3>2
    <3> QED  BY <3>1, <3>2
  <2>7. codes' \subseteq NewSeries(series')
    BY <1>1, <2>1, <2>2
  <2> QED  BY <2>6, <2>7 DEF CodesInv
<1> QED  BY <1>2, <1>3

LEMMA CodesInductive ==
    ASSUME SignInTypeOK, CodesInv, [SignInNext]_signInVars
    PROVE  CodesInv'
<1>1. ASSUME codes' \in {codes, {}}, UNCHANGED <<series, accepted, clobbered>> PROVE CodesInv'
  BY <1>1, CodesFewer
<1>2. ASSUME NEW v \in Visits, VisitNext(v) PROVE CodesInv'
  <2>1. CASE Enable(v) \/ RenewCodes(v)
    BY <2>1, CodesRenewed DEF Enable, RenewCodes
  <2>2. CASE \E c \in Codes : ConsumeCode(v, c)
    BY <2>2, CodeConsumed
  <2>3. CASE AskRecovery(v) \/ MailSent(v) \/ MailFails(v) \/ NoMail(v)
             \/ (\E byAdmin \in BOOLEAN : IssueLink(v, byAdmin))
             \/ LookForRequest(v) \/ InsertRequest(v) \/ (\E l \in Links : ReadLink(v, l))
             \/ CompleteReset(v) \/ ChangePassword(v)
             \/ (\E s \in sessions : CheckOldPassword(v, s))
    BY <1>1, <2>3 DEF AskRecovery, MailSent, MailFails, NoMail, IssueLink, LookForRequest,
       InsertRequest, ReadLink, CompleteReset, ChangePassword, CheckOldPassword, twoFactor
  <2>4. CASE (\E kind \in Kinds : CheckPassword(v, kind) \/ ReadChallenge(v, kind))
             \/ MakeChallenge(v) \/ VerifyTotp(v) \/ ReadCodes(v) \/ WrongCode(v)
             \/ DropChallenge(v) \/ CheckActive(v) \/ Grant(v)
             \/ ReadSecret(v) \/ Disable(v) \/ DropChallenges(v) \/ AskNewCodes(v)
    BY <1>1, <2>4 DEF CheckPassword, ReadChallenge, MakeChallenge, VerifyTotp, ReadCodes,
       WrongCode, DropChallenge, CheckActive, Grant, ReadSecret, Disable, DropChallenges,
       AskNewCodes, twoFactor
  <2> QED  BY <1>2, <2>1, <2>2, <2>3, <2>4 DEF VisitNext
<1>3. CASE (\E l \in Links : LinkExpires(l)) \/ (\E s \in sessions : EndSession(s))
           \/ Ban \/ Unban \/ ChallengeExpires \/ StartSetup \/ AdminResetTotp
  BY <1>1, <1>3 DEF LinkExpires, EndSession, Ban, Unban, ChallengeExpires, StartSetup,
     AdminResetTotp, twoFactor
<1>4. CASE UNCHANGED signInVars
  BY <1>1, <1>4 DEF signInVars
<1> QED  BY <1>2, <1>3, <1>4 DEF SignInNext

\* A recovery code lets somebody in once, and only until new codes are made,
\* as long as no list of codes was written over a newer one.
THEOREM CodesAreSpentCorrect == SignInSpec => []CodesAreSpent
<1>1. SignInInit => CodesInv
  BY DEF SignInInit, CodesInv, NewSeries
<1>2. CodesInv => CodesAreSpent
  BY DEF CodesInv, CodesAreSpent
<1> QED  BY <1>1, <1>2, CodesInductive, SignInTypeCorrect, PTL DEF SignInSpec
=============================================================================
