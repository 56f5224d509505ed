------------------------------- MODULE GrantProofs -------------------------------
(***************************************************************************)
(* What the service grants and reveals, for any number of requests.        *)
(*                                                                         *)
(* It is for a user of the running configuration, at the revision that     *)
(* authenticated.  A deploy ends every request, so what a handler checked  *)
(* once stays true while it runs; the first invariant says at which        *)
(* statements which of the checks have been made.                          *)
(*                                                                         *)
(* And it is granted once: the service implements OneUse.  The second      *)
(* invariant says that a token that a request holds is out of everybody    *)
(* else's reach: its row is consumed or gone, no other request holds it,   *)
(* and nothing was granted for it.                                         *)
(***************************************************************************)
EXTENDS TypeProofs

-----------------------------------------------------------------------------
(* For a current user, at the revision that authenticated *)

\* Stages that follow the check of the configuration.
Vetted == Granting \cup {"isPanicked", "isAdminLocked"}

\* The user is current and at the revision the request carries.
AtRevision(q) == Current(q.sub, q.at) /\ users[q.sub].rev = q.rev

\* The checks of the configuration that a request at a stage has passed.
ConfigOK(stage, q) ==
  /\ stage \in Vetted => Current(q.sub, q.at)
  /\ stage \in Vetted /\ q.caller # "userinfo" => users[q.sub].rev = q.rev
  /\ stage \in Granting \ {"userinfo.answer"} => q.caller # "userinfo"

\* The same for an enrollment, from its consumption to the page.
RevealOK(stage, q) ==
  /\ stage = "audit" /\ q.category = "enrollment_token_consumed" => AtRevision(q)
  /\ stage = "enroll.reveal" =>
       /\ q.category = "enrollment_token_consumed" /\ AtRevision(q) /\ Recorded(q)

\* The inductive invariant of the checks; the instant of the purge keeps recent audit records.
ConfigInv ==
  /\ \A r \in Requests : ConfigOK(pc[r], req[r]) /\ RevealOK(pc[r], req[r])
  /\ cleaner.at <= now /\ (cleaner.purge = "audit" => AuditRetention > 0)

\* The step changes no other request, no configuration, and drops no audit
\* record.
KeepsOthers(r) ==
  /\ \A q \in Requests \ {r} : pc'[q] = pc[q] /\ req'[q] = req[q]
  /\ audit \subseteq audit'
  /\ UNCHANGED world

\* Nothing was checked for a request at this stage.
Unvetted(stage, q) ==
  /\ stage \in Stages \ (Vetted \cup {"enroll.reveal"})
  /\ stage = "audit" => q.category # "enrollment_token_consumed"

\* A step that keeps the others is safe when it is safe at r.
LEMMA LocalConfig ==
  ASSUME ConfigInv, NEW r \in Requests, KeepsOthers(r),
         ConfigOK(pc'[r], req'[r]), RevealOK(pc[r], req[r])'
  PROVE  ConfigInv'
<1>1. ASSUME NEW stage, NEW q
      PROVE  /\ ConfigOK(stage, q) <=> ConfigOK(stage, q)'
             /\ RevealOK(stage, q) => RevealOK(stage, q)'
  BY DEF KeepsOthers, world, ConfigOK, RevealOK, AtRevision, Current, Expired, Recorded
<1>2. ASSUME NEW q \in Requests
      PROVE  (ConfigOK(pc[q], req[q]) /\ RevealOK(pc[q], req[q]))'
  <2>1. CASE q = r
    BY <1>1, <2>1
  <2>2. CASE q # r
    <3>1. ConfigOK(pc[q], req[q]) /\ RevealOK(pc[q], req[q])
      BY DEF ConfigInv
    <3>2. pc'[q] = pc[q] /\ req'[q] = req[q]
      BY <2>2 DEF KeepsOthers
    <3> QED
      BY <1>1, <3>1, <3>2
  <2> QED
    BY <2>1, <2>2
<1>3. (cleaner.at <= now /\ (cleaner.purge = "audit" => AuditRetention > 0))'
  BY DEF ConfigInv, KeepsOthers, world
<1> QED
  BY <1>2, <1>3 DEF ConfigInv

\* A statement for which nothing was checked needs nothing.
LEMMA UnvettedConfig ==
  ASSUME ConfigInv, NEW r \in Requests, KeepsOthers(r), Unvetted(pc'[r], req'[r])
  PROVE  ConfigInv'
<1>1. ConfigOK(pc'[r], req'[r])
  BY DEF Unvetted, ConfigOK, Vetted
<1>2. RevealOK(pc[r], req[r])'
  BY DEF Unvetted, RevealOK, Vetted
<1> QED
  BY <1>1, <1>2, LocalConfig

\* A handler may start at such a statement.
LEMMA BeginConfig ==
  ASSUME TypeInv, ConfigInv, NEW r \in Requests, NEW h, NEW stage, NEW local,
         Unvetted(stage, local), Begin(r, h, stage, local), UNCHANGED <<audit, world>>
  PROVE  ConfigInv'
<1>1. KeepsOthers(r) /\ pc'[r] = stage /\ req'[r] = local
  BY DEF TypeInv, ProcessOK, Begin, KeepsOthers
<1> QED
  BY <1>1, UnvettedConfig

\* A handler may go on to such a statement.
LEMMA GotoConfig ==
  ASSUME TypeInv, ConfigInv, NEW r \in Requests, NEW stage, Unvetted(stage, req[r]),
         Goto(r, stage), UNCHANGED <<req, audit, world>>
  PROVE  ConfigInv'
<1>1. KeepsOthers(r) /\ pc'[r] = stage /\ req'[r] = req[r]
  BY DEF TypeInv, ProcessOK, Goto, KeepsOthers
<1> QED
  BY <1>1, UnvettedConfig

\* A handler may answer at any time.
LEMMA FinishConfig ==
  ASSUME TypeInv, ConfigInv, NEW r \in Requests, Finish(r),
         audit \subseteq audit', UNCHANGED world
  PROVE  ConfigInv'
<1>1. KeepsOthers(r) /\ pc'[r] = "idle"
  BY DEF TypeInv, ProcessOK, Finish, KeepsOthers
<1>2. Unvetted(pc'[r], req'[r])
  BY <1>1 DEF Unvetted, Vetted, Granting, Stages
<1> QED
  BY <1>1, <1>2, UnvettedConfig

-----------------------------------------------------------------------------
\* A login reaches the locks with a declared, unexpired subject and its current
\* TOTP revision (login/service.go).
LEMMA LoginBeginConfig ==
  ASSUME TypeInv, ConfigInv, NEW r \in Requests, NEW i \in Identifiers, NEW ok \in BOOLEAN,
         LoginBegin(r, i, ok)
  PROVE  ConfigInv'
<1> DEFINE local == [Blank EXCEPT !.caller = "login", !.at = now, !.key = LoginKey(i),
                       !.sub = IF Known(i) THEN Owner[i] ELSE NoSubject,
                       !.rev = IF Known(i) THEN users[Owner[i]].rev ELSE 0,
                       !.ok = ok]
           throttled == [local EXCEPT !.caller = "none", !.category = "rate_limit"]
<1>0. UNCHANGED <<audit, world>>
  BY DEF LoginBegin, tables
<1>1. CASE Begin(r, "login", "audit", throttled)
  <2>1. Unvetted("audit", throttled)
    BY DEF Unvetted, Blank, Stages, Vetted, Granting
  <2> QED
    BY <1>0, <1>1, <2>1, BeginConfig
<1>2. CASE Begin(r, "login", "login.fail", local)
  <2>1. Unvetted("login.fail", local)
    BY DEF Unvetted, Stages, Vetted, Granting
  <2> QED
    BY <1>0, <1>2, <2>1, BeginConfig
<1>3. CASE MayLogin(i) /\ Begin(r, "login", "isPanicked", local)
  <2>1. KeepsOthers(r) /\ pc'[r] = "isPanicked" /\ req'[r] = local
    BY <1>0, <1>3 DEF TypeInv, ProcessOK, Begin, KeepsOthers
  <2>2. /\ local.at = now /\ local.sub = Owner[i] /\ local.rev = users[Owner[i]].rev
        /\ Current(Owner[i], now)
    BY <1>3 DEF MayLogin, Blank
  <2>3. ConfigOK("isPanicked", local)
    BY <2>2 DEF ConfigOK, Granting
  <2>4. RevealOK(pc[r], req[r])'
    BY <2>1 DEF RevealOK
  <2> QED
    BY <2>1, <2>3, <2>4, LocalConfig
<1> QED
  BY <1>1, <1>2, <1>3 DEF LoginBegin

\* What a login checked is still true when it creates the session.
LEMMA LoginConfig ==
  ASSUME TypeInv, ConfigInv, NEW r \in Requests, LoginStep(r)
  PROVE  ConfigInv'
<1>1. CASE \E i \in Identifiers, ok \in BOOLEAN : LoginBegin(r, i, ok)
  BY <1>1, LoginBeginConfig
<1>2. CASE LoginFail(r)
  BY <1>2, FinishConfig DEF LoginFail
<1>3. CASE LoginReset(r)
  <2>1. KeepsOthers(r) /\ pc'[r] = "login.create" /\ req'[r] = req[r]
    BY <1>3 DEF LoginReset, TypeInv, ProcessOK, Goto, KeepsOthers
  <2>2. ConfigOK("login.reset", req[r])
    BY <1>3 DEF LoginReset, At, ConfigInv
  <2>3. ConfigOK("login.create", req[r])
    BY <2>2 DEF ConfigOK, Vetted, Granting
  <2>4. RevealOK(pc[r], req[r])'
    BY <2>1 DEF RevealOK
  <2> QED
    BY <2>1, <2>3, <2>4, LocalConfig
<1>4. CASE LoginCreate(r)
  BY <1>4, FinishConfig DEF LoginCreate
<1> QED
  BY <1>1, <1>2, <1>3, <1>4 DEF LoginStep

\* /authorize reaches the locks with a usable session only (usableSession,
\* server/authorize.go).
LEMMA AuthorizeConfig ==
  ASSUME TypeInv, ConfigInv, NEW r \in Requests, AuthorizeStep(r)
  PROVE  ConfigInv'
<1>1. ASSUME NEW c \in Clients, AuthorizeBegin(r, c)
      PROVE  ConfigInv'
  <2>0. UNCHANGED <<audit, world>>
    BY <1>1 DEF AuthorizeBegin, tables
  <2>1. PICK s \in sessions :
          Begin(r, "authorize", IF Usable(s) THEN "isPanicked" ELSE "authorize.revoke",
                   [Blank EXCEPT !.caller = "authorize", !.at = now, !.id = s.id,
                                 !.sub = s.sub, !.rev = s.rev,
                                 !.authTime = s.createdAt, !.client = c])
    BY <1>1 DEF AuthorizeBegin
  <2> DEFINE local == [Blank EXCEPT !.caller = "authorize", !.at = now, !.id = s.id,
                                 !.sub = s.sub, !.rev = s.rev,
                                 !.authTime = s.createdAt, !.client = c]
  <2>2. CASE ~Usable(s)
    <3>1. Unvetted("authorize.revoke", local)
      BY DEF Unvetted, Stages, Vetted, Granting
    <3> QED
      BY <2>0, <2>1, <2>2, <3>1, BeginConfig
  <2>3. CASE Usable(s)
    <3>1. KeepsOthers(r) /\ pc'[r] = "isPanicked" /\ req'[r] = local
      BY <2>0, <2>1, <2>3 DEF TypeInv, ProcessOK, Begin, KeepsOthers
    <3>2. local.at = now /\ local.sub = s.sub /\ local.rev = s.rev
      BY DEF Blank
    <3>3. ConfigOK("isPanicked", local)
      BY <2>3, <3>2 DEF ConfigOK, Granting, Usable
    <3>4. RevealOK(pc[r], req[r])'
      BY <3>1 DEF RevealOK
    <3> QED
      BY <3>1, <3>3, <3>4, LocalConfig
  <2> QED
    BY <2>2, <2>3
<1>2. CASE AuthorizeRevoke(r) \/ AuthorizeIssue(r) \/ AuthorizeTooOld(r)
  BY <1>2, FinishConfig DEF AuthorizeRevoke, AuthorizeIssue, AuthorizeTooOld, tables
<1> QED
  BY <1>1, <1>2 DEF AuthorizeStep

\* /token reaches the locks only when the subject of the code is current, at the
\* revision of the code, at the instant of issuance (codeSubjectCurrent,
\* requireUser).
LEMMA TokenConfig ==
  ASSUME TypeInv, ConfigInv, NEW r \in Requests, TokenStep(r)
  PROVE  ConfigInv'
<1>0. UNCHANGED <<audit, world>>
  BY DEF TokenStep, TokenBegin, TokenFail, TokenReset, TokenGet, TokenUnknown,
         TokenDropExpired, TokenConsume, TokenRespond, tables
<1>1. ASSUME NEW c \in Clients, NEW authentic \in BOOLEAN, TokenBegin(r, c, authentic)
      PROVE  ConfigInv'
  <2> DEFINE local == [Blank EXCEPT !.at = now, !.client = c, !.key = c]
             throttled == [local EXCEPT !.category = "rate_limit"]
  <2>1. /\ Unvetted("audit", throttled)
        /\ Unvetted("token.reset", local) /\ Unvetted("token.fail", local)
    BY DEF Unvetted, Stages, Vetted, Granting, Blank
  <2> QED
    BY <1>0, <1>1, <2>1, BeginConfig DEF TokenBegin
<1>2. CASE TokenFail(r) \/ TokenUnknown(r) \/ TokenDropExpired(r) \/ TokenRespond(r)
  BY <1>0, <1>2, FinishConfig DEF TokenFail, TokenUnknown, TokenDropExpired, TokenRespond
<1>3. CASE TokenReset(r)
  <2>1. Unvetted("token.get", req[r])
    BY DEF Unvetted, Stages, Vetted, Granting
  <2> QED
    BY <1>0, <1>3, <2>1, GotoConfig DEF TokenReset
<1>4. CASE \E ok \in BOOLEAN : TokenGet(r, ok)
  <2>1. KeepsOthers(r) /\ pc'[r] \in {"token.consume", "token.dropExpired"}
    BY <1>0, <1>4 DEF TokenGet, TypeInv, ProcessOK, Goto, KeepsOthers
  <2>2. Unvetted(pc'[r], req'[r])
    BY <2>1 DEF Unvetted, Stages, Vetted, Granting
  <2> QED
    BY <2>1, <2>2, UnvettedConfig
<1>5. CASE TokenConsume(r)
  <2>1. CASE Finish(r)
    BY <1>0, <2>1, FinishConfig
  <2>2. CASE /\ Redeemable(req[r].sub, req[r].rev, now)
             /\ Goto(r, "isPanicked")
             /\ req' = [req EXCEPT ![r].at = now, ![r].caller = "idToken"]
    <3>1. KeepsOthers(r) /\ pc'[r] = "isPanicked"
      BY <1>0, <2>2 DEF TypeInv, ProcessOK, Goto, KeepsOthers
    <3>2. req'[r].sub = req[r].sub /\ req'[r].rev = req[r].rev /\ req'[r].at = now
      BY <2>2 DEF TypeInv, ProcessOK, RequestState
    <3>3. ConfigOK(pc'[r], req'[r])
      BY <2>2, <3>1, <3>2 DEF ConfigOK, Granting, Redeemable
    <3>4. RevealOK(pc[r], req[r])'
      BY <3>1 DEF RevealOK
    <3> QED
      BY <3>1, <3>3, <3>4, LocalConfig
  <2> QED
    BY <1>5, <2>1, <2>2 DEF TokenConsume
<1> QED
  BY <1>1, <1>2, <1>3, <1>4, <1>5 DEF TokenStep

\* /userinfo reaches the locks with a current subject (userinfo/service.go).
LEMMA UserinfoConfig ==
  ASSUME TypeInv, ConfigInv, NEW r \in Requests, UserinfoStep(r)
  PROVE  ConfigInv'
<1>0. UNCHANGED <<audit, world>>
  BY DEF UserinfoStep, UserinfoBegin, UserinfoAnswer, tables
<1>1. CASE UserinfoBegin(r)
  <2>1. PICK b \in bearers :
          /\ Current(b.sub, now)
          /\ Begin(r, "userinfo", "isPanicked",
                [Blank EXCEPT !.caller = "userinfo", !.at = now, !.sub = b.sub])
    BY <1>1 DEF UserinfoBegin
  <2> DEFINE local == [Blank EXCEPT !.caller = "userinfo", !.at = now, !.sub = b.sub]
  <2>2. KeepsOthers(r) /\ pc'[r] = "isPanicked" /\ req'[r] = local
    BY <1>0, <2>1 DEF TypeInv, ProcessOK, Begin, KeepsOthers
  <2>3. local.at = now /\ local.sub = b.sub /\ local.caller = "userinfo"
    BY DEF Blank
  <2>4. ConfigOK("isPanicked", local)
    BY <2>1, <2>3 DEF ConfigOK, Granting
  <2>5. RevealOK(pc[r], req[r])'
    BY <2>2 DEF RevealOK
  <2> QED
    BY <2>2, <2>4, <2>5, LocalConfig
<1>2. CASE UserinfoAnswer(r)
  BY <1>0, <1>2, FinishConfig DEF UserinfoAnswer
<1> QED
  BY <1>1, <1>2 DEF UserinfoStep

\* Logout and panic grant and reveal nothing.
LEMMA SessionEndConfig ==
  ASSUME TypeInv, ConfigInv, NEW r \in Requests, SessionEndStep(r)
  PROVE  ConfigInv'
<1>0. UNCHANGED <<audit, world>>
  BY DEF SessionEndStep, LogoutBegin, LogoutRevoke, PanicBegin, PanicSubject, Validated, tables
<1>1. ASSUME NEW h, NEW stage \in {"logout.revoke", "panic.lock"}, NEW category,
             Validated(r, h, stage, category)
      PROVE  ConfigInv'
  <2>1. \A local : Unvetted(stage, local)
    BY DEF Unvetted, Stages, Vetted, Granting
  <2>2. \E local : Begin(r, h, stage, local)
    BY <1>1 DEF Validated
  <2> QED
    BY <1>0, <2>1, <2>2, BeginConfig
<1>2. CASE LogoutRevoke(r)
  <2>1. KeepsOthers(r) /\ pc'[r] = "audit"
    BY <1>0, <1>2 DEF LogoutRevoke, TypeInv, ProcessOK, Goto, KeepsOthers
  <2>2. req'[r].category # "enrollment_token_consumed"
    BY <1>2, OtherCategory DEF LogoutRevoke, At, TypeInv, ProcessOK, RequestState
  <2>3. Unvetted(pc'[r], req'[r])
    BY <2>1, <2>2 DEF Unvetted, Stages, Vetted, Granting
  <2> QED
    BY <2>1, <2>3, UnvettedConfig
<1>3. CASE PanicSubject(r)
  <2>1. Unvetted("audit", req[r])
    BY <1>3, OtherCategory DEF PanicSubject, At, Unvetted, Stages, Vetted, Granting
  <2> QED
    BY <1>0, <1>3, <2>1, GotoConfig DEF PanicSubject
<1> QED
  BY <1>1, <1>2, <1>3 DEF SessionEndStep, LogoutBegin, PanicBegin

\* The console grants users nothing and reveals nothing.
LEMMA AdminConsoleConfig ==
  ASSUME TypeInv, ConfigInv, NEW r \in Requests, AdminConsoleStep(r)
  PROVE  ConfigInv'
<1>0. UNCHANGED <<audit, world>>
  BY DEF AdminConsoleStep, AdminLoginBegin, AdminFail, AdminReset, AdminCreate,
         LockChangeBegin, ApplyLockChange, tables
<1>1. ASSUME NEW match \in BOOLEAN, AdminLoginBegin(r, match)
      PROVE  ConfigInv'
  <2> DEFINE local == [Blank EXCEPT !.at = now, !.key = AdminKey, !.ok = match,
                                    !.category = "admin_authentication"]
             throttled == [local EXCEPT !.category = "rate_limit"]
  <2>1. /\ Unvetted("audit", throttled)
        /\ Unvetted("admin.reset", local) /\ Unvetted("admin.fail", local)
    BY DEF Unvetted, Stages, Vetted, Granting, Blank
  <2> QED
    BY <1>0, <1>1, <2>1, BeginConfig DEF AdminLoginBegin
<1>2. CASE AdminFail(r) \/ AdminCreate(r) \/ ApplyLockChange(r)
  <2>1. Unvetted("audit", req[r])
    BY <1>2, OtherCategory
    DEF AdminFail, AdminCreate, ApplyLockChange, At, Unvetted, Stages, Vetted, Granting
  <2> QED
    BY <1>0, <1>2, <2>1, GotoConfig DEF AdminFail, AdminCreate, ApplyLockChange
<1>3. CASE AdminReset(r)
  <2>1. Unvetted("admin.create", req[r])
    BY DEF Unvetted, Stages, Vetted, Granting
  <2> QED
    BY <1>0, <1>3, <2>1, GotoConfig DEF AdminReset
<1>4. CASE \E u \in Subjects, change \in {"lock", "unlock", "clear_panic"} :
             LockChangeBegin(r, u, change)
  <2>1. \A local : Unvetted("locks.apply", local)
    BY DEF Unvetted, Stages, Vetted, Granting
  <2>2. \E local : Begin(r, "lockChange", "locks.apply", local)
    BY <1>4 DEF LockChangeBegin
  <2> QED
    BY <1>0, <2>1, <2>2, BeginConfig
<1> QED
  BY <1>1, <1>2, <1>3, <1>4 DEF AdminConsoleStep

\* The enrollment page reaches its audit record only when userEnrollable said
\* yes (server/enroll.go).
LEMMA EnrollmentConfig ==
  ASSUME TypeInv, ConfigInv, NEW r \in Requests, EnrollmentStep(r)
  PROVE  ConfigInv'
<1>0. UNCHANGED <<audit, world>>
  BY DEF EnrollmentStep, EnrollmentBegin, CreateEnrollment, EnrollBegin,
         EnrollDropExpired, EnrollConsume, EnrollReveal, tables
<1>1. CASE (\E u \in Subjects : EnrollmentBegin(r, u)) \/ EnrollBegin(r)
  <2>1. \E h, local :
          \E stage \in {"enrollment.create", "enroll.consume", "enroll.dropExpired"} :
            Begin(r, h, stage, local)
    BY <1>1 DEF EnrollmentBegin, EnrollBegin
  <2>2. \A local : \A stage \in {"enrollment.create", "enroll.consume", "enroll.dropExpired"} :
          Unvetted(stage, local)
    BY DEF Unvetted, Stages, Vetted, Granting
  <2> QED
    BY <1>0, <2>1, <2>2, BeginConfig
<1>2. CASE CreateEnrollment(r)
  <2>1. Unvetted("audit", req[r])
    BY <1>2, OtherCategory DEF CreateEnrollment, At, Unvetted, Stages, Vetted, Granting
  <2> QED
    BY <1>0, <1>2, <2>1, GotoConfig DEF CreateEnrollment
<1>3. CASE EnrollDropExpired(r) \/ EnrollReveal(r)
  BY <1>0, <1>3, FinishConfig DEF EnrollDropExpired, EnrollReveal
<1>4. CASE EnrollConsume(r)
  <2>1. CASE Finish(r)
    BY <1>0, <2>1, FinishConfig
  <2>2. CASE /\ Enrollable(req[r].sub, req[r].rev, req[r].at)
             /\ Goto(r, "audit") /\ UNCHANGED req
    <3>1. KeepsOthers(r) /\ pc'[r] = "audit" /\ req'[r] = req[r]
      BY <1>0, <2>2 DEF TypeInv, ProcessOK, Goto, KeepsOthers
    <3>2. ConfigOK(pc'[r], req'[r])
      BY <3>1 DEF ConfigOK, Vetted, Granting
    <3>3. RevealOK(pc[r], req[r])'
      BY <1>0, <2>2, <3>1
      DEF RevealOK, AtRevision, Enrollable, Current, Expired, world
    <3> QED
      BY <3>1, <3>2, <3>3, LocalConfig
  <2> QED
    BY <1>4, <2>1, <2>2 DEF EnrollConsume
<1> QED
  BY <1>1, <1>2, <1>3, <1>4 DEF EnrollmentStep

-----------------------------------------------------------------------------
\* The reads of IsLocked keep the subject, the instant and the revision that
\* were checked before them.
LEMMA LockReadConfig ==
  ASSUME TypeInv, ConfigInv, NEW r \in Requests,
         IsPanicked(r) \/ IsAdminLocked(r) \/ FoundLocked(r)
  PROVE  ConfigInv'
<1>0. UNCHANGED <<audit, world>>
  BY DEF IsPanicked, IsAdminLocked, FoundLocked, tables
<1>1. ConfigOK(pc[r], req[r]) /\ StageOK(pc[r], req[r]) /\ req[r] \in RequestState
  BY DEF ConfigInv, TypeInv, ProcessOK
<1>2. CASE IsPanicked(r)
  <2>1. KeepsOthers(r) /\ pc'[r] = "isAdminLocked" /\ req'[r] = req[r]
    BY <1>0, <1>2 DEF IsPanicked, TypeInv, ProcessOK, Goto, KeepsOthers
  <2>2. ConfigOK(pc'[r], req'[r])
    BY <1>1, <1>2, <2>1 DEF IsPanicked, At, ConfigOK, Vetted, Granting
  <2>3. RevealOK(pc[r], req[r])'
    BY <2>1 DEF RevealOK
  <2> QED
    BY <2>1, <2>2, <2>3, LocalConfig
<1>3. CASE IsAdminLocked(r)
  <2>1. KeepsOthers(r)
    BY <1>0, <1>3 DEF IsAdminLocked, TypeInv, ProcessOK, Goto, KeepsOthers
  <2>2. CASE req[r].caller = "login" /\ ~req[r].ok
    <3>1. Unvetted("login.fail", req[r])
      BY DEF Unvetted, Stages, Vetted, Granting
    <3> QED
      BY <1>0, <1>3, <2>2, <3>1, GotoConfig DEF IsAdminLocked
  <2>3. CASE ~(req[r].caller = "login" /\ ~req[r].ok)
    <3>1. req[r].caller \in {"login", "authorize", "idToken", "accessToken", "userinfo"}
      BY <1>1, <1>3 DEF IsAdminLocked, At, StageOK, RequestState, Callers
    <3>2. /\ pc'[r] = Cleared[req[r].caller]
          /\ req'[r].sub = req[r].sub /\ req'[r].at = req[r].at /\ req'[r].rev = req[r].rev
          /\ req'[r].caller = IF req[r].caller = "idToken" THEN "accessToken"
                              ELSE req[r].caller
      BY <1>3, <2>3, <1>1 DEF IsAdminLocked, TypeInv, ProcessOK, Goto, RequestState
    <3>3. /\ Current(req[r].sub, req[r].at)
          /\ req[r].caller # "userinfo" => users[req[r].sub].rev = req[r].rev
      BY <1>1, <1>3 DEF IsAdminLocked, At, ConfigOK, Vetted
    <3>4. ConfigOK(pc'[r], req'[r])
      BY <3>1, <3>2, <3>3 DEF ConfigOK, Cleared, Granting
    <3>5. RevealOK(pc[r], req[r])'
      BY <3>1, <3>2 DEF RevealOK, Cleared
    <3> QED
      BY <2>1, <3>4, <3>5, LocalConfig
  <2> QED
    BY <2>2, <2>3
<1>4. CASE FoundLocked(r)
  <2>1. Unvetted("login.fail", req[r]) /\ Unvetted("authorize.revoke", req[r])
    BY DEF Unvetted, Stages, Vetted, Granting
  <2>2. CASE req[r].caller = "login"
    BY <1>0, <1>4, <2>1, <2>2, GotoConfig DEF FoundLocked
  <2>3. CASE req[r].caller = "authorize"
    BY <1>0, <1>4, <2>1, <2>3, GotoConfig DEF FoundLocked
  <2>4. CASE req[r].caller \notin {"login", "authorize"}
    BY <1>0, <1>4, <2>4, FinishConfig DEF FoundLocked
  <2> QED
    BY <2>2, <2>3, <2>4
<1> QED
  BY <1>2, <1>3, <1>4

\* Expired sessions and failing statements grant and reveal nothing.
LEMMA CommonConfig ==
  ASSUME TypeInv, ConfigInv, NEW r \in Requests,
         ExpiredSession(r) \/ DropExpiredSession(r) \/ Abort(r)
  PROVE  ConfigInv'
<1>1. CASE ExpiredSession(r)
  <2>1. PICK s \in sessions :
          Begin(r, "expiredSession", "dropExpired", [Blank EXCEPT !.at = now, !.id = s.id])
    BY <1>1 DEF ExpiredSession
  <2>2. \A local : Unvetted("dropExpired", local)
    BY DEF Unvetted, Stages, Vetted, Granting
  <2>3. UNCHANGED <<audit, world>>
    BY <1>1 DEF ExpiredSession, tables
  <2> QED
    BY <2>1, <2>2, <2>3, BeginConfig
<1>2. CASE DropExpiredSession(r) \/ Abort(r)
  BY <1>2, FinishConfig DEF DropExpiredSession, Abort, tables
<1> QED
  BY <1>1, <1>2

\* The enrollment page goes on to the secret with its record in the audit log.
LEMMA RecordAuditConfig ==
  ASSUME TypeInv, ConfigInv, NEW r \in Requests, RecordAudit(r)
  PROVE  ConfigInv'
<1>0. UNCHANGED world /\ audit \subseteq audit'
  BY DEF RecordAudit, CreateAuditRecord
<1>1. CASE req[r].category = "enrollment_token_consumed"
  <2>1. KeepsOthers(r) /\ pc'[r] = "enroll.reveal" /\ req'[r] = req[r]
    BY <1>0, <1>1 DEF RecordAudit, TypeInv, ProcessOK, Goto, KeepsOthers
  <2>2. ConfigOK(pc'[r], req'[r])
    BY <2>1 DEF ConfigOK, Vetted, Granting
  <2>3. AtRevision(req[r])
    BY <1>1 DEF RecordAudit, At, ConfigInv, RevealOK
  <2>4. AtRevision(req[r])' /\ Recorded(req[r])'
    BY <2>1, <2>3, <1>0
    DEF AtRevision, Current, Expired, world, RecordAudit, CreateAuditRecord, Recorded
  <2>5. RevealOK(pc[r], req[r])'
    BY <1>1, <2>1, <2>4 DEF RevealOK
  <2> QED
    BY <2>1, <2>2, <2>5, LocalConfig
<1>2. CASE req[r].category # "enrollment_token_consumed"
  BY <1>0, <1>2, FinishConfig DEF RecordAudit
<1> QED
  BY <1>1, <1>2

\* Every request stays where it is and what was checked for it stays true.
LEMMA QuietConfig ==
  ASSUME ConfigInv, UNCHANGED <<pc, req, users>>,
         \A r \in Requests : Recorded(req[r]) => Recorded(req[r])',
         (cleaner.at <= now /\ (cleaner.purge = "audit" => AuditRetention > 0))'
  PROVE  ConfigInv'
  BY DEF ConfigInv, ConfigOK, RevealOK, AtRevision, Current, Expired

\* Cutting an instant to whole seconds never moves it forward.
LEMMA FormatBelow == ASSUME NEW t \in Nat PROVE Format(t) <= t
  BY SecondAssumption DEF Format

\* A pass of the cleanup loop removes an audit record only at the end of its
\* retention (cleanup/cleaner.go).
LEMMA CleanupConfig ==
  ASSUME TypeInv, ConfigInv, CleanupStep
  PROVE  ConfigInv'
<1>0. /\ now \in Nat /\ AuditRetention \in Nat /\ cleaner \in Cleaner
      /\ UNCHANGED <<pc, req, users, now>>
  BY ServerAssumption, CleanupAssumption DEF TypeInv, WorldOK, CleanupStep, Pass, process
<1>1. cleaner.at <= now /\ (cleaner.purge = "audit" => AuditRetention > 0)
  BY DEF ConfigInv
<1>2. (cleaner.at <= now /\ (cleaner.purge = "audit" => AuditRetention > 0))'
  BY <1>0, <1>1 DEF CleanupStep, Pass, CleanCounters, CleanTokens, CleanSessions, CleanAudit,
                    CleanFail, Purge, Cleaner
<1>3. \A a \in audit \ audit' : AuditRetention > 0 /\ a.at + AuditRetention <= now
  <2>1. CASE UNCHANGED audit
    BY <2>1
  <2>2. CASE /\ cleaner.purge = "audit" /\ cleaner.at >= AuditRetention
             /\ DeleteAuditRecordsBefore(cleaner.at - AuditRetention)
    <3>1. /\ cleaner.at - AuditRetention \in Nat
          /\ Format(cleaner.at - AuditRetention) \in Nat
          /\ Format(cleaner.at - AuditRetention) <= cleaner.at - AuditRetention
      BY <1>0, <2>2, FormatBelow, FormatType DEF Cleaner
    <3>2. \A a \in audit \ audit' : a.at \in Nat /\ a.at <= Format(cleaner.at - AuditRetention)
      BY <2>2, <3>1 DEF DeleteAuditRecordsBefore, TypeInv, StoreTypeOK, AuditRow
    <3> QED
      BY <1>0, <1>1, <2>2, <3>1, <3>2 DEF Cleaner
  <2> QED
    BY <2>1, <2>2 DEF CleanupStep, Pass, CleanCounters, CleanTokens, CleanSessions, CleanAudit,
                      CleanFail, tables
<1>4. ASSUME NEW r \in Requests, Recorded(req[r])
      PROVE  Recorded(req[r])'
  <2> DEFINE a == [category |-> req[r].category, sub |-> req[r].sub, at |-> Format(req[r].at)]
  <2>1. CASE a \in audit'
    BY <1>0, <2>1 DEF Recorded
  <2>2. CASE a \in audit \ audit'
    BY <1>0, <1>3, <2>2 DEF Recorded
  <2>3. CASE a \notin audit
    BY <1>0, <1>4, <2>3 DEF Recorded
  <2> QED
    BY <2>1, <2>2, <2>3
<1> QED
  BY <1>0, <1>2, <1>4, QuietConfig

\* Time takes nothing back.
LEMMA TickConfig ==
  ASSUME TypeInv, ConfigInv, Tick
  PROVE  ConfigInv'
<1>0. /\ now \in Nat /\ now' = now + 1 /\ AuditRetention \in Nat
      /\ cleaner \in Cleaner /\ UNCHANGED <<pc, req, users, cleaner, audit>>
  BY ServerAssumption, CleanupAssumption DEF TypeInv, WorldOK, Tick, process, tables
<1>1. ASSUME NEW r \in Requests, Recorded(req[r])
      PROVE  Recorded(req[r])'
  <2>1. Format(req[r].at) \in Nat
    BY FormatType DEF TypeInv, ProcessOK, RequestState
  <2> QED
    BY <1>0, <1>1, <2>1 DEF Recorded
<1>2. (cleaner.at <= now /\ (cleaner.purge = "audit" => AuditRetention > 0))'
  BY <1>0 DEF ConfigInv, Cleaner
<1> QED
  BY <1>0, <1>1, <1>2, QuietConfig

\* A deploy ends every request.
LEMMA RestartConfig ==
  ASSUME TypeInv, ConfigInv, Restart
  PROVE  ConfigInv'
<1>1. (cleaner.at <= now /\ (cleaner.purge = "audit" => AuditRetention > 0))'
  BY ServerAssumption DEF Restart, TypeInv, WorldOK
<1> QED
  BY <1>1 DEF Restart, ConfigInv, ConfigOK, RevealOK, Vetted, Granting

\* No step of the service breaks ConfigInv.
LEMMA ConfigStep == TypeInv /\ ConfigInv /\ [Next]_vars => ConfigInv'
<1> SUFFICES ASSUME TypeInv, ConfigInv, [Next]_vars PROVE ConfigInv'
  OBVIOUS
<1>1. ASSUME NEW r \in Requests, RequestStep(r)
      PROVE  ConfigInv'
  BY <1>1, LoginConfig, AuthorizeConfig, TokenConfig, UserinfoConfig, SessionEndConfig,
     AdminConsoleConfig, EnrollmentConfig, LockReadConfig, CommonConfig, RecordAuditConfig
  DEF RequestStep
<1>2. CASE AdminLogOut \/ UNCHANGED vars
  <2>1. UNCHANGED <<pc, req, users, audit, cleaner, now>>
    BY <1>2 DEF AdminLogOut, vars, process, world, tables
  <2>2. \A r \in Requests : Recorded(req[r]) => Recorded(req[r])'
    BY <2>1 DEF Recorded
  <2>3. (cleaner.at <= now /\ (cleaner.purge = "audit" => AuditRetention > 0))'
    BY <2>1 DEF ConfigInv
  <2> QED
    BY <2>1, <2>2, <2>3, QuietConfig
<1> QED
  BY <1>1, <1>2, CleanupConfig, TickConfig, RestartConfig DEF Next

-----------------------------------------------------------------------------
\* ConfigInv is an invariant of the service.
LEMMA ConfigInvariant == Spec => []ConfigInv
<1>1. Init => ConfigInv
  BY ServerAssumption DEF Init, ServerInit, ConfigInv, ConfigOK, RevealOK, Vetted, Granting
<1>2. TypeInv /\ ConfigInv /\ [Next]_vars => ConfigInv'
  BY ConfigStep
<1> QED
  BY <1>1, <1>2, TypeInvariant, PTL DEF Spec

\* ConfigGate: whatever is granted is granted to a declared and unexpired user
\* of the running configuration, at the TOTP revision at which the person
\* authenticated, across any number of deploys (login/service.go,
\* server/authorize.go, server/token.go, token/issuer.go).
THEOREM GrantsFollowConfiguration == Spec => []ConfigGate
<1>1. ConfigInv => ConfigGate
  BY DEF ConfigInv, ConfigOK, ConfigGate, Vetted, Granting
<1> QED
  BY <1>1, ConfigInvariant, PTL

\* RevealGate: an enrollment secret is shown only to a current subject at the
\* revision of its link and with the audit record written (server/enroll.go).
THEOREM RevealsAreRecorded == Spec => []RevealGate
<1>1. ConfigInv => RevealGate
  BY DEF ConfigInv, RevealOK, RevealGate, AtRevision
<1> QED
  BY <1>1, ConfigInvariant, PTL

-----------------------------------------------------------------------------
(* Once *)

\* The inductive invariant of one-use tokens.
TokenInv ==
  /\ \A t \in tokens : t.id \in usedIds
  /\ \A t, u \in tokens : t.id = u.id => t = u
  /\ \A r \in Requests : Redeemed(r) =>
       /\ req[r].id \in knownTokens
       /\ req[r].id \notin liveTokens \cup grantedTokens
  /\ \A r, q \in Requests : Redeemed(r) /\ Redeemed(q) /\ req[r].id = req[q].id => r = q
  /\ grantedTokens \subseteq knownTokens
  /\ liveTokens \cap grantedTokens = {}

\* Holding is a matter of the stage, the caller, the category and the token.
Holds(stage, q) ==
  \/ stage \in {"isPanicked", "isAdminLocked"} /\ q.caller \in {"idToken", "accessToken"}
  \/ stage \in {"token.respond", "enroll.reveal"}
  \/ stage = "audit" /\ q.category = "enrollment_token_consumed"

\* Redeemed says Holds of the current stage and local variables.
LEMMA RedeemedHolds == \A r : Redeemed(r) <=> Holds(pc[r], req[r])
  BY DEF Redeemed, Holds

\* TheOne names a member of a set of requests, or nobody.
LEMMA TheOneType ==
  ASSUME NEW S \in SUBSET Requests
  PROVE  TheOne(S) \in Requests \cup {Nobody} /\ (TheOne(S) = Nobody <=> S = {})
  BY NobodyAssumption DEF TheOne

\* Of one request it names that request.
LEMMA TheOneSingle == \A r : TheOne({r}) = r
<1> SUFFICES ASSUME NEW r PROVE TheOne({r}) = r
  OBVIOUS
<1>1. \A q \in {r} : q = r
  OBVIOUS
<1>2. (CHOOSE q \in {r} : TRUE) \in {r}
  OBVIOUS
<1> QED
  BY <1>1, <1>2 DEF TheOne

-----------------------------------------------------------------------------
(* The four kinds of step. *)

\* No request comes to hold a token, and none changes the one it holds.
NoTaking ==
  \A q \in Requests : Redeemed(q)' => Redeemed(q) /\ req'[q].id = req[q].id

\* No token is issued, taken or granted; rows are consumed or deleted.
Losing ==
  /\ \A t \in tokens' : \E u \in tokens : u.id = t.id /\ (u.consumed => t.consumed)
  /\ \A t, u \in tokens' : t.id = u.id => t = u
  /\ UNCHANGED <<knownTokens, bearers, reveals>>
  /\ usedIds \subseteq usedIds'
  /\ NoTaking

\* A losing step keeps the invariant and is a Lose of OneUse.
LEMMA LoseStep ==
  ASSUME TypeInv, TokenInv, TypeInv', Losing
  PROVE  TokenInv' /\ OneUseTokens!Lose
<1>1. liveTokens' \subseteq liveTokens
  BY DEF Losing, liveTokens
<1>2. grantedTokens' = grantedTokens /\ knownTokens' = knownTokens
  BY DEF Losing, grantedTokens
<1>3. TokenInv'
  <2>1. \A t \in tokens' : t.id \in usedIds'
    BY DEF Losing, TokenInv
  <2>2. ASSUME NEW r \in Requests, Redeemed(r)'
        PROVE  /\ req'[r].id \in knownTokens'
               /\ req'[r].id \notin liveTokens' \cup grantedTokens'
    BY <1>1, <1>2, <2>2 DEF Losing, NoTaking, TokenInv
  <2>3. ASSUME NEW r \in Requests, NEW q \in Requests,
               Redeemed(r)', Redeemed(q)', req'[r].id = req'[q].id
        PROVE  r = q
    BY <2>3 DEF Losing, NoTaking, TokenInv
  <2> QED
    BY <1>1, <1>2, <2>1, <2>2, <2>3 DEF Losing, TokenInv
<1>4. ASSUME NEW t \in TokenIds
      PROVE  Holding(t)' = {} \/ Holding(t)' = Holding(t)
  <2>1. Holding(t)' \subseteq Holding(t)
    BY DEF Holding, Losing, NoTaking
  <2>2. \A r, q \in Holding(t) : r = q
    BY DEF Holding, TokenInv
  <2> QED
    BY <2>1, <2>2
<1> DEFINE lost == {t \in TokenIds : Holding(t)' = {}}
<1>5. tokenHolder' = [t \in TokenIds |-> IF t \in lost THEN Nobody ELSE tokenHolder[t]]
  <2>1. ASSUME NEW t \in TokenIds
        PROVE  TheOne(Holding(t)') = IF t \in lost THEN Nobody ELSE TheOne(Holding(t))
    <3>1. CASE Holding(t)' = {}
      BY <3>1 DEF TheOne
    <3>2. CASE Holding(t)' # {}
      BY <1>4, <3>2
    <3> QED
      BY <3>1, <3>2
  <2>2. tokenHolder' = [t \in TokenIds |-> TheOne(Holding(t)')]
    BY DEF tokenHolder, TheOne
  <2> QED
    BY <2>1, <2>2 DEF tokenHolder
<1> QED
  BY <1>1, <1>2, <1>3, <1>5 DEF OneUseTokens!Lose

\* A new row with an identifier never used before.
Issuing(id) ==
  /\ id \in TokenIds \ usedIds
  /\ \E row : row.id = id /\ row.consumed = FALSE /\ CreateOneUseToken(row)
  /\ usedIds' = usedIds \cup {id}
  /\ UNCHANGED <<bearers, reveals>>
  /\ \A q \in Requests : /\ Redeemed(q)' <=> Redeemed(q)
                         /\ Redeemed(q) => req'[q].id = req[q].id

\* Whoever held what, holds it still.
LEMMA SameHolders ==
  ASSUME \A q \in Requests : /\ Redeemed(q)' <=> Redeemed(q)
                             /\ Redeemed(q) => req'[q].id = req[q].id
  PROVE  tokenHolder' = tokenHolder
<1>1. \A t \in TokenIds : Holding(t)' = Holding(t)
  BY DEF Holding
<1>2. \A t \in TokenIds : TheOne(Holding(t)') = TheOne(Holding(t))
  BY <1>1
<1>3. tokenHolder' = [t \in TokenIds |-> TheOne(Holding(t)')]
  BY DEF tokenHolder, TheOne
<1> QED
  BY <1>2, <1>3 DEF tokenHolder

\* A new row is an Issue of OneUse.
LEMMA IssueStep ==
  ASSUME TypeInv, TokenInv, NEW id, Issuing(id)
  PROVE  TokenInv' /\ OneUseTokens!Issue(id)
<1>1. PICK row : row.id = id /\ row.consumed = FALSE /\ tokens' = tokens \cup {row}
  BY DEF Issuing, CreateOneUseToken
<1>2. /\ knownTokens' = knownTokens \cup {id} /\ id \in TokenIds \ knownTokens
      /\ grantedTokens' = grantedTokens
  BY DEF Issuing, knownTokens, grantedTokens
<1>3. liveTokens' = liveTokens \cup {id}
  BY <1>1 DEF liveTokens
<1>4. tokenHolder' = tokenHolder
  BY SameHolders DEF Issuing
<1>5. TokenInv'
  <2>1. \A t \in tokens' : t.id \in usedIds'
    BY <1>1 DEF Issuing, TokenInv
  <2>2. \A t, u \in tokens' : t.id = u.id => t = u
    BY <1>1 DEF Issuing, TokenInv
  <2>3. ASSUME NEW r \in Requests, Redeemed(r)'
        PROVE  /\ req'[r].id \in knownTokens'
               /\ req'[r].id \notin liveTokens' \cup grantedTokens'
    BY <1>2, <1>3, <2>3 DEF Issuing, TokenInv
  <2>4. ASSUME NEW r \in Requests, NEW q \in Requests,
               Redeemed(r)', Redeemed(q)', req'[r].id = req'[q].id
        PROVE  r = q
    BY <2>4 DEF Issuing, TokenInv
  <2>5. grantedTokens' \subseteq knownTokens' /\ liveTokens' \cap grantedTokens' = {}
    BY <1>2, <1>3 DEF TokenInv
  <2> QED
    BY <2>1, <2>2, <2>3, <2>4, <2>5 DEF TokenInv
<1> QED
  BY <1>2, <1>3, <1>4, <1>5 DEF OneUseTokens!Issue

\* Request r wins the row of the token it read.
Taking(r) ==
  /\ Unconsumed(req[r].id) # {}
  /\ ConsumeOneUseToken(req[r].id)
  /\ UNCHANGED issued
  /\ ~Redeemed(r) /\ Redeemed(r)' /\ req'[r].id = req[r].id
  /\ \A q \in Requests \ {r} : /\ Redeemed(q)' <=> Redeemed(q)
                               /\ Redeemed(q) => req'[q].id = req[q].id

\* The UPDATE of ConsumeOneUseToken takes one identifier out of the live ones
\* and keeps every other row (onetoken/store.go consume).
LEMMA ConsumeRows ==
  ASSUME TypeInv, TokenInv, NEW id, ConsumeOneUseToken(id)
  PROVE  /\ \A t \in tokens' : \E u \in tokens : u.id = t.id /\ (u.consumed => t.consumed)
         /\ \A t, u \in tokens' : t.id = u.id => t = u
         /\ liveTokens' = liveTokens \ {id}
<1> DEFINE used(t) == IF t.id = id THEN [t EXCEPT !.consumed = TRUE] ELSE t
<1>1. tokens' = {used(t) : t \in tokens}
  BY DEF ConsumeOneUseToken
<1>2. ASSUME NEW t \in tokens
      PROVE  /\ used(t).id = t.id
             /\ used(t).consumed = IF t.id = id THEN TRUE ELSE t.consumed
  <2>1. t \in TokenRow
    BY DEF TypeInv, StoreTypeOK
  <2> QED
    BY <2>1 DEF TokenRow
<1> HIDE DEF used
<1>3. \A t \in tokens' : \E u \in tokens : u.id = t.id /\ (u.consumed => t.consumed)
  BY <1>1, <1>2
<1>4. ASSUME NEW t \in tokens', NEW u \in tokens', t.id = u.id
      PROVE  t = u
  <2>1. PICK a \in tokens, b \in tokens : t = used(a) /\ u = used(b)
    BY <1>1
  <2>2. a.id = b.id
    BY <1>2, <1>4, <2>1
  <2>3. a = b
    BY <2>2 DEF TokenInv
  <2> QED
    BY <2>1, <2>3
<1>5. liveTokens' = liveTokens \ {id}
  <2>1. ASSUME NEW x \in liveTokens'
        PROVE  x \in liveTokens \ {id}
    <3>1. PICK t \in tokens' : t.id = x /\ ~t.consumed
      BY DEF liveTokens
    <3>2. PICK a \in tokens : t = used(a)
      BY <1>1
    <3>3. a.id = x /\ a.id # id /\ ~a.consumed
      BY <1>2, <3>1, <3>2
    <3> QED
      BY <3>3 DEF liveTokens
  <2>2. ASSUME NEW x \in liveTokens \ {id}
        PROVE  x \in liveTokens'
    <3>1. PICK a \in tokens : a.id = x /\ ~a.consumed
      BY DEF liveTokens
    <3>2. used(a) \in tokens' /\ used(a).id = x /\ ~used(a).consumed
      BY <1>1, <1>2, <3>1
    <3> QED
      BY <3>2 DEF liveTokens
  <2> QED
    BY <2>1, <2>2
<1> QED
  BY <1>3, <1>4, <1>5

\* Winning the row is a Take of OneUse.
LEMMA TakeStep ==
  ASSUME TypeInv, TokenInv, NEW r \in Requests, Taking(r), req[r].id \in TokenIds
  PROVE  TokenInv' /\ OneUseTokens!Take(req[r].id, r)
<1> DEFINE id == req[r].id
<1>1. id \in liveTokens /\ id \in knownTokens
  BY DEF Taking, Unconsumed, liveTokens, knownTokens, TokenInv
<1>2. liveTokens' = liveTokens \ {id}
  BY ConsumeRows DEF Taking
<1>3. knownTokens' = knownTokens /\ grantedTokens' = grantedTokens /\ usedIds' = usedIds
  BY DEF Taking, issued, output, knownTokens, grantedTokens
<1>4. \A q \in Requests : Redeemed(q) => req[q].id # id
  BY <1>1 DEF TokenInv
<1>5. ASSUME NEW t \in TokenIds
      PROVE  TheOne(Holding(t)') = IF t = id THEN r ELSE TheOne(Holding(t))
  <2>1. CASE t = id
    <3>1. Holding(t)' = {r}
      BY <1>4, <2>1 DEF Holding, Taking
    <3> QED
      BY <2>1, <3>1, TheOneSingle
  <2>2. CASE t # id
    <3>1. Holding(t)' = Holding(t)
      BY <2>2 DEF Holding, Taking
    <3> QED
      BY <2>2, <3>1
  <2> QED
    BY <2>1, <2>2
<1>6. tokenHolder' = [tokenHolder EXCEPT ![id] = r]
  <2>1. tokenHolder' = [t \in TokenIds |-> TheOne(Holding(t)')]
    BY DEF tokenHolder, TheOne
  <2> QED
    BY <1>5, <2>1 DEF tokenHolder
<1>7. TokenInv'
  <2>1. \A t \in tokens' : t.id \in usedIds'
    BY <1>3, ConsumeRows DEF Taking, TokenInv
  <2>2. \A t, u \in tokens' : t.id = u.id => t = u
    BY ConsumeRows DEF Taking
  <2>3. ASSUME NEW q \in Requests, Redeemed(q)'
        PROVE  /\ req'[q].id \in knownTokens'
               /\ req'[q].id \notin liveTokens' \cup grantedTokens'
    <3>1. CASE q = r
      BY <1>1, <1>2, <1>3, <3>1 DEF Taking, TokenInv
    <3>2. CASE q # r
      BY <1>2, <1>3, <2>3, <3>2 DEF Taking, TokenInv
    <3> QED
      BY <3>1, <3>2
  <2>4. ASSUME NEW p \in Requests, NEW q \in Requests,
               Redeemed(p)', Redeemed(q)', req'[p].id = req'[q].id
        PROVE  p = q
    BY <1>4, <2>4 DEF Taking, TokenInv
  <2>5. grantedTokens' \subseteq knownTokens' /\ liveTokens' \cap grantedTokens' = {}
    BY <1>2, <1>3 DEF TokenInv
  <2> QED
    BY <2>1, <2>2, <2>3, <2>4, <2>5 DEF TokenInv
<1> QED
  BY <1>1, <1>2, <1>3, <1>6, <1>7 DEF OneUseTokens!Take

\* Request r hands out what its token stands for and ends.
Granted(r) ==
  /\ Redeemed(r) /\ ~Redeemed(r)'
  /\ grantedTokens' = grantedTokens \cup {req[r].id}
  /\ UNCHANGED <<tokens, usedIds>>
  /\ \A q \in Requests \ {r} : /\ Redeemed(q)' <=> Redeemed(q)
                               /\ Redeemed(q) => req'[q].id = req[q].id

\* Responding is a Grant of OneUse.
LEMMA GrantStep ==
  ASSUME TypeInv, TokenInv, NEW r \in Requests, Granted(r)
  PROVE  TokenInv' /\ req[r].id \in TokenIds /\ OneUseTokens!Grant(req[r].id)
<1> DEFINE id == req[r].id
<1>1. id \in knownTokens /\ id \notin liveTokens /\ id \in TokenIds
  BY DEF Granted, TokenInv, knownTokens
<1>2. /\ liveTokens' = liveTokens /\ knownTokens' = knownTokens
      /\ tokens' = tokens /\ usedIds' = usedIds
  BY DEF Granted, liveTokens, knownTokens
<1>3. Holding(id) = {r}
  BY DEF Holding, Granted, TokenInv
<1>4. tokenHolder[id] # Nobody
  BY <1>1, <1>3, TheOneSingle, NobodyAssumption DEF tokenHolder
<1>5. ASSUME NEW t \in TokenIds
      PROVE  TheOne(Holding(t)') = IF t = id THEN Nobody ELSE TheOne(Holding(t))
  <2>1. CASE t = id
    <3>1. Holding(t)' = {}
      BY <1>3, <2>1 DEF Holding, Granted
    <3> QED
      BY <2>1, <3>1 DEF TheOne
  <2>2. CASE t # id
    <3>1. Holding(t)' = Holding(t)
      BY <2>2 DEF Holding, Granted
    <3> QED
      BY <2>2, <3>1
  <2> QED
    BY <2>1, <2>2
<1>6. tokenHolder' = [tokenHolder EXCEPT ![id] = Nobody]
  <2>1. tokenHolder' = [t \in TokenIds |-> TheOne(Holding(t)')]
    BY DEF tokenHolder, TheOne
  <2> QED
    BY <1>5, <2>1 DEF tokenHolder
<1>7. TokenInv'
  <2>1. ASSUME NEW q \in Requests, Redeemed(q)'
        PROVE  /\ q # r /\ Redeemed(q) /\ req'[q].id = req[q].id
               /\ req'[q].id \in knownTokens'
               /\ req'[q].id \notin liveTokens' \cup grantedTokens'
    BY <1>2, <2>1 DEF Granted, TokenInv
  <2>2. ASSUME NEW p \in Requests, NEW q \in Requests,
               Redeemed(p)', Redeemed(q)', req'[p].id = req'[q].id
        PROVE  p = q
    BY <2>1, <2>2 DEF TokenInv
  <2>3. grantedTokens' \subseteq knownTokens' /\ liveTokens' \cap grantedTokens' = {}
    BY <1>1, <1>2 DEF Granted, TokenInv
  <2> QED
    BY <1>2, <2>1, <2>2, <2>3 DEF TokenInv
<1> QED
  BY <1>1, <1>2, <1>4, <1>6, <1>7 DEF OneUseTokens!Grant, Granted

-----------------------------------------------------------------------------
(* Which kind of step each statement is. *)

\* Rows are deleted at most, and nothing is created or given out.
LEMMA Shrinking ==
  ASSUME TokenInv, tokens' \subseteq tokens, UNCHANGED issued, NoTaking
  PROVE  Losing
  BY DEF TokenInv, Losing, issued, output, knownTokens

\* A handler that starts holds no token yet.
LEMMA BeginHolders ==
  ASSUME TypeInv, NEW r \in Requests, NEW h, NEW stage, NEW local,
         ~Holds(stage, local), Begin(r, h, stage, local)
  PROVE  NoTaking
<1>1. \A q \in Requests \ {r} : pc'[q] = pc[q] /\ req'[q] = req[q]
  BY DEF TypeInv, ProcessOK, Begin
<1>2. pc'[r] = stage /\ req'[r] = local
  BY DEF TypeInv, ProcessOK, Begin
<1> QED
  BY <1>1, <1>2, RedeemedHolds DEF NoTaking, Holds, Redeemed

\* Going on takes no token if the request held its token before.
LEMMA GotoHolders ==
  ASSUME TypeInv, NEW r \in Requests, NEW stage, Goto(r, stage),
         \A q \in Requests \ {r} : req'[q] = req[q],
         Holds(stage, req'[r]) => Redeemed(r) /\ req'[r].id = req[r].id
  PROVE  NoTaking
<1>1. \A q \in Requests \ {r} : pc'[q] = pc[q] /\ req'[q] = req[q]
  BY DEF TypeInv, ProcessOK, Goto
<1>2. pc'[r] = stage
  BY DEF TypeInv, ProcessOK, Goto
<1> QED
  BY <1>1, <1>2 DEF NoTaking, Holds, Redeemed

\* A request that answers holds nothing any more.
LEMMA FinishHolders ==
  ASSUME TypeInv, NEW r \in Requests, Finish(r)
  PROVE  NoTaking /\ ~Redeemed(r)' /\ \A q \in Requests \ {r} : pc'[q] = pc[q] /\ req'[q] = req[q]
<1>1. \A q \in Requests \ {r} : pc'[q] = pc[q] /\ req'[q] = req[q]
  BY DEF TypeInv, ProcessOK, Finish
<1>2. pc'[r] = "idle"
  BY DEF TypeInv, ProcessOK, Finish
<1> QED
  BY <1>1, <1>2 DEF NoTaking, Redeemed

\* What the rest of the proof needs of a statement of request r.
Tokenwise(r) ==
  \/ Losing
  \/ \E id : Issuing(id)
  \/ Taking(r) /\ req[r].id \in TokenIds
  \/ Granted(r)

\* A login loses nothing and takes nothing; its identifier is one of a session.
LEMMA LoginTokens ==
  ASSUME TypeInv, TokenInv, NEW r \in Requests, LoginStep(r)
  PROVE  Losing
<1>0. tokens' = tokens /\ UNCHANGED output
  BY DEF LoginStep, LoginBegin, LoginFail, LoginReset, LoginCreate, tables, issued
<1>1. ASSUME NEW i \in Identifiers, NEW ok \in BOOLEAN, LoginBegin(r, i, ok)
      PROVE  Losing
  <2> DEFINE local == [Blank EXCEPT !.caller = "login", !.at = now, !.key = LoginKey(i),
                         !.sub = IF Known(i) THEN Owner[i] ELSE NoSubject,
                         !.rev = IF Known(i) THEN users[Owner[i]].rev ELSE 0,
                         !.ok = ok]
             throttled == [local EXCEPT !.caller = "none", !.category = "rate_limit"]
  <2>1. /\ ~Holds("audit", throttled)
        /\ ~Holds("login.fail", local) /\ ~Holds("isPanicked", local)
    BY DEF Holds, Blank
  <2>2. \/ Begin(r, "login", "audit", throttled)
        \/ Begin(r, "login", "login.fail", local) \/ Begin(r, "login", "isPanicked", local)
    BY <1>1 DEF LoginBegin
  <2>3. NoTaking
    BY <2>1, <2>2, BeginHolders
  <2> QED
    BY <1>0, <1>1, <2>3, Shrinking DEF LoginBegin
<1>2. CASE LoginFail(r)
  BY <1>0, <1>2, FinishHolders, Shrinking DEF LoginFail
<1>3. CASE LoginReset(r)
  <2>1. NoTaking
    BY <1>3, GotoHolders DEF LoginReset, Holds
  <2> QED
    BY <1>0, <1>3, <2>1, Shrinking DEF LoginReset
<1>4. CASE LoginCreate(r)
  <2>1. PICK id \in SessionIds : usedIds' = usedIds \cup {id}
    BY <1>4 DEF LoginCreate
  <2>2. knownTokens' = knownTokens
    BY <2>1, IdentifiersAssumption DEF knownTokens
  <2>3. NoTaking
    BY <1>4, FinishHolders DEF LoginCreate
  <2> QED
    BY <1>0, <2>1, <2>2, <2>3 DEF Losing, TokenInv, output
<1> QED
  BY <1>1, <1>2, <1>3, <1>4 DEF LoginStep

\* /authorize creates at most one code, with a new identifier.
LEMMA AuthorizeTokens ==
  ASSUME TypeInv, TokenInv, NEW r \in Requests, AuthorizeStep(r)
  PROVE  Losing \/ \E id : Issuing(id)
<1>1. ASSUME NEW c \in Clients, AuthorizeBegin(r, c)
      PROVE  Losing
  <2>1. PICK s \in sessions :
          Begin(r, "authorize", IF Usable(s) THEN "isPanicked" ELSE "authorize.revoke",
                   [Blank EXCEPT !.caller = "authorize", !.at = now, !.id = s.id,
                                 !.sub = s.sub, !.rev = s.rev,
                                 !.authTime = s.createdAt, !.client = c])
    BY <1>1 DEF AuthorizeBegin
  <2> DEFINE local == [Blank EXCEPT !.caller = "authorize", !.at = now, !.id = s.id,
                                 !.sub = s.sub, !.rev = s.rev,
                                 !.authTime = s.createdAt, !.client = c]
             stage == IF Usable(s) THEN "isPanicked" ELSE "authorize.revoke"
  <2>2. ~Holds(stage, local)
    BY DEF Holds, Blank
  <2>3. NoTaking
    BY <2>1, <2>2, BeginHolders
  <2> QED
    BY <1>1, <2>3, Shrinking DEF AuthorizeBegin, tables
<1>2. CASE AuthorizeRevoke(r) \/ AuthorizeTooOld(r)
  <2>1. NoTaking
    BY <1>2, FinishHolders DEF AuthorizeRevoke, AuthorizeTooOld
  <2> QED
    BY <1>2, <2>1, Shrinking DEF AuthorizeRevoke, AuthorizeTooOld, tables
<1>3. CASE AuthorizeIssue(r)
  <2> DEFINE row(id) ==
        [id |-> id, kind |-> "code", sub |-> req[r].sub, rev |-> req[r].rev,
         client |-> req[r].client, authTime |-> Format(req[r].authTime),
         expiresAt |-> Format(now + CodeLifetime), consumed |-> FALSE]
  <2>1. PICK id \in TokenIds \ usedIds :
          CreateOneUseToken(row(id)) /\ usedIds' = usedIds \cup {id}
    BY <1>3 DEF AuthorizeIssue
  <2>2. row(id).id = id /\ row(id).consumed = FALSE
    OBVIOUS
  <2> HIDE DEF row
  <2>3. NoTaking /\ ~Redeemed(r) /\ ~Redeemed(r)'
        /\ \A q \in Requests \ {r} : pc'[q] = pc[q] /\ req'[q] = req[q]
    BY <1>3, FinishHolders DEF AuthorizeIssue, At, Redeemed
  <2>4. \A q \in Requests : /\ Redeemed(q)' <=> Redeemed(q)
                            /\ Redeemed(q) => req'[q].id = req[q].id
    BY <2>3 DEF Redeemed
  <2> QED
    BY <1>3, <2>1, <2>2, <2>4 DEF Issuing, AuthorizeIssue, output
<1> QED
  BY <1>1, <1>2, <1>3 DEF AuthorizeStep

\* A request that consumes the row of its token and ends takes nothing.
LEMMA ConsumeAndFinish ==
  ASSUME TypeInv, TokenInv, NEW r \in Requests, ConsumeOneUseToken(req[r].id), Finish(r),
         UNCHANGED issued
  PROVE  Losing
<1>1. NoTaking
  BY FinishHolders
<1>2. UNCHANGED <<knownTokens, bearers, reveals>> /\ usedIds \subseteq usedIds'
  BY DEF issued, output, knownTokens
<1> QED
  BY <1>1, <1>2, ConsumeRows DEF Losing

\* Each statement of /token loses, takes or grants (server/token.go).
LEMMA TokenTokens ==
  ASSUME TypeInv, TokenInv, NEW r \in Requests, TokenStep(r)
  PROVE  Tokenwise(r)
<1> USE DEF Tokenwise
<1>1. ASSUME NEW c \in Clients, NEW authentic \in BOOLEAN, TokenBegin(r, c, authentic)
      PROVE  Losing
  <2> DEFINE local == [Blank EXCEPT !.at = now, !.client = c, !.key = c]
             throttled == [local EXCEPT !.category = "rate_limit"]
             stage == IF authentic THEN "token.reset" ELSE "token.fail"
  <2>1. ~Holds("audit", throttled) /\ ~Holds(stage, local)
    BY DEF Holds, Blank
  <2>2. Begin(r, "token", "audit", throttled) \/ Begin(r, "token", stage, local)
    BY <1>1 DEF TokenBegin
  <2>3. NoTaking
    BY <2>1, <2>2, BeginHolders
  <2> QED
    BY <1>1, <2>3, Shrinking DEF TokenBegin, tables
<1>2. CASE TokenFail(r) \/ TokenUnknown(r)
  <2>1. NoTaking
    BY <1>2, FinishHolders DEF TokenFail, TokenUnknown
  <2> QED
    BY <1>2, <2>1, Shrinking DEF TokenFail, TokenUnknown, tables
<1>3. CASE TokenReset(r)
  <2>1. NoTaking
    BY <1>3, GotoHolders DEF TokenReset, Holds
  <2> QED
    BY <1>3, <2>1, Shrinking DEF TokenReset
<1>4. ASSUME NEW ok \in BOOLEAN, TokenGet(r, ok)
      PROVE  Losing
  <2>1. \A q \in Requests \ {r} : req'[q] = req[q]
    BY <1>4 DEF TokenGet, TypeInv, ProcessOK
  <2>2. \E stage \in {"token.consume", "token.dropExpired"} : Goto(r, stage)
    BY <1>4 DEF TokenGet
  <2>3. NoTaking
    BY <2>1, <2>2, GotoHolders DEF Holds
  <2> QED
    BY <1>4, <2>3, Shrinking DEF TokenGet, tables
<1>5. CASE TokenDropExpired(r)
  <2>1. NoTaking
    BY <1>5, FinishHolders DEF TokenDropExpired
  <2>2. tokens' \subseteq tokens
    BY <1>5 DEF TokenDropExpired, DeleteOneUseToken
  <2> QED
    BY <1>5, <2>1, <2>2, Shrinking DEF TokenDropExpired
<1>6. CASE TokenConsume(r)
  <2>1. CASE Finish(r)
    BY <1>6, <2>1, ConsumeAndFinish DEF TokenConsume
  <2>2. CASE /\ Unconsumed(req[r].id) # {} /\ Goto(r, "isPanicked")
             /\ req' = [req EXCEPT ![r].at = now, ![r].caller = "idToken"]
    <3>1. pc'[r] = "isPanicked" /\ req'[r].caller = "idToken" /\ req'[r].id = req[r].id
      BY <2>2 DEF Goto, TypeInv, ProcessOK, RequestState
    <3>2. pc[r] = "token.consume"
      BY <1>6 DEF TokenConsume, At
    <3>3. \A q \in Requests \ {r} : pc'[q] = pc[q] /\ req'[q] = req[q]
      BY <2>2 DEF Goto, TypeInv, ProcessOK
    <3>4. req[r].id \in TokenIds
      BY <3>2 DEF TypeInv, ProcessOK, StageOK
    <3> QED
      BY <1>6, <2>2, <3>1, <3>2, <3>3, <3>4 DEF Taking, Redeemed, TokenConsume
  <2> QED
    BY <1>6, <2>1, <2>2 DEF TokenConsume
<1>7. CASE TokenRespond(r)
  <2>1. /\ ~Redeemed(r)'
        /\ \A q \in Requests \ {r} : pc'[q] = pc[q] /\ req'[q] = req[q]
    BY <1>7, FinishHolders DEF TokenRespond
  <2>2. Redeemed(r)
    BY <1>7 DEF TokenRespond, At, Redeemed
  <2> DEFINE bearer == [sub |-> req[r].sub, code |-> req[r].id,
                        expiresAt |-> Format(req[r].at + BearerLifetime)]
  <2>3. grantedTokens' = grantedTokens \cup {req[r].id}
    <3>1. bearers' = bearers \cup {bearer} /\ reveals' = reveals /\ bearer.code = req[r].id
      BY <1>7 DEF TokenRespond
    <3> HIDE DEF bearer
    <3> QED
      BY <3>1 DEF grantedTokens
  <2> QED
    BY <1>7, <2>1, <2>2, <2>3 DEF Granted, TokenRespond, Redeemed, tables
<1> QED
  BY <1>1, <1>2, <1>3, <1>4, <1>5, <1>6, <1>7 DEF TokenStep

\* /userinfo has no part in one-use tokens.
LEMMA UserinfoTokens ==
  ASSUME TypeInv, TokenInv, NEW r \in Requests, UserinfoStep(r)
  PROVE  Losing
<1>1. CASE UserinfoBegin(r)
  <2>1. PICK b \in bearers :
          Begin(r, "userinfo", "isPanicked",
                [Blank EXCEPT !.caller = "userinfo", !.at = now, !.sub = b.sub])
    BY <1>1 DEF UserinfoBegin
  <2>2. ~Holds("isPanicked", [Blank EXCEPT !.caller = "userinfo", !.at = now, !.sub = b.sub])
    BY DEF Holds, Blank
  <2>3. NoTaking
    BY <2>1, <2>2, BeginHolders
  <2> QED
    BY <1>1, <2>3, Shrinking DEF UserinfoBegin, tables
<1>2. CASE UserinfoAnswer(r)
  <2>1. NoTaking
    BY <1>2, FinishHolders DEF UserinfoAnswer
  <2> QED
    BY <1>2, <2>1, Shrinking DEF UserinfoAnswer, tables
<1> QED
  BY <1>1, <1>2 DEF UserinfoStep

\* Logout and panic have no part in one-use tokens.
LEMMA SessionEndTokens ==
  ASSUME TypeInv, TokenInv, NEW r \in Requests, SessionEndStep(r)
  PROVE  Losing
<1>1. tokens' = tokens /\ UNCHANGED issued
  BY DEF SessionEndStep, LogoutBegin, LogoutRevoke, PanicBegin, PanicSubject, Validated, tables
<1>2. NoTaking
  <2>1. ASSUME NEW h, NEW stage \in {"logout.revoke", "panic.lock"}, NEW category,
               Validated(r, h, stage, category)
        PROVE  NoTaking
    <3>1. \A local : ~Holds(stage, local)
      BY DEF Holds
    <3>2. \E local : Begin(r, h, stage, local)
      BY <2>1 DEF Validated
    <3> QED
      BY <3>1, <3>2, BeginHolders
  <2>2. CASE LogoutRevoke(r)
    <3>1. /\ \A q \in Requests \ {r} : req'[q] = req[q]
          /\ req'[r].category # "enrollment_token_consumed"
      BY <2>2, OtherCategory DEF LogoutRevoke, At, TypeInv, ProcessOK, RequestState
    <3> QED
      BY <2>2, <3>1, GotoHolders DEF LogoutRevoke, Holds
  <2>3. CASE PanicSubject(r)
    <3>1. req[r].category # "enrollment_token_consumed"
      BY <2>3, OtherCategory DEF PanicSubject, At
    <3> QED
      BY <2>3, <3>1, GotoHolders DEF PanicSubject, Holds
  <2> QED
    BY <2>1, <2>2, <2>3 DEF SessionEndStep, LogoutBegin, PanicBegin
<1> QED
  BY <1>1, <1>2, Shrinking

\* The console without its enrollment links has no part in one-use tokens.
LEMMA AdminConsoleTokens ==
  ASSUME TypeInv, TokenInv, NEW r \in Requests, AdminConsoleStep(r)
  PROVE  Losing
<1>0. tokens' = tokens /\ UNCHANGED output
  BY DEF AdminConsoleStep, AdminLoginBegin, AdminFail, AdminReset, AdminCreate,
         LockChangeBegin, ApplyLockChange, tables, issued
<1>1. ASSUME NEW match \in BOOLEAN, AdminLoginBegin(r, match)
      PROVE  Losing
  <2> DEFINE local == [Blank EXCEPT !.at = now, !.key = AdminKey, !.ok = match,
                                    !.category = "admin_authentication"]
             throttled == [local EXCEPT !.category = "rate_limit"]
             stage == IF match THEN "admin.reset" ELSE "admin.fail"
  <2>1. ~Holds("audit", throttled) /\ ~Holds(stage, local)
    BY DEF Holds, Blank
  <2>2. Begin(r, "adminLogin", "audit", throttled) \/ Begin(r, "adminLogin", stage, local)
    BY <1>1 DEF AdminLoginBegin
  <2>3. NoTaking
    BY <2>1, <2>2, BeginHolders
  <2> QED
    BY <1>0, <1>1, <2>3, Shrinking DEF AdminLoginBegin
<1>2. ASSUME NEW u \in Subjects, NEW change \in {"lock", "unlock", "clear_panic"},
             LockChangeBegin(r, u, change)
      PROVE  Losing
  <2>1. \A local : ~Holds("locks.apply", local)
    BY DEF Holds
  <2>2. NoTaking
    BY <1>2, <2>1, BeginHolders DEF LockChangeBegin
  <2> QED
    BY <1>0, <1>2, <2>2, Shrinking DEF LockChangeBegin
<1>3. CASE AdminReset(r)
  <2>1. NoTaking
    BY <1>3, GotoHolders DEF AdminReset, Holds
  <2> QED
    BY <1>0, <1>3, <2>1, Shrinking DEF AdminReset
<1>4. CASE AdminFail(r) \/ AdminCreate(r) \/ ApplyLockChange(r)
  <2>1. req[r].category # "enrollment_token_consumed"
    BY <1>4, OtherCategory DEF AdminFail, AdminCreate, ApplyLockChange, At
  <2>2. NoTaking
    BY <1>4, <2>1, GotoHolders DEF AdminFail, AdminCreate, ApplyLockChange, Holds
  <2>3. usedIds \subseteq usedIds' /\ knownTokens' = knownTokens
    <3>1. CASE AdminFail(r) \/ ApplyLockChange(r)
      BY <3>1 DEF AdminFail, ApplyLockChange, issued, knownTokens
    <3>2. CASE AdminCreate(r)
      <4>1. PICK id \in SessionIds : usedIds' = usedIds \cup {id}
        BY <3>2 DEF AdminCreate
      <4> QED
        BY <4>1, IdentifiersAssumption DEF knownTokens
    <3> QED
      BY <1>4, <3>1, <3>2
  <2> QED
    BY <1>0, <2>2, <2>3 DEF Losing, TokenInv, output
<1> QED
  BY <1>1, <1>2, <1>3, <1>4 DEF AdminConsoleStep

\* Each statement of enrollment links issues, loses, takes or grants
\* (server/admin.go, server/enroll.go).
LEMMA EnrollmentTokens ==
  ASSUME TypeInv, TokenInv, NEW r \in Requests, EnrollmentStep(r)
  PROVE  Tokenwise(r)
<1> USE DEF Tokenwise
<1>1. ASSUME NEW u \in Subjects, EnrollmentBegin(r, u)
      PROVE  Losing
  <2>1. \A local : ~Holds("enrollment.create", local)
    BY DEF Holds
  <2>2. NoTaking
    BY <1>1, <2>1, BeginHolders DEF EnrollmentBegin
  <2> QED
    BY <1>1, <2>2, Shrinking DEF EnrollmentBegin, tables
<1>2. CASE CreateEnrollment(r)
  <2> DEFINE row(id, validity) ==
            [id |-> id, kind |-> "enrollment", sub |-> req[r].sub,
             rev |-> req[r].rev, client |-> NoClient, authTime |-> 0,
             expiresAt |-> Format(req[r].at + validity), consumed |-> FALSE]
  <2>1. PICK id \in TokenIds \ usedIds, validity \in EnrollmentLifetimes :
          CreateOneUseToken(row(id, validity)) /\ usedIds' = usedIds \cup {id}
    BY <1>2 DEF CreateEnrollment
  <2>2. row(id, validity).id = id /\ row(id, validity).consumed = FALSE
    OBVIOUS
  <2> HIDE DEF row
  <2>3. pc[r] = "enrollment.create" /\ req[r].category # "enrollment_token_consumed"
    BY <1>2, OtherCategory DEF CreateEnrollment, At
  <2>4. /\ \A q \in Requests \ {r} : pc'[q] = pc[q]
        /\ pc'[r] = "audit" /\ req' = req
    BY <1>2 DEF CreateEnrollment, Goto, TypeInv, ProcessOK
  <2>5. \A q \in Requests : /\ Redeemed(q)' <=> Redeemed(q)
                            /\ Redeemed(q) => req'[q].id = req[q].id
    BY <2>3, <2>4 DEF Redeemed
  <2> QED
    BY <1>2, <2>1, <2>2, <2>5 DEF Issuing, CreateEnrollment, output
<1>3. CASE EnrollBegin(r)
  <2>1. \E local, stage : /\ stage \in {"enroll.consume", "enroll.dropExpired"}
                          /\ Begin(r, "enroll", stage, local)
    BY <1>3 DEF EnrollBegin
  <2>2. \A local : ~Holds("enroll.consume", local) /\ ~Holds("enroll.dropExpired", local)
    BY DEF Holds
  <2>3. NoTaking
    BY <2>1, <2>2, BeginHolders
  <2> QED
    BY <1>3, <2>3, Shrinking DEF EnrollBegin, tables
<1>4. CASE EnrollDropExpired(r)
  <2>1. NoTaking
    BY <1>4, FinishHolders DEF EnrollDropExpired
  <2>2. tokens' \subseteq tokens
    BY <1>4 DEF EnrollDropExpired, DeleteOneUseToken
  <2> QED
    BY <1>4, <2>1, <2>2, Shrinking DEF EnrollDropExpired
<1>5. CASE EnrollConsume(r)
  <2>1. CASE Finish(r)
    BY <1>5, <2>1, ConsumeAndFinish DEF EnrollConsume
  <2>2. CASE Unconsumed(req[r].id) # {} /\ Goto(r, "audit") /\ UNCHANGED req
    <3>1. pc[r] = "enroll.consume" /\ pc'[r] = "audit"
      BY <1>5, <2>2 DEF EnrollConsume, At, Goto, TypeInv, ProcessOK
    <3>2. \A q \in Requests \ {r} : pc'[q] = pc[q] /\ req'[q] = req[q]
      BY <2>2 DEF Goto, TypeInv, ProcessOK
    <3>3. req[r].id \in TokenIds /\ req[r].category = "enrollment_token_consumed"
      BY <3>1 DEF TypeInv, ProcessOK, StageOK
    <3> QED
      BY <1>5, <2>2, <3>1, <3>2, <3>3 DEF Taking, Redeemed, EnrollConsume
  <2> QED
    BY <1>5, <2>1, <2>2 DEF EnrollConsume
<1>6. CASE EnrollReveal(r)
  <2>1. /\ ~Redeemed(r)'
        /\ \A q \in Requests \ {r} : pc'[q] = pc[q] /\ req'[q] = req[q]
    BY <1>6, FinishHolders DEF EnrollReveal
  <2>2. Redeemed(r)
    BY <1>6 DEF EnrollReveal, At, Redeemed
  <2> DEFINE reveal == [sub |-> req[r].sub, token |-> req[r].id,
                        rev |-> users[req[r].sub].rev]
  <2>3. grantedTokens' = grantedTokens \cup {req[r].id}
    <3>1. reveals' = reveals \cup {reveal} /\ bearers' = bearers /\ reveal.token = req[r].id
      BY <1>6 DEF EnrollReveal
    <3> HIDE DEF reveal
    <3> QED
      BY <3>1 DEF grantedTokens
  <2> QED
    BY <1>6, <2>1, <2>2, <2>3 DEF Granted, EnrollReveal, Redeemed, tables
<1> QED
  BY <1>1, <1>2, <1>3, <1>4, <1>5, <1>6 DEF EnrollmentStep

\* Reading the locks and writing the audit record, a request goes on holding
\* the token it redeemed; failing, it loses it.
LEMMA CommonTokens ==
  ASSUME TypeInv, TokenInv, NEW r \in Requests,
         \/ IsPanicked(r) \/ IsAdminLocked(r) \/ FoundLocked(r)
         \/ ExpiredSession(r) \/ DropExpiredSession(r) \/ RecordAudit(r) \/ Abort(r)
  PROVE  Losing
<1>1. tokens' = tokens /\ UNCHANGED issued
  BY DEF IsPanicked, IsAdminLocked, FoundLocked, ExpiredSession, DropExpiredSession,
         RecordAudit, Abort, tables
<1>2. NoTaking
  <2>1. CASE IsPanicked(r)
    BY <2>1, GotoHolders DEF IsPanicked, At, Holds, Redeemed
  <2>2. CASE IsAdminLocked(r)
    <3>0. \A q \in Requests \ {r} : req'[q] = req[q]
      BY <2>2 DEF IsAdminLocked, TypeInv, ProcessOK
    <3>1. pc[r] = "isAdminLocked" /\ req'[r].id = req[r].id
      BY <2>2 DEF IsAdminLocked, At, TypeInv, ProcessOK, RequestState
    <3>2. CASE req[r].caller = "login" /\ ~req[r].ok
      BY <2>2, <3>0, <3>2, GotoHolders DEF IsAdminLocked, Holds
    <3>3. CASE ~(req[r].caller = "login" /\ ~req[r].ok)
      <4>1. req[r].caller \in {"login", "authorize", "idToken", "accessToken", "userinfo"}
        BY <3>1 DEF TypeInv, ProcessOK, StageOK, RequestState, Callers
      <4>2. Goto(r, Cleared[req[r].caller])
        BY <2>2, <3>3 DEF IsAdminLocked
      <4>3. Holds(Cleared[req[r].caller], req'[r]) => Redeemed(r)
        BY <3>1, <4>1 DEF Holds, Redeemed, Cleared
      <4> QED
        BY <3>0, <3>1, <4>2, <4>3, GotoHolders
    <3> QED
      BY <3>2, <3>3
  <2>3. CASE FoundLocked(r)
    <3>1. CASE req[r].caller \in {"login", "authorize"}
      BY <2>3, <3>1, GotoHolders DEF FoundLocked, Holds
    <3>2. CASE req[r].caller \notin {"login", "authorize"}
      BY <2>3, <3>2, FinishHolders DEF FoundLocked
    <3> QED
      BY <3>1, <3>2
  <2>4. CASE ExpiredSession(r)
    <3>1. \A local : ~Holds("dropExpired", local)
      BY DEF Holds
    <3>2. PICK s \in sessions :
            Begin(r, "expiredSession", "dropExpired", [Blank EXCEPT !.at = now, !.id = s.id])
      BY <2>4 DEF ExpiredSession
    <3> QED
      BY <3>1, <3>2, BeginHolders
  <2>5. CASE DropExpiredSession(r) \/ Abort(r)
    BY <2>5, FinishHolders DEF DropExpiredSession, Abort
  <2>6. CASE RecordAudit(r)
    <3>1. CASE req[r].category = "enrollment_token_consumed"
      BY <2>6, <3>1, GotoHolders DEF RecordAudit, At, Redeemed
    <3>2. CASE req[r].category # "enrollment_token_consumed"
      BY <2>6, <3>2, FinishHolders DEF RecordAudit
    <3> QED
      BY <3>1, <3>2
  <2> QED
    BY <2>1, <2>2, <2>3, <2>4, <2>5, <2>6
<1> QED
  BY <1>1, <1>2, Shrinking

\* Purges and deploys lose tokens and holders.
LEMMA OutsideTokens ==
  ASSUME TypeInv, TokenInv, AdminLogOut \/ CleanupStep \/ Tick \/ Restart \/ UNCHANGED vars
  PROVE  Losing
<1>1. UNCHANGED issued
  BY DEF AdminLogOut, CleanupStep, Pass, Tick, Restart, vars
<1>2. tokens' \subseteq tokens
  BY DEF AdminLogOut, CleanupStep, Pass, CleanCounters, CleanTokens, CleanSessions, CleanAudit,
         CleanFail, DeleteExpiredOneUseTokens, Tick, Restart, vars, tables
<1>3. NoTaking
  <2>1. CASE Restart
    BY <2>1 DEF Restart, NoTaking, Redeemed
  <2>2. CASE AdminLogOut \/ CleanupStep \/ Tick \/ UNCHANGED vars
    BY <2>2 DEF AdminLogOut, CleanupStep, Pass, Tick, vars, process, NoTaking, Redeemed
  <2> QED
    BY <2>1, <2>2
<1> QED
  BY <1>1, <1>2, <1>3, Shrinking

-----------------------------------------------------------------------------
(* The refinement. *)

abstract == <<knownTokens, liveTokens, tokenHolder, grantedTokens>>

\* Every step of the service is a step of OneUse and keeps the invariant.
LEMMA Refines ==
  ASSUME TypeInv, TokenInv, [Next]_vars
  PROVE  TokenInv' /\ OneUseTokens!Next
<1>0. TypeInv'
  BY TypeStep
<1>1. CASE Losing
  BY <1>0, <1>1, LoseStep DEF OneUseTokens!Next
<1>2. ASSUME NEW r \in Requests, RequestStep(r)
      PROVE  TokenInv' /\ OneUseTokens!Next
  <2>1. Tokenwise(r)
    BY <1>2, LoginTokens, AuthorizeTokens, TokenTokens, UserinfoTokens, SessionEndTokens,
       AdminConsoleTokens, EnrollmentTokens, CommonTokens DEF RequestStep, Tokenwise
  <2>2. ASSUME NEW id, Issuing(id)
        PROVE  TokenInv' /\ OneUseTokens!Next
    <3>1. id \in TokenIds
      BY <2>2 DEF Issuing
    <3> QED
      BY <2>2, <3>1, IssueStep DEF OneUseTokens!Next
  <2>3. CASE Taking(r) /\ req[r].id \in TokenIds
    BY <2>3, TakeStep DEF OneUseTokens!Next
  <2>4. CASE Granted(r)
    BY <2>4, GrantStep DEF OneUseTokens!Next
  <2> QED
    BY <1>1, <2>1, <2>2, <2>3, <2>4 DEF Tokenwise
<1> QED
  BY <1>1, <1>2, OutsideTokens DEF Next

\* The service starts where OneUse starts.
LEMMA RefinesInit == Init => TokenInv /\ OneUseTokens!Init
<1> SUFFICES ASSUME Init PROVE TokenInv /\ OneUseTokens!Init
  OBVIOUS
<1>1. /\ tokens = {} /\ usedIds = {} /\ bearers = {} /\ reveals = {}
      /\ \A r \in Requests : pc[r] = "idle"
  BY DEF Init, StoreInit, ServerInit
<1>2. \A r \in Requests : ~Redeemed(r)
  BY <1>1 DEF Redeemed
<1>3. knownTokens = {} /\ liveTokens = {} /\ grantedTokens = {}
  BY <1>1 DEF knownTokens, liveTokens, grantedTokens
<1>4. tokenHolder = [t \in TokenIds |-> Nobody]
  <2>1. \A t \in TokenIds : Holding(t) = {}
    BY <1>2 DEF Holding
  <2> QED
    BY <2>1 DEF tokenHolder, TheOne
<1> QED
  BY <1>1, <1>2, <1>3, <1>4 DEF TokenInv, OneUseTokens!Init

\* Redemption: authorization codes and enrollment tokens are one-use
\* credentials, for any number of requests that present them, concurrently
\* or one after the other, with failures, deploys and purges between any two
\* statements (onetoken/store.go).
THEOREM TokensAreOneUse == Spec => Redemption
<1>1. Init => TokenInv /\ OneUseTokens!Init
  BY RefinesInit
<1>2. TypeInv /\ TokenInv /\ [Next]_vars => TokenInv' /\ OneUseTokens!Next
  BY Refines
<1>3. TypeInv /\ TokenInv /\ [Next]_vars => TokenInv' /\ [OneUseTokens!Next]_abstract
  BY <1>2
<1> QED
  BY <1>1, <1>3, TypeInvariant, PTL DEF Spec, Redemption, OneUseTokens!Spec, abstract

-----------------------------------------------------------------------------
(* What it is worth to implement OneUse *)

\* The two parts of the invariant of OneUse support each other: a grant is of an
\* issued token because whatever is held has been issued.
OneUseInv == OneUseTokens!TypeOK /\ OneUseTokens!Exclusive

\* Each action of OneUse preserves it.
LEMMA OneUseStep == OneUseInv /\ [OneUseTokens!Next]_abstract => OneUseInv'
<1> SUFFICES ASSUME OneUseInv, [OneUseTokens!Next]_abstract PROVE OneUseInv'
  OBVIOUS
<1> USE DEF OneUseInv, OneUseTokens!TypeOK, OneUseTokens!Exclusive
<1>1. ASSUME NEW c \in TokenIds, OneUseTokens!Issue(c) PROVE OneUseInv'
  BY <1>1 DEF OneUseTokens!Issue
<1>2. ASSUME NEW c \in TokenIds, OneUseTokens!Grant(c) PROVE OneUseInv'
  BY <1>2 DEF OneUseTokens!Grant
<1>3. ASSUME NEW c \in TokenIds, NEW r \in Requests, OneUseTokens!Take(c, r) PROVE OneUseInv'
  BY <1>3 DEF OneUseTokens!Take
<1>4. CASE OneUseTokens!Lose
  BY <1>4 DEF OneUseTokens!Lose
<1>5. CASE UNCHANGED abstract
  BY <1>5 DEF abstract
<1> QED
  BY <1>1, <1>2, <1>3, <1>4, <1>5 DEF OneUseTokens!Next

\* A token that has been granted for can neither be redeemed nor granted for
\* again: an authorization code yields tokens at most once and an enrollment
\* link its secret at most once, in every state of the service
\* (onetoken/store.go Consume, server/token.go, server/enroll.go).
THEOREM NeverTwice == Spec => []OneUseTokens!Exclusive
<1>1. OneUseTokens!Init => OneUseInv
  BY DEF OneUseTokens!Init, OneUseInv, OneUseTokens!TypeOK, OneUseTokens!Exclusive
<1>2. OneUseInv => OneUseTokens!Exclusive
  BY DEF OneUseInv
<1> QED
  BY <1>1, <1>2, OneUseStep, TokensAreOneUse, PTL DEF Redemption, OneUseTokens!Spec, abstract
=============================================================================
