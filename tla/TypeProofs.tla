------------------------------ MODULE TypeProofs ------------------------------
(***************************************************************************)
(* Type correctness of the whole service.  TypeOK alone is not inductive:  *)
(* a statement uses local variables that an earlier one has set, so the     *)
(* invariant says for every stage which of them hold a subject, a token, a  *)
(* key or a category (StageOK).                                            *)
(***************************************************************************)
EXTENDS ZenIdpProperties, TLAPS

\* Stages at which the request acts for a known subject.
SubjectStages ==
  {"isPanicked", "isAdminLocked", "login.reset", "login.create",
   "authorize.issue", "token.consume", "token.respond", "userinfo.answer",
   "panic.lock", "locks.apply", "enrollment.create", "enroll.consume",
   "enroll.reveal"}

\* What the local variables of a request at a stage hold.
StageOK(stage, q) ==
  /\ stage \in SubjectStages => q.sub \in Subjects
  /\ stage \in {"isPanicked", "isAdminLocked"} => q.caller # "none"
  /\ stage \in {"isPanicked", "isAdminLocked"} /\ q.caller = "login" => q.key \in LimitKeys
  /\ stage \in {"isPanicked", "isAdminLocked"} /\ q.caller \in {"idToken", "accessToken"}
       => q.id \in TokenIds
  /\ stage \in {"token.consume", "token.respond", "enroll.consume", "enroll.reveal"}
       => q.id \in TokenIds
  /\ stage \in {"login.fail", "admin.fail", "token.fail"} => q.key \in LimitKeys
  /\ stage = "audit" => q.category \in Categories
  /\ stage = "enroll.consume" => q.category = "enrollment_token_consumed"
  /\ stage \in {"admin.fail", "admin.reset", "admin.create", "panic.lock",
                "logout.revoke", "locks.apply", "enrollment.create"}
       => q.category \in Categories \ {"enrollment_token_consumed"}
  /\ stage \in {"audit", "enroll.consume"} /\ q.category = "enrollment_token_consumed"
       => q.sub \in Subjects /\ q.id \in TokenIds

\* Control state and local variables of every request.
ProcessOK ==
  /\ pc \in [Requests -> Stages]
  /\ req \in [Requests -> RequestState]
  /\ \A r \in Requests : StageOK(pc[r], req[r])

\* The history variables.
HistoryOK ==
  /\ heldPanic \in [Requests -> SUBSET Subjects]
  /\ heldAdmin \in [Requests -> SUBSET Subjects]
  /\ lockedOut \in SUBSET SessionIds

\* Clock, configuration and cleanup goroutine.
WorldOK ==
  /\ now \in 0..MaxTime
  /\ users \in [Subjects -> UserConfig]
  /\ limits \in LimitConfig /\ inherited \in SUBSET CounterRow
  /\ cleaner \in Cleaner

\* What was generated and handed out.
IssuedOK ==
  /\ usedIds \in SUBSET (SessionIds \cup TokenIds)
  /\ bearers \in SUBSET Bearer
  /\ reveals \in SUBSET Reveal

\* The inductive type invariant, by the groups of variables steps leave alone.
TypeInv == StoreTypeOK /\ ProcessOK /\ HistoryOK /\ WorldOK /\ IssuedOK

\* Cutting an instant to whole seconds (internal/clock) gives an instant.
LEMMA FormatType == ASSUME NEW t \in Nat PROVE Format(t) \in Nat
  BY SecondAssumption DEF Format

\* The local variables of a request that has answered are well typed.
LEMMA BlankType == Blank \in RequestState /\ StageOK("idle", Blank)
  BY DEF Blank, RequestState, StageOK, SubjectStages, Callers, Categories

\* A handler that starts at a known statement, with local variables that fit
\* it, leaves the control state well typed.
LEMMA BeginType ==
  ASSUME ProcessOK, HistoryOK, StoreTypeOK, NEW r \in Requests, NEW h,
         NEW stage \in Stages, NEW local \in RequestState,
         StageOK(stage, local), Begin(r, h, stage, local)
  PROVE  ProcessOK' /\ HistoryOK'
  BY DEF ProcessOK, HistoryOK, StoreTypeOK, Begin, BeginHistory

\* So does a statement that leads to another one its local variables fit.
LEMMA GotoType ==
  ASSUME ProcessOK, NEW r \in Requests, NEW stage \in Stages,
         StageOK(stage, req[r]), Goto(r, stage), UNCHANGED req
  PROVE  ProcessOK'
  BY DEF ProcessOK, Goto

\* So does an answer, whatever the handler was doing.
LEMMA FinishType ==
  ASSUME ProcessOK, HistoryOK, NEW r \in Requests, Finish(r)
  PROVE  ProcessOK' /\ HistoryOK'
  BY BlankType DEF ProcessOK, HistoryOK, Finish, Stages, history, held

\* The category of a request that is not an enrollment.
LEMMA OtherCategory ==
  ASSUME TypeInv, NEW r \in Requests,
         pc[r] \in {"admin.fail", "admin.reset", "admin.create", "panic.lock",
                    "logout.revoke", "locks.apply", "enrollment.create"}
  PROVE  req[r].category # "enrollment_token_consumed"
  BY DEF TypeInv, ProcessOK, StageOK

\* Each part of the invariant depends on its own variables only.
LEMMA UnchangedType ==
  /\ StoreTypeOK /\ UNCHANGED tables => StoreTypeOK'
  /\ WorldOK /\ UNCHANGED world => WorldOK'
  /\ IssuedOK /\ UNCHANGED issued => IssuedOK'
  /\ HistoryOK /\ UNCHANGED history => HistoryOK'
  BY DEF StoreTypeOK, tables, WorldOK, world, IssuedOK, issued, output, HistoryOK, history, held

\* The upsert that counts a failed attempt (ratelimit/limiter.go RecordFailure)
\* stores a well-typed counter.
LEMMA FailureType ==
  ASSUME counters \in SUBSET CounterRow, NEW key \in LimitKeys, NEW t \in Nat,
         NEW limit \in [max : Nat \ {0}, window : Nat \ {0}],
         RecordFailure(limit, key, t)
  PROVE  counters' \in SUBSET CounterRow
<1>1. Format(t + limit.window) \in Nat
  BY FormatType
<1> DEFINE open == {c \in CounterOf(key) : c.resetAt > Format(t)}
<1>2. \A c \in open : [c EXCEPT !.attempts = @ + 1] \in CounterRow
  BY DEF CounterOf, CounterRow
<1> QED
  BY <1>1, <1>2 DEF RecordFailure, RecordRateLimitAttempt, CounterOf, CounterRow

\* The limiters of a process have a budget and a window, whatever the deploy.
LEMMA SettingsType ==
  ASSUME WorldOK
  PROVE  /\ userLimit \in [max : Nat \ {0}, window : Nat \ {0}]
         /\ clientLimit \in [max : Nat \ {0}, window : Nat \ {0}]
  BY DEF WorldOK, LimitConfig, Limit, userLimit, clientLimit

\* Login up to the locks (login/service.go) looks up a key of the limiter and,
\* when it goes on, a declared subject.
LEMMA LoginBeginType ==
  ASSUME TypeInv, NEW r \in Requests, NEW i \in Identifiers, NEW ok \in BOOLEAN,
         LoginBegin(r, i, ok)
  PROVE  TypeInv'
<1> USE DEF TypeInv
<1> DEFINE local == [Blank EXCEPT !.caller = "login", !.at = now, !.key = LoginKey(i),
                       !.sub = IF Known(i) THEN Owner[i] ELSE NoSubject,
                       !.rev = IF Known(i) THEN users[Owner[i]].rev ELSE 0,
                       !.ok = ok]
           throttled == [local EXCEPT !.caller = "none", !.category = "rate_limit"]
<1>1. LoginKey(i) \in LimitKeys
  BY LoginAssumption DEF LoginKey, Known
<1>2. now \in Nat /\ (Known(i) => Owner[i] \in Subjects /\ users[Owner[i]].rev \in Nat)
  BY ServerAssumption DEF WorldOK, Known, UserConfig
<1>3. local \in RequestState /\ throttled \in RequestState
  BY <1>1, <1>2 DEF RequestState, Blank, Callers, Categories
<1>4. ProcessOK' /\ HistoryOK'
  <2>1. CASE Begin(r, "login", "audit", throttled)
    <3>1. StageOK("audit", throttled) /\ "audit" \in Stages
      BY DEF StageOK, SubjectStages, Blank, Categories, Stages
    <3> QED
      BY <2>1, <3>1, <1>3, BeginType
  <2>2. CASE Begin(r, "login", "login.fail", local)
    <3>1. StageOK("login.fail", local) /\ "login.fail" \in Stages
      BY <1>1 DEF StageOK, SubjectStages, Blank, Stages
    <3> QED
      BY <2>2, <3>1, <1>3, BeginType
  <2>3. CASE MayLogin(i) /\ Begin(r, "login", "isPanicked", local)
    <3>1. StageOK("isPanicked", local) /\ "isPanicked" \in Stages
      BY <2>3, <1>1, <1>2 DEF StageOK, SubjectStages, Blank, Stages, MayLogin
    <3> QED
      BY <2>3, <3>1, <1>3, BeginType
  <2> QED
    BY <2>1, <2>2, <2>3 DEF LoginBegin
<1> QED
  BY <1>4, UnchangedType DEF LoginBegin

\* Every statement of a login keeps the types.
LEMMA LoginType ==
  ASSUME TypeInv, NEW r \in Requests, LoginStep(r)
  PROVE  TypeInv'
<1> USE DEF TypeInv
<1>1. CASE \E i \in Identifiers, ok \in BOOLEAN : LoginBegin(r, i, ok)
  BY <1>1, LoginBeginType
<1>2. CASE LoginFail(r)
  <2>1. req[r].key \in LimitKeys /\ req[r].at \in Nat
    BY <1>2 DEF LoginFail, At, ProcessOK, StageOK, RequestState
  <2>2. StoreTypeOK'
    BY <1>2, <2>1, FailureType, SettingsType
    DEF LoginFail, StoreTypeOK, lockTables
  <2> QED
    BY <1>2, <2>2, FinishType, UnchangedType DEF LoginFail
<1>3. CASE LoginReset(r)
  <2>1. StoreTypeOK'
    BY <1>3 DEF LoginReset, Reset, DeleteRateLimitCounter, StoreTypeOK, lockTables
  <2>2. StageOK("login.create", req[r]) /\ "login.create" \in Stages
    BY <1>3 DEF LoginReset, At, ProcessOK, StageOK, SubjectStages, Stages
  <2>3. ProcessOK'
    BY <1>3, <2>2, GotoType DEF LoginReset
  <2> QED
    BY <1>3, <2>1, <2>3, UnchangedType DEF LoginReset
<1>4. CASE LoginCreate(r)
  <2>1. /\ req[r].sub \in Subjects /\ req[r].rev \in Nat
        /\ Format(req[r].at) \in Nat /\ Format(req[r].at + SessionLifetime) \in Nat
    BY <1>4, FormatType, ServerAssumption
    DEF LoginCreate, At, ProcessOK, StageOK, SubjectStages, RequestState
  <2>2. StoreTypeOK'
    BY <1>4, <2>1 DEF LoginCreate, CreateSession, StoreTypeOK, UserSessionRow, lockTables
  <2>3. IssuedOK'
    BY <1>4 DEF LoginCreate, IssuedOK, output
  <2> QED
    BY <1>4, <2>2, <2>3, FinishType, UnchangedType DEF LoginCreate
<1> QED
  BY <1>1, <1>2, <1>3, <1>4 DEF LoginStep

-----------------------------------------------------------------------------
\* The first read of IsLocked (lock/lock.go) keeps the types.
LEMMA IsPanickedType ==
  ASSUME TypeInv, NEW r \in Requests, IsPanicked(r)
  PROVE  TypeInv'
<1> USE DEF TypeInv
<1>1. StageOK("isAdminLocked", req[r]) /\ "isAdminLocked" \in Stages
  BY DEF IsPanicked, At, ProcessOK, StageOK, SubjectStages, Stages
<1> QED
  BY <1>1, GotoType, UnchangedType DEF IsPanicked

\* The second read leads each of its callers to a statement that the local
\* variables fit: a failed login to the limiter, the ID token to the access
\* token.
LEMMA IsAdminLockedType ==
  ASSUME TypeInv, NEW r \in Requests, IsAdminLocked(r)
  PROVE  TypeInv'
<1> USE DEF TypeInv
<1>1. CASE req[r].caller = "login" /\ ~req[r].ok
  <2>1. StageOK("login.fail", req[r]) /\ "login.fail" \in Stages
    BY <1>1 DEF IsAdminLocked, At, ProcessOK, StageOK, SubjectStages, Stages
  <2> QED
    BY <1>1, <2>1, GotoType, UnchangedType DEF IsAdminLocked
<1>2. CASE req[r].caller = "idToken"
  <2> DEFINE local == [req[r] EXCEPT !.caller = "accessToken"]
  <2>1. local \in RequestState
    BY DEF ProcessOK, RequestState, Callers
  <2>2. StageOK("isPanicked", local) /\ "isPanicked" \in Stages
    BY <1>2 DEF IsAdminLocked, At, ProcessOK, StageOK, SubjectStages, Stages, RequestState
  <2>3. pc' = [pc EXCEPT ![r] = "isPanicked"] /\ req' = [req EXCEPT ![r] = local]
    BY <1>2 DEF IsAdminLocked, Goto, Cleared
  <2>4. ProcessOK'
    BY <2>1, <2>2, <2>3 DEF ProcessOK
  <2> QED
    BY <1>2, <2>4, UnchangedType DEF IsAdminLocked
<1>3. CASE req[r].caller \in {"login", "authorize", "accessToken", "userinfo"} /\ ~(req[r].caller = "login" /\ ~req[r].ok)
  <2>1. StageOK(Cleared[req[r].caller], req[r]) /\ Cleared[req[r].caller] \in Stages
    BY <1>3 DEF IsAdminLocked, At, ProcessOK, StageOK, SubjectStages, Stages, Cleared
  <2>2. Goto(r, Cleared[req[r].caller]) /\ UNCHANGED req
    BY <1>3 DEF IsAdminLocked
  <2> QED
    BY <2>1, <2>2, GotoType, UnchangedType DEF IsAdminLocked
<1>4. req[r].caller \in {"login", "authorize", "idToken", "accessToken", "userinfo"}
  BY DEF IsAdminLocked, At, ProcessOK, StageOK, RequestState, Callers
<1> QED
  BY <1>1, <1>2, <1>3, <1>4

\* A lock that was found keeps the types on each of its three ways out.
LEMMA FoundLockedType ==
  ASSUME TypeInv, NEW r \in Requests, FoundLocked(r)
  PROVE  TypeInv'
<1> USE DEF TypeInv
<1>1. req[r].caller = "login" => StageOK("login.fail", req[r]) /\ "login.fail" \in Stages
  BY DEF FoundLocked, At, ProcessOK, StageOK, SubjectStages, Stages
<1>2. StageOK("authorize.revoke", req[r]) /\ "authorize.revoke" \in Stages
  BY DEF StageOK, SubjectStages, Stages
<1>3. ProcessOK' /\ HistoryOK'
  <2>1. CASE req[r].caller = "login"
    BY <1>1, <2>1, GotoType, UnchangedType DEF FoundLocked
  <2>2. CASE req[r].caller = "authorize"
    BY <1>2, <2>2, GotoType, UnchangedType DEF FoundLocked
  <2>3. CASE req[r].caller \notin {"login", "authorize"}
    BY <2>3, FinishType DEF FoundLocked
  <2> QED
    BY <2>1, <2>2, <2>3
<1> QED
  BY <1>3, UnchangedType DEF FoundLocked

\* A cookie that names an expired session keeps the types.
LEMMA ExpiredSessionType ==
  ASSUME TypeInv, NEW r \in Requests, ExpiredSession(r)
  PROVE  TypeInv'
<1> USE DEF TypeInv
<1>1. PICK s \in sessions :
        Begin(r, "expiredSession", "dropExpired", [Blank EXCEPT !.at = now, !.id = s.id])
  BY DEF ExpiredSession
<1> DEFINE local == [Blank EXCEPT !.at = now, !.id = s.id]
<1>2. s.id \in SessionIds /\ now \in Nat
  BY ServerAssumption DEF StoreTypeOK, UserSessionRow, AdminSessionRow, WorldOK
<1>3. local \in RequestState
  BY <1>2 DEF RequestState, Blank, Callers, Categories
<1>4. StageOK("dropExpired", local) /\ "dropExpired" \in Stages
  BY DEF StageOK, SubjectStages, Stages
<1>5. ProcessOK' /\ HistoryOK'
  BY <1>1, <1>3, <1>4, BeginType
<1> QED
  BY <1>5, UnchangedType DEF ExpiredSession

\* Deleting the expired row keeps the types.
LEMMA DropExpiredSessionType ==
  ASSUME TypeInv, NEW r \in Requests, DropExpiredSession(r)
  PROVE  TypeInv'
<1> USE DEF TypeInv
<1>1. StoreTypeOK'
  BY DEF DropExpiredSession, RevokeSession, StoreTypeOK, lockTables
<1> QED
  BY <1>1, FinishType, UnchangedType DEF DropExpiredSession

\* A handler that reaches its audit record has a category of the schema, and
\* only the enrollment page goes on, with a subject and a token.
LEMMA RecordAuditType ==
  ASSUME TypeInv, NEW r \in Requests, RecordAudit(r)
  PROVE  TypeInv'
<1> USE DEF TypeInv
<1>1. /\ req[r].category \in Categories /\ req[r].sub \in Subjects \cup {NoSubject}
      /\ Format(req[r].at) \in Nat
  BY FormatType DEF RecordAudit, At, ProcessOK, StageOK, RequestState
<1>2. StoreTypeOK'
  BY <1>1 DEF RecordAudit, CreateAuditRecord, StoreTypeOK, AuditRow, lockTables
<1>3. CASE req[r].category = "enrollment_token_consumed"
  <2>1. StageOK("enroll.reveal", req[r]) /\ "enroll.reveal" \in Stages
    BY <1>3 DEF RecordAudit, At, ProcessOK, StageOK, SubjectStages, Stages
  <2> QED
    BY <1>2, <1>3, <2>1, GotoType, UnchangedType DEF RecordAudit
<1>4. CASE req[r].category # "enrollment_token_consumed"
  BY <1>2, <1>4, FinishType, UnchangedType DEF RecordAudit
<1> QED
  BY <1>3, <1>4

\* A failing statement keeps the types.
LEMMA AbortType ==
  ASSUME TypeInv, NEW r \in Requests, Abort(r)
  PROVE  TypeInv'
  BY FinishType, UnchangedType DEF Abort, TypeInv

\* Time stays within its bound.
LEMMA TickType ==
  ASSUME TypeInv, Tick
  PROVE  TypeInv'
<1> USE DEF TypeInv
<1>1. WorldOK'
  BY ServerAssumption DEF Tick, WorldOK
<1>2. ProcessOK'
  BY DEF Tick, ProcessOK, process
<1> QED
  BY <1>1, <1>2, UnchangedType DEF Tick

\* A deploy starts from a configuration, on the same tables or on empty ones.
LEMMA RestartType ==
  ASSUME TypeInv, Restart
  PROVE  TypeInv'
<1> USE DEF TypeInv
<1>1. StoreTypeOK'
  BY UnchangedType DEF Restart, StoreTypeOK
<1>2. ProcessOK'
  BY BlankType DEF Restart, ProcessOK, Stages
<1>3. HistoryOK'
  BY DEF Restart, RemoveHistory, HistoryOK
<1>4. WorldOK'
  BY <1>1, ServerAssumption DEF Restart, WorldOK, Cleaner, StoreTypeOK
<1>5. IssuedOK'
  BY UnchangedType DEF Restart
<1> QED
  BY <1>1, <1>2, <1>3, <1>4, <1>5

-----------------------------------------------------------------------------
\* Every statement of /authorize keeps the types; a code carries the subject
\* and the revision of a user session, never of an administrator session.
LEMMA AuthorizeType ==
  ASSUME TypeInv, NEW r \in Requests, AuthorizeStep(r)
  PROVE  TypeInv'
<1> USE DEF TypeInv
<1>1. ASSUME NEW c \in Clients, AuthorizeBegin(r, c)
      PROVE  TypeInv'
  <2>1. PICK s \in sessions :
          /\ s.kind = "user"
          /\ Begin(r, "authorize", IF Usable(s) THEN "isPanicked" ELSE "authorize.revoke",
                   [Blank EXCEPT !.caller = "authorize", !.at = now, !.id = s.id,
                                 !.sub = s.sub, !.rev = s.rev,
                                 !.authTime = s.createdAt, !.client = c])
    BY <1>1 DEF AuthorizeBegin, LiveSession
  <2> DEFINE local == [Blank EXCEPT !.caller = "authorize", !.at = now, !.id = s.id,
                                 !.sub = s.sub, !.rev = s.rev,
                                 !.authTime = s.createdAt, !.client = c]
             stage == IF Usable(s) THEN "isPanicked" ELSE "authorize.revoke"
  <2>2. s \in UserSessionRow /\ now \in Nat
    BY <2>1, ServerAssumption DEF StoreTypeOK, AdminSessionRow, WorldOK
  <2>3. local \in RequestState
    BY <2>2 DEF RequestState, Blank, Callers, Categories, UserSessionRow
  <2>4. StageOK(stage, local) /\ stage \in Stages
    BY <2>2 DEF StageOK, SubjectStages, Stages, UserSessionRow, Blank
  <2>5. ProcessOK' /\ HistoryOK'
    BY <2>1, <2>3, <2>4, BeginType
  <2> QED
    BY <1>1, <2>5, UnchangedType DEF AuthorizeBegin
<1>2. CASE AuthorizeRevoke(r)
  <2>1. StoreTypeOK'
    BY <1>2 DEF AuthorizeRevoke, RevokeSession, StoreTypeOK, lockTables
  <2> QED
    BY <1>2, <2>1, FinishType, UnchangedType DEF AuthorizeRevoke
<1>3. CASE AuthorizeIssue(r)
  <2>1. /\ req[r].sub \in Subjects /\ req[r].rev \in Nat
        /\ req[r].client \in Clients \cup {NoClient}
        /\ Format(req[r].authTime) \in Nat /\ Format(now + CodeLifetime) \in Nat
    BY <1>3, FormatType, ServerAssumption
    DEF AuthorizeIssue, At, ProcessOK, StageOK, SubjectStages, RequestState, WorldOK
  <2> DEFINE row(id) ==
        [id |-> id, kind |-> "code", sub |-> req[r].sub, rev |-> req[r].rev,
         client |-> req[r].client, authTime |-> Format(req[r].authTime),
         expiresAt |-> Format(now + CodeLifetime), consumed |-> FALSE]
  <2>4. PICK id \in TokenIds : tokens' = tokens \cup {row(id)}
    BY <1>3 DEF AuthorizeIssue, CreateOneUseToken
  <2>5. row(id) \in TokenRow
    BY <2>1 DEF TokenRow
  <2>2. StoreTypeOK'
    BY <1>3, <2>4, <2>5 DEF AuthorizeIssue, StoreTypeOK, lockTables
  <2>3. IssuedOK'
    BY <1>3 DEF AuthorizeIssue, IssuedOK, output
  <2> QED
    BY <1>3, <2>2, <2>3, FinishType, UnchangedType DEF AuthorizeIssue
<1>4. CASE AuthorizeTooOld(r)
  BY <1>4, FinishType, UnchangedType DEF AuthorizeTooOld
<1> QED
  BY <1>1, <1>2, <1>3, <1>4 DEF AuthorizeStep

-----------------------------------------------------------------------------
\* The UPDATE that consumes a token keeps the columns of its row.
LEMMA ConsumeType ==
  ASSUME tokens \in SUBSET TokenRow, NEW id, ConsumeOneUseToken(id)
  PROVE  tokens' \in SUBSET TokenRow
  BY DEF ConsumeOneUseToken, TokenRow

\* Client authentication (server/token.go) works on a key of the limiter.
LEMMA TokenBeginType ==
  ASSUME TypeInv, NEW r \in Requests, NEW c \in Clients, NEW authentic \in BOOLEAN,
         TokenBegin(r, c, authentic)
  PROVE  TypeInv'
<1> USE DEF TypeInv
<1> DEFINE local == [Blank EXCEPT !.at = now, !.client = c, !.key = c]
           throttled == [local EXCEPT !.category = "rate_limit"]
           stage == IF authentic THEN "token.reset" ELSE "token.fail"
<1>1. now \in Nat /\ c \in LimitKeys
  BY ServerAssumption, TokenEndpointAssumption DEF WorldOK
<1>2. local \in RequestState /\ throttled \in RequestState
  BY <1>1 DEF RequestState, Blank, Callers, Categories
<1>3. CASE Begin(r, "token", "audit", throttled)
  <2>1. StageOK("audit", throttled) /\ "audit" \in Stages
    BY DEF StageOK, SubjectStages, Blank, Categories, Stages
  <2>2. ProcessOK' /\ HistoryOK'
    BY <1>2, <1>3, <2>1, BeginType
  <2> QED
    BY <2>2, UnchangedType DEF TokenBegin
<1>4. CASE Begin(r, "token", stage, local)
  <2>1. StageOK(stage, local) /\ stage \in Stages
    BY <1>1 DEF StageOK, SubjectStages, Blank, Stages
  <2>2. ProcessOK' /\ HistoryOK'
    BY <1>2, <1>4, <2>1, BeginType
  <2> QED
    BY <2>2, UnchangedType DEF TokenBegin
<1> QED
  BY <1>3, <1>4 DEF TokenBegin

\* The columns of the presented code become well-typed local variables.
LEMMA TokenGetType ==
  ASSUME TypeInv, NEW r \in Requests, NEW ok \in BOOLEAN, TokenGet(r, ok)
  PROVE  TypeInv'
<1> USE DEF TypeInv
<1>1. PICK t \in tokens :
        /\ Goto(r, IF now < t.expiresAt THEN "token.consume" ELSE "token.dropExpired")
        /\ req' = [req EXCEPT ![r].at = now, ![r].id = t.id, ![r].sub = t.sub,
                             ![r].rev = t.rev, ![r].authTime = t.authTime,
                             ![r].ok = (ok /\ t.client = req[r].client)]
  BY DEF TokenGet
<1> DEFINE local == [req[r] EXCEPT !.at = now, !.id = t.id, !.sub = t.sub,
                       !.rev = t.rev, !.authTime = t.authTime,
                       !.ok = (ok /\ t.client = req[r].client)]
           stage == IF now < t.expiresAt THEN "token.consume" ELSE "token.dropExpired"
<1>2. t \in TokenRow /\ now \in Nat
  BY ServerAssumption DEF StoreTypeOK, WorldOK
<1>3. local \in RequestState
  <2>1. req[r] \in RequestState
    BY DEF ProcessOK
  <2>2. /\ t.id \in TokenIds /\ t.sub \in Subjects /\ t.rev \in Nat /\ t.authTime \in Nat
        /\ (ok /\ t.client = req[r].client) \in BOOLEAN
    BY <1>2 DEF TokenRow
  <2> QED
    BY <2>1, <2>2, <1>2 DEF RequestState
<1>4. StageOK(stage, local) /\ stage \in Stages
  BY <1>2 DEF StageOK, SubjectStages, Stages, TokenRow, ProcessOK, RequestState
<1>5. pc' = [pc EXCEPT ![r] = stage] /\ req' = [req EXCEPT ![r] = local]
  BY <1>1 DEF Goto, ProcessOK, RequestState
<1>6. ProcessOK'
  BY <1>3, <1>4, <1>5 DEF ProcessOK
<1> QED
  BY <1>6, UnchangedType DEF TokenGet

\* Redeeming a code leads to the locks with a subject and a token, or ends.
LEMMA TokenConsumeType ==
  ASSUME TypeInv, NEW r \in Requests, TokenConsume(r)
  PROVE  TypeInv'
<1> USE DEF TypeInv
<1>1. StoreTypeOK'
  BY ConsumeType DEF TokenConsume, StoreTypeOK, lockTables
<1>2. CASE Finish(r)
  BY <1>1, <1>2, FinishType, UnchangedType DEF TokenConsume
<1>3. CASE /\ Goto(r, "isPanicked")
           /\ req' = [req EXCEPT ![r].at = now, ![r].caller = "idToken"]
           /\ UNCHANGED history
  <2> DEFINE local == [req[r] EXCEPT !.at = now, !.caller = "idToken"]
  <2>1. local \in RequestState
    <3>1. req[r] \in RequestState /\ now \in Nat
      BY ServerAssumption DEF ProcessOK, WorldOK
    <3> QED
      BY <3>1 DEF RequestState, Callers
  <2>2. StageOK("isPanicked", local) /\ "isPanicked" \in Stages
    BY DEF TokenConsume, At, ProcessOK, StageOK, SubjectStages, Stages, RequestState
  <2>3. pc' = [pc EXCEPT ![r] = "isPanicked"] /\ req' = [req EXCEPT ![r] = local]
    BY <1>3 DEF Goto, ProcessOK, RequestState
  <2>4. ProcessOK'
    BY <2>1, <2>2, <2>3 DEF ProcessOK
  <2> QED
    BY <1>1, <1>3, <2>4, UnchangedType DEF TokenConsume
<1> QED
  BY <1>2, <1>3 DEF TokenConsume

\* Every statement of /token keeps the types.
LEMMA TokenType ==
  ASSUME TypeInv, NEW r \in Requests, TokenStep(r)
  PROVE  TypeInv'
<1> USE DEF TypeInv
<1>1. CASE \E c \in Clients, authentic \in BOOLEAN : TokenBegin(r, c, authentic)
  BY <1>1, TokenBeginType
<1>2. CASE TokenFail(r)
  <2>1. req[r].key \in LimitKeys /\ now \in Nat
    BY <1>2, ServerAssumption DEF TokenFail, At, ProcessOK, StageOK, RequestState, WorldOK
  <2>2. StoreTypeOK'
    BY <1>2, <2>1, FailureType, SettingsType
    DEF TokenFail, StoreTypeOK, lockTables
  <2> QED
    BY <1>2, <2>2, FinishType, UnchangedType DEF TokenFail
<1>3. CASE TokenReset(r)
  <2>1. StoreTypeOK'
    BY <1>3 DEF TokenReset, Reset, DeleteRateLimitCounter, StoreTypeOK, lockTables
  <2>2. StageOK("token.get", req[r]) /\ "token.get" \in Stages
    BY DEF StageOK, SubjectStages, Stages
  <2>3. ProcessOK'
    BY <1>3, <2>2, GotoType DEF TokenReset
  <2> QED
    BY <1>3, <2>1, <2>3, UnchangedType DEF TokenReset
<1>4. CASE \E ok \in BOOLEAN : TokenGet(r, ok)
  BY <1>4, TokenGetType
<1>5. CASE TokenUnknown(r)
  BY <1>5, FinishType, UnchangedType DEF TokenUnknown
<1>6. CASE TokenDropExpired(r)
  <2>1. StoreTypeOK'
    BY <1>6 DEF TokenDropExpired, DeleteOneUseToken, StoreTypeOK, lockTables
  <2> QED
    BY <1>6, <2>1, FinishType, UnchangedType DEF TokenDropExpired
<1>7. CASE TokenConsume(r)
  BY <1>7, TokenConsumeType
<1>8. CASE TokenRespond(r)
  <2>1. /\ req[r].sub \in Subjects /\ req[r].id \in TokenIds
        /\ Format(req[r].at + BearerLifetime) \in Nat
    BY <1>8, FormatType, ServerAssumption
    DEF TokenRespond, At, ProcessOK, StageOK, SubjectStages, RequestState
  <2>2. IssuedOK'
    BY <1>8, <2>1 DEF TokenRespond, IssuedOK, Bearer
  <2> QED
    BY <1>8, <2>2, FinishType, UnchangedType DEF TokenRespond
<1> QED
  BY <1>1, <1>2, <1>3, <1>4, <1>5, <1>6, <1>7, <1>8 DEF TokenStep

-----------------------------------------------------------------------------
\* Every statement of /userinfo keeps the types.
LEMMA UserinfoType ==
  ASSUME TypeInv, NEW r \in Requests, UserinfoStep(r)
  PROVE  TypeInv'
<1> USE DEF TypeInv
<1>1. CASE UserinfoBegin(r)
  <2>1. PICK b \in bearers :
          Begin(r, "userinfo", "isPanicked",
                [Blank EXCEPT !.caller = "userinfo", !.at = now, !.sub = b.sub])
    BY <1>1 DEF UserinfoBegin
  <2> DEFINE local == [Blank EXCEPT !.caller = "userinfo", !.at = now, !.sub = b.sub]
  <2>2. b.sub \in Subjects /\ now \in Nat
    BY ServerAssumption DEF IssuedOK, Bearer, WorldOK
  <2>3. local \in RequestState
    BY <2>2 DEF RequestState, Blank, Callers, Categories
  <2>4. StageOK("isPanicked", local) /\ "isPanicked" \in Stages
    BY <2>2 DEF StageOK, SubjectStages, Stages, Blank
  <2>5. ProcessOK' /\ HistoryOK'
    BY <2>1, <2>3, <2>4, BeginType
  <2> QED
    BY <1>1, <2>5, UnchangedType DEF UserinfoBegin
<1>2. CASE UserinfoAnswer(r)
  BY <1>2, FinishType, UnchangedType DEF UserinfoAnswer
<1> QED
  BY <1>1, <1>2 DEF UserinfoStep

-----------------------------------------------------------------------------
\* The transaction of a lock deletes sessions and remembers session identifiers.
LEMMA LockOutType ==
  ASSUME StoreTypeOK, HistoryOK, NEW sub, LockOut(sub)
  PROVE  sessions' \in SUBSET (UserSessionRow \cup AdminSessionRow) /\ HistoryOK'
<1>1. \A s \in sessions : s.id \in SessionIds
  BY DEF StoreTypeOK, UserSessionRow, AdminSessionRow
<1> QED
  BY <1>1 DEF LockOut, WithoutSubject, StoreTypeOK, HistoryOK, held

\* Logout and panic start from a user session, so they act for a subject.
LEMMA ValidatedType ==
  ASSUME TypeInv, NEW r \in Requests, NEW h, NEW stage \in {"logout.revoke", "panic.lock"},
         NEW category \in {"session_revoked", "panic_action"},
         Validated(r, h, stage, category)
  PROVE  TypeInv'
<1> USE DEF TypeInv
<1>1. PICK s \in sessions :
        /\ s.kind = "user"
        /\ Begin(r, h, stage, [Blank EXCEPT !.at = now, !.id = s.id, !.sub = s.sub,
                                            !.category = category])
  BY DEF Validated, LiveSession
<1> DEFINE local == [Blank EXCEPT !.at = now, !.id = s.id, !.sub = s.sub,
                                  !.category = category]
<1>2. s \in UserSessionRow /\ now \in Nat
  BY <1>1, ServerAssumption DEF StoreTypeOK, AdminSessionRow, WorldOK
<1>3. local \in RequestState
  BY <1>2 DEF RequestState, Blank, Callers, Categories, UserSessionRow
<1>4. StageOK(stage, local) /\ stage \in Stages
  BY <1>2 DEF StageOK, SubjectStages, Stages, UserSessionRow, Blank, Categories
<1>5. ProcessOK' /\ HistoryOK'
  BY <1>1, <1>3, <1>4, BeginType
<1> QED
  BY <1>5, UnchangedType DEF Validated

\* Every statement of /logout and /panic keeps the types.
LEMMA SessionEndType ==
  ASSUME TypeInv, NEW r \in Requests, SessionEndStep(r)
  PROVE  TypeInv'
<1> USE DEF TypeInv
<1>1. CASE LogoutBegin(r)
  BY <1>1, ValidatedType DEF LogoutBegin
<1>2. CASE LogoutRevoke(r)
  <2> DEFINE local == [req[r] EXCEPT !.at = now]
  <2>1. StoreTypeOK'
    BY <1>2 DEF LogoutRevoke, RevokeSession, StoreTypeOK, lockTables
  <2>2. local \in RequestState
    <3>1. req[r] \in RequestState /\ now \in Nat
      BY ServerAssumption DEF ProcessOK, WorldOK
    <3> QED
      BY <3>1 DEF RequestState
  <2>3. StageOK("audit", local) /\ "audit" \in Stages
    BY <1>2 DEF LogoutRevoke, At, ProcessOK, StageOK, SubjectStages, Stages, RequestState
  <2>4. pc' = [pc EXCEPT ![r] = "audit"] /\ req' = [req EXCEPT ![r] = local]
    BY <1>2 DEF LogoutRevoke, Goto, ProcessOK, RequestState
  <2>5. ProcessOK'
    BY <2>2, <2>3, <2>4 DEF ProcessOK
  <2> QED
    BY <1>2, <2>1, <2>5, UnchangedType DEF LogoutRevoke
<1>3. CASE PanicBegin(r)
  BY <1>3, ValidatedType DEF PanicBegin
<1>4. CASE PanicSubject(r)
  <2>1. req[r].sub \in Subjects
    BY <1>4 DEF PanicSubject, At, ProcessOK, StageOK, SubjectStages
  <2>2. StoreTypeOK' /\ HistoryOK'
    BY <1>4, <2>1, LockOutType DEF PanicSubject, StoreTypeOK
  <2>3. StageOK("audit", req[r]) /\ "audit" \in Stages
    BY <1>4 DEF PanicSubject, At, ProcessOK, StageOK, SubjectStages, Stages
  <2>4. ProcessOK'
    BY <1>4, <2>3, GotoType DEF PanicSubject
  <2> QED
    BY <1>4, <2>2, <2>4, UnchangedType DEF PanicSubject
<1> QED
  BY <1>1, <1>2, <1>3, <1>4 DEF SessionEndStep

-----------------------------------------------------------------------------
\* Administrator sign-in (admin/service.go) works on its key of the limiter.
LEMMA AdminLoginBeginType ==
  ASSUME TypeInv, NEW r \in Requests, NEW match \in BOOLEAN, AdminLoginBegin(r, match)
  PROVE  TypeInv'
<1> USE DEF TypeInv
<1> DEFINE local == [Blank EXCEPT !.at = now, !.key = AdminKey, !.ok = match,
                                  !.category = "admin_authentication"]
           throttled == [local EXCEPT !.category = "rate_limit"]
           stage == IF match THEN "admin.reset" ELSE "admin.fail"
<1>1. now \in Nat /\ AdminKey \in LimitKeys
  BY ServerAssumption, AdminConsoleAssumption DEF WorldOK
<1>2. local \in RequestState /\ throttled \in RequestState
  BY <1>1 DEF RequestState, Blank, Callers, Categories
<1>3. CASE Begin(r, "adminLogin", "audit", throttled)
  <2>1. StageOK("audit", throttled) /\ "audit" \in Stages
    BY DEF StageOK, SubjectStages, Blank, Categories, Stages
  <2>2. ProcessOK' /\ HistoryOK'
    BY <1>2, <1>3, <2>1, BeginType
  <2> QED
    BY <2>2, UnchangedType DEF AdminLoginBegin
<1>4. CASE Begin(r, "adminLogin", stage, local)
  <2>1. StageOK(stage, local) /\ stage \in Stages
    BY <1>1 DEF StageOK, SubjectStages, Blank, Stages, Categories
  <2>2. ProcessOK' /\ HistoryOK'
    BY <1>2, <1>4, <2>1, BeginType
  <2> QED
    BY <2>2, UnchangedType DEF AdminLoginBegin
<1> QED
  BY <1>3, <1>4 DEF AdminLoginBegin

\* The session it creates has the columns of an administrator session.
LEMMA AdminCreateType ==
  ASSUME TypeInv, NEW r \in Requests, AdminCreate(r)
  PROVE  TypeInv'
<1> USE DEF TypeInv
<1>1. Format(req[r].at) \in Nat /\ Format(req[r].at + SessionLifetime) \in Nat
  BY FormatType, ServerAssumption DEF ProcessOK, RequestState
<1> DEFINE row(id) == [id |-> id, kind |-> "admin", sub |-> AdminSubject,
                       rev |-> 0, createdAt |-> Format(req[r].at),
                       expiresAt |-> Format(req[r].at + SessionLifetime)]
<1>2. PICK id \in SessionIds : sessions' = sessions \cup {row(id)}
  BY DEF AdminCreate, CreateSession
<1>3. row(id) \in AdminSessionRow
  BY <1>1 DEF AdminSessionRow
<1>4. StoreTypeOK'
  BY <1>2, <1>3 DEF AdminCreate, StoreTypeOK, lockTables
<1>5. StageOK("audit", req[r]) /\ "audit" \in Stages
  BY DEF AdminCreate, At, ProcessOK, StageOK, SubjectStages, Stages
<1>6. ProcessOK'
  BY <1>5, GotoType DEF AdminCreate
<1>7. IssuedOK'
  BY DEF AdminCreate, IssuedOK, output
<1> QED
  BY <1>4, <1>6, <1>7, UnchangedType DEF AdminCreate

\* A lock change (server/locks.go) names a declared subject.
LEMMA LockChangeBeginType ==
  ASSUME TypeInv, NEW r \in Requests, NEW u \in Subjects,
         NEW change \in {"lock", "unlock", "clear_panic"}, LockChangeBegin(r, u, change)
  PROVE  TypeInv'
<1> USE DEF TypeInv
<1> DEFINE local == [Blank EXCEPT !.at = now, !.sub = u, !.change = change,
                                  !.category = "lock_change"]
<1>1. now \in Nat
  BY ServerAssumption DEF WorldOK
<1>2. local \in RequestState
  BY <1>1 DEF RequestState, Blank, Callers, Categories
<1>3. StageOK("locks.apply", local) /\ "locks.apply" \in Stages
  BY DEF StageOK, SubjectStages, Blank, Categories, Stages
<1>4. ProcessOK' /\ HistoryOK'
  BY <1>2, <1>3, BeginType DEF LockChangeBegin
<1> QED
  BY <1>4, UnchangedType DEF LockChangeBegin

\* Each of the three lock changes keeps the types.
LEMMA ApplyLockChangeType ==
  ASSUME TypeInv, NEW r \in Requests, ApplyLockChange(r)
  PROVE  TypeInv'
<1> USE DEF TypeInv
<1>1. req[r].sub \in Subjects
  BY DEF ApplyLockChange, At, ProcessOK, StageOK, SubjectStages
<1>2. StageOK("audit", req[r]) /\ "audit" \in Stages
  BY DEF ApplyLockChange, At, ProcessOK, StageOK, SubjectStages, Stages
<1>3. ProcessOK'
  BY <1>2, GotoType DEF ApplyLockChange
<1>4. StoreTypeOK' /\ HistoryOK'
  <2>1. CASE LockSubject(r)
    BY <1>1, <2>1, LockOutType DEF LockSubject, ApplyLockChange, StoreTypeOK
  <2>2. CASE UnlockSubject(r)
    BY <2>2 DEF UnlockSubject, RemoveHistory, ApplyLockChange, StoreTypeOK, HistoryOK
  <2>3. CASE ClearPanic(r)
    BY <2>3 DEF ClearPanic, RemoveHistory, ApplyLockChange, StoreTypeOK, HistoryOK
  <2> QED
    BY <2>1, <2>2, <2>3 DEF ApplyLockChange
<1> QED
  BY <1>3, <1>4, UnchangedType DEF ApplyLockChange

\* Every statement of the administration console keeps the types.
LEMMA AdminConsoleType ==
  ASSUME TypeInv, NEW r \in Requests, AdminConsoleStep(r)
  PROVE  TypeInv'
<1> USE DEF TypeInv
<1>1. CASE \E match \in BOOLEAN : AdminLoginBegin(r, match)
  BY <1>1, AdminLoginBeginType
<1>2. CASE AdminFail(r)
  <2>1. req[r].key \in LimitKeys /\ req[r].at \in Nat
    BY <1>2 DEF AdminFail, At, ProcessOK, StageOK, RequestState
  <2>2. StoreTypeOK'
    BY <1>2, <2>1, FailureType, SettingsType
    DEF AdminFail, StoreTypeOK, lockTables
  <2>3. StageOK("audit", req[r]) /\ "audit" \in Stages
    BY <1>2 DEF AdminFail, At, ProcessOK, StageOK, SubjectStages, Stages
  <2>4. ProcessOK'
    BY <1>2, <2>3, GotoType DEF AdminFail
  <2> QED
    BY <1>2, <2>2, <2>4, UnchangedType DEF AdminFail
<1>3. CASE AdminReset(r)
  <2>1. StoreTypeOK'
    BY <1>3 DEF AdminReset, Reset, DeleteRateLimitCounter, StoreTypeOK, lockTables
  <2>2. StageOK("admin.create", req[r]) /\ "admin.create" \in Stages
    BY <1>3 DEF AdminReset, At, ProcessOK, StageOK, SubjectStages, Stages
  <2>3. ProcessOK'
    BY <1>3, <2>2, GotoType DEF AdminReset
  <2> QED
    BY <1>3, <2>1, <2>3, UnchangedType DEF AdminReset
<1>4. CASE AdminCreate(r)
  BY <1>4, AdminCreateType
<1>5. CASE \E u \in Subjects, change \in {"lock", "unlock", "clear_panic"} :
             LockChangeBegin(r, u, change)
  BY <1>5, LockChangeBeginType
<1>6. CASE ApplyLockChange(r)
  BY <1>6, ApplyLockChangeType
<1> QED
  BY <1>1, <1>2, <1>3, <1>4, <1>5, <1>6 DEF AdminConsoleStep

\* Administrator sign-out keeps the types.
LEMMA AdminLogOutType ==
  ASSUME TypeInv, AdminLogOut
  PROVE  TypeInv'
<1> USE DEF TypeInv
<1>1. StoreTypeOK'
  BY DEF AdminLogOut, RevokeSession, StoreTypeOK, lockTables
<1>2. ProcessOK'
  BY DEF AdminLogOut, ProcessOK, process
<1> QED
  BY <1>1, <1>2, UnchangedType DEF AdminLogOut

-----------------------------------------------------------------------------
\* Every statement of enrollment links (server/admin.go, server/enroll.go)
\* keeps the types; a secret is revealed for a subject and a token.
LEMMA EnrollmentType ==
  ASSUME TypeInv, NEW r \in Requests, EnrollmentStep(r)
  PROVE  TypeInv'
<1> USE DEF TypeInv
<1>0. now \in Nat
  BY ServerAssumption DEF WorldOK
<1>1. ASSUME NEW u \in Subjects, EnrollmentBegin(r, u)
      PROVE  TypeInv'
  <2> DEFINE local == [Blank EXCEPT !.at = now, !.sub = u, !.rev = users[u].rev,
                                    !.category = "enrollment_token_created"]
  <2>1. users[u].rev \in Nat
    BY DEF WorldOK, UserConfig
  <2>2. local \in RequestState
    BY <1>0, <2>1 DEF RequestState, Blank, Callers, Categories
  <2>3. StageOK("enrollment.create", local) /\ "enrollment.create" \in Stages
    BY DEF StageOK, SubjectStages, Blank, Categories, Stages
  <2>4. ProcessOK' /\ HistoryOK'
    BY <1>1, <2>2, <2>3, BeginType DEF EnrollmentBegin
  <2> QED
    BY <1>1, <2>4, UnchangedType DEF EnrollmentBegin
<1>2. CASE CreateEnrollment(r)
  <2> DEFINE row(id, validity) ==
            [id |-> id, kind |-> "enrollment", sub |-> req[r].sub,
             rev |-> req[r].rev, client |-> NoClient, authTime |-> 0,
             expiresAt |-> Format(req[r].at + validity), consumed |-> FALSE]
  <2>1. PICK id \in TokenIds, validity \in EnrollmentLifetimes :
          tokens' = tokens \cup {row(id, validity)}
    BY <1>2 DEF CreateEnrollment, CreateOneUseToken
  <2>2. /\ req[r].sub \in Subjects /\ req[r].rev \in Nat
        /\ Format(req[r].at + validity) \in Nat
    BY <1>2, FormatType, EnrollmentAssumption
    DEF CreateEnrollment, At, ProcessOK, StageOK, SubjectStages, RequestState
  <2>3. row(id, validity) \in TokenRow
    BY <2>2 DEF TokenRow
  <2>4. StoreTypeOK'
    BY <1>2, <2>1, <2>3 DEF CreateEnrollment, StoreTypeOK, lockTables
  <2>5. StageOK("audit", req[r]) /\ "audit" \in Stages
    BY <1>2 DEF CreateEnrollment, At, ProcessOK, StageOK, SubjectStages, Stages
  <2>6. ProcessOK'
    BY <1>2, <2>5, GotoType DEF CreateEnrollment
  <2>7. IssuedOK'
    BY <1>2 DEF CreateEnrollment, IssuedOK, output
  <2> QED
    BY <1>2, <2>4, <2>6, <2>7, UnchangedType DEF CreateEnrollment
<1>3. CASE EnrollBegin(r)
  <2>1. PICK t \in tokens :
          Begin(r, "enroll",
                IF now < t.expiresAt THEN "enroll.consume" ELSE "enroll.dropExpired",
                [Blank EXCEPT !.at = now, !.id = t.id, !.sub = t.sub, !.rev = t.rev,
                              !.category = "enrollment_token_consumed"])
    BY <1>3 DEF EnrollBegin
  <2> DEFINE local == [Blank EXCEPT !.at = now, !.id = t.id, !.sub = t.sub, !.rev = t.rev,
                                    !.category = "enrollment_token_consumed"]
             stage == IF now < t.expiresAt THEN "enroll.consume" ELSE "enroll.dropExpired"
  <2>2. t \in TokenRow
    BY DEF StoreTypeOK
  <2>3. local \in RequestState
    BY <1>0, <2>2 DEF RequestState, Blank, Callers, Categories, TokenRow
  <2>4. StageOK(stage, local) /\ stage \in Stages
    BY <2>2 DEF StageOK, SubjectStages, Stages, TokenRow, Blank, Categories
  <2>5. ProcessOK' /\ HistoryOK'
    BY <2>1, <2>3, <2>4, BeginType
  <2> QED
    BY <1>3, <2>5, UnchangedType DEF EnrollBegin
<1>4. CASE EnrollDropExpired(r)
  <2>1. StoreTypeOK'
    BY <1>4 DEF EnrollDropExpired, DeleteOneUseToken, StoreTypeOK, lockTables
  <2> QED
    BY <1>4, <2>1, FinishType, UnchangedType DEF EnrollDropExpired
<1>5. CASE EnrollConsume(r)
  <2>1. StoreTypeOK'
    BY <1>5, ConsumeType DEF EnrollConsume, StoreTypeOK, lockTables
  <2>2. StageOK("audit", req[r]) /\ "audit" \in Stages
    BY <1>5 DEF EnrollConsume, At, ProcessOK, StageOK, SubjectStages, Stages, Categories
  <2>3. ProcessOK' /\ HistoryOK'
    BY <1>5, <2>2, GotoType, FinishType, UnchangedType DEF EnrollConsume
  <2> QED
    BY <1>5, <2>1, <2>3, UnchangedType DEF EnrollConsume
<1>6. CASE EnrollReveal(r)
  <2>1. req[r].sub \in Subjects /\ req[r].id \in TokenIds
    BY <1>6 DEF EnrollReveal, At, ProcessOK, StageOK, SubjectStages
  <2>2. users[req[r].sub].rev \in Nat
    BY <2>1 DEF WorldOK, UserConfig
  <2>3. IssuedOK'
    BY <1>6, <2>1, <2>2 DEF EnrollReveal, IssuedOK, Reveal
  <2> QED
    BY <1>6, <2>3, FinishType, UnchangedType DEF EnrollReveal
<1> QED
  BY <1>1, <1>2, <1>3, <1>4, <1>5, <1>6 DEF EnrollmentStep

-----------------------------------------------------------------------------
\* Every purge of the cleanup loop keeps the types.
LEMMA CleanupType ==
  ASSUME TypeInv, CleanupStep
  PROVE  TypeInv'
<1> USE DEF TypeInv
<1>1. StoreTypeOK' /\ cleaner' \in Cleaner
  <2>0. now \in Nat /\ cleaner.at \in Nat
    BY ServerAssumption DEF WorldOK, Cleaner
  <2>1. CASE CleanCounters
    BY <2>0, <2>1 DEF CleanCounters, DeleteExpiredRateLimitCounters, StoreTypeOK, Cleaner, lockTables
  <2>2. CASE CleanTokens
    BY <2>0, <2>2 DEF CleanTokens, DeleteExpiredOneUseTokens, StoreTypeOK, Cleaner, lockTables,
                Purge, WorldOK
  <2>3. CASE CleanSessions
    BY <2>0, <2>3 DEF CleanSessions, DeleteExpiredSessions, StoreTypeOK, Cleaner, lockTables,
                Purge, WorldOK
  <2>4. CASE CleanAudit
    BY <2>0, <2>4 DEF CleanAudit, DeleteAuditRecordsBefore, StoreTypeOK, Cleaner, lockTables,
                Purge, WorldOK
  <2>5. CASE CleanFail
    BY <2>0, <2>5, UnchangedType DEF CleanFail, Cleaner, Purge, WorldOK
  <2> QED
    BY <2>1, <2>2, <2>3, <2>4, <2>5 DEF CleanupStep, Pass
<1>2. WorldOK'
  BY <1>1 DEF CleanupStep, Pass, WorldOK
<1>3. ProcessOK'
  BY DEF CleanupStep, Pass, ProcessOK, process
<1> QED
  BY <1>1, <1>2, <1>3, UnchangedType DEF CleanupStep, Pass

-----------------------------------------------------------------------------
\* The server starts well typed.
LEMMA TypeInit == Init => TypeInv
<1> SUFFICES ASSUME Init PROVE TypeInv
  OBVIOUS
<1>1. StoreTypeOK
  BY DEF Init, StoreInit, StoreTypeOK
<1>2. ProcessOK
  BY BlankType DEF Init, ServerInit, ProcessOK, Stages
<1>3. HistoryOK /\ IssuedOK
  BY DEF Init, ServerInit, HistoryOK, IssuedOK
<1>4. WorldOK
  BY ServerAssumption DEF Init, ServerInit, WorldOK, Cleaner
<1> QED
  BY <1>1, <1>2, <1>3, <1>4 DEF TypeInv

\* No step of any request, of the cleanup loop, of time or of a deploy breaks
\* the types.
LEMMA TypeStep == TypeInv /\ [Next]_vars => TypeInv'
<1> SUFFICES ASSUME TypeInv, [Next]_vars PROVE TypeInv'
  OBVIOUS
<1>1. ASSUME NEW r \in Requests, RequestStep(r)
      PROVE  TypeInv'
  BY <1>1, LoginType, AuthorizeType, TokenType, UserinfoType, SessionEndType,
     AdminConsoleType, EnrollmentType, IsPanickedType, IsAdminLockedType,
     FoundLockedType, ExpiredSessionType, DropExpiredSessionType, RecordAuditType,
     AbortType
  DEF RequestStep
<1>2. CASE UNCHANGED vars
  <2>1. ProcessOK'
    BY <1>2 DEF vars, process, TypeInv, ProcessOK
  <2> QED
    BY <1>2, <2>1, UnchangedType DEF vars, TypeInv
<1> QED
  BY <1>1, <1>2, AdminLogOutType, CleanupType, TickType, RestartType DEF Next

\* TypeInv is an invariant of the whole service.
LEMMA TypeInvariant == Spec => []TypeInv
<1>1. Init => TypeInv
  BY TypeInit
<1>2. TypeInv /\ [Next]_vars => TypeInv'
  BY TypeStep
<1> QED
  BY <1>1, <1>2, PTL DEF Spec

\* In every reachable state the tables have the columns of the schema
\* (internal/statestore) and every request is at a statement of its handler,
\* whatever the numbers of subjects, clients, requests and records.
THEOREM TypeCorrect == Spec => []TypeOK
<1>1. TypeInv => TypeOK
  BY DEF TypeInv, TypeOK, ServerTypeOK, ProcessOK, HistoryOK, WorldOK, IssuedOK
<1> QED
  BY <1>1, TypeInvariant, PTL
=============================================================================
