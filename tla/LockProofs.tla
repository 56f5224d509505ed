------------------------------- MODULE LockProofs -------------------------------
(***************************************************************************)
(* What locks do and what ends a session.  First, no handler grants        *)
(* anything past a lock that was in place from its beginning to its end:   *)
(* the property looks at the moment of the grant only, and the invariant   *)
(* adds what each of the two reads of IsLocked leaves behind, and that the *)
(* history names locks that are still there.  Then locks leave each other  *)
(* alone, sessions that a lock deleted stay deleted, and no other session  *)
(* ends without a reason of its own.                                       *)
(***************************************************************************)
EXTENDS LimiterProofs

\* Stages that no lock has to have been checked for.
Unguarded == Stages \ (Granting \cup {"isAdminLocked"})

\* A request at a stage, given the locks that were held since it began.
LockOK(stage, q, panic, admin) ==
  /\ panic \subseteq panicLocks
  /\ admin \subseteq adminLocks
  /\ stage = "isAdminLocked" => q.sub \notin panic
  /\ stage \in Granting => q.sub \notin panic \cup admin

\* The inductive invariant.
LockInv == \A r \in Requests : LockOK(pc[r], req[r], heldPanic[r], heldAdmin[r])

\* The step changes no lock, and the local variables of r only.
LocalTo(r) ==
  /\ UNCHANGED lockTables
  /\ \A q \in Requests \ {r} :
       /\ pc'[q] = pc[q] /\ req'[q] = req[q]
       /\ heldPanic'[q] = heldPanic[q] /\ heldAdmin'[q] = heldAdmin[q]

\* A step that is local to r is safe when it is safe at r.
LEMMA LocalLock ==
  ASSUME LockInv, NEW r \in Requests, LocalTo(r),
         LockOK(pc'[r], req'[r], heldPanic'[r], heldAdmin'[r])
  PROVE  LockInv'
  BY DEF LockInv, LocalTo, LockOK, lockTables

\* A handler starts with a fresh history and nothing granted.
LEMMA BeginLock ==
  ASSUME TypeInv, LockInv, NEW r \in Requests, NEW h, NEW stage \in Unguarded, NEW local,
         Begin(r, h, stage, local), UNCHANGED lockTables
  PROVE  LockInv'
<1>1. LocalTo(r)
  BY DEF TypeInv, ProcessOK, HistoryOK, LocalTo, Begin, BeginHistory
<1>2. LockOK(pc'[r], req'[r], heldPanic'[r], heldAdmin'[r])
  BY DEF TypeInv, ProcessOK, HistoryOK, LockOK, Begin, BeginHistory, Unguarded
<1> QED
  BY <1>1, <1>2, LocalLock

\* Going to a statement that grants nothing is safe.
LEMMA GotoLock ==
  ASSUME TypeInv, LockInv, NEW r \in Requests, NEW stage \in Unguarded, Goto(r, stage),
         \A q \in Requests \ {r} : req'[q] = req[q],
         UNCHANGED <<lockTables, history>>
  PROVE  LockInv'
<1>1. LocalTo(r)
  BY DEF TypeInv, ProcessOK, LocalTo, Goto, history, held
<1>2. LockOK(pc'[r], req'[r], heldPanic'[r], heldAdmin'[r])
  BY DEF TypeInv, ProcessOK, HistoryOK, LockOK, LockInv, Goto, Unguarded, history, held
<1> QED
  BY <1>1, <1>2, LocalLock

\* Answering is safe.
LEMMA FinishLock ==
  ASSUME TypeInv, LockInv, NEW r \in Requests, Finish(r), UNCHANGED lockTables
  PROVE  LockInv'
<1>1. LocalTo(r)
  BY DEF TypeInv, ProcessOK, LocalTo, Finish, history, held
<1>2. LockOK(pc'[r], req'[r], heldPanic'[r], heldAdmin'[r])
  BY DEF TypeInv, ProcessOK, LockOK, LockInv, Finish, Granting, history, held
<1> QED
  BY <1>1, <1>2, LocalLock

-----------------------------------------------------------------------------
\* When the first read finds no panic lock, none was held since the request
\* began (lock/lock.go).
LEMMA IsPanickedLock ==
  ASSUME TypeInv, LockInv, NEW r \in Requests, IsPanicked(r)
  PROVE  LockInv'
<1>1. LocalTo(r)
  BY DEF TypeInv, ProcessOK, LocalTo, IsPanicked, Goto, history, held, tables, lockTables
<1>2. req[r].sub \notin heldPanic[r]
  BY DEF IsPanicked, GetPanicLock, LockInv, LockOK
<1>3. LockOK(pc'[r], req'[r], heldPanic'[r], heldAdmin'[r])
  BY <1>2 DEF TypeInv, ProcessOK, LockOK, LockInv, IsPanicked, Goto, Granting, history, held
<1> QED
  BY <1>1, <1>3, LocalLock

\* When the second read finds no administrative lock either, the request may
\* go on to what it grants, or to the first read again for the access token.
LEMMA IsAdminLockedLock ==
  ASSUME TypeInv, LockInv, NEW r \in Requests, IsAdminLocked(r)
  PROVE  LockInv'
<1>0. UNCHANGED <<lockTables, history>>
  BY DEF IsAdminLocked, tables, lockTables
<1>1. req[r].sub \notin heldPanic[r] \cup heldAdmin[r]
  BY DEF IsAdminLocked, At, GetAdminLock, LockInv, LockOK
<1>2. req'[r].sub = req[r].sub
  BY DEF IsAdminLocked, TypeInv, ProcessOK, RequestState
<1>3. LocalTo(r)
  BY <1>0 DEF TypeInv, ProcessOK, LocalTo, IsAdminLocked, Goto, history, held
<1>4. LockOK(pc'[r], req'[r], heldPanic'[r], heldAdmin'[r])
  BY <1>0, <1>1, <1>2 DEF LockOK, LockInv, history, held
<1> QED
  BY <1>3, <1>4, LocalLock

\* A lock that was found leads to no grant.
LEMMA FoundLockedLock ==
  ASSUME TypeInv, LockInv, NEW r \in Requests, FoundLocked(r)
  PROVE  LockInv'
<1>1. UNCHANGED lockTables
  BY DEF FoundLocked, tables, lockTables
<1>2. CASE req[r].caller = "login"
  BY <1>1, <1>2, GotoLock DEF FoundLocked, Unguarded, Stages, Granting
<1>3. CASE req[r].caller = "authorize"
  BY <1>1, <1>3, GotoLock DEF FoundLocked, Unguarded, Stages, Granting
<1>4. CASE req[r].caller \notin {"login", "authorize"}
  BY <1>1, <1>4, FinishLock DEF FoundLocked
<1> QED
  BY <1>2, <1>3, <1>4

\* A login (login/service.go) resets its counter and creates its session only
\* after both reads.
LEMMA LoginLock ==
  ASSUME TypeInv, LockInv, NEW r \in Requests, LoginStep(r)
  PROVE  LockInv'
<1>1. CASE \E i \in Identifiers, ok \in BOOLEAN : LoginBegin(r, i, ok)
  <2>1. UNCHANGED lockTables
    BY <1>1 DEF LoginBegin, tables, lockTables
  <2>2. \E local : \E stage \in {"audit", "login.fail", "isPanicked"} :
          Begin(r, "login", stage, local)
    BY <1>1 DEF LoginBegin
  <2> QED
    BY <2>1, <2>2, BeginLock DEF Unguarded, Stages, Granting
<1>2. CASE LoginFail(r)
  BY <1>2, FinishLock DEF LoginFail
<1>3. CASE LoginReset(r)
  <2>1. LocalTo(r)
    BY <1>3 DEF TypeInv, ProcessOK, LocalTo, LoginReset, Goto, history, held
  <2>2. LockOK(pc'[r], req'[r], heldPanic'[r], heldAdmin'[r])
    BY <1>3 DEF TypeInv, ProcessOK, LockOK, LockInv, LoginReset, At, Goto, Granting,
                history, held, lockTables
  <2> QED
    BY <2>1, <2>2, LocalLock
<1>4. CASE LoginCreate(r)
  BY <1>4, FinishLock DEF LoginCreate
<1> QED
  BY <1>1, <1>2, <1>3, <1>4 DEF LoginStep

\* /authorize (server/authorize.go) issues a code only after both reads.
LEMMA AuthorizeLock ==
  ASSUME TypeInv, LockInv, NEW r \in Requests, AuthorizeStep(r)
  PROVE  LockInv'
<1>1. CASE \E c \in Clients : AuthorizeBegin(r, c)
  <2>1. UNCHANGED lockTables
    BY <1>1 DEF AuthorizeBegin, tables, lockTables
  <2>2. \E local : \E stage \in {"isPanicked", "authorize.revoke"} :
          Begin(r, "authorize", stage, local)
    BY <1>1 DEF AuthorizeBegin
  <2> QED
    BY <2>1, <2>2, BeginLock DEF Unguarded, Stages, Granting
<1>2. CASE AuthorizeRevoke(r)
  BY <1>2, FinishLock DEF AuthorizeRevoke
<1>3. CASE AuthorizeIssue(r)
  BY <1>3, FinishLock DEF AuthorizeIssue
<1>4. CASE AuthorizeTooOld(r)
  BY <1>4, FinishLock DEF AuthorizeTooOld, tables, lockTables
<1> QED
  BY <1>1, <1>2, <1>3, <1>4 DEF AuthorizeStep

\* /token (server/token.go) responds only after both reads of the access token.
LEMMA TokenLock ==
  ASSUME TypeInv, LockInv, NEW r \in Requests, TokenStep(r)
  PROVE  LockInv'
<1>0. UNCHANGED lockTables
  BY DEF TokenStep, TokenBegin, TokenFail, TokenReset, TokenGet, TokenUnknown,
         TokenDropExpired, TokenConsume, TokenRespond, tables, lockTables
<1>1. CASE \E c \in Clients, authentic \in BOOLEAN : TokenBegin(r, c, authentic)
  <2>1. \E local : \E stage \in {"audit", "token.reset", "token.fail"} :
          Begin(r, "token", stage, local)
    BY <1>1 DEF TokenBegin
  <2> QED
    BY <1>0, <2>1, BeginLock DEF Unguarded, Stages, Granting
<1>2. CASE TokenFail(r) \/ TokenUnknown(r) \/ TokenDropExpired(r) \/ TokenRespond(r)
  BY <1>0, <1>2, FinishLock DEF TokenFail, TokenUnknown, TokenDropExpired, TokenRespond
<1>3. CASE TokenReset(r)
  BY <1>0, <1>3, GotoLock DEF TokenReset, Unguarded, Stages, Granting
<1>4. CASE \E ok \in BOOLEAN : TokenGet(r, ok)
  <2>1. \E stage \in {"token.consume", "token.dropExpired"} : Goto(r, stage)
    BY <1>4 DEF TokenGet
  <2>2. UNCHANGED history /\ \A q \in Requests \ {r} : req'[q] = req[q]
    BY <1>4 DEF TokenGet, TypeInv, ProcessOK
  <2> QED
    BY <1>0, <2>1, <2>2, GotoLock DEF Unguarded, Stages, Granting
<1>5. CASE TokenConsume(r)
  <2>1. CASE Finish(r)
    BY <1>0, <2>1, FinishLock
  <2>2. CASE /\ Goto(r, "isPanicked")
             /\ req' = [req EXCEPT ![r].at = now, ![r].caller = "idToken"]
             /\ UNCHANGED history
    <3>1. \A q \in Requests \ {r} : req'[q] = req[q]
      BY <2>2 DEF TypeInv, ProcessOK
    <3> QED
      BY <1>0, <2>2, <3>1, GotoLock DEF Unguarded, Stages, Granting
  <2> QED
    BY <1>5, <2>1, <2>2 DEF TokenConsume
<1> QED
  BY <1>1, <1>2, <1>3, <1>4, <1>5 DEF TokenStep

\* /userinfo (userinfo/service.go) answers only after both reads.
LEMMA UserinfoLock ==
  ASSUME TypeInv, LockInv, NEW r \in Requests, UserinfoStep(r)
  PROVE  LockInv'
<1>0. UNCHANGED lockTables
  BY DEF UserinfoStep, UserinfoBegin, UserinfoAnswer, tables, lockTables
<1>1. CASE UserinfoBegin(r)
  BY <1>0, <1>1, BeginLock DEF UserinfoBegin, Unguarded, Stages, Granting
<1>2. CASE UserinfoAnswer(r)
  BY <1>0, <1>2, FinishLock DEF UserinfoAnswer
<1> QED
  BY <1>1, <1>2 DEF UserinfoStep

\* A transaction that adds locks: no request is nearer to granting anything.
LEMMA AddLock ==
  ASSUME TypeInv, LockInv, NEW r \in Requests, Goto(r, "audit"), UNCHANGED <<req, held>>,
         panicLocks \subseteq panicLocks', adminLocks \subseteq adminLocks'
  PROVE  LockInv'
<1>1. \A q \in Requests : pc'[q] = pc[q] \/ pc'[q] = "audit"
  BY DEF TypeInv, ProcessOK, Goto
<1>2. heldPanic' = heldPanic /\ heldAdmin' = heldAdmin /\ req' = req
  BY DEF held
<1> QED
  BY <1>1, <1>2 DEF LockInv, LockOK, Granting

\* A transaction that removes locks takes them out of the history.
LEMMA RemoveLock ==
  ASSUME TypeInv, LockInv, NEW r \in Requests, Goto(r, "audit"), UNCHANGED req, RemoveHistory
  PROVE  LockInv'
<1>1. \A q \in Requests : pc'[q] = pc[q] \/ pc'[q] = "audit"
  BY DEF TypeInv, ProcessOK, Goto
<1>2. \A q \in Requests : /\ heldPanic'[q] = heldPanic[q] \cap panicLocks'
                          /\ heldAdmin'[q] = heldAdmin[q] \cap adminLocks'
  BY DEF RemoveHistory
<1> QED
  BY <1>1, <1>2 DEF LockInv, LockOK, Granting

\* Logout removes no lock, a panic adds one (server/logout.go, server/panic.go).
LEMMA SessionEndLock ==
  ASSUME TypeInv, LockInv, NEW r \in Requests, SessionEndStep(r)
  PROVE  LockInv'
<1>1. CASE LogoutBegin(r) \/ PanicBegin(r)
  <2>1. UNCHANGED lockTables
    BY <1>1 DEF LogoutBegin, PanicBegin, Validated, tables, lockTables
  <2>2. \E h, local : \E stage \in {"logout.revoke", "panic.lock"} : Begin(r, h, stage, local)
    BY <1>1 DEF LogoutBegin, PanicBegin, Validated
  <2> QED
    BY <2>1, <2>2, BeginLock DEF Unguarded, Stages, Granting
<1>2. CASE LogoutRevoke(r)
  <2>1. \A q \in Requests \ {r} : req'[q] = req[q]
    BY <1>2 DEF LogoutRevoke, TypeInv, ProcessOK
  <2> QED
    BY <1>2, <2>1, GotoLock DEF LogoutRevoke, Unguarded, Stages, Granting
<1>3. CASE PanicSubject(r)
  BY <1>3, AddLock DEF PanicSubject, LockOut
<1> QED
  BY <1>1, <1>2, <1>3 DEF SessionEndStep

\* The console adds and removes locks in transactions of their own and grants
\* nothing that a user lock guards (server/admin.go, server/locks.go).
LEMMA AdminConsoleLock ==
  ASSUME TypeInv, LockInv, NEW r \in Requests, AdminConsoleStep(r)
  PROVE  LockInv'
<1>1. CASE \E match \in BOOLEAN : AdminLoginBegin(r, match)
  <2>1. UNCHANGED lockTables
    BY <1>1 DEF AdminLoginBegin, tables, lockTables
  <2>2. \E local : \E stage \in {"audit", "admin.reset", "admin.fail"} :
          Begin(r, "adminLogin", stage, local)
    BY <1>1 DEF AdminLoginBegin
  <2> QED
    BY <2>1, <2>2, BeginLock DEF Unguarded, Stages, Granting
<1>2. CASE AdminFail(r)
  BY <1>2, GotoLock DEF AdminFail, Unguarded, Stages, Granting
<1>3. CASE AdminReset(r)
  BY <1>3, GotoLock DEF AdminReset, Unguarded, Stages, Granting
<1>4. CASE AdminCreate(r)
  BY <1>4, GotoLock DEF AdminCreate, Unguarded, Stages, Granting
<1>5. CASE \E u \in Subjects, change \in {"lock", "unlock", "clear_panic"} :
             LockChangeBegin(r, u, change)
  <2>1. UNCHANGED lockTables
    BY <1>5 DEF LockChangeBegin, tables, lockTables
  <2>2. \E local : Begin(r, "lockChange", "locks.apply", local)
    BY <1>5 DEF LockChangeBegin
  <2> QED
    BY <2>1, <2>2, BeginLock DEF Unguarded, Stages, Granting
<1>6. CASE ApplyLockChange(r)
  <2>1. CASE LockSubject(r)
    BY <1>6, <2>1, AddLock DEF ApplyLockChange, LockSubject, LockOut
  <2>2. CASE UnlockSubject(r) \/ ClearPanic(r)
    BY <1>6, <2>2, RemoveLock DEF ApplyLockChange, UnlockSubject, ClearPanic
  <2> QED
    BY <1>6, <2>1, <2>2 DEF ApplyLockChange
<1> QED
  BY <1>1, <1>2, <1>3, <1>4, <1>5, <1>6 DEF AdminConsoleStep

\* Enrollment touches no lock and passes no statement that locks guard.
LEMMA EnrollmentLock ==
  ASSUME TypeInv, LockInv, NEW r \in Requests, EnrollmentStep(r)
  PROVE  LockInv'
<1>0. UNCHANGED lockTables
  BY DEF EnrollmentStep, EnrollmentBegin, CreateEnrollment, EnrollBegin,
         EnrollDropExpired, EnrollConsume, EnrollReveal, tables, lockTables
<1>1. CASE (\E u \in Subjects : EnrollmentBegin(r, u)) \/ EnrollBegin(r)
  <2>1. \E h, local : \E stage \in {"enrollment.create", "enroll.consume", "enroll.dropExpired"} :
          Begin(r, h, stage, local)
    BY <1>1 DEF EnrollmentBegin, EnrollBegin
  <2> QED
    BY <1>0, <2>1, BeginLock DEF Unguarded, Stages, Granting
<1>2. CASE CreateEnrollment(r)
  BY <1>0, <1>2, GotoLock DEF CreateEnrollment, Unguarded, Stages, Granting
<1>3. CASE EnrollDropExpired(r) \/ EnrollReveal(r)
  BY <1>0, <1>3, FinishLock DEF EnrollDropExpired, EnrollReveal
<1>4. CASE EnrollConsume(r)
  <2>1. CASE Finish(r)
    BY <1>0, <2>1, FinishLock
  <2>2. CASE Goto(r, "audit") /\ UNCHANGED <<req, history>>
    BY <1>0, <2>2, GotoLock DEF Unguarded, Stages, Granting
  <2> QED
    BY <1>4, <2>1, <2>2 DEF EnrollConsume
<1> QED
  BY <1>1, <1>2, <1>3, <1>4 DEF EnrollmentStep

\* Neither do expired sessions, audit records and failing statements.
LEMMA CommonLock ==
  ASSUME TypeInv, LockInv, NEW r \in Requests,
         ExpiredSession(r) \/ DropExpiredSession(r) \/ RecordAudit(r) \/ Abort(r)
  PROVE  LockInv'
<1>0. UNCHANGED lockTables
  BY DEF ExpiredSession, DropExpiredSession, RecordAudit, Abort, tables, lockTables
<1>1. CASE ExpiredSession(r)
  <2>1. PICK s \in sessions :
          Begin(r, "expiredSession", "dropExpired", [Blank EXCEPT !.at = now, !.id = s.id])
    BY <1>1 DEF ExpiredSession
  <2> QED
    BY <1>0, <2>1, BeginLock DEF Unguarded, Stages, Granting
<1>2. CASE Finish(r)
  BY <1>0, <1>2, FinishLock
<1>3. CASE Goto(r, "enroll.reveal") /\ UNCHANGED <<req, history>>
  BY <1>0, <1>3, GotoLock DEF Unguarded, Stages, Granting
<1> QED
  BY <1>1, <1>2, <1>3 DEF DropExpiredSession, RecordAudit, Abort

\* Whatever moves no request and no lock.
LEMMA UnchangedLock ==
  ASSUME LockInv, UNCHANGED <<pc, req, lockTables, heldPanic, heldAdmin>>
  PROVE  LockInv'
  BY DEF LockInv, LockOK, lockTables

\* A deploy ends every request, and lost locks leave the history.
LEMMA RestartLock == ASSUME Restart PROVE LockInv'
  BY DEF Restart, RemoveHistory, LockInv, LockOK, Granting

-----------------------------------------------------------------------------
\* No step of the service breaks LockInv.
LEMMA LockStep == TypeInv /\ LockInv /\ [Next]_vars => LockInv'
<1> SUFFICES ASSUME TypeInv, LockInv, [Next]_vars PROVE LockInv'
  OBVIOUS
<1>1. ASSUME NEW r \in Requests, RequestStep(r)
      PROVE  LockInv'
  BY <1>1, LoginLock, AuthorizeLock, TokenLock, UserinfoLock, SessionEndLock,
     AdminConsoleLock, EnrollmentLock, IsPanickedLock, IsAdminLockedLock,
     FoundLockedLock, CommonLock
  DEF RequestStep
<1>2. CASE AdminLogOut \/ CleanupStep \/ Tick \/ UNCHANGED vars
  <2>1. UNCHANGED <<pc, req, heldPanic, heldAdmin>>
    BY <1>2 DEF AdminLogOut, CleanupStep, Pass, Tick, vars, process, history, held
  <2>2. UNCHANGED lockTables
    BY <1>2 DEF AdminLogOut, CleanupStep, Pass, CleanCounters, CleanTokens, CleanSessions,
                CleanAudit, CleanFail, Tick, vars, tables, lockTables
  <2> QED
    BY <2>1, <2>2, UnchangedLock
<1> QED
  BY <1>1, <1>2, RestartLock DEF Next

\* LockGate: no login, code, token response or userinfo answer is on its way
\* for a subject under a panic lock, or under an administrative lock, that
\* was there when the request began and ever since, for any number of
\* concurrent requests and lock changes (lock/lock.go and its callers).
THEOREM LocksGateEveryGrant == Spec => []LockGate
<1>1. Init => LockInv
  BY DEF Init, ServerInit, LockInv, LockOK, Granting
<1>2. TypeInv /\ LockInv /\ [Next]_vars => LockInv'
  BY LockStep
<1>3. LockInv => LockGate
  BY DEF LockInv, LockOK, LockGate
<1> QED
  BY <1>1, <1>2, <1>3, TypeInvariant, PTL DEF Spec

-----------------------------------------------------------------------------
\* Which locks a step may remove: the action of LocksIndependent.
RemovesOnRequest ==
  /\ \A u \in panicLocks \ panicLocks' : \E r \in Requests :
       pc[r] = "locks.apply" /\ req[r].sub = u /\ req[r].change = "clear_panic"
  /\ \A u \in adminLocks \ adminLocks' : \E r \in Requests :
       pc[r] = "locks.apply" /\ req[r].sub = u /\ req[r].change = "unlock"

\* Of all statements of all handlers only a lock change removes a lock, the
\* one of the kind and the subject it is about.
LEMMA RequestRemoval ==
  ASSUME NEW r \in Requests, RequestStep(r)
  PROVE  RemovesOnRequest
<1>1. CASE LoginStep(r) \/ AuthorizeStep(r) \/ UserinfoStep(r)
  BY <1>1 DEF LoginStep, LoginBegin, LoginFail, LoginReset, LoginCreate, AuthorizeStep,
              AuthorizeBegin, AuthorizeRevoke, AuthorizeIssue, AuthorizeTooOld, UserinfoStep,
              UserinfoBegin, UserinfoAnswer, RemovesOnRequest, tables, lockTables
<1>2. CASE TokenStep(r)
  BY <1>2 DEF TokenStep, TokenBegin, TokenFail, TokenReset, TokenGet, TokenUnknown,
              TokenDropExpired, TokenConsume, TokenRespond, RemovesOnRequest, tables, lockTables
<1>3. CASE SessionEndStep(r)
  BY <1>3 DEF SessionEndStep, LogoutBegin, LogoutRevoke, PanicBegin, PanicSubject, Validated,
              RemovesOnRequest, tables, lockTables
<1>4. CASE AdminConsoleStep(r)
  BY <1>4 DEF AdminConsoleStep, AdminLoginBegin, AdminFail, AdminReset, AdminCreate,
              LockChangeBegin, ApplyLockChange, LockSubject, UnlockSubject, ClearPanic, At,
              RemovesOnRequest, tables, lockTables
<1>5. CASE EnrollmentStep(r)
  BY <1>5 DEF EnrollmentStep, EnrollmentBegin, CreateEnrollment, EnrollBegin,
              EnrollDropExpired, EnrollConsume, EnrollReveal, RemovesOnRequest, tables, lockTables
<1>6. CASE \/ IsPanicked(r) \/ IsAdminLocked(r) \/ FoundLocked(r)
           \/ ExpiredSession(r) \/ DropExpiredSession(r) \/ RecordAudit(r) \/ Abort(r)
  BY <1>6 DEF IsPanicked, IsAdminLocked, FoundLocked, ExpiredSession, DropExpiredSession,
              RecordAudit, Abort, RemovesOnRequest, tables, lockTables
<1> QED
  BY <1>1, <1>2, <1>3, <1>4, <1>5, <1>6 DEF RequestStep

\* Purges, time and deploys remove no lock; losing the state file does.
LEMMA OutsideRemoval ==
  ASSUME AdminLogOut \/ CleanupStep \/ Tick \/ Restart \/ UNCHANGED vars
  PROVE  StateLost \/ RemovesOnRequest
<1>1. CASE Restart
  BY <1>1 DEF Restart, StateLost, RemovesOnRequest, tables
<1>2. CASE AdminLogOut \/ CleanupStep \/ Tick \/ UNCHANGED vars
  BY <1>2 DEF AdminLogOut, CleanupStep, Pass, CleanCounters, CleanTokens, CleanSessions,
              CleanAudit, CleanFail, Tick, vars, tables, lockTables, RemovesOnRequest
<1> QED
  BY <1>1, <1>2

\* LocksIndependent: panic and administrative locks never lift each other, and
\* nothing but an administrator lifts either (lock/panic.go, lock/admin.go).
THEOREM LocksStayIndependent == Spec => LocksIndependent
<1>1. [Next]_vars => StateLost \/ RemovesOnRequest
  BY RequestRemoval, OutsideRemoval DEF Next
<1>2. [Next]_vars => [StateLost \/ RemovesOnRequest]_vars
  BY <1>1
<1> QED
  BY <1>2, PTL DEF Spec, LocksIndependent, RemovesOnRequest

-----------------------------------------------------------------------------
(* A session that existed when its subject was locked never exists again.  *)
(* The history names such sessions by record identifier, so the invariant  *)
(* adds what makes an identifier stand for one session: it is never used   *)
(* twice.                                                                  *)

\* The inductive invariant of NoSessionRevived.
SessionInv ==
  /\ \A s \in sessions : s.id \in usedIds /\ s.id \notin lockedOut
  /\ \A s, t \in sessions : s.id = t.id => s = t
  /\ lockedOut \subseteq usedIds

\* No session is created and no subject is locked.
Quiet ==
  /\ sessions' \subseteq sessions
  /\ usedIds \subseteq usedIds'
  /\ UNCHANGED lockedOut

\* A quiet step brings no session back.
LEMMA QuietSessions ==
  ASSUME SessionInv, Quiet
  PROVE  SessionInv'
  BY DEF SessionInv, Quiet

\* Neither does a new session, because its identifier is new (package id).
LEMMA NewSession ==
  ASSUME SessionInv, NEW row, row.id \notin usedIds, CreateSession(row),
         usedIds' = usedIds \cup {row.id}, UNCHANGED lockedOut
  PROVE  SessionInv'
  BY DEF SessionInv, CreateSession

\* The transaction of a lock deletes every session of the subject
\* (lock/panic.go, lock/admin.go), and an identifier stands for one session.
LEMMA LockOutSessions ==
  ASSUME SessionInv, NEW sub, LockOut(sub), UNCHANGED usedIds
  PROVE  SessionInv'
<1>1. \A s \in sessions' : s \in sessions /\ s.sub # sub
  BY DEF LockOut, WithoutSubject
<1>2. ASSUME NEW s \in sessions', s.id \in lockedOut'
      PROVE  FALSE
  <2>1. PICK row \in sessions : row.sub = sub /\ row.id = s.id
    BY <1>1, <1>2 DEF LockOut, SessionInv
  <2> QED
    BY <1>1, <2>1 DEF SessionInv
<1>3. lockedOut' \subseteq usedIds
  BY DEF LockOut, SessionInv
<1> QED
  BY <1>1, <1>2, <1>3 DEF SessionInv

-----------------------------------------------------------------------------
\* A login creates at most one session, with a new identifier.
LEMMA LoginSessions ==
  ASSUME SessionInv, NEW r \in Requests, LoginStep(r)
  PROVE  SessionInv'
<1>1. CASE \E i \in Identifiers, ok \in BOOLEAN : LoginBegin(r, i, ok)
  <2>1. Quiet
    BY <1>1 DEF LoginBegin, Begin, BeginHistory, Quiet, tables, issued
  <2> QED
    BY <2>1, QuietSessions
<1>2. CASE LoginFail(r) \/ LoginReset(r)
  <2>1. Quiet
    BY <1>2 DEF LoginFail, LoginReset, Finish, Quiet, issued, history
  <2> QED
    BY <2>1, QuietSessions
<1>3. CASE LoginCreate(r)
  <2> DEFINE row(id) == [id |-> id, kind |-> "user", sub |-> req[r].sub,
                         rev |-> req[r].rev, createdAt |-> Format(req[r].at),
                         expiresAt |-> Format(req[r].at + SessionLifetime)]
  <2>1. PICK id \in SessionIds \ usedIds : CreateSession(row(id)) /\ usedIds' = usedIds \cup {id}
    BY <1>3 DEF LoginCreate
  <2>2. UNCHANGED lockedOut /\ row(id).id = id
    BY <1>3 DEF LoginCreate, Finish, history
  <2> HIDE DEF row
  <2> QED
    BY <2>1, <2>2, NewSession
<1> QED
  BY <1>1, <1>2, <1>3 DEF LoginStep

\* /authorize deletes sessions at most.
LEMMA AuthorizeSessions ==
  ASSUME SessionInv, NEW r \in Requests, AuthorizeStep(r)
  PROVE  SessionInv'
<1>1. Quiet
  BY DEF AuthorizeStep, AuthorizeBegin, AuthorizeRevoke, AuthorizeIssue, AuthorizeTooOld,
         RevokeSession, Begin, BeginHistory, Finish, Quiet, tables, issued, history
<1> QED
  BY <1>1, QuietSessions

\* /token leaves the sessions alone.
LEMMA TokenSessions ==
  ASSUME SessionInv, NEW r \in Requests, TokenStep(r)
  PROVE  SessionInv'
<1>1. Quiet
  BY DEF TokenStep, TokenBegin, TokenFail, TokenReset, TokenGet, TokenUnknown,
         TokenDropExpired, TokenConsume, TokenRespond,
         Begin, BeginHistory, Finish, Quiet, tables, issued, history
<1> QED
  BY <1>1, QuietSessions

\* /userinfo leaves the sessions alone.
LEMMA UserinfoSessions ==
  ASSUME SessionInv, NEW r \in Requests, UserinfoStep(r)
  PROVE  SessionInv'
<1>1. Quiet
  BY DEF UserinfoStep, UserinfoBegin, UserinfoAnswer,
         Begin, BeginHistory, Finish, Quiet, tables, issued, history
<1> QED
  BY <1>1, QuietSessions

\* Logout deletes one session, a panic every session of its subject.
LEMMA SessionEndSessions ==
  ASSUME SessionInv, NEW r \in Requests, SessionEndStep(r)
  PROVE  SessionInv'
<1>1. CASE LogoutBegin(r) \/ LogoutRevoke(r) \/ PanicBegin(r)
  <2>1. Quiet
    BY <1>1 DEF LogoutBegin, LogoutRevoke, PanicBegin, Validated, RevokeSession,
                Begin, BeginHistory, Quiet, tables, issued, history
  <2> QED
    BY <2>1, QuietSessions
<1>2. CASE PanicSubject(r)
  BY <1>2, LockOutSessions DEF PanicSubject, issued
<1> QED
  BY <1>1, <1>2 DEF SessionEndStep

\* The console creates administrator sessions with new identifiers, and a lock
\* deletes every session of its subject.
LEMMA AdminConsoleSessions ==
  ASSUME SessionInv, NEW r \in Requests, AdminConsoleStep(r)
  PROVE  SessionInv'
<1>1. CASE \/ \E match \in BOOLEAN : AdminLoginBegin(r, match)
           \/ \E u \in Subjects, change \in {"lock", "unlock", "clear_panic"} :
                LockChangeBegin(r, u, change)
  <2>1. Quiet
    BY <1>1 DEF AdminLoginBegin, LockChangeBegin, Begin, BeginHistory, Quiet, tables, issued
  <2> QED
    BY <2>1, QuietSessions
<1>2. CASE AdminFail(r) \/ AdminReset(r)
  <2>1. Quiet
    BY <1>2 DEF AdminFail, AdminReset, Quiet, issued, history
  <2> QED
    BY <2>1, QuietSessions
<1>3. CASE AdminCreate(r)
  <2> DEFINE row(id) == [id |-> id, kind |-> "admin", sub |-> AdminSubject,
                         rev |-> 0, createdAt |-> Format(req[r].at),
                         expiresAt |-> Format(req[r].at + SessionLifetime)]
  <2>1. PICK id \in SessionIds \ usedIds : CreateSession(row(id)) /\ usedIds' = usedIds \cup {id}
    BY <1>3 DEF AdminCreate
  <2>2. UNCHANGED lockedOut /\ row(id).id = id
    BY <1>3 DEF AdminCreate, history
  <2> HIDE DEF row
  <2> QED
    BY <2>1, <2>2, NewSession
<1>4. CASE ApplyLockChange(r)
  <2>1. CASE LockSubject(r)
    BY <1>4, <2>1, LockOutSessions DEF ApplyLockChange, LockSubject, issued
  <2>2. CASE UnlockSubject(r) \/ ClearPanic(r)
    <3>1. Quiet
      BY <1>4, <2>2 DEF ApplyLockChange, UnlockSubject, ClearPanic, RemoveHistory, Quiet, issued
    <3> QED
      BY <3>1, QuietSessions
  <2> QED
    BY <1>4, <2>1, <2>2 DEF ApplyLockChange
<1> QED
  BY <1>1, <1>2, <1>3, <1>4 DEF AdminConsoleStep

\* Enrollment leaves the sessions alone.
LEMMA EnrollmentSessions ==
  ASSUME SessionInv, NEW r \in Requests, EnrollmentStep(r)
  PROVE  SessionInv'
<1>1. Quiet
  BY DEF EnrollmentStep, EnrollmentBegin, CreateEnrollment, EnrollBegin, EnrollDropExpired,
         EnrollConsume, EnrollReveal, Begin, BeginHistory, Finish, Quiet, tables, issued, history
<1> QED
  BY <1>1, QuietSessions

\* The shared statements delete sessions at most.
LEMMA CommonSessions ==
  ASSUME SessionInv, NEW r \in Requests,
         \/ IsPanicked(r) \/ IsAdminLocked(r) \/ FoundLocked(r)
         \/ ExpiredSession(r) \/ DropExpiredSession(r) \/ RecordAudit(r) \/ Abort(r)
  PROVE  SessionInv'
<1>1. Quiet
  BY DEF IsPanicked, IsAdminLocked, FoundLocked, ExpiredSession, DropExpiredSession,
         RecordAudit, Abort, RevokeSession, Begin, BeginHistory, Finish, Quiet, tables,
         issued, history
<1> QED
  BY <1>1, QuietSessions

\* Sign-out, purges and deploys delete sessions at most.
LEMMA OutsideSessions ==
  ASSUME SessionInv, AdminLogOut \/ CleanupStep \/ Tick \/ Restart \/ UNCHANGED vars
  PROVE  SessionInv'
<1>1. CASE AdminLogOut \/ Tick \/ Restart \/ UNCHANGED vars
  <2>1. Quiet
    BY <1>1 DEF AdminLogOut, Tick, Restart, RevokeSession, RemoveHistory, Quiet, vars, tables,
                issued, history
  <2> QED
    BY <2>1, QuietSessions
<1>2. CASE CleanupStep
  <2>1. Quiet
    BY <1>2 DEF CleanupStep, Pass, CleanCounters, CleanTokens, CleanSessions, CleanAudit,
                CleanFail, DeleteExpiredSessions, Quiet, tables, issued, history
  <2> QED
    BY <2>1, QuietSessions
<1> QED
  BY <1>1, <1>2

-----------------------------------------------------------------------------
\* No step of the service breaks SessionInv.
LEMMA SessionStep == SessionInv /\ [Next]_vars => SessionInv'
<1> SUFFICES ASSUME SessionInv, [Next]_vars PROVE SessionInv'
  OBVIOUS
<1>1. ASSUME NEW r \in Requests, RequestStep(r)
      PROVE  SessionInv'
  BY <1>1, LoginSessions, AuthorizeSessions, TokenSessions, UserinfoSessions,
     SessionEndSessions, AdminConsoleSessions, EnrollmentSessions, CommonSessions
  DEF RequestStep
<1> QED
  BY <1>1, OutsideSessions DEF Next

\* LockedOutForGood: a session that existed when its subject was locked or
\* panicked never exists again, after the lock is lifted neither
\* (lock/panic.go, lock/admin.go).
THEOREM LockedOutSessionsStayGone == Spec => []LockedOutForGood
<1>1. Init => SessionInv
  BY DEF Init, StoreInit, ServerInit, SessionInv
<1>2. SessionInv /\ [Next]_vars => SessionInv'
  BY SessionStep
<1>3. SessionInv => LockedOutForGood
  BY DEF SessionInv, LockedOutForGood
<1> QED
  BY <1>1, <1>2, <1>3, PTL DEF Spec

-----------------------------------------------------------------------------
(* What ends a session.  Statements delete sessions by the identifier that *)
(* an earlier statement of their handler has read, so the invariant says   *)
(* what an identifier under way stands for: the session it was read from,  *)
(* or none at all any more.                                                *)

\* Requests that carry a session of a user towards its deletion.
Carries(stage, q) ==
  \/ stage \in {"authorize.revoke", "logout.revoke"}
  \/ stage \in {"isPanicked", "isAdminLocked"} /\ q.caller = "authorize"

\* The identifier under way was generated, and whatever row has it is the user's
\* own session, or past its end where that is why it is deleted.
CarriedOK(stage, q, rows, ids, t) ==
  /\ Carries(stage, q) =>
       q.id \in ids /\ \A s \in rows : s.id = q.id => s.kind = "user" /\ s.sub = q.sub
  /\ stage = "dropExpired" =>
       q.id \in ids /\ \A s \in rows : s.id = q.id => t >= s.expiresAt

\* The inductive invariant of SessionsEndForCause.
CarriedInv == \A r \in Requests : CarriedOK(pc[r], req[r], sessions, usedIds, now)

\* Rows keep their identifiers, new rows get new ones, and time goes on.
RowsGoOn ==
  /\ \A s \in sessions' : s \in sessions \/ s.id \notin usedIds
  /\ usedIds \subseteq usedIds'
  /\ now <= now'

\* What a step of request r makes of its own identifier: it drops it, keeps it
\* for the same subject, or takes it from a row it reads now.
CarriedStep(r) ==
  /\ \A q \in Requests \ {r} : pc'[q] = pc[q] /\ req'[q] = req[q]
  /\ \/ ~Carries(pc'[r], req'[r]) /\ pc'[r] # "dropExpired"
     \/ /\ Carries(pc[r], req[r]) /\ pc'[r] # "dropExpired"
        /\ req'[r].id = req[r].id /\ req'[r].sub = req[r].sub
     \/ \E s \in sessions :
          /\ req'[r].id = s.id
          /\ IF pc'[r] = "dropExpired" THEN now >= s.expiresAt
                                       ELSE s.kind = "user" /\ req'[r].sub = s.sub

\* What it deletes: nothing, the session of its identifier, or those of the
\* subject it locks.
Deletes(r) ==
  \/ sessions \subseteq sessions'
  \/ pc[r] \in {"authorize.revoke", "logout.revoke", "dropExpired"} /\ RevokeSession(req[r].id)
  \/ /\ pc[r] = "panic.lock" \/ (pc[r] = "locks.apply" /\ req[r].change = "lock")
     /\ req[r].sub \in Subjects /\ LockOut(req[r].sub)

\* The row of an identifier does not become another one.
LEMMA StillCarried ==
  ASSUME TypeInv, RowsGoOn, now' \in Nat, NEW stage, NEW q,
         CarriedOK(stage, q, sessions, usedIds, now)
  PROVE  CarriedOK(stage, q, sessions', usedIds', now')
<1>1. \A s \in sessions : s.expiresAt \in Nat
  BY DEF TypeInv, StoreTypeOK, UserSessionRow, AdminSessionRow
<1>2. now \in Nat
  BY DEF TypeInv, WorldOK
<1> QED
  BY <1>1, <1>2 DEF CarriedOK, RowsGoOn

\* Neither does that of an identifier that r takes from a row.
LEMMA CarriedOn ==
  ASSUME TypeInv, SessionInv, CarriedInv, RowsGoOn, now' \in Nat, NEW r \in Requests, CarriedStep(r)
  PROVE  CarriedInv'
<1>1. ASSUME NEW q \in Requests \ {r}
      PROVE  CarriedOK(pc'[q], req'[q], sessions', usedIds', now')
  BY <1>1, StillCarried DEF CarriedInv, CarriedStep
<1>2. CarriedOK(pc'[r], req'[r], sessions', usedIds', now')
  <2>1. CASE ~Carries(pc'[r], req'[r]) /\ pc'[r] # "dropExpired"
    BY <2>1 DEF CarriedOK
  <2>2. CASE /\ Carries(pc[r], req[r]) /\ pc'[r] # "dropExpired"
             /\ req'[r].id = req[r].id /\ req'[r].sub = req[r].sub
    <3>1. CarriedOK(pc'[r], req'[r], sessions, usedIds, now)
      BY <2>2 DEF CarriedInv, CarriedOK
    <3> QED
      BY <3>1, StillCarried
  <2>3. ASSUME NEW s \in sessions, req'[r].id = s.id,
               IF pc'[r] = "dropExpired" THEN now >= s.expiresAt
                                         ELSE s.kind = "user" /\ req'[r].sub = s.sub
        PROVE  CarriedOK(pc'[r], req'[r], sessions', usedIds', now')
    <3>1. s.id \in usedIds /\ \A t \in sessions : t.id = s.id => t = s
      BY DEF SessionInv
    <3>2. CarriedOK(pc'[r], req'[r], sessions, usedIds, now)
      BY <2>3, <3>1 DEF CarriedOK, Carries
    <3> QED
      BY <3>2, StillCarried
  <2> QED
    BY <2>1, <2>2, <2>3 DEF CarriedStep
<1> QED
  BY <1>1, <1>2 DEF CarriedInv

\* Statements that have nothing to do with the identifier of a session.
Elsewhere == Stages \ {"isPanicked", "isAdminLocked", "authorize.revoke", "logout.revoke",
                       "dropExpired"}

\* A handler that starts with no session under way.
LEMMA BeginCarried ==
  ASSUME TypeInv, NEW r \in Requests, NEW h, NEW stage, NEW local, Begin(r, h, stage, local),
         ~Carries(stage, local), stage # "dropExpired"
  PROVE  CarriedStep(r)
  BY DEF TypeInv, ProcessOK, Begin, CarriedStep

\* One that starts with a session it has just read.
LEMMA BeginCarrying ==
  ASSUME TypeInv, NEW r \in Requests, NEW h, NEW stage, NEW local, Begin(r, h, stage, local),
         NEW s \in sessions, local.id = s.id,
         IF stage = "dropExpired" THEN now >= s.expiresAt
                                  ELSE s.kind = "user" /\ local.sub = s.sub
  PROVE  CarriedStep(r)
  BY DEF TypeInv, ProcessOK, Begin, CarriedStep

\* Going elsewhere, and answering.
LEMMA GotoCarried ==
  ASSUME TypeInv, NEW r \in Requests, NEW stage \in Elsewhere, Goto(r, stage),
         \A q \in Requests \ {r} : req'[q] = req[q]
  PROVE  CarriedStep(r)
  BY DEF TypeInv, ProcessOK, Goto, CarriedStep, Carries, Elsewhere

LEMMA FinishCarried ==
  ASSUME TypeInv, NEW r \in Requests, Finish(r)
  PROVE  CarriedStep(r)
  BY DEF TypeInv, ProcessOK, Finish, CarriedStep, Carries

\* A login carries no session.
LEMMA LoginCarried ==
  ASSUME TypeInv, NEW r \in Requests, LoginStep(r)
  PROVE  CarriedStep(r) /\ sessions \subseteq sessions'
<1>1. CASE \E i \in Identifiers, ok \in BOOLEAN : LoginBegin(r, i, ok)
  <2>1. PICK i \in Identifiers, ok \in BOOLEAN : LoginBegin(r, i, ok)
    BY <1>1
  <2> DEFINE local == [Blank EXCEPT !.caller = "login", !.at = now, !.key = LoginKey(i),
                                    !.sub = IF Known(i) THEN Owner[i] ELSE NoSubject,
                                    !.rev = IF Known(i) THEN users[Owner[i]].rev ELSE 0,
                                    !.ok = ok]
             limited == [local EXCEPT !.caller = "none", !.category = "rate_limit"]
  <2>2. local.caller = "login"
    BY DEF Blank
  <2>3. \/ Begin(r, "login", "audit", limited)
        \/ Begin(r, "login", "login.fail", local) \/ Begin(r, "login", "isPanicked", local)
    BY <2>1 DEF LoginBegin
  <2> HIDE DEF local
  <2>4. CarriedStep(r)
    BY <2>2, <2>3, BeginCarried DEF Carries
  <2> QED
    BY <2>1, <2>4 DEF LoginBegin, tables
<1>2. CASE LoginFail(r) \/ LoginCreate(r)
  BY <1>2, FinishCarried DEF LoginFail, LoginCreate, CreateSession
<1>3. CASE LoginReset(r)
  BY <1>3, GotoCarried DEF LoginReset, Elsewhere, Stages
<1> QED
  BY <1>1, <1>2, <1>3 DEF LoginStep

\* /authorize carries the session of the cookie to its deletion (authorize.go).
LEMMA AuthorizeCarried ==
  ASSUME TypeInv, NEW r \in Requests, AuthorizeStep(r)
  PROVE  CarriedStep(r) /\ Deletes(r)
<1>1. CASE \E c \in Clients : AuthorizeBegin(r, c)
  <2>1. PICK c \in Clients, s \in sessions :
          /\ LiveSession(s, "user", now)
          /\ Begin(r, "authorize", IF Usable(s) THEN "isPanicked" ELSE "authorize.revoke",
                   [Blank EXCEPT !.caller = "authorize", !.at = now, !.id = s.id,
                                 !.sub = s.sub, !.rev = s.rev, !.authTime = s.createdAt,
                                 !.client = c])
    BY <1>1 DEF AuthorizeBegin
  <2> DEFINE local == [Blank EXCEPT !.caller = "authorize", !.at = now, !.id = s.id,
                                    !.sub = s.sub, !.rev = s.rev, !.authTime = s.createdAt,
                                    !.client = c]
             stage == IF Usable(s) THEN "isPanicked" ELSE "authorize.revoke"
  <2>2. local.id = s.id /\ local.sub = s.sub /\ stage # "dropExpired" /\ s.kind = "user"
    BY <2>1 DEF Blank, LiveSession
  <2>3. Begin(r, "authorize", stage, local)
    BY <2>1
  <2> HIDE DEF local, stage
  <2>4. CarriedStep(r)
    BY <2>2, <2>3, BeginCarrying
  <2> QED
    BY <1>1, <2>4 DEF AuthorizeBegin, Deletes, tables
<1>2. CASE AuthorizeRevoke(r)
  BY <1>2, FinishCarried DEF AuthorizeRevoke, At, Deletes
<1>3. CASE AuthorizeIssue(r) \/ AuthorizeTooOld(r)
  BY <1>3, FinishCarried DEF AuthorizeIssue, AuthorizeTooOld, Deletes, tables
<1> QED
  BY <1>1, <1>2, <1>3 DEF AuthorizeStep

\* /token works on identifiers of tokens.
LEMMA TokenCarried ==
  ASSUME TypeInv, NEW r \in Requests, TokenStep(r)
  PROVE  CarriedStep(r) /\ UNCHANGED sessions
<1>0. UNCHANGED sessions
  BY DEF TokenStep, TokenBegin, TokenFail, TokenReset, TokenGet, TokenUnknown,
         TokenDropExpired, TokenConsume, TokenRespond, tables
<1>1. CASE \E c \in Clients, authentic \in BOOLEAN : TokenBegin(r, c, authentic)
  <2>1. \E h, stage, local : Begin(r, h, stage, local) /\ ~Carries(stage, local)
                             /\ stage # "dropExpired"
    BY <1>1 DEF TokenBegin, Carries
  <2> QED
    BY <1>0, <2>1, BeginCarried
<1>2. CASE TokenFail(r) \/ TokenUnknown(r) \/ TokenDropExpired(r) \/ TokenRespond(r)
  BY <1>0, <1>2, FinishCarried DEF TokenFail, TokenUnknown, TokenDropExpired, TokenRespond
<1>3. CASE TokenReset(r)
  BY <1>0, <1>3, GotoCarried DEF TokenReset, Elsewhere, Stages
<1>4. CASE \E ok \in BOOLEAN : TokenGet(r, ok)
  <2>1. \E stage \in {"token.consume", "token.dropExpired"} : Goto(r, stage)
    BY <1>4 DEF TokenGet
  <2>2. \A q \in Requests \ {r} : req'[q] = req[q]
    BY <1>4 DEF TokenGet, TypeInv, ProcessOK
  <2> QED
    BY <1>0, <2>1, <2>2, GotoCarried DEF Elsewhere, Stages
<1>5. CASE TokenConsume(r)
  <2>1. CASE Finish(r)
    BY <1>0, <2>1, FinishCarried
  <2>2. CASE /\ Goto(r, "isPanicked")
             /\ req' = [req EXCEPT ![r].at = now, ![r].caller = "idToken"]
    BY <1>0, <2>2 DEF CarriedStep, Carries, Goto, TypeInv, ProcessOK, RequestState
  <2> QED
    BY <1>5, <2>1, <2>2 DEF TokenConsume
<1> QED
  BY <1>0, <1>1, <1>2, <1>3, <1>4, <1>5 DEF TokenStep

\* /userinfo carries no session.
LEMMA UserinfoCarried ==
  ASSUME TypeInv, NEW r \in Requests, UserinfoStep(r)
  PROVE  CarriedStep(r) /\ UNCHANGED sessions
<1>1. CASE UserinfoBegin(r)
  <2>1. PICK b \in bearers :
          Begin(r, "userinfo", "isPanicked",
                [Blank EXCEPT !.caller = "userinfo", !.at = now, !.sub = b.sub])
    BY <1>1 DEF UserinfoBegin
  <2> DEFINE local == [Blank EXCEPT !.caller = "userinfo", !.at = now, !.sub = b.sub]
  <2>2. local.caller = "userinfo" /\ Begin(r, "userinfo", "isPanicked", local)
    BY <2>1 DEF Blank
  <2> HIDE DEF local
  <2>3. CarriedStep(r)
    BY <2>2, BeginCarried DEF Carries
  <2> QED
    BY <1>1, <2>3 DEF UserinfoBegin, tables
<1>2. CASE UserinfoAnswer(r)
  BY <1>2, FinishCarried DEF UserinfoAnswer, tables
<1> QED
  BY <1>1, <1>2 DEF UserinfoStep

\* Logout carries the session of its cookie, a panic the subject of it.
LEMMA SessionEndCarried ==
  ASSUME TypeInv, NEW r \in Requests, SessionEndStep(r)
  PROVE  CarriedStep(r) /\ Deletes(r)
<1>1. ASSUME NEW h, NEW stage, NEW category, stage # "dropExpired",
             Validated(r, h, stage, category)
      PROVE  CarriedStep(r) /\ Deletes(r)
  <2>2. PICK s \in sessions :
          /\ LiveSession(s, "user", now)
          /\ Begin(r, h, stage, [Blank EXCEPT !.at = now, !.id = s.id, !.sub = s.sub,
                                              !.category = category])
    BY <1>1 DEF Validated
  <2> DEFINE local == [Blank EXCEPT !.at = now, !.id = s.id, !.sub = s.sub,
                                    !.category = category]
  <2>3. local.id = s.id /\ local.sub = s.sub /\ s.kind = "user"
    BY <2>2 DEF Blank, LiveSession
  <2>4. Begin(r, h, stage, local)
    BY <2>2
  <2> HIDE DEF local
  <2>5. CarriedStep(r)
    BY <1>1, <2>3, <2>4, BeginCarrying
  <2> QED
    BY <1>1, <2>5 DEF Validated, Deletes, tables
<1>2. CASE LogoutRevoke(r)
  <2>1. \A q \in Requests \ {r} : req'[q] = req[q]
    BY <1>2 DEF LogoutRevoke, TypeInv, ProcessOK
  <2> QED
    BY <1>2, <2>1, GotoCarried DEF LogoutRevoke, At, Deletes, Elsewhere, Stages
<1>3. CASE PanicSubject(r)
  <2>1. req[r].sub \in Subjects
    BY <1>3 DEF PanicSubject, At, TypeInv, ProcessOK, StageOK, SubjectStages
  <2>2. CarriedStep(r)
    BY <1>3, GotoCarried DEF PanicSubject, Elsewhere, Stages
  <2> QED
    BY <1>3, <2>1, <2>2 DEF PanicSubject, At, Deletes
<1> QED
  BY <1>1, <1>2, <1>3 DEF SessionEndStep, LogoutBegin, PanicBegin

\* The console deletes the sessions of a subject it locks (lock/admin.go).
LEMMA AdminConsoleCarried ==
  ASSUME TypeInv, NEW r \in Requests, AdminConsoleStep(r)
  PROVE  CarriedStep(r) /\ Deletes(r)
<1>1. CASE \E match \in BOOLEAN : AdminLoginBegin(r, match)
  <2>1. \E h, stage, local : Begin(r, h, stage, local) /\ ~Carries(stage, local)
                             /\ stage # "dropExpired"
    BY <1>1 DEF AdminLoginBegin, Carries
  <2>2. CarriedStep(r)
    BY <2>1, BeginCarried
  <2> QED
    BY <1>1, <2>2 DEF AdminLoginBegin, Deletes, tables
<1>2. CASE AdminFail(r) \/ AdminReset(r)
  BY <1>2, GotoCarried DEF AdminFail, AdminReset, Deletes, Elsewhere, Stages
<1>3. CASE AdminCreate(r)
  <2>1. sessions \subseteq sessions'
    BY <1>3 DEF AdminCreate, CreateSession
  <2> QED
    BY <1>3, <2>1, GotoCarried DEF AdminCreate, Deletes, Elsewhere, Stages
<1>4. CASE \E u \in Subjects, change \in {"lock", "unlock", "clear_panic"} :
             LockChangeBegin(r, u, change)
  <2>1. \E h, stage, local : Begin(r, h, stage, local) /\ ~Carries(stage, local)
                             /\ stage # "dropExpired"
    BY <1>4 DEF LockChangeBegin, Carries
  <2>2. CarriedStep(r)
    BY <2>1, BeginCarried
  <2> QED
    BY <1>4, <2>2 DEF LockChangeBegin, Deletes, tables
<1>5. CASE ApplyLockChange(r)
  <2>1. req[r].sub \in Subjects
    BY <1>5 DEF ApplyLockChange, At, TypeInv, ProcessOK, StageOK, SubjectStages
  <2>2. CarriedStep(r)
    BY <1>5, GotoCarried DEF ApplyLockChange, Elsewhere, Stages
  <2> QED
    BY <1>5, <2>1, <2>2 DEF ApplyLockChange, LockSubject, UnlockSubject, ClearPanic, At, Deletes
<1> QED
  BY <1>1, <1>2, <1>3, <1>4, <1>5 DEF AdminConsoleStep

\* Enrollment works on identifiers of tokens.
LEMMA EnrollmentCarried ==
  ASSUME TypeInv, NEW r \in Requests, EnrollmentStep(r)
  PROVE  CarriedStep(r) /\ UNCHANGED sessions
<1>0. UNCHANGED sessions
  BY DEF EnrollmentStep, EnrollmentBegin, CreateEnrollment, EnrollBegin, EnrollDropExpired,
         EnrollConsume, EnrollReveal, tables
<1>1. CASE (\E u \in Subjects : EnrollmentBegin(r, u)) \/ EnrollBegin(r)
  <2>1. \E h, local : \E stage \in {"enrollment.create", "enroll.consume", "enroll.dropExpired"} :
          Begin(r, h, stage, local)
    BY <1>1 DEF EnrollmentBegin, EnrollBegin
  <2> QED
    BY <1>0, <2>1, BeginCarried DEF Carries
<1>2. CASE EnrollDropExpired(r) \/ EnrollReveal(r)
  BY <1>0, <1>2, FinishCarried DEF EnrollDropExpired, EnrollReveal
<1>3. CASE CreateEnrollment(r)
  BY <1>0, <1>3, GotoCarried DEF CreateEnrollment, Elsewhere, Stages
<1>4. CASE EnrollConsume(r)
  <2>1. CASE Finish(r)
    BY <1>0, <2>1, FinishCarried
  <2>2. CASE Goto(r, "audit") /\ UNCHANGED <<req, history>>
    BY <1>0, <2>2, GotoCarried DEF Elsewhere, Stages
  <2> QED
    BY <1>4, <2>1, <2>2 DEF EnrollConsume
<1> QED
  BY <1>1, <1>2, <1>3, <1>4 DEF EnrollmentStep

\* The reads of the locks hand the session on; an expired one is dropped by the
\* identifier it was found under (session/session.go).
LEMMA CommonCarried ==
  ASSUME TypeInv, NEW r \in Requests,
         \/ IsPanicked(r) \/ IsAdminLocked(r) \/ FoundLocked(r)
         \/ ExpiredSession(r) \/ DropExpiredSession(r) \/ RecordAudit(r) \/ Abort(r)
  PROVE  CarriedStep(r) /\ Deletes(r)
<1> USE DEF TypeInv, ProcessOK
<1>1. CASE IsPanicked(r)
  <2>1. CarriedStep(r)
    BY <1>1 DEF IsPanicked, At, Goto, CarriedStep, Carries
  <2> QED
    BY <1>1, <2>1 DEF IsPanicked, Deletes, tables
<1>2. CASE IsAdminLocked(r)
  <2>0. req[r].caller \in Callers \ {"none"} /\ At(r, "isAdminLocked")
    BY <1>2 DEF IsAdminLocked, At, StageOK, RequestState
  <2>1. \A q \in Requests \ {r} : pc'[q] = pc[q] /\ req'[q] = req[q]
    <3>1. \E stage : Goto(r, stage)
      BY <1>2 DEF IsAdminLocked
    <3>2. req' = req \/ req' = [req EXCEPT ![r].caller = "accessToken"]
      BY <1>2 DEF IsAdminLocked
    <3> QED
      BY <3>1, <3>2 DEF Goto
  <2>2. pc'[r] # "dropExpired" /\ ~Carries(pc'[r], req'[r])
    <3>1. CASE Goto(r, "login.fail")
      BY <3>1 DEF Goto, Carries
    <3>2. CASE /\ Goto(r, Cleared[req[r].caller])
               /\ req' = IF req[r].caller = "idToken"
                         THEN [req EXCEPT ![r].caller = "accessToken"] ELSE req
      <4>1. CASE req[r].caller = "idToken"
        <5>1. pc'[r] = "isPanicked"
          BY <3>2, <4>1 DEF Goto, Cleared
        <5>2. req'[r].caller = "accessToken"
          BY <3>2, <4>1 DEF RequestState
        <5> QED
          BY <5>1, <5>2 DEF Carries
      <4>2. CASE req[r].caller # "idToken"
        <5>1. pc'[r] \in {"login.reset", "authorize.issue", "token.respond", "userinfo.answer"}
          BY <2>0, <3>2, <4>2 DEF Goto, Cleared, Callers
        <5> QED
          BY <5>1 DEF Carries
      <4> QED
        BY <4>1, <4>2
    <3> QED
      BY <1>2, <3>1, <3>2 DEF IsAdminLocked
  <2> QED
    BY <1>2, <2>1, <2>2 DEF IsAdminLocked, CarriedStep, Deletes, tables
<1>3. CASE FoundLocked(r)
  <2>1. UNCHANGED sessions
    BY <1>3 DEF FoundLocked, tables
  <2>2. CASE req[r].caller = "login"
    BY <1>3, <2>1, <2>2, GotoCarried DEF FoundLocked, Elsewhere, Stages, Deletes
  <2>3. CASE req[r].caller = "authorize"
    BY <1>3, <2>1, <2>3 DEF FoundLocked, At, Goto, CarriedStep, Carries, Deletes
  <2>4. CASE req[r].caller \notin {"login", "authorize"}
    BY <1>3, <2>1, <2>4, FinishCarried DEF FoundLocked, Deletes
  <2> QED
    BY <2>2, <2>3, <2>4
<1>4. CASE ExpiredSession(r)
  <2>1. PICK s \in sessions :
          /\ now >= s.expiresAt
          /\ Begin(r, "expiredSession", "dropExpired", [Blank EXCEPT !.at = now, !.id = s.id])
    BY <1>4 DEF ExpiredSession
  <2> DEFINE local == [Blank EXCEPT !.at = now, !.id = s.id]
  <2>2. local.id = s.id
    BY DEF Blank
  <2>3. Begin(r, "expiredSession", "dropExpired", local)
    BY <2>1
  <2> HIDE DEF local
  <2>4. CarriedStep(r)
    BY <2>1, <2>2, <2>3, BeginCarrying
  <2> QED
    BY <1>4, <2>4 DEF ExpiredSession, Deletes, tables
<1>5. CASE DropExpiredSession(r)
  BY <1>5, FinishCarried DEF DropExpiredSession, At, Deletes
<1>6. CASE RecordAudit(r)
  <2>1. CASE Finish(r)
    BY <1>6, <2>1, FinishCarried DEF RecordAudit, Deletes
  <2>2. CASE Goto(r, "enroll.reveal") /\ UNCHANGED <<req, history>>
    BY <1>6, <2>2, GotoCarried DEF RecordAudit, Deletes, Elsewhere, Stages
  <2> QED
    BY <1>6, <2>1, <2>2 DEF RecordAudit
<1>7. CASE Abort(r)
  BY <1>7, FinishCarried DEF Abort, Deletes, tables
<1> QED
  BY <1>1, <1>2, <1>3, <1>4, <1>5, <1>6, <1>7

\* Every step of a request.
LEMMA RequestCarried ==
  ASSUME TypeInv, NEW r \in Requests, RequestStep(r)
  PROVE  CarriedStep(r) /\ Deletes(r)
  BY LoginCarried, AuthorizeCarried, TokenCarried, UserinfoCarried, SessionEndCarried,
     AdminConsoleCarried, EnrollmentCarried, CommonCarried
  DEF RequestStep, Deletes

-----------------------------------------------------------------------------
\* A new session has a new identifier.
LEMMA NewRow ==
  ASSUME NEW r \in Requests, LoginCreate(r) \/ AdminCreate(r)
  PROVE  /\ \A s \in sessions' : s \in sessions \/ s.id \notin usedIds
         /\ usedIds \subseteq usedIds'
<1>1. PICK row : row.id \notin usedIds /\ CreateSession(row) /\ usedIds' = usedIds \cup {row.id}
  <2>1. CASE LoginCreate(r)
    <3> DEFINE row(id) == [id |-> id, kind |-> "user", sub |-> req[r].sub,
                           rev |-> req[r].rev, createdAt |-> Format(req[r].at),
                           expiresAt |-> Format(req[r].at + SessionLifetime)]
    <3>1. PICK id \in SessionIds \ usedIds : CreateSession(row(id)) /\ usedIds' = usedIds \cup {id}
      BY <2>1 DEF LoginCreate
    <3>2. row(id).id = id
      OBVIOUS
    <3> QED
      BY <3>1, <3>2
  <2>2. CASE AdminCreate(r)
    <3> DEFINE row(id) == [id |-> id, kind |-> "admin", sub |-> AdminSubject,
                           rev |-> 0, createdAt |-> Format(req[r].at),
                           expiresAt |-> Format(req[r].at + SessionLifetime)]
    <3>1. PICK id \in SessionIds \ usedIds : CreateSession(row(id)) /\ usedIds' = usedIds \cup {id}
      BY <2>2 DEF AdminCreate
    <3>2. row(id).id = id
      OBVIOUS
    <3> QED
      BY <3>1, <3>2
  <2> QED
    BY <2>1, <2>2
<1> QED
  BY <1>1 DEF CreateSession

\* Other steps of requests create no session.
LEMMA NoNewRow ==
  ASSUME NEW r \in Requests, RequestStep(r), ~LoginCreate(r), ~AdminCreate(r)
  PROVE  sessions' \subseteq sessions /\ usedIds \subseteq usedIds'
<1>1. CASE LoginStep(r) \/ AuthorizeStep(r) \/ UserinfoStep(r)
  BY <1>1 DEF LoginStep, LoginBegin, LoginFail, LoginReset, AuthorizeStep, AuthorizeBegin,
              AuthorizeRevoke, AuthorizeIssue, AuthorizeTooOld, UserinfoStep, UserinfoBegin,
              UserinfoAnswer, RevokeSession, tables, issued
<1>2. CASE TokenStep(r)
  BY <1>2 DEF TokenStep, TokenBegin, TokenFail, TokenReset, TokenGet, TokenUnknown,
              TokenDropExpired, TokenConsume, TokenRespond, tables, issued
<1>3. CASE SessionEndStep(r)
  BY <1>3 DEF SessionEndStep, LogoutBegin, LogoutRevoke, PanicBegin, PanicSubject, Validated,
              RevokeSession, LockOut, WithoutSubject, tables, issued
<1>4. CASE AdminConsoleStep(r)
  BY <1>4 DEF AdminConsoleStep, AdminLoginBegin, AdminFail, AdminReset, LockChangeBegin,
              ApplyLockChange, LockSubject, UnlockSubject, ClearPanic, LockOut,
              WithoutSubject, tables, issued
<1>5. CASE EnrollmentStep(r)
  BY <1>5 DEF EnrollmentStep, EnrollmentBegin, CreateEnrollment, EnrollBegin,
              EnrollDropExpired, EnrollConsume, EnrollReveal, tables, issued
<1>6. CASE IsPanicked(r) \/ IsAdminLocked(r) \/ FoundLocked(r) \/ ExpiredSession(r)
           \/ DropExpiredSession(r) \/ RecordAudit(r) \/ Abort(r)
  BY <1>6 DEF IsPanicked, IsAdminLocked, FoundLocked, ExpiredSession, DropExpiredSession,
              RecordAudit, Abort, RevokeSession, tables, issued
<1> QED
  BY <1>1, <1>2, <1>3, <1>4, <1>5, <1>6 DEF RequestStep

\* Rows keep their identifiers in every step.
LEMMA RowsStep ==
  ASSUME TypeInv, [Next]_vars
  PROVE  RowsGoOn
<1>0. now \in Nat
  BY DEF TypeInv, WorldOK
<1>1. ASSUME NEW r \in Requests, RequestStep(r)
      PROVE  RowsGoOn
  <2>1. now' = now
    BY <1>1, RequestWorld DEF world
  <2>2. /\ \A s \in sessions' : s \in sessions \/ s.id \notin usedIds
        /\ usedIds \subseteq usedIds'
    BY <1>1, NewRow, NoNewRow
  <2> QED
    BY <1>0, <2>1, <2>2 DEF RowsGoOn
<1>2. CASE AdminLogOut \/ Tick \/ Restart \/ UNCHANGED vars
  BY <1>0, <1>2 DEF AdminLogOut, RevokeSession, Tick, Restart, vars, world, tables, issued,
                    RowsGoOn
<1>3. CASE CleanupStep
  BY <1>0, <1>3 DEF CleanupStep, Pass, CleanCounters, CleanTokens, CleanSessions, CleanAudit,
                    CleanFail, DeleteExpiredSessions, tables, issued, RowsGoOn
<1> QED
  BY <1>1, <1>2, <1>3 DEF Next

\* No step changes what an identifier under way stands for.
LEMMA CarriedNext ==
  TypeInv /\ SessionInv /\ CarriedInv /\ [Next]_vars => CarriedInv'
<1> SUFFICES ASSUME TypeInv, SessionInv, CarriedInv, [Next]_vars PROVE CarriedInv'
  OBVIOUS
<1>1. RowsGoOn /\ now' \in Nat
  BY RowsStep, TypeStep DEF TypeInv, WorldOK
<1>2. ASSUME NEW r \in Requests, RequestStep(r)
      PROVE  CarriedInv'
  BY <1>1, <1>2, RequestCarried, CarriedOn
<1>3. CASE Restart
  BY <1>3 DEF Restart, CarriedInv, CarriedOK, Carries
<1>4. CASE AdminLogOut \/ CleanupStep \/ Tick \/ UNCHANGED vars
  <2>1. UNCHANGED process
    BY <1>4 DEF AdminLogOut, CleanupStep, Pass, Tick, vars
  <2> QED
    BY <1>1, <2>1, StillCarried DEF process, CarriedInv
<1> QED
  BY <1>2, <1>3, <1>4 DEF Next

\* The action of SessionsEndForCause.
ForCause ==
  \A s \in sessions \ sessions' :
    \/ StateLost \/ now >= s.expiresAt
    \/ AdminLogOut /\ sessions' = sessions \ {s}
    \/ /\ s.kind = "user"
       /\ \E r \in Requests :
            /\ req[r].sub = s.sub
            /\ \/ pc[r] \in {"authorize.revoke", "logout.revoke"} /\ req[r].id = s.id
               \/ pc[r] = "panic.lock"
               \/ pc[r] = "locks.apply" /\ req[r].change = "lock"

\* What a statement of a request deletes.
LEMMA DeletesForCause ==
  ASSUME AdminSubject \notin Subjects, TypeInv, CarriedInv, NEW r \in Requests, Deletes(r)
  PROVE  ForCause
<1> SUFFICES ASSUME NEW s \in sessions \ sessions' PROVE
      \/ now >= s.expiresAt
      \/ /\ s.kind = "user" /\ req[r].sub = s.sub
         /\ \/ pc[r] \in {"authorize.revoke", "logout.revoke"} /\ req[r].id = s.id
            \/ pc[r] = "panic.lock"
            \/ pc[r] = "locks.apply" /\ req[r].change = "lock"
  BY DEF ForCause
<1>1. CASE /\ pc[r] \in {"authorize.revoke", "logout.revoke", "dropExpired"}
           /\ RevokeSession(req[r].id)
  <2>1. s.id = req[r].id
    BY <1>1 DEF RevokeSession
  <2> QED
    BY <1>1, <2>1 DEF CarriedInv, CarriedOK, Carries
<1>2. CASE /\ pc[r] = "panic.lock" \/ (pc[r] = "locks.apply" /\ req[r].change = "lock")
           /\ req[r].sub \in Subjects /\ LockOut(req[r].sub)
  <2>1. s.sub = req[r].sub
    BY <1>2 DEF LockOut, WithoutSubject
  <2>2. s.kind = "user"
    BY <1>2, <2>1 DEF TypeInv, StoreTypeOK, UserSessionRow, AdminSessionRow
  <2> QED
    BY <1>2, <2>1, <2>2
<1> QED
  BY <1>1, <1>2 DEF Deletes

\* SessionsEndForCause: as long as no user has the reserved subject, a session
\* ends because it expired, because its own holder, a lock of its subject or the
\* refusal of that very session ends it, or alone, by the sign-out of whoever
\* presents its cookie as an administrator's (session/session.go, lock/panic.go,
\* lock/admin.go).
THEOREM SessionsEndWithReason ==
  ASSUME AdminSubject \notin Subjects
  PROVE  Spec => SessionsEndForCause
<1>1. Init => CarriedInv
  BY DEF Init, ServerInit, CarriedInv, CarriedOK, Carries
<1>2. Init => SessionInv
  BY DEF Init, StoreInit, ServerInit, SessionInv
<1>3. TypeInv /\ SessionInv /\ CarriedInv /\ PassBegan /\ [Next]_vars => ForCause
  <2> SUFFICES ASSUME TypeInv, SessionInv, CarriedInv, PassBegan, [Next]_vars PROVE ForCause
    OBVIOUS
  <2>1. ASSUME NEW r \in Requests, RequestStep(r)
        PROVE  ForCause
    BY <2>1, RequestCarried, DeletesForCause
  <2>2. CASE AdminLogOut
    <3>1. PICK row \in sessions : sessions' = {s \in sessions : s.id # row.id}
      BY <2>2 DEF AdminLogOut, RevokeSession
    <3>2. sessions' = sessions \ {row}
      BY <3>1 DEF SessionInv
    <3> QED
      BY <2>2, <3>2 DEF ForCause
  <2>3. CASE CleanupStep
    <3>1. CASE CleanSessions
      <4>1. cleaner' # cleaner
        BY <3>1 DEF CleanSessions, Purge, TypeInv, WorldOK, Cleaner
      <4> QED
        BY <4>1, PurgeStep DEF OnlyDead, ForCause
    <3>2. CASE UNCHANGED sessions
      BY <3>2 DEF ForCause
    <3> QED
      BY <2>3, <3>1, <3>2 DEF CleanupStep, Pass, CleanCounters, CleanTokens, CleanAudit,
                              CleanFail, tables
  <2>4. CASE Tick \/ Restart \/ UNCHANGED vars
    BY <2>4 DEF Tick, Restart, StateLost, vars, tables, ForCause
  <2> QED
    BY <2>1, <2>2, <2>3, <2>4 DEF Next
<1> QED
  BY <1>1, <1>2, <1>3, CarriedNext, SessionStep, TypeInvariant, PassBeganInvariant, PTL
  DEF Spec, SessionsEndForCause, ForCause
=============================================================================
