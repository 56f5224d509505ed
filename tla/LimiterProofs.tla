------------------------------ MODULE LimiterProofs ------------------------------
(***************************************************************************)
(* What the rate limiter promises, for any number of concurrent requests:  *)
(* the budget, the window and the lockout (ratelimit/limiter.go).  Allow    *)
(* and RecordFailure are two statements of a handler, so the invariant      *)
(* says what a request that passed the first carries to the second.  At the *)
(* end, the purges (cleanup/cleaner.go), which like the limiter compare the *)
(* clock with instants that were cut to whole seconds.                     *)
(***************************************************************************)
EXTENDS TypeProofs, FiniteSetTheorems

-----------------------------------------------------------------------------
(* Cutting instants to whole seconds: internal/clock                        *)

\* Two multiples of a second are a second apart.
LEMMA SecondsApart ==
  ASSUME NEW a \in Nat, NEW b \in Nat, a < b
  PROVE  Second * a + Second <= Second * b
<1>1. PICK d \in Nat : b = a + 1 + d
  <2>1. b - a - 1 \in Nat /\ b = a + 1 + (b - a - 1)
    OBVIOUS
  <2> QED
    BY <2>1
<1>2. Second * d \in Nat /\ Second * a \in Nat
  BY SecondAssumption
<1>3. Second * (a + 1 + d) = Second * a + Second + Second * d
  BY SecondAssumption
<1> QED
  BY <1>1, <1>2, <1>3, SecondAssumption

\* What Format returns.
LEMMA WholeSeconds ==
  ASSUME NEW t \in Nat
  PROVE  \E k \in Nat : /\ Format(t) = Second * k
                        /\ Second * k <= t /\ t < Second * k + Second
<1>1. t \div Second \in Nat
  BY SecondAssumption
<1>2. t = Second * (t \div Second) + (t % Second) /\ t % Second \in 0..(Second - 1)
  BY SecondAssumption
<1>3. Second * (t \div Second) \in Nat
  BY <1>1, SecondAssumption
<1> QED
  BY <1>1, <1>2, <1>3, SecondAssumption DEF Format

\* Cutting keeps the order of instants.
LEMMA FormatMonotone ==
  ASSUME NEW a \in Nat, NEW b \in Nat, a <= b
  PROVE  Format(a) <= Format(b)
<1>1. PICK i \in Nat : Format(a) = Second * i /\ Second * i <= a /\ a < Second * i + Second
  BY WholeSeconds
<1>2. PICK j \in Nat : Format(b) = Second * j /\ Second * j <= b /\ b < Second * j + Second
  BY WholeSeconds
<1>3. Second * j \in Nat /\ Second * i \in Nat /\ Second \in Nat \ {0}
  BY SecondAssumption
<1>4. ~(j < i)
  <2> SUFFICES ASSUME j < i PROVE FALSE
    OBVIOUS
  <2>1. Second * j + Second <= Second * i
    BY SecondsApart
  <2> QED
    BY <1>1, <1>2, <1>3, <2>1
<1>5. CASE i < j
  <2>1. Second * i + Second <= Second * j
    BY <1>5, SecondsApart
  <2> QED
    BY <1>1, <1>2, <1>3, <2>1
<1> QED
  BY <1>1, <1>2, <1>3, <1>4, <1>5

\* Cutting an instant never moves it forward, and twice is once.
LEMMA FormatCuts ==
  ASSUME NEW t \in Nat
  PROVE  Format(t) \in Nat /\ Format(t) <= t /\ Format(Format(t)) = Format(t)
<1>1. PICK i \in Nat : Format(t) = Second * i /\ Second * i <= t
  BY WholeSeconds
<1>2. Second * i \in Nat /\ Second \in Nat \ {0}
  BY SecondAssumption
<1>3. PICK j \in Nat : /\ Format(Second * i) = Second * j
                       /\ Second * j <= Second * i /\ Second * i < Second * j + Second
  BY <1>2, WholeSeconds
<1>4. Second * j \in Nat
  BY SecondAssumption
<1>5. ~(i < j)
  BY <1>2, <1>3, <1>4, SecondsApart
<1>6. ~(j < i)
  BY <1>2, <1>3, <1>4, SecondsApart
<1>7. i = j
  BY <1>5, <1>6
<1> QED
  BY <1>1, <1>2, <1>3, <1>7

-----------------------------------------------------------------------------
(* The invariant                                                            *)

\* A request past Allow whose failure, if it fails, is still to be recorded.
Attempting(stage, q) ==
  \/ stage \in {"isPanicked", "isAdminLocked"} /\ q.caller = "login"
  \/ stage \in {"login.fail", "admin.fail", "token.fail"}

\* The limiter a request at a stage goes through: the administrator shares the
\* settings of the users.
LimiterOf(stage) == IF stage = "token.fail" THEN "client" ELSE "user"

\* It carries a key of its limiter, and an instant that has passed.
AttemptOK(stage, q) ==
  /\ q.key \in KeysOf[LimiterOf(stage)]
  /\ stage # "token.fail" => q.at <= now

AttemptsOK == \A r \in Requests : Attempting(pc[r], req[r]) => AttemptOK(pc[r], req[r])

\* The primary key of rate_limit_counters.
KeysUnique == \A c, d \in counters : c.key = d.key => c = d

\* What requests owe and what the table holds.
CounterInv == AttemptsOK /\ KeysUnique

\* Windows end on a whole second.
EndsWhole == \A c \in counters : Format(c.resetAt) = c.resetAt

\* What a window may hold, and until when.
BudgetInv == EndsWhole /\ LockoutEnds /\ AttemptsBound

-----------------------------------------------------------------------------
(* The kinds of steps                                                       *)

\* Counters can only go, and no request gets past Allow.
Calm ==
  /\ counters' \subseteq counters /\ now' \in Nat /\ now <= now'
  /\ \A q \in Requests :
       Attempting(pc'[q], req'[q]) =>
         /\ Attempting(pc[q], req[q]) /\ req'[q] = req[q]
         /\ (pc'[q] = "token.fail") <=> (pc[q] = "token.fail")

\* The others stand still.
Alone(r) ==
  /\ now' = now
  /\ \A q \in Requests \ {r} : pc'[q] = pc[q] /\ req'[q] = req[q]

\* The settings a request at a stage goes by.
LimiterAt(stage) == limits[LimiterOf(stage)]

\* No deploy: the settings, and what the process found when it started, stay.
Steady == UNCHANGED <<limits, inherited>>

\* Request r passes Allow.
Passes(r) ==
  /\ Alone(r) /\ UNCHANGED counters
  /\ AttemptOK(pc'[r], req'[r])
  /\ pc'[r] # "token.fail" => req'[r].at = now
  /\ Allow(LimiterAt(pc'[r]), req'[r].key, now)

\* Request r records its failure.
Fails(r) ==
  /\ Alone(r) /\ pc[r] \in {"login.fail", "admin.fail", "token.fail"}
  /\ pc'[r] \in {"idle", "audit"}
  /\ RecordFailure(LimiterAt(pc[r]), req[r].key,
                   IF pc[r] = "token.fail" THEN now ELSE req[r].at)

\* One statement of one request.
LimiterStep(r) == Calm \/ Passes(r) \/ Fails(r)

-----------------------------------------------------------------------------
(* Which steps are of which kind                                            *)

\* A handler that starts past Allow.
LEMMA BeginPasses ==
  ASSUME TypeInv, NEW r \in Requests, NEW h, NEW stage, NEW local,
         Begin(r, h, stage, local), UNCHANGED <<counters, now>>,
         AttemptOK(stage, local), stage # "token.fail" => local.at = now,
         Allow(LimiterAt(stage), local.key, now)
  PROVE  Passes(r)
  BY DEF TypeInv, ProcessOK, Begin, Passes, Alone

\* A handler that starts at any other statement.
LEMMA BeginCalm ==
  ASSUME TypeInv, NEW r \in Requests, NEW h, NEW stage, NEW local,
         Begin(r, h, stage, local), ~Attempting(stage, local),
         UNCHANGED <<counters, now>>
  PROVE  Calm
  BY DEF TypeInv, WorldOK, ProcessOK, Begin, Calm

\* A request goes on, with the failure it may owe.
LEMMA GotoCalm ==
  ASSUME TypeInv, NEW r \in Requests, NEW stage, Goto(r, stage), UNCHANGED <<req, now>>,
         counters' \subseteq counters,
         Attempting(stage, req[r]) => Attempting(pc[r], req[r]) /\ stage # "token.fail"
                                       /\ pc[r] # "token.fail"
  PROVE  Calm
  BY DEF TypeInv, WorldOK, ProcessOK, Goto, Calm

\* A request changes its variables and goes on to something that owes none.
LEMMA MoveCalm ==
  ASSUME TypeInv, NEW r \in Requests, NEW stage, NEW local, Goto(r, stage),
         req' = [req EXCEPT ![r] = local], UNCHANGED now,
         counters' \subseteq counters, ~Attempting(stage, local)
  PROVE  Calm
  BY DEF TypeInv, WorldOK, ProcessOK, Goto, Calm

\* A request ends.
LEMMA FinishCalm ==
  ASSUME TypeInv, NEW r \in Requests, Finish(r), UNCHANGED now, counters' \subseteq counters
  PROVE  Calm
  BY DEF TypeInv, WorldOK, ProcessOK, Finish, Calm, Attempting

\* login.Service.Login.
LEMMA LoginLimiter ==
  ASSUME TypeInv, NEW r \in Requests, LoginStep(r)
  PROVE  LimiterStep(r)
<1>1. ASSUME NEW i \in Identifiers, NEW ok \in BOOLEAN, LoginBegin(r, i, ok)
      PROVE  LimiterStep(r)
  <2> DEFINE local == [Blank EXCEPT !.caller = "login", !.at = now, !.key = LoginKey(i),
                         !.sub = IF Known(i) THEN Owner[i] ELSE NoSubject,
                         !.rev = IF Known(i) THEN users[Owner[i]].rev ELSE 0,
                         !.ok = ok]
             throttled == [local EXCEPT !.caller = "none", !.category = "rate_limit"]
  <2>1. local.key = LoginKey(i) /\ local.at = now /\ LoginKey(i) \in KeysOf["user"]
    BY DEF Blank, LoginKey, Known, KeysOf
  <2>2. now \in Nat /\ UNCHANGED <<counters, now>>
    BY <1>1 DEF LoginBegin, tables, world, TypeInv, WorldOK
  <2>3. CASE Begin(r, "login", "audit", throttled)
    BY <2>2, <2>3, BeginCalm DEF Attempting, LimiterStep
  <2>4. CASE /\ Allow(userLimit, LoginKey(i), now)
             /\ \E stage \in {"login.fail", "isPanicked"} : Begin(r, "login", stage, local)
    <3>1. PICK stage \in {"login.fail", "isPanicked"} : Begin(r, "login", stage, local)
      BY <2>4
    <3>2. AttemptOK(stage, local) /\ stage # "token.fail" /\ LimiterAt(stage) = userLimit
      BY <2>1, <2>2 DEF AttemptOK, LimiterAt, LimiterOf, userLimit
    <3>3. Allow(LimiterAt(stage), local.key, now) /\ local.at = now
      BY <2>1, <2>4, <3>2
    <3> HIDE DEF local
    <3> QED
      BY <2>2, <3>1, <3>2, <3>3, BeginPasses DEF LimiterStep
  <2> QED
    BY <1>1, <2>3, <2>4 DEF LoginBegin
<1>2. CASE LoginFail(r)
  BY <1>2 DEF LoginFail, At, Finish, LimiterStep, Fails, Alone, LimiterAt, LimiterOf,
              userLimit, TypeInv, ProcessOK, world
<1>3. CASE LoginReset(r)
  <2>1. Goto(r, "login.create") /\ UNCHANGED <<req, now>> /\ counters' \subseteq counters
    BY <1>3 DEF LoginReset, Reset, DeleteRateLimitCounter, world
  <2> QED
    BY <2>1, GotoCalm DEF Attempting, LimiterStep
<1>4. CASE LoginCreate(r)
  BY <1>4, FinishCalm DEF LoginCreate, world, LimiterStep
<1> QED
  BY <1>1, <1>2, <1>3, <1>4 DEF LoginStep

\* server/token.go authenticateTokenClient, and the rest of /token.
LEMMA TokenLimiter ==
  ASSUME TypeInv, NEW r \in Requests, TokenStep(r)
  PROVE  LimiterStep(r)
<1>0. now \in Nat
  BY DEF TypeInv, WorldOK
<1>1. ASSUME NEW c \in Clients, NEW authentic \in BOOLEAN, TokenBegin(r, c, authentic)
      PROVE  LimiterStep(r)
  <2> DEFINE local == [Blank EXCEPT !.at = now, !.client = c, !.key = c]
             throttled == [local EXCEPT !.category = "rate_limit"]
  <2>1. local.key = c /\ local.at = now /\ local.caller = "none"
    BY DEF Blank
  <2>2. UNCHANGED <<counters, now>>
    BY <1>1 DEF TokenBegin, tables, world
  <2>3. CASE Begin(r, "token", "audit", throttled)
    BY <2>2, <2>3, BeginCalm DEF Attempting, LimiterStep
  <2>4. CASE Begin(r, "token", "token.reset", local)
    <3> HIDE DEF local
    <3> QED
      BY <2>2, <2>4, BeginCalm DEF Attempting, LimiterStep
  <2>5. CASE Allow(clientLimit, c, now) /\ Begin(r, "token", "token.fail", local)
    <3>1. AttemptOK("token.fail", local) /\ LimiterAt("token.fail") = clientLimit
      BY <2>1 DEF AttemptOK, LimiterAt, LimiterOf, clientLimit, KeysOf
    <3>2. Allow(LimiterAt("token.fail"), local.key, now)
      BY <2>1, <2>5, <3>1
    <3> HIDE DEF local
    <3> QED
      BY <2>2, <2>5, <3>1, <3>2, BeginPasses DEF LimiterStep
  <2> QED
    BY <1>1, <2>3, <2>4, <2>5 DEF TokenBegin
<1>2. CASE TokenFail(r)
  BY <1>2 DEF TokenFail, At, Finish, LimiterStep, Fails, Alone, LimiterAt, LimiterOf,
              clientLimit, TypeInv, ProcessOK, world
<1>3. CASE TokenReset(r)
  <2>1. Goto(r, "token.get") /\ UNCHANGED <<req, now>> /\ counters' \subseteq counters
    BY <1>3 DEF TokenReset, Reset, DeleteRateLimitCounter, world
  <2> QED
    BY <2>1, GotoCalm DEF Attempting, LimiterStep
<1>4. CASE \E ok \in BOOLEAN : TokenGet(r, ok)
  <2>1. PICK stage \in {"token.consume", "token.dropExpired"} : Goto(r, stage)
    BY <1>4 DEF TokenGet
  <2>2. UNCHANGED <<counters, now>> /\ \A q \in Requests \ {r} : req'[q] = req[q]
    BY <1>4 DEF TokenGet, tables, world, TypeInv, ProcessOK
  <2> QED
    BY <1>0, <2>1, <2>2 DEF Goto, Calm, Attempting, LimiterStep, TypeInv, ProcessOK
<1>5. CASE TokenUnknown(r) \/ TokenDropExpired(r) \/ TokenRespond(r)
  BY <1>5, FinishCalm DEF TokenUnknown, TokenDropExpired, TokenRespond, tables, world,
                          LimiterStep
<1>6. CASE TokenConsume(r)
  <2>1. UNCHANGED <<counters, now>>
    BY <1>6 DEF TokenConsume, world
  <2>2. CASE Finish(r)
    BY <2>1, <2>2, FinishCalm DEF LimiterStep
  <2>3. CASE /\ Goto(r, "isPanicked")
             /\ req' = [req EXCEPT ![r].at = now, ![r].caller = "idToken"]
    <3>1. req'[r].caller = "idToken" /\ \A q \in Requests \ {r} : req'[q] = req[q]
      BY <2>3 DEF TypeInv, ProcessOK, RequestState
    <3> QED
      BY <1>0, <2>1, <2>3, <3>1 DEF Goto, Calm, Attempting, LimiterStep, TypeInv, ProcessOK
  <2> QED
    BY <1>6, <2>2, <2>3 DEF TokenConsume
<1> QED
  BY <1>1, <1>2, <1>3, <1>4, <1>5, <1>6 DEF TokenStep

\* /authorize and /userinfo never touch a counter.
LEMMA ReaderLimiter ==
  ASSUME TypeInv, NEW r \in Requests, AuthorizeStep(r) \/ UserinfoStep(r)
  PROVE  Calm
<1>0. UNCHANGED <<counters, now>>
  BY DEF AuthorizeStep, AuthorizeBegin, AuthorizeRevoke, AuthorizeIssue, AuthorizeTooOld,
         UserinfoStep, UserinfoBegin, UserinfoAnswer, tables, world
<1>1. ASSUME NEW c \in Clients, AuthorizeBegin(r, c)
      PROVE  Calm
  <2>1. PICK s \in sessions : \E stage \in {"isPanicked", "authorize.revoke"} :
          Begin(r, "authorize", stage,
                [Blank EXCEPT !.caller = "authorize", !.at = now, !.id = s.id,
                              !.sub = s.sub, !.rev = s.rev,
                              !.authTime = s.createdAt, !.client = c])
    BY <1>1 DEF AuthorizeBegin
  <2> DEFINE local == [Blank EXCEPT !.caller = "authorize", !.at = now, !.id = s.id,
                                    !.sub = s.sub, !.rev = s.rev,
                                    !.authTime = s.createdAt, !.client = c]
  <2>2. local.caller = "authorize"
    BY DEF Blank
  <2>3. PICK stage \in {"isPanicked", "authorize.revoke"} : Begin(r, "authorize", stage, local)
    BY <2>1
  <2> HIDE DEF local
  <2>4. ~Attempting(stage, local)
    BY <2>2, <2>3 DEF Attempting
  <2> QED
    BY <1>0, <2>3, <2>4, BeginCalm
<1>2. CASE AuthorizeRevoke(r) \/ AuthorizeIssue(r) \/ AuthorizeTooOld(r) \/ UserinfoAnswer(r)
  BY <1>0, <1>2, FinishCalm
  DEF AuthorizeRevoke, AuthorizeIssue, AuthorizeTooOld, UserinfoAnswer
<1>3. CASE UserinfoBegin(r)
  <2>1. PICK b \in bearers :
          Begin(r, "userinfo", "isPanicked",
                [Blank EXCEPT !.caller = "userinfo", !.at = now, !.sub = b.sub])
    BY <1>3 DEF UserinfoBegin
  <2> DEFINE local == [Blank EXCEPT !.caller = "userinfo", !.at = now, !.sub = b.sub]
  <2>2. local.caller = "userinfo"
    BY DEF Blank
  <2>3. Begin(r, "userinfo", "isPanicked", local)
    BY <2>1
  <2> HIDE DEF local
  <2> QED
    BY <1>0, <2>2, <2>3, BeginCalm DEF Attempting
<1> QED
  BY <1>1, <1>2, <1>3 DEF AuthorizeStep, UserinfoStep

\* Neither do logout, panic and enrollment.
LEMMA OtherLimiter ==
  ASSUME TypeInv, NEW r \in Requests, SessionEndStep(r) \/ EnrollmentStep(r)
  PROVE  Calm
<1>0. UNCHANGED <<counters, now>>
  BY DEF SessionEndStep, LogoutBegin, LogoutRevoke, PanicBegin, PanicSubject, Validated,
         EnrollmentStep, EnrollmentBegin, CreateEnrollment, EnrollBegin, EnrollDropExpired,
         EnrollConsume, EnrollReveal, tables, world
<1>1. CASE LogoutBegin(r) \/ PanicBegin(r) \/ EnrollBegin(r)
           \/ \E u \in Subjects : EnrollmentBegin(r, u)
  <2>1. \E h, local :
          \E stage \in {"logout.revoke", "panic.lock", "enrollment.create", "enroll.consume",
                        "enroll.dropExpired"} : Begin(r, h, stage, local)
    BY <1>1 DEF LogoutBegin, PanicBegin, Validated, EnrollBegin, EnrollmentBegin
  <2> QED
    BY <1>0, <2>1, BeginCalm DEF Attempting
<1>2. CASE LogoutRevoke(r)
  <2>1. Goto(r, "audit") /\ req' = [req EXCEPT ![r] = [req[r] EXCEPT !.at = now]]
    BY <1>2 DEF LogoutRevoke
  <2> QED
    BY <1>0, <2>1, MoveCalm DEF Attempting
<1>3. CASE PanicSubject(r) \/ CreateEnrollment(r)
  <2>1. Goto(r, "audit") /\ UNCHANGED req
    BY <1>3 DEF PanicSubject, CreateEnrollment
  <2> QED
    BY <1>0, <2>1, GotoCalm DEF Attempting
<1>4. CASE EnrollDropExpired(r) \/ EnrollReveal(r)
  BY <1>0, <1>4, FinishCalm DEF EnrollDropExpired, EnrollReveal
<1>5. CASE EnrollConsume(r)
  BY <1>0, <1>5, FinishCalm, GotoCalm DEF EnrollConsume, Attempting
<1> QED
  BY <1>1, <1>2, <1>3, <1>4, <1>5 DEF SessionEndStep, EnrollmentStep

\* internal/admin: the administrator shares the settings of the users.
LEMMA AdminLimiter ==
  ASSUME TypeInv, NEW r \in Requests, AdminConsoleStep(r)
  PROVE  LimiterStep(r)
<1>1. ASSUME NEW match \in BOOLEAN, AdminLoginBegin(r, match)
      PROVE  LimiterStep(r)
  <2> DEFINE local == [Blank EXCEPT !.at = now, !.key = AdminKey, !.ok = match,
                                    !.category = "admin_authentication"]
             throttled == [local EXCEPT !.category = "rate_limit"]
  <2>1. local.key = AdminKey /\ local.at = now /\ local.caller = "none"
    BY DEF Blank
  <2>2. now \in Nat /\ UNCHANGED <<counters, now>>
    BY <1>1 DEF AdminLoginBegin, tables, world, TypeInv, WorldOK
  <2>3. CASE Begin(r, "adminLogin", "audit", throttled)
    BY <2>2, <2>3, BeginCalm DEF Attempting, LimiterStep
  <2>4. CASE Begin(r, "adminLogin", "admin.reset", local)
    <3> HIDE DEF local
    <3> QED
      BY <2>2, <2>4, BeginCalm DEF Attempting, LimiterStep
  <2>5. CASE Allow(userLimit, AdminKey, now) /\ Begin(r, "adminLogin", "admin.fail", local)
    <3>1. AttemptOK("admin.fail", local) /\ LimiterAt("admin.fail") = userLimit
      BY <2>1, <2>2 DEF AttemptOK, LimiterAt, LimiterOf, userLimit, KeysOf
    <3>2. Allow(LimiterAt("admin.fail"), local.key, now)
      BY <2>1, <2>5, <3>1
    <3> HIDE DEF local
    <3> QED
      BY <2>1, <2>2, <2>5, <3>1, <3>2, BeginPasses DEF LimiterStep
  <2> QED
    BY <1>1, <2>3, <2>4, <2>5 DEF AdminLoginBegin
<1>2. CASE AdminFail(r)
  BY <1>2 DEF AdminFail, At, Goto, LimiterStep, Fails, Alone, LimiterAt, LimiterOf,
              userLimit, TypeInv, ProcessOK, world
<1>3. CASE AdminReset(r)
  <2>1. Goto(r, "admin.create") /\ UNCHANGED <<req, now>> /\ counters' \subseteq counters
    BY <1>3 DEF AdminReset, Reset, DeleteRateLimitCounter, world
  <2> QED
    BY <2>1, GotoCalm DEF Attempting, LimiterStep
<1>4. CASE AdminCreate(r) \/ ApplyLockChange(r)
  <2>1. Goto(r, "audit") /\ UNCHANGED <<req, counters, now>>
    BY <1>4 DEF AdminCreate, ApplyLockChange, world
  <2> QED
    BY <2>1, GotoCalm DEF Attempting, LimiterStep
<1>5. CASE \E u \in Subjects, change \in {"lock", "unlock", "clear_panic"} :
             LockChangeBegin(r, u, change)
  <2>1. \E local : Begin(r, "lockChange", "locks.apply", local)
    BY <1>5 DEF LockChangeBegin
  <2>2. UNCHANGED <<counters, now>>
    BY <1>5 DEF LockChangeBegin, tables, world
  <2> QED
    BY <2>1, <2>2, BeginCalm DEF Attempting, LimiterStep
<1> QED
  BY <1>1, <1>2, <1>3, <1>4, <1>5 DEF AdminConsoleStep

\* The two reads of IsLocked: a login that passed Allow still owes its failure.
LEMMA IsLockedLimiter ==
  ASSUME TypeInv, NEW r \in Requests,
         IsPanicked(r) \/ IsAdminLocked(r) \/ FoundLocked(r)
  PROVE  Calm
<1>0. UNCHANGED <<counters, now>>
  BY DEF IsPanicked, IsAdminLocked, FoundLocked, tables, world
<1>1. CASE IsPanicked(r)
  BY <1>0, <1>1, GotoCalm DEF IsPanicked, At, Attempting
<1>2. CASE IsAdminLocked(r)
  <2>1. CASE req[r].caller = "login" /\ ~req[r].ok
    BY <1>0, <1>2, <2>1, GotoCalm DEF IsAdminLocked, At, Attempting
  <2>2. CASE req[r].caller = "login" /\ req[r].ok
    BY <1>0, <1>2, <2>2, GotoCalm DEF IsAdminLocked, Attempting, Cleared
  <2>3. CASE req[r].caller = "idToken"
    <3>1. /\ Goto(r, "isPanicked")
          /\ req' = [req EXCEPT ![r] = [req[r] EXCEPT !.caller = "accessToken"]]
      BY <1>2, <2>3 DEF IsAdminLocked, Cleared
    <3>2. [req[r] EXCEPT !.caller = "accessToken"].caller = "accessToken"
      BY DEF TypeInv, ProcessOK, RequestState
    <3> QED
      BY <1>0, <3>1, <3>2, MoveCalm DEF Attempting
  <2>4. CASE req[r].caller \notin {"login", "idToken"}
    <3>1. req[r].caller \in {"authorize", "accessToken", "userinfo"}
      BY <1>2, <2>4 DEF TypeInv, ProcessOK, StageOK, IsAdminLocked, At, RequestState, Callers
    <3> QED
      BY <1>0, <1>2, <3>1, GotoCalm DEF IsAdminLocked, Attempting, Cleared
  <2> QED
    BY <2>1, <2>2, <2>3, <2>4 DEF TypeInv, ProcessOK, RequestState
<1>3. CASE FoundLocked(r)
  <2>1. CASE req[r].caller \in {"login", "authorize"}
    BY <1>0, <1>3, <2>1, GotoCalm DEF FoundLocked, At, Attempting
  <2>2. CASE req[r].caller \notin {"login", "authorize"}
    BY <1>0, <1>3, <2>2, FinishCalm DEF FoundLocked
  <2> QED
    BY <2>1, <2>2
<1> QED
  BY <1>1, <1>2, <1>3

\* Nor does what every handler has in common.
LEMMA CommonLimiter ==
  ASSUME TypeInv, NEW r \in Requests,
         ExpiredSession(r) \/ DropExpiredSession(r) \/ RecordAudit(r) \/ Abort(r)
  PROVE  Calm
<1>0. UNCHANGED <<counters, now>>
  BY DEF ExpiredSession, DropExpiredSession, RecordAudit, Abort, tables, world
<1>1. CASE ExpiredSession(r)
  <2>1. \E local : Begin(r, "expiredSession", "dropExpired", local)
    BY <1>1 DEF ExpiredSession
  <2> QED
    BY <1>0, <2>1, BeginCalm DEF Attempting
<1>2. CASE Finish(r)
  BY <1>0, <1>2, FinishCalm
<1>3. CASE Goto(r, "enroll.reveal") /\ UNCHANGED req
  BY <1>0, <1>3, GotoCalm DEF Attempting
<1> QED
  BY <1>1, <1>2, <1>3 DEF DropExpiredSession, RecordAudit, Abort

\* Whatever is not a statement of a request.
LEMMA WorldLimiter ==
  ASSUME TypeInv, AdminLogOut \/ CleanupStep \/ Tick \/ Restart \/ UNCHANGED vars
  PROVE  Calm
<1>0. now \in Nat
  BY DEF TypeInv, WorldOK
<1>1. CASE AdminLogOut \/ UNCHANGED vars
  BY <1>0, <1>1 DEF AdminLogOut, vars, world, process, tables, Calm
<1>2. CASE CleanupStep
  <2>1. counters' \subseteq counters
    BY <1>2 DEF CleanupStep, Pass, CleanCounters, CleanTokens, CleanSessions, CleanAudit,
                CleanFail, DeleteExpiredRateLimitCounters, tables
  <2> QED
    BY <1>0, <1>2, <2>1 DEF CleanupStep, Pass, process, Calm
<1>3. CASE Tick
  BY <1>0, <1>3 DEF Tick, tables, process, Calm
<1>4. CASE Restart
  BY <1>0, <1>4 DEF Restart, tables, Attempting, Calm
<1> QED
  BY <1>1, <1>2, <1>3, <1>4

\* Every step of the service is of one of the three kinds.
LEMMA KindOfStep ==
  ASSUME TypeInv, [Next]_vars
  PROVE  Calm \/ \E r \in Requests : Passes(r) \/ Fails(r)
  BY LoginLimiter, TokenLimiter, ReaderLimiter, OtherLimiter, AdminLimiter, IsLockedLimiter,
     CommonLimiter, WorldLimiter
  DEF Next, RequestStep, LimiterStep

\* No handler moves the clock, the configuration or the cleanup goroutine.
LEMMA RequestWorld ==
  ASSUME NEW r \in Requests, RequestStep(r)
  PROVE  UNCHANGED world
<1>1. CASE LoginStep(r) \/ AuthorizeStep(r) \/ UserinfoStep(r)
  BY <1>1 DEF LoginStep, LoginBegin, LoginFail, LoginReset, LoginCreate, AuthorizeStep,
              AuthorizeBegin, AuthorizeRevoke, AuthorizeIssue, AuthorizeTooOld, UserinfoStep,
              UserinfoBegin, UserinfoAnswer
<1>2. CASE TokenStep(r)
  BY <1>2 DEF TokenStep, TokenBegin, TokenFail, TokenReset, TokenGet, TokenUnknown,
              TokenDropExpired, TokenConsume, TokenRespond
<1>3. CASE SessionEndStep(r)
  BY <1>3 DEF SessionEndStep, LogoutBegin, LogoutRevoke, PanicBegin, PanicSubject, Validated
<1>4. CASE AdminConsoleStep(r)
  BY <1>4 DEF AdminConsoleStep, AdminLoginBegin, AdminFail, AdminReset, AdminCreate,
              LockChangeBegin, ApplyLockChange
<1>5. CASE EnrollmentStep(r)
  BY <1>5 DEF EnrollmentStep, EnrollmentBegin, CreateEnrollment, EnrollBegin,
              EnrollDropExpired, EnrollConsume, EnrollReveal
<1>6. CASE IsPanicked(r) \/ IsAdminLocked(r) \/ FoundLocked(r) \/ ExpiredSession(r)
           \/ DropExpiredSession(r) \/ RecordAudit(r) \/ Abort(r)
  BY <1>6 DEF IsPanicked, IsAdminLocked, FoundLocked, ExpiredSession, DropExpiredSession,
              RecordAudit, Abort
<1> QED
  BY <1>1, <1>2, <1>3, <1>4, <1>5, <1>6 DEF RequestStep

\* Only a deploy changes the settings and takes stock of the counters.
LEMMA SteadyOrDeploy ==
  ASSUME [Next]_vars
  PROVE  Steady \/ Restart
<1>1. ASSUME NEW r \in Requests, RequestStep(r)
      PROVE  Steady
  BY <1>1, RequestWorld DEF world, Steady
<1>2. CASE CleanupStep
  BY <1>2 DEF CleanupStep, Pass, CleanCounters, CleanTokens, CleanSessions, CleanAudit,
              CleanFail, world, Steady
<1>3. CASE AdminLogOut \/ Tick \/ UNCHANGED vars
  BY <1>3 DEF AdminLogOut, Tick, vars, world, Steady
<1> QED
  BY <1>1, <1>2, <1>3 DEF Next

-----------------------------------------------------------------------------
(* The window                                                               *)

\* The instant at which a failure is dated.
FailedAt(r) == IF pc[r] = "token.fail" THEN now ELSE req[r].at

\* A failure is never dated in the future.
LEMMA FailuresPassed ==
  ASSUME TypeInv, CounterInv, NEW r \in Requests, Fails(r)
  PROVE  FailedAt(r) \in Nat /\ FailedAt(r) <= now /\ now \in Nat
<1>1. now \in Nat /\ req[r].at \in Nat
  BY DEF TypeInv, WorldOK, ProcessOK, RequestState
<1>2. pc[r] # "token.fail" => req[r].at <= now
  BY DEF Fails, CounterInv, AttemptsOK, Attempting, AttemptOK
<1> QED
  BY <1>1, <1>2 DEF FailedAt

\* What the upsert leaves in the table.
LEMMA Upsert ==
  ASSUME TypeInv, KeysUnique, NEW r \in Requests, Fails(r), NEW d \in counters'
  PROVE  \/ d \in counters /\ d.key # req[r].key
         \/ /\ d = [key |-> req[r].key, attempts |-> 1,
                    resetAt |-> Format(FailedAt(r) + LimiterAt(pc[r]).window)]
            /\ \A c \in CounterOf(req[r].key) : c.resetAt <= Format(FailedAt(r))
         \/ \E c \in CounterOf(req[r].key) :
              /\ c.resetAt > Format(FailedAt(r))
              /\ d = [c EXCEPT !.attempts = @ + 1]
<1> DEFINE key == req[r].key
           t == FailedAt(r)
           open == {c \in CounterOf(key) : c.resetAt > Format(t)}
<1>1. counters' = (counters \ CounterOf(key)) \cup
        IF open = {}
        THEN {[key |-> key, attempts |-> 1, resetAt |-> Format(t + LimiterAt(pc[r]).window)]}
        ELSE {[c EXCEPT !.attempts = @ + 1] : c \in open}
  BY DEF Fails, RecordFailure, RecordRateLimitAttempt, FailedAt
<1>2. \A c \in counters : c.resetAt \in Nat
  BY DEF TypeInv, StoreTypeOK, CounterRow
<1>3. Format(t) \in Int
  BY SecondAssumption DEF Format, FailedAt, TypeInv, WorldOK, ProcessOK, RequestState
<1>4. CASE d \in counters \ CounterOf(key)
  BY <1>4 DEF CounterOf
<1>5. CASE open = {} /\ d \notin counters \ CounterOf(key)
  <2>1. d = [key |-> key, attempts |-> 1, resetAt |-> Format(t + LimiterAt(pc[r]).window)]
    BY <1>1, <1>5
  <2>2. \A c \in CounterOf(key) : c.resetAt <= Format(t)
    BY <1>2, <1>3, <1>5 DEF CounterOf
  <2> QED
    BY <2>1, <2>2
<1>6. CASE open # {} /\ d \notin counters \ CounterOf(key)
  BY <1>1, <1>6
<1> QED
  BY <1>4, <1>5, <1>6

\* Counting one more keeps the key and the end of a counter.
LEMMA CountedOnce ==
  ASSUME TypeInv, NEW c \in counters
  PROVE  LET d == [c EXCEPT !.attempts = @ + 1]
         IN  d.key = c.key /\ d.resetAt = c.resetAt /\ d.attempts = c.attempts + 1
  BY DEF TypeInv, StoreTypeOK, CounterRow

\* No step breaks CounterInv.
LEMMA CounterStep == TypeInv /\ CounterInv /\ [Next]_vars => CounterInv'
<1> SUFFICES ASSUME TypeInv, CounterInv, [Next]_vars PROVE CounterInv'
  OBVIOUS
<1>0. now \in Nat /\ \A q \in Requests : req[q].at \in Nat
  BY DEF TypeInv, WorldOK, ProcessOK, RequestState
<1>1. CASE Calm
  <2>1. ASSUME NEW q \in Requests, Attempting(pc'[q], req'[q])
        PROVE  AttemptOK(pc[q], req[q]) /\ LimiterOf(pc'[q]) = LimiterOf(pc[q])
               /\ req'[q] = req[q] /\ (pc'[q] # "token.fail" => pc[q] # "token.fail")
    BY <1>1, <2>1 DEF Calm, CounterInv, AttemptsOK, LimiterOf
  <2>2. AttemptsOK'
    BY <1>0, <1>1, <2>1 DEF Calm, AttemptsOK, AttemptOK
  <2> QED
    BY <1>1, <2>2 DEF Calm, CounterInv, KeysUnique
<1>2. ASSUME NEW r \in Requests, Passes(r)
      PROVE  CounterInv'
  BY <1>2 DEF Passes, Alone, CounterInv, AttemptsOK, AttemptOK, KeysUnique
<1>3. ASSUME NEW r \in Requests, Fails(r)
      PROVE  CounterInv'
  <2>1. AttemptsOK'
    BY <1>3 DEF Fails, Alone, CounterInv, AttemptsOK, AttemptOK, Attempting
  <2>2. ASSUME NEW d \in counters', NEW e \in counters', d.key = e.key
        PROVE  d = e
    <3>1. KeysUnique
      BY DEF CounterInv
    <3> DEFINE mine == CounterOf(req[r].key)
               ended == \A c \in mine : c.resetAt <= Format(FailedAt(r))
               fresh == [key |-> req[r].key, attempts |-> 1,
                         resetAt |-> Format(FailedAt(r) + LimiterAt(pc[r]).window)]
               counted(c) == [c EXCEPT !.attempts = @ + 1]
    <3>2. \A c \in mine : c \in counters /\ c.key = req[r].key /\ counted(c).key = req[r].key
      BY CountedOnce DEF CounterOf
    <3>3. \A b, c \in mine : b = c
      BY <3>1, <3>2 DEF KeysUnique
    <3>4. \A c \in mine : c.resetAt \in Nat /\ Format(FailedAt(r)) \in Nat
      BY <1>3, <3>2, FailuresPassed, FormatCuts DEF TypeInv, StoreTypeOK, CounterRow
    <3>5. \A x \in counters' :
            \/ x \in counters /\ x.key # req[r].key
            \/ x = fresh /\ ended
            \/ \E c \in mine : c.resetAt > Format(FailedAt(r)) /\ x = counted(c)
      BY <1>3, <3>1, Upsert
    <3>6. fresh.key = req[r].key
      OBVIOUS
    <3> HIDE DEF mine, fresh, counted
    <3>7. CASE d.key # req[r].key
      <4>1. d \in counters /\ e \in counters
        BY <2>2, <3>2, <3>5, <3>6, <3>7
      <4> QED
        BY <2>2, <3>1, <4>1 DEF KeysUnique
    <3>8. CASE d.key = req[r].key /\ ended
      <4>1. \A c \in mine : ~(c.resetAt > Format(FailedAt(r)))
        BY <3>4, <3>8
      <4>2. d = fresh /\ e = fresh
        BY <2>2, <3>5, <3>8, <4>1
      <4> QED
        BY <4>2
    <3>9. CASE d.key = req[r].key /\ ~ended
      <4>1. PICK b \in mine : d = counted(b)
        BY <3>5, <3>9
      <4>2. PICK c \in mine : e = counted(c)
        BY <2>2, <3>5, <3>9
      <4> QED
        BY <3>3, <4>1, <4>2
    <3> QED
      BY <3>7, <3>8, <3>9
  <2> QED
    BY <2>1, <2>2 DEF CounterInv, KeysUnique
<1> QED
  BY <1>1, <1>2, <1>3, KindOfStep

\* The action of WindowFixed.
KeepsWindows ==
  \A c \in counters, d \in counters' :
    c.key = d.key /\ now < c.resetAt => d.resetAt = c.resetAt /\ d.attempts >= c.attempts

\* A failure that is recorded while a window is open counts in that window,
\* because its instant has passed and the end of the window has not.
LEMMA WindowStep ==
  ASSUME TypeInv, CounterInv, [Next]_vars
  PROVE  KeepsWindows
<1> SUFFICES ASSUME NEW c \in counters, NEW d \in counters', c.key = d.key, now < c.resetAt
             PROVE  d.resetAt = c.resetAt /\ d.attempts >= c.attempts
  BY DEF KeepsWindows
<1>1. c.attempts \in Nat /\ c.resetAt \in Nat
  BY DEF TypeInv, StoreTypeOK, CounterRow
<1>2. CASE d \in counters
  BY <1>1, <1>2 DEF CounterInv, KeysUnique
<1>3. ASSUME NEW r \in Requests, Fails(r), d \notin counters
      PROVE  d.resetAt = c.resetAt /\ d.attempts >= c.attempts
  <2>1. Format(FailedAt(r)) < c.resetAt
    BY <1>1, <1>3, FailuresPassed, FormatCuts
  <2>2. \/ /\ d.key = req[r].key
           /\ \A b \in CounterOf(req[r].key) : b.resetAt <= Format(FailedAt(r))
        \/ \E b \in CounterOf(req[r].key) : d = [b EXCEPT !.attempts = @ + 1]
    BY <1>3, Upsert DEF CounterInv
  <2>3. PICK b \in CounterOf(req[r].key) : d = [b EXCEPT !.attempts = @ + 1]
    <3>1. Format(FailedAt(r)) \in Nat
      BY <1>3, FailuresPassed, FormatCuts
    <3> QED
      BY <1>1, <2>1, <2>2, <3>1 DEF CounterOf
  <2>4. b \in counters /\ d.key = b.key /\ d.resetAt = b.resetAt /\ d.attempts = b.attempts + 1
    BY <2>3, CountedOnce DEF CounterOf
  <2>5. b = c
    BY <2>4 DEF CounterInv, KeysUnique
  <2> QED
    BY <1>1, <2>4, <2>5
<1>4. (Calm \/ \E r \in Requests : Passes(r)) => d \in counters
  BY DEF Calm, Passes
<1> QED
  BY <1>2, <1>3, <1>4, KindOfStep

LEMMA CounterInvariant == Spec => []CounterInv
<1>1. Init => CounterInv
  BY DEF Init, StoreInit, ServerInit, CounterInv, AttemptsOK, Attempting, KeysUnique
<1> QED
  BY <1>1, CounterStep, TypeInvariant, PTL DEF Spec

\* WindowFixed: an open window is neither extended nor restarted and its count
\* never falls, for any number of concurrent failures, however late each of
\* them is recorded (ratelimit/limiter.go RecordFailure and the upsert).
THEOREM WindowsStayFixed == Spec => WindowFixed
<1>1. TypeInv /\ CounterInv /\ [Next]_vars => KeepsWindows
  BY WindowStep
<1>2. KeepsWindows =>
        \A c \in counters, d \in counters' :
          c.key = d.key /\ now < c.resetAt => d.resetAt = c.resetAt /\ d.attempts >= c.attempts
  BY DEF KeepsWindows
<1> QED
  BY <1>1, <1>2, CounterInvariant, TypeInvariant, PTL DEF Spec, WindowFixed

-----------------------------------------------------------------------------
(* The lockout                                                              *)

\* What a statement of request r may do to the counters: nothing, count a
\* failure, or forget the failures of its key after a success.
LEMMA RequestCounters ==
  ASSUME NEW r \in Requests, RequestStep(r)
  PROVE  \/ UNCHANGED counters
         \/ \E resetAt, t : RecordRateLimitAttempt(req[r].key, resetAt, t)
         \/ /\ pc[r] \in {"login.reset", "admin.reset", "token.reset"}
            /\ Reset(req[r].key)
<1>1. CASE LoginStep(r)
  BY <1>1 DEF LoginStep, LoginBegin, LoginFail, LoginReset, LoginCreate, RecordFailure, At,
              tables
<1>2. CASE AuthorizeStep(r) \/ UserinfoStep(r)
  BY <1>2 DEF AuthorizeStep, AuthorizeBegin, AuthorizeRevoke, AuthorizeIssue, AuthorizeTooOld,
              UserinfoStep, UserinfoBegin, UserinfoAnswer, tables
<1>3. CASE TokenStep(r)
  BY <1>3 DEF TokenStep, TokenBegin, TokenFail, TokenReset, TokenGet, TokenUnknown,
              TokenDropExpired, TokenConsume, TokenRespond, RecordFailure, At, tables
<1>4. CASE SessionEndStep(r)
  BY <1>4 DEF SessionEndStep, LogoutBegin, LogoutRevoke, PanicBegin, PanicSubject, Validated,
              tables
<1>5. CASE AdminConsoleStep(r)
  BY <1>5 DEF AdminConsoleStep, AdminLoginBegin, AdminFail, AdminReset, AdminCreate,
              LockChangeBegin, ApplyLockChange, RecordFailure, At, tables
<1>6. CASE EnrollmentStep(r)
  BY <1>6 DEF EnrollmentStep, EnrollmentBegin, CreateEnrollment, EnrollBegin,
              EnrollDropExpired, EnrollConsume, EnrollReveal, tables
<1>7. CASE IsPanicked(r) \/ IsAdminLocked(r) \/ FoundLocked(r) \/ ExpiredSession(r)
           \/ DropExpiredSession(r) \/ RecordAudit(r) \/ Abort(r)
  BY <1>7 DEF IsPanicked, IsAdminLocked, FoundLocked, ExpiredSession, DropExpiredSession,
              RecordAudit, Abort, tables
<1> QED
  BY <1>1, <1>2, <1>3, <1>4, <1>5, <1>6, <1>7 DEF RequestStep

\* The action of LockoutLiftedOnlyBySuccess, for any counter and any count.
OnlySuccessLifts ==
  \A c \in counters :
    now < c.resetAt /\ CounterOf(c.key)' = {} =>
      \/ StateLost
      \/ \E r \in Requests : /\ pc[r] \in {"login.reset", "admin.reset", "token.reset"}
                             /\ req[r].key = c.key

\* A row of an open window is in no purge's way, whatever instant the pass
\* began at, and the upsert leaves a row.
LEMMA LockoutStep ==
  ASSUME TypeInv, [Next]_vars
  PROVE  OnlySuccessLifts
<1> SUFFICES ASSUME NEW c \in counters, now < c.resetAt, CounterOf(c.key)' = {}, ~StateLost
             PROVE  \E r \in Requests : /\ pc[r] \in {"login.reset", "admin.reset", "token.reset"}
                                        /\ req[r].key = c.key
  BY DEF OnlySuccessLifts
<1>0. c \notin counters'
  BY DEF CounterOf
<1>1. ASSUME NEW r \in Requests, RequestStep(r)
      PROVE  /\ pc[r] \in {"login.reset", "admin.reset", "token.reset"}
             /\ req[r].key = c.key
  <2>1. ASSUME NEW resetAt, NEW t, RecordRateLimitAttempt(req[r].key, resetAt, t)
        PROVE  FALSE
    <3> DEFINE key == req[r].key
               open == {b \in CounterOf(key) : b.resetAt > t}
    <3>1. CASE c.key # key
      BY <1>0, <2>1, <3>1 DEF RecordRateLimitAttempt, CounterOf
    <3>2. CASE c.key = key /\ open = {}
      <4>1. [key |-> key, attempts |-> 1, resetAt |-> resetAt] \in counters'
        BY <2>1, <3>2 DEF RecordRateLimitAttempt
      <4> QED
        BY <3>2, <4>1 DEF CounterOf
    <3>3. CASE c.key = key /\ open # {}
      <4>1. PICK b \in open : TRUE
        BY <3>3
      <4>2. [b EXCEPT !.attempts = @ + 1] \in counters'
        BY <2>1, <3>3 DEF RecordRateLimitAttempt
      <4>3. b \in counters /\ b.key = key
        BY <4>1 DEF CounterOf
      <4>4. [b EXCEPT !.attempts = @ + 1].key = key
        BY <4>3, CountedOnce
      <4> QED
        BY <3>3, <4>2, <4>4 DEF CounterOf
    <3> QED
      BY <3>1, <3>2, <3>3
  <2>2. UNCHANGED counters => FALSE
    BY <1>0
  <2>3. Reset(req[r].key) => req[r].key = c.key
    BY <1>0 DEF Reset, DeleteRateLimitCounter, CounterOf
  <2> QED
    BY <1>1, <2>1, <2>2, <2>3, RequestCounters
<1>2. ~(AdminLogOut \/ Tick \/ UNCHANGED vars)
  BY <1>0 DEF AdminLogOut, Tick, vars, tables
<1>3. ~CleanupStep
  <2>1. now \in Nat /\ c.resetAt \in Nat
    BY DEF TypeInv, WorldOK, StoreTypeOK, CounterRow
  <2>2. Format(now) \in Nat /\ Format(now) <= now
    BY <2>1, FormatCuts
  <2>3. DeleteExpiredRateLimitCounters(now) => c \in counters'
    BY <2>1, <2>2 DEF DeleteExpiredRateLimitCounters
  <2> QED
    BY <1>0, <2>3 DEF CleanupStep, Pass, CleanCounters, CleanTokens, CleanSessions, CleanAudit,
                      CleanFail, tables
<1>4. ~Restart
  BY <1>0 DEF Restart, StateLost, tables
<1> QED
  BY <1>1, <1>2, <1>3, <1>4 DEF Next

\* The action of LockoutLiftedOnlyBySuccess.
LiftedForCause ==
  \A l \in {"user", "client"}, key \in LimitKeys :
    LockedOut(l, key) /\ ~LockedOut(l, key)' =>
      \/ StateLost
      \/ \A c \in CounterOf(key) : now' >= c.resetAt
      \/ limits'[l].max > limits[l].max
      \/ \E r \in Requests : /\ pc[r] \in {"login.reset", "admin.reset", "token.reset"}
                             /\ req[r].key = key

\* The row that locks a key out stays, and keeps its window and its count, so
\* only the clock or a larger budget can make Allow answer otherwise.
LEMMA LiftStep ==
  ASSUME TypeInv, CounterInv, [Next]_vars
  PROVE  LiftedForCause
<1> SUFFICES ASSUME NEW l \in {"user", "client"}, NEW key \in LimitKeys,
                    LockedOut(l, key), ~LockedOut(l, key)', ~StateLost,
                    ~ \E r \in Requests :
                        /\ pc[r] \in {"login.reset", "admin.reset", "token.reset"}
                        /\ req[r].key = key
             PROVE  \/ \A c \in CounterOf(key) : now' >= c.resetAt
                    \/ limits'[l].max > limits[l].max
  BY DEF LiftedForCause
<1>1. /\ now \in Nat /\ limits[l].max \in Nat
      /\ \A c \in counters : c.attempts \in Nat /\ c.resetAt \in Nat
  BY DEF TypeInv, WorldOK, LimitConfig, Limit, StoreTypeOK, CounterRow
<1>2. /\ now' \in Nat /\ limits'[l].max \in Nat
      /\ \A d \in counters' : d.attempts \in Nat /\ d.resetAt \in Nat
  BY TypeStep DEF TypeInv, WorldOK, LimitConfig, Limit, StoreTypeOK, CounterRow
<1>3. PICK c \in counters : c.key = key /\ now < c.resetAt /\ c.attempts >= limits[l].max
  BY <1>1 DEF LockedOut, Allow, CounterOf
<1>4. PICK d \in counters' : d.key = key
  BY <1>3, LockoutStep DEF OnlySuccessLifts, CounterOf
<1>5. d.resetAt = c.resetAt /\ d.attempts >= c.attempts
  BY <1>3, <1>4, WindowStep DEF KeepsWindows
<1>6. now' >= d.resetAt \/ d.attempts < limits'[l].max
  BY <1>4 DEF LockedOut, Allow, CounterOf
<1>7. CounterOf(key) = {c}
  BY <1>3 DEF CounterOf, CounterInv, KeysUnique
<1> QED
  BY <1>1, <1>2, <1>3, <1>4, <1>5, <1>6, <1>7

\* LockoutLiftedOnlyBySuccess: a lockout in force ends before its time only with
\* the state file, with a larger budget, or because an attempt for that very key
\* succeeded, whatever purges, other deploys and other keys do
\* (ratelimit/limiter.go, cleanup/cleaner.go).
THEOREM LockoutsAreServed == Spec => LockoutLiftedOnlyBySuccess
<1>1. TypeInv /\ CounterInv /\ [Next]_vars => LiftedForCause
  BY LiftStep
<1> QED
  BY <1>1, CounterInvariant, TypeInvariant, PTL
  DEF Spec, LockoutLiftedOnlyBySuccess, LiftedForCause

-----------------------------------------------------------------------------
(* The budget                                                               *)

\* The requests that can still fail in one window are some of the requests,
\* and so never more; without one of them they are one fewer.
LEMMA SomeOfTheRequests ==
  ASSUME NEW S \in SUBSET Requests
  PROVE  /\ IsFiniteSet(S) /\ Cardinality(S) \in Nat
         /\ Cardinality(S) <= Cardinality(Requests)
         /\ \A T \in SUBSET S : Cardinality(T) \in Nat /\ Cardinality(T) <= Cardinality(S)
         /\ \A r \in S : \A T \in SUBSET (S \ {r}) :
              Cardinality(T) \in Nat /\ Cardinality(T) <= Cardinality(S) - 1
         /\ Cardinality(Requests) \in Nat
<1>1. IsFiniteSet(S) /\ Cardinality(S) <= Cardinality(Requests)
  BY FS_Subset, RequestsAssumption
<1>2. Cardinality(S) \in Nat /\ Cardinality(Requests) \in Nat
  BY <1>1, FS_CardinalityType, RequestsAssumption
<1>3. ASSUME NEW T \in SUBSET S
      PROVE  Cardinality(T) \in Nat /\ Cardinality(T) <= Cardinality(S)
  BY <1>1, FS_Subset, FS_CardinalityType
<1>4. ASSUME NEW r \in S, NEW T \in SUBSET (S \ {r})
      PROVE  Cardinality(T) \in Nat /\ Cardinality(T) <= Cardinality(S) - 1
  <2>1. IsFiniteSet(S \ {r}) /\ Cardinality(S \ {r}) = Cardinality(S) - 1
    BY <1>1, FS_RemoveElement
  <2>2. IsFiniteSet(T) /\ Cardinality(T) <= Cardinality(S \ {r})
    BY <2>1, FS_Subset
  <2> QED
    BY <2>1, <2>2, FS_CardinalityType
<1> QED
  BY <1>1, <1>2, <1>3, <1>4

\* The limiter of a stage counts the key the request carries.
LEMMA LimiterOfKey ==
  ASSUME NEW stage, NEW q, AttemptOK(stage, q)
  PROVE  LimiterOf(stage) \in LimitersOf(q.key)
  BY DEF AttemptOK, LimitersOf, LimiterOf

\* The settings.
LEMMA LimitsPositive ==
  ASSUME TypeInv
  PROVE  \A key : \A l \in LimitersOf(key) :
           limits[l].max \in Nat \ {0} /\ limits[l].window \in Nat \ {0}
  BY DEF TypeInv, WorldOK, LimitersOf, LimitConfig, Limit

\* The instants and counts of a row.
LEMMA CounterTypes ==
  ASSUME TypeInv
  PROVE  /\ now \in Nat /\ \A r \in Requests : req[r].at \in Nat
         /\ \A c \in counters : c.attempts \in Nat /\ c.resetAt \in Nat
         /\ \A c : \A i \in Inherited(c) : i.attempts \in Nat
  BY DEF TypeInv, WorldOK, ProcessOK, RequestState, StoreTypeOK, CounterRow, Inherited

\* LockoutEnds and AttemptsBound for one row.
Ends(c) ==
  \/ \E l \in LimitersOf(c.key) : c.resetAt <= Format(now + limits[l].window)
  \/ Inherited(c) # {}

\* What the row may come to count.
Most(c) == c.attempts + Cardinality(MayStillFail(c))

Within(c) ==
  \/ \E l \in LimitersOf(c.key) : Most(c) <= limits[l].max - 1 + Cardinality(Requests)
  \/ \E i \in Inherited(c) : Most(c) <= i.attempts

RowOK(c) == Format(c.resetAt) = c.resetAt /\ Ends(c) /\ Within(c)

LEMMA BudgetRows ==
  /\ BudgetInv <=> \A c \in counters : RowOK(c)
  /\ BudgetInv' <=> \A c \in counters' : RowOK(c)'
  BY DEF BudgetInv, EndsWhole, LockoutEnds, AttemptsBound, RowOK, Ends, Within, Most

\* Time only brings the end of a window nearer.
LEMMA StillEnds ==
  ASSUME TypeInv, Steady, NEW c, NEW d, Ends(c), d.key = c.key, d.resetAt = c.resetAt,
         c.resetAt \in Nat, now' \in Nat, now <= now'
  PROVE  Ends(d)'
<1>1. CASE Inherited(c) # {}
  BY <1>1 DEF Ends, Inherited, Steady
<1>2. ASSUME NEW l \in LimitersOf(c.key), c.resetAt <= Format(now + limits[l].window)
      PROVE  Ends(d)'
  <2>1. limits[l].window \in Nat /\ now \in Nat
    BY LimitsPositive, CounterTypes
  <2>2. /\ now + limits[l].window \in Nat /\ now' + limits[l].window \in Nat
        /\ now + limits[l].window <= now' + limits[l].window
    BY <2>1
  <2>3. /\ Format(now + limits[l].window) <= Format(now' + limits[l].window)
        /\ Format(now + limits[l].window) \in Nat
        /\ Format(now' + limits[l].window) \in Nat
    BY <2>2, FormatMonotone, FormatCuts
  <2>4. d.resetAt <= Format(now' + limits[l].window)
    BY <1>2, <2>3
  <2>5. l \in LimitersOf(d.key)' /\ limits'[l] = limits[l]
    BY DEF LimitersOf, Steady
  <2> QED
    BY <2>4, <2>5 DEF Ends, Format
<1> QED
  BY <1>1, <1>2 DEF Ends

\* A step after which a row may come to count no more than before.
LEMMA StillWithin ==
  ASSUME TypeInv, Steady, NEW c, NEW d, Within(c), d.key = c.key, d.resetAt = c.resetAt,
         Most(c) \in Nat, Most(d)' \in Nat, Most(d)' <= Most(c)
  PROVE  Within(d)'
<1>1. ASSUME NEW i \in Inherited(c), Most(c) <= i.attempts
      PROVE  Within(d)'
  <2>1. i \in Inherited(d)' /\ i.attempts \in Nat
    BY CounterTypes DEF Inherited, Steady
  <2>2. Most(d)' <= i.attempts
    BY <1>1, <2>1
  <2> QED
    BY <2>1, <2>2 DEF Within
<1>2. ASSUME NEW l \in LimitersOf(c.key), Most(c) <= limits[l].max - 1 + Cardinality(Requests)
      PROVE  Within(d)'
  <2>1. limits[l].max \in Nat /\ Cardinality(Requests) \in Nat
    BY LimitsPositive, FS_CardinalityType, RequestsAssumption
  <2>2. Most(d)' <= limits[l].max - 1 + Cardinality(Requests)
    BY <1>2, <2>1
  <2>3. l \in LimitersOf(d.key)' /\ limits'[l] = limits[l]
    BY DEF LimitersOf, Steady
  <2> QED
    BY <2>2, <2>3 DEF Within
<1> QED
  BY <1>1, <1>2 DEF Within

\* A row that stays, with no new request that can fail in its window.
LEMMA StillOK ==
  ASSUME TypeInv, Steady, NEW c \in counters, RowOK(c), now' \in Nat, now <= now',
         MayStillFail(c)' \subseteq MayStillFail(c)
  PROVE  RowOK(c)'
<1>1. c.attempts \in Nat /\ c.resetAt \in Nat
  BY CounterTypes
<1>2. /\ Cardinality(MayStillFail(c)') \in Nat /\ Cardinality(MayStillFail(c)) \in Nat
      /\ Cardinality(MayStillFail(c)') <= Cardinality(MayStillFail(c))
  <2>1. MayStillFail(c) \in SUBSET Requests
    BY DEF MayStillFail
  <2> QED
    BY <2>1, SomeOfTheRequests
<1>3. Most(c) \in Nat /\ Most(c)' \in Nat /\ Most(c)' <= Most(c)
  BY <1>1, <1>2 DEF Most
<1>4. Within(c)'
  BY <1>3, StillWithin DEF RowOK
<1>5. Ends(c)'
  BY <1>1, StillEnds DEF RowOK
<1> QED
  BY <1>4, <1>5 DEF RowOK, Format

\* Nobody who was not past Allow already can fail after a calm step.
LEMMA CalmBudget ==
  ASSUME TypeInv, BudgetInv, Calm, Steady
  PROVE  BudgetInv'
<1>1. ASSUME NEW c \in counters'
      PROVE  RowOK(c)'
  <2>1. c \in counters /\ RowOK(c) /\ now' \in Nat /\ now <= now'
    BY BudgetRows DEF Calm
  <2>2. ASSUME NEW q \in MayStillFail(c)'
        PROVE  q \in MayStillFail(c)
    <3>1. q \in Requests /\ Attempting(pc'[q], req'[q])
      BY DEF MayStillFail, Attempting
    <3>2. /\ Attempting(pc[q], req[q]) /\ req'[q] = req[q]
          /\ (pc'[q] = "token.fail") <=> (pc[q] = "token.fail")
      BY <3>1 DEF Calm
    <3>3. now \in Nat /\ c.resetAt \in Nat
      BY <2>1, CounterTypes
    <3> QED
      BY <2>1, <3>1, <3>2, <3>3 DEF MayStillFail, Attempting
  <2> QED
    BY <2>1, <2>2, StillOK
<1> QED
  BY <1>1, BudgetRows

\* A deploy finds the rows it leaves, and no request survives it.
LEMMA DeployBudget ==
  ASSUME TypeInv, BudgetInv, Restart
  PROVE  BudgetInv'
<1>1. ASSUME NEW c \in counters'
      PROVE  RowOK(c)'
  <2>1. c \in counters /\ c \in Inherited(c)'
    BY DEF Restart, tables, Inherited
  <2>2. MayStillFail(c)' = {}
    BY DEF Restart, MayStillFail
  <2>3. Cardinality(MayStillFail(c)') = 0 /\ c.attempts \in Nat
    BY <2>1, <2>2, FS_EmptySet, CounterTypes
  <2>4. Most(c)' <= c.attempts
    BY <2>3 DEF Most
  <2>5. Within(c)' /\ Ends(c)'
    BY <2>1, <2>4 DEF Within, Ends
  <2>6. Format(c.resetAt) = c.resetAt
    BY <2>1, BudgetRows DEF RowOK
  <2> QED
    BY <2>5, <2>6 DEF RowOK, Format
<1> QED
  BY <1>1, BudgetRows

\* The others can still fail where they could.
LEMMA OthersBudget ==
  ASSUME TypeInv, NEW r \in Requests, Alone(r), NEW c,
         r \notin MayStillFail(c)'
  PROVE  MayStillFail(c)' \subseteq MayStillFail(c)
  BY DEF MayStillFail, Alone

\* Whoever passes Allow finds its budget unspent, or the window over.
LEMMA PassesBudget ==
  ASSUME TypeInv, BudgetInv, Steady, NEW r \in Requests, Passes(r)
  PROVE  BudgetInv'
<1>1. ASSUME NEW c \in counters'
      PROVE  RowOK(c)'
  <2>1. c \in counters /\ RowOK(c) /\ now' = now /\ now \in Nat /\ now <= now'
    BY BudgetRows, CounterTypes DEF Passes, Alone
  <2>2. CASE r \notin MayStillFail(c)'
    BY <2>1, <2>2, OthersBudget, StillOK DEF Passes
  <2>3. CASE r \in MayStillFail(c)'
    <3> DEFINE l == LimiterOf(pc'[r])
    <3>1. req'[r].key = c.key /\ c \in CounterOf(c.key)
      BY <2>1, <2>3 DEF MayStillFail, CounterOf
    <3>2. now < c.resetAt
      BY <2>1, <2>3 DEF MayStillFail, Passes
    <3>3. l \in LimitersOf(c.key) /\ LimiterAt(pc'[r]) = limits[l]
      BY <3>1, LimiterOfKey DEF Passes, LimiterAt
    <3> HIDE DEF l
    <3>4. c.attempts \in Nat /\ c.resetAt \in Nat /\ limits[l].max \in Nat
      BY <2>1, <3>3, CounterTypes, LimitsPositive
    <3>5. now >= c.resetAt \/ c.attempts < limits[l].max
      BY <3>1, <3>3 DEF Passes, Allow
    <3>6. c.attempts <= limits[l].max - 1
      BY <2>1, <3>2, <3>4, <3>5
    <3>7. /\ Cardinality(MayStillFail(c)') \in Nat /\ Cardinality(Requests) \in Nat
          /\ Cardinality(MayStillFail(c)') <= Cardinality(Requests)
      <4>1. MayStillFail(c)' \in SUBSET Requests
        BY DEF MayStillFail
      <4> QED
        BY <4>1, SomeOfTheRequests
    <3>8. Most(c)' <= limits[l].max - 1 + Cardinality(Requests)
      BY <3>4, <3>6, <3>7 DEF Most
    <3>9. limits'[l] = limits[l] /\ l \in LimitersOf(c.key)'
      BY <3>3 DEF Steady, LimitersOf
    <3>10. Within(c)'
      BY <3>8, <3>9 DEF Within
    <3>11. Ends(c)'
      BY <2>1, <3>4, StillEnds DEF RowOK
    <3> QED
      BY <2>1, <3>10, <3>11 DEF RowOK, Format
  <2> QED
    BY <2>2, <2>3
<1> QED
  BY <1>1, BudgetRows

\* Whoever records a failure in an open window was one of those who could, and
\* whoever opens a window is no longer.
LEMMA FailsBudget ==
  ASSUME TypeInv, CounterInv, BudgetInv, Steady, NEW r \in Requests, Fails(r)
  PROVE  BudgetInv'
<1> DEFINE t == FailedAt(r)
           key == req[r].key
           l == LimiterOf(pc[r])
<1>1. t \in Nat /\ t <= now /\ now \in Nat /\ Format(t) \in Nat /\ now' = now
  BY FailuresPassed, FormatCuts DEF Fails, Alone
<1>2. l \in LimitersOf(key) /\ LimiterAt(pc[r]) = limits[l]
  <2>1. AttemptOK(pc[r], req[r])
    BY DEF Fails, CounterInv, AttemptsOK, Attempting
  <2> QED
    BY <2>1, LimiterOfKey DEF LimiterAt
<1> HIDE DEF l
<1>3. limits[l].max \in Nat \ {0} /\ limits[l].window \in Nat
  BY <1>2, LimitsPositive
<1>4. \A c : r \notin MayStillFail(c)'
  BY DEF MayStillFail, Fails
<1>5. ASSUME NEW d \in counters'
      PROVE  RowOK(d)'
  <2>1. CASE d \in counters /\ d.key # key
    BY <1>1, <1>4, <2>1, OthersBudget, StillOK, BudgetRows DEF Fails
  <2>2. CASE d = [key |-> key, attempts |-> 1,
                  resetAt |-> Format(t + LimiterAt(pc[r]).window)]
    <3>1. d.key = key /\ d.attempts = 1 /\ d.resetAt = Format(t + limits[l].window)
      BY <1>2, <2>2
    <3>2. /\ t + limits[l].window \in Nat /\ now + limits[l].window \in Nat
          /\ t + limits[l].window <= now + limits[l].window
      BY <1>1, <1>3
    <3>3. Format(d.resetAt) = d.resetAt /\ d.resetAt <= Format(now + limits[l].window)
      BY <3>1, <3>2, FormatCuts, FormatMonotone
    <3>4. /\ Cardinality(MayStillFail(d)') \in Nat /\ Cardinality(Requests) \in Nat
          /\ Cardinality(MayStillFail(d)') <= Cardinality(Requests) - 1
      <4>1. MayStillFail(d)' \in SUBSET (Requests \ {r})
        BY <1>4 DEF MayStillFail
      <4> QED
        BY <4>1, SomeOfTheRequests
    <3>5. Most(d)' <= limits[l].max - 1 + Cardinality(Requests)
      BY <1>3, <3>1, <3>4 DEF Most
    <3>6. limits'[l] = limits[l] /\ l \in LimitersOf(d.key)'
      BY <1>2, <3>1 DEF Steady, LimitersOf
    <3>7. Within(d)'
      BY <3>5, <3>6 DEF Within
    <3>8. Ends(d)'
      BY <1>1, <3>3, <3>6 DEF Ends, Format
    <3> QED
      BY <3>3, <3>7, <3>8 DEF RowOK, Format
  <2>3. ASSUME NEW c \in CounterOf(key), c.resetAt > Format(t),
               d = [c EXCEPT !.attempts = @ + 1]
        PROVE  RowOK(d)'
    <3>1. c \in counters /\ c.key = key /\ RowOK(c)
      BY BudgetRows DEF CounterOf
    <3>2. c.attempts \in Nat /\ c.resetAt \in Nat
      BY <3>1, CounterTypes
    <3>3. d.key = key /\ d.resetAt = c.resetAt /\ d.attempts = c.attempts + 1
      BY <2>3, <3>1, CountedOnce
    <3>4. t < c.resetAt
      <4>1. c.resetAt <= t => Format(c.resetAt) <= Format(t)
        BY <1>1, <3>2, FormatMonotone
      <4> QED
        BY <1>1, <2>3, <3>1, <3>2, <4>1 DEF RowOK
    <3>5. r \in MayStillFail(c)
      BY <3>1, <3>4 DEF MayStillFail, FailedAt, Fails
    <3>6. MayStillFail(d)' \subseteq MayStillFail(c) \ {r}
      <4>1. MayStillFail(d)' \subseteq MayStillFail(d)
        BY <1>4, OthersBudget DEF Fails
      <4>2. MayStillFail(d) = MayStillFail(c)
        BY <3>1, <3>3 DEF MayStillFail
      <4> QED
        BY <1>4, <4>1, <4>2
    <3>7. /\ Cardinality(MayStillFail(c)) \in Nat /\ Cardinality(MayStillFail(d)') \in Nat
          /\ Cardinality(MayStillFail(d)') <= Cardinality(MayStillFail(c)) - 1
      <4>1. MayStillFail(c) \in SUBSET Requests
        BY DEF MayStillFail
      <4> QED
        BY <3>5, <3>6, <4>1, SomeOfTheRequests
    <3>8. Most(c) \in Nat /\ Most(d)' \in Nat /\ Most(d)' <= Most(c)
      BY <3>2, <3>3, <3>7 DEF Most
    <3>9. Within(d)'
      BY <3>1, <3>3, <3>8, StillWithin DEF RowOK
    <3>10. Ends(d)'
      BY <1>1, <3>1, <3>2, <3>3, StillEnds DEF RowOK
    <3> QED
      BY <3>1, <3>3, <3>9, <3>10 DEF RowOK, Format
  <2> QED
    BY <2>1, <2>2, <2>3, Upsert DEF CounterInv
<1> QED
  BY <1>5, BudgetRows

LEMMA BudgetStep == TypeInv /\ CounterInv /\ BudgetInv /\ [Next]_vars => BudgetInv'
  BY CalmBudget, PassesBudget, FailsBudget, DeployBudget, KindOfStep, SteadyOrDeploy

LEMMA BudgetInvariant == Spec => []BudgetInv
<1>1. Init => BudgetInv
  BY DEF Init, StoreInit, BudgetInv, EndsWhole, LockoutEnds, AttemptsBound
<1> QED
  BY <1>1, BudgetStep, CounterInvariant, TypeInvariant, PTL DEF Spec

\* AttemptsBound: concurrent requests overshoot the budget of a limiter that
\* counts their key by no more than the requests in flight, and a window that a
\* deploy found fuller than that is not filled any further, for any number of
\* requests, any settings and any names people type (ratelimit/limiter.go).
THEOREM BudgetsHold == Spec => []AttemptsBound
<1>1. BudgetInv => AttemptsBound
  BY DEF BudgetInv
<1> QED
  BY <1>1, BudgetInvariant, PTL

\* LockoutEnds: a counter is in force for no longer than one window from now of
\* a limiter that counts its key, or to the end at which a deploy found it,
\* whenever the failures it counts are recorded (limiter.go RecordFailure).
THEOREM LockoutsEnd == Spec => []LockoutEnds
<1>1. BudgetInv => LockoutEnds
  BY DEF BudgetInv
<1> QED
  BY <1>1, BudgetInvariant, PTL

-----------------------------------------------------------------------------
(* The purges                                                               *)

\* The instant of a pass has passed, and it reaches the audit records only when
\* there is a retention.
PassBegan ==
  /\ cleaner.at <= now
  /\ cleaner.purge = "audit" => AuditRetention > 0

LEMMA PassBeganInvariant == Spec => []PassBegan
<1>1. Init => PassBegan
  BY DEF Init, ServerInit, PassBegan
<1>2. TypeInv /\ PassBegan /\ [Next]_vars => PassBegan'
  <2> SUFFICES ASSUME TypeInv, PassBegan, [Next]_vars PROVE PassBegan'
    OBVIOUS
  <2>1. now \in Nat /\ cleaner.at \in Nat /\ cleaner \in Cleaner
    BY DEF TypeInv, WorldOK, Cleaner
  <2>2. ASSUME NEW r \in Requests, RequestStep(r)
        PROVE  UNCHANGED world
    BY <2>2, RequestWorld
  <2>3. CASE CleanupStep
    BY <2>1, <2>3 DEF CleanupStep, Pass, CleanCounters, CleanTokens, CleanSessions, CleanAudit,
                      CleanFail, Purge, Cleaner, PassBegan
  <2>4. CASE AdminLogOut \/ Tick \/ Restart \/ UNCHANGED vars
    BY <2>1, <2>4 DEF AdminLogOut, Tick, Restart, vars, world, PassBegan
  <2> QED
    BY <2>2, <2>3, <2>4 DEF Next, world, PassBegan
<1> QED
  BY <1>1, <1>2, TypeInvariant, PTL DEF Spec

\* The action of PurgesOnlyDeadRows.
OnlyDead ==
  cleaner' # cleaner /\ ~StateLost =>
    /\ \A s \in sessions \ sessions' : now >= s.expiresAt
    /\ \A t \in tokens \ tokens' : now >= t.expiresAt
    /\ \A c \in counters \ counters' : now >= c.resetAt
    /\ \A a \in audit \ audit' : AuditRetention > 0 /\ a.at + AuditRetention <= now
    /\ UNCHANGED lockTables

\* What each purge deletes is past at the instant of the pass, cut to a second,
\* and so all the more now.
LEMMA PurgeStep ==
  ASSUME TypeInv, PassBegan, [Next]_vars
  PROVE  OnlyDead
<1>1. now \in Nat /\ cleaner.at \in Nat /\ cleaner.at <= now
  BY DEF TypeInv, WorldOK, Cleaner, PassBegan
<1>2. /\ Format(now) \in Nat /\ Format(now) <= now
      /\ Format(cleaner.at) \in Nat /\ Format(cleaner.at) <= now
  BY <1>1, FormatCuts
<1>3. CASE CleanupStep
  <2>1. CASE CleanCounters
    <3>1. \A c \in counters \ counters' : now >= c.resetAt
      BY <1>1, <1>2, <2>1 DEF CleanCounters, DeleteExpiredRateLimitCounters, TypeInv,
                              StoreTypeOK, CounterRow
    <3> QED
      BY <2>1, <3>1 DEF CleanCounters, OnlyDead
  <2>2. CASE CleanTokens
    <3>1. \A t \in tokens \ tokens' : now >= t.expiresAt
      BY <1>1, <1>2, <2>2 DEF CleanTokens, DeleteExpiredOneUseTokens, TypeInv, StoreTypeOK,
                              TokenRow
    <3> QED
      BY <2>2, <3>1 DEF CleanTokens, OnlyDead
  <2>3. CASE CleanSessions
    <3>1. \A s \in sessions \ sessions' : now >= s.expiresAt
      BY <1>1, <1>2, <2>3 DEF CleanSessions, DeleteExpiredSessions, TypeInv, StoreTypeOK,
                              UserSessionRow, AdminSessionRow
    <3> QED
      BY <2>3, <3>1 DEF CleanSessions, OnlyDead
  <2>4. CASE CleanAudit
    <3>1. CASE cleaner.at < AuditRetention
      BY <1>1, <2>4, <3>1, CleanupAssumption DEF CleanAudit, OnlyDead
    <3>2. CASE cleaner.at >= AuditRetention
      <4>1. cleaner.at - AuditRetention \in Nat
        BY <1>1, <3>2, CleanupAssumption
      <4>2. /\ Format(cleaner.at - AuditRetention) \in Nat
            /\ Format(cleaner.at - AuditRetention) <= cleaner.at - AuditRetention
        BY <4>1, FormatCuts
      <4>3. AuditRetention > 0
        BY <2>4 DEF CleanAudit, PassBegan
      <4>4. \A a \in audit \ audit' : a.at <= Format(cleaner.at - AuditRetention)
        BY <2>4, <3>2, <4>2 DEF CleanAudit, DeleteAuditRecordsBefore, TypeInv, StoreTypeOK,
                                AuditRow
      <4>5. \A a \in audit \ audit' : a.at + AuditRetention <= now
        BY <1>1, <4>2, <4>4, CleanupAssumption DEF TypeInv, StoreTypeOK, AuditRow
      <4> QED
        BY <2>4, <4>3, <4>5 DEF CleanAudit, OnlyDead
    <3> QED
      BY <1>1, <3>1, <3>2, CleanupAssumption
  <2>5. CASE CleanFail
    BY <2>5 DEF CleanFail, tables, lockTables, OnlyDead
  <2> QED
    BY <1>3, <2>1, <2>2, <2>3, <2>4, <2>5 DEF CleanupStep, Pass
<1>4. CASE Restart
  BY <1>4 DEF Restart, StateLost, tables, lockTables, OnlyDead
<1>5. CASE cleaner' = cleaner
  BY <1>5 DEF OnlyDead
<1> QED
  BY <1>3, <1>4, <1>5, RequestWorld DEF Next, AdminLogOut, Tick, vars, world

\* PurgesOnlyDeadRows: unless the state file is lost, no purge deletes a row that
\* any reader would still accept, nor any lock, although a pass works with the
\* instant it began at while requests go on (cleanup/cleaner.go).
THEOREM PurgesSpareTheLiving == Spec => PurgesOnlyDeadRows
<1>1. TypeInv /\ PassBegan /\ [Next]_vars => OnlyDead
  BY PurgeStep
<1> QED
  BY <1>1, PassBeganInvariant, TypeInvariant, PTL DEF Spec, PurgesOnlyDeadRows, OnlyDead
=============================================================================
