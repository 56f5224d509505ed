-------------------------------- MODULE Server --------------------------------
(***************************************************************************)
(* The process that serves HTTP requests over the state database.  net/http *)
(* runs every request in a goroutine of its own, and a handler is a        *)
(* sequence of SQL statements with pure computation between them, so       *)
(* handlers of concurrent requests interleave between any two statements.  *)
(* pc[r] names the next statement of request r; req[r] holds the handler's *)
(* local variables.  A handler that answers returns to "idle".             *)
(*                                                                         *)
(* The handlers themselves are in the modules Login, Authorize,            *)
(* TokenEndpoint, Userinfo, SessionEnd, AdminConsole and Enrollment.       *)
(***************************************************************************)
EXTENDS StateStore

CONSTANTS
  Requests,        \* the requests that can be in flight at once
  Handlers,        \* the handlers this instance exercises (bounds the model)
  Configurations,  \* the users an operator may start the server with
  LimitConfigs,    \* and the rate limits
  MaxTime,         \* bound on the clock
  SessionLifetime, \* config.security.session.max_age_hours
  CodeLifetime,    \* authorizationCodeLifetime (authorize.go)
  BearerLifetime   \* token.Lifetime (issuer.go)

VARIABLES
  now,        \* the wall clock, in instants
  users,      \* users of the configuration the running process was started with
  limits,     \* rate limits of that configuration
  pc, req,    \* control state and local variables of every request
  usedIds,    \* record identifiers generated so far (package id never repeats)
  bearers,    \* access tokens handed out to clients
  reveals,    \* enrollment secrets shown, by the token that opened them
  cleaner,    \* the cleanup goroutine: the purge it runs next, and its instant
  inherited,  \* history: the counters the running process found when it started
  heldPanic, heldAdmin,  \* history: see LockHistory below
  lockedOut   \* history: sessions that existed when their subject was locked

process == <<pc, req>>
held    == <<heldPanic, heldAdmin>>
history == <<held, lockedOut>>
world   == <<now, users, limits, inherited, cleaner>>
output  == <<bearers, reveals>>
issued  == <<usedIds, output>>
vars == <<tables, world, process, issued, history>>

Never == -1   \* expires_at of a user without an expiration

UserConfig == [declared : BOOLEAN, rev : Nat, expiresAt : Nat \cup {Never}]

\* max_*_attempts and *_attempts_window_seconds: ratelimit.New takes no other.
Limit == [max : Nat \ {0}, window : Nat \ {0}]
LimitConfig == [user : Limit, client : Limit]

ASSUME ServerAssumption ==
  /\ Configurations \subseteq [Subjects -> UserConfig]
  /\ LimitConfigs \subseteq LimitConfig
  /\ SessionLifetime \in Nat /\ CodeLifetime \in Nat /\ BearerLifetime \in Nat
  /\ MaxTime \in Nat
  /\ "idle" \notin Handlers

\* The stages of the handlers: the statement a request executes next.
Stages ==
  {"idle", "isPanicked", "isAdminLocked", "dropExpired", "audit",
   "login.fail", "login.reset", "login.create",
   "authorize.issue", "authorize.revoke",
   "token.fail", "token.reset", "token.get", "token.dropExpired",
   "token.consume", "token.respond", "userinfo.answer",
   "panic.lock", "logout.revoke",
   "admin.fail", "admin.reset", "admin.create", "locks.apply",
   "enrollment.create", "enroll.dropExpired", "enroll.consume",
   "enroll.reveal"}

\* Who called IsLocked, and so where the verdict leads.
Callers == {"none", "login", "authorize", "idToken", "accessToken", "userinfo"}

RequestState ==
  [caller : Callers,
   at : Nat,                               \* the instant the handler captured
   sub : Subjects \cup {NoSubject},        \* subject the request acts for
   rev : Nat,                              \* TOTP revision read with it
   authTime : Nat,                         \* authentication time read with it
   id : SessionIds \cup TokenIds \cup {"no-id"},  \* record it works on
   client : Clients \cup {NoClient},
   key : LimitKeys \cup {"no-key"},
   ok : BOOLEAN,                           \* does the presented proof verify
   change : {"none", "lock", "unlock", "clear_panic"},
   category : Categories \cup {"none"}]

Blank == [caller |-> "none", at |-> 0, sub |-> NoSubject, rev |-> 0,
          authTime |-> 0, id |-> "no-id", client |-> NoClient, key |-> "no-key",
          ok |-> FALSE, change |-> "none", category |-> "none"]

Bearer == [sub : Subjects, code : TokenIds, expiresAt : Nat]
Reveal == [sub : Subjects, token : TokenIds, rev : Nat]
Cleaner == [purge : {"none", "tokens", "sessions", "audit"}, at : Nat]

ServerTypeOK ==
  /\ now \in 0..MaxTime
  /\ users \in [Subjects -> UserConfig]
  /\ limits \in LimitConfig
  /\ inherited \in SUBSET CounterRow
  /\ pc \in [Requests -> Stages]
  /\ req \in [Requests -> RequestState]
  /\ usedIds \in SUBSET (SessionIds \cup TokenIds)
  /\ bearers \in SUBSET Bearer
  /\ reveals \in SUBSET Reveal
  /\ cleaner \in Cleaner
  /\ heldPanic \in [Requests -> SUBSET Subjects]
  /\ heldAdmin \in [Requests -> SUBSET Subjects]
  /\ lockedOut \in SUBSET SessionIds

ServerInit ==
  /\ now = 0
  /\ users \in Configurations
  /\ limits \in LimitConfigs
  /\ inherited = {}
  /\ pc = [r \in Requests |-> "idle"]
  /\ req = [r \in Requests |-> Blank]
  /\ usedIds = {}
  /\ bearers = {}
  /\ reveals = {}
  /\ cleaner = [purge |-> "none", at |-> 0]
  /\ heldPanic = [r \in Requests |-> {}]
  /\ heldAdmin = [r \in Requests |-> {}]
  /\ lockedOut = {}

-----------------------------------------------------------------------------
(* Configuration of the running process.  It never changes while a process *)
(* runs: a deploy is a restart.                                            *)

Expired(u, t) == users[u].expiresAt # Never /\ t >= users[u].expiresAt

\* The check shared by login, usableSession and both requireUser: the user
\* is declared and not expired at t.
Current(u, t) == users[u].declared /\ ~Expired(u, t)

-----------------------------------------------------------------------------
(* LockHistory.  heldPanic[r] and heldAdmin[r] are the subjects whose panic *)
(* (administrative) lock has been in place without interruption since      *)
(* request r began.  They only observe the code.                           *)

BeginHistory(r) ==
  /\ heldPanic' = [heldPanic EXCEPT ![r] = panicLocks]
  /\ heldAdmin' = [heldAdmin EXCEPT ![r] = adminLocks]
  /\ UNCHANGED lockedOut

\* Removing locks interrupts them; called with the primed lock tables known.
RemoveHistory ==
  /\ heldPanic' = [r \in Requests |-> heldPanic[r] \cap panicLocks']
  /\ heldAdmin' = [r \in Requests |-> heldAdmin[r] \cap adminLocks']
  /\ UNCHANGED lockedOut

-----------------------------------------------------------------------------
(* Control flow of a handler.                                              *)

\* Request r starts in handler h with local variables local.
Begin(r, h, stage, local) ==
  /\ h \in Handlers
  /\ pc[r] = "idle"
  /\ pc' = [pc EXCEPT ![r] = stage]
  /\ req' = [req EXCEPT ![r] = local]
  /\ BeginHistory(r)

At(r, stage) == pc[r] = stage

Goto(r, stage) == pc' = [pc EXCEPT ![r] = stage]

\* The handler answers; its local variables are gone.
Finish(r) ==
  /\ pc' = [pc EXCEPT ![r] = "idle"]
  /\ req' = [req EXCEPT ![r] = Blank]
  /\ UNCHANGED history

-----------------------------------------------------------------------------
(* internal/lock: IsLocked reads the panic lock and then, if there is none, *)
(* the administrative lock: two statements, not one snapshot.              *)

\* Where a caller continues when neither read found a lock.
Cleared == [login |-> "login.reset", authorize |-> "authorize.issue",
            idToken |-> "isPanicked", accessToken |-> "token.respond",
            userinfo |-> "userinfo.answer"]

IsPanicked(r) ==
  /\ At(r, "isPanicked")
  /\ ~GetPanicLock(req[r].sub)
  /\ Goto(r, "isAdminLocked")
  /\ UNCHANGED <<tables, world, req, issued, history>>

\* The second read found nothing either.  A login goes on only if its code
\* verified; the first requireUser of the token endpoint is followed by the
\* second; max_age may still send the browser back to the login form.
IsAdminLocked(r) ==
  /\ At(r, "isAdminLocked")
  /\ ~GetAdminLock(req[r].sub)
  /\ IF req[r].caller = "login" /\ ~req[r].ok THEN
       Goto(r, "login.fail") /\ UNCHANGED req
     ELSE
       /\ Goto(r, Cleared[req[r].caller])
       /\ req' = IF req[r].caller = "idToken"
                 THEN [req EXCEPT ![r].caller = "accessToken"] ELSE req
  /\ UNCHANGED <<tables, world, issued, history>>

\* Either read found a lock: login counts a failure, /authorize deletes the
\* session, the token and userinfo endpoints answer an error.
FoundLocked(r) ==
  /\ \/ At(r, "isPanicked") /\ GetPanicLock(req[r].sub)
     \/ At(r, "isAdminLocked") /\ GetAdminLock(req[r].sub)
  /\ CASE req[r].caller = "login" ->
            Goto(r, "login.fail") /\ UNCHANGED <<req, history>>
       [] req[r].caller = "authorize" ->
            Goto(r, "authorize.revoke") /\ UNCHANGED <<req, history>>
       [] OTHER -> Finish(r)
  /\ UNCHANGED <<tables, world, issued>>

-----------------------------------------------------------------------------
(* internal/session: what every caller of Validate and ValidateAdmin shares. *)

LiveSession(s, kind, t) == s.kind = kind /\ t < s.expiresAt

\* The cookie of any page names an expired session: the row is deleted and
\* the browser is treated as signed out.
ExpiredSession(r) ==
  \E s \in sessions :
    /\ now >= s.expiresAt
    /\ Begin(r, "expiredSession", "dropExpired",
             [Blank EXCEPT !.at = now, !.id = s.id])
    /\ UNCHANGED <<tables, world, issued>>

DropExpiredSession(r) ==
  /\ At(r, "dropExpired")
  /\ RevokeSession(req[r].id)
  /\ Finish(r)
  /\ UNCHANGED <<lockTables, tokens, counters, audit, world, issued>>

-----------------------------------------------------------------------------
\* internal/audit: the record a handler appends after its change.  Only the
\* enrollment page has something left to do after it.
RecordAudit(r) ==
  /\ At(r, "audit")
  /\ CreateAuditRecord(req[r].category, req[r].sub, req[r].at)
  /\ IF req[r].category = "enrollment_token_consumed"
     THEN Goto(r, "enroll.reveal") /\ UNCHANGED <<req, history>>
     ELSE Finish(r)
  /\ UNCHANGED <<sessions, lockTables, tokens, counters, world, issued>>

-----------------------------------------------------------------------------
(* What happens to the process from outside.                               *)

\* A statement fails (busy database, closed client connection, lost
\* goroutine): the handler returns an error and what it did before stays.
Abort(r) ==
  /\ pc[r] # "idle"
  /\ Finish(r)
  /\ UNCHANGED <<tables, world, issued>>

Tick ==
  /\ now < MaxTime
  /\ now' = now + 1
  /\ UNCHANGED <<tables, users, limits, inherited, cleaner, process, issued, history>>

\* A deploy: the process ends, every request in flight with it, and a new
\* one starts with other users and other rate limits, on the same database
\* or, when the state file was lost or deleted, on an empty one.  The
\* lifetimes, the retention and the clients stay what they are.
Restart ==
  /\ "restart" \in Handlers
  /\ users' \in Configurations
  /\ limits' \in LimitConfigs
  /\ pc' = [r \in Requests |-> "idle"]
  /\ req' = [r \in Requests |-> Blank]
  /\ \/ UNCHANGED tables
     \/ /\ "loseState" \in Handlers
        /\ sessions' = {} /\ tokens' = {} /\ counters' = {} /\ audit' = {}
        /\ panicLocks' = {} /\ adminLocks' = {}
  /\ inherited' = counters'
  /\ cleaner' = [purge |-> "none", at |-> 0]
  /\ RemoveHistory
  /\ UNCHANGED <<now, issued>>
=============================================================================
