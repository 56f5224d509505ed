---------------------------- MODULE ZenIdpProperties ----------------------------
(***************************************************************************)
(* What the service promises, stated over module ZenIdp.  Each property    *)
(* names the code whose correctness it is about.                           *)
(***************************************************************************)
EXTENDS ZenIdp

\* Every variable keeps its type: rows have the columns of the schema, a
\* request is at a known statement of its handler.
TypeOK == StoreTypeOK /\ ServerTypeOK

-----------------------------------------------------------------------------
(* Locks *)

\* Statements that are only reached with every check passed, and that lead
\* to a session, a code, tokens or claims.
Granting == {"login.reset", "login.create", "authorize.issue",
             "token.respond", "userinfo.answer"}

\* A lock that was in place when a request began, and has been ever since,
\* is always seen: neither the two separate reads of IsLocked nor any change
\* of the other lock between them lets the request through (lock/lock.go,
\* and its four callers).
LockGate ==
  \A r \in Requests :
    pc[r] \in Granting => req[r].sub \notin heldPanic[r] \cup heldAdmin[r]

\* A session that existed when its subject was locked or panicked never
\* exists again, not even after the lock is lifted: the lock and the
\* deletion are one transaction, and no late statement of a request that
\* read the row before brings it back (lock/panic.go, lock/admin.go).
LockedOutForGood == \A s \in sessions : s.id \notin lockedOut

\* The state database was lost or deleted: it is disposable by design.
StateLost == "loseState" \in Handlers /\ tables' = <<{}, {}, {}, {}, {}, {}>>

\* Panic and administrative locks are independent: unless the database is
\* lost, a panic lock goes away only because an administrator clears that
\* panic lock, an administrative one only because an administrator unlocks it
\* (lock/doc.go), whatever other requests, deploys or purges happen between.
LocksIndependent ==
  [][\/ StateLost
     \/ /\ \A u \in panicLocks \ panicLocks' : \E r \in Requests :
             pc[r] = "locks.apply" /\ req[r].sub = u /\ req[r].change = "clear_panic"
        /\ \A u \in adminLocks \ adminLocks' : \E r \in Requests :
             pc[r] = "locks.apply" /\ req[r].sub = u /\ req[r].change = "unlock"]_vars

\* A session ends only for a reason of its own: it expired, an administrator
\* signed out with a cookie that names it and no other session, or a request
\* that carries this very session, or that locks its subject, ends it.
\* Sessions are deleted by identifier or by subject, statements after the row
\* was read, and administrators share the table and the deletions with users
\* (session/session.go adminSubject, session/store.go Revoke, lock/panic.go,
\* lock/admin.go).
SessionsEndForCause ==
  [][\A s \in sessions \ sessions' :
       \/ StateLost \/ now >= s.expiresAt
       \/ AdminLogOut /\ sessions' = sessions \ {s}
       \/ /\ s.kind = "user"
          /\ \E r \in Requests :
               /\ req[r].sub = s.sub
               /\ \/ pc[r] \in {"authorize.revoke", "logout.revoke"} /\ req[r].id = s.id
                  \/ pc[r] = "panic.lock"
                  \/ pc[r] = "locks.apply" /\ req[r].change = "lock"]_vars

-----------------------------------------------------------------------------
(* Configuration *)

\* Whatever is granted is granted to a user whom the configuration of the
\* running process declares, unexpired at the instant the handler works
\* with, and at the TOTP revision at which the person authenticated: the
\* revision travels from the login through the session and the code to the
\* tokens, across any number of deploys (login, authorize.go, token.go,
\* token/issuer.go).
ConfigGate ==
  \A r \in Requests :
    /\ pc[r] \in Granting => Current(req[r].sub, req[r].at)
    /\ pc[r] \in Granting \ {"userinfo.answer"} =>
         users[req[r].sub].rev = req[r].rev

-----------------------------------------------------------------------------
(* One-use tokens *)

\* Requests that redeemed a token and have not used it or failed yet.
Redeemed(r) ==
  \/ pc[r] \in {"isPanicked", "isAdminLocked"} /\ req[r].caller \in {"idToken", "accessToken"}
  \/ pc[r] \in {"token.respond", "enroll.reveal"}
  \/ pc[r] = "audit" /\ req[r].category = "enrollment_token_consumed"

\* The requests that hold token t, and the one of them there is.
Holding(t) == {r \in Requests : Redeemed(r) /\ req[r].id = t}

Nobody == "nobody"

ASSUME NobodyAssumption == Nobody \notin Requests

TheOne(S) == IF S = {} THEN Nobody ELSE CHOOSE r \in S : TRUE

knownTokens   == usedIds \cap TokenIds
liveTokens    == {t.id : t \in {row \in tokens : ~row.consumed}}
tokenHolder   == [t \in TokenIds |-> TheOne(Holding(t))]
grantedTokens == {b.code : b \in bearers} \cup {v.token : v \in reveals}

OneUseTokens == INSTANCE OneUse WITH
  Credentials <- TokenIds, Holders <- Requests, Nobody <- Nobody,
  known <- knownTokens, live <- liveTokens, holder <- tokenHolder,
  granted <- grantedTokens

\* Authorization codes and enrollment tokens are one-use credentials: of all
\* the requests that present one, at any speed and in any order, at most one
\* redeems it, and nobody does after it expired, was purged or was refused
\* (onetoken/store.go consume).
Redemption == OneUseTokens!Spec

\* The audit record of request q was written: it is there, or a purge has
\* removed it at the end of its retention.
Recorded(q) ==
  \/ [category |-> q.category, sub |-> q.sub, at |-> Format(q.at)] \in audit
  \/ AuditRetention > 0 /\ Format(q.at) + AuditRetention <= now

\* An enrollment secret is shown only with its audit record written, to a
\* subject that is current, and only at the revision the link was created
\* for, however the consumption, the record and deploys interleave
\* (server/enroll.go).
RevealGate ==
  \A r \in Requests :
    pc[r] = "enroll.reveal" =>
      /\ req[r].category = "enrollment_token_consumed" /\ Recorded(req[r])
      /\ Current(req[r].sub, req[r].at) /\ users[req[r].sub].rev = req[r].rev

-----------------------------------------------------------------------------
(* Rate limits *)

\* Only finitely many requests are ever in flight together.
ASSUME RequestsAssumption == IsFiniteSet(Requests)

\* The keys the limiters are asked about.  Nothing keeps them apart: people may
\* type the name of a client or of the administrator's counter as their login.
KeysOf == [user |-> Identifiers \cup Subjects \cup {AdminKey}, client |-> Clients]

\* The limiters that can count under a key, most often just one.
LimitersOf(key) == {l \in {"user", "client"} : key \in KeysOf[l]}

\* A window the running process found open is one that an earlier process,
\* with settings of its own, began and counted in.
Inherited(c) == {i \in inherited : i.key = c.key /\ i.resetAt = c.resetAt}

\* Requests past Allow whose failure would still count in the window of c.
MayStillFail(c) ==
  {r \in Requests :
     /\ req[r].key = c.key
     /\ \/ /\ pc[r] \in {"isPanicked", "isAdminLocked"} /\ req[r].caller = "login"
           /\ req[r].at < c.resetAt
        \/ pc[r] \in {"login.fail", "admin.fail"} /\ req[r].at < c.resetAt
        \/ pc[r] = "token.fail" /\ now < c.resetAt}

\* Allow and RecordFailure are two statements, so a burst of concurrent
\* attempts can overshoot the budget of the running process, but never by more
\* than the requests that were in flight together.  Under a key that two
\* limiters count the larger budget is meant.  A deploy that lowers the budget
\* can find more failures in a window that is open, and then nothing is added
\* to them (ratelimit/limiter.go).
AttemptsBound ==
  \A c \in counters :
    LET most == c.attempts + Cardinality(MayStillFail(c))
    IN  \/ \E l \in LimitersOf(c.key) : most <= limits[l].max - 1 + Cardinality(Requests)
        \/ \E i \in Inherited(c) : most <= i.attempts

\* Nothing extends a window: while one is open its end stays where the first
\* failure put it, however late a failure is recorded and whatever window a
\* deploy configures (limiter.go, RecordRateLimitAttempt).
WindowFixed ==
  [][\A c \in counters, d \in counters' :
       c.key = d.key /\ now < c.resetAt => d.resetAt = c.resetAt /\ d.attempts >= c.attempts]_vars

\* A window ends no later than one window of its limiter from now, although
\* failures are recorded late.  After a deploy that shortens the window, the
\* only later ends are those it found (limiter.go RecordFailure).
LockoutEnds ==
  \A c \in counters :
    \/ \E l \in LimitersOf(c.key) : c.resetAt <= Format(now + limits[l].window)
    \/ Inherited(c) # {}

\* A limiter refuses attempts under a key.
LockedOut(l, key) == ~Allow(limits[l], key, now)

\* A lockout ends before its time only because an attempt for that very key,
\* allowed before the budget was spent, succeeded, or because a deploy raised
\* the budget: no purge, failure, other key or other deploy lifts it
\* (limiter.go, cleanup/cleaner.go).
LockoutLiftedOnlyBySuccess ==
  [][\A l \in {"user", "client"}, key \in LimitKeys :
       LockedOut(l, key) /\ ~LockedOut(l, key)' =>
         \/ StateLost
         \/ \A c \in CounterOf(key) : now' >= c.resetAt
         \/ limits'[l].max > limits[l].max
         \/ \E r \in Requests : /\ pc[r] \in {"login.reset", "admin.reset", "token.reset"}
                                /\ req[r].key = key]_vars

-----------------------------------------------------------------------------
(* Cleanup *)

\* A purge runs at the instant its pass began and deletes only rows that
\* every reader would already refuse, and locks never (cleanup/cleaner.go).
PurgesOnlyDeadRows ==
  [][cleaner' # cleaner /\ ~StateLost =>
       /\ \A s \in sessions \ sessions' : now >= s.expiresAt
       /\ \A t \in tokens \ tokens' : now >= t.expiresAt
       /\ \A c \in counters \ counters' : now >= c.resetAt
       /\ \A a \in audit \ audit' : AuditRetention > 0 /\ a.at + AuditRetention <= now
       /\ UNCHANGED lockTables]_vars

\* Every row that has expired for good is reclaimed in the end, in each of
\* the three tables, although one purge failing cancels those after it
\* (cleaner.go Clean, serve.go runCleanupLoop).
ExpiredRows ==
  {<<"session", s.id>> : s \in {row \in sessions : row.expiresAt <= Format(now)}}
    \cup {<<"token", t.id>> : t \in {row \in tokens : row.expiresAt < Format(now)}}
    \cup {<<"counter", c.key>> : c \in {row \in counters : row.resetAt < Format(now)}}

Reclaimed ==
  \A row \in ({"session"} \X SessionIds) \cup ({"token"} \X TokenIds)
               \cup ({"counter"} \X LimitKeys) :
    row \in ExpiredRows ~> row \notin ExpiredRows

-----------------------------------------------------------------------------
(* What the documentation says and the code does not do: see the findings  *)
(* in README.md.                                                           *)

\* A lock "immediately revokes every session of that user and blocks new
\* sign-ins" (administration.md): a locked user has no session.
LockedUserHasNoSession ==
  \A s \in sessions : s.kind = "user" => s.sub \notin panicLocks \cup adminLocks

\* /userinfo "enforces session state" (authentication.md): claims are only
\* returned while the subject has a session at all.
UserinfoEnforcesSession ==
  \A r \in Requests :
    pc[r] = "userinfo.answer" =>
      \E s \in sessions : s.kind = "user" /\ s.sub = req[r].sub

\* "Removing the user, letting them expire, incrementing their TOTP revision"
\* end the session (authentication.md): a session that a deploy made unusable
\* never becomes usable again.
EndedSessionStaysEnded ==
  [][\A s \in sessions \cap sessions' :
       s.kind = "user" /\ ~Usable(s) => ~(Usable(s)')]_vars
=============================================================================
