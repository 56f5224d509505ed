------------------------------ MODULE AdminConsole ------------------------------
(***************************************************************************)
(* The administration console: sign-in (internal/admin), sign-out and lock *)
(* changes (server/admin.go, server/locks.go).                             *)
(***************************************************************************)
EXTENDS SessionEnd

CONSTANT AdminKey   \* rateLimitKey, the counter of administrator sign-ins

ASSUME AdminConsoleAssumption == AdminKey \in LimitKeys

AdminLoginBegin(r, match) ==
  LET local == [Blank EXCEPT !.at = now, !.key = AdminKey, !.ok = match,
                             !.category = "admin_authentication"]
  IN
  /\ \/ /\ ~Allow(userLimit, AdminKey, now)
        /\ Begin(r, "adminLogin", "audit", [local EXCEPT !.category = "rate_limit"])
     \/ /\ Allow(userLimit, AdminKey, now)
        /\ Begin(r, "adminLogin", IF match THEN "admin.reset" ELSE "admin.fail", local)
  /\ UNCHANGED <<tables, world, issued>>

AdminFail(r) ==
  /\ At(r, "admin.fail")
  /\ RecordFailure(userLimit, req[r].key, req[r].at)
  /\ Goto(r, "audit")
  /\ UNCHANGED <<sessions, lockTables, tokens, audit, world, req, issued, history>>

AdminReset(r) ==
  /\ At(r, "admin.reset")
  /\ Reset(req[r].key)
  /\ Goto(r, "admin.create")
  /\ UNCHANGED <<sessions, lockTables, tokens, audit, world, req, issued, history>>

\* session.Store.CreateAdmin: the reserved subject, and no TOTP revision.
AdminCreate(r) ==
  /\ At(r, "admin.create")
  /\ \E id \in SessionIds \ usedIds :
       /\ CreateSession([id |-> id, kind |-> "admin", sub |-> AdminSubject,
                         rev |-> 0, createdAt |-> Format(req[r].at),
                         expiresAt |-> Format(req[r].at + SessionLifetime)])
       /\ usedIds' = usedIds \cup {id}
  /\ Goto(r, "audit")
  /\ UNCHANGED <<lockTables, tokens, counters, audit, world, req, output, history>>

\* Sign-out revokes without validating first and leaves no audit record: the
\* row of whatever identifier the cookie carries, of either kind.
AdminLogOut ==
  /\ "adminLogOut" \in Handlers
  /\ \E s \in sessions : RevokeSession(s.id)
  /\ UNCHANGED <<lockTables, tokens, counters, audit, world, process, issued, history>>

AdminLive == \E s \in sessions : LiveSession(s, "admin", now)

LockChangeBegin(r, u, change) ==
  /\ AdminLive
  /\ users[u].declared
  /\ Begin(r, "lockChange", "locks.apply",
           [Blank EXCEPT !.at = now, !.sub = u, !.change = change,
                         !.category = "lock_change"])
  /\ UNCHANGED <<tables, world, issued>>

LockSubject(r) ==
  /\ req[r].change = "lock"
  /\ adminLocks' = adminLocks \cup {req[r].sub}
  /\ LockOut(req[r].sub)
  /\ UNCHANGED panicLocks

\* Mutant of UnlockSubject: lifts whatever locks the subject.
UnlockEverything(r) ==
  /\ req[r].change = "unlock"
  /\ adminLocks' = adminLocks \ {req[r].sub}
  /\ panicLocks' = panicLocks \ {req[r].sub}
  /\ UNCHANGED sessions
  /\ RemoveHistory

UnlockSubject(r) ==
  /\ req[r].change = "unlock"
  /\ adminLocks' = adminLocks \ {req[r].sub}
  /\ UNCHANGED <<sessions, panicLocks>>
  /\ RemoveHistory

ClearPanic(r) ==
  /\ req[r].change = "clear_panic"
  /\ panicLocks' = panicLocks \ {req[r].sub}
  /\ UNCHANGED <<sessions, adminLocks>>
  /\ RemoveHistory

ApplyLockChange(r) ==
  /\ At(r, "locks.apply")
  /\ LockSubject(r) \/ UnlockSubject(r) \/ ClearPanic(r)
  /\ Goto(r, "audit")
  /\ UNCHANGED <<tokens, counters, audit, world, req, issued>>

AdminConsoleStep(r) ==
  \/ \E match \in BOOLEAN : AdminLoginBegin(r, match)
  \/ AdminFail(r)
  \/ AdminReset(r)
  \/ AdminCreate(r)
  \/ \E u \in Subjects, change \in {"lock", "unlock", "clear_panic"} :
       LockChangeBegin(r, u, change)
  \/ ApplyLockChange(r)
=============================================================================
