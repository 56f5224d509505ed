------------------------------- MODULE SessionEnd -------------------------------
(***************************************************************************)
(* How sessions end on request: POST /logout, POST /panic, and the         *)
(* administrative lock that AdminConsole builds on LockOut.                *)
(***************************************************************************)
EXTENDS Limiter

\* internal/lock: one transaction creates the lock and deletes every session
\* of the subject.  Locking a locked subject again deletes the sessions too.
LockOut(sub) ==
  /\ sessions' = WithoutSubject(sub)
  /\ lockedOut' = lockedOut \cup {s.id : s \in {row \in sessions : row.sub = sub}}
  /\ UNCHANGED held

\* Both handlers start from a live session; neither asks whether its subject
\* is still declared or unlocked.
Validated(r, h, stage, category) ==
  \E s \in sessions :
    /\ LiveSession(s, "user", now)
    /\ Begin(r, h, stage, [Blank EXCEPT !.at = now, !.id = s.id, !.sub = s.sub,
                                        !.category = category])
    /\ UNCHANGED <<tables, world, issued>>

LogoutBegin(r) == Validated(r, "logout", "logout.revoke", "session_revoked")

LogoutRevoke(r) ==
  /\ At(r, "logout.revoke")
  /\ RevokeSession(req[r].id)
  /\ Goto(r, "audit")
  /\ req' = [req EXCEPT ![r].at = now]
  /\ UNCHANGED <<lockTables, tokens, counters, audit, world, issued, history>>

PanicBegin(r) == Validated(r, "panic", "panic.lock", "panic_action")

PanicSubject(r) ==
  /\ At(r, "panic.lock")
  /\ panicLocks' = panicLocks \cup {req[r].sub}
  /\ LockOut(req[r].sub)
  /\ Goto(r, "audit")
  /\ UNCHANGED <<adminLocks, tokens, counters, audit, world, req, issued>>

SessionEndStep(r) ==
  \/ LogoutBegin(r)
  \/ LogoutRevoke(r)
  \/ PanicBegin(r)
  \/ PanicSubject(r)
=============================================================================
