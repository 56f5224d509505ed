------------------------------- MODULE Authorize -------------------------------
(***************************************************************************)
(* GET /authorize with a session cookie (server/authorize.go): validate    *)
(* the session against the configuration and the locks, then issue an      *)
(* authorization code.  Requests without a session, with prompt=login, or  *)
(* that name an undeclared client change nothing and are left out.         *)
(***************************************************************************)
EXTENDS Limiter

\* Mutant of Usable: forgets the TOTP revision.
UsableAtAnyRevision(s) == Current(s.sub, now)

\* usableSession, except its last check, the locks.
Usable(s) == Current(s.sub, now) /\ users[s.sub].rev = s.rev

\* The cookie names a live session: the row is read now and its columns are
\* carried along, whatever becomes of the row.
AuthorizeBegin(r, c) ==
  \E s \in sessions :
    /\ LiveSession(s, "user", now)
    /\ Begin(r, "authorize",
             IF Usable(s) THEN "isPanicked" ELSE "authorize.revoke",
             [Blank EXCEPT !.caller = "authorize", !.at = now, !.id = s.id,
                           !.sub = s.sub, !.rev = s.rev,
                           !.authTime = s.createdAt, !.client = c])
    /\ UNCHANGED <<tables, world, issued>>

\* Mutant of AuthorizeRevoke: ends every session of the subject.
AuthorizeRevokeAll(r) ==
  /\ At(r, "authorize.revoke")
  /\ sessions' = WithoutSubject(req[r].sub)
  /\ Finish(r)
  /\ UNCHANGED <<lockTables, tokens, counters, audit, world, issued>>

\* The session "can never become usable again" and is deleted.
AuthorizeRevoke(r) ==
  /\ At(r, "authorize.revoke")
  /\ RevokeSession(req[r].id)
  /\ Finish(r)
  /\ UNCHANGED <<lockTables, tokens, counters, audit, world, issued>>

\* issueCodeAndRedirect: onetoken.Store.CreateCode with an instant of its own.
AuthorizeIssue(r) ==
  /\ At(r, "authorize.issue")
  /\ \E id \in TokenIds \ usedIds :
       /\ CreateOneUseToken(
            [id |-> id, kind |-> "code", sub |-> req[r].sub, rev |-> req[r].rev,
             client |-> req[r].client, authTime |-> Format(req[r].authTime),
             expiresAt |-> Format(now + CodeLifetime), consumed |-> FALSE])
       /\ usedIds' = usedIds \cup {id}
  /\ Finish(r)
  /\ UNCHANGED <<sessions, lockTables, counters, audit, world, output>>

\* sessionWithinMaxAge says no for a max_age below the age of the session in
\* seconds: the browser goes to the login form and no code is issued.
AuthorizeTooOld(r) ==
  /\ At(r, "authorize.issue")
  /\ (now - req[r].authTime) \div Second > 0
  /\ Finish(r)
  /\ UNCHANGED <<tables, world, issued>>

AuthorizeStep(r) ==
  \/ \E c \in Clients : AuthorizeBegin(r, c)
  \/ AuthorizeRevoke(r)
  \/ AuthorizeIssue(r)
  \/ AuthorizeTooOld(r)
=============================================================================
