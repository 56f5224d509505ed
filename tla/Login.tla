--------------------------------- MODULE Login ---------------------------------
(***************************************************************************)
(* POST /login: internal/login Service.Login, called by server/login.go.   *)
(* One attempt is Allow, the two reads of IsLocked, the TOTP check, and    *)
(* then either RecordFailure or Reset followed by the new session.         *)
(***************************************************************************)
EXTENDS Limiter

CONSTANTS
  Identifiers,  \* what people type as their login identifier
  Owner         \* the subject whose sub or idp_login an identifier is

ASSUME LoginAssumption ==
  /\ Owner \in [Identifiers -> Subjects \cup {NoSubject}]
  /\ NoSubject \notin Subjects
  /\ Identifiers \cup Subjects \subseteq LimitKeys

\* resolve: an identifier is known when its owner is declared right now.
Known(i) == Owner[i] \in Subjects /\ users[Owner[i]].declared

\* The check before the locks: declared and unexpired.
MayLogin(i) == Known(i) /\ Current(Owner[i], now)

LoginKey(i) == IF Known(i) THEN Owner[i] ELSE i

LoginBegin(r, i, ok) ==
  LET u == Owner[i]
      local == [Blank EXCEPT !.caller = "login", !.at = now, !.key = LoginKey(i),
                             !.sub = IF Known(i) THEN u ELSE NoSubject,
                             !.rev = IF Known(i) THEN users[u].rev ELSE 0,
                             !.ok = ok]
  IN
  /\ \/ /\ ~Allow(userLimit, LoginKey(i), now)
        /\ Begin(r, "login", "audit",
                 [local EXCEPT !.caller = "none", !.category = "rate_limit"])
     \/ /\ Allow(userLimit, LoginKey(i), now)
        /\ ~MayLogin(i)
        /\ Begin(r, "login", "login.fail", local)
     \/ /\ Allow(userLimit, LoginKey(i), now)
        /\ MayLogin(i)
        /\ Begin(r, "login", "isPanicked", local)
  /\ UNCHANGED <<tables, world, issued>>

LoginFail(r) ==
  /\ At(r, "login.fail")
  /\ RecordFailure(userLimit, req[r].key, req[r].at)
  /\ Finish(r)
  /\ UNCHANGED <<sessions, lockTables, tokens, audit, world, issued>>

LoginReset(r) ==
  /\ At(r, "login.reset")
  /\ Reset(req[r].key)
  /\ Goto(r, "login.create")
  /\ UNCHANGED <<sessions, lockTables, tokens, audit, world, req, issued,
                 history>>

\* session.Store.Create with the instant of the login.
LoginCreate(r) ==
  /\ At(r, "login.create")
  /\ \E id \in SessionIds \ usedIds :
       /\ CreateSession([id |-> id, kind |-> "user", sub |-> req[r].sub,
                         rev |-> req[r].rev, createdAt |-> Format(req[r].at),
                         expiresAt |-> Format(req[r].at + SessionLifetime)])
       /\ usedIds' = usedIds \cup {id}
  /\ Finish(r)
  /\ UNCHANGED <<lockTables, tokens, counters, audit, world, output>>

LoginStep(r) ==
  \/ \E i \in Identifiers, ok \in BOOLEAN : LoginBegin(r, i, ok)
  \/ LoginFail(r)
  \/ LoginReset(r)
  \/ LoginCreate(r)
=============================================================================
