----------------------------- MODULE TokenEndpoint -----------------------------
(***************************************************************************)
(* POST /token (server/token.go, onetoken.Store.ConsumeCode and            *)
(* token.Issuer): authenticate the client under its budget, redeem the     *)
(* code, check its bindings, then ask twice whether the subject may have   *)
(* tokens, once for the ID token and once for the access token.            *)
(***************************************************************************)
EXTENDS Limiter

ASSUME TokenEndpointAssumption == Clients \subseteq LimitKeys

\* authenticateTokenClient up to the verdict on the credentials.
TokenBegin(r, c, authentic) ==
  LET local == [Blank EXCEPT !.at = now, !.client = c, !.key = c]
  IN
  /\ \/ /\ ~Allow(clientLimit, c, now)
        /\ Begin(r, "token", "audit", [local EXCEPT !.category = "rate_limit"])
     \/ /\ Allow(clientLimit, c, now)
        /\ Begin(r, "token", IF authentic THEN "token.reset" ELSE "token.fail", local)
  /\ UNCHANGED <<tables, world, issued>>

\* The failure is dated after the verification of the secret.
TokenFail(r) ==
  /\ At(r, "token.fail")
  /\ RecordFailure(clientLimit, req[r].key, now)
  /\ Finish(r)
  /\ UNCHANGED <<sessions, lockTables, tokens, audit, world, issued>>

TokenReset(r) ==
  /\ At(r, "token.reset")
  /\ Reset(req[r].key)
  /\ Goto(r, "token.get")
  /\ UNCHANGED <<sessions, lockTables, tokens, audit, world, req, issued,
                 history>>

\* ConsumeCode reads the row of the presented code; ok stands for the
\* comparison of the redirect URI and the PKCE verifier with its columns.
TokenGet(r, ok) ==
  /\ At(r, "token.get")
  /\ \E t \in tokens :
       /\ t.kind = "code"
       /\ Goto(r, IF now < t.expiresAt THEN "token.consume" ELSE "token.dropExpired")
       /\ req' = [req EXCEPT ![r].at = now, ![r].id = t.id, ![r].sub = t.sub,
                             ![r].rev = t.rev, ![r].authTime = t.authTime, 
                             ![r].ok = (ok /\ t.client = req[r].client)]
  /\ UNCHANGED <<tables, world, issued, history>>

\* The code is unknown, or belongs to the other kind of token.
TokenUnknown(r) ==
  /\ At(r, "token.get")
  /\ Finish(r)
  /\ UNCHANGED <<tables, world, issued>>

TokenDropExpired(r) ==
  /\ At(r, "token.dropExpired")
  /\ DeleteOneUseToken(req[r].id)
  /\ Finish(r)
  /\ UNCHANGED <<sessions, lockTables, counters, audit, world, issued>>

\* codeSubjectCurrent, and requireUser up to the locks, at the instant t.
Redeemable(u, rev, t) == Current(u, t) /\ users[u].rev = rev

\* The code is redeemed first and its bindings are checked afterwards, so a
\* request with a wrong binding still uses the code up.
TokenConsume(r) ==
  /\ At(r, "token.consume")
  /\ ConsumeOneUseToken(req[r].id)
  /\ IF Unconsumed(req[r].id) # {} /\ req[r].ok
          /\ Redeemable(req[r].sub, req[r].rev, now)
     THEN /\ Goto(r, "isPanicked")
          /\ req' = [req EXCEPT ![r].at = now, ![r].caller = "idToken"]
          /\ UNCHANGED history
     ELSE Finish(r)
  /\ UNCHANGED <<sessions, lockTables, counters, audit, world, issued>>

\* Both tokens are signed and the response is written.
TokenRespond(r) ==
  /\ At(r, "token.respond")
  /\ bearers' = bearers \cup
       {[sub |-> req[r].sub, code |-> req[r].id,
         expiresAt |-> Format(req[r].at + BearerLifetime)]}
  /\ Finish(r)
  /\ UNCHANGED <<tables, world, usedIds, reveals>>

TokenStep(r) ==
  \/ \E c \in Clients, authentic \in BOOLEAN : TokenBegin(r, c, authentic)
  \/ TokenFail(r)
  \/ TokenReset(r)
  \/ \E ok \in BOOLEAN : TokenGet(r, ok)
  \/ TokenUnknown(r)
  \/ TokenDropExpired(r)
  \/ TokenConsume(r)
  \/ TokenRespond(r)
=============================================================================
