-------------------------------- MODULE Userinfo --------------------------------
(***************************************************************************)
(* GET /userinfo (server/userinfo.go and userinfo.Service.Resolve): the    *)
(* bearer token must be unexpired and its subject declared, unexpired and  *)
(* unlocked.  The check of the session bound to a token through its jti    *)
(* claim never runs, because the token endpoint issues no jti.             *)
(***************************************************************************)
EXTENDS Limiter

UserinfoBegin(r) ==
  \E b \in bearers :
    /\ now < b.expiresAt
    /\ Current(b.sub, now)
    /\ Begin(r, "userinfo", "isPanicked",
             [Blank EXCEPT !.caller = "userinfo", !.at = now, !.sub = b.sub])
    /\ UNCHANGED <<tables, world, issued>>

UserinfoAnswer(r) ==
  /\ At(r, "userinfo.answer")
  /\ Finish(r)
  /\ UNCHANGED <<tables, world, issued>>

UserinfoStep(r) == UserinfoBegin(r) \/ UserinfoAnswer(r)
=============================================================================
