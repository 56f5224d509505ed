--------------------------------- MODULE ZenIdp ---------------------------------
(***************************************************************************)
(* The whole service: every handler and the cleanup goroutine interleave   *)
(* over one database, time passes, statements fail, and the operator       *)
(* deploys new configurations.                                             *)
(***************************************************************************)
EXTENDS Login, Authorize, TokenEndpoint, Userinfo, Enrollment, Cleanup

Init == StoreInit /\ ServerInit

RequestStep(r) ==
  \/ LoginStep(r)
  \/ AuthorizeStep(r)
  \/ TokenStep(r)
  \/ UserinfoStep(r)
  \/ SessionEndStep(r)
  \/ AdminConsoleStep(r)
  \/ EnrollmentStep(r)
  \/ IsPanicked(r) \/ IsAdminLocked(r) \/ FoundLocked(r)
  \/ ExpiredSession(r) \/ DropExpiredSession(r)
  \/ RecordAudit(r)
  \/ Abort(r)

Next ==
  \/ \E r \in Requests : RequestStep(r)
  \/ AdminLogOut
  \/ CleanupStep
  \/ Tick
  \/ Restart

Spec == Init /\ [][Next]_vars

\* Only the cleanup loop is fair: nothing obliges a person to send a request,
\* and a request may fail at any statement.
FairSpec == Spec /\ CleanupFairness
=============================================================================
