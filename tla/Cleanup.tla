-------------------------------- MODULE Cleanup --------------------------------
(***************************************************************************)
(* The goroutine of runCleanupLoop (cmd/zen-idp/serve.go) and one pass of  *)
(* internal/cleanup: four purges in a fixed order, all at the instant the  *)
(* pass began.  Requests run between any two of them.                      *)
(***************************************************************************)
EXTENDS Server

CONSTANT AuditRetention   \* config.maintenance.audit_retention_hours, 0: forever

ASSUME CleanupAssumption == AuditRetention \in Nat

Purge(p) == cleaner' = [cleaner EXCEPT !.purge = p]

CleanCounters ==
  /\ "cleanup" \in Handlers
  /\ cleaner.purge = "none"
  /\ DeleteExpiredRateLimitCounters(now)
  /\ cleaner' = [purge |-> "tokens", at |-> now]
  /\ UNCHANGED <<sessions, lockTables, tokens, audit>>

CleanTokens ==
  /\ cleaner.purge = "tokens"
  /\ DeleteExpiredOneUseTokens(cleaner.at)
  /\ Purge("sessions")
  /\ UNCHANGED <<sessions, lockTables, counters, audit>>

CleanSessions ==
  /\ cleaner.purge = "sessions"
  /\ DeleteExpiredSessions(cleaner.at)
  /\ Purge(IF AuditRetention > 0 THEN "audit" ELSE "none")
  /\ UNCHANGED <<lockTables, tokens, counters, audit>>

CleanAudit ==
  /\ cleaner.purge = "audit"
  /\ IF cleaner.at >= AuditRetention
     THEN DeleteAuditRecordsBefore(cleaner.at - AuditRetention)
     ELSE UNCHANGED audit
  /\ Purge("none")
  /\ UNCHANGED <<sessions, lockTables, tokens, counters>>

\* A purge fails: the pass is over and the loop goes on.
CleanFail == cleaner.purge # "none" /\ Purge("none") /\ UNCHANGED tables

\* The goroutine shares nothing but the tables with the requests.
Pass(purge) == purge /\ UNCHANGED <<now, users, limits, inherited, process, issued, history>>

CleanupStep ==
  \/ Pass(CleanCounters) \/ Pass(CleanTokens) \/ Pass(CleanSessions)
  \/ Pass(CleanAudit) \/ Pass(CleanFail)

\* The ticker starts a pass again and again, and a failed purge only ends its
\* pass: each purge succeeds eventually if it is tried again and again.
CleanupFairness ==
  /\ SF_vars(Pass(CleanCounters)) /\ SF_vars(Pass(CleanTokens))
  /\ SF_vars(Pass(CleanSessions)) /\ SF_vars(Pass(CleanAudit))
=============================================================================
