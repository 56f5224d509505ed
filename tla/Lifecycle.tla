-------------------------------- MODULE Lifecycle --------------------------------
(***************************************************************************)
(* The server process, from its start to its exit code: runServe and       *)
(* serveWithGracefulShutdown of cmd/zen-idp, with what they call of        *)
(* internal/runtimeconfig, clockcheck and statestore (Connect, Migrate),   *)
(* the cleanup goroutine, the requests of net/http, and the supervisor     *)
(* that starts the process again.                                          *)
(*                                                                         *)
(* The state file outlives the process; everything else is lost with it.   *)
(* Reading the configuration is one step here, see module Process.         *)
(***************************************************************************)
EXTENDS Integers

CONSTANTS
  Requests,
  Migrations      \* how many the binary carries

ASSUME MigrationsAssumption == Migrations \in Nat

VARIABLES
  stage,      \* where runServe is
  checked,    \* history: what this process has found in order
  file,       \* the state file exists
  schema,     \* migrations it has
  db,         \* the process has it open
  cleaner,    \* the goroutine of runCleanupLoop
  request,    \* what became of the requests accepted by this process
  signalled,  \* a termination signal was received by serveWithGracefulShutdown
  overdue,    \* gracefulShutdownTimeout has passed since
  result,     \* what runServe returns, once it does
  exit        \* how the last process ended

processVars == <<checked, db, cleaner, request, signalled, overdue, result, exit>>
vars == <<stage, file, schema, processVars>>

Stages == {"down", "clock", "runtime", "configuration", "open", "migrate", "build", "listen",
           "notify", "serve", "shutdown", "stopCleanup", "closeStore", "return"}

Ended(r) == IF r = "running" THEN "cut" ELSE r

Init ==
  /\ stage = "down" /\ checked = {} /\ file = FALSE /\ schema = 0 /\ db = FALSE
  /\ cleaner = "none" /\ request = [r \in Requests |-> "none"]
  /\ signalled = FALSE /\ overdue = FALSE /\ result = "none" /\ exit = "none"

-----------------------------------------------------------------------------
(* Startup *)

Start ==
  /\ stage = "down" /\ stage' = "clock"
  /\ checked' = {} /\ request' = [r \in Requests |-> "none"] /\ exit' = "none"
  /\ signalled' = FALSE /\ overdue' = FALSE /\ result' = "none"
  /\ UNCHANGED <<file, schema, db, cleaner>>

\* return err: the deferred calls run in the opposite order.
Return(outcome) ==
  /\ stage' = "stopCleanup" /\ result' = outcome

Check(step, following) ==
  /\ stage = step
  /\ \/ stage' = following /\ checked' = checked \cup {step} /\ UNCHANGED result
     \/ Return("failure") /\ UNCHANGED checked

CheckClock ==
  Check("clock", "runtime")
    /\ UNCHANGED <<file, schema, db, cleaner, request, signalled, overdue, exit>>

\* A file that is not there is created, unless the check fails before.
validateStateDBLocation == file' \in {file, TRUE} /\ ("runtime" \in checked' => file')

\* runtimeconfig.Load
LoadRuntime ==
  /\ Check("runtime", "configuration") /\ validateStateDBLocation
  /\ UNCHANGED <<schema, db, cleaner, request, signalled, overdue, exit>>

LoadConfiguration ==
  Check("configuration", "open")
    /\ UNCHANGED <<file, schema, db, cleaner, request, signalled, overdue, exit>>

\* Connect closes what it opened if the ping fails.
OpenStateStore ==
  /\ stage = "open"
  /\ \/ stage' = "migrate" /\ db' = TRUE /\ UNCHANGED result
     \/ Return("failure") /\ UNCHANGED db
  /\ UNCHANGED <<checked, file, schema, cleaner, request, signalled, overdue, exit>>

\* Mutant of Pending: only a new file is migrated.
PendingOnNew == schema = 0 /\ Migrations > 0

\* Another: one too many.
PendingInclusive == schema <= Migrations

Pending == schema < Migrations

\* Up: one transaction each, in order, nothing once all are applied.
Migrate ==
  /\ stage = "migrate"
  /\ \/ Pending /\ schema' = schema + 1 /\ UNCHANGED <<stage, result>>
     \/ ~Pending /\ stage' = "build" /\ UNCHANGED <<schema, result>>
     \/ Return("failure") /\ UNCHANGED schema
  /\ UNCHANGED <<checked, file, db, cleaner, request, signalled, overdue, exit>>

\* Keys and services; the cleanup goroutine starts before the listener.
Build ==
  /\ stage = "build"
  /\ \/ stage' = "listen" /\ cleaner' = "pass" /\ UNCHANGED result
     \/ Return("failure") /\ UNCHANGED cleaner
  /\ UNCHANGED <<checked, file, schema, db, request, signalled, overdue, exit>>

Listen ==
  /\ stage = "listen"
  /\ \/ stage' = "notify" /\ UNCHANGED result
     \/ Return("failure")
  /\ UNCHANGED <<checked, file, schema, db, cleaner, request, signalled, overdue, exit>>

\* signal.NotifyContext, then Serve in a goroutine.
NotifyContext ==
  /\ stage = "notify" /\ stage' = "serve"
  /\ UNCHANGED <<file, schema, processVars>>

-----------------------------------------------------------------------------
(* Requests, the cleanup goroutine, and the signal *)

\* Shutdown closes the listener before anything else, but a connection that was
\* accepted before can still bring a request while it polls.
Accept(r) ==
  /\ stage \in {"serve", "shutdown"} /\ request[r] = "none"
  /\ request' = [request EXCEPT ![r] = "running"]
  /\ UNCHANGED <<stage, checked, file, schema, db, cleaner, signalled, overdue, result, exit>>

\* A handler of any kind; without the store it can only report a failure.
Answer(r) ==
  /\ request[r] = "running"
  /\ request' = [request EXCEPT ![r] = IF db THEN "answered" ELSE "failed"]
  /\ UNCHANGED <<stage, checked, file, schema, db, cleaner, signalled, overdue, result, exit>>

\* runCleanupLoop: a pass at once, then one at every tick; a pass that fails,
\* for the store is closed or its context cancelled, is only logged.
EndPass ==
  /\ cleaner \in {"pass", "lastPass"}
  /\ cleaner' = IF cleaner = "pass" THEN "wait" ELSE "done"
  /\ UNCHANGED <<stage, checked, file, schema, db, request, signalled, overdue, result, exit>>

StartPass ==
  /\ cleaner = "wait" /\ cleaner' = "pass"
  /\ UNCHANGED <<stage, checked, file, schema, db, request, signalled, overdue, result, exit>>

\* Of the signals after the first one nothing is seen until Shutdown returns.
Signal ==
  /\ stage = "serve" /\ ~signalled /\ signalled' = TRUE
  /\ UNCHANGED <<stage, checked, file, schema, db, cleaner, request, overdue, result, exit>>

-----------------------------------------------------------------------------
(* The end *)

\* The listener fails: the requests under way are not waited for.
ServeError ==
  /\ stage = "serve" /\ Return("failure")
  /\ UNCHANGED <<checked, file, schema, db, cleaner, request, signalled, overdue, exit>>

BeginShutdown ==
  /\ stage = "serve" /\ signalled /\ stage' = "shutdown"
  /\ UNCHANGED <<file, schema, processVars>>

Deadline ==
  /\ stage = "shutdown" /\ overdue' = TRUE
  /\ UNCHANGED <<stage, checked, file, schema, db, cleaner, request, signalled, result, exit>>

\* Mutant of Drained: Serve has returned http.ErrServerClosed, and so does run.
ListenerClosed == stage = "shutdown"

Drained == \A r \in Requests : request[r] # "running"

\* Mutant of Shutdown: its context has no deadline.
ShutdownPatient ==
  /\ stage = "shutdown" /\ Drained /\ Return("success")
  /\ UNCHANGED <<checked, file, schema, db, cleaner, request, signalled, overdue, exit>>

\* Shutdown polls the connections, then looks at the context.
Shutdown ==
  /\ stage = "shutdown"
  /\ \/ Drained /\ Return("success")
     \/ overdue /\ Return("failure")
  /\ UNCHANGED <<checked, file, schema, db, cleaner, request, signalled, overdue, exit>>

\* Nobody waits for the goroutine.
StopCleanup ==
  /\ stage = "stopCleanup" /\ stage' = "closeStore"
  /\ cleaner' = CASE cleaner = "wait" -> "done" [] cleaner = "pass" -> "lastPass" [] OTHER -> cleaner
  /\ UNCHANGED <<checked, file, schema, db, request, signalled, overdue, result, exit>>

CloseStore ==
  /\ stage = "closeStore" /\ stage' = "return" /\ db' = FALSE
  /\ UNCHANGED <<checked, file, schema, cleaner, request, signalled, overdue, result, exit>>

Die(how) ==
  /\ stage' = "down" /\ exit' = how /\ db' = FALSE /\ cleaner' = "none"
  /\ request' = [r \in Requests |-> Ended(request[r])]
  /\ UNCHANGED <<checked, file, schema, signalled, overdue, result>>

\* run turns the error into the exit code.
Exit == stage = "return" /\ Die(result)

\* A signal the process does not handle, SIGKILL, a power failure.
Kill == stage # "down" /\ Die("killed")

\* The state directory is lost, or deleted to go back to an older version.
LoseFile ==
  /\ stage = "down" /\ file /\ file' = FALSE /\ schema' = 0
  /\ UNCHANGED <<stage, processVars>>

Startup == CheckClock \/ LoadRuntime \/ OpenStateStore \/ Migrate \/ Build \/ Listen \/ NotifyContext

Ending == BeginShutdown \/ Shutdown \/ StopCleanup \/ CloseStore \/ Exit

\* All but the start and reading the configuration.
Step ==
  \/ Startup \/ Ending
  \/ \E r \in Requests : Accept(r) \/ Answer(r)
  \/ EndPass \/ StartPass \/ Signal \/ ServeError \/ Deadline \/ Kill \/ LoseFile

Next == Start \/ LoadConfiguration \/ Step

Spec == Init /\ [][Next]_vars

\* The main goroutine goes on and the timer of the context fires; nothing is
\* assumed of handlers, which no timeout of net/http ends.
Fairness == WF_vars(Ending) /\ WF_vars(Deadline)

FairSpec == Spec /\ Fairness

-----------------------------------------------------------------------------
(* Properties *)

Fates == {"none", "running", "answered", "failed", "cut"}

TypeOK ==
  /\ stage \in Stages /\ checked \in SUBSET {"clock", "runtime", "configuration"}
  /\ file \in BOOLEAN /\ schema \in 0..Migrations /\ db \in BOOLEAN
  /\ cleaner \in {"none", "pass", "wait", "lastPass", "done"}
  /\ request \in [Requests -> Fates]
  /\ signalled \in BOOLEAN /\ overdue \in BOOLEAN
  /\ result \in {"none", "success", "failure"}
  /\ exit \in {"none", "success", "failure", "killed"}

\* A process that reports success left no request behind: each one it had
\* accepted was answered by a handler that had the store, however the signal,
\* the deadline, the deferred calls and the handlers interleave (serve.go
\* serveWithGracefulShutdown).
GracefulExit ==
  result = "success" => \A r \in Requests : request[r] \in {"none", "answered"}

\* Neither a request nor a purge ever meets a schema with migrations missing,
\* whatever earlier processes were killed in the middle of (serve.go runServe,
\* statestore/migrate.go).
MigratedBeforeUse ==
  cleaner # "none" \/ (\E r \in Requests : request[r] = "running") =>
    file /\ schema = Migrations

\* Once a signal is received the process ends, requests that never finish and
\* a purge under way notwithstanding (serve.go gracefulShutdownTimeout).
ShutdownEnds == signalled ~> stage = "down"
=============================================================================
