# Verification of zen-idp

zen-idp is a single-binary OpenID Connect provider. Users and clients are
declared in YAML, and what changes at run time (sessions, locks, one-use tokens,
rate-limit counters, audit records) lives in one SQLite file. This directory
holds TLA+ models of the parts whose correctness depends on interleaving, time
and restarts: the statements of concurrent handlers over the database, the pages
of one browser with several tabs, and the process from its start to its exit
code. With them are their TLC configurations and TLAPS proofs.

Paths below are relative to the repository. `PROJECT.json` maps every
definition to the lines it models.

## The system

| component | state it keeps | operations | hard behaviour |
|---|---|---|---|
| state store (`internal/statestore`, `clock`) | six tables | one SQL statement or `WithTx` transaction at a time | times stored in whole seconds |
| sessions (`internal/session`) | `sessions` | create, validate (deletes expired), revoke, purge | a row is read, then used several statements later |
| locks (`internal/lock`) | `panic_locks`, `admin_locks` | panic, lock, unlock, clear, `IsLocked` | two tables read one after the other; lock and revocation atomic |
| rate limiter (`internal/ratelimit`) | `rate_limit_counters` | allow, record failure, reset, purge | check and record are separate; fixed windows; rows outlive the settings they were counted under; three limiters, keys that people type |
| one-use tokens (`internal/onetoken`) | `one_use_tokens` | create and consume codes and enrollment links, purge | concurrent redemption |
| login (`internal/login`, `server/login.go`) | none | sign in | five statements from the first check to the session |
| `/authorize` | none | validate the request, SSO with a live session, issue of a code | which error goes where; stale session row, changed configuration |
| `/token`, `internal/token` | none | authenticate the client, redeem a code, issue tokens | redemption before the last checks |
| `/userinfo` | none | claims for a bearer token | locks read live, sessions not at all |
| `/logout`, `/panic` | none | confirm; end a session; end all and lock | concurrent with everything above; a GET must change nothing |
| administration console (`internal/admin`, `server/admin.go`, `locks.go`) | none | sign in and out, lock changes, enrollment links | concurrent administrators |
| enrollment (`server/enroll.go`) | none | redeem a link for the TOTP secret | audit before reveal, rotation in between |
| audit (`internal/audit`) | `audit_records` | record, purge | a record is a statement after the change |
| cleanup (`internal/cleanup`, `serve.go`) | the instant of its pass | four purges | a failing purge ends the pass |
| anti-forgery tokens (`internal/csrf`) | a cookie of the browser | token, verify | several tabs, one cookie |
| pages (`internal/ui`) | what a tab shows | forms and where they are sent | a form outlives the cookies it was made with |
| runtime configuration, clock check | none | check, create the state file | must fail before anything is touched |
| configuration (`config`, `configloader`, `yamlmerge`, `yamlsource`) | immutable once loaded | discover, merge, parse, validate | links, file order, repeated keys |
| server process (`cmd/zen-idp`) | stage, signal, deadline | start, migrate, serve, shut down, exit; deploy | killed at any point; a deploy is a restart over the same database |
| TOTP, JWT, JWK, key generation, identifiers, static endpoints, command line | none | pure functions and read-only answers | not modelled, see below |

Handlers interact only through the tables and the immutable configuration:
`net/http` runs each request in a goroutine, there are no locks in memory, and
SQLite makes each statement atomic. What can go wrong is an order of statements of
different requests, purges and processes; of the answers that reach one browser;
and of the signal, the deadline and the deferred calls when a process ends. The 40
places where this bites are the `hazards` of `PROJECT.json`; the four without a
property say why, and a note says where a property covers a hazard only in part.

What makes each component correct, in short: a lock that is in place is never
passed and never lifted by anything but its own unlock; a session ends only for a
reason of its own, and a revoked one stays gone; a code or link is redeemed at most once; every grant agrees with the
running configuration; a budget of attempts is not exceeded by more than the
requests in flight and a lockout neither drags on nor ends early; cleanup removes
dead rows only, and all of them in the end; a form on the screen is accepted when
it is submitted, and no page leads a browser to a place its client did not
register; a process touches nothing before its checks are passed, ends once it is
told to, and reports success only if no request was cut short; and no two files of
a configuration silently override each other.

## Modules

| module | models | state and actions |
|---|---|---|
| `StateStore` | the tables and SQL statements | `sessions`, `panicLocks`, `adminLocks`, `tokens`, `counters`, `audit`: sets of rows; one operator per statement |
| `Server` | requests, clock, deploys, `IsLocked`, session expiry, audit | `pc[r]` is the next statement of request `r`, `req[r]` its local variables; `Begin`, `Goto`, `Finish` are the control flow; `Abort` is a failed statement, `Tick` the clock; `Restart` is a deploy, which may change `users` and the rate `limits` and finds the tables as they are or, after a loss, empty |
| `Limiter` | `internal/ratelimit` | `Allow`, `RecordFailure`, `Reset`, with the settings of the running process |
| `Login` | POST /login | `LoginBegin`, `LoginFail`, `LoginReset`, `LoginCreate` |
| `Authorize` | GET /authorize with a session | `AuthorizeBegin`, `AuthorizeRevoke`, `AuthorizeIssue`, `AuthorizeTooOld` |
| `TokenEndpoint` | POST /token | `TokenBegin` ... `TokenRespond` |
| `Userinfo` | GET /userinfo | `UserinfoBegin`, `UserinfoAnswer` |
| `SessionEnd` | POST /logout and /panic | `LogoutRevoke`, `PanicSubject`, `LockOut` |
| `AdminConsole` | console sign-in, sign-out, lock changes | `AdminCreate`, `AdminLogOut`, `ApplyLockChange` |
| `Enrollment` | links, created and opened | `CreateEnrollment`, `EnrollConsume`, `EnrollReveal` |
| `Cleanup` | the cleanup goroutine | `CleanCounters`, `CleanTokens`, `CleanSessions`, `CleanAudit`, `CleanFail` |
| `ZenIdp` | the composition | `Next`, `Spec`, `FairSpec` |
| `OneUse` | abstract: what a one-use credential promises | `Issue`, `Take`, `Grant`, `Lose` |
| `ZenIdpProperties` | every property of the service, and the refinement mapping to `OneUse` | |
| `Browser` | the handlers over HTTP, `csrf`, the forms of `ui` | `jar` the cookies, `tab[t]` the page on the screen, `net[t]` the request or answer under way; one action per handler, and `Open`, `Submit`, `Receive`, `Lose`, `Reopen`, `Elsewhere` around them |
| `YamlMerge` | `internal/yamlmerge`: one document merged into another | operators only; the recursion of `mergeMapping` written out for the three levels a configuration has |
| `Configuration` | from the selector to an accepted configuration | `Examine`, `ReadFiles`, `ComposeFile`, `Parse` |
| `Lifecycle` | `runServe`, `serveWithGracefulShutdown`, `Migrate`, the supervisor | `stage` is where `runServe` is; `Start` ... `NotifyContext`, `Accept`, `Answer`, `Signal`, `Shutdown` ... `Exit`, `Kill` |
| `Process` | `Lifecycle` with its step of reading the configuration taken apart into `Configuration` | `LoadStep`, `FinishLoad`, `Restart` |
| `MCZenIdp`, `MCBrowser`, `MCProcess` | instances for TLC | |
| `TypeProofs`, `LockProofs`, `GrantProofs`, `LimiterProofs`, `BrowserProofs`, `ProcessProofs` | proofs about the three compositions | |
| `MergeTheorems`, `FoldTheorems` | theorems about one level of the merge and about folds, as constants of the module would have them; `ProcessProofs` instantiates them with the operators of the model | |

Three compositions look at the program at three grains. `ZenIdp` cuts each handler
at its statements and leaves HTTP out. `Browser` takes each handler as one step and
keeps what the statements do to the session a cookie names, and adds what the
browser and the network do between handlers. `Process` has handlers that only run
and end, and adds the process around them.

How code becomes actions:

- A handler is cut at its SQL statements. Computation between two statements
  belongs to the action of the statement that follows or precedes it, where the
  code does it; a handler's `time.Now()` and its first statement are one step.
- Every guard is a condition or early return of the code. `req[r].ok` stands for
  the outcome of a comparison on bytes (password, TOTP, PKCE, redirect URI), chosen
  freely by `\E ok \in BOOLEAN`.
- `Format` cuts an instant to whole seconds, as `clock.Format` does; `Second` is
  the number of instants in one. Comparisons are the ones of the code: `Allow`,
  session and token expiry compare with the exact instant, the SQL purges and the
  upsert with a stored time.
- A set of rows is a table with its primary key; `package id` never repeats an
  identifier, which `usedIds` records. Equal audit records collapse into one.
- `Abort` ends a request at any statement, so an error path that the code
  returns on is always covered; what it did before stays.
- In `Browser` a request carries the cookies the jar held when it was sent, and
  `Set-Cookie` takes effect in `Receive`: between the two, other tabs go on. A query
  of `/authorize` is a record of its parameters; `Rules` lists the checks in the
  order of the code, and the first one broken is the error.
- In `Lifecycle` an error return is `Return("failure")`, followed by the deferred
  calls in their order; `Check` is a call of `runServe` that can fail.
- `heldPanic`, `heldAdmin`, `lockedOut`, `inherited` (`ZenIdp`), `stale`, `settled`
  (`Browser`) and `checked` (`Lifecycle`) are history variables. No guard reads them.
  `inherited` holds the counters a process found when it started.

## Checks

All runs but `process`, `browser`, `prompt_login` and `admin_form` use `MCZenIdp`;
`Handlers` chooses what takes part. Between them the passing runs fire every action.

| run | question | instance |
|---|---|---|
| `locks` | can anything pass a lock, undo a revocation, lift the other lock, or end a session for no reason of its own? `TypeOK`, `LockGate`, `LockedOutForGood`, `LocksIndependent`, `SessionsEndForCause` | 2 requests, 3 sessions of a user and of the administrator, one instant |
| `deploys` | is anything granted against the running configuration, and is a code redeemed once? `ConfigGate`, `Redemption` | 2 requests, four configurations (added, removed, rotated, expiring), 2 instants |
| `limits` | do budget, window and lockout hold, for keys that two limiters share and across deploys that change the settings? `AttemptsBound`, `LockoutEnds`, `WindowFixed`, `LockoutLiftedOnlyBySuccess` | 2 requests, two settings (budgets of 1 and 2, windows of 1 and 2 seconds, so that a deploy lowers or raises, shortens or lengthens them), seconds of 2 instants, 3 instants, two identifiers of one user and one that is the name of the client, no session identifiers (a login ends where its session would be created, for no property here looks at one), purges |
| `enrollment` | one reveal per link, recorded, at its revision? `RevealGate`, `Redemption` | 2 requests, 2 links, rotation, lost state file |
| `cleanup` | only dead rows, and all of them? `PurgesOnlyDeadRows`, `Reclaimed` | 5 instants, seconds of 2, purges that fail |
| `process` | does a process touch nothing before its checks, migrate before use, end, and tell the truth about how? `TypeOK`, `GracefulExit`, `MigratedBeforeUse`, `RejectedTouchesNothing`, `ShutdownEnds`. Is every file read once, nothing overridden or lost, the namespace unique, the verdict independent of names? `SourcesOnce`, `NothingSilentlyWins`, `NothingLost`, `OwnerUnique`, `NamesIrrelevant` | 2 requests, 2 migrations; every tree of 3 matched paths and every 3 of 16 documents; 623,262 states |
| `browser` | are forms accepted, landings registered, codes and ages as requested, one sign-in enough, and GETs harmless? `TypeOK`, `FormsAccepted`, `LandsRegistered`, `CodeMeetsRequest`, `OneLoginIsEnough`, `ChangedBySubmission` | 2 tabs (one goes everywhere, the other opens a form of its own), 2 tokens, 2 sessions, 6 requests, seconds of 2 instants, 3 instants; lost connections, a reopened browser, sessions that end elsewhere; 1.45 million states |

Five more runs show findings (below): `late_login`, `userinfo_session`, `revival`,
`prompt_login` and `admin_form`.

**Bounds.** Two requests in flight are enough for every race between two
statements of two handlers. One subject suffices because handlers of different
subjects share nothing but the counters and the id space, and counters get two
identifiers in `limits`. The theorems remove these bounds: they hold for any number
of requests, subjects, identifiers and instants. `MaxTime` bounds the clock, the
identifier sets bound how many records are ever created, and `Handlers` which
handlers an instance exercises. In `limits`, `cleanup` and `browser` a second has
two instants, so that every rounding difference appears; elsewhere one.

A browser needs two tabs, since what disturbs a tab is an answer to another one;
tokens and sessions that no cookie, form or message holds any more are used again,
so two of each do not bound how often pages are asked for. `Addresses` and `Faults` keep the
second tab to the pages that set the anti-forgery cookie. In `process` two
migrations allow a kill between them and the requests of a second process; the
counters of a process start afresh, so restarts are not bounded.

**Views and symmetry.** Requests, tokens and record identifiers are interchangeable: no
definition orders or names them, and the `CHOOSE` of the refinement mapping is
over singletons (`GrantProofs!TheOneSingle` and the uniqueness part of
`TokenInv`). Symmetry is not used in the runs with liveness. Handlers write the audit log
and never read it, so `mcView` leaves it out where no property mentions it; `mcRevealView`
keeps the records that `RevealGate` needs. The history variables are in every view, except
that `mcView` leaves out `inherited`, which only the properties of `limits` mention, and
`mcLimitView` keeps only the inherited rows that can decide one of them: a count above the
budget or an end beyond the window of the running process. A row that is neither can
not become so before the next deploy, because the clock only brings an end nearer, and
that deploy replaces `inherited`. The instant of the pass is left out there too: without
sessions and tokens it has nothing to purge after the counters.

**Fairness.** Nothing is assumed of people or of handlers in general, since a person
need not send a request and any statement may fail.

- `CleanupFairness`: the ticker of `runCleanupLoop` starts a pass again whatever
  happened to the last, so each purge is tried again and again. It may fail and end
  the pass, which is why fairness is strong and per purge: a purge that can succeed
  infinitely often does. `Reclaimed` rests on it. A purge that fails for ever, and starves
  those behind it, is assumed away, not shown impossible.
- `ProcessSpec`: the main goroutine, once signalled, goes on (`Ending`), and the
  timer of the shutdown context fires (`Deadline`). No handler and no purge is
  assumed to end, for no timeout of the server ends them. `ShutdownEnds` rests on it.
- `PatientSpec`: answers are given and arrive, and a person who is shown the sign-in
  form again and again submits it again and again with the right proof. It makes the
  counterexample of `prompt_login` one of the program rather than of an idle person.

**Deadlock** is checked everywhere except in the runs of `MCBrowser`, where a person
may stop with nothing left to open or to submit. In `process` it shows that every
stage, with any request or pass still running, has a next step.

**Mutants.** Each property comes with a small change of a mapped definition that
TLC finds to violate it, such as `Unconsumed` without `consumed_at IS NULL`, a
window that slides, or an unlock that clears both locks. They stand beside the
definitions they change.

## Findings

Each is a run that TLC finds violated; the quotations are in `PROJECT.json`.

1. `late_login`: a login that has passed `IsLocked` creates its session after a
   concurrent lock revoked "every session". The session is refused as long as the
   lock stays and works when it is lifted.
2. `userinfo_session`: access tokens are issued without `jti`, so the session
   check of `/userinfo` never runs, and the endpoint answers after logout. The
   documentation says that it "enforces session state".
3. `revival`: a session ended by rotating the TOTP revision is usable again if
   the revision is set back, because deploys leave the rows in place.
4. `prompt_login`: `/authorize` sends every request with `prompt=login` to the
   sign-in form, and a successful sign-in sends the browser back to `/authorize`
   with the same query. The person signs in for ever; with the same instance and a
   request without `prompt`, `SignInCompletes` holds.
5. `admin_form`: the administrator's sign-in form after a wrong password is rendered
   without an anti-forgery token, so the next submission is answered by the 403 page
   whatever was entered. Every other form is rendered with the token of the cookie.

Two things are recorded as hazards rather than findings, since the code does what it
says. `IsLocked` reads two tables one after the other; each single lock is never
passed, which is what `LockGate` states. And limiter keys have no prefix: people can
type the name of a client or `admin-login` as a login. `ratelimit/doc.go:19` asks its
callers for keys that do not collide, and none keeps to it, so failures of one domain
spend the budget of another. No property assumes the contrary: `AttemptsBound` and
`LockoutEnds` say what still bounds a counter that several limiters use, and the
`limits` run has such a key.

The settings of a limiter can change in a deploy too, and a row does not tell under
which it was counted. A process can therefore find more failures than its budget
would have let through, or a window longer than its own. Those rows, and no others, are
`Inherited` in the two properties, which say that nothing is added to the former and
nothing put off beyond the latter.

Without the exemption `RepeatsKey`, `NamesIrrelevant` fails too: a file that gives a
nested key twice is accepted when an earlier file already has the parent mapping
and the two occurrences merge, and rejected by the decoder when it comes first. No
document promises otherwise, so it is recorded as a hazard rather than a finding.

## Proofs

TLAPS checks these for every value of the constants, under the named assumptions
of the modules (`SecondAssumption`, `IdentifiersAssumption`, `ServerAssumption`,
`LoginAssumption`, `TokenEndpointAssumption`,
`AdminConsoleAssumption`, `EnrollmentAssumption`, `CleanupAssumption`,
`NobodyAssumption`, `RequestsAssumption`, `MigrationsAssumption`, `BrowserAssumption`,
`InputsAssumption`).
TLC evaluates all of them in the runs of `MCZenIdp`, `MCProcess` and `MCBrowser`. That `Owner` is a function, in
`LoginAssumption`, is what `OwnersAreUnique` proves of the configuration pipeline. That
`Requests` is finite, in `RequestsAssumption`, is only used where requests are counted.
`InputsAssumption` says no more than that paths and documents are what the directory walk
and the decoder build: sequences, and mappings of entries down to the third level.

Every invariant that a passing run checks is a theorem, and so is every action property.

| theorem | says | argument |
|---|---|---|
| `TypeCorrect` | `TypeOK` | `TypeInv` adds which local variables are set at which stage: a request that is about to use a subject has one. `TypeOK` alone is not inductive, because the row a request creates takes its columns from `req`. |
| `LocksGateEveryGrant` | `LockGate` | `LockInv`: past the first read a request's subject is not in `heldPanic`, past the second not in `heldAdmin`; both shrink only, and a lock set after the request began is never in them |
| `LocksStayIndependent` | `LocksIndependent` | one case per action; only `ApplyLockChange` and a lost state file remove locks |
| `GrantsFollowConfiguration` | `ConfigGate` | `ConfigInv`: at each stage after the check, subject and revision agree with `users`, which only a restart changes, and a restart ends all requests |
| `RevealsAreRecorded` | `RevealGate` | `ConfigInv` also says that the record is in the log or beyond its retention; the cleanup instant is never in the future |
| `SessionsEndWithReason` | `SessionsEndForCause` | `CarriedInv`: the identifier a request carries towards a deletion was generated, and the row that has it, if any, is the session it was read from (or is past its end, where that is the reason). The administrator's sign-out looks at neither kind nor secret, but identifiers are unique, so it ends the one session its cookie names. Needs `AdminSubject \notin Subjects`, which the code does not check: a lock of a user with the sub `admin` would sign the administrator out |
| `LockedOutSessionsStayGone` | `LockedOutForGood` | `SessionInv`: identifiers are used once, so no later session has that of a deleted one |
| `TokensAreOneUse` | `Redemption` | `TokenInv`: a redeemed token is not live, not granted and has one holder. Each action maps to `Issue`, `Take`, `Grant`, `Lose` or a stutter |
| `NeverTwice` | `OneUseTokens!Exclusive` | from `TokensAreOneUse` and the invariant of `OneUse`, in which the two parts support each other: whatever is held has been issued. One code yields tokens at most once, one link its secret at most once |
| `WindowsStayFixed` | `WindowFixed` | `CounterInv`: a key has one counter, and a request that will record a failure began it in the past. The handlers are first classified: a step leaves the counters alone or shrinks them (`Calm`), passes `Allow` (`Passes`), or records a failure (`Fails`); the rest of the proof has three cases |
| `LockoutsAreServed` | `LockoutLiftedOnlyBySuccess` | by handler: only a purge, a success of that key, or a lost state file deletes a counter, and a purge none that is in force; as the window and the count of a row that stays are fixed (`WindowsStayFixed`), only the clock or a larger budget makes `Allow` answer otherwise |
| `BudgetsHold` | `AttemptsBound` | `BudgetInv`: the failures counted and the requests past `Allow` together are fewer than the budget and all requests together, of a limiter that counts the key; a failure that is recorded moves one request from the latter to the former. A deploy ends every request, so that what it finds bounds what its process can reach. No assumption about keys or settings |
| `LockoutsEnd` | `LockoutEnds` | `BudgetInv`: an end is a whole second, at most one window of the limiter from the instant of a request in the past, or it was there at the start |
| `PurgesSpareTheLiving` | `PurgesOnlyDeadRows` | `PassBegan`: the instant of the pass is not in the future, and `Format` is monotone |
| `GracefulExits` | `GracefulExit` | `Inv`: the store is open at every stage from `migrate` to `shutdown`, a handler that fails for want of it, or runs on to the exit, implies that the result is a failure |
| `AlwaysMigrated` | `MigratedBeforeUse` | `Inv`: from `build` on, through any number of kills and restarts, the schema is complete as long as the process lives |
| `ProcessImplementsLifecycle`, `ProcessKeeps`, `ProcessTypes` | `GracefulExit`, `MigratedBeforeUse`, `TypeOK` of the process that reads its configuration file by file | a step of the load changes nothing of the process, and its verdict is a `LoadConfiguration`; the properties carry over |
| `RejectedNeverTouches` | `RejectedTouchesNothing` | `AcceptedOK`: `checked` says how far this process has come, `Afresh` and `Start` forget what an earlier one read, and only an accepted outcome lets `stage` pass `configuration`. One case per action of `Step` |
| `SourcesReadOnce` | `SourcesOnce` | `FoundOK`: what is recorded for a file is the first among the paths examined so far that lead to it, so the order of examination cancels out |
| `NothingWinsSilently`, `OwnersAreUnique` | `NothingSilentlyWins`, `OwnerUnique` | `LoadInv`, below |
| `NothingIsLost` | `NothingLost` | `ItemsAgree`: the lists of the merged document are those of the documents composed so far, one after the other |
| `NamesAreIrrelevant` | `NamesIrrelevant` | `AcceptsIff`: a verdict on documents that repeat no nested key is `Acceptable`, in which no order occurs |
| `BrowserTypes` | `Browser!TypeOK` | `TypeInv` adds the types of messages under way. Every handler is first shown to be an `Answer` (a response whose page, redirect, cookies and effects are as the other proofs need them), and every step to be one of `KindOfStep` |
| `FormsStayAcceptable` | `FormsAccepted` | `CookieInv`: the token of every request, answer and page is that of the cookie, unless the browser was reopened or an answer to a request without a cookie came in later |
| `LandingsAreRegistered` | `LandsRegistered` | `LandingInv`: the page of a client, on the screen or under way, is at an address registered for the client of the request or hint |
| `CodesMeetRequests` | `CodeMeetsRequest` | also `LandingInv`; that whole seconds compare as the code compares them is `WholeAge`, about `\div` for any length of a second |
| `OneSignInSuffices` | `OneLoginIsEnough` | `SettledInv`: from the answer to a sign-in to the code, the tab carries the session of the cookie, and what refuses a session for a request goes on refusing it |
| `OnlySubmissionsChange` | `ChangedBySubmission` | one case per kind of step; a handler that changes anything is past `Verify` |

Every step proof has a lemma per handler, and those rest on lemmas about `Begin`,
`Goto` and `Finish`, so a new handler needs one lemma in each proof. `LimiterProofs` does
the arithmetic of rounding once, in lemmas about `\div`, for `Format` and `WindowEnd`.

**The configuration.** What is proved of accepted configurations holds for any number of
files with any contents, and rests on one idea. A document takes *names*: the primitives
it defines at each level, the identifiers of its users, the ids of its clients. It has a
*shape* or not (known keys of the right kinds), and is *faulty* if one of its parts breaks
a rule of its own or two of them take one name. `MergeTheorems!MergeAddsUp` says that a
merge unites the names and is faulty where one side is or both take a name; it is proved
for one level, given the same of the level below, and instantiated three times.
`FoldTheorems!FoldLaw` carries that over to any sequence of documents. `ValidIff` says
that `Decodes` and `validate`, which only look at the merged result, ask for exactly this:
the shape, no fault, and the two settings that have no default. `LoadInv` states it of the documents
composed so far; that names differ is then a fact about pairs of files, and symmetric.

An induction over a sequence is a proof by the least counterexample
(`FoldTheorems!LeastElement`, from the well-foundedness of the naturals), stated for a set
instead of a predicate, since theorems with an operator as a parameter cannot be cited.
`FoldLeftTrace` and `FlattenTrace` first show that the `CHOOSE` in the library's folds names a function that
exists. The operators that a fold uses are constants of `FoldTheorems` for the same reason.

Before they were proved, TLC checked `LoadInv` and `ItemsAgree` as invariants of `ProcessSpec`
on small instances.

Model-checked only: `Reclaimed` and `ShutdownEnds`, since liveness under fairness is out of
the prover's reach. The findings are counterexamples, so there is nothing to prove of them.

## Not modelled

- Cryptography, TOTP steps, JWT, JWK and key generation, random and time-ordered
  identifiers: byte computations without state, represented by their verdict or by a
  value that is not used yet.
- YAML text (anchors, aliases, tags, environment variables; also the sorting and
  re-marshalling between two files, which can move an alias before its anchor), the
  syntax of single settings, claims and UI settings: a document is the tree it decodes to, and a
  setting is well formed or not. A file that cannot be read is one that is not well
  formed.
- Deploys that change the session lifetime, the audit retention or the clients: a
  deploy changes the users and the rate limits, and the rest is CONSTANT. Two rows of a
  table can therefore not have been written under different lifetimes, and no client
  is withdrawn between the form and its submission: the second validation of the query
  in POST /login, which could only then fail, is left out.
- In `Browser`, a submission forged by another site and a cookie the service did not set.
- Requests that start on a kept-alive connection after a failed `Serve` or an overdue
  `Shutdown`: until then `Accept` takes requests while the server shuts down, too.
- The values of `runtimeconfig` and where each comes from: its `Load` is a check
  that can fail and creates the state file.
- The detail and actor of audit records and the paginated list: written, never read
  by a handler that decides anything.
- Discovery, JWKS, robots, assets, health, headers, QR images and the layout of
  pages: they read and change no state.
- The transport timeouts of `net/http`, the commands `validate-config`,
  `generate-secrets` and `health`, and command-line parsing.
- A second process on the same state file: the documentation asks for one active
  instance.
- Scripts, installers, examples, end-to-end tests and documentation.

## Plan

The order was: tables and requests; the handlers that create and end sessions;
codes and tokens; the console and enrollment; cleanup; the configuration
pipeline; types, locks, configuration, sessions and redemption proved; then the
browser and its pages, the process from start to exit, its composition with the
configuration, and the limiter, the purges, the process, the browser and the
configuration pipeline proved. Left,
by importance:

1. The TOTP window and the step comparison as a module of pure functions, checked
   against a reference definition.
2. An abstract specification of the limiter (a budget per window) and of a session
   (usable until ended once), implemented by `ZenIdp` as `OneUse` is; and `Browser`
   as an abstraction of `ZenIdp`.
3. A second instance that is started on the same state file.
