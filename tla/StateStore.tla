------------------------------ MODULE StateStore ------------------------------
(***************************************************************************)
(* The disposable state database: the tables of internal/statestore as     *)
(* sets of rows, and one operator per SQL statement the program runs on    *)
(* them.  SQLite executes each statement (and each WithTx transaction)     *)
(* atomically and in isolation, so a statement is one state change.        *)
(*                                                                         *)
(* Columns that no decision of the program reads back (secret digests, IP  *)
(* address, user agent, nonce, scope) are left out; the redirect URI and   *)
(* the PKCE challenge of a code are represented by the outcome of          *)
(* comparing them (field "ok" of a request, module Server).                *)
(***************************************************************************)
EXTENDS Integers, FiniteSets

CONSTANTS
  Subjects,      \* the sub values that a configuration may declare
  AdminSubject,  \* the sub stored in administrator sessions (session.go)
  Clients,       \* client identifiers that reach the token endpoint
  SessionIds,    \* record identifiers of sessions
  TokenIds,      \* record identifiers of one-use tokens
  LimitKeys,     \* keys of the rate-limit counters
  Second         \* instants in one second, the precision of stored times

ASSUME SecondAssumption == Second \in Nat \ {0}

\* package id draws every identifier from one space and never repeats one.
ASSUME IdentifiersAssumption == SessionIds \cap TokenIds = {}

VARIABLES
  sessions,      \* table sessions
  panicLocks,    \* table panic_locks: the locked subjects
  adminLocks,    \* table admin_locks: the locked subjects
  tokens,        \* table one_use_tokens
  counters,      \* table rate_limit_counters
  audit          \* table audit_records (equal records collapse)

tables == <<sessions, panicLocks, adminLocks, tokens, counters, audit>>
lockTables == <<panicLocks, adminLocks>>

NoSubject == "no-subject"   \* the NULL sub of an audit record
NoClient  == "no-client"    \* the NULL client of an enrollment token

UserSessionRow == [id : SessionIds, kind : {"user"}, sub : Subjects, rev : Nat,
                   createdAt : Nat, expiresAt : Nat]

AdminSessionRow == [id : SessionIds, kind : {"admin"}, sub : {AdminSubject},
                    rev : {0}, createdAt : Nat, expiresAt : Nat]

TokenRow == [id : TokenIds, kind : {"enrollment", "code"}, sub : Subjects,
             rev : Nat, client : Clients \cup {NoClient}, authTime : Nat,
             expiresAt : Nat, consumed : BOOLEAN]

CounterRow == [key : LimitKeys, attempts : Nat, resetAt : Nat]

Categories == {"admin_authentication", "enrollment_token_created",
               "enrollment_token_consumed", "lock_change", "panic_action",
               "session_revoked", "rate_limit"}

AuditRow == [category : Categories, sub : Subjects \cup {NoSubject}, at : Nat]

StoreTypeOK ==
  /\ sessions \in SUBSET (UserSessionRow \cup AdminSessionRow)
  /\ panicLocks \in SUBSET Subjects
  /\ adminLocks \in SUBSET Subjects
  /\ tokens \in SUBSET TokenRow
  /\ counters \in SUBSET CounterRow
  /\ audit \in SUBSET AuditRow

StoreInit ==
  /\ sessions = {} /\ tokens = {} /\ counters = {} /\ audit = {}
  /\ panicLocks = {} /\ adminLocks = {}

-----------------------------------------------------------------------------
\* Mutant of Format: the second before.
FormatPreviousSecond(t) == t - Second

\* internal/clock: every stored time is cut to whole seconds.
Format(t) == t - (t % Second)

-----------------------------------------------------------------------------
(* Table sessions *)

CreateSession(row) == sessions' = sessions \cup {row}

RevokeSession(id) == sessions' = {s \in sessions : s.id # id}

\* Mutant of WithoutSubject: deletes administrator sessions only.
WithoutAdminOf(sub) == {s \in sessions : s.sub # sub \/ s.kind = "user"}

\* Deletes by sub alone: the kind of the session plays no part.
WithoutSubject(sub) == {s \in sessions : s.sub # sub}

\* Mutant of DeleteExpiredSessions: compares the wrong column.
DeleteSessionsCreatedBy(t) ==
  sessions' = {s \in sessions : s.createdAt > Format(t)}

DeleteExpiredSessions(t) ==
  sessions' = {s \in sessions : s.expiresAt > Format(t)}

(* Tables panic_locks and admin_locks: is there a row for sub *)

\* Mutant of GetPanicLock and GetAdminLock: the row is never found.
NoLockRow(sub) == FALSE

GetPanicLock(sub) == sub \in panicLocks

GetAdminLock(sub) == sub \in adminLocks

(* Table one_use_tokens *)

CreateOneUseToken(row) == tokens' = tokens \cup {row}

\* Mutant of Unconsumed: without "consumed_at IS NULL".
AnyOneUseToken(id) == {t \in tokens : t.id = id}

\* The rows the UPDATE of ConsumeOneUseToken affects: their number decides who
\* redeems the token.
Unconsumed(id) == {t \in tokens : t.id = id /\ ~t.consumed}

ConsumeOneUseToken(id) ==
  tokens' = {IF t.id = id THEN [t EXCEPT !.consumed = TRUE] ELSE t : t \in tokens}

DeleteOneUseToken(id) == tokens' = {t \in tokens : t.id # id}

\* Mutant of DeleteExpiredOneUseTokens: forgets the tokens nobody redeemed.
DeleteExpiredConsumedTokens(t) ==
  tokens' = {row \in tokens : row.expiresAt >= Format(t) \/ ~row.consumed}

DeleteExpiredOneUseTokens(t) ==
  tokens' = {row \in tokens : row.expiresAt >= Format(t)}

(* Table rate_limit_counters *)

CounterOf(key) == {c \in counters : c.key = key}

\* Mutant of RecordRateLimitAttempt: every failure restarts the window.
RecordSlidingAttempt(key, resetAt, updatedAt) ==
  LET open == {c \in CounterOf(key) : c.resetAt > updatedAt}
  IN  counters' = (counters \ CounterOf(key)) \cup
        IF open = {} THEN {[key |-> key, attempts |-> 1, resetAt |-> resetAt]}
        ELSE {[c EXCEPT !.attempts = @ + 1, !.resetAt = resetAt] : c \in open}

\* The upsert: a missing row or one whose window has ended (resetAt <= updatedAt)
\* starts a window with one attempt, any other row counts one more.
RecordRateLimitAttempt(key, resetAt, updatedAt) ==
  LET open == {c \in CounterOf(key) : c.resetAt > updatedAt}
  IN  counters' = (counters \ CounterOf(key)) \cup
        IF open = {} THEN {[key |-> key, attempts |-> 1, resetAt |-> resetAt]}
        ELSE {[c EXCEPT !.attempts = @ + 1] : c \in open}

DeleteRateLimitCounter(key) == counters' = counters \ CounterOf(key)

\* Mutant of DeleteExpiredRateLimitCounters: the comparison inverted.
DeleteOpenRateLimitCounters(t) ==
  counters' = {c \in counters : c.resetAt < Format(t)}

DeleteExpiredRateLimitCounters(t) ==
  counters' = {c \in counters : c.resetAt >= Format(t)}

(* Table audit_records *)

CreateAuditRecord(category, sub, t) ==
  audit' = audit \cup {[category |-> category, sub |-> sub, at |-> Format(t)]}

DeleteAuditRecordsBefore(t) == audit' = {a \in audit : a.at > Format(t)}
=============================================================================
