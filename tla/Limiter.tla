-------------------------------- MODULE Limiter --------------------------------
(***************************************************************************)
(* internal/ratelimit: attempts per key over fixed windows.  Three limiters *)
(* (logins, the administrator, client authentication) share one table, and *)
(* the first two share one pair of settings.                               *)
(*                                                                         *)
(* Allow only reads; the failure it stands for is recorded by a later      *)
(* statement, so any number of requests can pass Allow before the first of *)
(* them records its failure.  Nor does a row say under which settings it   *)
(* was counted: a process reads those it finds with the settings it has.   *)
(***************************************************************************)
EXTENDS Server

userLimit == limits.user
clientLimit == limits.client

\* Mutant of Allow: one attempt more than the budget.
AllowOneMore(limit, key, t) ==
  \A c \in CounterOf(key) : t >= c.resetAt \/ c.attempts <= limit.max

\* A key may attempt unless its window is open and its budget is spent.
Allow(limit, key, t) ==
  \A c \in CounterOf(key) : t >= c.resetAt \/ c.attempts < limit.max

\* Mutant of RecordFailure: the end of the window keeps its fraction of a second.
RecordFailureUnrounded(limit, key, t) ==
  RecordRateLimitAttempt(key, t + limit.window, Format(t))

RecordFailure(limit, key, t) ==
  RecordRateLimitAttempt(key, Format(t + limit.window), Format(t))

Reset(key) == DeleteRateLimitCounter(key)
=============================================================================
