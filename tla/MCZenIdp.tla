-------------------------------- MODULE MCZenIdp --------------------------------
(***************************************************************************)
(* Instances of ZenIdp for TLC.  The .cfg files choose the handlers and    *)
(* the bounds.                                                             *)
(***************************************************************************)
EXTENDS ZenIdpProperties, TLC

\* "alias" is the idp_login of alice; every other identifier that is not a
\* subject belongs to nobody.
mcOwner == [i \in Identifiers |->
              IF i \in Subjects THEN i
              ELSE IF i = "alias" THEN "alice" ELSE NoSubject]

mcUser(declared, rev, expiresAt) ==
  [u \in Subjects |-> [declared |-> declared, rev |-> rev, expiresAt |-> expiresAt]]

\* One configuration that never changes.
mcStable == {mcUser(TRUE, 0, Never)}

\* A user added, removed, rotated and given an expiration, in any order.
mcDeploys == {mcUser(TRUE, 0, Never), mcUser(TRUE, 1, Never),
              mcUser(FALSE, 0, Never), mcUser(TRUE, 0, 1)}

\* The TOTP credential of the user is rotated, and rotated back.
mcRotations == {mcUser(TRUE, 0, Never), mcUser(TRUE, 1, Never)}

\* Rate limits: what a user and what a client may fail, and for how long.
mcLimit(u, uw, c, cw) == [user |-> [max |-> u, window |-> uw * Second],
                          client |-> [max |-> c, window |-> cw * Second]]

mcStrict == {mcLimit(1, 1, 1, 1)}

\* A deploy may lower the budget of a user and lengthen the window, or back.
mcLimitDeploys == {mcLimit(2, 1, 1, 1), mcLimit(1, 2, 2, 1)}

\* Requests and record identifiers are interchangeable.
mcSymmetry == Permutations(Requests) \cup Permutations(SessionIds)
                \cup Permutations(TokenIds)

\* The audit log is written and never read by the handlers: runs whose
\* properties do not mention it identify states that differ only there.
mcView == <<now, users, limits, cleaner, process, sessions, lockTables, tokens,
            counters, issued, history>>

\* Without sessions and tokens only the counters are purged, with the instant of
\* the step.  Of the counters found at the last start, those beyond the settings
\* of the process: the properties ask for no other, and none gets beyond them
\* later.
mcLimitView ==
  <<now, users, limits, cleaner.purge, process, sessions, lockTables, tokens,
    counters, issued, history,
    {i \in inherited : \A l \in LimitersOf(i.key) :
       \/ i.attempts >= limits[l].max + Cardinality(Requests)
       \/ i.resetAt > Format(now + limits[l].window)}>>

\* Of the audit log, what the enrollment page must have written.
mcRevealView == <<mcView, {a \in audit : a.category = "enrollment_token_consumed"}>>
=============================================================================
