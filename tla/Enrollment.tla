------------------------------- MODULE Enrollment -------------------------------
(***************************************************************************)
(* Enrollment links: the administrator creates a one-use token             *)
(* (server/admin.go processEnrollmentToken), and whoever opens the link    *)
(* redeems it for the TOTP secret of the subject (server/enroll.go).       *)
(***************************************************************************)
EXTENDS AdminConsole

CONSTANT EnrollmentLifetimes   \* the validities an administrator may submit

ASSUME EnrollmentAssumption == EnrollmentLifetimes \subseteq Nat \ {0}

EnrollmentBegin(r, u) ==
  /\ AdminLive
  /\ users[u].declared
  /\ Begin(r, "enrollmentToken", "enrollment.create",
           [Blank EXCEPT !.at = now, !.sub = u, !.rev = users[u].rev,
                         !.category = "enrollment_token_created"])
  /\ UNCHANGED <<tables, world, issued>>

CreateEnrollment(r) ==
  /\ At(r, "enrollment.create")
  /\ \E id \in TokenIds \ usedIds, validity \in EnrollmentLifetimes :
       /\ CreateOneUseToken(
            [id |-> id, kind |-> "enrollment", sub |-> req[r].sub,
             rev |-> req[r].rev, client |-> NoClient, authTime |-> 0,
             expiresAt |-> Format(req[r].at + validity), consumed |-> FALSE])
       /\ usedIds' = usedIds \cup {id}
  /\ Goto(r, "audit")
  /\ UNCHANGED <<sessions, lockTables, counters, audit, world, req, output, history>>

\* ConsumeEnrollment, with one instant for the whole handler.
EnrollBegin(r) ==
  \E t \in tokens :
    /\ t.kind = "enrollment"
    /\ Begin(r, "enroll",
             IF now < t.expiresAt THEN "enroll.consume" ELSE "enroll.dropExpired",
             [Blank EXCEPT !.at = now, !.id = t.id, !.sub = t.sub, !.rev = t.rev,
                           !.category = "enrollment_token_consumed"])
    /\ UNCHANGED <<tables, world, issued>>

EnrollDropExpired(r) ==
  /\ At(r, "enroll.dropExpired")
  /\ DeleteOneUseToken(req[r].id)
  /\ Finish(r)
  /\ UNCHANGED <<sessions, lockTables, counters, audit, world, issued>>

\* Mutant of Enrollable: any revision of the token.
EnrollableAtAnyRevision(u, rev, t) == Current(u, t)

\* userEnrollable: declared, unexpired, and at the revision of the token.
\* Locks play no part.
Enrollable(u, rev, t) == Current(u, t) /\ users[u].rev = rev

EnrollConsume(r) ==
  /\ At(r, "enroll.consume")
  /\ ConsumeOneUseToken(req[r].id)
  /\ IF Unconsumed(req[r].id) # {} /\ Enrollable(req[r].sub, req[r].rev, req[r].at)
     THEN Goto(r, "audit") /\ UNCHANGED <<req, history>>
     ELSE Finish(r)
  /\ UNCHANGED <<sessions, lockTables, counters, audit, world, issued>>

\* The page with the QR code, after the audit record.
EnrollReveal(r) ==
  /\ At(r, "enroll.reveal")
  /\ reveals' = reveals \cup
       {[sub |-> req[r].sub, token |-> req[r].id, rev |-> users[req[r].sub].rev]}
  /\ Finish(r)
  /\ UNCHANGED <<tables, world, usedIds, bearers>>

EnrollmentStep(r) ==
  \/ \E u \in Subjects : EnrollmentBegin(r, u)
  \/ CreateEnrollment(r)
  \/ EnrollBegin(r)
  \/ EnrollDropExpired(r)
  \/ EnrollConsume(r)
  \/ EnrollReveal(r)
=============================================================================
