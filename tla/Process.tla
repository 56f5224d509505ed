--------------------------------- MODULE Process ---------------------------------
(***************************************************************************)
(* The server process together with the configuration it starts from:      *)
(* module Lifecycle, in which reading the configuration is taken apart as  *)
(* module Configuration has it.  A process that is started again reads the *)
(* same files: what a deploy changes is the subject of module ZenIdp.      *)
(***************************************************************************)
EXTENDS Lifecycle, Configuration

ProcessInit == Init /\ LoadInit

\* One step of configloader.Load.
LoadStep == stage = "configuration" /\ Load /\ UNCHANGED vars

\* Mutant of Loaded: the error is dropped.
LoadedAnyway == outcome # "loading"

Loaded == outcome = "accepted"

\* The local variables of loadFiles and Parse before they begin, and again once
\* they have returned.
Afresh ==
  /\ pending' = DOMAIN input.paths /\ found' = [t \in Targets |-> Nowhere]
  /\ order' = <<>> /\ next' = 1 /\ merged' = <<>>
  /\ UNCHANGED input

\* The verdict of configloader.Load decides whether runServe goes on.
FinishLoad ==
  /\ outcome # "loading" /\ LoadConfiguration
  /\ (stage' = "open") <=> Loaded
  /\ Afresh /\ UNCHANGED outcome

\* A new process knows nothing of what an earlier one has read.
Restart == Start /\ Afresh /\ outcome' = "loading"

ProcessNext ==
  \/ Restart \/ LoadStep \/ FinishLoad
  \/ Step /\ UNCHANGED loadVars

ProcessSpec ==
  /\ ProcessInit /\ [][ProcessNext]_<<vars, loadVars>>
  /\ WF_<<vars, loadVars>>(Ending /\ UNCHANGED loadVars)
  /\ WF_<<vars, loadVars>>(Deadline /\ UNCHANGED loadVars)

-----------------------------------------------------------------------------
(* Properties *)

\* A configuration that is rejected, or not read to its end, stops the process
\* before it migrates the store, purges a row or accepts a request (serve.go
\* runServe; clockcheck/check.go: "fail safely before any state is touched").
RejectedTouchesNothing ==
  [][/\ file' /\ ~file => "clock" \in checked
     /\ schema' > schema \/ cleaner' = "pass" \/ (\E r \in Requests : request'[r] = "running")
          => outcome = "accepted" /\ checked = {"clock", "runtime", "configuration"}]_<<vars, loadVars>>
=============================================================================
