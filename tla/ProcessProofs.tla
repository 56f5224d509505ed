------------------------------ MODULE ProcessProofs ------------------------------
(***************************************************************************)
(* The server process and the configuration it starts from.                *)
(*                                                                         *)
(* A process that reports success cut no request short, and nothing ever   *)
(* uses a store with migrations missing, for any number of requests and    *)
(* migrations.  The invariant says at which stages the store is open, the  *)
(* result is known and requests can be running.  Reading the configuration *)
(* file by file implements the one step that it is there.                  *)
(*                                                                         *)
(* What an accepted configuration is follows from LoadInv, for any files:  *)
(* it relates the document merged so far to the documents composed so far  *)
(* through the names they take (the primitives they define, the            *)
(* identifiers of their users, the ids of their clients) and the faults in *)
(* them.  ValidIff says what the decoder and the validation ask in those   *)
(* terms, and names taken twice are at fault in whatever order the files   *)
(* come.                                                                   *)
(***************************************************************************)
EXTENDS Process, FiniteSetTheorems, TLAPS

-----------------------------------------------------------------------------
(* The process, for which reading the configuration is one step *)

\* Stages at which runServe has not returned, those of them at which the
\* store is open, and those at which it is migrated.
Serving == {"serve", "shutdown"}
Migrated == {"build", "listen", "notify"} \cup Serving
Opened == {"migrate"} \cup Migrated
Unreturned == {"clock", "runtime", "configuration", "open"} \cup Opened
Returned == {"stopCleanup", "closeStore", "return"}

\* What a request can be found to be.
RequestOK ==
  \A r \in Requests :
    /\ request[r] = "running" => stage \in Serving \cup Returned /\ file /\ schema = Migrations
    /\ request[r] = "running" /\ stage = "return" => result = "failure"
    /\ request[r] = "failed" => result = "failure"
    /\ request[r] = "cut" => stage = "down" /\ result # "success"

\* What the stage says of the rest.
StageOK ==
  /\ stage \in Unreturned => result = "none"
  /\ stage \in Returned => result # "none"
  /\ stage \in Opened => db
  /\ stage \in {"configuration", "open"} \cup Opened => file
  /\ stage \in Migrated => schema = Migrations
  /\ cleaner # "none" => stage \in {"listen", "notify"} \cup Serving \cup Returned /\ file /\ schema = Migrations

\* The inductive invariant.
Inv == TypeOK /\ StageOK /\ RequestOK /\ GracefulExit

\* It holds of a process that has not started yet.
LEMMA InitInv == Init => Inv
<1> SUFFICES ASSUME Init PROVE Inv
  OBVIOUS
<1>1. schema \in 0..Migrations
  BY MigrationsAssumption DEF Init
<1>2. TypeOK
  BY <1>1, Zenon DEF Init, TypeOK, Stages, Fates
<1>3. StageOK /\ RequestOK /\ GracefulExit
  BY DEF Init, StageOK, RequestOK, GracefulExit, Serving, Migrated, Opened, Unreturned, Returned
<1> QED
  BY <1>2, <1>3 DEF Inv

\* Every step of the startup preserves it (serve.go runServe).
LEMMA StartupInv == Inv /\ (Start \/ Startup \/ LoadConfiguration) => Inv'
<1> SUFFICES ASSUME Inv PROVE (Start \/ Startup \/ LoadConfiguration) => Inv'
  OBVIOUS
<1> USE MigrationsAssumption
    DEF Inv, TypeOK, StageOK, RequestOK, GracefulExit, Stages, Fates,
        Serving, Migrated, Opened, Unreturned, Returned
<1>1. CASE Start
  BY <1>1 DEF Start
<1>2. CASE CheckClock
  BY <1>2 DEF CheckClock, Check, Return
<1>3. CASE LoadRuntime
  BY <1>3 DEF LoadRuntime, validateStateDBLocation, Check, Return
<1>4. CASE LoadConfiguration
  BY <1>4 DEF LoadConfiguration, Check, Return
<1>5. CASE OpenStateStore
  BY <1>5 DEF OpenStateStore, Return
<1>6. CASE Migrate
  <2>1. CASE Pending /\ schema' = schema + 1 /\ UNCHANGED <<stage, result>>
    <3>1. schema' \in 0..Migrations
      BY <2>1 DEF Pending
    <3> QED
      BY <1>6, <2>1, <3>1 DEF Migrate
  <2>2. CASE ~Pending /\ stage' = "build" /\ UNCHANGED <<schema, result>>
    <3>1. schema = Migrations
      BY <2>2 DEF Pending
    <3> QED
      BY <1>6, <2>2, <3>1 DEF Migrate
  <2>3. CASE Return("failure") /\ UNCHANGED schema
    BY <1>6, <2>3 DEF Migrate, Return
  <2> QED
    BY <1>6, <2>1, <2>2, <2>3 DEF Migrate
<1>7. CASE Build
  <2>1. CASE stage' = "listen" /\ cleaner' = "pass" /\ UNCHANGED result
    BY <1>7, <2>1 DEF Build
  <2>2. CASE Return("failure") /\ UNCHANGED cleaner
    BY <1>7, <2>2 DEF Build, Return
  <2> QED
    BY <1>7, <2>1, <2>2 DEF Build
<1>8. CASE Listen
  BY <1>8 DEF Listen, Return
<1>9. CASE NotifyContext
  BY <1>9 DEF NotifyContext, processVars
<1> QED
  BY <1>1, <1>2, <1>3, <1>4, <1>5, <1>6, <1>7, <1>8, <1>9 DEF Startup

\* So do requests, purges and signals.
LEMMA WorkInv ==
  ASSUME Inv,
         (\E r \in Requests : Accept(r) \/ Answer(r)) \/ EndPass \/ StartPass \/ Signal \/ Deadline
  PROVE  Inv'
<1> USE MigrationsAssumption
    DEF Inv, TypeOK, StageOK, RequestOK, GracefulExit, Stages, Fates,
        Serving, Migrated, Opened, Unreturned, Returned
<1>1. ASSUME NEW r \in Requests, Accept(r) PROVE Inv'
  BY <1>1 DEF Accept
<1>2. ASSUME NEW r \in Requests, Answer(r) PROVE Inv'
  BY <1>2 DEF Answer
<1>3. CASE EndPass
  BY <1>3 DEF EndPass
<1>4. CASE StartPass
  BY <1>4 DEF StartPass
<1>5. CASE Signal
  BY <1>5 DEF Signal
<1>6. CASE Deadline
  BY <1>6 DEF Deadline
<1> QED
  BY <1>1, <1>2, <1>3, <1>4, <1>5, <1>6

\* And the end of the process, in order or not, and what happens to the file
\* while there is none.
LEMMA EndInv == Inv /\ (Ending \/ ServeError \/ Kill \/ LoseFile) => Inv'
<1> SUFFICES ASSUME Inv PROVE (Ending \/ ServeError \/ Kill \/ LoseFile) => Inv'
  OBVIOUS
<1> USE MigrationsAssumption
    DEF Inv, TypeOK, StageOK, RequestOK, GracefulExit, Stages, Fates,
        Serving, Migrated, Opened, Unreturned, Returned
<1>1. CASE BeginShutdown
  BY <1>1 DEF BeginShutdown, processVars
<1>2. CASE Shutdown
  BY <1>2 DEF Shutdown, Drained, Return
<1>3. CASE StopCleanup
  BY <1>3 DEF StopCleanup
<1>4. CASE CloseStore
  BY <1>4 DEF CloseStore
<1>5. CASE Exit
  BY <1>5 DEF Exit, Die, Ended
<1>6. CASE ServeError
  BY <1>6 DEF ServeError, Return
<1>7. CASE Kill
  BY <1>7 DEF Kill, Die, Ended
<1>8. CASE LoseFile
  <2>1. schema' \in 0..Migrations
    BY <1>8 DEF LoseFile
  <2> QED
    BY <1>8, <2>1 DEF LoseFile, processVars
<1> QED
  BY <1>1, <1>2, <1>3, <1>4, <1>5, <1>6, <1>7, <1>8 DEF Ending

\* Nothing changes in a step of somebody else.
LEMMA StutterInv == Inv /\ UNCHANGED vars => Inv'
  BY DEF Inv, TypeOK, StageOK, RequestOK, GracefulExit, vars, processVars

\* Every step preserves it.
LEMMA NextInv == Inv /\ [Next]_vars => Inv'
  BY StartupInv, WorkInv, EndInv, StutterInv DEF Next, Step

\* The invariant holds in every state of every behaviour.
THEOREM Invariance == Spec => []Inv
  BY InitInv, NextInv, PTL DEF Spec

\* The variables keep their types.
THEOREM LifecycleTypes == Spec => []TypeOK
<1>1. Inv => TypeOK
  BY DEF Inv
<1> QED
  BY Invariance, <1>1, PTL

\* A process that reports success has answered every request it accepted
\* (serve.go serveWithGracefulShutdown).
THEOREM GracefulExits == Spec => []GracefulExit
<1>1. Inv => GracefulExit
  BY DEF Inv
<1> QED
  BY Invariance, <1>1, PTL

\* No request and no purge meets a schema with migrations missing (serve.go
\* runServe, statestore/migrate.go).
THEOREM AlwaysMigrated == Spec => []MigratedBeforeUse
<1>1. Inv => MigratedBeforeUse
  BY DEF Inv, StageOK, RequestOK, MigratedBeforeUse
<1> QED
  BY Invariance, <1>1, PTL

-----------------------------------------------------------------------------
(* Reading the configuration is that step *)

\* A step of the load leaves the process alone, and its verdict is a LoadConfiguration.
LEMMA LoadImplements == [ProcessNext]_<<vars, loadVars>> => [Next]_vars
<1>1. Restart => Next
  BY DEF Restart, Next
<1>2. LoadStep => UNCHANGED vars
  BY DEF LoadStep
<1>3. FinishLoad => Next
  BY DEF FinishLoad, Next
<1>4. Step => Next
  BY DEF Next
<1> QED
  BY <1>1, <1>2, <1>3, <1>4 DEF ProcessNext

\* The process that composes and parses its files one by one implements the
\* one that reads its configuration in a step (configloader.Load).
THEOREM ProcessImplementsLifecycle == ProcessSpec => Spec
<1>1. ProcessInit => Init
  BY DEF ProcessInit
<1> QED
  BY <1>1, LoadImplements, PTL DEF ProcessSpec, Spec

\* What of the process, wherever it was killed, goes through to the end only
\* with an accepted configuration.
Beyond == {"open"} \cup Opened
Checks == {"clock", "runtime", "configuration"}
AcceptedOK ==
  /\ stage = "clock" => checked = {}
  /\ stage = "runtime" => checked = {"clock"}
  /\ stage = "configuration" => checked = {"clock", "runtime"}
  /\ \/ stage \in Beyond
     \/ cleaner # "none"
     \/ \E r \in Requests : request[r] = "running"
     => outcome = "accepted" /\ checked = Checks

\* It holds before the process has started.
LEMMA InitAccepted == ProcessInit => AcceptedOK
  BY DEF ProcessInit, Init, AcceptedOK, Beyond, Opened, Migrated, Serving

\* Start forgets, and only the verdict of configloader.Load lets runServe go on.
LEMMA EarlyAccepted ==
  ASSUME Inv, AcceptedOK, Restart \/ LoadStep \/ FinishLoad
  PROVE  AcceptedOK'
<1> USE DEF AcceptedOK, Beyond, Checks, Opened, Migrated, Serving
<1>1. CASE Restart
  <2>1. cleaner = "none"
    BY <1>1 DEF Restart, Start, Inv, StageOK, Returned
  <2> QED
    BY <1>1, <2>1 DEF Restart, Start
<1>2. CASE LoadStep
  <2>1. cleaner = "none" /\ \A r \in Requests : request[r] # "running"
    BY <1>2 DEF LoadStep, Inv, StageOK, RequestOK, Returned
  <2> QED
    BY <1>2, <2>1 DEF LoadStep, vars, processVars
<1>3. CASE FinishLoad
  <2>1. stage' = "open" => outcome = "accepted"
    BY <1>3 DEF FinishLoad, Loaded
  <2>2. cleaner = "none" /\ \A r \in Requests : request[r] # "running"
    BY <1>3 DEF FinishLoad, LoadConfiguration, Check, Inv, StageOK, RequestOK, Returned
  <2> QED
    BY <1>3, <2>1, <2>2 DEF FinishLoad, LoadConfiguration, Check, Return
<1> QED
  BY <1>1, <1>2, <1>3

\* The rest of a process leaves the verdict alone.
LEMMA StepAccepted ==
  ASSUME Inv, AcceptedOK, Step, UNCHANGED loadVars
  PROVE  AcceptedOK'
<1>0. UNCHANGED outcome
  BY DEF loadVars
<1> USE <1>0 DEF AcceptedOK, Beyond, Checks, Opened, Migrated, Serving
<1>1. CASE CheckClock
  <2>1. cleaner = "none" /\ (\A r \in Requests : request[r] # "running")
    BY <1>1 DEF CheckClock, Check, Inv, StageOK, RequestOK, Returned
  <2> QED
    BY <1>1, <2>1 DEF CheckClock, Check, Return
<1>2. CASE LoadRuntime
  BY <1>2 DEF LoadRuntime, Check, Return, Inv, StageOK, RequestOK, Returned
<1>3. CASE OpenStateStore \/ Migrate \/ Listen
  BY <1>3 DEF OpenStateStore, Migrate, Listen, Return
<1>4. CASE Build \/ NotifyContext
  BY <1>4 DEF Build, NotifyContext, Return, processVars
<1>5. CASE \E r \in Requests : Accept(r) \/ Answer(r)
  <2>1. PICK r \in Requests : Accept(r) \/ Answer(r)
    BY <1>5
  <2>2. CASE Accept(r)
    BY <2>2 DEF Accept, Inv, TypeOK
  <2>3. CASE Answer(r)
    BY <2>3 DEF Answer, Inv, TypeOK
  <2> QED
    BY <2>1, <2>2, <2>3
<1>6. CASE EndPass \/ StartPass \/ Signal \/ Deadline
  BY <1>6 DEF EndPass, StartPass, Signal, Deadline
<1>7. CASE BeginShutdown \/ Shutdown \/ ServeError
  BY <1>7 DEF BeginShutdown, Shutdown, ServeError, Return, processVars
<1>8. CASE StopCleanup \/ CloseStore
  BY <1>8 DEF StopCleanup, CloseStore
<1>9. CASE Exit \/ Kill
  BY <1>9 DEF Exit, Kill, Die, Ended, Inv, TypeOK
<1>10. CASE LoseFile
  BY <1>10 DEF LoseFile, processVars
<1> QED
  BY <1>1, <1>2, <1>3, <1>4, <1>5, <1>6, <1>7, <1>8, <1>9, <1>10 DEF Step, Startup, Ending

\* Nothing changes in a step of somebody else.
LEMMA AcceptedStutter == AcceptedOK /\ UNCHANGED <<vars, loadVars>> => AcceptedOK'
  BY DEF AcceptedOK, Beyond, Checks, Opened, Migrated, Serving, vars, processVars, loadVars

\* Both invariants hold in every state.
LEMMA AcceptedInvariance == ProcessSpec => [](Inv /\ AcceptedOK)
<1>1. ProcessInit => Inv /\ AcceptedOK
  BY InitInv, InitAccepted DEF ProcessInit
<1>2. Inv /\ AcceptedOK /\ [ProcessNext]_<<vars, loadVars>> => (Inv /\ AcceptedOK)'
  <2>1. Inv /\ [ProcessNext]_<<vars, loadVars>> => Inv'
    BY LoadImplements, NextInv
  <2>2. Inv /\ AcceptedOK /\ [ProcessNext]_<<vars, loadVars>> => AcceptedOK'
    BY EarlyAccepted, StepAccepted, AcceptedStutter DEF ProcessNext
  <2> QED
    BY <2>1, <2>2
<1> QED
  BY <1>1, <1>2, PTL DEF ProcessSpec

\* The variables of the process keep their types, whatever it reads.
THEOREM ProcessTypes == ProcessSpec => []TypeOK
  BY ProcessImplementsLifecycle, LifecycleTypes, PTL

\* And what holds of the process that reads its configuration in a step holds
\* of the one that reads it file by file: no success with a request cut short,
\* no use of a store with migrations missing (serve.go runServe).
THEOREM ProcessKeeps == ProcessSpec => [](GracefulExit /\ MigratedBeforeUse)
  BY ProcessImplementsLifecycle, GracefulExits, AlwaysMigrated, PTL

\* A step that a rejected configuration, or one not read yet, must not allow
\* happens in no state but an accepted one.
LEMMA TouchingStep ==
  ASSUME Inv, AcceptedOK, ProcessNext
  PROVE  /\ file' /\ ~file => "clock" \in checked
         /\ schema' > schema \/ cleaner' = "pass" \/ (\E r \in Requests : request'[r] = "running")
              => outcome = "accepted" /\ checked = {"clock", "runtime", "configuration"}
<1> DEFINE touched == schema' > schema \/ cleaner' = "pass" \/ (\E r \in Requests : request'[r] = "running")
           clear == outcome = "accepted" /\ checked = {"clock", "runtime", "configuration"}
<1>0. schema \in Nat
  BY MigrationsAssumption DEF Inv, TypeOK
<1>1. ASSUME stage \in Beyond \/ cleaner # "none" \/ (\E r \in Requests : request[r] = "running")
      PROVE  clear
  BY <1>1 DEF AcceptedOK, Checks
<1>2. ASSUME UNCHANGED <<schema, cleaner, request>>
      PROVE  touched => clear
  BY <1>0, <1>1, <1>2
<1>3. ASSUME stage \in Beyond PROVE touched => clear
  BY <1>1, <1>3
<1> HIDE DEF touched, clear
<1>4. CASE Restart
  <2>1. UNCHANGED <<file, schema, cleaner>> /\ request' = [r \in Requests |-> "none"] /\ cleaner = "none"
    BY <1>4 DEF Restart, Start, Inv, StageOK, Returned, Serving
  <2>2. ~touched
    BY <2>1, <1>0 DEF touched
  <2> QED
    BY <2>1, <2>2 DEF touched, clear
<1>5. CASE LoadStep \/ FinishLoad
  <2>1. UNCHANGED <<file, schema, cleaner, request>>
    BY <1>5 DEF LoadStep, FinishLoad, LoadConfiguration, vars, processVars
  <2> QED
    BY <2>1, <1>2 DEF touched, clear
<1>6. CASE CheckClock \/ Signal \/ Deadline \/ ServeError \/ CloseStore \/ BeginShutdown \/ Shutdown
           \/ Listen \/ NotifyContext \/ OpenStateStore
  <2>1. UNCHANGED <<file, schema, cleaner, request>>
    BY <1>6 DEF CheckClock, Signal, Deadline, ServeError, CloseStore, BeginShutdown, Shutdown,
                Listen, NotifyContext, OpenStateStore, processVars
  <2> QED
    BY <2>1, <1>2 DEF touched, clear
<1>7. CASE LoadRuntime
  <2>1. UNCHANGED <<schema, cleaner, request>> /\ "clock" \in checked
    BY <1>7 DEF LoadRuntime, Check, AcceptedOK
  <2> QED
    BY <2>1, <1>2 DEF touched, clear
<1>8. CASE Migrate \/ Build \/ (\E r \in Requests : Accept(r))
  <2>1. UNCHANGED file
    BY <1>8 DEF Migrate, Build, Accept
  <2>2. stage \in Beyond
    BY <1>8 DEF Migrate, Build, Accept, Beyond, Opened, Migrated, Serving
  <2> QED
    BY <2>1, <2>2, <1>3 DEF touched, clear
<1>9. CASE (\E r \in Requests : Answer(r)) \/ EndPass \/ StartPass \/ StopCleanup
  <2>1. /\ UNCHANGED <<file, schema>>
        /\ cleaner' = "pass" => cleaner # "none"
        /\ (\E r \in Requests : request'[r] = "running") => \E r \in Requests : request[r] = "running"
    BY <1>9 DEF Answer, EndPass, StartPass, StopCleanup, Inv, TypeOK
  <2> QED
    BY <2>1, <1>0, <1>1 DEF touched, clear
<1>10. CASE Exit \/ Kill
  <2>1. /\ UNCHANGED <<file, schema>> /\ cleaner' = "none"
        /\ \A r \in Requests : request'[r] # "running"
    BY <1>10 DEF Exit, Kill, Die, Ended
  <2> QED
    BY <2>1, <1>0 DEF touched, clear
<1>11. CASE LoseFile
  <2>1. file' = FALSE /\ schema' = 0 /\ UNCHANGED <<cleaner, request>>
    BY <1>11 DEF LoseFile, processVars
  <2> QED
    BY <2>1, <1>0, <1>1 DEF touched, clear
<1> QED
  BY <1>4, <1>5, <1>6, <1>7, <1>8, <1>9, <1>10, <1>11 DEF ProcessNext, Step, Startup, Ending, touched, clear

\* A configuration that is rejected, or not read to its end, stops the process
\* before it migrates the store, purges a row or accepts a request (serve.go
\* runServe).
THEOREM RejectedNeverTouches == ProcessSpec => RejectedTouchesNothing
<1>1. Inv /\ AcceptedOK /\ [ProcessNext]_<<vars, loadVars>> =>
        [/\ file' /\ ~file => "clock" \in checked
         /\ schema' > schema \/ cleaner' = "pass" \/ (\E r \in Requests : request'[r] = "running")
              => outcome = "accepted" /\ checked = {"clock", "runtime", "configuration"}]_<<vars, loadVars>>
  BY TouchingStep
<1> QED
  BY AcceptedInvariance, <1>1, PTL DEF ProcessSpec, RejectedTouchesNothing

-----------------------------------------------------------------------------
(* The three levels of the merge *)

\* Below the third level nothing decodes.  A primitive takes its key as a name,
\* and is at fault when it is not what validate asks for.
noShape(s) == FALSE
noNames(s) == {}
noFault(s) == FALSE
keyNames(e) == {<<"key", e.key>>}
settingFaulty(e) ==
  \/ e.key \in {"issuer", "admin_password_hash"} /\ ~WellFormed(e.value.value)
  \/ e.key = "max_user_login_attempts" /\ e.value.value \notin 1..MaximumAttempts

Third == INSTANCE MergeTheorems WITH
  below <- mergeDeeper, WfBelow <- Deeper, ShapeBelow <- noShape, NamesBelow <- noNames, FaultyBelow <- noFault,
  Kinds <- [admin_password_hash |-> "scalar", max_user_login_attempts |-> "scalar"],
  leafNames <- keyNames, leafFaulty <- settingFaulty

securityShape(s) == Third!Shape(s)
securityNames(s) == Third!Names(s)
securityFaulty(s) == Third!Faulty(s)

Second == INSTANCE MergeTheorems WITH
  below <- mergeThird, WfBelow <- ThirdLevel,
  ShapeBelow <- securityShape, NamesBelow <- securityNames, FaultyBelow <- securityFaulty,
  Kinds <- [issuer |-> "scalar", security |-> "mapping"],
  leafNames <- keyNames, leafFaulty <- settingFaulty

configShape(s) == Second!Shape(s)
configNames(s) == Second!Names(s)
configFaulty(s) == Second!Faulty(s)

\* A user takes two names and a client one; the names of items in one list have
\* to differ as those of items in two files.
itemNames(key, x) == IF key = "users" THEN {<<"user", x.sub>>, <<"user", Login(x)>>} ELSE {<<"client", x.id>>}
itemFaulty(key, x) ==
  IF key = "users" THEN "" \in {x.sub, Login(x)}
  ELSE x.id = "" \/ ~(Len(x.redirect_uris) > 0) \/ ~IsInjective(x.redirect_uris)
listNames(e) == UNION {itemNames(e.key, e.value.items[i]) : i \in DOMAIN e.value.items}
listFaulty(e) ==
  \/ \E i \in DOMAIN e.value.items : itemFaulty(e.key, e.value.items[i])
  \/ \E i, j \in DOMAIN e.value.items :
       i # j /\ itemNames(e.key, e.value.items[i]) \cap itemNames(e.key, e.value.items[j]) # {}

First == INSTANCE MergeTheorems WITH
  below <- mergeSecond, WfBelow <- SecondLevel,
  ShapeBelow <- configShape, NamesBelow <- configNames, FaultyBelow <- configFaulty,
  Kinds <- [config |-> "mapping", users |-> "list", clients |-> "list"],
  leafNames <- listNames, leafFaulty <- listFaulty

\* The merge of module YamlMerge, level by level, is the one of MergeTheorems.
LEMMA ThirdMerge ==
  /\ \A d, s : mergeThird(d, s) = Third!merge(d, s)
  /\ \A s : ThirdLevel(s) <=> Third!Wf(s)
  /\ \A s : Unique(s) <=> Third!Unique(s)
<1>1. ASSUME NEW d, NEW s PROVE mergeThird(d, s) = Third!merge(d, s)
  BY DEF mergeThird, Third!merge, FoldLeft, Third!FoldLeft, MapThenFoldSet, Third!MapThenFoldSet,
         mergeThirdEntry, Third!step, mergeEntry, Third!mergeEntry, Positions, Third!Positions,
         joined, Third!joined, List, Third!List, Mapping, Third!Mapping, Max, Third!Max
<1>2. ASSUME NEW s PROVE ThirdLevel(s) <=> Third!Wf(s)
  BY DEF ThirdLevel, Third!Wf, Entries, Third!Entries, IsSequence, Third!IsSequence, ToSet, Third!ToSet,
         Entry, Third!Entry
<1>3. ASSUME NEW s PROVE Unique(s) <=> Third!Unique(s)
  BY DEF Unique, Third!Unique
<1> QED
  BY <1>1, <1>2, <1>3

\* The second level likewise.
LEMMA SecondMerge ==
  /\ \A d, s : mergeSecond(d, s) = Second!merge(d, s)
  /\ \A s : SecondLevel(s) <=> Second!Wf(s)
  /\ \A s : Unique(s) <=> Second!Unique(s)
<1>1. ASSUME NEW d, NEW s PROVE mergeSecond(d, s) = Second!merge(d, s)
  BY DEF mergeSecond, Second!merge, FoldLeft, Second!FoldLeft, MapThenFoldSet, Second!MapThenFoldSet,
         mergeSecondEntry, Second!step, mergeEntry, Second!mergeEntry, Positions, Second!Positions,
         joined, Second!joined, List, Second!List, Mapping, Second!Mapping, Max, Second!Max
<1>2. ASSUME NEW s PROVE SecondLevel(s) <=> Second!Wf(s)
  BY DEF SecondLevel, Second!Wf, Entries, Second!Entries, IsSequence, Second!IsSequence, ToSet, Second!ToSet,
         Entry, Second!Entry
<1>3. ASSUME NEW s PROVE Unique(s) <=> Second!Unique(s)
  BY DEF Unique, Second!Unique
<1> QED
  BY <1>1, <1>2, <1>3

\* And the whole document.
LEMMA FirstMerge ==
  /\ \A d, s : mergeMapping(d, s) = First!merge(d, s)
  /\ \A s : FirstLevel(s) <=> First!Wf(s)
  /\ \A s : Unique(s) <=> First!Unique(s)
<1>1. ASSUME NEW d, NEW s PROVE mergeMapping(d, s) = First!merge(d, s)
  BY DEF mergeMapping, First!merge, FoldLeft, First!FoldLeft, MapThenFoldSet, First!MapThenFoldSet,
         mergeFirstEntry, First!step, mergeEntry, First!mergeEntry, Positions, First!Positions,
         joined, First!joined, List, First!List, Mapping, First!Mapping, Max, First!Max
<1>2. ASSUME NEW s PROVE FirstLevel(s) <=> First!Wf(s)
  BY DEF FirstLevel, First!Wf, Entries, First!Entries, IsSequence, First!IsSequence, ToSet, First!ToSet,
         Entry, First!Entry
<1>3. ASSUME NEW s PROVE Unique(s) <=> First!Unique(s)
  BY DEF Unique, First!Unique
<1> QED
  BY <1>1, <1>2, <1>3

\* What a merge makes of a document's names and faults holds at each level
\* when it holds at the one below; the lowest merges nothing further.
LEMMA ThirdLaw == Third!MergeLaw
<1>1. Third!BelowLaw
  BY DEF Third!BelowLaw, mergeDeeper, Deeper, noShape, noNames, noFault, Third!Unique
<1>2. Third!LeafLaw
  <2>1. \A e, f : e.key = f.key => keyNames(e) \cap keyNames(f) # {}
    BY DEF keyNames
  <2>2. \A k \in {"admin_password_hash", "max_user_login_attempts"} :
          [admin_password_hash |-> "scalar", max_user_login_attempts |-> "scalar"][k] # "list"
    OBVIOUS
  <2>3. DOMAIN [admin_password_hash |-> "scalar", max_user_login_attempts |-> "scalar"] =
          {"admin_password_hash", "max_user_login_attempts"}
    OBVIOUS
  <2> QED
    BY <2>1, <2>2, <2>3, Zenon DEF Third!LeafLaw
<1> QED
  BY <1>1, <1>2, Third!MergeAddsUp

\* The settings of config, of which one is a mapping again.
LEMMA SecondLaw == Second!BelowLaw /\ Second!LeafLaw /\ Second!MergeLaw
<1>1. Second!BelowLaw
  <2>1. \A s : Second!Unique(s) <=> Third!Unique(s)
    BY DEF Second!Unique, Third!Unique
  <2> QED
    BY ThirdLaw, ThirdMerge, <2>1
       DEF Third!MergeLaw, Second!BelowLaw, securityShape, securityNames, securityFaulty
<1>2. Second!LeafLaw
  <2>1. \A e, f : e.key = f.key => keyNames(e) \cap keyNames(f) # {}
    BY DEF keyNames
  <2>2. \A k \in {"issuer", "security"} : [issuer |-> "scalar", security |-> "mapping"][k] # "list"
    OBVIOUS
  <2>3. DOMAIN [issuer |-> "scalar", security |-> "mapping"] = {"issuer", "security"}
    OBVIOUS
  <2> QED
    BY <2>1, <2>2, <2>3, Zenon DEF Second!LeafLaw
<1> QED
  BY <1>1, <1>2, Second!MergeAddsUp

\* Users and clients of two lists are those of the two lists joined.
LEMMA ListsAddUp ==
  ASSUME NEW k, NEW a, NEW b, IsSequence(a.items), IsSequence(b.items)
  PROVE  LET e == Entry(k, a)
             f == Entry(k, b)
             j == Entry(k, joined(a, b))
         IN  /\ listNames(j) = listNames(e) \cup listNames(f)
             /\ listFaulty(j) <=> listFaulty(e) \/ listFaulty(f) \/ listNames(e) \cap listNames(f) # {}
<1> DEFINE s == a.items
           t == b.items
           c == s \o t
           N(x) == itemNames(k, x)
           F(x) == itemFaulty(k, x)
           names(q) == UNION {N(q[i]) : i \in 1..Len(q)}
           faulty(q) == \/ \E i \in 1..Len(q) : F(q[i])
                        \/ \E i, j \in 1..Len(q) : i # j /\ N(q[i]) \cap N(q[j]) # {}
<1>1. /\ Len(s) \in Nat /\ Len(t) \in Nat /\ Len(c) = Len(s) + Len(t)
      /\ DOMAIN s = 1..Len(s) /\ DOMAIN t = 1..Len(t) /\ DOMAIN c = 1..Len(c)
      /\ \A i \in 1..Len(s) : i \in 1..Len(c) /\ c[i] = s[i]
      /\ \A i \in 1..Len(t) : Len(s) + i \in 1..Len(c) /\ c[Len(s) + i] = t[i]
  <2>1. s \in Seq(ToSet(s)) /\ t \in Seq(ToSet(t))
    BY DEF IsSequence
  <2>2. s \in Seq(ToSet(s) \cup ToSet(t)) /\ t \in Seq(ToSet(s) \cup ToSet(t))
    BY <2>1
  <2>3. c \in Seq(ToSet(s) \cup ToSet(t)) /\ Len(c) = Len(s) + Len(t)
    BY <2>2
  <2>4. Len(s) \in Nat /\ Len(t) \in Nat /\ DOMAIN s = 1..Len(s) /\ DOMAIN t = 1..Len(t) /\ DOMAIN c = 1..Len(c)
    BY <2>2, <2>3
  <2>0. First!IsSequence(s) /\ First!IsSequence(t)
    BY DEF IsSequence, First!IsSequence, ToSet, First!ToSet
  <2> HIDE DEF s, t
  <2>5. \A i \in 1..Len(s) : c[i] = s[i]
    BY <2>0, First!JoinedSequence
  <2>6. \A i \in 1..Len(t) : c[Len(s) + i] = t[i]
    BY <2>0, First!JoinedSequence
  <2> HIDE DEF c
  <2> QED
    BY <2>3, <2>4, <2>5, <2>6
<1>2. /\ listNames(Entry(k, a)) = names(s) /\ (listFaulty(Entry(k, a)) <=> faulty(s))
      /\ listNames(Entry(k, b)) = names(t) /\ (listFaulty(Entry(k, b)) <=> faulty(t))
      /\ listNames(Entry(k, joined(a, b))) = names(c) /\ (listFaulty(Entry(k, joined(a, b))) <=> faulty(c))
  BY <1>1 DEF listNames, listFaulty, Entry, joined, List
<1> HIDE DEF s, t, c
<1>3. \A i \in 1..Len(c) :
        i \notin 1..Len(s) => i - Len(s) \in 1..Len(t) /\ c[i] = t[i - Len(s)]
  <2> SUFFICES ASSUME NEW i \in 1..Len(c), i \notin 1..Len(s)
               PROVE  i - Len(s) \in 1..Len(t) /\ c[i] = t[i - Len(s)]
    OBVIOUS
  <2>1. i - Len(s) \in 1..Len(t)
    BY <1>1
  <2>2. c[Len(s) + (i - Len(s))] = t[i - Len(s)]
    BY <1>1, <2>1
  <2>3. Len(s) + (i - Len(s)) = i
    BY <1>1
  <2> QED
    BY <2>1, <2>2, <2>3
<1> HIDE DEF N, F
<1>4. names(c) = names(s) \cup names(t)
  <2>1. names(s) \subseteq names(c) /\ names(t) \subseteq names(c)
    BY <1>1
  <2>2. names(c) \subseteq names(s) \cup names(t)
    BY <1>1, <1>3
  <2> QED
    BY <2>1, <2>2
<1>5. ASSUME faulty(s) PROVE faulty(c)
  BY <1>1, <1>5
<1>6. ASSUME faulty(t) PROVE faulty(c)
  <2>1. \A i, j \in 1..Len(t) : i # j => Len(s) + i # Len(s) + j
    BY <1>1
  <2> QED
    BY <1>1, <1>6, <2>1
<1>7. ASSUME names(s) \cap names(t) # {} PROVE faulty(c)
  <2>1. PICK i \in 1..Len(s) : \E j \in 1..Len(t) : N(s[i]) \cap N(t[j]) # {}
    <3>1. PICK x : x \in names(s) /\ x \in names(t)
      BY <1>7
    <3>2. PICK i \in 1..Len(s) : x \in N(s[i])
      BY <3>1
    <3>3. PICK j \in 1..Len(t) : x \in N(t[j])
      BY <3>1
    <3> QED
      BY <3>2, <3>3
  <2>2. PICK j \in 1..Len(t) : N(s[i]) \cap N(t[j]) # {}
    BY <2>1
  <2>3. i # Len(s) + j
    BY <1>1
  <2> QED
    BY <2>2, <2>3, <1>1
<1>8. ASSUME faulty(c) PROVE faulty(s) \/ faulty(t) \/ names(s) \cap names(t) # {}
  <2>1. CASE \E i \in 1..Len(c) : F(c[i])
    BY <2>1, <1>1, <1>3
  <2>2. CASE \E i, j \in 1..Len(c) : i # j /\ N(c[i]) \cap N(c[j]) # {}
    <3>1. PICK i \in 1..Len(c), j \in 1..Len(c) : i # j /\ N(c[i]) \cap N(c[j]) # {}
      BY <2>2
    <3>2. CASE i \in 1..Len(s) /\ j \in 1..Len(s)
      BY <3>1, <3>2, <1>1
    <3>3. CASE i \in 1..Len(s) /\ j \notin 1..Len(s)
      <4>1. j - Len(s) \in 1..Len(t) /\ c[j] = t[j - Len(s)] /\ c[i] = s[i]
        BY <3>3, <1>1, <1>3
      <4>2. N(s[i]) \subseteq names(s) /\ N(t[j - Len(s)]) \subseteq names(t)
        BY <3>3, <4>1
      <4> QED
        BY <3>1, <4>1, <4>2
    <3>4. CASE i \notin 1..Len(s) /\ j \in 1..Len(s)
      <4>1. i - Len(s) \in 1..Len(t) /\ c[i] = t[i - Len(s)] /\ c[j] = s[j]
        BY <3>4, <1>1, <1>3
      <4>2. N(s[j]) \subseteq names(s) /\ N(t[i - Len(s)]) \subseteq names(t)
        BY <3>4, <4>1
      <4> QED
        BY <3>1, <4>1, <4>2
    <3>5. CASE i \notin 1..Len(s) /\ j \notin 1..Len(s)
      <4>1. /\ i - Len(s) \in 1..Len(t) /\ c[i] = t[i - Len(s)]
            /\ j - Len(s) \in 1..Len(t) /\ c[j] = t[j - Len(s)]
        BY <3>5, <1>3
      <4>2. i - Len(s) # j - Len(s)
        BY <3>1, <1>1
      <4> QED
        BY <3>1, <4>1, <4>2
    <3> QED
      BY <3>2, <3>3, <3>4, <3>5
  <2> QED
    BY <1>8, <2>1, <2>2
<1>9. faulty(c) <=> faulty(s) \/ faulty(t) \/ names(s) \cap names(t) # {}
  BY <1>5, <1>6, <1>7, <1>8
<1> HIDE DEF names, faulty
<1> QED
  BY <1>2, <1>4, <1>9, Zenon

\* The whole document, whose lists are users and clients.
LEMMA FirstLaw == First!BelowLaw /\ First!LeafLaw /\ First!MergeLaw
<1>1. First!BelowLaw
  <2>1. \A s : First!Unique(s) <=> Second!Unique(s)
    BY DEF First!Unique, Second!Unique
  <2> QED
    BY SecondLaw, SecondMerge, <2>1
       DEF Second!MergeLaw, First!BelowLaw, configShape, configNames, configFaulty
<1>2. First!LeafLaw
  <2>1. \A k \in {"config", "users", "clients"} :
          [config |-> "mapping", users |-> "list", clients |-> "list"][k] \in {"list", "mapping"}
    OBVIOUS
  <2>2. DOMAIN [config |-> "mapping", users |-> "list", clients |-> "list"] = {"config", "users", "clients"}
    OBVIOUS
  <2>3. ASSUME NEW k, NEW a, NEW b, First!IsSequence(a.items), First!IsSequence(b.items)
        PROVE  LET e == First!Entry(k, a)
                   f == First!Entry(k, b)
                   j == First!Entry(k, First!joined(a, b))
               IN  /\ listNames(j) = listNames(e) \cup listNames(f)
                   /\ listFaulty(j) <=> listFaulty(e) \/ listFaulty(f) \/ listNames(e) \cap listNames(f) # {}
    <3>1. IsSequence(a.items) /\ IsSequence(b.items)
      BY <2>3 DEF First!IsSequence, IsSequence, First!ToSet, ToSet
    <3>2. /\ First!Entry(k, a) = Entry(k, a) /\ First!Entry(k, b) = Entry(k, b)
          /\ First!Entry(k, First!joined(a, b)) = Entry(k, joined(a, b))
      BY DEF First!Entry, Entry, First!joined, joined, First!List, List
    <3> QED
      BY <3>1, <3>2, ListsAddUp
  <2>4. \A e, f : e.key = f.key /\ e.key \in DOMAIN [config |-> "mapping", users |-> "list", clients |-> "list"]
          /\ [config |-> "mapping", users |-> "list", clients |-> "list"][e.key] \notin {"list", "mapping"} =>
          listNames(e) \cap listNames(f) # {}
    BY <2>1, <2>2, Zenon
  <2> QED
    BY <2>3, <2>4 DEF First!LeafLaw
<1> QED
  BY <1>1, <1>2, First!MergeAddsUp

-----------------------------------------------------------------------------
(* What the decoder and the validation ask of a merged document *)

\* In a mapping without repeated keys, Child is the one node under the key.
LEMMA ChildIs ==
  ASSUME NEW s, IsSequence(s), Unique(s), NEW i \in DOMAIN s
  PROVE  Has(s, s[i].key) /\ Child(s, s[i].key) = s[i].value
<1>1. Positions(s, s[i].key) = {i}
  BY DEF Positions, Unique
<1>2. DOMAIN s = 1..Len(s) /\ Len(s) \in Nat
  BY DEF IsSequence
<1>3. Max({i}) = i
  <2>1. i \in Int
    BY <1>2
  <2> QED
    BY <2>1 DEF Max
<1> QED
  BY <1>1, <1>3 DEF Has, Child

\* And there is one under each key that a mapping has.
LEMMA HasIs ==
  ASSUME NEW s, IsSequence(s), Unique(s), NEW k, Has(s, k)
  PROVE  \E i \in DOMAIN s : s[i].key = k /\ Child(s, k) = s[i].value
<1>1. PICK i \in DOMAIN s : s[i].key = k
  BY DEF Has, Positions
<1> QED
  BY <1>1, ChildIs

\* The positions of a sequence.
LEMMA DomainIs == ASSUME NEW s, IsSequence(s) PROVE DOMAIN s = 1..Len(s) /\ Len(s) \in Nat
  BY DEF IsSequence

\* Names of one sort are the same only for the same thing.
LEMMA Tags ==
  /\ \A sort, a, b : <<sort, a>> = <<sort, b>> => a = b
  /\ \A sort, a, b : {<<sort, a>>} \cap {<<sort, b>>} # {} <=> a = b
  /\ \A sort, A, B : {<<sort, x>> : x \in A} \cap {<<sort, x>> : x \in B} = {} <=> A \cap B = {}
<1>1. \A sort, a, b : <<sort, a>> = <<sort, b>> => a = b
  OBVIOUS
<1>2. \A sort, a, b : {<<sort, a>>} \cap {<<sort, b>>} # {} <=> a = b
  BY <1>1, Zenon
<1>3. \A sort, A, B : {<<sort, x>> : x \in A} \cap {<<sort, x>> : x \in B} = {} <=> A \cap B = {}
  BY <1>1, Zenon
<1> QED
  BY <1>1, <1>2, <1>3

securityKinds == [admin_password_hash |-> "scalar", max_user_login_attempts |-> "scalar"]

\* config.security
LEMMA SecurityIff ==
  ASSUME NEW s, ThirdLevel(s)
  PROVE  /\ securityShape(s) /\ ~securityFaulty(s) <=>
              Fields(s, securityKinds) /\ \A i \in DOMAIN s : ~settingFaulty(s[i])
         /\ securityShape(s) => securityNames(s) = {<<"key", s[i].key>> : i \in DOMAIN s}
<1>1. IsSequence(s) /\ DOMAIN s = 1..Len(s)
  BY DomainIs DEF ThirdLevel, Entries
<1>2. securityShape(s) <=>
        \A i \in DOMAIN s : s[i].key \in DOMAIN securityKinds /\ s[i].value.kind = securityKinds[s[i].key]
  <2>1. \A k \in DOMAIN securityKinds : securityKinds[k] = "scalar"
    BY DEF securityKinds
  <2> QED
    BY <1>1, <2>1 DEF securityShape, Third!Shape, Third!EntryShape, noShape, securityKinds
<1>3. ASSUME securityShape(s), NEW i \in DOMAIN s
      PROVE  Third!EntryNames(s[i]) = {<<"key", s[i].key>>} /\ (Third!EntryFaulty(s[i]) <=> settingFaulty(s[i]))
  <2>1. s[i].value.kind # "mapping"
    BY <1>2, <1>3 DEF securityKinds
  <2> QED
    BY <2>1 DEF Third!EntryNames, Third!EntryFaulty, keyNames
<1>4. ASSUME securityShape(s)
      PROVE  securityFaulty(s) <=> ~Unique(s) \/ \E i \in DOMAIN s : settingFaulty(s[i])
  <2>1. \A i, j \in DOMAIN s :
          Third!EntryNames(s[i]) \cap Third!EntryNames(s[j]) # {} <=> s[i].key = s[j].key
    <3> SUFFICES ASSUME NEW i \in DOMAIN s, NEW j \in DOMAIN s
                 PROVE  Third!EntryNames(s[i]) \cap Third!EntryNames(s[j]) # {} <=> s[i].key = s[j].key
      OBVIOUS
    <3>1. {<<"key", s[i].key>>} \cap {<<"key", s[j].key>>} # {} <=> s[i].key = s[j].key
      BY Tags
    <3>2. Third!EntryNames(s[i]) = {<<"key", s[i].key>>} /\ Third!EntryNames(s[j]) = {<<"key", s[j].key>>}
      BY <1>3, <1>4
    <3> QED
      BY <3>1, <3>2, Zenon
  <2> QED
    BY <1>1, <1>3, <1>4, <2>1, Zenon DEF securityFaulty, Third!Faulty, Unique
<1>5. ASSUME securityShape(s)
      PROVE  securityNames(s) = {<<"key", s[i].key>> : i \in DOMAIN s}
  BY <1>1, <1>3, <1>5 DEF securityNames, Third!Names
<1> QED
  BY <1>2, <1>4, <1>5 DEF Fields

configKinds == [issuer |-> "scalar", security |-> "mapping"]

\* config
LEMMA ConfigIff ==
  ASSUME NEW s, SecondLevel(s), Unique(s)
  PROVE  /\ configShape(s) /\ ~configFaulty(s) <=>
              /\ Fields(s, configKinds)
              /\ Has(s, "issuer") => WellFormed(Child(s, "issuer").value)
              /\ Has(s, "security") => /\ ThirdLevel(Child(s, "security").entries)
                                      /\ securityShape(Child(s, "security").entries)
                                      /\ ~securityFaulty(Child(s, "security").entries)
         /\ configShape(s) =>
              configNames(s) =
                (IF Has(s, "issuer") THEN {<<"key", "issuer">>} ELSE {})
                  \cup (IF Has(s, "security") THEN securityNames(Child(s, "security").entries) ELSE {})
<1>1. IsSequence(s) /\ DOMAIN s = 1..Len(s)
  BY DomainIs DEF SecondLevel, Entries
<1>2. configShape(s) <=>
        /\ \A i \in DOMAIN s : s[i].key \in DOMAIN configKinds /\ s[i].value.kind = configKinds[s[i].key]
        /\ \A i \in DOMAIN s : s[i].value.kind = "mapping" => securityShape(s[i].value.entries)
  BY <1>1 DEF configShape, Second!Shape, Second!EntryShape, configKinds
<1>3. \A i \in DOMAIN s : s[i].value.kind = "mapping" => ThirdLevel(s[i].value.entries)
  BY DEF SecondLevel, Entries
<1>4. DOMAIN configKinds = {"issuer", "security"} /\ configKinds["issuer"] = "scalar"
        /\ configKinds["security"] = "mapping"
  BY DEF configKinds
<1>5. ASSUME NEW i \in DOMAIN s PROVE Has(s, s[i].key) /\ Child(s, s[i].key) = s[i].value
  BY <1>1, ChildIs
<1>6. ASSUME NEW k, Has(s, k) PROVE \E i \in DOMAIN s : s[i].key = k /\ Child(s, k) = s[i].value
  BY <1>1, <1>6, HasIs
<1>7. ASSUME configShape(s), NEW i \in DOMAIN s
      PROVE  \/ s[i].key = "issuer" /\ s[i].value.kind = "scalar" /\ Second!EntryNames(s[i]) = {<<"key", "issuer">>}
                  /\ (Second!EntryFaulty(s[i]) <=> ~WellFormed(s[i].value.value))
             \/ s[i].key = "security" /\ s[i].value.kind = "mapping" /\ securityShape(s[i].value.entries)
                  /\ Second!EntryNames(s[i]) = securityNames(s[i].value.entries)
                  /\ (Second!EntryFaulty(s[i]) <=> securityFaulty(s[i].value.entries))
  <2>1. s[i].key = "issuer" \/ s[i].key = "security"
    BY <1>2, <1>4, <1>7
  <2>2. CASE s[i].key = "issuer"
    <3>1. s[i].value.kind = "scalar"
      BY <1>2, <1>4, <1>7, <2>2
    <3>2. settingFaulty(s[i]) <=> ~WellFormed(s[i].value.value)
      BY <2>2 DEF settingFaulty
    <3> QED
      BY <2>2, <3>1, <3>2 DEF Second!EntryNames, Second!EntryFaulty, keyNames
  <2>3. CASE s[i].key = "security"
    <3>1. s[i].value.kind = "mapping"
      BY <1>2, <1>4, <1>7, <2>3
    <3> QED
      BY <2>3, <3>1, <1>2, <1>7 DEF Second!EntryNames, Second!EntryFaulty
  <2> QED
    BY <2>1, <2>2, <2>3
<1>8. ASSUME configShape(s), NEW i \in DOMAIN s, NEW j \in DOMAIN s, i # j
      PROVE  Second!EntryNames(s[i]) \cap Second!EntryNames(s[j]) = {}
  <2>1. s[i].key # s[j].key
    BY <1>8 DEF Unique
  <2>2. ASSUME NEW k \in DOMAIN s, s[k].key = "security"
        PROVE  <<"key", "issuer">> \notin Second!EntryNames(s[k])
    <3>1. securityShape(s[k].value.entries) /\ Second!EntryNames(s[k]) = securityNames(s[k].value.entries)
          /\ ThirdLevel(s[k].value.entries)
      BY <1>3, <1>7, <1>8, <2>2
    <3> DEFINE t == s[k].value.entries
    <3> HIDE DEF t
    <3>2. securityNames(t) = {<<"key", t[n].key>> : n \in DOMAIN t}
      BY <3>1, SecurityIff DEF t
    <3>3. \A n \in DOMAIN t : t[n].key \in {"admin_password_hash", "max_user_login_attempts"}
      <4>1. DOMAIN t = 1..Len(t)
        BY <3>1, DomainIs DEF t, ThirdLevel, Entries
      <4> QED
        BY <3>1, <4>1 DEF t, securityShape, Third!Shape, Third!EntryShape
    <3> QED
      BY <3>1, <3>2, <3>3 DEF t
  <2> QED
    BY <1>7, <1>8, <2>1, <2>2
<1>9. ASSUME configShape(s)
      PROVE  configFaulty(s) <=> \E i \in DOMAIN s : Second!EntryFaulty(s[i])
  BY <1>1, <1>8, <1>9 DEF configFaulty, Second!Faulty
<1>10. ASSUME configShape(s)
       PROVE  (\A i \in DOMAIN s : ~Second!EntryFaulty(s[i])) <=>
                /\ Has(s, "issuer") => WellFormed(Child(s, "issuer").value)
                /\ Has(s, "security") => ~securityFaulty(Child(s, "security").entries)
  BY <1>5, <1>6, <1>7, <1>10
<1>11. ASSUME configShape(s)
       PROVE  configNames(s) =
                (IF Has(s, "issuer") THEN {<<"key", "issuer">>} ELSE {})
                  \cup (IF Has(s, "security") THEN securityNames(Child(s, "security").entries) ELSE {})
  <2>1. configNames(s) = UNION {Second!EntryNames(s[i]) : i \in DOMAIN s}
    BY <1>1 DEF configNames, Second!Names
  <2> QED
    BY <2>1, <1>5, <1>6, <1>7, <1>11
<1>12. (\A i \in DOMAIN s : s[i].key \in DOMAIN configKinds /\ s[i].value.kind = configKinds[s[i].key]) <=>
         Fields(s, configKinds)
  BY DEF Fields
<1>13. ASSUME Fields(s, configKinds), Has(s, "security")
       PROVE  \E i \in DOMAIN s : s[i].key = "security" /\ s[i].value.kind = "mapping"
                                 /\ Child(s, "security") = s[i].value
  BY <1>4, <1>6, <1>13 DEF Fields
<1>14. configShape(s) <=>
         Fields(s, configKinds) /\ (Has(s, "security") => securityShape(Child(s, "security").entries))
  <2>1. ASSUME configShape(s), Has(s, "security") PROVE securityShape(Child(s, "security").entries)
    BY <1>2, <1>12, <1>13, <2>1
  <2>2. ASSUME Fields(s, configKinds), Has(s, "security") => securityShape(Child(s, "security").entries),
               NEW i \in DOMAIN s, s[i].value.kind = "mapping"
        PROVE  securityShape(s[i].value.entries)
    <3>1. s[i].key = "security"
      BY <2>2, <1>4 DEF Fields
    <3> QED
      BY <3>1, <2>2, <1>5
  <2> QED
    BY <1>2, <1>12, <2>1, <2>2
<1>15. ASSUME Fields(s, configKinds), Has(s, "security") PROVE ThirdLevel(Child(s, "security").entries)
  BY <1>3, <1>13, <1>15
<1> QED
  BY <1>9, <1>10, <1>11, <1>14, <1>15

\* The lists of users and clients, as the two loops check them.
LEMMA UsersIff ==
  ASSUME NEW items, DOMAIN items = 1..Len(items), Len(items) \in Nat
  PROVE  validateUsers([i \in DOMAIN items |-> [sub |-> items[i].sub, login |-> Login(items[i])]]) <=>
           /\ \A i \in DOMAIN items : ~itemFaulty("users", items[i])
           /\ \A i, j \in DOMAIN items :
                i # j => itemNames("users", items[i]) \cap itemNames("users", items[j]) = {}
<1> DEFINE users == [i \in DOMAIN items |-> [sub |-> items[i].sub, login |-> Login(items[i])]]
           ids(i) == {items[i].sub, Login(items[i])}
<1>1. DOMAIN users = DOMAIN items
  OBVIOUS
<1>2. \A i \in DOMAIN items : {users[i].sub, users[i].login} = ids(i) /\ identifiersOf(users[i]) = ids(i)
  BY DEF identifiersOf
<1>3. \A i \in DOMAIN items : itemFaulty("users", items[i]) <=> "" \in ids(i)
  BY DEF itemFaulty
<1>4. ASSUME NEW i \in DOMAIN items, NEW j \in DOMAIN items
      PROVE  itemNames("users", items[i]) \cap itemNames("users", items[j]) = {} <=> ids(i) \cap ids(j) = {}
  <2>1. \A k : itemNames("users", items[k]) = {<<"user", x>> : x \in ids(k)}
    BY DEF itemNames
  <2> HIDE DEF ids
  <2> QED
    BY <2>1, Tags
<1> HIDE DEF users, ids
<1>5. validateUsers(users) <=>
        \A i \in DOMAIN items : "" \notin ids(i) /\ \A j \in 1..(i - 1) : ids(i) \cap ids(j) = {}
  <2>1. \A i \in DOMAIN items : \A j \in 1..(i - 1) : j \in DOMAIN items
    OBVIOUS
  <2>2. ASSUME NEW i \in DOMAIN items
        PROVE  ({users[i].sub, users[i].login} \cap
                  ({""} \cup UNION {identifiersOf(users[j]) : j \in 1..(i - 1)}) = {}) <=>
               ("" \notin ids(i) /\ \A j \in 1..(i - 1) : ids(i) \cap ids(j) = {})
    <3>1. {identifiersOf(users[j]) : j \in 1..(i - 1)} = {ids(j) : j \in 1..(i - 1)}
      BY <1>2, <2>1, <2>2
    <3>2. {users[i].sub, users[i].login} = ids(i)
      BY <1>2
    <3>3. (UNION {ids(j) : j \in 1..(i - 1)}) \cap ids(i) = {} <=> \A j \in 1..(i - 1) : ids(i) \cap ids(j) = {}
      OBVIOUS
    <3> DEFINE U == UNION {ids(j) : j \in 1..(i - 1)}
    <3>4. UNION {identifiersOf(users[j]) : j \in 1..(i - 1)} = U
      BY <3>1
    <3> HIDE DEF U
    <3>5. (ids(i) \cap ({""} \cup U) = {}) <=> ("" \notin ids(i) /\ U \cap ids(i) = {})
      OBVIOUS
    <3> QED
      BY <3>2, <3>3, <3>4, <3>5 DEF U
  <2> QED
    BY <1>1, <2>2 DEF validateUsers
<1>6. (\A i \in DOMAIN items : \A j \in 1..(i - 1) : ids(i) \cap ids(j) = {}) <=>
        \A i, j \in DOMAIN items : i # j => ids(i) \cap ids(j) = {}
  <2>1. ASSUME \A i \in DOMAIN items : \A j \in 1..(i - 1) : ids(i) \cap ids(j) = {},
               NEW i \in DOMAIN items, NEW j \in DOMAIN items, i # j
        PROVE  ids(i) \cap ids(j) = {}
    <3>1. i \in 1..(j - 1) \/ j \in 1..(i - 1)
      BY <2>1
    <3>2. ids(i) \cap ids(j) = ids(j) \cap ids(i)
      OBVIOUS
    <3> QED
      BY <2>1, <3>1, <3>2
  <2>2. \A i \in DOMAIN items : \A j \in 1..(i - 1) : j \in DOMAIN items /\ i # j
    OBVIOUS
  <2> QED
    BY <2>1, <2>2
<1>7. validateUsers(users) <=>
        /\ \A i \in DOMAIN items : ~itemFaulty("users", items[i])
        /\ \A i, j \in DOMAIN items :
             i # j => itemNames("users", items[i]) \cap itemNames("users", items[j]) = {}
  <2>1. (\A i, j \in DOMAIN items : i # j => ids(i) \cap ids(j) = {}) <=>
          \A i, j \in DOMAIN items :
            i # j => itemNames("users", items[i]) \cap itemNames("users", items[j]) = {}
    BY <1>4
  <2>2. (\A i \in DOMAIN items : "" \notin ids(i)) <=> \A i \in DOMAIN items : ~itemFaulty("users", items[i])
    BY <1>3
  <2>3. validateUsers(users) <=> /\ \A i \in DOMAIN items : "" \notin ids(i)
                                /\ \A i \in DOMAIN items : \A j \in 1..(i - 1) : ids(i) \cap ids(j) = {}
    BY <1>5, Zenon
  <2> QED
    BY <2>1, <2>2, <2>3, <1>6, Zenon
<1> QED
  BY <1>7 DEF users

\* validateClients, said of the names and faults of the clients.
LEMMA ClientsIff ==
  ASSUME NEW items, DOMAIN items = 1..Len(items), Len(items) \in Nat
  PROVE  validateClients(items) <=>
           /\ \A i \in DOMAIN items : ~itemFaulty("clients", items[i])
           /\ \A i, j \in DOMAIN items :
                i # j => itemNames("clients", items[i]) \cap itemNames("clients", items[j]) = {}
<1>1. \A i \in DOMAIN items :
        ~itemFaulty("clients", items[i]) <=>
          items[i].id # "" /\ Len(items[i].redirect_uris) > 0 /\ IsInjective(items[i].redirect_uris)
  BY DEF itemFaulty
<1>2. \A i, j : itemNames("clients", items[i]) \cap itemNames("clients", items[j]) = {} <=> items[i].id # items[j].id
  <2>1. \A k : itemNames("clients", items[k]) = {<<"client", items[k].id>>}
    BY DEF itemNames
  <2> QED
    BY <2>1, Tags
<1>3. (\A i \in DOMAIN items : \A j \in 1..(i - 1) : items[j].id # items[i].id) <=>
        \A i, j \in DOMAIN items : i # j => items[i].id # items[j].id
  <2>1. ASSUME \A i \in DOMAIN items : \A j \in 1..(i - 1) : items[j].id # items[i].id,
               NEW i \in DOMAIN items, NEW j \in DOMAIN items, i # j
        PROVE  items[i].id # items[j].id
    <3>1. i \in 1..(j - 1) \/ j \in 1..(i - 1)
      BY <2>1
    <3> QED
      BY <2>1, <3>1
  <2>2. \A i \in DOMAIN items : \A j \in 1..(i - 1) : j \in DOMAIN items /\ i # j
    OBVIOUS
  <2> QED
    BY <2>1, <2>2
<1>4. validateClients(items) <=>
        /\ \A i \in DOMAIN items :
             items[i].id # "" /\ Len(items[i].redirect_uris) > 0 /\ IsInjective(items[i].redirect_uris)
        /\ \A i \in DOMAIN items : \A j \in 1..(i - 1) : items[j].id # items[i].id
  BY Zenon DEF validateClients
<1> QED
  BY <1>1, <1>2, <1>3, <1>4, Zenon

topKinds == [config |-> "mapping", users |-> "list", clients |-> "list"]
Required == {<<"key", "issuer">>, <<"key", "admin_password_hash">>}

\* The entries of a document that has no key twice: each key has its entry.
LEMMA FirstEntries ==
  ASSUME NEW es, FirstLevel(es), Unique(es)
  PROVE  /\ IsSequence(es) /\ DOMAIN es = 1..Len(es) /\ Len(es) \in Nat
         /\ \A i \in DOMAIN es : /\ es[i] = Entry(es[i].key, es[i].value)
                                 /\ es[i].value.kind = "list" => IsSequence(es[i].value.items)
                                 /\ es[i].value.kind = "mapping" => SecondLevel(es[i].value.entries)
         /\ \A i \in DOMAIN es : Has(es, es[i].key) /\ Child(es, es[i].key) = es[i].value
         /\ \A k : Has(es, k) => \E i \in DOMAIN es : es[i].key = k /\ Child(es, k) = es[i].value
<1>1. IsSequence(es)
  BY DEF FirstLevel, Entries
<1>2. \A i \in DOMAIN es : /\ es[i] = Entry(es[i].key, es[i].value)
                           /\ es[i].value.kind = "list" => IsSequence(es[i].value.items)
                           /\ es[i].value.kind = "mapping" => SecondLevel(es[i].value.entries)
  BY DEF FirstLevel, Entries
<1> QED
  BY <1>1, <1>2, DomainIs, ChildIs, HasIs

\* The names of a config mapping are keys.
LEMMA ConfigNamesAreKeys ==
  ASSUME NEW s, SecondLevel(s), Unique(s), configShape(s), NEW x \in configNames(s)
  PROVE  /\ \E k : x = <<"key", k>>
         /\ x = <<"key", "issuer">> => Has(s, "issuer")
<1>1. CASE x = <<"key", "issuer">> /\ Has(s, "issuer")
  BY <1>1
<1>2. CASE Has(s, "security") /\ x \in securityNames(Child(s, "security").entries)
  <2> DEFINE t == Child(s, "security").entries
  <2>1. ThirdLevel(t) /\ securityShape(t)
    <3>1. IsSequence(s) /\ DOMAIN s = 1..Len(s)
      BY DomainIs DEF SecondLevel, Entries
    <3>2. PICK i \in DOMAIN s : s[i].key = "security" /\ Child(s, "security") = s[i].value
      BY <1>2, <3>1, HasIs
    <3>3. s[i].value.kind = "mapping" /\ securityShape(s[i].value.entries)
      BY <3>1, <3>2 DEF configShape, Second!Shape, Second!EntryShape
    <3>4. ThirdLevel(s[i].value.entries)
      BY <3>3 DEF SecondLevel, Entries
    <3> QED
      BY <3>2, <3>3, <3>4
  <2> HIDE DEF t
  <2>2. PICK n \in DOMAIN t : x = <<"key", t[n].key>>
    BY <1>2, <2>1, SecurityIff DEF t
  <2>3. t[n].key \in {"admin_password_hash", "max_user_login_attempts"}
    <3>1. DOMAIN t = 1..Len(t)
      BY <2>1, DomainIs DEF ThirdLevel, Entries
    <3> QED
      BY <2>1, <3>1 DEF securityShape, Third!Shape, Third!EntryShape
  <2> QED
    BY <2>2, <2>3
<1> QED
  BY <1>1, <1>2, ConfigIff

\* config is accepted if it has the issuer and the hash and nothing at fault.
LEMMA SettingsIff ==
  ASSUME NEW c, SecondLevel(c), Unique(c)
  PROVE  configShape(c) /\ ~configFaulty(c) /\ Required \subseteq configNames(c) <=>
           LET t == Child(c, "security").entries IN
           /\ Fields(c, configKinds)
           /\ Has(c, "issuer") /\ WellFormed(Child(c, "issuer").value)
           /\ Has(c, "security") /\ Fields(t, securityKinds)
           /\ Has(t, "admin_password_hash") /\ WellFormed(Child(t, "admin_password_hash").value)
           /\ validateDocument(t)
<1> DEFINE t == Child(c, "security").entries
<1>1. IsSequence(c) /\ DOMAIN c = 1..Len(c)
  BY DomainIs DEF SecondLevel, Entries
<1>2. ASSUME Fields(c, configKinds), Has(c, "security") PROVE ThirdLevel(t) /\ IsSequence(t)
  <2>1. PICK i \in DOMAIN c : c[i].key = "security" /\ Child(c, "security") = c[i].value
    BY <1>1, <1>2, HasIs
  <2>2. c[i].value.kind = "mapping"
    BY <1>2, <2>1 DEF Fields, configKinds
  <2>3. ThirdLevel(t)
    BY <2>1, <2>2 DEF SecondLevel, Entries
  <2> QED
    BY <2>3 DEF ThirdLevel, Entries
<1> HIDE DEF t
<1>3. ASSUME ThirdLevel(t), Fields(t, securityKinds)
      PROVE  (\A i \in DOMAIN t : ~settingFaulty(t[i])) <=>
               /\ Has(t, "admin_password_hash") => WellFormed(Child(t, "admin_password_hash").value)
               /\ validateDocument(t)
  <2>1. IsSequence(t) /\ Unique(t)
    BY <1>3 DEF ThirdLevel, Entries, Fields
  <2>2. \A i \in DOMAIN t : Has(t, t[i].key) /\ Child(t, t[i].key) = t[i].value
    BY <2>1, ChildIs
  <2>3. \A k : Has(t, k) => \E i \in DOMAIN t : t[i].key = k /\ Child(t, k) = t[i].value
    BY <2>1, HasIs
  <2>4. \A i \in DOMAIN t : t[i].key \in {"admin_password_hash", "max_user_login_attempts"}
    BY <1>3 DEF Fields, securityKinds
  <2>5. \A i \in DOMAIN t : settingFaulty(t[i]) <=>
          \/ t[i].key = "admin_password_hash" /\ ~WellFormed(t[i].value.value)
          \/ t[i].key = "max_user_login_attempts" /\ t[i].value.value \notin 1..MaximumAttempts
    BY <2>4 DEF settingFaulty
  <2> QED
    BY <2>2, <2>3, <2>4, <2>5 DEF validateDocument
<1>4. ASSUME configShape(c), ~configFaulty(c), Required \subseteq configNames(c)
      PROVE  /\ Fields(c, configKinds)
             /\ Has(c, "issuer") /\ WellFormed(Child(c, "issuer").value)
             /\ Has(c, "security") /\ Fields(t, securityKinds)
             /\ Has(t, "admin_password_hash") /\ WellFormed(Child(t, "admin_password_hash").value)
             /\ validateDocument(t)
  <2>1. Fields(c, configKinds) /\ (Has(c, "issuer") => WellFormed(Child(c, "issuer").value))
          /\ (Has(c, "security") => ThirdLevel(t) /\ securityShape(t) /\ ~securityFaulty(t))
    BY <1>4, ConfigIff DEF t
  <2>2. Has(c, "issuer")
    BY <1>4, ConfigNamesAreKeys DEF Required
  <2>3. Has(c, "security") /\ <<"key", "admin_password_hash">> \in securityNames(t)
    <3>1. <<"key", "admin_password_hash">> # <<"key", "issuer">>
      OBVIOUS
    <3> QED
      BY <1>4, <3>1, ConfigIff DEF t, Required
  <2>4. ThirdLevel(t) /\ Fields(t, securityKinds) /\ (\A i \in DOMAIN t : ~settingFaulty(t[i]))
    BY <2>1, <2>3, SecurityIff
  <2>5. Has(t, "admin_password_hash")
    <3>1. PICK i \in DOMAIN t : <<"key", "admin_password_hash">> = <<"key", t[i].key>>
      BY <2>1, <2>3, SecurityIff
    <3>2. t[i].key = "admin_password_hash"
      BY <3>1
    <3> QED
      BY <3>2 DEF Has, Positions
  <2> QED
    BY <2>1, <2>2, <2>3, <2>4, <2>5, <1>3
<1>5. ASSUME /\ Fields(c, configKinds)
             /\ Has(c, "issuer") /\ WellFormed(Child(c, "issuer").value)
             /\ Has(c, "security") /\ Fields(t, securityKinds)
             /\ Has(t, "admin_password_hash") /\ WellFormed(Child(t, "admin_password_hash").value)
             /\ validateDocument(t)
      PROVE  configShape(c) /\ ~configFaulty(c) /\ Required \subseteq configNames(c)
  <2>1. ThirdLevel(t)
    BY <1>2, <1>5
  <2>2. securityShape(t) /\ ~securityFaulty(t)
    BY <1>3, <1>5, <2>1, SecurityIff
  <2>3. configShape(c) /\ ~configFaulty(c)
    BY <1>5, <2>1, <2>2, ConfigIff DEF t
  <2>4. <<"key", "admin_password_hash">> \in securityNames(t)
    <3>1. PICK i \in DOMAIN t : t[i].key = "admin_password_hash"
      BY <1>5 DEF Has, Positions
    <3> QED
      BY <2>1, <2>2, <3>1, SecurityIff
  <2>5. <<"key", "issuer">> \in configNames(c) /\ <<"key", "admin_password_hash">> \in configNames(c)
    BY <1>5, <2>3, <2>4, ConfigIff DEF t
  <2> QED
    BY <2>3, <2>5 DEF Required
<1> QED
  BY <1>4, <1>5 DEF t

\* A list of users, or of clients, is accepted if nothing in it is at fault.
LEMMA ListsIff ==
  ASSUME NEW es, FirstLevel(es), Unique(es),
         \A i \in DOMAIN es : es[i].key \in {"users", "clients"} => es[i].value.kind = "list"
  PROVE  /\ validateUsers(Users(es)) <=> \A i \in DOMAIN es : es[i].key = "users" => ~listFaulty(es[i])
         /\ validateClients(Items(es, "clients")) <=>
              \A i \in DOMAIN es : es[i].key = "clients" => ~listFaulty(es[i])
<1>1. ASSUME NEW key \in {"users", "clients"}, NEW i \in DOMAIN es, es[i].key = key
      PROVE  /\ Items(es, key) = es[i].value.items
             /\ DOMAIN Items(es, key) = 1..Len(Items(es, key)) /\ Len(Items(es, key)) \in Nat
             /\ \A j \in DOMAIN es : es[j].key = key => j = i
  BY <1>1, FirstEntries, DomainIs DEF Items, Unique
<1>2. ASSUME NEW key \in {"users", "clients"}, \A i \in DOMAIN es : es[i].key # key
      PROVE  Items(es, key) = <<>>
  BY <1>2 DEF Items, Has, Positions
<1>3. ASSUME NEW key \in {"users", "clients"}, NEW i \in DOMAIN es, es[i].key = key
      PROVE  LET items == Items(es, key) IN
             ~listFaulty(es[i]) <=>
               /\ \A n \in DOMAIN items : ~itemFaulty(key, items[n])
               /\ \A n, m \in DOMAIN items : n # m => itemNames(key, items[n]) \cap itemNames(key, items[m]) = {}
  <2>1. Items(es, key) = es[i].value.items
    BY <1>1, <1>3
  <2> QED
    BY <2>1, <1>3, Zenon DEF listFaulty
<1>4. Users(es) = [n \in DOMAIN Items(es, "users") |->
                    [sub |-> Items(es, "users")[n].sub, login |-> Login(Items(es, "users")[n])]]
  BY DEF Users
<1>5. validateUsers(Users(es)) <=> \A i \in DOMAIN es : es[i].key = "users" => ~listFaulty(es[i])
  <2>1. CASE \A i \in DOMAIN es : es[i].key # "users"
    <3>1. DOMAIN Users(es) = {}
      BY <1>2, <1>4, <2>1
    <3> QED
      BY <2>1, <3>1 DEF validateUsers
  <2>2. ASSUME NEW i \in DOMAIN es, es[i].key = "users"
        PROVE  validateUsers(Users(es)) <=> \A j \in DOMAIN es : es[j].key = "users" => ~listFaulty(es[j])
    <3>1. validateUsers(Users(es)) <=> ~listFaulty(es[i])
      <4> DEFINE items == Items(es, "users")
      <4>1. DOMAIN items = 1..Len(items) /\ Len(items) \in Nat
        BY <1>1, <2>2
      <4>2. ~listFaulty(es[i]) <=>
               /\ \A n \in DOMAIN items : ~itemFaulty("users", items[n])
               /\ \A n, m \in DOMAIN items :
                     n # m => itemNames("users", items[n]) \cap itemNames("users", items[m]) = {}
        BY <1>3, <2>2
      <4> HIDE DEF items
      <4>3. validateUsers([n \in DOMAIN items |-> [sub |-> items[n].sub, login |-> Login(items[n])]]) <=>
              ~listFaulty(es[i])
        BY <4>1, <4>2, UsersIff
      <4> QED
        BY <4>3, <1>4 DEF items
    <3> QED
      BY <3>1, <1>1, <2>2
  <2> QED
    BY <2>1, <2>2
<1>6. validateClients(Items(es, "clients")) <=>
        \A i \in DOMAIN es : es[i].key = "clients" => ~listFaulty(es[i])
  <2>1. CASE \A i \in DOMAIN es : es[i].key # "clients"
    <3>1. Items(es, "clients") = <<>>
      BY <1>2, <2>1
    <3>2. validateClients(<<>>)
      <4>1. DOMAIN <<>> = {}
        OBVIOUS
      <4> QED
        BY <4>1, Zenon DEF validateClients
    <3> QED
      BY <2>1, <3>1, <3>2
  <2>2. ASSUME NEW i \in DOMAIN es, es[i].key = "clients"
        PROVE  validateClients(Items(es, "clients")) <=>
                 \A j \in DOMAIN es : es[j].key = "clients" => ~listFaulty(es[j])
    <3>1. validateClients(Items(es, "clients")) <=> ~listFaulty(es[i])
      BY <1>1, <1>3, <2>2, ClientsIff
    <3> QED
      BY <3>1, <1>1, <2>2
  <2> QED
    BY <2>1, <2>2
<1> QED
  BY <1>5, <1>6

\* The summary of one entry of a document of the right shape.
LEMMA EntrySummary ==
  ASSUME NEW es, FirstLevel(es), Unique(es), First!InnerUnique(es), First!Shape(es), NEW i \in DOMAIN es
  PROVE  \/ /\ es[i].key = "config" /\ es[i].value.kind = "mapping"
            /\ SecondLevel(es[i].value.entries) /\ Unique(es[i].value.entries)
            /\ configShape(es[i].value.entries)
            /\ First!EntryNames(es[i]) = configNames(es[i].value.entries)
            /\ First!EntryFaulty(es[i]) <=> configFaulty(es[i].value.entries)
            /\ \A x \in First!EntryNames(es[i]) : \E k : x = <<"key", k>>
         \/ /\ es[i].key = "users" /\ es[i].value.kind = "list"
            /\ First!EntryFaulty(es[i]) <=> listFaulty(es[i])
            /\ \A x \in First!EntryNames(es[i]) : \E k : x = <<"user", k>>
         \/ /\ es[i].key = "clients" /\ es[i].value.kind = "list"
            /\ First!EntryFaulty(es[i]) <=> listFaulty(es[i])
            /\ \A x \in First!EntryNames(es[i]) : \E k : x = <<"client", k>>
<1>1. First!EntryShape(es[i])
  BY FirstEntries DEF First!Shape
<1>2. es[i].key \in {"config", "users", "clients"} /\ es[i].value.kind = topKinds[es[i].key]
  BY <1>1 DEF First!EntryShape, topKinds
<1>3. CASE es[i].key = "config"
  <2>1. es[i].value.kind = "mapping"
    BY <1>2, <1>3 DEF topKinds
  <2>2. configShape(es[i].value.entries) /\ SecondLevel(es[i].value.entries)
    BY <1>1, <2>1, FirstEntries DEF First!EntryShape
  <2>3. Unique(es[i].value.entries)
    BY <2>1, FirstEntries, FirstMerge DEF First!InnerUnique, First!EntryUnique
  <2>4. First!EntryNames(es[i]) = configNames(es[i].value.entries)
          /\ (First!EntryFaulty(es[i]) <=> configFaulty(es[i].value.entries))
    BY <2>1 DEF First!EntryNames, First!EntryFaulty
  <2> QED
    BY <1>3, <2>1, <2>2, <2>3, <2>4, ConfigNamesAreKeys
<1>4. CASE es[i].key = "users" \/ es[i].key = "clients"
  <2>1. es[i].value.kind = "list"
    BY <1>2, <1>4 DEF topKinds
  <2>2. First!EntryNames(es[i]) = listNames(es[i]) /\ (First!EntryFaulty(es[i]) <=> listFaulty(es[i]))
    BY <2>1 DEF First!EntryNames, First!EntryFaulty
  <2>3. CASE es[i].key = "users"
    <3>1. ASSUME NEW x \in listNames(es[i]) PROVE \E k : x = <<"user", k>>
      BY <2>3 DEF listNames, itemNames
    <3> QED
      BY <2>1, <2>2, <2>3, <3>1
  <2>4. CASE es[i].key = "clients"
    <3>1. ASSUME NEW x \in listNames(es[i]) PROVE \E k : x = <<"client", k>>
      BY <2>4 DEF listNames, itemNames
    <3> QED
      BY <2>1, <2>2, <2>4, <3>1
  <2> QED
    BY <1>4, <2>3, <2>4
<1> QED
  BY <1>2, <1>3, <1>4

\* A document is valid exactly if it has the shape that is asked for and
\* what is required, nothing in it is at fault, and no key in it is repeated.
LEMMA ValidIff ==
  ASSUME NEW es, FirstLevel(es), Unique(es)
  PROVE  Valid(es) <=> /\ First!Shape(es) /\ ~First!Faulty(es) /\ First!InnerUnique(es)
                       /\ Required \subseteq First!Names(es)
<1> DEFINE c == Child(es, "config").entries
<1>0. /\ IsSequence(es) /\ DOMAIN es = 1..Len(es) /\ Len(es) \in Nat
      /\ \A i \in DOMAIN es : es[i].value.kind = "mapping" => SecondLevel(es[i].value.entries)
      /\ \A i \in DOMAIN es : Has(es, es[i].key) /\ Child(es, es[i].key) = es[i].value
      /\ \A k : Has(es, k) => \E i \in DOMAIN es : es[i].key = k /\ Child(es, k) = es[i].value
  BY FirstEntries
<1>1. ASSUME Valid(es)
      PROVE  /\ First!Shape(es) /\ ~First!Faulty(es) /\ First!InnerUnique(es)
             /\ Required \subseteq First!Names(es)
  <2>1. Decodes(es) /\ validate(es)
    BY <1>1 DEF Valid
  <2>2. \A i \in DOMAIN es : es[i].key \in {"config", "users", "clients"} /\ es[i].value.kind = topKinds[es[i].key]
    BY <2>1 DEF Decodes, Fields, topKinds
  <2>3. Has(es, "config")
    BY <2>1 DEF validate
  <2>4. PICK n \in DOMAIN es : es[n].key = "config" /\ c = es[n].value.entries
    BY <1>0, <2>3
  <2>5. SecondLevel(c)
    BY <1>0, <2>2, <2>4 DEF topKinds
  <2>6. LET t == Child(c, "security").entries IN
        /\ Fields(c, configKinds)
        /\ Has(c, "issuer") /\ WellFormed(Child(c, "issuer").value)
        /\ Has(c, "security") /\ Fields(t, securityKinds)
        /\ Has(t, "admin_password_hash") /\ WellFormed(Child(t, "admin_password_hash").value)
        /\ validateDocument(t)
    BY <2>1, Zenon DEF Decodes, validate, configKinds, securityKinds
  <2>7. Unique(c)
    BY <2>6 DEF Fields
  <2> HIDE DEF c
  <2>8. configShape(c) /\ ~configFaulty(c) /\ Required \subseteq configNames(c)
    BY <2>5, <2>6, <2>7, SettingsIff
  <2>9. \A i \in DOMAIN es : es[i].value.kind = "mapping" <=> i = n
    BY <2>2, <2>4 DEF Unique, topKinds
  <2>10. First!Shape(es)
    BY <1>0, <2>2, <2>4, <2>8, <2>9 DEF First!Shape, First!EntryShape, topKinds
  <2>11. First!InnerUnique(es)
    BY <1>0, <2>4, <2>7, <2>9, FirstMerge DEF First!InnerUnique, First!EntryUnique
  <2>12. \A i \in DOMAIN es : ~First!EntryFaulty(es[i])
    <3>1. \A i \in DOMAIN es : es[i].key \in {"users", "clients"} => es[i].value.kind = "list" /\ ~listFaulty(es[i])
      <4>1. \A i \in DOMAIN es : es[i].key \in {"users", "clients"} => es[i].value.kind = "list"
        BY <2>2 DEF topKinds
      <4>2. validateUsers(Users(es)) /\ validateClients(Items(es, "clients"))
        BY <2>1, Zenon DEF validate
      <4> QED
        BY <4>1, <4>2, ListsIff
    <3> QED
      BY <3>1, <2>4, <2>8, <2>9, <2>10, <2>11, EntrySummary
  <2>13. \A i, j \in DOMAIN es : i # j => First!EntryNames(es[i]) \cap First!EntryNames(es[j]) = {}
    <3> SUFFICES ASSUME NEW i \in DOMAIN es, NEW j \in DOMAIN es, i # j, NEW x,
                        x \in First!EntryNames(es[i]), x \in First!EntryNames(es[j])
                 PROVE  FALSE
      OBVIOUS
    <3>1. es[i].key # es[j].key
      BY DEF Unique
    <3>2. \A k, m : <<"key", k>> # <<"user", m>> /\ <<"key", k>> # <<"client", m>> /\ <<"user", k>> # <<"client", m>>
      OBVIOUS
    <3> QED
      BY <2>10, <2>11, <3>1, <3>2, EntrySummary
  <2>14. ~First!Faulty(es)
    BY <1>0, <2>12, <2>13 DEF First!Faulty
  <2>15. configNames(c) \subseteq First!Names(es)
    BY <1>0, <2>4, <2>9 DEF First!Names, First!EntryNames
  <2> QED
    BY <2>8, <2>10, <2>11, <2>14, <2>15
<1>2. ASSUME First!Shape(es), ~First!Faulty(es), First!InnerUnique(es), Required \subseteq First!Names(es)
      PROVE  Valid(es)
  <2>1. \A i \in DOMAIN es : es[i].key \in {"config", "users", "clients"} /\ es[i].value.kind = topKinds[es[i].key]
    BY <1>0, <1>2 DEF First!Shape, First!EntryShape, topKinds
  <2>2. ASSUME NEW x \in Required
        PROVE  \E i \in DOMAIN es : es[i].key = "config" /\ x \in configNames(es[i].value.entries)
    <3>1. PICK i \in DOMAIN es : x \in First!EntryNames(es[i])
      BY <1>0, <1>2 DEF First!Names
    <3>2. \A k : x # <<"user", k>> /\ x # <<"client", k>>
      BY DEF Required
    <3> QED
      BY <1>2, <3>1, <3>2, EntrySummary
  <2>3. PICK n \in DOMAIN es : es[n].key = "config"
    BY <2>2 DEF Required
  <2>4. /\ SecondLevel(es[n].value.entries) /\ Unique(es[n].value.entries)
        /\ configShape(es[n].value.entries) /\ ~configFaulty(es[n].value.entries)
    <3>1. ~First!EntryFaulty(es[n])
      BY <1>0, <1>2 DEF First!Faulty
    <3> QED
      BY <1>2, <2>3, <3>1, EntrySummary
  <2>5. Required \subseteq configNames(es[n].value.entries)
    BY <2>2, <2>3 DEF Unique
  <2>6. Has(es, "config") /\ c = es[n].value.entries
    BY <1>0, <2>3
  <2> HIDE DEF c
  <2>7. LET t == Child(c, "security").entries IN
        /\ Fields(c, configKinds)
        /\ Has(c, "issuer") /\ WellFormed(Child(c, "issuer").value)
        /\ Has(c, "security") /\ Fields(t, securityKinds)
        /\ Has(t, "admin_password_hash") /\ WellFormed(Child(t, "admin_password_hash").value)
        /\ validateDocument(t)
    BY <2>4, <2>5, <2>6, SettingsIff
  <2>8. Decodes(es)
    <3>1. Fields(es, [config |-> "mapping", users |-> "list", clients |-> "list"])
      BY <2>1 DEF Fields, topKinds
    <3> QED
      BY <3>1, <2>7, Zenon DEF Decodes, c, configKinds, securityKinds
  <2>9. validateUsers(Users(es)) /\ validateClients(Items(es, "clients"))
    <3>1. \A i \in DOMAIN es : es[i].key \in {"users", "clients"} => es[i].value.kind = "list"
      BY <2>1 DEF topKinds
    <3>2. \A i \in DOMAIN es : es[i].key \in {"users", "clients"} => ~listFaulty(es[i])
      <4>1. \A i \in DOMAIN es : ~First!EntryFaulty(es[i])
        BY <1>0, <1>2 DEF First!Faulty
      <4> QED
        BY <4>1, <1>2, EntrySummary
    <3> QED
      BY <3>1, <3>2, ListsIff
  <2>10. intValue(Child(c, "security").entries, "max_user_login_attempts", DefaultAttempts) \in 1..MaximumAttempts
    <3>1. DefaultAttempts \in 1..MaximumAttempts
      BY DEF DefaultAttempts, MaximumAttempts
    <3> QED
      BY <2>7, <3>1, Zenon DEF intValue, validateDocument
  <2>11. validate(es)
    BY <2>6, <2>7, <2>9, <2>10, Zenon DEF validate, c
  <2> QED
    BY <2>8, <2>11 DEF Valid
<1> QED
  BY <1>1, <1>2

-----------------------------------------------------------------------------
(* All the documents *)

\* The summaries of a file, which may hold no mapping at all, and of the document
\* composed so far.
docWf(d) == d.kind = "mapping" => FirstLevel(d.entries)
docShape(d) == d.kind = "mapping" /\ First!Shape(d.entries)
docNames(d) == IF d.kind = "mapping" THEN First!Names(d.entries) ELSE {}
docFaulty(d) == d.kind = "mapping" /\ First!Faulty(d.entries)
docUnique(d) == d.kind = "mapping" => First!InnerUnique(d.entries)
topShape(es) == First!Shape(es)
topNames(es) == First!Names(es)
topFaulty(es) == First!Faulty(es)
allUnique(es) == Unique(es) /\ First!InnerUnique(es)

Compose == INSTANCE FoldTheorems WITH
  op <- composeNext, Wf <- FirstLevel, Shape <- topShape, Names <- topNames, Faulty <- topFaulty,
  EWf <- docWf, EShape <- docShape, ENames <- docNames, EFaulty <- docFaulty,
  Kept <- allUnique, EKept <- docUnique

Documents(docs) == DOMAIN docs = 1..Len(docs) /\ Len(docs) \in Nat /\ \A i \in DOMAIN docs : docWf(docs[i])

\* What files have to be together, said without an order of them.
Acceptable(docs) ==
  /\ Compose!ShapeTo(docs, Len(docs)) /\ ~Compose!FaultyTo(docs, Len(docs))
  /\ Required \subseteq Compose!NamesTo(docs, Len(docs))

\* One round of loadFiles.
LEMMA ComposeAdds ==
  ASSUME NEW es, NEW d, FirstLevel(es), FirstLevel(d)
  PROVE  LET m == mergeMapping(es, d) IN
         /\ m = [ok |-> m.ok, entries |-> m.entries] /\ m.ok \in BOOLEAN /\ FirstLevel(m.entries)
         /\ Compose!Sums(m.ok /\ First!Shape(m.entries), First!Names(m.entries), First!Faulty(m.entries),
                         First!Shape(es), First!Names(es), First!Faulty(es),
                         First!Shape(d), First!Names(d), First!Faulty(d))
         /\ Unique(es) => Unique(m.entries)
         /\ First!InnerUnique(es) /\ First!InnerUnique(d) => First!InnerUnique(m.entries)
<1> DEFINE m == mergeMapping(es, d)
<1>1. m = First!merge(es, d) /\ First!Wf(es) /\ First!Wf(d)
  BY FirstMerge
<1>2. /\ First!merge(es, d) = [ok |-> First!merge(es, d).ok, entries |-> First!merge(es, d).entries]
      /\ First!merge(es, d).ok \in BOOLEAN /\ First!Wf(First!merge(es, d).entries)
      /\ Compose!Sums(First!merge(es, d).ok /\ First!Shape(First!merge(es, d).entries),
                      First!Names(First!merge(es, d).entries), First!Faulty(First!merge(es, d).entries),
                      First!Shape(es), First!Names(es), First!Faulty(es),
                      First!Shape(d), First!Names(d), First!Faulty(d))
      /\ First!Unique(es) => First!Unique(First!merge(es, d).entries)
  BY <1>1, FirstLaw, Zenon DEF First!MergeLaw, Compose!Sums
<1>3. First!InnerUnique(es) /\ First!InnerUnique(d) => First!InnerUnique(First!merge(es, d).entries)
  BY <1>1, FirstLaw, First!MergeKeepsInner
<1> HIDE DEF m
<1>4. First!Wf(m.entries) <=> FirstLevel(m.entries)
  BY FirstMerge
<1>5. (Unique(es) <=> First!Unique(es)) /\ (Unique(m.entries) <=> First!Unique(m.entries))
  BY FirstMerge
<1>6. /\ m = [ok |-> m.ok, entries |-> m.entries] /\ m.ok \in BOOLEAN /\ FirstLevel(m.entries)
      /\ Compose!Sums(m.ok /\ First!Shape(m.entries), First!Names(m.entries), First!Faulty(m.entries),
                      First!Shape(es), First!Names(es), First!Faulty(es),
                      First!Shape(d), First!Names(d), First!Faulty(d))
      /\ Unique(es) => Unique(m.entries)
      /\ First!InnerUnique(es) /\ First!InnerUnique(d) => First!InnerUnique(m.entries)
  BY <1>1, <1>2, <1>3, <1>4, <1>5
<1> QED
  BY <1>6 DEF m

\* loadFiles is a fold with the laws of FoldTheorems.
LEMMA ComposeLaw == Compose!StepLaw /\ Compose!KeptLaw
<1>1. ASSUME NEW acc, NEW d, Compose!Accumulated(acc), docWf(d)
      PROVE  /\ Compose!Accumulated(composeNext(acc, d))
             /\ Compose!Sums(composeNext(acc, d).ok /\ topShape(composeNext(acc, d).entries),
                             topNames(composeNext(acc, d).entries), topFaulty(composeNext(acc, d).entries),
                             acc.ok /\ topShape(acc.entries), topNames(acc.entries), topFaulty(acc.entries),
                             docShape(d), docNames(d), docFaulty(d))
             /\ allUnique(acc.entries) /\ docUnique(d) => allUnique(composeNext(acc, d).entries)
  <2>1. acc = [ok |-> acc.ok, entries |-> acc.entries] /\ acc.ok \in BOOLEAN /\ FirstLevel(acc.entries)
    BY <1>1 DEF Compose!Accumulated
  <2>2. CASE acc.ok /\ d.kind = "mapping"
    <3> DEFINE m == mergeMapping(acc.entries, d.entries)
    <3>1. composeNext(acc, d) = m
      BY <2>2, Zenon DEF composeNext
    <3>2. FirstLevel(d.entries)
      BY <1>1, <2>2 DEF docWf
    <3>3. /\ m = [ok |-> m.ok, entries |-> m.entries] /\ m.ok \in BOOLEAN /\ FirstLevel(m.entries)
          /\ Compose!Sums(m.ok /\ First!Shape(m.entries), First!Names(m.entries), First!Faulty(m.entries),
                         First!Shape(acc.entries), First!Names(acc.entries), First!Faulty(acc.entries),
                         First!Shape(d.entries), First!Names(d.entries), First!Faulty(d.entries))
          /\ Unique(acc.entries) => Unique(m.entries)
          /\ First!InnerUnique(acc.entries) /\ First!InnerUnique(d.entries) => First!InnerUnique(m.entries)
      BY <2>1, <3>2, ComposeAdds
    <3> HIDE DEF m
    <3>4. /\ docShape(d) <=> First!Shape(d.entries)
          /\ docNames(d) = First!Names(d.entries)
          /\ docFaulty(d) <=> First!Faulty(d.entries)
          /\ docUnique(d) <=> First!InnerUnique(d.entries)
      BY <2>2 DEF docShape, docNames, docFaulty, docUnique
    <3>5. Compose!Sums(m.ok /\ topShape(m.entries), topNames(m.entries), topFaulty(m.entries),
                       acc.ok /\ topShape(acc.entries), topNames(acc.entries), topFaulty(acc.entries),
                       docShape(d), docNames(d), docFaulty(d))
      BY <2>2, <3>3, <3>4, Zenon DEF Compose!Sums, topShape, topNames, topFaulty
    <3>6. Compose!Accumulated(m)
      BY <3>3 DEF Compose!Accumulated
    <3>7. allUnique(acc.entries) /\ docUnique(d) => allUnique(m.entries)
      BY <3>3, <3>4 DEF allUnique
    <3> QED
      BY <3>1, <3>5, <3>6, <3>7
  <2>3. CASE ~(acc.ok /\ d.kind = "mapping")
    <3> DEFINE r == composeNext(acc, d)
    <3>1. r = [acc EXCEPT !.ok = FALSE]
      BY <2>3, Zenon DEF composeNext
    <3>2. r = [ok |-> FALSE, entries |-> acc.entries]
      BY <2>1, <3>1
    <3>3. Compose!Accumulated(r) /\ r.ok = FALSE /\ r.entries = acc.entries
      BY <2>1, <3>2 DEF Compose!Accumulated
    <3> HIDE DEF r
    <3>4. Compose!Sums(r.ok /\ topShape(r.entries), topNames(r.entries), topFaulty(r.entries),
                       acc.ok /\ topShape(acc.entries), topNames(acc.entries), topFaulty(acc.entries),
                       docShape(d), docNames(d), docFaulty(d))
      BY <2>3, <3>3, Zenon DEF Compose!Sums, docShape
    <3> QED
      BY <3>3, <3>4 DEF r
  <2> QED
    BY <2>2, <2>3
<1>2. Compose!StepLaw
  BY <1>1, Zenon DEF Compose!StepLaw
<1>3. Compose!KeptLaw
  BY <1>1, Zenon DEF Compose!KeptLaw
<1> QED
  BY <1>2, <1>3

\* Nothing has been composed yet.
LEMMA NothingYet ==
  /\ FirstLevel(<<>>) /\ Unique(<<>>) /\ First!InnerUnique(<<>>)
  /\ First!Shape(<<>>) /\ First!Names(<<>>) = {} /\ ~First!Faulty(<<>>)
<1>1. DOMAIN <<>> = {} /\ Len(<<>>) = 0 /\ 1..0 = {}
  OBVIOUS
<1>2. FirstLevel(<<>>)
  BY <1>1 DEF FirstLevel, Entries, IsSequence
<1>3. Unique(<<>>)
  BY <1>1 DEF Unique
<1> QED
  BY <1>1, <1>2, <1>3 DEF First!InnerUnique, First!Shape, First!Names, First!Faulty

\* Whether documents without repeated keys are accepted is said by Acceptable.
LEMMA AcceptsIff ==
  ASSUME NEW docs, Documents(docs), \A i \in DOMAIN docs : docUnique(docs[i])
  PROVE  Accepts(docs) <=> Acceptable(docs)
<1> DEFINE base == [ok |-> TRUE, entries |-> <<>>]
           m == FoldLeft(composeNext, base, docs)
<1>1. m = Compose!Folded(base, docs)
  <2> HIDE DEF composeNext, base
  <2> QED
    BY DEF Compose!Folded, FoldLeft, Compose!FoldLeft, MapThenFoldSet, Compose!MapThenFoldSet, Max, Compose!Max
<1>2. Compose!Accumulated(base) /\ base.ok = TRUE /\ base.entries = <<>> /\ allUnique(base.entries)
  BY NothingYet DEF Compose!Accumulated, allUnique
<1> HIDE DEF base, m
<1>3. /\ Compose!Accumulated(m)
      /\ Compose!Sums(m.ok /\ topShape(m.entries), topNames(m.entries), topFaulty(m.entries),
                      base.ok /\ topShape(base.entries), topNames(base.entries), topFaulty(base.entries),
                      Compose!ShapeTo(docs, Len(docs)), Compose!NamesTo(docs, Len(docs)),
                      Compose!FaultyTo(docs, Len(docs)))
  BY <1>1, <1>2, ComposeLaw, Compose!FoldLaw DEF Documents
<1>4. allUnique(m.entries)
  BY <1>1, <1>2, ComposeLaw, Compose!FoldKeeps DEF Documents
<1>5. /\ base.ok /\ topShape(base.entries) /\ topNames(base.entries) = {} /\ ~topFaulty(base.entries)
  BY <1>2, NothingYet DEF topShape, topNames, topFaulty
<1>6. Accepts(docs) <=> m.ok /\ Valid(m.entries)
  BY Zenon DEF Accepts, m, base
<1>7. Valid(m.entries) <=> /\ First!Shape(m.entries) /\ ~First!Faulty(m.entries)
                           /\ Required \subseteq First!Names(m.entries)
  BY <1>3, <1>4, ValidIff DEF Compose!Accumulated, allUnique
<1> QED
  BY <1>3, <1>5, <1>6, <1>7 DEF Compose!Sums, Acceptable, topShape, topNames, topFaulty

-----------------------------------------------------------------------------
(* What one load has read *)

\* The paths that lead to a file, and those chosen to be read.
Reaching(t) == {n \in DOMAIN input.paths : Selected(input.paths[n]) /\ input.paths[n].file = t}
Chosen == {found[t] : t \in Targets} \ {Nowhere}

\* Each file examined is under the first path examined that leads to it.
FoundOK ==
  /\ pending \subseteq DOMAIN input.paths
  /\ found = [t \in Targets |-> found[t]]
  /\ \A t \in Targets :
       /\ found[t] = Nowhere => Reaching(t) \subseteq pending
       /\ found[t] # Nowhere =>
            /\ found[t] \in Reaching(t)
            /\ \A n \in Reaching(t) \ pending : found[t] <= n

\* The selected paths are all those chosen, in their order.
OrderOK ==
  /\ order = <<>> => next = 1 /\ merged = <<>>
  /\ order # <<>> =>
       /\ pending = {}
       /\ order \in SetToSeqs(Chosen)
       /\ \A i, j \in DOMAIN order : i < j => order[i] < order[j]

\* The items of the first n documents, one document after the other.
ItemsTo(n, key) == FlattenSeq([i \in 1..n |-> ItemsIn(Composed[i], key)])

\* The merged document has the names of the documents composed so far, and is at
\* fault where one of them is or two of them take one name.
MergedOK ==
  /\ next \in 1..(Len(order) + 1)
  /\ FirstLevel(merged) /\ Unique(merged)
  /\ Compose!Sums(First!Shape(merged), First!Names(merged), First!Faulty(merged),
                  TRUE, {}, FALSE,
                  Compose!ShapeTo(Composed, next - 1), Compose!NamesTo(Composed, next - 1),
                  Compose!FaultyTo(Composed, next - 1))
  /\ (\A i \in 1..(next - 1) : docUnique(Composed[i])) => First!InnerUnique(merged)

\* The verdict is that on all the documents.
Verdicts == {"loading", "accepted", "rejected"}
VerdictOK ==
  /\ outcome \in Verdicts
  /\ outcome = "accepted" /\ order # <<>> => next = Len(order) + 1 /\ Valid(merged)
  /\ outcome = "rejected" /\ order # <<>> /\ (\A i \in DOMAIN order : docUnique(Composed[i])) =>
       ~Acceptable(Composed)

\* The inductive invariant of the load.
LoadInv == input \in Inputs /\ FoundOK /\ OrderOK /\ MergedOK /\ VerdictOK

\* A sequence that has each member of a finite set once reaches all of them.
LEMMA SeqOfAll ==
  ASSUME NEW S, IsFiniteSet(S), NEW f \in SetToSeqs(S)
  PROVE  /\ DOMAIN f = 1..Len(f) /\ Len(f) \in Nat /\ Len(f) = Cardinality(S)
         /\ ToSet(f) = S
         /\ \A i \in DOMAIN f : f[i] \in S
         /\ \A i, j \in DOMAIN f : i # j => f[i] # f[j]
         /\ \A x \in S : \E i \in DOMAIN f : f[i] = x
<1> DEFINE D == 1..Cardinality(S)
<1>1. Cardinality(S) \in Nat
  BY FS_CardinalityType
<1>2. f \in [D -> S] /\ \A i, j \in D : i # j => f[i] # f[j]
  BY DEF SetToSeqs
<1>3. DOMAIN f = D /\ Len(f) = Cardinality(S)
  BY <1>1, <1>2
<1>4. Cardinality(D) = Cardinality(S)
  BY <1>1, FS_Interval
<1>5. f \in Injection(D, S)
  BY <1>2 DEF Injection, IsInjective
<1>6. f \in Surjection(D, S)
  BY <1>4, <1>5, FS_Injection
<1>7. \A x \in S : \E i \in D : f[i] = x
  BY <1>6 DEF Surjection
<1>8. ToSet(f) = S
  BY <1>2, <1>3, <1>7 DEF ToSet
<1> QED
  BY <1>1, <1>2, <1>3, <1>7, <1>8

\* What the chosen paths are.
LEMMA ChosenPaths ==
  ASSUME LoadInv
  PROVE  /\ DOMAIN input.paths = 1..Len(input.paths) /\ Len(input.paths) \in Nat
         /\ Chosen \subseteq DOMAIN input.paths /\ IsFiniteSet(Chosen)
         /\ \A n \in Chosen : docWf(Document(n))
         /\ order # <<>> => order \in SetToSeqs(Chosen)
<1>1. IsSequence(input.paths) /\ \A t \in Targets : docWf(input.content[t])
  BY InputsAssumption DEF LoadInv, docWf
<1>2. DOMAIN input.paths = 1..Len(input.paths) /\ Len(input.paths) \in Nat
  BY <1>1, DomainIs
<1>3. \A t \in Targets : found[t] # Nowhere => found[t] \in DOMAIN input.paths /\ input.paths[found[t]].file = t
  BY DEF LoadInv, FoundOK, Reaching
<1>4. Chosen \subseteq DOMAIN input.paths
  BY <1>3 DEF Chosen
<1>5. IsFiniteSet(Chosen)
  <2>1. IsFiniteSet(DOMAIN input.paths)
    BY <1>2, FS_Interval
  <2> QED
    BY <1>4, <2>1, FS_Subset
<1>6. \A n \in Chosen : docWf(Document(n))
  BY <1>1, <1>3 DEF Chosen, Document
<1> QED
  BY <1>2, <1>4, <1>5, <1>6 DEF LoadInv, OrderOK

\* The documents read, as a sequence.
LEMMA OrderFacts ==
  ASSUME LoadInv
  PROVE  /\ DOMAIN order = 1..Len(order) /\ Len(order) \in Nat
         /\ DOMAIN Composed = 1..Len(order) /\ Len(Composed) = Len(order)
         /\ Documents(Composed)
         /\ next \in Nat /\ next - 1 \in Nat /\ next - 1 <= Len(order)
         /\ \A i \in 1..Len(order) : Composed[i] = Document(order[i])
<1>1. DOMAIN order = 1..Len(order) /\ Len(order) \in Nat
  <2>1. CASE order = <<>>
    BY <2>1
  <2>2. CASE order # <<>>
    BY <2>2, ChosenPaths, SeqOfAll
  <2> QED
    BY <2>1, <2>2
<1>2. DOMAIN Composed = 1..Len(order) /\ \A i \in 1..Len(order) : Composed[i] = Document(order[i])
  BY <1>1 DEF Composed
<1>3. Len(Composed) = Len(order)
  BY <1>1 DEF Composed
<1>4. \A i \in 1..Len(order) : docWf(Composed[i])
  <2>1. CASE order = <<>>
    BY <2>1
  <2>2. CASE order # <<>>
    <3>1. \A i \in DOMAIN order : order[i] \in Chosen
      BY <2>2, ChosenPaths, SeqOfAll
    <3> QED
      BY <1>1, <1>2, <3>1, ChosenPaths
  <2> QED
    BY <2>1, <2>2
<1> QED
  BY <1>1, <1>2, <1>3, <1>4 DEF Documents, LoadInv, MergedOK

\* Nothing read yet.
Fresh ==
  /\ pending = DOMAIN input.paths /\ found = [t \in Targets |-> Nowhere]
  /\ order = <<>> /\ next = 1 /\ merged = <<>>

\* Before anything has been read.
LEMMA FreshOK == input \in Inputs /\ outcome \in Verdicts /\ Fresh => LoadInv
<1> SUFFICES ASSUME input \in Inputs, outcome \in Verdicts, Fresh PROVE LoadInv
  OBVIOUS
<1>1. FoundOK
  BY DEF Fresh, FoundOK, Reaching, Nowhere
<1>2. OrderOK
  BY DEF Fresh, OrderOK
<1>3. MergedOK
  <2>1. Compose!ShapeTo(Composed, 0) /\ Compose!NamesTo(Composed, 0) = {} /\ ~Compose!FaultyTo(Composed, 0)
    BY DEF Compose!ShapeTo, Compose!NamesTo, Compose!FaultyTo
  <2>2. next - 1 = 0 /\ next \in 1..(Len(order) + 1) /\ merged = <<>>
    BY DEF Fresh
  <2>3. Compose!Sums(First!Shape(<<>>), First!Names(<<>>), First!Faulty(<<>>), TRUE, {}, FALSE,
                     Compose!ShapeTo(Composed, 0), Compose!NamesTo(Composed, 0), Compose!FaultyTo(Composed, 0))
    BY <2>1, NothingYet, Zenon DEF Compose!Sums
  <2> QED
    BY <2>2, <2>3, NothingYet DEF MergedOK
<1>4. VerdictOK
  BY DEF Fresh, VerdictOK, Verdicts
<1> QED
  BY <1>1, <1>2, <1>3, <1>4 DEF LoadInv

\* A process that has not started has read nothing.
LEMMA InitLoaded == ProcessInit => LoadInv
  BY FreshOK DEF ProcessInit, LoadInit, Fresh, Verdicts

\* Nor has one that begins again, or is done with reading.
LEMMA AfreshOK ==
  ASSUME LoadInv, Afresh, outcome' \in Verdicts
  PROVE  LoadInv'
<1>1. (input \in Inputs /\ outcome \in Verdicts /\ Fresh)'
  BY DEF Afresh, Fresh, LoadInv
<1> QED
  BY <1>1, FreshOK, PTL

\* Nothing changes in a step of the process.
LEMMA LoadStutter == LoadInv /\ UNCHANGED loadVars => LoadInv'
<1> SUFFICES ASSUME LoadInv, UNCHANGED loadVars PROVE LoadInv'
  OBVIOUS
<1>1. UNCHANGED <<input, pending, found, order, next, merged, outcome>>
  BY DEF loadVars
<1>2. FoundOK'
  BY <1>1 DEF LoadInv, FoundOK, Reaching, Selected, Considered
<1>3. OrderOK'
  BY <1>1 DEF LoadInv, OrderOK, Chosen
<1>4. Composed' = Composed
  BY <1>1 DEF Composed, Document
<1>5. MergedOK' /\ VerdictOK'
  BY <1>1, <1>4 DEF LoadInv, MergedOK, VerdictOK
<1> QED
  BY <1>1, <1>2, <1>3, <1>5 DEF LoadInv

\* One path more.
LEMMA ExamineOK ==
  ASSUME LoadInv, NEW n \in pending, Examine(n)
  PROVE  LoadInv'
<1> DEFINE p == input.paths[n]
<1>0. /\ UNCHANGED <<input, order, next, merged>> /\ pending' = pending \ {n}
      /\ found' = IF Selected(p) THEN recordPath(n, p.file) ELSE found
      /\ pending # {} /\ order = <<>> /\ outcome = "loading"
  BY DEF Examine, LoadInv, OrderOK
<1>1. \A t \in Targets : Reaching(t)' = Reaching(t)
  BY <1>0 DEF Reaching, Selected, Considered
<1>2. \A t \in Targets : n \in Reaching(t) => Selected(p) /\ p.file = t
  BY DEF Reaching
<1>3. FoundOK'
  <2>1. found = [t \in Targets |-> found[t]]
    BY DEF LoadInv, FoundOK
  <2>2. found' = [t \in Targets |-> found'[t]]
    BY <1>0, <2>1 DEF recordPath
  <2>3. ASSUME NEW t \in Targets
        PROVE  /\ found'[t] = Nowhere => Reaching(t) \subseteq pending'
               /\ found'[t] # Nowhere =>
                    /\ found'[t] \in Reaching(t)
                    /\ \A m \in Reaching(t) \ pending' : found'[t] <= m
    <3>1. /\ found[t] = Nowhere => Reaching(t) \subseteq pending
          /\ found[t] # Nowhere =>
               /\ found[t] \in Reaching(t)
               /\ \A m \in Reaching(t) \ pending : found[t] <= m
          /\ Reaching(t) \subseteq 1..Len(input.paths) /\ Len(input.paths) \in Nat
      BY ChosenPaths DEF LoadInv, FoundOK, Reaching
    <3>2. CASE Selected(p) /\ p.file = t
      <4>1. found'[t] = IF found[t] = Nowhere \/ n < found[t] THEN n ELSE found[t]
        BY <1>0, <2>1, <3>2 DEF recordPath
      <4>2. n # Nowhere /\ n \in 1..Len(input.paths) => n \in Reaching(t)
        BY <3>2, ChosenPaths DEF Reaching
      <4>3. n \in Nat \ {0} /\ n \in Reaching(t)
        BY <3>1, <3>2, <4>2, ChosenPaths DEF LoadInv, FoundOK, Nowhere
      <4> QED
        BY <1>0, <3>1, <4>1, <4>3 DEF Nowhere
    <3>3. CASE ~(Selected(p) /\ p.file = t)
      <4>1. found'[t] = found[t]
        BY <1>0, <2>1, <3>3 DEF recordPath
      <4>2. n \notin Reaching(t)
        BY <1>2, <3>3
      <4> QED
        BY <1>0, <3>1, <4>1, <4>2
    <3> QED
      BY <3>2, <3>3
  <2>4. (pending \subseteq DOMAIN input.paths)'
    BY <1>0 DEF LoadInv, FoundOK
  <2> QED
    BY <1>1, <2>2, <2>3, <2>4 DEF FoundOK
<1>4. OrderOK'
  BY <1>0 DEF LoadInv, OrderOK
<1>5. Composed' = Composed /\ UNCHANGED <<next, merged, order>>
  BY <1>0 DEF Composed, Document
<1>6. MergedOK'
  BY <1>5 DEF LoadInv, MergedOK
<1>7. VerdictOK'
  BY <1>0 DEF VerdictOK, LoadInv, Examine, Reject, Verdicts, Verdicts
<1> QED
  BY <1>0, <1>3, <1>4, <1>6, <1>7 DEF LoadInv

\* The paths in their order.
LEMMA ReadFilesOK ==
  ASSUME LoadInv, ReadFiles
  PROVE  LoadInv'
<1>0. /\ UNCHANGED <<input, pending, found, next, merged>> /\ order = <<>> /\ pending = {}
      /\ order' \in SetToSeqs(Chosen) /\ \A i, j \in DOMAIN order' : i < j => order'[i] < order'[j]
      /\ Chosen # {} => outcome' = outcome
      /\ outcome = "loading" /\ next = 1 /\ merged = <<>>
  BY DEF ReadFiles, Chosen, LoadInv, OrderOK
<1>1. /\ DOMAIN order' = 1..Len(order') /\ Len(order') \in Nat /\ Len(order') = Cardinality(Chosen)
      /\ \A i \in DOMAIN order' : order'[i] \in Chosen
  BY <1>0, ChosenPaths, SeqOfAll
<1>2. Chosen = {} => order' = <<>>
  <2>1. Cardinality({}) = 0
    BY FS_EmptySet
  <2>2. Chosen = {} => order' \in [1..0 -> {}]
    BY <1>0, <2>1 DEF SetToSeqs
  <2> QED
    BY <2>2
<1>3. FoundOK'
  BY <1>0 DEF LoadInv, FoundOK, Reaching, Selected, Considered
<1>4. Chosen' = Chosen
  BY <1>0 DEF Chosen
<1>5. OrderOK'
  BY <1>0, <1>4 DEF OrderOK
<1>6. MergedOK'
  <2>1. /\ Compose!ShapeTo(Composed', 0) /\ Compose!NamesTo(Composed', 0) = {}
        /\ ~Compose!FaultyTo(Composed', 0)
    BY DEF Compose!ShapeTo, Compose!NamesTo, Compose!FaultyTo
  <2>2. next' - 1 = 0 /\ next' \in 1..(Len(order') + 1) /\ merged' = <<>>
    BY <1>0, <1>1
  <2>3. Compose!Sums(First!Shape(<<>>), First!Names(<<>>), First!Faulty(<<>>), TRUE, {}, FALSE,
                     Compose!ShapeTo(Composed', 0), Compose!NamesTo(Composed', 0),
                     Compose!FaultyTo(Composed', 0))
    BY <2>1, NothingYet, Zenon DEF Compose!Sums
  <2> QED
    BY <2>2, <2>3, NothingYet DEF MergedOK
<1>7. VerdictOK'
  <2>1. outcome' \in Verdicts
    BY <1>0 DEF ReadFiles, Reject, Verdicts
  <2> QED
    BY <1>0, <1>2, <2>1 DEF VerdictOK
<1> QED
  BY <1>0, <1>3, <1>5, <1>6, <1>7 DEF LoadInv

\* One document more.
LEMMA ComposeFileOK ==
  ASSUME LoadInv, ComposeFile
  PROVE  LoadInv'
<1> DEFINE d == Document(order[next])
           m == mergeMapping(merged, d.entries)
<1>0. /\ UNCHANGED <<input, pending, found, order>> /\ next \in DOMAIN order /\ outcome = "loading"
      /\ IF d.kind = "mapping" /\ m.ok
         THEN merged' = m.entries /\ next' = next + 1 /\ UNCHANGED outcome
         ELSE outcome' = "rejected" /\ UNCHANGED <<merged, next>>
  BY DEF ComposeFile, Reject
<1>1. /\ DOMAIN order = 1..Len(order) /\ Len(order) \in Nat
      /\ Len(Composed) = Len(order) /\ DOMAIN Composed = 1..Len(order)
      /\ next \in 1..Len(order) /\ next \in Nat \ {0} /\ d = Composed[next] /\ docWf(d) /\ order # <<>>
  BY <1>0, OrderFacts DEF Documents
<1>2. FoundOK'
  BY <1>0 DEF LoadInv, FoundOK, Reaching, Selected, Considered
<1>3. Composed' = Composed /\ Chosen' = Chosen
  BY <1>0 DEF Composed, Document, Chosen
<1>4. OrderOK'
  BY <1>0, <1>1, <1>3 DEF LoadInv, OrderOK
<1>5. /\ FirstLevel(merged) /\ Unique(merged)
      /\ Compose!Sums(First!Shape(merged), First!Names(merged), First!Faulty(merged), TRUE, {}, FALSE,
                      Compose!ShapeTo(Composed, next - 1), Compose!NamesTo(Composed, next - 1),
                      Compose!FaultyTo(Composed, next - 1))
      /\ (\A i \in 1..(next - 1) : docUnique(Composed[i])) => First!InnerUnique(merged)
  BY DEF LoadInv, MergedOK
<1>6. /\ Compose!ShapeTo(Composed, next) <=> Compose!ShapeTo(Composed, next - 1) /\ docShape(d)
      /\ Compose!NamesTo(Composed, next) = Compose!NamesTo(Composed, next - 1) \cup docNames(d)
      /\ Compose!FaultyTo(Composed, next) <=>
           \/ Compose!FaultyTo(Composed, next - 1) \/ docFaulty(d)
           \/ Compose!NamesTo(Composed, next - 1) \cap docNames(d) # {}
  BY <1>1, Compose!OneMore
<1>7. ASSUME d.kind = "mapping"
      PROVE  /\ m = [ok |-> m.ok, entries |-> m.entries] /\ m.ok \in BOOLEAN /\ FirstLevel(m.entries)
             /\ Compose!Sums(m.ok /\ First!Shape(m.entries), First!Names(m.entries), First!Faulty(m.entries),
                             First!Shape(merged), First!Names(merged), First!Faulty(merged),
                             docShape(d), docNames(d), docFaulty(d))
             /\ Unique(merged) => Unique(m.entries)
             /\ First!InnerUnique(merged) /\ docUnique(d) => First!InnerUnique(m.entries)
  <2>1. FirstLevel(d.entries)
    BY <1>1, <1>7 DEF docWf
  <2>2. /\ docShape(d) <=> First!Shape(d.entries)
        /\ docNames(d) = First!Names(d.entries)
        /\ docFaulty(d) <=> First!Faulty(d.entries)
        /\ docUnique(d) <=> First!InnerUnique(d.entries)
    BY <1>7 DEF docShape, docNames, docFaulty, docUnique
  <2>3. /\ m = [ok |-> m.ok, entries |-> m.entries] /\ m.ok \in BOOLEAN /\ FirstLevel(m.entries)
        /\ Compose!Sums(m.ok /\ First!Shape(m.entries), First!Names(m.entries), First!Faulty(m.entries),
                        First!Shape(merged), First!Names(merged), First!Faulty(merged),
                        First!Shape(d.entries), First!Names(d.entries), First!Faulty(d.entries))
        /\ Unique(merged) => Unique(m.entries)
        /\ First!InnerUnique(merged) /\ First!InnerUnique(d.entries) => First!InnerUnique(m.entries)
    BY <1>5, <2>1, ComposeAdds
  <2> HIDE DEF m, d
  <2> QED
    BY <2>2, <2>3, Zenon DEF Compose!Sums
<1> HIDE DEF m, d
<1>8. CASE d.kind = "mapping" /\ m.ok
  <2>1. merged' = m.entries /\ next' = next + 1 /\ outcome' = outcome /\ next' - 1 = next
    BY <1>0, <1>1, <1>8
  <2>2. Compose!Sums(First!Shape(m.entries), First!Names(m.entries), First!Faulty(m.entries), TRUE, {}, FALSE,
                     Compose!ShapeTo(Composed, next), Compose!NamesTo(Composed, next),
                     Compose!FaultyTo(Composed, next))
    BY <1>5, <1>6, <1>7, <1>8 DEF Compose!Sums
  <2>3. (\A i \in 1..next : docUnique(Composed[i])) => First!InnerUnique(m.entries)
    <3>1. ASSUME \A i \in 1..next : docUnique(Composed[i])
          PROVE  docUnique(d) /\ \A i \in 1..(next - 1) : docUnique(Composed[i])
      BY <1>1, <3>1
    <3> QED
      BY <1>5, <1>7, <1>8, <3>1
  <2>4. next' \in 1..(Len(order) + 1)
    BY <1>1, <2>1
  <2>5. MergedOK'
    BY <1>0, <1>3, <1>5, <1>7, <1>8, <2>1, <2>2, <2>3, <2>4 DEF MergedOK
  <2>6. VerdictOK'
    BY <1>0, <2>1 DEF VerdictOK, Verdicts
  <2> QED
    BY <1>0, <1>2, <1>4, <2>5, <2>6 DEF LoadInv
<1>9. CASE ~(d.kind = "mapping" /\ m.ok)
  <2>1. outcome' = "rejected" /\ UNCHANGED <<merged, next, order>>
    BY <1>0, <1>9
  <2>2. MergedOK'
    BY <1>3, <2>1 DEF LoadInv, MergedOK
  <2>3. ~Acceptable(Composed)
    <3> SUFFICES ASSUME Acceptable(Composed) PROVE FALSE
      OBVIOUS
    <3>1. Compose!ShapeTo(Composed, Len(order)) /\ ~Compose!FaultyTo(Composed, Len(order))
      BY <1>1 DEF Acceptable
    <3>2. 1..next \subseteq 1..Len(order)
      BY <1>1
    <3>3. Compose!ShapeTo(Composed, next)
      BY <3>1, <3>2 DEF Compose!ShapeTo
    <3>4. ~Compose!FaultyTo(Composed, next)
      BY <3>1, <3>2 DEF Compose!FaultyTo
    <3>5. d.kind = "mapping"
      BY <1>6, <3>3 DEF docShape
    <3> QED
      BY <1>5, <1>6, <1>7, <1>9, <3>3, <3>4, <3>5 DEF Compose!Sums
  <2>4. VerdictOK'
    BY <1>3, <2>1, <2>3 DEF VerdictOK, Verdicts
  <2> QED
    BY <1>0, <1>2, <1>4, <2>2, <2>4 DEF LoadInv
<1> QED
  BY <1>8, <1>9

\* The verdict on the whole.
LEMMA ParseOK ==
  ASSUME LoadInv, Parse
  PROVE  LoadInv'
<1>0. /\ UNCHANGED <<input, pending, found, order, next, merged>> /\ order # <<>>
      /\ outcome' = (IF Valid(merged) THEN "accepted" ELSE "rejected") /\ next > Len(order)
  BY DEF Parse
<1>1. next = Len(order) + 1 /\ Len(Composed) = Len(order) /\ next - 1 = Len(order) /\ DOMAIN order = 1..Len(order)
  <2>1. next \in 1..(Len(order) + 1)
    BY DEF LoadInv, MergedOK
  <2>2. Len(order) \in Nat /\ Len(Composed) = Len(order) /\ DOMAIN order = 1..Len(order)
    BY OrderFacts
  <2> QED
    BY <1>0, <2>1, <2>2
<1>2. FoundOK'
  BY <1>0 DEF LoadInv, FoundOK, Reaching, Selected, Considered
<1>3. Composed' = Composed /\ Chosen' = Chosen
  BY <1>0 DEF Composed, Document, Chosen
<1>4. OrderOK' /\ MergedOK'
  BY <1>0, <1>3 DEF LoadInv, OrderOK, MergedOK
<1>5. ASSUME ~Valid(merged), \A i \in DOMAIN order : docUnique(Composed[i])
      PROVE  ~Acceptable(Composed)
  <2>1. /\ FirstLevel(merged) /\ Unique(merged) /\ First!InnerUnique(merged)
        /\ Compose!Sums(First!Shape(merged), First!Names(merged), First!Faulty(merged), TRUE, {}, FALSE,
                        Compose!ShapeTo(Composed, Len(Composed)), Compose!NamesTo(Composed, Len(Composed)),
                        Compose!FaultyTo(Composed, Len(Composed)))
    BY <1>1, <1>5 DEF LoadInv, MergedOK
  <2>2. ~(First!Shape(merged) /\ ~First!Faulty(merged) /\ Required \subseteq First!Names(merged))
    BY <1>5, <2>1, ValidIff
  <2> QED
    BY <2>1, <2>2 DEF Acceptable, Compose!Sums
<1>6. VerdictOK'
  BY <1>0, <1>1, <1>3, <1>5 DEF VerdictOK, Verdicts
<1> QED
  BY <1>0, <1>2, <1>4, <1>6 DEF LoadInv

\* Every step of the load preserves the invariant.
LEMMA LoadStepOK ==
  ASSUME LoadInv, Load
  PROVE  LoadInv'
  BY ExamineOK, ReadFilesOK, ComposeFileOK, ParseOK DEF Load

\* What a load has read is in every state accounted for by the invariant: the
\* files by the paths that lead to them, the merged document by the documents
\* composed (discover.go recordPath, load.go loadFiles, parse.go Parse).
THEOREM LoadInvariance == ProcessSpec => []LoadInv
<1>1. LoadInv /\ [ProcessNext]_<<vars, loadVars>> => LoadInv'
  <2> SUFFICES ASSUME LoadInv, [ProcessNext]_<<vars, loadVars>> PROVE LoadInv'
    OBVIOUS
  <2>1. CASE Restart
    <3>1. Afresh /\ outcome' \in Verdicts
      BY <2>1 DEF Restart, Verdicts
    <3> QED
      BY <3>1, AfreshOK
  <2>2. CASE LoadStep
    <3>1. Load
      BY <2>2 DEF LoadStep
    <3> QED
      BY <3>1, LoadStepOK
  <2>3. CASE FinishLoad
    <3>1. Afresh /\ outcome' \in Verdicts
      BY <2>3 DEF FinishLoad, LoadInv, VerdictOK
    <3> QED
      BY <3>1, AfreshOK
  <2>4. CASE UNCHANGED loadVars
    BY <2>4, LoadStutter
  <2> QED
    BY <2>1, <2>2, <2>3, <2>4 DEF ProcessNext
<1> QED
  BY InitLoaded, <1>1, PTL DEF ProcessSpec

-----------------------------------------------------------------------------
(* What an accepted configuration is *)

\* Every file that a matched path leads to is composed once, under its first
\* path, for any selector and any number of files (discover.go recordPath,
\* readFiles).
THEOREM SourcesReadOnce == ProcessSpec => []SourcesOnce
<1>1. LoadInv => SourcesOnce
  <2> SUFFICES ASSUME LoadInv, order # <<>> PROVE SourcesOnce
    BY DEF SourcesOnce
  <2>1. ToSet(order) = Chosen /\ pending = {} /\ \A i, j \in DOMAIN order : i < j => order[i] < order[j]
    BY ChosenPaths, SeqOfAll DEF LoadInv, OrderOK
  <2>2. ASSUME NEW t \in Targets
        PROVE  FirstPath(t) = {found[t]} \ {Nowhere}
    <3>1. /\ found[t] = Nowhere => Reaching(t) = {}
          /\ found[t] # Nowhere => found[t] \in Reaching(t) /\ \A n \in Reaching(t) : found[t] <= n
      BY <2>1 DEF LoadInv, FoundOK
    <3>2. DOMAIN input.paths = 1..Len(input.paths) /\ Len(input.paths) \in Nat
      BY ChosenPaths
    <3>3. FirstPath(t) = {n \in Reaching(t) : \A m \in Reaching(t) : n <= m}
      BY <3>2 DEF FirstPath, Reaching
    <3>4. Reaching(t) \subseteq Nat
      BY <3>2 DEF Reaching
    <3> QED
      BY <3>1, <3>3, <3>4
  <2>3. UNION {FirstPath(t) : t \in Targets} = Chosen
    BY <2>2 DEF Chosen
  <2> QED
    BY <2>1, <2>3 DEF SourcesOnce
<1> QED
  BY LoadInvariance, <1>1, PTL

\* Whether documents are acceptable together does not depend on their order.
LEMMA OrderIrrelevant ==
  ASSUME NEW docs, DOMAIN docs = 1..Len(docs), Len(docs) \in Nat,
         NEW p \in SetToSeqs(DOMAIN docs)
  PROVE  LET q == [i \in DOMAIN docs |-> docs[p[i]]] IN
         /\ DOMAIN q = 1..Len(docs) /\ Len(q) = Len(docs)
         /\ \A i \in DOMAIN docs : p[i] \in DOMAIN docs /\ q[i] = docs[p[i]]
         /\ Acceptable(q) <=> Acceptable(docs)
<1> DEFINE n == Len(docs)
           q == [i \in DOMAIN docs |-> docs[p[i]]]
<1>1. /\ DOMAIN p = 1..n
      /\ \A i \in 1..n : p[i] \in 1..n
      /\ \A i, j \in 1..n : i # j => p[i] # p[j]
      /\ \A x \in 1..n : \E i \in 1..n : p[i] = x
  <2>1. IsFiniteSet(1..n) /\ Cardinality(1..n) = n
    <3>1. n \in Int /\ 1 \in Int /\ (IF 1 > n THEN 0 ELSE n - 1 + 1) = n
      OBVIOUS
    <3> HIDE DEF n
    <3> QED
      BY <3>1, FS_Interval
  <2>2. p \in SetToSeqs(1..n)
    OBVIOUS
  <2> HIDE DEF n
  <2>3. /\ DOMAIN p = 1..Len(p) /\ Len(p) = Cardinality(1..n)
        /\ \A i \in DOMAIN p : p[i] \in 1..n
        /\ \A i, j \in DOMAIN p : i # j => p[i] # p[j]
        /\ \A x \in 1..n : \E i \in DOMAIN p : p[i] = x
    BY <2>1, <2>2, SeqOfAll
  <2>4. DOMAIN p = 1..n
    BY <2>1, <2>3
  <2> QED
    BY <2>3, <2>4
<1>2. DOMAIN q = 1..n /\ \A i \in 1..n : q[i] = docs[p[i]]
  OBVIOUS
<1>3. Len(q) = n
  BY <1>2
<1> HIDE DEF q, n
<1>4. Compose!ShapeTo(q, n) <=> Compose!ShapeTo(docs, n)
  BY <1>1, <1>2 DEF Compose!ShapeTo
<1>5. Compose!NamesTo(q, n) = Compose!NamesTo(docs, n)
  <2>1. ASSUME NEW x PROVE x \in Compose!NamesTo(q, n) <=> x \in Compose!NamesTo(docs, n)
    <3>1. x \in Compose!NamesTo(q, n) <=> \E i \in 1..n : x \in docNames(q[i])
      BY DEF Compose!NamesTo
    <3>2. x \in Compose!NamesTo(docs, n) <=> \E i \in 1..n : x \in docNames(docs[i])
      BY DEF Compose!NamesTo
    <3>3. ASSUME NEW i \in 1..n, x \in docNames(q[i]) PROVE \E k \in 1..n : x \in docNames(docs[k])
      <4>1. p[i] \in 1..n /\ q[i] = docs[p[i]]
        BY <1>1, <1>2
      <4> QED
        BY <3>3, <4>1
    <3>4. ASSUME NEW k \in 1..n, x \in docNames(docs[k]) PROVE \E i \in 1..n : x \in docNames(q[i])
      <4>1. PICK i \in 1..n : p[i] = k
        BY <1>1
      <4> QED
        BY <1>2, <3>4, <4>1
    <3> QED
      BY <3>1, <3>2, <3>3, <3>4
  <2> QED
    BY <2>1
<1>6. Compose!FaultyTo(q, n) <=> Compose!FaultyTo(docs, n)
  <2>1. (\E i \in 1..n : docFaulty(q[i])) <=> (\E i \in 1..n : docFaulty(docs[i]))
    BY <1>1, <1>2
  <2>2. (\E i, j \in 1..n : i # j /\ docNames(q[i]) \cap docNames(q[j]) # {}) <=>
          (\E i, j \in 1..n : i # j /\ docNames(docs[i]) \cap docNames(docs[j]) # {})
    <3>1. ASSUME NEW i \in 1..n, NEW j \in 1..n, i # j, docNames(q[i]) \cap docNames(q[j]) # {}
          PROVE  \E k, l \in 1..n : k # l /\ docNames(docs[k]) \cap docNames(docs[l]) # {}
      <4>1. p[i] \in 1..n /\ p[j] \in 1..n /\ p[i] # p[j] /\ q[i] = docs[p[i]] /\ q[j] = docs[p[j]]
        BY <1>1, <1>2, <3>1
      <4> QED
        BY <3>1, <4>1
    <3>2. ASSUME NEW k \in 1..n, NEW l \in 1..n, k # l, docNames(docs[k]) \cap docNames(docs[l]) # {}
          PROVE  \E i, j \in 1..n : i # j /\ docNames(q[i]) \cap docNames(q[j]) # {}
      <4>1. PICK i \in 1..n : p[i] = k
        BY <1>1
      <4>2. PICK j \in 1..n : p[j] = l
        BY <1>1
      <4>3. i # j /\ q[i] = docs[k] /\ q[j] = docs[l]
        BY <1>2, <3>2, <4>1, <4>2
      <4> QED
        BY <3>2, <4>3
    <3> QED
      BY <3>1, <3>2
  <2> QED
    BY <2>1, <2>2 DEF Compose!FaultyTo
<1>7. Acceptable(q) <=> Acceptable(docs)
  BY <1>3, <1>4, <1>5, <1>6 DEF Acceptable, n
<1> QED
  BY <1>1, <1>2, <1>3, <1>7 DEF q, n

\* What NamesIrrelevant excludes is what the laws of the merge exclude.
LEMMA NoRepeatedKey ==
  ASSUME NEW d, docWf(d), ~RepeatsKey(d)
  PROVE  docUnique(d)
<1> SUFFICES ASSUME d.kind = "mapping", NEW i \in 1..Len(d.entries), d.entries[i].value.kind = "mapping"
             PROVE  Unique(d.entries[i].value.entries)
  BY FirstMerge DEF docUnique, First!InnerUnique, First!EntryUnique
<1>1. DOMAIN d.entries = 1..Len(d.entries)
  BY DomainIs DEF docWf, FirstLevel, Entries
<1> QED
  BY <1>1 DEF RepeatsKey

\* What the verdict says of the documents.
LEMMA VerdictIff ==
  ASSUME LoadInv, order # <<>>, outcome # "loading", \A i \in DOMAIN order : docUnique(Composed[i])
  PROVE  outcome = "accepted" <=> Acceptable(Composed)
<1>1. CASE outcome = "accepted"
  <2>1. Valid(merged) /\ next - 1 = Len(Composed)
    BY <1>1, OrderFacts DEF LoadInv, VerdictOK
  <2>2. \A i \in 1..(next - 1) : docUnique(Composed[i])
    BY <2>1, OrderFacts
  <2>3. /\ FirstLevel(merged) /\ Unique(merged)
        /\ Compose!Sums(First!Shape(merged), First!Names(merged), First!Faulty(merged), TRUE, {}, FALSE,
                        Compose!ShapeTo(Composed, Len(Composed)), Compose!NamesTo(Composed, Len(Composed)),
                        Compose!FaultyTo(Composed, Len(Composed)))
    BY <2>1 DEF LoadInv, MergedOK
  <2>4. First!Shape(merged) /\ ~First!Faulty(merged) /\ Required \subseteq First!Names(merged)
    BY <2>1, <2>3, ValidIff
  <2>5. Acceptable(Composed)
    BY <2>3, <2>4 DEF Compose!Sums, Acceptable
  <2> QED
    BY <1>1, <2>5
<1>2. CASE outcome = "rejected"
  BY <1>2 DEF LoadInv, VerdictOK
<1> QED
  BY <1>1, <1>2 DEF LoadInv, VerdictOK, Verdicts

\* Whether files are accepted does not depend on the order their names put them
\* in, for any files that repeat no key in a nested mapping (load.go
\* loadFiles, parse.go Parse).
THEOREM NamesAreIrrelevant == ProcessSpec => []NamesIrrelevant
<1>1. LoadInv => NamesIrrelevant
  <2> SUFFICES ASSUME LoadInv, outcome # "loading", order # <<>>,
                      ~(\E i \in DOMAIN order : RepeatsKey(Composed[i])),
                      NEW p \in SetToSeqs(DOMAIN order)
               PROVE  Accepts([i \in DOMAIN order |-> Composed[p[i]]]) <=> outcome = "accepted"
    BY Zenon DEF NamesIrrelevant
  <2> DEFINE q == [i \in DOMAIN order |-> Composed[p[i]]]
  <2>1. /\ DOMAIN order = 1..Len(order) /\ Len(order) \in Nat
        /\ DOMAIN Composed = DOMAIN order /\ Len(Composed) = Len(order)
        /\ \A i \in DOMAIN order : docWf(Composed[i])
    BY OrderFacts DEF Documents
  <2>2. \A i \in DOMAIN order : docUnique(Composed[i])
    BY <2>1, NoRepeatedKey
  <2>3. /\ DOMAIN q = 1..Len(order) /\ Len(q) = Len(order)
        /\ \A i \in DOMAIN order : p[i] \in DOMAIN order /\ q[i] = Composed[p[i]]
        /\ Acceptable(q) <=> Acceptable(Composed)
    <3>1. DOMAIN Composed = 1..Len(Composed) /\ Len(Composed) \in Nat /\ p \in SetToSeqs(DOMAIN Composed)
      BY <2>1
    <3>2. LET r == [i \in DOMAIN Composed |-> Composed[p[i]]] IN
          /\ DOMAIN r = 1..Len(Composed) /\ Len(r) = Len(Composed)
          /\ \A i \in DOMAIN Composed : p[i] \in DOMAIN Composed /\ r[i] = Composed[p[i]]
          /\ Acceptable(r) <=> Acceptable(Composed)
      BY <3>1, OrderIrrelevant
    <3> QED
      BY <2>1, <3>2
  <2> HIDE DEF q
  <2>4. Documents(q) /\ \A i \in DOMAIN q : docUnique(q[i])
    BY <2>1, <2>2, <2>3 DEF Documents
  <2>5. Accepts(q) <=> Acceptable(q)
    BY <2>4, AcceptsIff
  <2>6. outcome = "accepted" <=> Acceptable(Composed)
    BY <2>2, VerdictIff
  <2>7. Accepts(q) <=> outcome = "accepted"
    BY <2>3, <2>5, <2>6
  <2> QED
    BY <2>7, Zenon DEF q
<1> QED
  BY LoadInvariance, <1>1, PTL

\* The documents of an accepted configuration, and how they differ.
LEMMA AcceptedDocuments ==
  ASSUME LoadInv, outcome = "accepted"
  PROVE  /\ Valid(merged) \/ merged = <<>>
         /\ \A n \in DOMAIN order :
              /\ Composed[n].kind = "mapping" /\ FirstLevel(Composed[n].entries)
              /\ First!Shape(Composed[n].entries) /\ ~First!Faulty(Composed[n].entries)
              /\ \A m \in DOMAIN order :
                   n # m => First!Names(Composed[n].entries) \cap First!Names(Composed[m].entries) = {}
<1>1. Valid(merged) \/ order = <<>>
  BY DEF LoadInv, VerdictOK
<1>2. order = <<>> => merged = <<>> /\ DOMAIN order = {}
  BY DEF LoadInv, OrderOK
<1>3. ASSUME order # <<>>, NEW n \in DOMAIN order
      PROVE  /\ Composed[n].kind = "mapping" /\ FirstLevel(Composed[n].entries)
             /\ First!Shape(Composed[n].entries) /\ ~First!Faulty(Composed[n].entries)
             /\ \A m \in DOMAIN order :
                  n # m => First!Names(Composed[n].entries) \cap First!Names(Composed[m].entries) = {}
  <2>1. Valid(merged) /\ next - 1 = Len(Composed) /\ DOMAIN order = 1..Len(Composed)
    BY <1>3, OrderFacts DEF LoadInv, VerdictOK
  <2>2. /\ FirstLevel(merged) /\ Unique(merged)
        /\ Compose!Sums(First!Shape(merged), First!Names(merged), First!Faulty(merged), TRUE, {}, FALSE,
                        Compose!ShapeTo(Composed, Len(Composed)), Compose!NamesTo(Composed, Len(Composed)),
                        Compose!FaultyTo(Composed, Len(Composed)))
    BY <2>1 DEF LoadInv, MergedOK
  <2>3. First!Shape(merged) /\ ~First!Faulty(merged)
    BY <2>1, <2>2, ValidIff
  <2>4. Compose!ShapeTo(Composed, Len(Composed)) /\ ~Compose!FaultyTo(Composed, Len(Composed))
    BY <2>2, <2>3 DEF Compose!Sums
  <2>5. \A m \in DOMAIN order : docShape(Composed[m]) /\ ~docFaulty(Composed[m])
    BY <2>1, <2>4 DEF Compose!ShapeTo, Compose!FaultyTo
  <2>6. \A m \in DOMAIN order : Composed[m].kind = "mapping" /\ docNames(Composed[m]) = First!Names(Composed[m].entries)
    BY <2>5 DEF docShape, docNames
  <2>7. \A m \in DOMAIN order : n # m => docNames(Composed[n]) \cap docNames(Composed[m]) = {}
    BY <2>1, <2>4 DEF Compose!FaultyTo
  <2>8. docWf(Composed[n])
    BY <2>1, OrderFacts DEF Documents
  <2> QED
    BY <2>5, <2>6, <2>7, <2>8 DEF docShape, docFaulty, docWf
<1> QED
  BY <1>1, <1>2, <1>3

\* The nodes of an accepted configuration, level by level: each has the shape
\* of its level, nothing in it is at fault, and no two have a name in common.
LEMMA TopNodes ==
  ASSUME LoadInv, outcome = "accepted"
  PROVE  /\ \A x \in TopLevel : First!WfEntry(x.entry) /\ First!EntryShape(x.entry) /\ ~First!EntryFaulty(x.entry)
         /\ \A x, y \in TopLevel : x # y => First!EntryNames(x.entry) \cap First!EntryNames(y.entry) = {}
<1> DEFINE E(n, i) == Composed[n].entries[i]
           node(n, i) == [at |-> <<n, i>>, entry |-> E(n, i)]
<1>1. \A x \in TopLevel : \E n \in DOMAIN order : \E i \in DOMAIN Composed[n].entries : x = node(n, i)
  BY DEF TopLevel
<1>2. ASSUME NEW n \in DOMAIN order
      PROVE  /\ DOMAIN Composed[n].entries = 1..Len(Composed[n].entries)
             /\ \A i \in DOMAIN Composed[n].entries :
                  /\ First!WfEntry(E(n, i)) /\ First!EntryShape(E(n, i)) /\ ~First!EntryFaulty(E(n, i))
                  /\ First!EntryNames(E(n, i)) \subseteq First!Names(Composed[n].entries)
                  /\ \A j \in DOMAIN Composed[n].entries :
                       i # j => First!EntryNames(E(n, i)) \cap First!EntryNames(E(n, j)) = {}
  <2>1. /\ FirstLevel(Composed[n].entries) /\ First!Shape(Composed[n].entries)
        /\ ~First!Faulty(Composed[n].entries)
    BY AcceptedDocuments
  <2>2. DOMAIN Composed[n].entries = 1..Len(Composed[n].entries)
    BY <2>1, DomainIs DEF FirstLevel, Entries
  <2>3. \A i \in 1..Len(Composed[n].entries) : First!WfEntry(E(n, i))
    BY <2>1, FirstMerge, First!WfEntries
  <2> QED
    BY <2>1, <2>2, <2>3 DEF First!Shape, First!Faulty, First!Names
<1>3. ASSUME NEW n \in DOMAIN order, NEW m \in DOMAIN order,
             NEW i \in DOMAIN Composed[n].entries, NEW j \in DOMAIN Composed[m].entries,
             n # m \/ i # j
      PROVE  First!EntryNames(E(n, i)) \cap First!EntryNames(E(m, j)) = {}
  <2>1. CASE n = m
    BY <1>2, <1>3, <2>1
  <2>2. CASE n # m
    <3>1. First!Names(Composed[n].entries) \cap First!Names(Composed[m].entries) = {}
      BY <2>2, AcceptedDocuments
    <3>2. First!EntryNames(E(n, i)) \subseteq First!Names(Composed[n].entries)
      BY <1>2
    <3>3. First!EntryNames(E(m, j)) \subseteq First!Names(Composed[m].entries)
      BY <1>2
    <3> QED
      BY <3>1, <3>2, <3>3
  <2> QED
    BY <2>1, <2>2
<1>4. ASSUME NEW x \in TopLevel
      PROVE  First!WfEntry(x.entry) /\ First!EntryShape(x.entry) /\ ~First!EntryFaulty(x.entry)
  BY <1>1, <1>2
<1>5. ASSUME NEW x \in TopLevel, NEW y \in TopLevel, x # y
      PROVE  First!EntryNames(x.entry) \cap First!EntryNames(y.entry) = {}
  <2>1. PICK n \in DOMAIN order : \E i \in DOMAIN Composed[n].entries : x = node(n, i)
    BY <1>1
  <2>2. PICK i \in DOMAIN Composed[n].entries : x = node(n, i)
    BY <2>1
  <2>3. PICK m \in DOMAIN order : \E j \in DOMAIN Composed[m].entries : y = node(m, j)
    BY <1>1
  <2>4. PICK j \in DOMAIN Composed[m].entries : y = node(m, j)
    BY <2>3
  <2>5. n # m \/ i # j
    BY <1>5, <2>2, <2>4
  <2>6. x.entry = E(n, i) /\ y.entry = E(m, j)
    BY <2>2, <2>4
  <2> QED
    BY <1>3, <2>5, <2>6
<1> QED
  BY <1>4, <1>5

\* One level down.
LEMMA InsideNodes ==
  ASSUME NEW nodes, NEW key
  PROVE  \A x \in Inside(nodes, key) :
           \E a \in nodes : \E i \in DOMAIN a.entry.value.entries :
             /\ a.entry.value.kind = "mapping" /\ a.entry.key = key
             /\ x = [at |-> Append(a.at, i), entry |-> a.entry.value.entries[i]]
  BY DEF Inside

\* The settings of config, of all the files.
LEMMA SettingNodes ==
  ASSUME LoadInv, outcome = "accepted"
  PROVE  LET nodes == Inside(TopLevel, "config") IN
         /\ \A x \in nodes : Second!WfEntry(x.entry) /\ Second!EntryShape(x.entry) /\ ~Second!EntryFaulty(x.entry)
         /\ \A x, y \in nodes : x # y => Second!EntryNames(x.entry) \cap Second!EntryNames(y.entry) = {}
<1> DEFINE nodes == Inside(TopLevel, "config")
           E(a, i) == a.entry.value.entries[i]
<1>1. ASSUME NEW a \in TopLevel, a.entry.value.kind = "mapping"
      PROVE  \A i \in DOMAIN a.entry.value.entries :
               /\ Second!WfEntry(E(a, i)) /\ Second!EntryShape(E(a, i)) /\ ~Second!EntryFaulty(E(a, i))
               /\ Second!EntryNames(E(a, i)) \subseteq First!EntryNames(a.entry)
               /\ \A j \in DOMAIN a.entry.value.entries :
                    i # j => Second!EntryNames(E(a, i)) \cap Second!EntryNames(E(a, j)) = {}
  <2> DEFINE c == a.entry.value.entries
  <2>1. First!WfEntry(a.entry) /\ First!EntryShape(a.entry) /\ ~First!EntryFaulty(a.entry)
    BY TopNodes
  <2>2. /\ SecondLevel(c) /\ configShape(c) /\ ~configFaulty(c)
        /\ First!EntryNames(a.entry) = configNames(c)
    BY <1>1, <2>1 DEF First!WfEntry, First!EntryShape, First!EntryFaulty, First!EntryNames
  <2>3. DOMAIN c = 1..Len(c)
    BY <2>2, DomainIs DEF SecondLevel, Entries
  <2> HIDE DEF c
  <2>4. \A i \in 1..Len(c) : Second!WfEntry(c[i])
    BY <2>2, SecondMerge, Second!WfEntries
  <2>5. \A i \in DOMAIN c :
          /\ Second!WfEntry(c[i]) /\ Second!EntryShape(c[i]) /\ ~Second!EntryFaulty(c[i])
          /\ Second!EntryNames(c[i]) \subseteq First!EntryNames(a.entry)
          /\ \A j \in DOMAIN c : i # j => Second!EntryNames(c[i]) \cap Second!EntryNames(c[j]) = {}
    BY <2>2, <2>3, <2>4 DEF configShape, configFaulty, configNames, Second!Shape, Second!Faulty, Second!Names
  <2> QED
    BY <2>5 DEF c
<1>2. ASSUME NEW x \in nodes
      PROVE  Second!WfEntry(x.entry) /\ Second!EntryShape(x.entry) /\ ~Second!EntryFaulty(x.entry)
  BY <1>1, InsideNodes
<1>3. ASSUME NEW x \in nodes, NEW y \in nodes, x # y
      PROVE  Second!EntryNames(x.entry) \cap Second!EntryNames(y.entry) = {}
  <2>1. PICK a \in TopLevel : \E i \in DOMAIN a.entry.value.entries :
          a.entry.value.kind = "mapping" /\ x = [at |-> Append(a.at, i), entry |-> E(a, i)]
    BY InsideNodes
  <2>2. PICK i \in DOMAIN a.entry.value.entries :
          a.entry.value.kind = "mapping" /\ x = [at |-> Append(a.at, i), entry |-> E(a, i)]
    BY <2>1
  <2>3. PICK b \in TopLevel : \E j \in DOMAIN b.entry.value.entries :
          b.entry.value.kind = "mapping" /\ y = [at |-> Append(b.at, j), entry |-> E(b, j)]
    BY InsideNodes
  <2>4. PICK j \in DOMAIN b.entry.value.entries :
          b.entry.value.kind = "mapping" /\ y = [at |-> Append(b.at, j), entry |-> E(b, j)]
    BY <2>3
  <2>5. a # b \/ i # j
    BY <1>3, <2>2, <2>4
  <2>6. x.entry = E(a, i) /\ y.entry = E(b, j)
    BY <2>2, <2>4
  <2>7. a # b => First!EntryNames(a.entry) \cap First!EntryNames(b.entry) = {}
    BY TopNodes
  <2>8. /\ Second!EntryNames(E(a, i)) \subseteq First!EntryNames(a.entry)
        /\ Second!EntryNames(E(b, j)) \subseteq First!EntryNames(b.entry)
        /\ a = b /\ i # j => Second!EntryNames(E(a, i)) \cap Second!EntryNames(E(b, j)) = {}
    BY <1>1, <2>2, <2>4
  <2>9. Second!EntryNames(E(a, i)) \cap Second!EntryNames(E(b, j)) = {}
    BY <2>5, <2>7, <2>8
  <2> QED
    BY <2>6, <2>9
<1> QED
  BY <1>2, <1>3

\* Those of config.security.
LEMMA SecurityNodes ==
  ASSUME LoadInv, outcome = "accepted"
  PROVE  LET nodes == Inside(Inside(TopLevel, "config"), "security") IN
         /\ \A x \in nodes : Third!EntryShape(x.entry)
         /\ \A x, y \in nodes : x # y => Third!EntryNames(x.entry) \cap Third!EntryNames(y.entry) = {}
<1> DEFINE above == Inside(TopLevel, "config")
           nodes == Inside(above, "security")
           E(a, i) == a.entry.value.entries[i]
<1>1. ASSUME NEW a \in above, a.entry.value.kind = "mapping"
      PROVE  \A i \in DOMAIN a.entry.value.entries :
               /\ Third!EntryShape(E(a, i))
               /\ Third!EntryNames(E(a, i)) \subseteq Second!EntryNames(a.entry)
               /\ \A j \in DOMAIN a.entry.value.entries :
                    i # j => Third!EntryNames(E(a, i)) \cap Third!EntryNames(E(a, j)) = {}
  <2> DEFINE c == a.entry.value.entries
  <2>1. Second!WfEntry(a.entry) /\ Second!EntryShape(a.entry) /\ ~Second!EntryFaulty(a.entry)
    BY SettingNodes
  <2>2. /\ ThirdLevel(c) /\ securityShape(c) /\ ~securityFaulty(c)
        /\ Second!EntryNames(a.entry) = securityNames(c)
    BY <1>1, <2>1 DEF Second!WfEntry, Second!EntryShape, Second!EntryFaulty, Second!EntryNames
  <2>3. DOMAIN c = 1..Len(c)
    BY <2>2, DomainIs DEF ThirdLevel, Entries
  <2> HIDE DEF c
  <2>4. \A i \in DOMAIN c :
          /\ Third!EntryShape(c[i])
          /\ Third!EntryNames(c[i]) \subseteq Second!EntryNames(a.entry)
          /\ \A j \in DOMAIN c : i # j => Third!EntryNames(c[i]) \cap Third!EntryNames(c[j]) = {}
    BY <2>2, <2>3 DEF securityShape, securityFaulty, securityNames, Third!Shape, Third!Faulty, Third!Names
  <2> QED
    BY <2>4 DEF c
<1> HIDE DEF above
<1>2. ASSUME NEW x \in nodes PROVE Third!EntryShape(x.entry)
  BY <1>1, InsideNodes
<1>3. ASSUME NEW x \in nodes, NEW y \in nodes, x # y
      PROVE  Third!EntryNames(x.entry) \cap Third!EntryNames(y.entry) = {}
  <2>1. PICK a \in above : \E i \in DOMAIN a.entry.value.entries :
          a.entry.value.kind = "mapping" /\ x = [at |-> Append(a.at, i), entry |-> E(a, i)]
    BY InsideNodes
  <2>2. PICK i \in DOMAIN a.entry.value.entries :
          a.entry.value.kind = "mapping" /\ x = [at |-> Append(a.at, i), entry |-> E(a, i)]
    BY <2>1
  <2>3. PICK b \in above : \E j \in DOMAIN b.entry.value.entries :
          b.entry.value.kind = "mapping" /\ y = [at |-> Append(b.at, j), entry |-> E(b, j)]
    BY InsideNodes
  <2>4. PICK j \in DOMAIN b.entry.value.entries :
          b.entry.value.kind = "mapping" /\ y = [at |-> Append(b.at, j), entry |-> E(b, j)]
    BY <2>3
  <2>5. a # b \/ i # j
    BY <1>3, <2>2, <2>4
  <2>6. x.entry = E(a, i) /\ y.entry = E(b, j)
    BY <2>2, <2>4
  <2>7. a # b => Second!EntryNames(a.entry) \cap Second!EntryNames(b.entry) = {}
    BY SettingNodes DEF above
  <2>8. /\ Third!EntryNames(E(a, i)) \subseteq Second!EntryNames(a.entry)
        /\ Third!EntryNames(E(b, j)) \subseteq Second!EntryNames(b.entry)
        /\ a = b /\ i # j => Third!EntryNames(E(a, i)) \cap Third!EntryNames(E(b, j)) = {}
    BY <1>1, <2>2, <2>4
  <2>9. Third!EntryNames(E(a, i)) \cap Third!EntryNames(E(b, j)) = {}
    BY <2>5, <2>7, <2>8
  <2> QED
    BY <2>6, <2>9
<1>4. /\ \A x \in nodes : Third!EntryShape(x.entry)
      /\ \A x, y \in nodes : x # y => Third!EntryNames(x.entry) \cap Third!EntryNames(y.entry) = {}
  BY <1>2, <1>3
<1> QED
  BY <1>4, Zenon DEF above

\* The users and the clients of an accepted configuration.
LEMMA AcceptedItems ==
  ASSUME LoadInv, outcome = "accepted", NEW key \in {"users", "clients"}
  PROVE  /\ DOMAIN Items(merged, key) = 1..Len(Items(merged, key))
         /\ Len(Items(merged, key)) \in Nat
         /\ validateUsers(Users(merged)) \/ Users(merged) = <<>>
         /\ validateClients(Items(merged, "clients"))
<1>1. CASE merged = <<>>
  <2>1. Items(merged, key) = <<>> /\ Items(merged, "users") = <<>> /\ Items(merged, "clients") = <<>>
    BY <1>1 DEF Items, Has, Positions
  <2>2. Users(merged) = <<>>
    BY <2>1 DEF Users
  <2>3. validateClients(Items(merged, "clients"))
    <3>1. DOMAIN Items(merged, "clients") = {}
      BY <2>1
    <3> QED
      BY <3>1 DEF validateClients
  <2> QED
    BY <2>1, <2>2, <2>3
<1>2. CASE Valid(merged)
  <2>1. IsSequence(Items(merged, key))
    <3>1. CASE Has(merged, key)
      <4>1. PICK n \in DOMAIN merged : merged[n].key = key /\ Child(merged, key) = merged[n].value
        BY <3>1, FirstEntries DEF LoadInv, MergedOK
      <4>2. merged[n].value.kind = "list"
        BY <1>2, <4>1 DEF Valid, Decodes, Fields
      <4> QED
        BY <3>1, <4>1, <4>2, FirstEntries DEF LoadInv, MergedOK, Items
    <3>2. CASE ~Has(merged, key)
      BY <3>2 DEF Items, IsSequence
    <3> QED
      BY <3>1, <3>2
  <2>2. validateUsers(Users(merged)) /\ validateClients(Items(merged, "clients"))
    BY <1>2, Zenon DEF Valid, validate
  <2> QED
    BY <2>1, <2>2, DomainIs
<1> QED
  BY <1>1, <1>2, AcceptedDocuments

\* In an accepted configuration a typed identifier belongs to one user at most
\* (parse.go validateUsers).
THEOREM OwnersAreUnique == ProcessSpec => []OwnerUnique
<1>1. LoadInv => OwnerUnique
  <2> SUFFICES ASSUME LoadInv, outcome = "accepted",
                      NEW i \in DOMAIN Users(merged), NEW j \in DOMAIN Users(merged), i # j
               PROVE  {Users(merged)[i].sub, Users(merged)[i].login}
                        \cap {Users(merged)[j].sub, Users(merged)[j].login} = {}
    BY Zenon DEF OwnerUnique
  <2> DEFINE users == Users(merged)
  <2>1. validateUsers(users) \/ users = <<>>
    BY AcceptedItems
  <2>2. DOMAIN users \subseteq Nat \ {0}
    BY AcceptedItems DEF Users
  <2>3. i \in DOMAIN users /\ j \in DOMAIN users
    OBVIOUS
  <2> HIDE DEF users
  <2>4. ASSUME NEW k \in DOMAIN users, NEW n \in DOMAIN users, k < n
        PROVE  {users[k].sub, users[k].login} \cap {users[n].sub, users[n].login} = {}
    <3>1. validateUsers(users) /\ k \in 1..(n - 1)
      BY <2>1, <2>2, <2>4
    <3> QED
      BY <3>1 DEF validateUsers, identifiersOf
  <2>5. i < j \/ j < i
    BY <2>2, <2>3
  <2>6. {users[i].sub, users[i].login} \cap {users[j].sub, users[j].login} = {}
    BY <2>3, <2>4, <2>5
  <2> QED
    BY <2>6 DEF users
<1> QED
  BY LoadInvariance, <1>1, PTL

\* Over all the files of an accepted configuration no primitive is defined
\* twice, nor any client (yamlmerge/merge.go mergeMapping, parse.go
\* validateClients).
THEOREM NothingWinsSilently == ProcessSpec => []NothingSilentlyWins
<1>1. ASSUME LoadInv, outcome = "accepted" PROVE DefinedOnce(TopLevel)
  <2>1. \A x \in TopLevel : x.entry.value.kind # "scalar"
    BY <1>1, TopNodes DEF First!EntryShape
  <2> QED
    BY <2>1 DEF DefinedOnce
<1>2. ASSUME LoadInv, outcome = "accepted" PROVE DefinedOnce(Inside(TopLevel, "config"))
  <2> DEFINE nodes == Inside(TopLevel, "config")
  <2>1. \A x, y \in nodes : x # y => Second!EntryNames(x.entry) \cap Second!EntryNames(y.entry) = {}
    BY <1>2, SettingNodes
  <2>2. \A x : x.entry.value.kind = "scalar" => Second!EntryNames(x.entry) = {<<"key", x.entry.key>>}
    BY DEF Second!EntryNames, keyNames
  <2> HIDE DEF nodes
  <2>3. DefinedOnce(nodes)
    BY <2>1, <2>2, Zenon DEF DefinedOnce
  <2> QED
    BY <2>3 DEF nodes
<1>3. ASSUME LoadInv, outcome = "accepted"
      PROVE  DefinedOnce(Inside(Inside(TopLevel, "config"), "security"))
  <2> DEFINE nodes == Inside(Inside(TopLevel, "config"), "security")
  <2>1. \A x, y \in nodes : x # y => Third!EntryNames(x.entry) \cap Third!EntryNames(y.entry) = {}
    BY <1>3, SecurityNodes
  <2>2. \A x : x.entry.value.kind = "scalar" => Third!EntryNames(x.entry) = {<<"key", x.entry.key>>}
    BY DEF Third!EntryNames, keyNames
  <2> HIDE DEF nodes
  <2>3. DefinedOnce(nodes)
    BY <2>1, <2>2, Zenon DEF DefinedOnce
  <2> QED
    BY <2>3 DEF nodes
<1>4. ASSUME LoadInv, outcome = "accepted"
      PROVE  LET clients == Items(merged, "clients") IN
             \A i, j \in DOMAIN clients : clients[i].id = clients[j].id => i = j
  <2> DEFINE clients == Items(merged, "clients")
  <2>1. validateClients(clients) /\ DOMAIN clients = 1..Len(clients) /\ Len(clients) \in Nat
    BY <1>4, AcceptedItems
  <2> HIDE DEF clients
  <2>2. ASSUME NEW i \in DOMAIN clients, NEW j \in DOMAIN clients, i < j
        PROVE  clients[i].id # clients[j].id
    <3>1. i \in 1..(j - 1)
      BY <2>1, <2>2
    <3>2. \A k \in 1..(j - 1) : clients[k].id # clients[j].id
      BY <2>1, Zenon DEF validateClients
    <3> QED
      BY <3>1, <3>2
  <2>3. \A i, j \in DOMAIN clients : clients[i].id = clients[j].id => i = j
    BY <2>1, <2>2
  <2> QED
    BY <2>3 DEF clients
<1>5. LoadInv => NothingSilentlyWins
  BY <1>1, <1>2, <1>3, <1>4, Zenon DEF NothingSilentlyWins
<1> QED
  BY LoadInvariance, <1>5, PTL

-----------------------------------------------------------------------------
(* No item is lost *)

\* The users and clients of the merged document are those of the documents
\* composed so far.
ItemsAgree ==
  First!Shape(merged) =>
    \A key \in {"users", "clients"} :
      /\ \A i \in 1..(next - 1) : IsSequence(ItemsIn(Composed[i], key))
      /\ IsSequence(ItemsTo(next - 1, key))
      /\ Items(merged, key) = ItemsTo(next - 1, key)

\* The items under a key, in terms of what the merge does with them.
LEMMA ItemsLink ==
  /\ \A s : IsSequence(s) <=> First!IsSequence(s)
  /\ \A d, key : FirstLevel(d.entries) => ItemsIn(d, key) = First!Joined(d.entries, key)
  /\ \A es, key, items : FirstLevel(es) /\ Unique(es) =>
       (First!Holds(es, key, items) <=> items = Items(es, key))
  /\ First!IsList("users") /\ First!IsList("clients")
<1>1. \A s : IsSequence(s) <=> First!IsSequence(s)
  BY DEF IsSequence, First!IsSequence, ToSet, First!ToSet
<1>2. ASSUME NEW d, NEW key, FirstLevel(d.entries) PROVE ItemsIn(d, key) = First!Joined(d.entries, key)
  <2>1. DOMAIN d.entries = 1..Len(d.entries)
    BY <1>2, DomainIs DEF FirstLevel, Entries
  <2> QED
    BY <2>1 DEF ItemsIn, First!Joined, First!itemsOf, FlattenSeq, First!FlattenSeq
<1>3. ASSUME NEW es, NEW key, NEW items, FirstLevel(es), Unique(es)
      PROVE  First!Holds(es, key, items) <=> items = Items(es, key)
  <2>1. CASE \E i \in DOMAIN es : es[i].key = key
    <3>1. PICK i \in DOMAIN es : es[i].key = key
      BY <2>1
    <3>2. Items(es, key) = es[i].value.items
      BY <1>3, <3>1, FirstEntries DEF Items
    <3>3. \A j \in DOMAIN es : es[j].key = key => j = i
      BY <1>3, <3>1 DEF Unique
    <3> QED
      BY <3>1, <3>2, <3>3 DEF First!Holds
  <2>2. CASE \A i \in DOMAIN es : es[i].key # key
    <3>1. Items(es, key) = <<>>
      BY <2>2 DEF Items, Has, Positions
    <3> QED
      BY <2>2, <3>1 DEF First!Holds
  <2> QED
    BY <2>1, <2>2
<1>4. First!IsList("users") /\ First!IsList("clients")
  BY DEF First!IsList
<1> QED
  BY <1>1, <1>2, <1>3, <1>4

\* Before anything has been composed.
LEMMA NoItemsYet == next = 1 /\ merged = <<>> => ItemsAgree
<1> SUFFICES ASSUME next = 1, merged = <<>>, NEW key \in {"users", "clients"}
             PROVE  /\ \A i \in 1..(next - 1) : IsSequence(ItemsIn(Composed[i], key))
                    /\ IsSequence(ItemsTo(next - 1, key))
                    /\ Items(merged, key) = ItemsTo(next - 1, key)
  BY DEF ItemsAgree
<1>1. next - 1 = 0 /\ 1..0 = {}
  OBVIOUS
<1>2. [i \in 1..0 |-> ItemsIn(Composed[i], key)] = <<>>
  OBVIOUS
<1>3. ItemsTo(0, key) = <<>>
  BY <1>2 DEF ItemsTo, FlattenSeq
<1>4. Items(merged, key) = <<>>
  BY DEF Items, Has, Positions
<1>5. IsSequence(<<>>)
  BY DEF IsSequence
<1> QED
  BY <1>1, <1>3, <1>4, <1>5

\* The items of one document more.
LEMMA ItemsToStep ==
  ASSUME NEW n \in Nat \ {0}, NEW key, \A i \in 1..n : IsSequence(ItemsIn(Composed[i], key))
  PROVE  /\ ItemsTo(n, key) = ItemsTo(n - 1, key) \o ItemsIn(Composed[n], key)
         /\ IsSequence(ItemsTo(n, key))
<1> DEFINE a == [i \in 1..n |-> ItemsIn(Composed[i], key)]
           S == UNION {ToSet(ItemsIn(Composed[i], key)) : i \in 1..n}
<1>1. \A i \in 1..n : ItemsIn(Composed[i], key) \in Seq(S)
  <2>1. \A i \in 1..n : ItemsIn(Composed[i], key) \in Seq(ToSet(ItemsIn(Composed[i], key)))
    BY DEF IsSequence
  <2>2. \A i \in 1..n : ToSet(ItemsIn(Composed[i], key)) \subseteq S
    OBVIOUS
  <2> HIDE DEF S
  <2>3. \A A, v : v \in Seq(A) /\ A \subseteq S => v \in Seq(S)
    OBVIOUS
  <2> QED
    BY <2>1, <2>2, <2>3
<1> HIDE DEF S
<1>2. a \in [1..n -> Seq(S)]
  BY <1>1
<1>3. a[n] = ItemsIn(Composed[n], key) /\ [i \in 1..(n - 1) |-> a[i]] = [i \in 1..(n - 1) |-> ItemsIn(Composed[i], key)]
  OBVIOUS
<1> HIDE DEF a
<1>4. /\ Compose!Flattened([i \in 1..(n - 1) |-> a[i]]) \in Seq(S)
      /\ Compose!Flattened(a) = Compose!Flattened([i \in 1..(n - 1) |-> a[i]]) \o a[n]
  BY <1>2, Compose!FlattenOneMore
<1>5. \A u : FlattenSeq(u) = Compose!Flattened(u)
  BY DEF FlattenSeq, Compose!Flattened, Compose!FlattenSeq
<1>6. ItemsTo(n, key) = Compose!Flattened(a)
  BY <1>5 DEF ItemsTo, a
<1>7. ItemsTo(n - 1, key) = Compose!Flattened([i \in 1..(n - 1) |-> a[i]])
  BY <1>3, <1>5 DEF ItemsTo
<1>8. a[n] \in Seq(S)
  BY <1>2
<1>9. ItemsTo(n, key) = ItemsTo(n - 1, key) \o a[n] /\ ItemsTo(n, key) \in Seq(S)
  <2>1. ItemsTo(n - 1, key) \in Seq(S) /\ ItemsTo(n, key) = ItemsTo(n - 1, key) \o a[n]
    BY <1>4, <1>6, <1>7
  <2>2. ItemsTo(n - 1, key) \o a[n] \in Seq(S)
    BY <1>8, <2>1
  <2> QED
    BY <2>1, <2>2
<1>10. \A v : v \in Seq(S) => IsSequence(v)
  BY DEF IsSequence, ToSet
<1> QED
  BY <1>3, <1>9, <1>10

\* One round of loadFiles appends the items of its document.
LEMMA ComposeItems ==
  ASSUME LoadInv, ItemsAgree, ComposeFile
  PROVE  ItemsAgree'
<1> DEFINE d == Document(order[next])
           m == mergeMapping(merged, d.entries)
<1>0. /\ UNCHANGED <<input, order>> /\ next \in DOMAIN order
      /\ IF d.kind = "mapping" /\ m.ok
         THEN merged' = m.entries /\ next' = next + 1
         ELSE UNCHANGED <<merged, next>>
  BY DEF ComposeFile
<1>1. Composed' = Composed
  BY <1>0 DEF Composed, Document
<1>2. next \in Nat \ {0} /\ d = Composed[next] /\ docWf(d)
  BY <1>0, OrderFacts DEF Documents
<1>3. FirstLevel(merged) /\ Unique(merged)
  BY DEF LoadInv, MergedOK
<1>4. CASE ~(d.kind = "mapping" /\ m.ok)
  <2>1. UNCHANGED <<merged, next>>
    BY <1>0, <1>4
  <2> QED
    BY <1>1, <2>1 DEF ItemsAgree, ItemsTo
<1>5. CASE d.kind = "mapping" /\ m.ok
  <2>1. merged' = m.entries /\ next' = next + 1 /\ next' - 1 = next
    BY <1>0, <1>2, <1>5
  <2>2. FirstLevel(d.entries)
    BY <1>2, <1>5 DEF docWf
  <2>3. /\ FirstLevel(m.entries) /\ Unique(m.entries)
        /\ First!Shape(m.entries) => First!Shape(merged)
    BY <1>3, <1>5, <2>2, ComposeAdds DEF Compose!Sums
  <2>4. ASSUME First!Shape(m.entries), NEW key \in {"users", "clients"}
        PROVE  /\ \A i \in 1..next : IsSequence(ItemsIn(Composed[i], key))
               /\ IsSequence(ItemsTo(next, key))
               /\ Items(m.entries, key) = ItemsTo(next, key)
    <3>1. /\ \A i \in 1..(next - 1) : IsSequence(ItemsIn(Composed[i], key))
          /\ IsSequence(ItemsTo(next - 1, key))
          /\ Items(merged, key) = ItemsTo(next - 1, key)
      BY <2>3, <2>4 DEF ItemsAgree
    <3>2. m = First!merge(merged, d.entries) /\ First!Wf(merged) /\ First!Wf(d.entries) /\ First!Unique(merged)
      BY <1>3, <2>2, FirstMerge
    <3>3. First!IsSequence(Items(merged, key)) /\ First!Holds(merged, key, Items(merged, key)) /\ First!IsList(key)
      BY <1>3, <3>1, ItemsLink
    <3> HIDE DEF d
    <3>4. /\ First!IsSequence(First!Joined(d.entries, key))
          /\ First!Holds(First!merge(merged, d.entries).entries, key, Items(merged, key) \o First!Joined(d.entries, key))
      BY <1>5, <2>4, <3>2, <3>3, FirstLaw, First!MergeJoins
    <3>5. ItemsIn(d, key) = First!Joined(d.entries, key) /\ IsSequence(ItemsIn(d, key))
      BY <2>2, <3>4, ItemsLink
    <3>6. Items(m.entries, key) = Items(merged, key) \o ItemsIn(d, key)
      BY <2>3, <3>2, <3>4, <3>5, ItemsLink
    <3>7. \A i \in 1..next : IsSequence(ItemsIn(Composed[i], key))
      BY <1>2, <3>1, <3>5
    <3>8. /\ ItemsTo(next, key) = ItemsTo(next - 1, key) \o ItemsIn(Composed[next], key)
          /\ IsSequence(ItemsTo(next, key))
      BY <1>2, <3>7, ItemsToStep
    <3> QED
      BY <1>2, <3>1, <3>6, <3>7, <3>8
  <2> HIDE DEF m, d
  <2> QED
    BY <1>1, <2>1, <2>4 DEF ItemsAgree, ItemsTo
<1> QED
  BY <1>4, <1>5

\* The lists composed so far are those of the documents composed so far.
LEMMA ItemsInvariance == ProcessSpec => [](LoadInv /\ ItemsAgree)
<1>1. ProcessInit => ItemsAgree
  BY NoItemsYet DEF ProcessInit, LoadInit
<1>2. ASSUME LoadInv, ItemsAgree, [ProcessNext]_<<vars, loadVars>> PROVE ItemsAgree'
  <2>1. ASSUME UNCHANGED <<input, order, next, merged>> PROVE ItemsAgree'
    <3>1. Composed' = Composed
      BY <2>1 DEF Composed, Document
    <3> QED
      BY <1>2, <2>1, <3>1 DEF ItemsAgree, ItemsTo
  <2>2. ASSUME next' = 1, merged' = <<>> PROVE ItemsAgree'
    <3>1. (next = 1 /\ merged = <<>>)'
      BY <2>2
    <3> QED
      BY <3>1, NoItemsYet, PTL
  <2>3. CASE Restart \/ FinishLoad
    <3>1. next' = 1 /\ merged' = <<>>
      BY <2>3 DEF Restart, FinishLoad, Afresh
    <3> QED
      BY <3>1, <2>2
  <2>4. CASE UNCHANGED loadVars
    BY <2>1, <2>4 DEF loadVars
  <2>5. CASE LoadStep
    <3>1. CASE \E n \in pending : Examine(n)
      <4>1. UNCHANGED <<input, order, next, merged>>
        BY <3>1 DEF Examine
      <4> QED
        BY <4>1, <2>1
    <3>2. CASE ReadFiles
      <4>1. next' = 1 /\ merged' = <<>>
        BY <1>2, <3>2 DEF ReadFiles, LoadInv, OrderOK
      <4> QED
        BY <4>1, <2>2
    <3>3. CASE ComposeFile
      BY <1>2, <3>3, ComposeItems
    <3>4. CASE Parse
      <4>1. UNCHANGED <<input, order, next, merged>>
        BY <3>4 DEF Parse
      <4> QED
        BY <4>1, <2>1
    <3> QED
      BY <2>5, <3>1, <3>2, <3>3, <3>4 DEF LoadStep, Load
  <2> QED
    BY <1>2, <2>3, <2>4, <2>5 DEF ProcessNext
<1> QED
  BY LoadInvariance, <1>1, <1>2, PTL DEF ProcessSpec

\* Every user and client of every file is part of an accepted configuration, in
\* the order of the files (yamlmerge/merge.go joined).
THEOREM NothingIsLost == ProcessSpec => []NothingLost
<1>1. LoadInv /\ ItemsAgree => NothingLost
  <2> SUFFICES ASSUME LoadInv, ItemsAgree, outcome = "accepted", NEW key \in {"users", "clients"}
               PROVE  Items(merged, key) = FlattenSeq([i \in DOMAIN order |-> ItemsIn(Composed[i], key)])
    BY DEF NothingLost
  <2>1. CASE order = <<>>
    <3>1. next = 1 /\ merged = <<>> /\ DOMAIN order = 1..0
      BY <2>1 DEF LoadInv, OrderOK
    <3>2. Items(merged, key) = <<>>
      BY <3>1 DEF Items, Has, Positions
    <3>3. [i \in DOMAIN order |-> ItemsIn(Composed[i], key)] = <<>>
      BY <3>1
    <3> QED
      BY <3>2, <3>3 DEF FlattenSeq
  <2>2. CASE order # <<>>
    <3>1. Valid(merged) /\ DOMAIN order = 1..(next - 1)
      BY <2>2, OrderFacts DEF LoadInv, VerdictOK
    <3>2. First!Shape(merged)
      BY <3>1, ValidIff DEF LoadInv, MergedOK
    <3> QED
      BY <3>1, <3>2 DEF ItemsAgree, ItemsTo
  <2> QED
    BY <2>1, <2>2
<1> QED
  BY ItemsInvariance, <1>1, PTL
=============================================================================
