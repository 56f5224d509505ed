----------------------------- MODULE Configuration -----------------------------
(***************************************************************************)
(* How the server comes to the configuration it runs with, from the        *)
(* selector in ZEN_IDP_CONFIG_PATH: yamlsource.Discover finds the files,   *)
(* configloader.loadFiles composes them one after the other with           *)
(* yamlmerge.Merge, and config.Parse decodes and validates the result.     *)
(*                                                                         *)
(* A list item is a user or a client, well formed except for what the      *)
(* validation below looks at; a text that only has to be well formed is 1  *)
(* or 0; the one bounded number stands for the eight there are, and stands *)
(* in security itself, without the mapping rate_limits around it.          *)
(***************************************************************************)
EXTENDS YamlMerge

CONSTANTS
  Targets,      \* files
  YamlTargets,  \* those named .yaml or .yml
  Inputs        \* selectors with the paths they match and the files' contents

\* Paths in their order, and documents as the decoder builds them.
ASSUME InputsAssumption ==
  \A i \in Inputs :
    /\ IsSequence(i.paths)
    /\ \A t \in Targets : i.content[t].kind = "mapping" => FirstLevel(i.content[t].entries)

Unset == "unset"     \* an omitted idp_login
MaximumAttempts == 100
DefaultAttempts == 5

VARIABLES
  input,     \* [directory: BOOLEAN, paths: Seq of matches, content: files' documents]
  pending,   \* matched paths not examined yet, as positions in path order
  found,     \* paths (in yamlsource): the logical path of each resolved file
  order,     \* the selected paths, in the order they are composed
  next,      \* the file loadFiles composes next
  merged,    \* entries of the document composed so far
  outcome    \* "loading", "accepted", "rejected"

loadVars == <<input, pending, found, order, next, merged, outcome>>

Nowhere == 0   \* a file no path has led to

LoadInit ==
  /\ input \in Inputs
  /\ pending = DOMAIN input.paths
  /\ found = [t \in Targets |-> Nowhere]
  /\ order = <<>> /\ next = 1 /\ merged = <<>>
  /\ outcome = "loading"

Reject == outcome' = "rejected"

-----------------------------------------------------------------------------
(* internal/yamlsource *)

\* Mutant of recordPath: the last path examined wins.
recordLastPath(n, t) == [found EXCEPT ![t] = n]

\* A file reached by several paths is read once, under the first of them.
recordPath(n, t) == IF found[t] = Nowhere \/ n < found[t] THEN [found EXCEPT ![t] = n] ELSE found

\* A directory looks at the name of the path, before it follows a link; a
\* glob follows it and looks at the name of the file.
Considered(p) == input.directory => p.yaml
Selected(p) == Considered(p) /\ p.file \in Targets /\ (input.directory \/ p.file \in YamlTargets)

\* One matched path, in any order; a link that leads nowhere ends the load.
Examine(n) ==
  LET p == input.paths[n] IN
  /\ outcome = "loading" /\ n \in pending
  /\ pending' = pending \ {n}
  /\ IF Considered(p) /\ p.file = "broken" THEN Reject ELSE UNCHANGED outcome
  /\ found' = IF Selected(p) THEN recordPath(n, p.file) ELSE found
  /\ UNCHANGED <<input, order, next, merged>>

\* readFiles; without any file the selector is an error.  A file that cannot be
\* read is one whose document is no mapping: either way the load ends, only
\* that the code finds the former out before it composes anything.
ReadFiles ==
  LET names == {found[t] : t \in Targets} \ {Nowhere} IN
  /\ outcome = "loading" /\ pending = {} /\ order = <<>>
  /\ order' \in SetToSeqs(names) /\ \A i, j \in DOMAIN order' : i < j => order'[i] < order'[j]
  /\ IF names = {} THEN Reject ELSE UNCHANGED outcome
  /\ UNCHANGED <<input, pending, found, next, merged>>

Document(n) == input.content[input.paths[n].file]

\* One round of loadFiles: validateSource, then Merge.
ComposeFile ==
  /\ outcome = "loading" /\ next \in DOMAIN order
  /\ LET d == Document(order[next])
         m == mergeMapping(merged, d.entries)
     IN  IF d.kind = "mapping" /\ m.ok
         THEN merged' = m.entries /\ next' = next + 1 /\ UNCHANGED outcome
         ELSE Reject /\ UNCHANGED <<merged, next>>
  /\ UNCHANGED <<input, pending, found, order>>

-----------------------------------------------------------------------------
(* internal/config *)

Child(entries, key) == entries[Max(Positions(entries, key))].value
Has(entries, key) == Positions(entries, key) # {}

\* The decoder of the merged document: known keys only, each once, of the
\* kind the Go type asks for.
Fields(entries, kinds) ==
  /\ Unique(entries)
  /\ \A i \in DOMAIN entries :
       entries[i].key \in DOMAIN kinds /\ entries[i].value.kind = kinds[entries[i].key]

Decodes(entries) ==
  /\ Fields(entries, [config |-> "mapping", users |-> "list", clients |-> "list"])
  /\ Has(entries, "config") =>
       LET settings == Child(entries, "config").entries IN
       /\ Fields(settings, [issuer |-> "scalar", security |-> "mapping"])
       /\ Has(settings, "security") =>
            Fields(Child(settings, "security").entries,
                   [admin_password_hash |-> "scalar", max_user_login_attempts |-> "scalar"])

Items(entries, key) == IF Has(entries, key) THEN Child(entries, key).items ELSE <<>>

\* resolve: idp_login defaults to sub.
Login(u) == IF u.login = Unset THEN u.sub ELSE u.login
Users(entries) == [i \in DOMAIN Items(entries, "users") |->
                     LET u == Items(entries, "users")[i] IN [sub |-> u.sub, login |-> Login(u)]]

\* Mutant of identifiersOf: logins are checked and not remembered.
subjectsOf(u) == {u.sub}

identifiersOf(u) == {u.sub, u.login}

\* Mutant of validateUsers: subjects only have to differ from one another.
validateSubjects(users) ==
  \A i, j \in DOMAIN users : "" \notin {users[i].sub, users[i].login}
                               /\ (users[i].sub = users[j].sub => i = j)

\* Each user against the map identifiers, which those before it have filled.
validateUsers(users) ==
  \A i \in DOMAIN users :
    LET identifiers == UNION {identifiersOf(users[j]) : j \in 1..(i - 1)} IN
    {users[i].sub, users[i].login} \cap ({""} \cup identifiers) = {}

\* validateClients, with the redirect URIs of a client as a sequence.
validateClients(clients) ==
  \A i \in DOMAIN clients :
    /\ clients[i].id # ""
    /\ \A j \in 1..(i - 1) : clients[j].id # clients[i].id
    /\ Len(clients[i].redirect_uris) > 0
    /\ IsInjective(clients[i].redirect_uris)

\* URLs, credential hashes and the other texts with a syntax of their own.
WellFormed(text) == text = 1

\* resolve: an omitted setting takes its default.
intValue(entries, key, default) == IF Has(entries, key) THEN Child(entries, key).value ELSE default

\* What a written setting has to satisfy, before defaults.
validateDocument(security) ==
  Has(security, "max_user_login_attempts") =>
    Child(security, "max_user_login_attempts").value \in 1..MaximumAttempts

\* The issuer and the hash have no default.
validate(entries) ==
  LET settings == Child(entries, "config").entries
      security == Child(settings, "security").entries
  IN
  /\ Has(entries, "config") /\ Has(settings, "security")
  /\ validateDocument(security)
  /\ Has(settings, "issuer") /\ WellFormed(Child(settings, "issuer").value)
  /\ Has(security, "admin_password_hash")
  /\ WellFormed(Child(security, "admin_password_hash").value)
  /\ intValue(security, "max_user_login_attempts", DefaultAttempts) \in 1..MaximumAttempts
  /\ validateClients(Items(entries, "clients"))
  /\ validateUsers(Users(entries))

Valid(entries) == Decodes(entries) /\ validate(entries)

Parse ==
  /\ outcome = "loading" /\ order # <<>> /\ next > Len(order)
  /\ outcome' = IF Valid(merged) THEN "accepted" ELSE "rejected"
  /\ UNCHANGED <<input, pending, found, order, next, merged>>

Load ==
  \/ \E n \in pending : Examine(n)
  \/ ReadFiles
  \/ ComposeFile
  \/ Parse
-----------------------------------------------------------------------------
(* Properties *)

Composed == [i \in DOMAIN order |-> Document(order[i])]

\* Every file that any matched path leads to is composed exactly once, under
\* the first path that leads to it, whatever the order in which paths are
\* examined (discover.go recordPath, readFiles).
FirstPath(t) ==
  {n \in DOMAIN input.paths : /\ Selected(input.paths[n]) /\ input.paths[n].file = t
                              /\ \A m \in 1..(n - 1) : ~(Selected(input.paths[m]) /\ input.paths[m].file = t)}

SourcesOnce ==
  order # <<>> =>
    /\ ToSet(order) = UNION {FirstPath(t) : t \in Targets}
    /\ \A i, j \in DOMAIN order : i < j => order[i] < order[j]

\* The entries of all the files, with their places, and those below a key.
TopLevel ==
  UNION {{[at |-> <<n, i>>, entry |-> Composed[n].entries[i]] : i \in DOMAIN Composed[n].entries} :
           n \in DOMAIN order}

Inside(nodes, key) ==
  UNION {{[at |-> Append(n.at, i), entry |-> n.entry.value.entries[i]] :
            i \in DOMAIN n.entry.value.entries} :
           n \in {m \in nodes : m.entry.key = key /\ m.entry.value.kind = "mapping"}}

DefinedOnce(nodes) ==
  \A m, n \in nodes :
    m.entry.key = n.entry.key /\ m.entry.value.kind = "scalar" /\ n.entry.value.kind = "scalar"
      => m.at = n.at

\* "Two definitions of the same thing ... fail validation instead of silently
\* winning" (docs/content/docs/configuration.md): over all the files of an
\* accepted configuration no primitive is defined twice, nor any client.
NothingSilentlyWins ==
  outcome = "accepted" =>
    /\ DefinedOnce(TopLevel)
    /\ DefinedOnce(Inside(TopLevel, "config"))
    /\ DefinedOnce(Inside(Inside(TopLevel, "config"), "security"))
    /\ LET clients == Items(merged, "clients") IN
       \A i, j \in DOMAIN clients : clients[i].id = clients[j].id => i = j

\* The items under a key of one document, all occurrences of the key.
ItemsIn(document, key) ==
  FlattenSeq([i \in DOMAIN document.entries |->
                IF document.entries[i].key = key THEN document.entries[i].value.items ELSE <<>>])

\* Every user and client of every file is part of an accepted configuration,
\* in file order (yamlmerge.go mergeMapping).
NothingLost ==
  outcome = "accepted" =>
    \A key \in {"users", "clients"} :
      Items(merged, key) = FlattenSeq([i \in DOMAIN order |-> ItemsIn(Composed[i], key)])

\* All identifiers share one namespace: what a person types at the login form
\* belongs to one user at most, whichever files declare the users, so resolve
\* in internal/login does not depend on their order (parse.go validateUsers).
OwnerUnique ==
  outcome = "accepted" =>
    LET users == Users(merged) IN
    \A i, j \in DOMAIN users :
      {users[i].sub, users[i].login} \cap {users[j].sub, users[j].login} # {} => i = j

\* What loadFiles and Parse make of documents in a given order.
composeNext(acc, d) ==
  LET m == mergeMapping(acc.entries, d.entries)
  IN  IF acc.ok /\ d.kind = "mapping" THEN m ELSE [acc EXCEPT !.ok = FALSE]
Accepts(documents) ==
  LET m == FoldLeft(composeNext, [ok |-> TRUE, entries |-> <<>>], documents)
  IN  m.ok /\ Valid(m.entries)

\* A document that gives a key twice below the top level: the one thing
\* whose verdict depends on what was composed before it.
RepeatsKey(d) ==
  d.kind = "mapping" /\ \E i \in DOMAIN d.entries :
    /\ d.entries[i].value.kind = "mapping"
    /\ ~Unique(d.entries[i].value.entries)

\* Configuration can be split and the files named freely: whether the files
\* are accepted does not depend on the order their names put them in.
NamesIrrelevant ==
  outcome # "loading" /\ order # <<>> /\ ~(\E i \in DOMAIN order : RepeatsKey(Composed[i])) =>
    \A p \in SetToSeqs(DOMAIN order) :
      Accepts([i \in DOMAIN order |-> Composed[p[i]]]) <=> outcome = "accepted"
=============================================================================
