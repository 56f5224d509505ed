-------------------------------- MODULE MCProcess --------------------------------
(***************************************************************************)
(* An instance of Process for TLC, with two families of inputs: every      *)
(* small tree of matched paths with one content, and every choice of three *)
(* documents under three plain paths.                                      *)
(***************************************************************************)
EXTENDS Process

mcHash == Entry("admin_password_hash", Scalar(1))
mcAttempts(n) == Entry("max_user_login_attempts", Scalar(n))
mcSecurity(s) == Entry("security", Mapping(s))
mcIssuer == Entry("issuer", Scalar(1))
mcConfig(s) == Entry("config", Mapping(s))
mcUser(sub, login) == [sub |-> sub, login |-> login]
mcUsers(s) == Entry("users", List(s))
mcClient(id, uris) == [id |-> id, redirect_uris |-> uris]
mcClients(s) == Entry("clients", List(s))

mcBase == mcConfig(<<mcIssuer, mcSecurity(<<mcHash>>)>>)

mcDocuments ==
  {Mapping(<<mcBase>>),
   Mapping(<<mcBase, mcUsers(<<mcUser("alice", Unset)>>)>>),
   Mapping(<<mcConfig(<<mcIssuer>>)>>),
   Mapping(<<mcConfig(<<mcSecurity(<<mcHash>>)>>)>>),
   Mapping(<<mcConfig(<<mcSecurity(<<mcAttempts(5)>>)>>)>>),
   Mapping(<<mcConfig(<<mcSecurity(<<mcAttempts(MaximumAttempts + 1)>>)>>)>>),
   Mapping(<<mcConfig(<<mcSecurity(<<mcHash>>), mcSecurity(<<mcAttempts(5)>>)>>)>>),
   Mapping(<<Entry("config", Scalar(1))>>),
   Mapping(<<mcUsers(<<mcUser("alice", "al")>>)>>),
   Mapping(<<mcUsers(<<mcUser("bob", "alice")>>), mcClients(<<mcClient("app", <<"uri">>)>>)>>),
   Mapping(<<mcUsers(<<mcUser("carol", Unset)>>), mcUsers(<<mcUser("dave", "carol@")>>)>>),
   Mapping(<<Entry("users", Scalar(0))>>),
   Mapping(<<mcClients(<<mcClient("app", <<"uri", "other">>)>>)>>),
   Mapping(<<mcClients(<<mcClient("web", <<>>)>>)>>),
   Mapping(<<Entry("user", List(<<>>))>>),
   List(<<>>)}

mcContent(a, b, c) == [t \in Targets |-> CASE t = "a" -> a [] t = "b" -> b [] OTHER -> c]

mcPlain(t) == [yaml |-> TRUE, file |-> t]

mcPaths == [yaml : BOOLEAN, file : Targets \cup {"broken", "directory"}]

mcFamily(directory, paths) ==
  [directory : {directory}, paths : {<<p, q, r>> : p, q, r \in paths},
   content : {mcContent(Mapping(<<mcBase>>), Mapping(<<mcUsers(<<mcUser("alice", "al")>>)>>),
                        Mapping(<<mcUsers(<<mcUser("bob", Unset)>>)>>))}]

\* Only a directory looks at the name of a path.
mcInputs ==
  [directory : {TRUE}, paths : {<<mcPlain("a"), mcPlain("b"), mcPlain("c")>>},
   content : {mcContent(a, b, c) : a, b, c \in mcDocuments}]
  \cup mcFamily(TRUE, mcPaths)
  \cup mcFamily(FALSE, {p \in mcPaths : p.yaml})
=============================================================================
