------------------------------- MODULE MCBrowser -------------------------------
(***************************************************************************)
(* Instances of Browser for TLC: a client with a secret, a public one, and *)
(* one request of each kind the handlers tell apart.                       *)
(***************************************************************************)
EXTENDS Browser, TLC

mcRedirectURIs == [c \in Clients |-> IF c = "web" THEN {"web/cb"} ELSE {"spa/cb"}]

mcRequest ==
  [client |-> "web", redirect_uri |-> "web/cb", repeated |-> FALSE,
   response_type |-> "code", response_mode |-> "", prompt |-> {}, max_age |-> Absent,
   request |-> FALSE, request_uri |-> FALSE, scope |-> {"openid"},
   code_challenge |-> "", code_challenge_method |-> ""]

mcPublic == [mcRequest EXCEPT !.client = "spa", !.redirect_uri = "spa/cb", !.max_age = 0,
                              !.code_challenge = "wellformed", !.code_challenge_method = "S256"]

\* Valid, each in its way; then not: foreign URI, repeated parameter, public
\* client without a challenge.
mcRequests ==
  {mcRequest, mcPublic, [mcRequest EXCEPT !.prompt = {"none"}], [mcRequest EXCEPT !.prompt = {"login"}],
   [mcRequest EXCEPT !.redirect_uri = "spa/cb"],
   [mcPublic EXCEPT !.code_challenge = "", !.code_challenge_method = ""]}

\* Only signing in, with and without prompt=login.
mcSignIn == [t \in Tabs |-> {"authorize"}]
mcPromptLogin == {mcRequest, [mcRequest EXCEPT !.prompt = {"login"}]}

mcHint == [client |-> "web", redirect_uri |-> "web/cb", authentic |-> TRUE, exp |-> 1]
mcHints == {mcHint, [mcHint EXCEPT !.redirect_uri = "spa/cb"]}

\* One tab goes everywhere, the other only competes for the cookies.
mcAddresses ==
  [t \in Tabs |-> IF t = "main"
     THEN {"authorize", "logoutForm", "panicForm", "adminForm", "auditLog"}
     ELSE {"enrollForm"}]

mcSymmetry == Permutations(Tokens) \cup Permutations(SessionIds)
=============================================================================
