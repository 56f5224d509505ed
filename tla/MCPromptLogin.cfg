CONSTANTS
  Tabs = {"main"}
  Addresses <- mcSignIn
  Faults = {}
  Tokens = {k1}
  SessionIds = {s1, s2}
  Clients = {"web", "spa"}
  PublicClients = {"spa"}
  RedirectURIs <- mcRedirectURIs
  AuthorizeRequests <- mcPromptLogin
  LogoutRequests <- mcHints
  Second = 2
  MaxTime = 0
SPECIFICATION PatientSpec
CHECK_DEADLOCK FALSE
PROPERTIES SignInCompletes
