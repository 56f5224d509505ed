CONSTANTS
  Tabs = {"main"}
  Addresses <- mcAddresses
  Faults = {}
  Tokens = {k1}
  SessionIds = {s1, s2}
  Clients = {"web", "spa"}
  PublicClients = {"spa"}
  RedirectURIs <- mcRedirectURIs
  AuthorizeRequests <- mcRequests
  LogoutRequests <- mcHints
  Second = 2
  MaxTime = 1
SPECIFICATION Spec
CHECK_DEADLOCK FALSE
INVARIANTS FormsCarryToken
