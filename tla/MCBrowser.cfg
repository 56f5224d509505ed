CONSTANTS
  Tabs = {"main", "other"}
  Addresses <- mcAddresses
  Faults = {"lose", "reopen", "elsewhere"}
  Tokens = {k1, k2}
  SessionIds = {s1, s2}
  Clients = {"web", "spa"}
  PublicClients = {"spa"}
  RedirectURIs <- mcRedirectURIs
  AuthorizeRequests <- mcRequests
  LogoutRequests <- mcHints
  Second = 2
  MaxTime = 2
SPECIFICATION Spec
CHECK_DEADLOCK FALSE
SYMMETRY mcSymmetry
INVARIANTS TypeOK FormsAccepted LandsRegistered CodeMeetsRequest OneLoginIsEnough
PROPERTIES ChangedBySubmission
