CONSTANTS
  Requests = {r1, r2}
  Handlers = {"login", "token", "cleanup", "restart"}
  Subjects = {"alice"}
  AdminSubject = "admin"
  AdminKey = "admin-login"
  Clients = {"app"}
  SessionIds = {}
  TokenIds = {c1}
  LimitKeys = {"alice", "app", "admin-login", "alias"}
  Identifiers = {"alice", "alias", "app"}
  Owner <- mcOwner
  Configurations <- mcStable
  Second = 2
  MaxTime = 2
  SessionLifetime = 2
  CodeLifetime = 2
  BearerLifetime = 2
  LimitConfigs <- mcLimitDeploys
  EnrollmentLifetimes = {1}
  AuditRetention = 0
SPECIFICATION Spec
VIEW mcLimitView
SYMMETRY mcSymmetry
INVARIANTS AttemptsBound LockoutEnds
PROPERTIES WindowFixed LockoutLiftedOnlyBySuccess
