CONSTANTS
  Requests = {r1, r2}
  Handlers = {"login", "authorize", "logout", "token", "userinfo", "expiredSession", "restart"}
  Subjects = {"alice"}
  AdminSubject = "admin"
  AdminKey = "admin-login"
  Clients = {"app"}
  SessionIds = {s1}
  TokenIds = {c1}
  LimitKeys = {"alice", "app", "admin-login"}
  Identifiers = {"alice"}
  Owner <- mcOwner
  Configurations <- mcDeploys
  Second = 1
  MaxTime = 1
  SessionLifetime = 1
  CodeLifetime = 1
  BearerLifetime = 1
  LimitConfigs <- mcStrict
  EnrollmentLifetimes = {1}
  AuditRetention = 0
SPECIFICATION Spec
VIEW mcView
SYMMETRY mcSymmetry
INVARIANTS ConfigGate
PROPERTIES Redemption
