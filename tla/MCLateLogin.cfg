CONSTANTS
  Requests = {r1, r2}
  Handlers = {"login", "panic"}
  Subjects = {"alice"}
  AdminSubject = "admin"
  AdminKey = "admin-login"
  Clients = {"app"}
  SessionIds = {s1, s2, s3}
  TokenIds = {c1}
  LimitKeys = {"alice", "app", "admin-login"}
  Identifiers = {"alice"}
  Owner <- mcOwner
  Configurations <- mcStable
  Second = 1
  MaxTime = 0
  SessionLifetime = 2
  CodeLifetime = 2
  BearerLifetime = 2
  LimitConfigs <- mcStrict
  EnrollmentLifetimes = {1}
  AuditRetention = 0
SPECIFICATION Spec
VIEW mcView
SYMMETRY mcSymmetry
INVARIANTS LockedUserHasNoSession
