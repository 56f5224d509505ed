CONSTANTS
  Requests = {r1}
  Handlers = {"login", "authorize", "cleanup"}
  Subjects = {"alice"}
  AdminSubject = "admin"
  AdminKey = "admin-login"
  Clients = {"app"}
  SessionIds = {s1}
  TokenIds = {c1}
  LimitKeys = {"alice", "app", "admin-login"}
  Identifiers = {"alice"}
  Owner <- mcOwner
  Configurations <- mcStable
  Second = 2
  MaxTime = 4
  SessionLifetime = 2
  CodeLifetime = 2
  BearerLifetime = 2
  LimitConfigs <- mcStrict
  EnrollmentLifetimes = {1}
  AuditRetention = 1
SPECIFICATION FairSpec
PROPERTIES PurgesOnlyDeadRows Reclaimed
