CONSTANTS
  Requests = {r1, r2}
  Handlers = {"adminLogin", "adminLogOut", "enrollmentToken", "enroll", "restart", "loseState"}
  Subjects = {"alice"}
  AdminSubject = "admin"
  AdminKey = "admin-login"
  Clients = {"app"}
  SessionIds = {s1}
  TokenIds = {c1, c2}
  LimitKeys = {"alice", "app", "admin-login"}
  Identifiers = {"alice"}
  Owner <- mcOwner
  Configurations <- mcRotations
  Second = 1
  MaxTime = 1
  SessionLifetime = 2
  CodeLifetime = 2
  BearerLifetime = 2
  LimitConfigs <- mcStrict
  EnrollmentLifetimes = {1}
  AuditRetention = 0
SPECIFICATION Spec
VIEW mcRevealView
SYMMETRY mcSymmetry
INVARIANTS RevealGate
PROPERTIES Redemption
