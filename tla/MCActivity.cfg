\* Two devices over a cap of one, two logins, failing flushes and a stop.
SPECIFICATION Spec
CONSTANTS
  phone = phone
  television = television
  None = None
  Devices <- Two
  max_active_sessions = 1
  lockout_attempts = 1
  MaxLogins = 2
  MaxTime = 2
  MaxFailures = 1
INVARIANTS
  TypeOK
  CredentialsMatchSessions
  CleanStopLeavesNothing
PROPERTIES
  ActivityGoesBackOnlyBehindALogin
  CheckInsAreKept
CHECK_DEADLOCK FALSE
