SPECIFICATION Spec
CONSTANTS
  Scenarios <- MCScenarios
  Clients = {1, 2, 3, 4}
  MaxConnections = 2
  MaxPerIP = 1
  MaxPipeline = 1
  MaxStreams = 1
  MaxSessions = 1
  Inactivity = 1
  Window = 2
  MaxEntries = 1
  Viewers = {"v1", "v2"}
  MaxWebSocketClients = 1
  BroadcastCap = 1
  SendCap = 1
  Callers = {1, 2}
  Names = {"admin", "alice", "bob", "carol"}
  Unfit = {"bell"}
  TokenExpiry = 1
  LoginMaxAttempts = 2
  LoginLockoutPeriod = 1
  LoginMaxDelay = 1
  LoginMaxEntries = 1
INVARIANTS
  SlotsAccounted
  SessionsBound
  RateHeld
  LoginsAccounted
PROPERTIES
  SweepSparesActive
  EverythingEnds
