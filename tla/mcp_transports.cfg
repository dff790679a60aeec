SPECIFICATION Spec
CONSTANTS
  StreamIds = {s1}
  Messages = {m1, m2, m3}
  SessionIds = {h1}
  Requests = {r1, r2, r3, r4}
  PingEnabled = TRUE
  Options <- MCOptions
  None = None
INVARIANTS TypeOK TablesAgree NotCutOff
PROPERTIES DeadStreamsAreNotPinged DeletedSessionsGo StatelessIsCleaned SessionSpec
CHECK_DEADLOCK FALSE
