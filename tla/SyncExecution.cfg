SPECIFICATION Spec
CONSTANTS
  Conn = {c1}
  AuthMethod <- TokenConnections
  Private = {c1}
  Handler = {}
  Worker = {w1, w2}
  Job = {j1, j2}
  Key = {k1}
  Policy = {TRUE}
  MaxAttempts = 2
  MaxFaults = 1
  Token = {t1, t2, t3, t4, t5}
  Shared = shared
  None = none
SYMMETRY Interchangeable
INVARIANTS RevokedKeepsNothing ExclusiveExecution
PROPERTIES LiveLeaseIsKept OutcomeIsFinal
