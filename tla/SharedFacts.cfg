SPECIFICATION Spec
CONSTANTS
  Conn = {c1, c2}
  AuthMethod <- PublicConnections
  Private = {}
  Handler = {}
  Worker = {w1, w2}
  Job = {j1, j2}
  Key = {k1}
  Policy = {TRUE}
  MaxAttempts = 2
  MaxFaults = 0
  Token = {t1, t2, t3, t4, t5}
  Shared = shared
  None = none
SYMMETRY Interchangeable
PROPERTY PublicFactsKeptByOthers
