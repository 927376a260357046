SPECIFICATION Spec
CONSTANTS
  Conn = {c1}
  AuthMethod <- TokenConnections
  Private = {c1}
  Handler = {h1}
  Worker = {w1}
  Job = {j1}
  Key = {k1}
  Policy = {FALSE}
  MaxAttempts = 3
  MaxFaults = 0
  Token = {t1, t2, t3, t4, t5}
  Shared = shared
  None = none
SYMMETRY Interchangeable
INVARIANT NoRetryMeansExhausted
