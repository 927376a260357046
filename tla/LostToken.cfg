SPECIFICATION Spec
CONSTANTS
  Conn = {c1}
  AuthMethod <- OAuthConnections
  Private = {c1}
  Handler = {h1, h2}
  Worker = {w1}
  Job = {j1}
  Key = {}
  Policy = {FALSE}
  MaxAttempts = 1
  MaxFaults = 0
  Token = {t1, t2, t3, t4, t5}
  Shared = shared
  None = none
SYMMETRY Interchangeable
INVARIANT StoredTokenIsRevoked
