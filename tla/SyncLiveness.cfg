SPECIFICATION FairSpec
CONSTANTS
  Conn = {c1}
  AuthMethod <- TokenConnections
  Private = {c1}
  Handler = {}
  Worker = {w1}
  Job = {j1, j2}
  Key = {}
  Policy = {TRUE, FALSE}
  MaxAttempts = 2
  MaxFaults = 1
  Token = {t1, t2, t3, t4, t5}
  Shared = shared
  None = none
PROPERTIES QueuedJobSettles DueIsAttempted
