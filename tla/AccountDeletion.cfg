SPECIFICATION Spec
CONSTANTS
  Subject = {s1}
  s1 = s1
  Account = account
  Login = {s1}
  Target <- MCTarget
  Executor = {x1, x2}
  Worker = {w1}
  NoOne = noOne
  MaxCalls = 2
  MaxAttempts = 3
  MaxEvents = 3
CHECK_DEADLOCK FALSE
INVARIANTS TypeOK LockedOut GoneIsTombstoned CallsWithinBudget
PROPERTIES HeldDataSurvives ImplementsErasure DeletionSettles TokenSettles
