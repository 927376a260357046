SPECIFICATION Spec
CONSTANTS
  Request = {q1, q2}
  Key = {k1}
  Event = {e1, e2}
  Value = {1, 2}
  Action = {commit, review}
  Batches <- MCBatches
  AllowedSets <- MCAllowedSets
  MaxSecret = 2
  NoValue = none
  e1 = e1
  e2 = e2
  commit = commit
  review = review
CHECK_DEADLOCK FALSE
SYMMETRY Alike
INVARIANTS TypeOK TimelineShowsLedger MutationsAddUp
PROPERTIES DeletedLeavesNothing OnlyAuthorized ReplaysAgree ImplementsTimeline
