SPECIFICATION Spec
CONSTANTS
  MaxTries = 2
  MaxCount = 1
  MaxEvents = 3
CHECK_DEADLOCK FALSE
INVARIANTS TypeOK OneSessionPerCeremony CounterUsedOnce RefusedMeansSpent DoneMeansCommitted
PROPERTIES ImplementsAuditTrail AuditSettles
