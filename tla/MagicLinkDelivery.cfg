SPECIFICATION Spec
CONSTANTS
  Recipient = {r1}
  Delivery = {d1, d2}
  Runner = {w1, w2}
  Claim = {t1, t2, t3, t4, t5}
  Batch = 2
  MaxAttempts = 2
  MaxFaults = 1
  None = none
INVARIANTS TypeOK OneUsableLink OneLoginPerRequest SentWasMailed
PROPERTIES ImplementsSignIn
