SPECIFICATION Spec
CONSTANTS
  Recipient = {r1}
  Delivery = {d1, d2}
  Runner = {w1}
  Claim = {t1, t2, t3, t4}
  Batch = 2
  MaxAttempts = 2
  MaxFaults = 1
  None = none
PROPERTIES SupersededIsBenign
