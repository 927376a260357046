SPECIFICATION FairSpec
CONSTANTS
  Recipient = {r1, r2}
  Delivery = {d1, d2}
  Runner = {w1}
  Claim = {t1, t2, t3, t4, t5}
  Batch = 2
  MaxAttempts = 2
  MaxFaults = 1
  None = none
PROPERTIES ImplementsSignIn DeliverySettles
