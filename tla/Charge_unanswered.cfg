SPECIFICATION MCSpec
INVARIANTS
  PaidIsAnswered
CONSTANTS
  n1 = n1
  r1 = r1
  r2 = r2
  r3 = r3
  Calls <- TwoCalls
  Nonces <- OneNonce
  Prices <- OnePrice
  Funds = 1
  MaxTime = 1
CHECK_DEADLOCK FALSE
