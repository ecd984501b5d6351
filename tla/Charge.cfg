SPECIFICATION MCSpec
SYMMETRY Symmetry
INVARIANTS
  SuccessIsPaidOnce
  ReliablyAnswered
CONSTANTS
  n1 = n1
  r1 = r1
  r2 = r2
  r3 = r3
  Calls <- ThreeCalls
  Nonces <- OneNonce
  Prices <- OneOrTwo
  Funds = 3
  MaxTime = 1
CHECK_DEADLOCK FALSE
