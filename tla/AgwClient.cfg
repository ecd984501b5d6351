SPECIFICATION MCSpec
SYMMETRY Symmetry
INVARIANTS
  NoncesInOrder
  ByTheWallet
  CheckedSessions
  ActsAsNamed
PROPERTIES
  SerialSucceeds
CONSTANTS
  r1 = r1
  r2 = r2
  s1 = s1
  s2 = s2
  s3 = s3
  owner = owner
  key = key
  account = account
  keyAccount = keyAccount
  app = app
  spender = spender
  friend = friend
  approve = approve
  mint = mint
  NoSelector = NoSelector
  None = None
  MaxTime = 1
  Requests <- TwoRequests
  Sessions <- ThreeSessions
  AccountOf <- TwoAccounts
  Config <- Configs
  Restricted <- RestrictedSelectors
  Intents <- SomeIntents
CHECK_DEADLOCK FALSE
