SPECIFICATION MCSpec
SYMMETRY Symmetry
INVARIANTS
  VoucherCollectable
  FinalizedOnChain
  CloseCollectsSpent
PROPERTIES
  SerialAccumulates
CONSTANTS
  payer = payer
  server = server
  usdc = usdc
  r1 = r1
  r2 = r2
  r3 = r3
  Requests <- ThreeRequests
  Recipient = server
  Currency = usdc
  Price = 1
  MinDelta = 0
  Accounts <- MCAccounts
  NoAddress = NoAddress
  Escrow = Escrow
  Tokens <- MCTokens
  ChannelIds <- MCChannelIds
  MaxUint128 = 3
  CloseGracePeriod = 1
  InitialFunds = 3
  MaxTime = 2
  MaxVouchers = 3
CHECK_DEADLOCK FALSE
