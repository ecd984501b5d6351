SPECIFICATION MCSpec
INVARIANTS
  TypeOK
  Solvency
  PaidIsSigned
  FundsAccounted
PROPERTIES
  DiligentPayeeIsPaid
  PayerGetsOut
  ImplementsIdeal
CONSTANTS
  payer = payer
  payee = payee
  delegate = delegate
  usdc = usdc
  NoAddress = NoAddress
  Escrow = Escrow
  Accounts <- MCAccounts
  Tokens <- MCTokens
  ChannelIds <- TwoChannels
  MaxUint128 = 2
  CloseGracePeriod = 1
  InitialFunds = 4
  MaxTime = 3
  MaxVouchers = 2
CHECK_DEADLOCK FALSE
