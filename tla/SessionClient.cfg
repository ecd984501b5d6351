SPECIFICATION MCSpec
INVARIANTS
  NeverOvercommitted
  EachPaysItsOwn
  OpensOnce
  NeverOvercharged
PROPERTIES
  ServedInTurn
CONSTANTS
  alice = alice
  bob = bob
  usdc = usdc
  payer = alice
  payee = bob
  token = usdc
  NoAddress = NoAddress
  Escrow = Escrow
  Salt <- NumberedSalts
  Amount = 1
  NoEntry = NoEntry
  Calls <- ThreeCalls
  Presentations <- FourPresentations
  Prices <- OneOrTwo
  Deposit = 2
  Funds = 5
CHECK_DEADLOCK FALSE
