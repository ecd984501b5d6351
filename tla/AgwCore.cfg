SPECIFICATION MCSpec
SYMMETRY Symmetry
INVARIANTS
  LockExcludes
  FailedChangesNothing
  StaysPaired
  SignerIsRegistered
  RevokedForGood
  MigratesWhole
  PreviewsFirst
  
  PagesComplete
  TrueOfTheWallet
PROPERTIES
  OnlyItsKey
  ListAdvances
  ReceivedCounts
CONSTANTS
  p1 = p1
  p2 = p2
  p3 = p3
  caller = caller
  l1 = l1
  l2 = l2
  l3 = l3
  f1 = f1
  f2 = f2
  w1 = w1
  w2 = w2
  c1 = c1
  c2 = c2
  NoPayload = NoPayload
  TooLarge = TooLarge
  Broken = Broken
  Processes <- ThreeProcesses
  Callers <- OneCaller
  Flows <- TwoFlows
  Wallets <- TwoWallets
  Chains <- TwoChains
  Aheads <- SomeAheads
  MaxTime = 2
  Timeout = 1
  Skew = 1
  Life = 1
  Loaders <- ThreeLoaders
  Tokens <- ThreeTokens
  Logs <- TransferBlocks
  Apps <- FiveApps
  Listings <- SomeListings
  MaxBalance = 2
  Latest = 5
  MinChunk = 2
  Concurrency = 2
  DefaultPageSize = 2
  Inputs <- SomeInputs
  EnabledTools <- SomeTools
  Earlier = Earlier
  EarlierWallet = w1
  None = None
  Torn = Torn
CHECK_DEADLOCK FALSE
