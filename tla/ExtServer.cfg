SPECIFICATION Spec
CONSTANTS
  Wire <- MCWire
  Lower <- MCLower
  Absent = Absent
  MaxUint <- MCMaxUint
  Seeds <- MCSeeds
  NoSeed = NoSeed
  Policies <- MCPolicies
  NoPolicy = NoPolicy
  Intents <- MCIntents
  Deposits <- MCDeposits
  Malformed = Malformed
  BadKey = BadKey
  NoWallet = NoWallet
  Instructions <- MCCore
  MaxRequests = 5
  MaxStops = 0
INVARIANTS
  TypeOK
  CacheCoherent
  CountersTallyAnswers
  DropsTallyAnswers
PROPERTIES
  ImplementsEnclave
  SignedUnderPolicyInForce
  ReportTalliesAnswers
CHECK_DEADLOCK FALSE
