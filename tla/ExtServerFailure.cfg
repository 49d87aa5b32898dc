SPECIFICATION Spec
CONSTANTS
  Wire <- MCWire
  Lower <- MCLower
  Absent = Absent
  MaxUint <- MCMaxUint
  Seeds <- MCSeeds
  NoSeed = NoSeed
  Policies <- MCPolicies
  NoPolicy = NoPolicy
  Intents <- MCIntents
  Deposits <- MCDeposits
  Malformed = Malformed
  BadKey = BadKey
  NoWallet = NoWallet
  Instructions <- MCAll
  MaxRequests = 4
  MaxStops = 0
PROPERTY
  FailureKeepsTheQueue
CHECK_DEADLOCK FALSE
