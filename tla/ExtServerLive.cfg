SPECIFICATION FairSpec
CONSTANTS
  Wire <- MCWire
  Lower <- MCLower
  Absent = Absent
  MaxUint <- MCMaxUint
  Seeds <- MCSeeds
  NoSeed = NoSeed
  Policies <- MCPolicies
  NoPolicy = NoPolicy
  Intents <- MCIntents
  Deposits <- MCDeposits
  Malformed = Malformed
  BadKey = BadKey
  NoWallet = NoWallet
  Instructions <- MCAll
  MaxRequests = 3
  MaxStops = 1
INVARIANT
  ServedInOrder
PROPERTIES
  ImplementsEnclave
  EveryStepAdvances
  EveryRequestSettles
CHECK_DEADLOCK FALSE
