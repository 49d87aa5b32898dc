SPECIFICATION RunSpec
CONSTANTS
  Wire <- MCWire
  Lower <- MCLower
  Absent = Absent
  MaxUint = 3
  Seeds = {ManagedKey}
  NoSeed = NoSeed
  Policies <- MCPolicies
  NoPolicy = NoPolicy
  Intents = {}
  Deposits = {}
  Malformed = Malformed
  ManagedKey = ManagedKey
  TestPolicy <- MCTestPolicy
  MaxRuns = 2
  MaxBoots = 2
INVARIANT DeliveredKeyConfirmed
CHECK_DEADLOCK FALSE
