SPECIFICATION SystemSpec
CONSTANTS
  Wire <- MCWire
  Lower <- MCLower
  Absent = Absent
  MaxUint = 3
  Seeds = {s1, s2}
  NoSeed = NoSeed
  Policies <- MCPolicies
  NoPolicy = NoPolicy
  Intents <- MCIntents
  Deposits = {}
  Malformed = Malformed
  Owners = {"a", "b"}
  Venues = {"v"}
  Homes = {"a"}
  Assets = {"fxrp"}
  ZeroAddress = ZeroAddress
  Stranger = Stranger
  OtherKeys = {x}
  MaxBalance = 1
  MaxCalls = 1
  MaxRevealed = 1
  MaxAccounts = 1
  MaxOutside = 1
  MaxIssued = 2
PROPERTY
  RegisteredWalletStaysSigner
CHECK_DEADLOCK FALSE
