SPECIFICATION LiveSpec
CONSTANTS
  Wire <- MCWire
  Lower <- MCLower
  Absent = Absent
  MaxUint = 3
  Seeds = {s1}
  NoSeed = NoSeed
  Policies <- MCPolicies
  NoPolicy = NoPolicy
  Intents <- MCIntents
  Deposits = {}
  Malformed = Malformed
  MasterSeed = s1
  Fxrp = "fxrp"
  DefaultVenue = "v"
  TxCap = 2
  Calls <- MCCalls
  NoCall = NoCall
  NoResult = NoResult
  NoSignature = NoSignature
  MaxRequests = 2
  MaxPolls = 2
  MaxBoots = 2
  MaxLaunches = 2
INVARIANTS
  LiveTypeOK
  LiveSignaturesStayHome
  AnswersAreOwn
  OnboardedIsServed
PROPERTIES
  EveryHandlerAdvances
  EveryRequestAnswered
CHECK_DEADLOCK FALSE
