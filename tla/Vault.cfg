SPECIFICATION Spec
CONSTANTS
  Owner = {o1, o2}
  Venue = {"venue"}
  Home = {"home"}
  Asset = {"fxrp", "usd"}
  Key = {k1, k2}
  ZeroAddress = ZeroAddress
  Stranger = Stranger
  Action <- MCAction
  MaxBalance = 2
SYMMETRY MCSymmetry
INVARIANTS
  TypeOK
  NoDigestPaidTwice
  PreviewPredictsExecute
PROPERTY
  EveryReleaseAuthorised
