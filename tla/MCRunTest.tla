----------------------------- MODULE MCRunTest -----------------------------
(* The policy of step 1, its owner and its venue.                          *)
EXTENDS RunTest

MCWire == {"a", "v", "fxrp"}
MCLower == [w \in MCWire |-> w]

MCTestPolicy ==
  [owner |-> "a", returnAddress |-> "a", asset |-> "fxrp", allowedVenues |-> {"v"},
   maxVenueBps |-> 10000, maxTxAmount |-> 2, minHealthFactorBps |-> 10000]
MCPolicies == {MCTestPolicy}
=============================================================================
