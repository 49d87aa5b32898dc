-------------------------- MODULE MCMindorrSystem --------------------------
(* Two owners with a policy each, one venue, one asset.                    *)
EXTENDS MindorrSystem, TLC

MCWire == {"a", "A", "b", "v", "V", "fxrp"}
MCLower == [w \in MCWire |-> CASE w = "A" -> "a" [] w = "V" -> "v" [] OTHER -> w]

(* Half of the portfolio per venue, and a little less than half of it.     *)
Careful ==
  [owner |-> "A", returnAddress |-> "a", asset |-> "fxrp", allowedVenues |-> {"V"},
   maxVenueBps |-> 5000, maxTxAmount |-> 2, minHealthFactorBps |-> 0]
Other == [Careful EXCEPT !.owner = "b", !.maxVenueBps = 4999]
MCPolicies == {Careful, Other}

Allocate ==
  [kind |-> "allocate", asset |-> "fxrp", amount |-> 1, dest |-> "V",
   userAuthorized |-> FALSE, portfolioValue |-> 2, venueBalance |-> 0,
   projectedHealthFactorBps |-> Absent]
Withdraw ==
  [Allocate EXCEPT !.kind = "withdraw", !.dest = "A", !.userAuthorized = TRUE]
MCIntents == {Allocate, Withdraw}

MCSymmetry == Permutations(Seeds)
=============================================================================
