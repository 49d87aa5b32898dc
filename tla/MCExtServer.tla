---------------------------- MODULE MCExtServer ----------------------------
(* A small instance of ExtServer: one owner under two spellings, a second  *)
(* owner, two venues, two seeds, a policy and its replacement.             *)
EXTENDS ExtServer

MCWire == {"a", "A", "b", "v", "x", "fxrp"}
MCLower == [w \in MCWire |-> IF w = "A" THEN "a" ELSE w]
MCMaxUint == 3

MCSeeds == {"s1", "s2"}

(* The owner's first policy, and the one that replaces it: another venue.  *)
FirstPolicy ==
  [owner |-> "A", returnAddress |-> "a", asset |-> "fxrp", allowedVenues |-> {"v"},
   maxVenueBps |-> 10000, maxTxAmount |-> 4, minHealthFactorBps |-> 0]
SecondPolicy == [FirstPolicy EXCEPT !.owner = "a", !.allowedVenues = {"x"}]
MCPolicies == {FirstPolicy, SecondPolicy}

Allocate ==
  [kind |-> "allocate", asset |-> "fxrp", amount |-> 1, dest |-> "v",
   userAuthorized |-> FALSE, portfolioValue |-> 1, venueBalance |-> 0,
   projectedHealthFactorBps |-> Absent]
TooLarge == [Allocate EXCEPT !.amount = 4]  \* within the cap, not a uint256
MCIntents == {Allocate, TooLarge}

Paid ==
  [status |-> 0, sourceId |-> "xrpl", receivingAddressHash |-> "agent",
   receivedAmount |-> 2, standardPaymentReference |-> "ref",
   expected |-> [sourceId |-> "xrpl", receivingAddressHash |-> "agent",
                 minAmount |-> 2, reference |-> "ref"]]
Short == [Paid EXCEPT !.receivedAmount = 1]
MCDeposits == {Paid, Short}

(* The instructions whose order matters most, for the longer behaviours.   *)
MCCore ==
  {[op |-> "STATE"], [op |-> "CREATE", user |-> "A"], [op |-> "CREATE", user |-> "b"]}
    \cup {[op |-> "UPDATE_KEY", key |-> s] : s \in MCSeeds}
    \cup {[op |-> "SET_POLICY", policy |-> p] : p \in MCPolicies}
    \cup {[op |-> "CONFIRM_DEPOSIT", user |-> "a", deposit |-> Paid]}
    \cup {[op |-> "VAULT", user |-> w, intent |-> Allocate] : w \in {"a", "A"}}

(* Every kind of request and every way it can fail.                        *)
MCAll ==
  MCCore
    \cup {[op |-> "UNROUTED"], [op |-> "UNDECODABLE"], [op |-> "UPDATE_KEY", key |-> BadKey]}
    \cup {[op |-> "CONFIRM_DEPOSIT", user |-> "b", deposit |-> d] : d \in {Paid, Short, Malformed}}
    \cup {[op |-> "VAULT", user |-> "b", intent |-> Allocate]}
    \cup {[op |-> "VAULT", user |-> "a", intent |-> i] : i \in {TooLarge, Malformed}}
=============================================================================
