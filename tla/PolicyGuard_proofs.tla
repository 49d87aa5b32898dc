------------------------- MODULE PolicyGuard_proofs -------------------------
EXTENDS PolicyGuard, TLAPS

(* The rounded cap is as strict as the exact share.                        *)
LEMMA RoundedCap ==
  ASSUME NEW x \in Int, NEW a \in Int
  PROVE  x <= a \div 10000 <=> 10000 * x <= a
  OBVIOUS

(***************************************************************************)
(* evaluateIntent allows exactly the intents the policy describes,         *)
(* whatever the caps, balances and spellings.                              *)
(***************************************************************************)
THEOREM GuardIsExact ==
  ASSUME NEW p \in Policy, NEW i \in Intent
  PROVE  Verdict(p, i) = "OK" <=> WithinPolicy(p, i)
<1>1. IsAllowedVenue(p, i.dest) <=> Lower[i.dest] \in {Lower[v] : v \in p.allowedVenues}
  BY DEF IsAllowedVenue, EqAddr
<1>2. OverConcentrated(p, i) <=> ~WithinShare(p, i)
  <2>1. CASE ConcentrationChecked(p, i)
    <3>1. /\ i.portfolioValue \in Nat
          /\ p.maxVenueBps \in Int
      BY <2>1 DEF ConcentrationChecked, Policy, Intent
    <3>2. Projected(i) \in Int
      BY GuardAssumption DEF Projected, Intent
    <3>3. i.portfolioValue * p.maxVenueBps \in Int
      BY <3>1
    <3>4. CapAmount(p, i) \in Int
      BY <3>3 DEF CapAmount
    <3>5. Projected(i) <= CapAmount(p, i)
            <=> 10000 * Projected(i) <= i.portfolioValue * p.maxVenueBps
      BY <3>2, <3>3, RoundedCap DEF CapAmount
    <3>6. QED
      BY <2>1, <3>2, <3>4, <3>5 DEF OverConcentrated, WithinShare
  <2>2. CASE ~ConcentrationChecked(p, i)
    BY <2>2 DEF OverConcentrated, WithinShare
  <2>3. QED
    BY <2>1, <2>2
<1>3. WithinCaps(p, i)
        <=> i.amount > 0 /\ EqAddr(i.asset, p.asset) /\ ~(i.amount > p.maxTxAmount)
  BY DEF WithinCaps, Policy, Intent
<1>4. CASE i.kind = "withdraw"
  BY <1>3, <1>4 DEF Verdict, WithdrawVerdict, WithinPolicy, EqAddr, Intent
<1>5. CASE i.kind # "withdraw"
  <2>1. i.kind \in {"allocate", "rebalance"}
    BY <1>5 DEF Intent, Kinds
  <2>2. QED
    BY <1>1, <1>2, <1>3, <1>5, <2>1 DEF Verdict, VenueVerdict, WithinPolicy, Intent
<1>6. QED
  BY <1>4, <1>5
=============================================================================
