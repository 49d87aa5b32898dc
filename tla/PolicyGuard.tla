---------------------------- MODULE PolicyGuard ----------------------------
(***************************************************************************)
(* The in-enclave guard (app/policy.ts), the digest an allowed intent is   *)
(* signed as (app/codec.ts) and the deposit check (app/fdc.ts).  All of it *)
(* is pure: no state, only operators over policies, intents and proofs.    *)
(*                                                                         *)
(* An address is what arrives on the wire, a spelling in mixed case; code  *)
(* compares and keys addresses by their lower-case spelling, Lower[a].     *)
(***************************************************************************)
EXTENDS Integers

CONSTANTS
  Wire,       \* spellings of 20-byte addresses, in any case
  Lower,      \* toLowerCase on spellings
  Absent,     \* an optional field the payload leaves out (undefined)
  MaxUint     \* the largest amount abi.encode takes for a uint256

ASSUME GuardAssumption ==
  /\ Lower \in [Wire -> Wire]
  /\ \A w \in Wire : Lower[Lower[w]] = Lower[w]
  /\ Absent \notin Int
  /\ MaxUint \in Nat

-----------------------------------------------------------------------------
Kinds == {"allocate", "rebalance", "withdraw"}

(* riskLevel is validated by parsePolicy and then only echoed: left out.   *)
Policy ==
  [owner : Wire, returnAddress : Wire, asset : Wire,
   allowedVenues : (SUBSET Wire) \ {{}},
   maxVenueBps : Int, maxTxAmount : Nat, minHealthFactorBps : Int]

(* What parseVaultIntent builds.  dest is `to` of a withdrawal and `venue` *)
(* otherwise: the parser fills exactly one of the two.                     *)
Intent ==
  [kind : Kinds, asset : Wire, amount : Nat, dest : Wire,
   userAuthorized : BOOLEAN,
   portfolioValue : Nat \cup {Absent}, venueBalance : Nat \cup {Absent},
   projectedHealthFactorBps : Int \cup {Absent}]

(* What parseConfirmDeposit builds: a payment response, and what is        *)
(* expected of it.                                                         *)
Deposit ==
  [status : Nat, sourceId : STRING, receivingAddressHash : STRING,
   receivedAmount : Nat, standardPaymentReference : STRING,
   expected : [sourceId : STRING, receivingAddressHash : STRING,
               minAmount : Nat, reference : STRING]]

EqAddr(a, b) == Lower[a] = Lower[b]

IsAllowedVenue(p, venue) == \E v \in p.allowedVenues : EqAddr(v, venue)

-----------------------------------------------------------------------------
(* evaluateIntent, check by check.                                         *)

(* Policies with the full 10000 bps never look at the context; nor does a  *)
(* payload that leaves portfolioValue out.                                 *)
ConcentrationChecked(p, i) ==
  /\ p.maxVenueBps < 10000
  /\ i.portfolioValue # Absent
  /\ i.portfolioValue > 0

Projected(i) ==
  (IF i.venueBalance = Absent THEN 0 ELSE i.venueBalance) + i.amount

(* A planted fault: the cap is rounded up.                                 *)
CapAmountRoundedUp(p, i) == (i.portfolioValue * p.maxVenueBps + 9999) \div 10000

(* bigint division.  It truncates where \div floors; the two differ only   *)
(* below zero, where every projected amount (at least 1) is over the cap.  *)
CapAmount(p, i) == (i.portfolioValue * p.maxVenueBps) \div 10000

OverConcentrated(p, i) ==
  ConcentrationChecked(p, i) /\ Projected(i) > CapAmount(p, i)

BelowHealthFloor(p, i) ==
  /\ i.kind = "rebalance"
  /\ i.projectedHealthFactorBps # Absent
  /\ i.projectedHealthFactorBps < p.minHealthFactorBps

(* A planted fault: the destination is looked at in rebalances only.       *)
VenueVerdictUnlisted(p, i) ==
  IF i.kind = "rebalance" /\ ~IsAllowedVenue(p, i.dest) THEN "DEST_NOT_ALLOWED"
  ELSE IF OverConcentrated(p, i) THEN "VENUE_CONCENTRATION"
  ELSE IF BelowHealthFloor(p, i) THEN "HEALTH_FACTOR"
  ELSE "OK"

VenueVerdict(p, i) ==
  IF ~IsAllowedVenue(p, i.dest) THEN "DEST_NOT_ALLOWED"
  ELSE IF OverConcentrated(p, i) THEN "VENUE_CONCENTRATION"
  ELSE IF BelowHealthFloor(p, i) THEN "HEALTH_FACTOR"
  ELSE "OK"

WithdrawVerdict(p, i) ==
  IF ~i.userAuthorized THEN "NEEDS_USER_SIGNATURE"
  ELSE IF ~EqAddr(i.dest, p.returnAddress) THEN "WITHDRAW_NON_RETURN"
  ELSE "OK"

(* The code of the first check that fails, or OK.                          *)
Verdict(p, i) ==
  IF i.amount <= 0 THEN "ZERO_AMOUNT"
  ELSE IF ~EqAddr(i.asset, p.asset) THEN "ASSET_NOT_ALLOWED"
  ELSE IF i.amount > p.maxTxAmount THEN "AMOUNT_EXCEEDS_CAP"
  ELSE IF i.kind \in {"allocate", "rebalance"} THEN VenueVerdict(p, i)
  ELSE WithdrawVerdict(p, i)

(* actionDigest: abi.encode throws when the amount does not fit a uint256; *)
(* keccak256 of the canonical fields is injective, so the fields stand for *)
(* the digest.                                                             *)
Encodable(i) == i.amount <= MaxUint

(* A planted fault: the addresses are encoded as they are spelled.         *)
ActionDigestAsSpelled(i) == <<i.kind, i.asset, i.amount, i.dest>>

ActionDigest(i) == <<i.kind, Lower[i.asset], i.amount, Lower[i.dest]>>

-----------------------------------------------------------------------------
(* What the guard is for, said without its order of checks, its early      *)
(* returns and its rounded cap: the reference the verdict is held to.      *)
WithinCaps(p, i) ==
  /\ i.amount \in 1..p.maxTxAmount
  /\ EqAddr(i.asset, p.asset)

WithinShare(p, i) ==
  ConcentrationChecked(p, i) =>
    10000 * Projected(i) <= i.portfolioValue * p.maxVenueBps

WithinPolicy(p, i) ==
  /\ WithinCaps(p, i)
  /\ i.kind # "withdraw" =>
       /\ Lower[i.dest] \in {Lower[v] : v \in p.allowedVenues}
       /\ WithinShare(p, i)
       /\ ~BelowHealthFloor(p, i)
  /\ i.kind = "withdraw" =>
       /\ i.userAuthorized
       /\ Lower[i.dest] = Lower[p.returnAddress]

-----------------------------------------------------------------------------
(* validatePaymentProof: one FDC Payment response against the expectation  *)
(* that came with it.  The fields are compared case-insensitively as hex;  *)
(* they stand here for the bytes they denote.                              *)
DepositVerdict(d) ==
  IF d.status # 0 THEN "DEPOSIT_NOT_SUCCESSFUL"
  ELSE IF d.sourceId # d.expected.sourceId THEN "WRONG_SOURCE"
  ELSE IF d.receivingAddressHash # d.expected.receivingAddressHash
       THEN "WRONG_RECIPIENT"
  ELSE IF d.receivedAmount < d.expected.minAmount THEN "AMOUNT_TOO_LOW"
  ELSE IF d.standardPaymentReference # d.expected.reference
       THEN "WRONG_REFERENCE"
  ELSE "OK"
=============================================================================
