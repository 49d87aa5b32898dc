------------------------------- MODULE Vault -------------------------------
(***************************************************************************)
(* MindorrVault.sol: each owner's account and venue allowlist, the replay  *)
(* guard, and the release of pooled FXRP against a managed wallet's        *)
(* signature.  A call that reverts changes nothing, so every action is a   *)
(* call that does not revert, and its guard the contract's checks.         *)
(***************************************************************************)
EXTENDS Integers

CONSTANTS
  Owner,         \* accounts that call the contract
  Venue, Home,   \* venues and return addresses owners choose
  Asset,         \* ERC-20 tokens
  Key,           \* addresses that have a signing key
  ZeroAddress,   \* address(0)
  Stranger,      \* what ecrecover yields for another digest's signature
  Action,        \* the actions that are signed and submitted: kind, asset,
                 \* amount and destination, of an owner's choice or not
  MaxBalance     \* bound: token units the vault can hold

Party == Venue \cup Home

VenueKinds == {"allocate", "rebalance"}
ActionKind == VenueKinds \cup {"withdraw"}

ASSUME VaultAssumption ==
  /\ ZeroAddress \notin Key \cup Party \cup Asset
  /\ Stranger \notin Key \cup {ZeroAddress}
  /\ MaxBalance \in Nat
  /\ \A d \in Action : /\ d = <<d[1], d[2], d[3], d[4]>>
                       /\ d[1] \in ActionKind /\ d[3] \in Nat

VARIABLES
  accounts,      \* owner => Account; exists is FALSE before the first
  allowedVenue,  \* owner => venues set to true
  usedDigest,    \* digests set to true
  balance,       \* asset => what the vault holds of it
  signed,        \* history: <<key, digest>> of the signatures made so far
  paid           \* history: digest => how often it was paid out

vars == <<accounts, allowedVenue, usedDigest, balance, signed, paid>>

NoAccount == [managedWallet |-> ZeroAddress, returnAddress |-> ZeroAddress,
              asset |-> ZeroAddress, exists |-> FALSE]

Account ==
  [managedWallet : Key, returnAddress : Home, asset : Asset, exists : {TRUE}]

(* keccak256(abi.encode(kind, asset, amount, dest)), as its arguments.     *)
ActionDigest(kind, asset, amount, dest) == <<kind, asset, amount, dest>>

NoSignature == <<ZeroAddress, "malformed">>

(* _recover: address(0) for bytes that are no signature, the signer for    *)
(* the digest it signed, nobody's address for another digest.              *)
Recover(d, sig) ==
  IF sig = NoSignature THEN ZeroAddress
  ELSE IF sig[2] = d THEN sig[1]
  ELSE Stranger

TypeOK ==
  /\ accounts \in [Owner -> Account \cup {NoAccount}]
  /\ allowedVenue \in [Owner -> SUBSET Venue]
  /\ usedDigest \subseteq Action
  /\ balance \in [Asset -> Nat]
  /\ signed \subseteq Key \X Action
  /\ paid \in [Action -> Nat]

Init ==
  /\ accounts = [o \in Owner |-> NoAccount]
  /\ allowedVenue = [o \in Owner |-> {}]
  /\ usedDigest = {}
  /\ balance = [a \in Asset |-> 0]
  /\ signed = {}
  /\ paid = [d \in Action |-> 0]

-----------------------------------------------------------------------------
(* A planted fault: the return address and the asset swapped.             *)
RegisterAccountSwapped(o, wallet, return, asset) ==
  /\ wallet # ZeroAddress /\ return # ZeroAddress /\ asset # ZeroAddress
  /\ accounts' = [accounts EXCEPT ![o] =
       [managedWallet |-> wallet, returnAddress |-> asset, asset |-> return,
        exists |-> TRUE]]
  /\ UNCHANGED <<allowedVenue, usedDigest, balance, signed, paid>>

(* Owner registers, or registers anew: venues and used digests stay.       *)
RegisterAccount(o, wallet, return, asset) ==
  /\ wallet # ZeroAddress /\ return # ZeroAddress /\ asset # ZeroAddress
  /\ accounts' = [accounts EXCEPT ![o] =
       [managedWallet |-> wallet, returnAddress |-> return, asset |-> asset,
        exists |-> TRUE]]
  /\ UNCHANGED <<allowedVenue, usedDigest, balance, signed, paid>>

SetVenue(o, venue, allowed) ==
  /\ accounts[o].exists
  /\ allowedVenue' = [allowedVenue EXCEPT ![o] =
       IF allowed THEN @ \cup {venue} ELSE @ \ {venue}]
  /\ UNCHANGED <<accounts, usedDigest, balance, signed, paid>>

(* FXRP arrives: a plain ERC-20 transfer to the contract.                  *)
Fund(asset, amount) ==
  /\ balance[asset] + amount <= MaxBalance
  /\ balance' = [balance EXCEPT ![asset] = @ + amount]
  /\ UNCHANGED <<accounts, allowedVenue, usedDigest, signed, paid>>

(* Somebody who holds a key signs an action's digest, off-chain.           *)
Sign(k, d) ==
  /\ signed' = signed \cup {<<k, d>>}
  /\ UNCHANGED <<accounts, allowedVenue, usedDigest, balance, paid>>

(* A planted fault: one list of destinations for all kinds.                *)
DestinationOnAnyList(o, kind, dest) ==
  dest \in allowedVenue[o] \cup {accounts[o].returnAddress}

(* The on-chain half of the guard.                                         *)
DestinationAllowed(o, kind, dest) ==
  \/ kind \in VenueKinds /\ dest \in allowedVenue[o]
  \/ kind = "withdraw" /\ dest = accounts[o].returnAddress

SignedBy(o, d, sig) == Recover(d, sig) = accounts[o].managedWallet

(* A planted fault: a paid digest is not marked.                           *)
Unmarked(d) == usedDigest

Marked(d) == usedDigest \cup {d}

(* All of execute()'s checks, the token's own among them; on TRUE it does  *)
(* not revert.                                                             *)
Executable(o, kind, asset, amount, dest, sig) ==
  LET d == ActionDigest(kind, asset, amount, dest) IN
  /\ accounts[o].exists
  /\ asset = accounts[o].asset
  /\ DestinationAllowed(o, kind, dest)
  /\ d \notin usedDigest
  /\ SignedBy(o, d, sig)
  /\ balance[asset] >= amount

Execute(o, kind, asset, amount, dest, sig) ==
  LET d == ActionDigest(kind, asset, amount, dest) IN
  /\ Executable(o, kind, asset, amount, dest, sig)
  /\ usedDigest' = Marked(d)
  /\ balance' = [balance EXCEPT ![asset] = @ - amount]
  /\ paid' = [paid EXCEPT ![d] = @ + 1]
  /\ UNCHANGED <<accounts, allowedVenue, signed>>

(* A planted fault: a preview that does not look at the asset.             *)
PreviewAnyAsset(o, kind, asset, amount, dest, sig) ==
  IF ~accounts[o].exists THEN "no account"
  ELSE IF ~DestinationAllowed(o, kind, dest) THEN "destination"
  ELSE IF ~SignedBy(o, ActionDigest(kind, asset, amount, dest), sig)
       THEN "signer mismatch"
  ELSE "ok"

(* previewExecute's verdict, a view.                                       *)
PreviewExecute(o, kind, asset, amount, dest, sig) ==
  IF ~accounts[o].exists THEN "no account"
  ELSE IF asset # accounts[o].asset THEN "wrong asset"
  ELSE IF kind \in VenueKinds /\ dest \notin allowedVenue[o] THEN "venue not allowed"
  ELSE IF kind = "withdraw" /\ dest # accounts[o].returnAddress THEN "not return address"
  ELSE IF kind \notin ActionKind THEN "bad kind"
  ELSE IF Recover(ActionDigest(kind, asset, amount, dest), sig) # accounts[o].managedWallet
       THEN "signer mismatch"
  ELSE "ok"

(* What a caller of execute() can pass as the signature.                   *)
Signatures == signed \cup {NoSignature}

Next ==
  \/ \E o \in Owner, k \in Key, h \in Home, a \in Asset : RegisterAccount(o, k, h, a)
  \/ \E o \in Owner, v \in Venue, allowed \in BOOLEAN : SetVenue(o, v, allowed)
  \/ \E a \in Asset : Fund(a, 1)
  \/ \E k \in Key, d \in Action : Sign(k, d)
  \/ \E o \in Owner, d \in Action, sig \in Signatures :
       Execute(o, d[1], d[2], d[3], d[4], sig)

Spec == Init /\ [][Next]_vars

-----------------------------------------------------------------------------
(* No signed action is paid out twice, whoever submits it for which owner, *)
(* and however accounts, venues and funding change in between.             *)
NoDigestPaidTwice == \A d \in Action : paid[d] <= 1

(* FXRP leaves the vault only as one release of an action that some        *)
(* owner's registered wallet signed, in that owner's asset, of exactly the *)
(* signed amount, and to a destination the owner allows on-chain at the    *)
(* time it leaves: the contract's defence in depth.                        *)
AuthorisedRelease(o, d) ==
  /\ accounts[o].exists
  /\ <<accounts[o].managedWallet, d>> \in signed
  /\ d[2] = accounts[o].asset
  /\ d[1] = "withdraw" => d[4] = accounts[o].returnAddress
  /\ d[1] # "withdraw" => d[4] \in allowedVenue[o]

EveryReleaseAuthorised ==
  [][\A a \in Asset :
       balance'[a] < balance[a] =>
         \E o \in Owner, d \in Action :
           /\ AuthorisedRelease(o, d)
           /\ d[2] = a
           /\ balance'[a] = balance[a] - d[3]
           /\ paid'[d] = paid[d] + 1]_vars

(* A preview that says ok is refused by execute() only for the two things  *)
(* its NatSpec excludes, the replay mark and the transfer; one that does   *)
(* not is always refused.                                                  *)
PreviewPredictsExecute ==
  \A o \in Owner, d \in Action, sig \in Signatures :
    Executable(o, d[1], d[2], d[3], d[4], sig)
      <=> /\ PreviewExecute(o, d[1], d[2], d[3], d[4], sig) = "ok"
          /\ d \notin usedDigest
          /\ balance[d[2]] >= d[3]
=============================================================================
