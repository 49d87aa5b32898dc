---------------------------- MODULE Vault_proofs ----------------------------
(***************************************************************************)
(* For every set of owners, assets, keys and signed actions: the vault's   *)
(* types, its replay guard, and that each release was signed and allowed.  *)
(***************************************************************************)
EXTENDS Vault, TLAPS

(* What the replay guard keeps true beside its promise: a digest that is   *)
(* not marked was never paid.  Without it a paid digest could be unmarked. *)
UnmarkedUnpaid == \A d \in Action : d \notin usedDigest => paid[d] = 0

IInv == TypeOK /\ NoDigestPaidTwice /\ UnmarkedUnpaid

(* A registered account's fields are a wallet with a key, a return address *)
(* and an asset; the NoAccount record is told from it by `exists`.         *)
LEMMA RegisteredAccount ==
  ASSUME TypeOK, NEW o \in Owner, accounts[o].exists
  PROVE  accounts[o] \in Account
<1>1. accounts[o] \in Account \cup {NoAccount}
  BY DEF TypeOK
<1>2. accounts[o] # NoAccount
  BY DEF NoAccount
<1> QED BY <1>1, <1>2

(* An action is its four fields, and its digest is the action itself.      *)
LEMMA ActionFields ==
  ASSUME NEW d \in Action
  PROVE  /\ d[1] \in ActionKind /\ d[3] \in Nat
         /\ ActionDigest(d[1], d[2], d[3], d[4]) = d
BY VaultAssumption DEF ActionDigest

(* _recover answers a registered wallet for that wallet's own signature of *)
(* the digest only: not for malformed bytes, not for a signature of        *)
(* another digest.                                                         *)
LEMMA RecoveredWalletSigned ==
  ASSUME TypeOK, NEW o \in Owner, accounts[o].exists,
         NEW d \in Action, NEW sig \in Signatures, SignedBy(o, d, sig)
  PROVE  <<accounts[o].managedWallet, d>> \in signed
<1> DEFINE k == accounts[o].managedWallet
<1>1. k \in Key
  BY RegisteredAccount DEF Account
<1>2. k # ZeroAddress /\ k # Stranger
  BY <1>1, VaultAssumption
<1>3. sig # NoSignature /\ sig[2] = d /\ sig[1] = k
  BY <1>2 DEF SignedBy, Recover
<1>4. sig \in signed /\ sig \in Key \X Action
  BY <1>3 DEF Signatures, TypeOK
<1>5. sig = <<sig[1], sig[2]>>
  BY <1>4
<1> QED BY <1>3, <1>4, <1>5

(* What an execution that does not revert does, in terms of the action d.  *)
LEMMA ExecuteReleases ==
  ASSUME TypeOK, NEW o \in Owner, NEW d \in Action, NEW sig \in Signatures,
         Execute(o, d[1], d[2], d[3], d[4], sig)
  PROVE  /\ AuthorisedRelease(o, d)
         /\ d \notin usedDigest
         /\ balance[d[2]] >= d[3]
         /\ usedDigest' = usedDigest \cup {d}
         /\ balance' = [balance EXCEPT ![d[2]] = @ - d[3]]
         /\ paid' = [paid EXCEPT ![d] = @ + 1]
         /\ UNCHANGED <<accounts, allowedVenue, signed>>
<1>1. ActionDigest(d[1], d[2], d[3], d[4]) = d /\ d[1] \in ActionKind
  BY ActionFields
<1>2. /\ Executable(o, d[1], d[2], d[3], d[4], sig)
      /\ usedDigest' = usedDigest \cup {d}
      /\ balance' = [balance EXCEPT ![d[2]] = @ - d[3]]
      /\ paid' = [paid EXCEPT ![d] = @ + 1]
      /\ UNCHANGED <<accounts, allowedVenue, signed>>
  BY <1>1 DEF Execute, Marked
<1>3. /\ accounts[o].exists
      /\ d[2] = accounts[o].asset
      /\ DestinationAllowed(o, d[1], d[4])
      /\ d \notin usedDigest
      /\ SignedBy(o, d, sig)
      /\ balance[d[2]] >= d[3]
  BY <1>1, <1>2 DEF Executable
<1>4. <<accounts[o].managedWallet, d>> \in signed
  BY <1>3, RecoveredWalletSigned
<1>5. /\ d[1] = "withdraw" => d[4] = accounts[o].returnAddress
      /\ d[1] # "withdraw" => d[4] \in allowedVenue[o]
  BY <1>1, <1>3 DEF DestinationAllowed, VenueKinds, ActionKind
<1> QED BY <1>2, <1>3, <1>4, <1>5 DEF AuthorisedRelease

(* A new vault has no accounts and has paid nothing.                       *)
LEMMA InitIInv == Init => IInv
BY DEF Init, IInv, TypeOK, NoDigestPaidTwice, UnmarkedUnpaid

(* Every call keeps the invariant.                                         *)
LEMMA NextIInv == IInv /\ [Next]_vars => IInv'
<1> SUFFICES ASSUME IInv, [Next]_vars
             PROVE  IInv'
  OBVIOUS
<1> USE DEF IInv
<1>1. ASSUME NEW o \in Owner, NEW k \in Key, NEW h \in Home, NEW a \in Asset,
             RegisterAccount(o, k, h, a)
      PROVE  IInv'
  <2>1. accounts' \in [Owner -> Account \cup {NoAccount}]
    BY <1>1 DEF RegisterAccount, TypeOK, Account
  <2> QED BY <1>1, <2>1
    DEF RegisterAccount, TypeOK, NoDigestPaidTwice, UnmarkedUnpaid
<1>2. ASSUME NEW o \in Owner, NEW v \in Venue, NEW allowed \in BOOLEAN,
             SetVenue(o, v, allowed)
      PROVE  IInv'
  <2>1. allowedVenue' \in [Owner -> SUBSET Venue]
    BY <1>2 DEF SetVenue, TypeOK
  <2> QED BY <1>2, <2>1 DEF SetVenue, TypeOK, NoDigestPaidTwice, UnmarkedUnpaid
<1>3. ASSUME NEW a \in Asset, Fund(a, 1)
      PROVE  IInv'
  BY <1>3 DEF Fund, TypeOK, NoDigestPaidTwice, UnmarkedUnpaid
<1>4. ASSUME NEW k \in Key, NEW d \in Action, Sign(k, d)
      PROVE  IInv'
  BY <1>4 DEF Sign, TypeOK, NoDigestPaidTwice, UnmarkedUnpaid
<1>5. ASSUME NEW o \in Owner, NEW d \in Action, NEW sig \in Signatures,
             Execute(o, d[1], d[2], d[3], d[4], sig)
      PROVE  IInv'
  <2>1. /\ AuthorisedRelease(o, d)
        /\ d \notin usedDigest
        /\ balance[d[2]] >= d[3]
        /\ usedDigest' = usedDigest \cup {d}
        /\ balance' = [balance EXCEPT ![d[2]] = @ - d[3]]
        /\ paid' = [paid EXCEPT ![d] = @ + 1]
        /\ UNCHANGED <<accounts, allowedVenue, signed>>
    BY <1>5, ExecuteReleases
  <2>2. d[2] \in Asset /\ d[3] \in Nat
    BY <2>1, ActionFields, RegisteredAccount DEF AuthorisedRelease, Account
  <2>3. balance' \in [Asset -> Nat]
    BY <2>1, <2>2 DEF TypeOK
  <2>4. paid' \in [Action -> Nat]
    BY <2>1 DEF TypeOK
  <2>5. TypeOK'
    BY <2>1, <2>3, <2>4 DEF TypeOK
  <2>6. paid[d] = 0
    BY <2>1 DEF UnmarkedUnpaid
  <2>7. NoDigestPaidTwice'
    BY <2>1, <2>6 DEF NoDigestPaidTwice, TypeOK
  <2>8. UnmarkedUnpaid'
    BY <2>1 DEF UnmarkedUnpaid, TypeOK
  <2> QED BY <2>5, <2>7, <2>8
<1>6. CASE UNCHANGED vars
  BY <1>6 DEF vars, TypeOK, NoDigestPaidTwice, UnmarkedUnpaid
<1> QED BY <1>1, <1>2, <1>3, <1>4, <1>5, <1>6 DEF Next

(* MindorrVault.sol: in every state no digest was paid twice, and none     *)
(* that is not marked as executed was paid at all.                         *)
THEOREM VaultInvariant == Spec => []IInv
BY InitIInv, NextIInv, PTL DEF Spec

(* Accounts, allowlist, marks, balances and history stay of their types;   *)
(* in particular no balance goes below zero.                               *)
THEOREM VaultTyped == Spec => []TypeOK
BY VaultInvariant, PTL DEF IInv

(* The replay guard: execute() pays a digest at most once, across all      *)
(* owners, registrations and signatures.                                   *)
THEOREM ReplayGuard == Spec => []NoDigestPaidTwice
BY VaultInvariant, PTL DEF IInv

(* Any step that lowers an asset's balance is the single release of an     *)
(* action that an owner's registered wallet signed, to a destination that  *)
(* owner allows on-chain.                                                  *)
THEOREM ReleasesAuthorised == Spec => EveryReleaseAuthorised
<1> DEFINE Authorised(a) ==
      balance'[a] < balance[a] =>
        \E o \in Owner, d \in Action :
          /\ AuthorisedRelease(o, d)
          /\ d[2] = a
          /\ balance'[a] = balance[a] - d[3]
          /\ paid'[d] = paid[d] + 1
<1>1. ASSUME TypeOK, Next, NEW a \in Asset
      PROVE  Authorised(a)
  <2>0. SUFFICES ASSUME balance'[a] < balance[a]
                 PROVE  \E o \in Owner, d \in Action :
                          /\ AuthorisedRelease(o, d)
                          /\ d[2] = a
                          /\ balance'[a] = balance[a] - d[3]
                          /\ paid'[d] = paid[d] + 1
    OBVIOUS
  <2>1. balance[a] \in Nat
    BY <1>1 DEF TypeOK
  <2>2. balance' # balance
    BY <2>0, <2>1
  <2>3. ASSUME NEW b \in Asset, Fund(b, 1)
        PROVE  FALSE
    BY <1>1, <2>0, <2>1, <2>3 DEF Fund, TypeOK
  <2>4. PICK o \in Owner, d \in Action, sig \in Signatures :
          Execute(o, d[1], d[2], d[3], d[4], sig)
    BY <1>1, <2>2, <2>3 DEF Next, RegisterAccount, SetVenue, Sign
  <2>5. /\ AuthorisedRelease(o, d)
        /\ balance' = [balance EXCEPT ![d[2]] = @ - d[3]]
        /\ paid' = [paid EXCEPT ![d] = @ + 1]
    BY <1>1, <2>4, ExecuteReleases
  <2>6. d[2] = a
    BY <1>1, <2>0, <2>1, <2>5 DEF TypeOK
  <2>7. balance'[a] = balance[a] - d[3] /\ paid'[d] = paid[d] + 1
    BY <1>1, <2>5, <2>6 DEF TypeOK
  <2> QED BY <2>5, <2>6, <2>7
<1>2. TypeOK /\ [Next]_vars => [\A a \in Asset : Authorised(a)]_vars
  BY <1>1
<1> QED BY <1>2, VaultTyped, PTL DEF Spec, EveryReleaseAuthorised

(* previewExecute's NatSpec: for any caller, action and signature bytes,   *)
(* and whatever the state, it says ok exactly to what execute() would pay  *)
(* but for the replay mark and the funds.                                  *)
THEOREM PreviewIsFaithful == Spec => []PreviewPredictsExecute
<1>1. ASSUME NEW o \in Owner, NEW d \in Action, NEW sig \in Signatures
      PROVE  Executable(o, d[1], d[2], d[3], d[4], sig)
               <=> /\ PreviewExecute(o, d[1], d[2], d[3], d[4], sig) = "ok"
                   /\ d \notin usedDigest
                   /\ balance[d[2]] >= d[3]
  <2>1. d[1] \in ActionKind /\ ActionDigest(d[1], d[2], d[3], d[4]) = d
    BY ActionFields
  <2>2. DestinationAllowed(o, d[1], d[4])
          <=> /\ ~(d[1] \in VenueKinds /\ d[4] \notin allowedVenue[o])
              /\ ~(d[1] = "withdraw" /\ d[4] # accounts[o].returnAddress)
    BY <2>1 DEF DestinationAllowed, ActionKind, VenueKinds
  <2>3. PreviewExecute(o, d[1], d[2], d[3], d[4], sig) = "ok"
          <=> /\ accounts[o].exists
              /\ d[2] = accounts[o].asset
              /\ DestinationAllowed(o, d[1], d[4])
              /\ SignedBy(o, d, sig)
    BY <2>1, <2>2 DEF PreviewExecute, SignedBy
  <2> QED BY <2>1, <2>3 DEF Executable
<1>2. PreviewPredictsExecute
  BY <1>1 DEF PreviewPredictsExecute
<1> QED BY <1>2, PTL
=============================================================================
