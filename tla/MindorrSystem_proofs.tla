------------------------ MODULE MindorrSystem_proofs ------------------------
(***************************************************************************)
(* For every set of owners, seeds, policies and intents, and any order of  *)
(* signing, registering, re-seeding, restarting and relaying: the enclave  *)
(* and the contract keep their promises to each other.                     *)
(***************************************************************************)
EXTENDS MindorrSystem, Enclave_proofs

(* CREATE reveals an owner's wallet to that owner, other keys make the     *)
(* signatures that the enclave does not, and accounts are the vault's.     *)
OwnWallets ==
  /\ \A pair \in revealed : pair[2] \in Wallets /\ pair[2][2] = pair[1]
  /\ outside \subseteq OtherKeys \X Actions
  /\ accounts \in [Owners -> V!Account \cup {V!NoAccount}]

SysInv == IInv /\ OwnWallets

-----------------------------------------------------------------------------
(* Instructions of the app's users are instructions.                       *)
LEMMA EnclaveStepIsNext == EnclaveStep => Next
BY DEF EnclaveStep, Step, Next, Callers

(* The enclave's part of a step is one of its own.                         *)
LEMMA SystemIsEnclave == SystemNext => [Next]_vars
BY EnclaveStepIsNext DEF SystemNext, Register, SetVenue, Fund, SignOutside, Relay

(* Revealing adds <<owner, wallet of that owner>>; nothing else does.      *)
LEMMA EnclaveRevealsOwn ==
  ASSUME TypeOK, EnclaveStep,
         \A pair \in revealed : pair[2] \in Wallets /\ pair[2][2] = pair[1]
  PROVE  \A pair \in revealed' : pair[2] \in Wallets /\ pair[2][2] = pair[1]
<1>1. ASSUME NEW w \in Callers, CreateWallet(w)
      PROVE  \A pair \in revealed' : pair[2] \in Wallets /\ pair[2][2] = pair[1]
  <2>1. revealed' = revealed \cup {<<Lower[w], WalletOf(seed, w)>>}
    BY <1>1 DEF CreateWallet
  <2>2. seed \in Seeds /\ Lower[w] \in Owners /\ Lower[w] \in Wire
    BY <1>1, GuardAssumption DEF CreateWallet, TypeOK, Callers
  <2>3. WalletOf(seed, w) \in Wallets /\ WalletOf(seed, w)[2] = Lower[w]
    BY <2>2 DEF WalletOf, Wallets
  <2> QED BY <2>1, <2>2, <2>3
<1>2. \/ revealed' = revealed
      \/ \E w \in Callers : CreateWallet(w)
  BY DEF EnclaveStep, Step, UpdateKey, SetPolicy, Materialise, ConfirmDeposit,
         RefuseAction, SignAction, Restart
<1> QED BY <1>1, <1>2

(* Every step keeps the invariant of the composition.                      *)
LEMMA SystemStep ==
  ASSUME SysInv, [SystemNext]_systemVars
  PROVE  SysInv'
<1> USE DEF SysInv
<1>1. [Next]_vars
  BY SystemIsEnclave DEF systemVars
<1>2. IInv'
  BY <1>1, NextIInv
<1>3. CASE EnclaveStep
  <2>1. UNCHANGED <<accounts, outside>>
    BY <1>3 DEF EnclaveStep, chainVars
  <2> QED BY <1>2, <1>3, <2>1, EnclaveRevealsOwn DEF OwnWallets, IInv
<1>4. ASSUME NEW o \in Owners, NEW k \in Keys, NEW home \in Homes, NEW asset \in Assets,
             Register(o, k, home, asset)
      PROVE  SysInv'
  <2>1. UNCHANGED <<revealed, outside>>
    BY <1>4 DEF Register, vars
  <2>2. accounts' = [accounts EXCEPT ![o] =
          [managedWallet |-> k, returnAddress |-> home, asset |-> asset,
           exists |-> TRUE]]
    BY <1>4 DEF Register, V!RegisterAccount
  <2>3. [managedWallet |-> k, returnAddress |-> home, asset |-> asset,
         exists |-> TRUE] \in V!Account
    BY DEF V!Account
  <2> QED BY <1>2, <2>1, <2>2, <2>3 DEF OwnWallets
<1>5. ASSUME NEW k \in OtherKeys, NEW c \in Actions, SignOutside(k, c)
      PROVE  SysInv'
  BY <1>2, <1>5 DEF OwnWallets, SignOutside, vars, chainVars
<1>6. CASE UNCHANGED <<revealed, outside, accounts>>
  BY <1>2, <1>6 DEF OwnWallets
<1>7. ASSUME \/ \E o \in Owners, venue \in Venues, allowed \in BOOLEAN : SetVenue(o, venue, allowed)
             \/ \E asset \in Assets : Fund(asset)
             \/ \E o \in Owners, c \in Actions, sig \in Signed : Relay(o, c, sig)
             \/ UNCHANGED systemVars
      PROVE  UNCHANGED <<revealed, outside, accounts>>
  BY <1>7 DEF SetVenue, Fund, Relay, V!SetVenue, V!Fund, V!Execute, systemVars,
              chainVars, vars
<1> QED BY <1>3, <1>4, <1>5, <1>6, <1>7 DEF SystemNext

(* Core and vault together: the core's invariant holds, no wallet has been *)
(* revealed to anybody but the owner it was derived for, and no signature  *)
(* made outside the enclave is made with a wallet of its own.              *)
THEOREM SystemInvariant == SystemSpec => []SysInv
<1>1. SystemInit => SysInv
  BY InitIInv DEF SystemInit, V!Init, Init, OwnWallets, SysInv, V!NoAccount
<1>2. SysInv /\ [SystemNext]_systemVars => SysInv'
  BY SystemStep
<1> QED BY <1>1, <1>2, PTL DEF SystemSpec

(* The trust core, driven by the app's users and with a chain beside it,   *)
(* takes its own steps only, so that what Enclave_proofs shows of its      *)
(* types, slots and signatures holds in the system.                        *)
THEOREM SystemImplementsEnclave == SystemSpec => Spec
<1>1. [SystemNext]_systemVars => [Next]_vars
  BY SystemIsEnclave DEF systemVars
<1> QED BY <1>1, PTL DEF SystemSpec, SystemInit, Spec

(* In the system too, no signature leaves outside its owner's policy, and  *)
(* tenants own their slots.                                                *)
THEOREM SystemTyped == SystemSpec => []TypeOK
BY SystemImplementsEnclave, EnclaveTyped, PTL

(* In the composition, too, everything signed was within the policy in     *)
(* force.                                                                  *)
THEOREM SystemSignsWithinPolicy == SystemSpec => []IssuedWithinPolicy
BY SystemImplementsEnclave, SignaturesWithinPolicy, PTL

(* In the composition, too, a tenant's slot holds that tenant's policy.    *)
THEOREM SystemTenantsOwnTheirSlots == SystemSpec => []SlotsBelongToOwners
BY SystemImplementsEnclave, TenantsOwnTheirSlots, PTL

-----------------------------------------------------------------------------
(* A signature that has been handed out is an intent's, its wallet's and   *)
(* that intent's calldata's.                                               *)
LEMMA IssuedSignature ==
  ASSUME TypeOK, NEW s \in issued
  PROVE  /\ s.signer \in Wallets /\ s.intent \in Intents /\ s.intent \in Intent
         /\ s.under \in Policy
         /\ ActionDigest(s.intent) = Calldata(s.intent)
         /\ Calldata(s.intent) \in Actions
         /\ <<s.signer, Calldata(s.intent)>> \in Handed
         /\ <<s.signer, Calldata(s.intent)>> # V!NoSignature
<1>1. s.signer \in Wallets /\ s.intent \in Intents /\ s.under \in Policies
  BY DEF TypeOK, Signatures
<1>2. ActionDigest(s.intent) = Calldata(s.intent)
  BY DEF ActionDigest, Calldata
<1>3. s.signer # ZeroAddress
  BY <1>1, SystemAssumption
<1> QED BY <1>1, <1>2, <1>3, EnclaveAssumption DEF Handed, Actions, V!NoSignature

(* An action has the four fields that execute() takes.                     *)
LEMMA ActionIsCall ==
  ASSUME NEW c \in Actions
  PROVE  /\ V!ActionDigest(c[1], c[2], c[3], c[4]) = c
         /\ c[1] \in V!ActionKind
BY EnclaveAssumption DEF Actions, Calldata, Intent, Kinds, V!ActionDigest,
   V!ActionKind, V!VenueKinds

(* Against an account with a wallet of the enclave's, the contract accepts *)
(* nothing but what that wallet has signed inside the enclave.             *)
LEMMA ReleasedByEnclave ==
  ASSUME SysInv, NEW o \in Owners, NEW c \in Actions, NEW sig \in Signed,
         Relay(o, c, sig), accounts[o].managedWallet \in OwnerWallets
  PROVE  /\ \E s \in issued :
              s.signer = accounts[o].managedWallet /\ Calldata(s.intent) = c
         /\ V!AuthorisedRelease(o, c)
<1> USE DEF SysInv, IInv
<1> DEFINE wallet == accounts[o].managedWallet
<1>1. V!Executable(o, c[1], c[2], c[3], c[4], sig)
  BY DEF Relay, V!Execute
<1>2. /\ accounts[o].exists
      /\ c[2] = accounts[o].asset
      /\ V!DestinationAllowed(o, c[1], c[4])
      /\ V!Recover(c, sig) = wallet
  BY <1>1, ActionIsCall DEF V!Executable, V!SignedBy
<1>3. wallet \in Wallets /\ wallet \notin OtherKeys /\ wallet # ZeroAddress
      /\ wallet # Stranger
  <2>1. Owners \subseteq Wire
    BY SystemAssumption, GuardAssumption
  <2>2. wallet \in Wallets
    BY <2>1 DEF OwnerWallets, Wallets
  <2> QED BY <2>2, SystemAssumption
<1>4. sig[1] = wallet /\ sig[2] = c
  BY <1>2, <1>3 DEF V!Recover
<1>5. sig \in Handed
  BY <1>3, <1>4 DEF Signed, OwnWallets
<1>6. PICK s \in issued : sig = <<s.signer, ActionDigest(s.intent)>>
  BY <1>5 DEF Handed
<1>7. s.signer = wallet /\ Calldata(s.intent) = c /\ <<wallet, c>> \in Signed
  BY <1>4, <1>6, IssuedSignature DEF Signed
<1>8. /\ c[1] = "withdraw" => c[4] = accounts[o].returnAddress
      /\ c[1] # "withdraw" => c[4] \in allowedVenue[o]
  BY <1>2, ActionIsCall DEF V!DestinationAllowed, V!VenueKinds, V!ActionKind
<1> QED BY <1>2, <1>7, <1>8 DEF V!AuthorisedRelease

(* The end-to-end promise, whatever is registered, signed and relayed by   *)
(* whom: FXRP is released against an account with a wallet of the          *)
(* enclave's only for an action that the policy of the wallet's owner      *)
(* allowed at the signing, and to where the account allows on-chain at the *)
(* release; and against an account with the wallet that was revealed to    *)
(* its owner, only for what was signed for that owner.                     *)
THEOREM SystemReleasesWithinPolicy == SystemSpec => ReleasesWithinPolicy
<1> DEFINE Sound(o, c) ==
      \E s \in issued :
        /\ s.signer = accounts[o].managedWallet /\ Calldata(s.intent) = c
        /\ Lower[s.under.owner] = s.owner
        /\ WithinPolicy(s.under, s.intent)
        /\ V!AuthorisedRelease(o, c)
        /\ <<o, s.signer>> \in revealed => s.owner = o
<1>1. ASSUME SysInv, NEW o \in Owners, NEW c \in Actions, NEW sig \in Signed,
             Relay(o, c, sig), accounts[o].managedWallet \in OwnerWallets
      PROVE  Sound(o, c)
  <2>1. PICK s \in issued :
          s.signer = accounts[o].managedWallet /\ Calldata(s.intent) = c
    BY <1>1, ReleasedByEnclave
  <2>2. /\ WithinPolicy(s.under, s.intent)
        /\ Lower[s.under.owner] = s.owner
        /\ s.signer[2] = s.owner
    BY <1>1 DEF SysInv, IInv, IssuedWithinPolicy
  <2>3. <<o, s.signer>> \in revealed => s.owner = o
    BY <1>1, <2>2 DEF SysInv, OwnWallets
  <2>4. V!AuthorisedRelease(o, c)
    BY <1>1, ReleasedByEnclave
  <2> QED BY <2>1, <2>2, <2>3, <2>4
<1> DEFINE Released ==
      \A o \in Owners :
        accounts[o].managedWallet \in OwnerWallets =>
          \A c \in Actions, sig \in Signed : Relay(o, c, sig) => Sound(o, c)
<1>2. SysInv /\ [SystemNext]_systemVars => [Released]_systemVars
  BY <1>1
<1> QED BY <1>2, SystemInvariant, PTL DEF SystemSpec, ReleasesWithinPolicy

(* policy.ts and MindorrVault.sol agree: what the guard has allowed under  *)
(* a policy that is mirrored on-chain, the contract's preview accepts.     *)
THEOREM GuardAndVaultAgree == SystemSpec => []MirroredSignaturesVerify
<1>1. ASSUME IInv, NEW s \in issued,
             Mirrored(s.owner, s.under), accounts[s.owner].managedWallet = s.signer
      PROVE  LET c == Calldata(s.intent) IN
             V!PreviewExecute(s.owner, c[1], c[2], c[3], c[4],
                              <<s.signer, ActionDigest(s.intent)>>) = "ok"
  <2> DEFINE p == s.under
             i == s.intent
             c == Calldata(i)
             o == s.owner
  <2>1. /\ i \in Intent /\ p \in Policy
        /\ ActionDigest(i) = c /\ <<s.signer, c>> # V!NoSignature
    BY <1>1, IssuedSignature DEF IInv
  <2>2. WithinPolicy(p, i)
    BY <1>1 DEF IInv, IssuedWithinPolicy
  <2>3. c[1] = i.kind /\ c[2] = Lower[i.asset] /\ c[4] = Lower[i.dest]
    BY DEF Calldata
  <2>4. c[1] \in V!ActionKind
    BY <2>1, <2>3 DEF Intent, Kinds, V!ActionKind, V!VenueKinds
  <2>5. accounts[o].exists /\ c[2] = accounts[o].asset
    BY <1>1, <2>2, <2>3 DEF Mirrored, WithinPolicy, WithinCaps, EqAddr
  <2>6. c[1] # "withdraw" => c[4] \in allowedVenue[o]
    BY <1>1, <2>2, <2>3 DEF Mirrored, WithinPolicy
  <2>7. c[1] = "withdraw" => c[4] = accounts[o].returnAddress
    BY <1>1, <2>2, <2>3 DEF Mirrored, WithinPolicy
  <2>8. V!Recover(V!ActionDigest(c[1], c[2], c[3], c[4]), <<s.signer, c>>) = s.signer
    BY <2>1 DEF V!Recover, V!ActionDigest, Calldata
  <2> HIDE DEF c
  <2>9. "withdraw" \notin V!VenueKinds
    BY DEF V!VenueKinds
  <2> QED BY <1>1, <2>1, <2>4, <2>5, <2>6, <2>7, <2>8, <2>9 DEF V!PreviewExecute, c
<1>2. IInv => MirroredSignaturesVerify
  BY <1>1 DEF MirroredSignaturesVerify
<1> QED BY <1>2, SystemInvariant, PTL DEF SysInv

-----------------------------------------------------------------------------
(* The contract in the system is Vault, with the enclave's signatures and  *)
(* those made outside as the signatures made.                              *)

(* An enclave step makes one signature, or none.                           *)
LEMMA EnclaveStepSigns ==
  ASSUME SysInv, EnclaveStep
  PROVE  [V!Next]_(V!vars)
<1> USE DEF SysInv, IInv
<1>1. UNCHANGED <<accounts, allowedVenue, usedDigest, balance, paid, outside>>
  BY DEF EnclaveStep, chainVars
<1>2. CASE issued' = issued
  BY <1>1, <1>2 DEF V!vars, Signed, Handed
<1>3. ASSUME NEW w \in Callers, NEW i \in Intents \cup {Malformed}, SignAction(w, i)
      PROVE  V!Next
  <2>1. w \in Wire /\ Judged(w, i) /\ Lower[w] \in Owners
    BY <1>3 DEF SignAction, Callers
  <2>2. i \in Intents /\ i \in Intent /\ seed \in Seeds /\ Lower[w] \in Wire
    BY <2>1, JudgedFacts
  <2>3. WalletOf(seed, w) \in Keys /\ Calldata(i) \in Actions
    BY <2>1, <2>2 DEF WalletOf, OwnerWallets, Keys, Actions
  <2>4. Handed' = Handed \cup {<<WalletOf(seed, w), Calldata(i)>>}
    <3> DEFINE Hand(s) == <<s.signer, ActionDigest(s.intent)>>
               new == [owner |-> Lower[w], signer |-> WalletOf(seed, w),
                       intent |-> i, under |-> policy[Lower[w]]]
    <3>1. issued' = issued \cup {new}
      BY <1>3 DEF SignAction
    <3>2. Hand(new) = <<WalletOf(seed, w), Calldata(i)>>
      BY DEF ActionDigest, Calldata
    <3>3. Handed = {Hand(s) : s \in issued} /\ Handed' = {Hand(s) : s \in issued'}
      BY DEF Handed
    <3> HIDE DEF Hand, new
    <3> QED BY <3>1, <3>2, <3>3
  <2>5. V!Sign(WalletOf(seed, w), Calldata(i))
    BY <1>1, <2>4 DEF V!Sign, Signed
  <2> QED BY <2>3, <2>5 DEF V!Next
<1>4. \/ issued' = issued
      \/ \E w \in Callers, i \in Intents \cup {Malformed} : SignAction(w, i)
  BY DEF EnclaveStep, Step, UpdateKey, CreateWallet, SetPolicy, Materialise,
         ConfirmDeposit, RefuseAction, Restart
<1> QED BY <1>2, <1>3, <1>4

(* The vault's part of a step is one of its own.                           *)
LEMMA SystemIsVault ==
  ASSUME SysInv, [SystemNext]_systemVars
  PROVE  [V!Next]_(V!vars)
<1> USE DEF SysInv, IInv
<1> USE DEF Signed, Handed, vars, chainVars
<1>1. ASSUME NEW o \in Owners, NEW k \in Keys, NEW home \in Homes, NEW asset \in Assets,
             Register(o, k, home, asset)
      PROVE  V!Next
  BY <1>1 DEF Register, V!Next
<1>2. ASSUME NEW o \in Owners, NEW venue \in Venues, NEW allowed \in BOOLEAN,
             SetVenue(o, venue, allowed)
      PROVE  V!Next
  BY <1>2 DEF SetVenue, V!Next
<1>3. ASSUME NEW asset \in Assets, Fund(asset)
      PROVE  V!Next
  BY <1>3 DEF Fund, V!Next
<1>4. ASSUME NEW o \in Owners, NEW c \in Actions, NEW sig \in Signed, Relay(o, c, sig)
      PROVE  V!Next
  BY <1>4 DEF Relay, V!Next, V!Signatures
<1>5. ASSUME NEW k \in OtherKeys, NEW c \in Actions, SignOutside(k, c)
      PROVE  V!Next
  <2>1. V!Sign(k, c)
    BY <1>5 DEF SignOutside, V!Sign
  <2> QED BY <2>1 DEF V!Next, Keys
<1>6. CASE UNCHANGED systemVars
  BY <1>6 DEF systemVars, V!vars
<1> QED BY <1>1, <1>2, <1>3, <1>4, <1>5, <1>6, EnclaveStepSigns DEF SystemNext

(* MindorrVault.sol behind this enclave: every step of the system is a     *)
(* call of the contract, a signature, or nothing to the contract.          *)
THEOREM SystemImplementsVault == SystemSpec => ImplementsVault
<1>1. SystemInit => V!Init
  <2>1. SystemInit => Signed = {}
    BY DEF SystemInit, Init, Handed, Signed
  <2> QED BY <2>1 DEF SystemInit, V!Init
<1>2. SysInv /\ [SystemNext]_systemVars => [V!Next]_(V!vars)
  BY SystemIsVault
<1> QED BY <1>1, <1>2, SystemInvariant, PTL DEF SystemSpec, ImplementsVault, V!Spec

(* Vault's theorems hold of the system.  VP is Vault with its proofs; its  *)
(* assumptions follow from the system's.                                   *)
VP == INSTANCE Vault_proofs
        WITH Owner <- Owners, Venue <- Venues, Home <- Homes, Asset <- Assets,
             Key <- Keys, Action <- Actions, signed <- Signed

(* The constants given to the vault satisfy what it assumes.               *)
LEMMA VaultAssumptionHolds == VP!VaultAssumption
<1>1. Keys \subseteq Wallets \cup OtherKeys
  BY SystemAssumption, GuardAssumption DEF Keys, OwnerWallets, Wallets
<1>2. /\ ZeroAddress \notin Keys \cup VP!Party \cup Assets
      /\ Stranger \notin Keys \cup {ZeroAddress}
      /\ MaxBalance \in Nat
  BY <1>1, SystemAssumption, GuardAssumption DEF VP!Party
<1>3. ASSUME NEW c \in Actions
      PROVE  /\ c = <<c[1], c[2], c[3], c[4]>>
             /\ c[1] \in VP!ActionKind /\ c[3] \in Nat
  BY EnclaveAssumption DEF Actions, Calldata, Intent, Kinds, VP!ActionKind, VP!VenueKinds
<1> QED BY <1>2, <1>3 DEF VP!VaultAssumption

(* VP's Vault and V are the same specification.                            *)
LEMMA SameVault == V!Spec => VP!Spec
<1>1. V!Init => VP!Init
  BY DEF V!Init, VP!Init, V!NoAccount, VP!NoAccount
<1>2. \A o, k, a, n, d, sig : V!Execute(o, k, a, n, d, sig) <=> VP!Execute(o, k, a, n, d, sig)
  BY DEF V!Execute, VP!Execute, V!Executable, VP!Executable, V!ActionDigest,
         VP!ActionDigest, V!DestinationAllowed, VP!DestinationAllowed, V!VenueKinds,
         VP!VenueKinds, V!SignedBy, VP!SignedBy, V!Recover, VP!Recover,
         V!NoSignature, VP!NoSignature, V!Marked, VP!Marked
<1>3. V!Next => VP!Next
  BY <1>2 DEF V!Next, VP!Next, V!RegisterAccount, VP!RegisterAccount, V!SetVenue,
              VP!SetVenue, V!Fund, VP!Fund, V!Sign, VP!Sign, V!Signatures,
              VP!Signatures, V!NoSignature, VP!NoSignature
<1>4. [V!Next]_(V!vars) => [VP!Next]_(VP!vars)
  BY <1>3 DEF V!vars, VP!vars
<1> QED BY <1>1, <1>4, PTL DEF V!Spec, VP!Spec

(* No action that this enclave signed is ever paid twice.                  *)
THEOREM SystemPaysOnce == SystemSpec => []V!NoDigestPaidTwice
<1>1. VP!NoDigestPaidTwice => V!NoDigestPaidTwice
  BY DEF VP!NoDigestPaidTwice, V!NoDigestPaidTwice
<1>2. VP!Spec => []VP!NoDigestPaidTwice
  BY VaultAssumptionHolds, VP!ReplayGuard, PTL
<1> QED BY <1>1, <1>2, SystemImplementsVault, SameVault, PTL DEF ImplementsVault
=============================================================================
