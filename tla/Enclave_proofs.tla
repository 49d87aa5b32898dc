--------------------------- MODULE Enclave_proofs ---------------------------
(***************************************************************************)
(* For every set of addresses, seeds, policies, intents and deposits: what *)
(* leaves the enclave is within its owner's policy, and tenants' slots are *)
(* their owners'.                                                          *)
(***************************************************************************)
EXTENDS Enclave, PolicyGuard_proofs

(* Signing takes the policy from the tenant's slot, so that a signature is *)
(* within its owner's policy only while slots hold their owners' policies. *)
IInv == TypeOK /\ IssuedWithinPolicy /\ SlotsBelongToOwners

(* An enclave that has just booted holds nothing.                          *)
LEMMA InitIInv == Init => IInv
BY DEF Init, Blank, IInv, TypeOK, IssuedWithinPolicy, SlotsBelongToOwners

(* An intent reaches the guard only if it parsed, with a policy and a seed *)
(* in place.                                                               *)
LEMMA JudgedFacts ==
  ASSUME TypeOK, NEW w \in Wire, NEW i \in Intents \cup {Malformed}, Judged(w, i)
  PROVE  /\ i \in Intents /\ i \in Intent
         /\ policy[Lower[w]] \in Policies /\ policy[Lower[w]] \in Policy
         /\ seed \in Seeds
         /\ Lower[w] \in Wire
BY EnclaveAssumption, GuardAssumption DEF Judged, TypeOK

(* One step preserves the types and the ownership of slots.                *)
LEMMA NextSlots ==
  ASSUME TypeOK, SlotsBelongToOwners, [Next]_vars
  PROVE  TypeOK' /\ SlotsBelongToOwners'
<1> USE GuardAssumption
<1>1. ASSUME NEW s \in Seeds, UpdateKey(s)
      PROVE  TypeOK' /\ SlotsBelongToOwners'
  BY <1>1 DEF UpdateKey, tenantVars, TypeOK, SlotsBelongToOwners
<1>2. ASSUME NEW w \in Wire, CreateWallet(w)
      PROVE  TypeOK' /\ SlotsBelongToOwners'
  <2>1. WalletOf(seed, w) \in Wallets
    BY <1>2 DEF CreateWallet, WalletOf, Wallets, TypeOK
  <2>2. TypeOK'
    BY <1>2, <2>1 DEF CreateWallet, tenantVars, TypeOK
  <2>3. SlotsBelongToOwners'
    BY <1>2 DEF CreateWallet, tenantVars, SlotsBelongToOwners
  <2> QED BY <2>2, <2>3
<1>3. ASSUME NEW p \in Policies, SetPolicy(p)
      PROVE  TypeOK' /\ SlotsBelongToOwners'
  <2>1. p \in Policy /\ p.owner \in Wire /\ Lower[p.owner] \in Wire
    BY EnclaveAssumption DEF Policy
  <2>2. TypeOK'
    BY <1>3, <2>1 DEF SetPolicy, TypeOK
  <2>3. SlotsBelongToOwners'
    <3>1. policy'[Lower[p.owner]] = p
          /\ \A w \in Wire \ {Lower[p.owner]} : policy'[w] = policy[w]
      BY <1>3, <2>1 DEF SetPolicy, TypeOK
    <3>2. p # NoPolicy
      BY EnclaveAssumption
    <3>3. ASSUME NEW w \in Wire
          PROVE  policy'[w] # NoPolicy => w \in users' /\ Lower[policy'[w].owner] = w
      BY <1>3, <3>1 DEF SetPolicy, SlotsBelongToOwners
    <3>4. ASSUME NEW w \in Wire
          PROVE  policy[w] # NoPolicy => policy'[w] # NoPolicy
      BY <3>1, <3>2
    <3> QED BY <1>3, <3>3, <3>4 DEF SetPolicy, SlotsBelongToOwners
  <2> QED BY <2>2, <2>3
<1>4. ASSUME NEW w \in Wire, Materialise(w)
      PROVE  TypeOK' /\ SlotsBelongToOwners'
  BY <1>4 DEF Materialise, tenantVars, TypeOK, SlotsBelongToOwners
<1>5. ASSUME NEW w \in Wire, NEW d \in Deposits \cup {Malformed},
             ConfirmDeposit(w, d)
      PROVE  TypeOK' /\ SlotsBelongToOwners'
  <2>1. CASE ~DepositHonoured(w, d) /\ Materialise(w)
    BY <1>4, <2>1
  <2>2. CASE DepositHonoured(w, d)
    <3>1. d \in Deposit /\ d.receivedAmount \in Nat /\ policy[Lower[w]] # NoPolicy
      BY <2>2, EnclaveAssumption DEF DepositHonoured, Deposit
    <3>2. /\ users' = users \cup {Lower[w]}
          /\ confirmedDrops' = [confirmedDrops EXCEPT ![Lower[w]] = @ + d.receivedAmount]
          /\ depositsConfirmed' = [depositsConfirmed EXCEPT ![Lower[w]] = @ + 1]
          /\ UNCHANGED <<seed, policy, actionsSigned, actionsRefused, revealed, issued>>
      BY <1>5, <2>2 DEF ConfirmDeposit
    <3>3. TypeOK'
      BY <3>1, <3>2 DEF TypeOK
    <3>4. SlotsBelongToOwners'
      BY <3>1, <3>2 DEF TypeOK, SlotsBelongToOwners
    <3> QED BY <3>3, <3>4
  <2> QED BY <1>5, <2>1, <2>2 DEF ConfirmDeposit
<1>6. ASSUME NEW w \in Wire, NEW i \in Intents \cup {Malformed}, RefuseAction(w, i)
      PROVE  TypeOK' /\ SlotsBelongToOwners'
  <2>1. policy[Lower[w]] # NoPolicy
    BY <1>6 DEF RefuseAction, Judged
  <2>2. TypeOK'
    BY <1>6 DEF RefuseAction, TypeOK
  <2>3. SlotsBelongToOwners'
    BY <1>6, <2>1 DEF RefuseAction, TypeOK, SlotsBelongToOwners
  <2> QED BY <2>2, <2>3
<1>7. ASSUME NEW w \in Wire, NEW i \in Intents \cup {Malformed}, SignAction(w, i)
      PROVE  TypeOK' /\ SlotsBelongToOwners'
  <2>1. Judged(w, i)
    BY <1>7 DEF SignAction
  <2>2. /\ i \in Intents /\ policy[Lower[w]] \in Policies
        /\ seed \in Seeds /\ Lower[w] \in Wire
    BY <2>1, JudgedFacts
  <2>3. [owner |-> Lower[w], signer |-> WalletOf(seed, w), intent |-> i,
         under |-> policy[Lower[w]]] \in Signatures
    BY <2>2 DEF Signatures, Wallets, WalletOf
  <2>4. TypeOK'
    BY <1>7, <2>2, <2>3 DEF SignAction, TypeOK
  <2>5. policy[Lower[w]] # NoPolicy
    BY <2>1 DEF Judged
  <2>6. SlotsBelongToOwners'
    BY <1>7, <2>2, <2>5 DEF SignAction, TypeOK, SlotsBelongToOwners
  <2> QED BY <2>4, <2>6
<1>8. CASE Restart
  BY <1>8 DEF Restart, Blank, TypeOK, SlotsBelongToOwners
<1>9. CASE UNCHANGED vars
  BY <1>9 DEF vars, tenantVars, TypeOK, SlotsBelongToOwners
<1> QED BY <1>1, <1>2, <1>3, <1>4, <1>5, <1>6, <1>7, <1>8, <1>9 DEF Next, Step

(* Only SignAction adds to what was issued, and what it adds is within the *)
(* policy in the owner's slot: here the guard's exactness is used.         *)
LEMMA NextIssued ==
  ASSUME IInv, [Next]_vars
  PROVE  IssuedWithinPolicy'
<1> USE DEF IInv
<1>1. ASSUME NEW w \in Wire, NEW i \in Intents \cup {Malformed}, SignAction(w, i)
      PROVE  IssuedWithinPolicy'
  <2> DEFINE u == Lower[w]
             s == [owner |-> u, signer |-> WalletOf(seed, w),
                   intent |-> i, under |-> policy[u]]
  <2>1. Judged(w, i)
    BY <1>1 DEF SignAction
  <2>2. i \in Intent /\ policy[u] \in Policy /\ u \in Wire
    BY <2>1, JudgedFacts
  <2>3. WithinPolicy(policy[u], i)
    BY <1>1, <2>2, GuardIsExact DEF SignAction
  <2>4. Lower[policy[u].owner] = u
    BY <2>1, <2>2 DEF Judged, SlotsBelongToOwners
  <2>5. s.signer[2] = s.owner
    BY DEF WalletOf
  <2>6. issued' = issued \cup {s}
    BY <1>1 DEF SignAction
  <2> QED BY <2>3, <2>4, <2>5, <2>6 DEF IssuedWithinPolicy
<1>2. CASE UNCHANGED issued
  BY <1>2 DEF IssuedWithinPolicy
<1>3. Next => \/ UNCHANGED issued
              \/ \E w \in Wire, i \in Intents \cup {Malformed} : SignAction(w, i)
  BY DEF Next, Step, UpdateKey, CreateWallet, SetPolicy, Materialise, ConfirmDeposit,
         RefuseAction, Restart
<1> QED BY <1>1, <1>2, <1>3 DEF vars

(* Every handler, and a restart, keeps the invariant.                      *)
LEMMA NextIInv == IInv /\ [Next]_vars => IInv'
BY NextSlots, NextIssued DEF IInv

(* handlers.ts: in every state the core reaches, tenants' slots are their  *)
(* owners' and whatever was signed was within the policy it was signed     *)
(* under.                                                                  *)
THEOREM EnclaveInvariant == Spec => []IInv
BY InitIInv, NextIInv, PTL DEF Spec

(* The trust core's state stays of its types.                              *)
THEOREM EnclaveTyped == Spec => []TypeOK
BY EnclaveInvariant, PTL DEF IInv

(* handlers.ts with policy.ts: no signature ever leaves the enclave for an *)
(* intent outside the policy its own owner set, and none with a key of     *)
(* another owner, whatever seeds, policies and restarts come in between.   *)
THEOREM SignaturesWithinPolicy == Spec => []IssuedWithinPolicy
BY EnclaveInvariant, PTL DEF IInv

(* handlers.ts's users Map: a tenant's slot holds that tenant's policy.    *)
THEOREM TenantsOwnTheirSlots == Spec => []SlotsBelongToOwners
BY EnclaveInvariant, PTL DEF IInv
=============================================================================
