------------------------------ MODULE Enclave ------------------------------
(***************************************************************************)
(* What the trust core promises (app/handlers.ts with app/wallet.ts): one  *)
(* master seed, one managed wallet and one policy per tenant, and every    *)
(* instruction handled in one step.  ExtServer has the same handlers with  *)
(* their awaits, the HTTP requests that carry them and the wallet cache,   *)
(* and implements this module; MindorrSystem composes it with the vault.   *)
(*                                                                         *)
(* `users` is the domain of the handlers' Map, keyed by lower-case owner;  *)
(* the fields of a UserState are functions of that key and hold their      *)
(* initial value outside `users`.                                          *)
(***************************************************************************)
EXTENDS PolicyGuard

CONSTANTS
  Seeds,      \* master seeds an operator may deliver
  NoSeed,
  Policies,   \* SET_POLICY payloads that parse
  NoPolicy,
  Intents,    \* ALLOCATE, REBALANCE, WITHDRAW payloads that parse
  Deposits,   \* CONFIRM_DEPOSIT payloads that parse
  Malformed   \* a payload whose JSON has a valid user and nothing else valid

ASSUME EnclaveAssumption ==
  /\ NoSeed \notin Seeds
  /\ Policies \subseteq Policy
  /\ NoPolicy \notin Policies
  /\ Intents \subseteq Intent
  /\ Deposits \subseteq Deposit
  /\ Malformed \notin Intents \cup Deposits

VARIABLES
  seed,               \* WalletManager.seed
  users,              \* keys of the users Map
  policy,             \* UserState.policy
  actionsSigned,      \* UserState.actionsSigned
  actionsRefused,     \* UserState.actionsRefused
  confirmedDrops,     \* UserState.confirmedDrops
  depositsConfirmed,  \* UserState.depositsConfirmed
  revealed,           \* history: <<owner, wallet>> pairs CREATE has answered
  issued              \* history: every signature that has left the enclave

tenantVars == <<policy, actionsSigned, actionsRefused,
                confirmedDrops, depositsConfirmed>>
vars == <<seed, users, tenantVars, revealed, issued>>

(* keccak256(seed || user) read as a key pair: pairs of seed and owner, so *)
(* that distinct seeds or owners have distinct wallets.                    *)
Wallets == Seeds \X Wire

(* A planted fault: a key derived from the seed alone.                     *)
WalletShared(s, w) == <<s, CHOOSE v \in Wire : Lower[v] = v>>

WalletOf(s, w) == <<s, Lower[w]>>

Signatures ==
  [owner : Wire, signer : Wallets, intent : Intents, under : Policies]

TypeOK ==
  /\ seed \in Seeds \cup {NoSeed}
  /\ users \subseteq Wire
  /\ policy \in [Wire -> Policies \cup {NoPolicy}]
  /\ actionsSigned \in [Wire -> Nat]
  /\ actionsRefused \in [Wire -> Nat]
  /\ confirmedDrops \in [Wire -> Nat]
  /\ depositsConfirmed \in [Wire -> Nat]
  /\ revealed \subseteq Wire \X Wallets
  /\ issued \subseteq Signatures

(* A booted process, and one restarted: nothing is persisted.              *)
Blank ==
  [seed |-> NoSeed, users |-> {}, policy |-> [w \in Wire |-> NoPolicy],
   count |-> [w \in Wire |-> 0]]

Init ==
  /\ seed = Blank.seed
  /\ users = Blank.users
  /\ policy = Blank.policy
  /\ actionsSigned = Blank.count
  /\ actionsRefused = Blank.count
  /\ confirmedDrops = Blank.count
  /\ depositsConfirmed = Blank.count
  /\ revealed = {}
  /\ issued = {}

-----------------------------------------------------------------------------
(* WALLET/UPDATE_KEY, decrypted to 32 bytes: accepted at any time.         *)
UpdateKey(s) ==
  /\ seed' = s
  /\ UNCHANGED <<users, tenantVars, revealed, issued>>

(* WALLET/CREATE.                                                          *)
CreateWallet(w) ==
  /\ seed # NoSeed
  /\ users' = users \cup {Lower[w]}
  /\ revealed' = revealed \cup {<<Lower[w], WalletOf(seed, w)>>}
  /\ UNCHANGED <<seed, tenantVars, issued>>

(* A planted fault: the slot is keyed by the owner as spelled.             *)
SetPolicyAsSpelled(p) ==
  /\ users' = users \cup {p.owner}
  /\ policy' = [policy EXCEPT ![p.owner] = p]
  /\ UNCHANGED <<seed, actionsSigned, actionsRefused, confirmedDrops,
                 depositsConfirmed, revealed, issued>>

(* VAULT/SET_POLICY: the policy's owner is the tenant.                     *)
SetPolicy(p) ==
  /\ users' = users \cup {Lower[p.owner]}
  /\ policy' = [policy EXCEPT ![Lower[p.owner]] = p]
  /\ UNCHANGED <<seed, actionsSigned, actionsRefused, confirmedDrops,
                 depositsConfirmed, revealed, issued>>

(* A VAULT instruction that ends in an error before the guard or the       *)
(* deposit check: userState() has already made the tenant.                 *)
Materialise(w) ==
  /\ users' = users \cup {Lower[w]}
  /\ UNCHANGED <<seed, tenantVars, revealed, issued>>

DepositHonoured(w, d) ==
  /\ policy[Lower[w]] # NoPolicy
  /\ d # Malformed
  /\ DepositVerdict(d) = "OK"

(* VAULT/CONFIRM_DEPOSIT.                                                  *)
ConfirmDeposit(w, d) ==
  \/ ~DepositHonoured(w, d) /\ Materialise(w)
  \/ /\ DepositHonoured(w, d)
     /\ users' = users \cup {Lower[w]}
     /\ confirmedDrops' = [confirmedDrops EXCEPT ![Lower[w]] = @ + d.receivedAmount]
     /\ depositsConfirmed' = [depositsConfirmed EXCEPT ![Lower[w]] = @ + 1]
     /\ UNCHANGED <<seed, policy, actionsSigned, actionsRefused, revealed, issued>>

(* A planted fault: no test that there is a seed to derive from.           *)
JudgedUnseeded(w, i) ==
  policy[Lower[w]] # NoPolicy /\ i # Malformed

(* VAULT/{ALLOCATE, REBALANCE, WITHDRAW} reach the guard.                  *)
Judged(w, i) ==
  /\ policy[Lower[w]] # NoPolicy
  /\ seed # NoSeed
  /\ i # Malformed

RefuseAction(w, i) ==
  /\ Judged(w, i)
  /\ Verdict(policy[Lower[w]], i) # "OK"
  /\ users' = users \cup {Lower[w]}
  /\ actionsRefused' = [actionsRefused EXCEPT ![Lower[w]] = @ + 1]
  /\ UNCHANGED <<seed, policy, actionsSigned, confirmedDrops,
                 depositsConfirmed, revealed, issued>>

SignAction(w, i) ==
  LET u == Lower[w] IN
  /\ Judged(w, i)
  /\ Verdict(policy[u], i) = "OK"
  /\ Encodable(i)
  /\ users' = users \cup {u}
  /\ actionsSigned' = [actionsSigned EXCEPT ![u] = @ + 1]
  /\ issued' = issued \cup {[owner |-> u, signer |-> WalletOf(seed, w),
                             intent |-> i, under |-> policy[u]]}
  /\ UNCHANGED <<seed, policy, actionsRefused, confirmedDrops,
                 depositsConfirmed, revealed>>

(* The process ends, by signal, by its sibling's exit or by a handler that *)
(* rejects, and boots again.  What has left the enclave stays outside.     *)
Restart ==
  /\ seed' = Blank.seed
  /\ users' = Blank.users
  /\ policy' = Blank.policy
  /\ actionsSigned' = Blank.count
  /\ actionsRefused' = Blank.count
  /\ confirmedDrops' = Blank.count
  /\ depositsConfirmed' = Blank.count
  /\ UNCHANGED <<revealed, issued>>

(* One instruction, naming one of callers, or the end of the process.      *)
Step(callers) ==
  \/ \E s \in Seeds : UpdateKey(s)
  \/ \E p \in Policies : SetPolicy(p)
  \/ \E w \in callers :
       \/ CreateWallet(w)
       \/ \E d \in Deposits \cup {Malformed} : ConfirmDeposit(w, d)
       \/ \E i \in Intents \cup {Malformed} :
            \/ ~Judged(w, i) /\ Materialise(w)
            \/ RefuseAction(w, i)
            \/ SignAction(w, i)
  \/ Restart

Next == Step(Wire)

Spec == Init /\ [][Next]_vars

-----------------------------------------------------------------------------
(* Every signature that ever left was for an intent the owner's own policy *)
(* allowed, and was made with a key of that owner: policy.ts's guarantee   *)
(* about the destinations of funds, per tenant.                            *)
IssuedWithinPolicy ==
  \A s \in issued :
    /\ WithinPolicy(s.under, s.intent)
    /\ Lower[s.under.owner] = s.owner
    /\ s.signer[2] = s.owner

(* Tenants own their slots: a policy sits under its own owner's key, and   *)
(* whoever has state is in the census /state reports.                      *)
SlotsBelongToOwners ==
  \A w \in Wire :
    /\ policy[w] # NoPolicy => w \in users /\ Lower[policy[w].owner] = w
    /\ w \notin users => /\ actionsSigned[w] = 0 /\ actionsRefused[w] = 0
                         /\ confirmedDrops[w] = 0 /\ depositsConfirmed[w] = 0
    /\ actionsSigned[w] + actionsRefused[w] + depositsConfirmed[w] > 0
         => policy[w] # NoPolicy
=============================================================================
