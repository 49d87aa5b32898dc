--------------------------- MODULE MindorrSystem ---------------------------
(***************************************************************************)
(* The trust core and the vault together: owners mirror their account      *)
(* on-chain (docs/DEPLOY.md, scripts/deploy-coston2.sh), the enclave signs *)
(* within their policies, and anyone may carry a signature to              *)
(* MindorrVault.execute, for any account and at any later time.  Enclave   *)
(* and chain share nothing but those signatures: the contract takes an     *)
(* owner's word for the wallet, which may be their own, another owner's,   *)
(* or a key that somebody holds outside the enclave and signs with.        *)
(***************************************************************************)
EXTENDS Enclave, FiniteSets, FiniteSetsExt

CONSTANTS
  Owners,         \* lower-case addresses of the app's users
  Venues,         \* lower-case addresses of lending vaults
  Homes,          \* lower-case return addresses
  Assets,         \* lower-case tokens
  ZeroAddress,
  Stranger,
  OtherKeys,      \* signing keys that somebody holds outside the enclave
  MaxBalance,     \* bound: token units the vault can hold
  MaxCalls,       \* bound: counted instructions per boot
  MaxIssued,      \* bound: signatures that leave the enclave
  MaxRevealed,    \* bound: wallets that CREATE reveals
  MaxAccounts,    \* bound: owners with an account on-chain
  MaxOutside      \* bound: signatures made with OtherKeys

ASSUME SystemAssumption ==
  /\ Owners \cup Venues \cup Homes \cup Assets \subseteq {Lower[w] : w \in Wire}
  /\ ZeroAddress \notin Wallets \cup OtherKeys \cup Wire
  /\ Stranger \notin Wallets \cup OtherKeys \cup {ZeroAddress}
  /\ Wallets \cap OtherKeys = {}
  /\ MaxBalance \in Nat /\ MaxCalls \in Nat
  /\ MaxIssued \in Nat /\ MaxRevealed \in Nat
  /\ MaxAccounts \in Nat /\ MaxOutside \in Nat

VARIABLES
  accounts, allowedVenue, usedDigest, balance, paid,  \* as in Vault
  outside         \* history: <<key, digest>> signed outside the enclave

chainVars == <<accounts, allowedVenue, usedDigest, balance, paid>>
systemVars == <<vars, chainVars, outside>>

(* The calldata execute() gets for an intent: an address has no case here. *)
Calldata(i) == <<i.kind, Lower[i.asset], i.amount, Lower[i.dest]>>

Actions == {Calldata(i) : i \in Intents}

(* The signatures that the enclave has handed out, and all there are.      *)
Handed == {<<s.signer, ActionDigest(s.intent)>> : s \in issued}

Signed == Handed \cup outside

(* The owners' wallets and the other keys; no instruction has a wallet of  *)
(* anybody else's sign.                                                    *)
OwnerWallets == Seeds \X Owners

Keys == OwnerWallets \cup OtherKeys

V == INSTANCE Vault
       WITH Owner <- Owners, Venue <- Venues, Home <- Homes, Asset <- Assets,
            Key <- Keys, Action <- Actions, signed <- Signed

SystemInit == Init /\ outside = {} /\ V!Init

-----------------------------------------------------------------------------
(* Clients name the app's users, in any spelling.                          *)
Callers == {w \in Wire : Lower[w] \in Owners}

EnclaveStep ==
  /\ Step(Callers)
  /\ MapThenSumSet(LAMBDA o : actionsSigned'[o] + actionsRefused'[o]
                                + depositsConfirmed'[o], Owners) <= MaxCalls
  /\ Cardinality(issued') <= MaxIssued
  /\ Cardinality(revealed') <= MaxRevealed
  /\ UNCHANGED <<chainVars, outside>>

(* The contract asks no more of a wallet than to be no zero address: not   *)
(* that the enclave has revealed it, nor that it is the sender's.          *)
Register(o, k, home, asset) ==
  /\ Cardinality({o} \cup {p \in Owners : accounts[p].exists}) <= MaxAccounts
  /\ UNCHANGED <<vars, outside>>
  /\ V!RegisterAccount(o, k, home, asset)

SetVenue(o, venue, allowed) ==
  UNCHANGED <<vars, outside>> /\ V!SetVenue(o, venue, allowed)

Fund(asset) == UNCHANGED <<vars, outside>> /\ V!Fund(asset, 1)

(* Whoever holds another key signs what they please with it.               *)
SignOutside(k, c) ==
  /\ outside' = outside \cup {<<k, c>>}
  /\ Cardinality(outside') <= MaxOutside
  /\ UNCHANGED <<vars, chainVars>>

(* Anyone submits any action with any signature against any account.       *)
Relay(o, c, sig) ==
  /\ UNCHANGED <<vars, outside>>
  /\ V!Execute(o, c[1], c[2], c[3], c[4], sig)

SystemNext ==
  \/ EnclaveStep
  \/ \E o \in Owners, k \in Keys, home \in Homes, asset \in Assets :
       Register(o, k, home, asset)
  \/ \E o \in Owners, venue \in Venues, allowed \in BOOLEAN : SetVenue(o, venue, allowed)
  \/ \E asset \in Assets : Fund(asset)
  \/ \E k \in OtherKeys, c \in Actions : SignOutside(k, c)
  \/ \E o \in Owners, c \in Actions, sig \in Signed : Relay(o, c, sig)

SystemSpec == SystemInit /\ [][SystemNext]_systemVars

-----------------------------------------------------------------------------
(* Whatever is released against an account whose wallet is the enclave's,  *)
(* the enclave itself signed as that very action, for the owner whose      *)
(* wallet it is and within the policy which that owner had in force at the *)
(* signing; it goes where the account allows on-chain when it goes; and an *)
(* account with the wallet that CREATE revealed to its owner never pays    *)
(* for a signature made for anybody else, whoever registers what, in any   *)
(* order of signing, registering, re-seeding, restarting and relaying.     *)
ReleasesWithinPolicy ==
  [][\A o \in Owners :
       accounts[o].managedWallet \in OwnerWallets =>
         \A c \in Actions, sig \in Signed :
           Relay(o, c, sig) =>
             \E s \in issued :
               /\ s.signer = accounts[o].managedWallet /\ Calldata(s.intent) = c
               /\ Lower[s.under.owner] = s.owner
               /\ WithinPolicy(s.under, s.intent)
               /\ V!AuthorisedRelease(o, c)
               /\ <<o, s.signer>> \in revealed => s.owner = o]_systemVars

(* The contract, driven by this enclave, these owners and these keys, does *)
(* what Vault promises of it: what is proved there against any signer and  *)
(* any action holds here.                                                  *)
ImplementsVault == V!Spec

(* The owner's account and allowlist say on-chain what the policy p says   *)
(* in the enclave (docs/DEPLOY.md: "mirror on-chain").                     *)
Mirrored(o, p) ==
  /\ accounts[o].exists
  /\ accounts[o].asset = Lower[p.asset]
  /\ accounts[o].returnAddress = Lower[p.returnAddress]
  /\ {Lower[v] : v \in p.allowedVenues} \subseteq allowedVenue[o]

(* The two halves of the guard agree: a signature made under a policy that *)
(* is mirrored on-chain for the wallet that made it passes previewExecute, *)
(* and so does execute() but for the replay mark and the funds.            *)
MirroredSignaturesVerify ==
  \A s \in issued :
    Mirrored(s.owner, s.under) /\ accounts[s.owner].managedWallet = s.signer =>
      LET c == Calldata(s.intent) IN
      V!PreviewExecute(s.owner, c[1], c[2], c[3], c[4],
                       <<s.signer, ActionDigest(s.intent)>>) = "ok"

(* config.ts: "UPDATE_KEY delivers the master seed (once)", and wallet.ts: *)
(* "a user's vault is never orphaned".  An owner who has registered the    *)
(* wallet that CREATE revealed to them, and that the enclave signs with,   *)
(* does not lose it while the enclave runs.                                *)
RegisteredWalletStaysSigner ==
  [][\A o \in Owners :
       /\ accounts[o].exists /\ seed # NoSeed
       /\ accounts[o].managedWallet = WalletOf(seed, o)
       /\ <<o, accounts[o].managedWallet>> \in revealed
       /\ seed' # NoSeed /\ UNCHANGED accounts
       => accounts[o].managedWallet = WalletOf(seed', o)]_systemVars
=============================================================================
