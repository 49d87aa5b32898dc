------------------------------ MODULE ExtServer ------------------------------
(***************************************************************************)
(* The enclave's extension server: the HTTP server and its promise queue   *)
(* (base/server.ts), the node client behind UPDATE_KEY (base/node.ts), the *)
(* handlers with their awaits (app/handlers.ts) and the wallet cache       *)
(* (app/wallet.ts).  JavaScript runs a handler to its first await in one   *)
(* step, and from there to its end in another: a handler that awaits       *)
(* nothing is one action, UPDATE_KEY and a signed VAULT instruction are    *)
(* two.  Between the two anything else may happen that the queue allows.   *)
(*                                                                         *)
(* Requests are numbered in the order their bodies are complete, which is  *)
(* the order in which they join the queue.                                 *)
(***************************************************************************)
EXTENDS PolicyGuard, Sequences, FiniteSets, FiniteSetsExt

CONSTANTS
  Seeds, NoSeed, Policies, NoPolicy, Intents, Deposits, Malformed,
  BadKey,        \* a ciphertext that does not decrypt to 32 bytes
  NoWallet,
  Instructions,  \* the requests clients may send
  MaxRequests,   \* bound: requests per behaviour
  MaxStops       \* bound: times the process ends other than by VaultThrow

(* What a client may send, as far as the server gets to read it: a payload *)
(* is typed by the parser that accepts it.                                 *)
Instruction ==
  [op : {"UNROUTED", "UNDECODABLE", "STATE"}]
    \cup [op : {"UPDATE_KEY"}, key : Seeds \cup {BadKey}]
    \cup [op : {"CREATE"}, user : Wire]
    \cup [op : {"SET_POLICY"}, policy : Policies]
    \cup [op : {"CONFIRM_DEPOSIT"}, user : Wire, deposit : Deposits \cup {Malformed}]
    \cup [op : {"VAULT"}, user : Wire, intent : Intents \cup {Malformed}]

ASSUME ServerAssumption ==
  /\ MaxRequests \in Nat
  /\ MaxStops \in Nat
  /\ NoSeed \notin Seeds
  /\ BadKey \notin Seeds
  /\ NoWallet \notin Seeds \X Wire
  /\ Policies \subseteq Policy
  /\ NoPolicy \notin Policies
  /\ Intents \subseteq Intent
  /\ Deposits \subseteq Deposit
  /\ Malformed \notin Intents \cup Deposits
  /\ Instructions \subseteq Instruction

Requests == 1..MaxRequests

VARIABLES
  instr,    \* the requests received so far
  phase,    \* where each of them is
  outcome,  \* what each was answered
  queue,    \* requests chained on Server.queue that have not started
  active,   \* requests whose handler has started and not settled
  held,     \* locals a signing handler keeps across its await
  report,   \* the last /state answer
  stops,
  cache,    \* WalletManager.cache
  seed, users, policy, actionsSigned, actionsRefused,
  confirmedDrops, depositsConfirmed, revealed, issued  \* as in Enclave

httpVars == <<instr, phase, outcome, queue, active, held, report, stops>>
tenantVars == <<policy, actionsSigned, actionsRefused,
                confirmedDrops, depositsConfirmed>>
enclaveVars == <<cache, seed, users, tenantVars, revealed, issued>>
vars == <<httpVars, enclaveVars>>

Phases == {"idle", "queued", "decrypting", "signing", "answered", "gone"}
Outcomes == {"none", "unrouted", "error", "ok", "state", "confirmed",
             "refused", "signed"}

TypeOK ==
  /\ instr \in Seq(Instructions) /\ Len(instr) <= MaxRequests
  /\ phase \in [Requests -> Phases]
  /\ outcome \in [Requests -> Outcomes]
  /\ queue \in Seq(Requests)
  /\ active \subseteq Requests
  /\ \A r \in Requests : phase[r] = "signing" =>
       held[r] \in [signer : Seeds \X Wire, under : Policies]
  /\ stops \in 0..MaxStops
  /\ cache \in [Wire -> (Seeds \X Wire) \cup {NoWallet}]
  /\ seed \in Seeds \cup {NoSeed}
  /\ users \subseteq Wire
  /\ policy \in [Wire -> Policies \cup {NoPolicy}]

Zero == [w \in Wire |-> 0]
NoHold == [r \in Requests |-> NoWallet]
BlankReport == [hasSeed |-> FALSE, users |-> 0, signed |-> 0, refused |-> 0,
                deposits |-> 0]

Init ==
  /\ instr = <<>>
  /\ phase = [r \in Requests |-> "idle"]
  /\ outcome = [r \in Requests |-> "none"]
  /\ queue = <<>>
  /\ active = {}
  /\ held = NoHold
  /\ report = BlankReport
  /\ stops = 0
  /\ cache = [w \in Wire |-> NoWallet]
  /\ seed = NoSeed
  /\ users = {}
  /\ policy = [w \in Wire |-> NoPolicy]
  /\ actionsSigned = Zero
  /\ actionsRefused = Zero
  /\ confirmedDrops = Zero
  /\ depositsConfirmed = Zero
  /\ revealed = {}
  /\ issued = {}

-----------------------------------------------------------------------------
(* The queue.                                                              *)

(* A request whose body is complete: processAction answers what it cannot  *)
(* route (400, 404, 405, 501) at once and chains the rest.  Of an opType   *)
(* or opCommand that is no string see LookupThrows.                        *)
Receive(ins) ==
  LET r == Len(instr) + 1 IN
  /\ r \in Requests
  /\ instr' = Append(instr, ins)
  /\ IF ins.op = "UNROUTED"
     THEN /\ phase' = [phase EXCEPT ![r] = "answered"]
          /\ outcome' = [outcome EXCEPT ![r] = "unrouted"]
          /\ UNCHANGED queue
     ELSE /\ phase' = [phase EXCEPT ![r] = "queued"]
          /\ queue' = Append(queue, r)
          /\ UNCHANGED outcome
  /\ UNCHANGED <<active, held, report, stops, enclaveVars>>

(* A planted fault: the handler is called instead of chained.              *)
TurnUnchained(r) == queue # <<>> /\ Head(queue) = r

(* serialize(): a handler starts once everything before it has settled.    *)
Turn(r) == queue # <<>> /\ Head(queue) = r /\ active = {}

(* r's handler runs to its end in this step and its answer goes out.       *)
Answer(r, o) ==
  /\ Turn(r)
  /\ queue' = Tail(queue)
  /\ phase' = [phase EXCEPT ![r] = "answered"]
  /\ outcome' = [outcome EXCEPT ![r] = o]
  /\ UNCHANGED <<instr, active, held, stops>>

(* r's handler runs to its await.                                          *)
Suspend(r, ph) ==
  /\ Turn(r)
  /\ queue' = Tail(queue)
  /\ active' = active \cup {r}
  /\ phase' = [phase EXCEPT ![r] = ph]
  /\ UNCHANGED <<instr, outcome, report, stops>>

(* r's handler resumes and settles.                                        *)
Settle(r, ph, o) ==
  /\ phase[r] = ph
  /\ active' = active \ {r}
  /\ phase' = [phase EXCEPT ![r] = "answered"]
  /\ outcome' = [outcome EXCEPT ![r] = o]
  /\ UNCHANGED <<instr, queue, report, stops>>

(* The process exits: whatever is not answered is dropped with it, the     *)
(* enclave's memory is gone, and a new process listens.  The answers given *)
(* before are struck, as no counter of the new process refers to them.     *)
Exit ==
  /\ phase' = [r \in Requests |-> IF phase[r] = "idle" THEN "idle" ELSE "gone"]
  /\ outcome' = [r \in Requests |-> "none"]
  /\ queue' = <<>>
  /\ active' = {}
  /\ held' = NoHold
  /\ report' = BlankReport
  /\ cache' = [w \in Wire |-> NoWallet]
  /\ seed' = NoSeed
  /\ users' = {}
  /\ policy' = [w \in Wire |-> NoPolicy]
  /\ actionsSigned' = Zero
  /\ actionsRefused' = Zero
  /\ confirmedDrops' = Zero
  /\ depositsConfirmed' = Zero
  /\ UNCHANGED <<instr, revealed, issued>>

(* The container is stopped from outside.                                  *)
Stop == stops < MaxStops /\ stops' = stops + 1 /\ Exit

(* A request whose opType or opCommand is no string: normalize throws in   *)
(* lookup, outside any try, and nobody handles serve's rejection.          *)
LookupThrows == stops < MaxStops /\ stops' = stops + 1 /\ Exit

-----------------------------------------------------------------------------
(* WalletManager and the users Map.                                        *)

(* A planted fault: users.get(owner), as spelled.                          *)
TenantKeyAsSpelled(w) == w

TenantKey(w) == Lower[w]

Derive(w) == <<seed, Lower[w]>>

WalletFor(w) ==
  IF cache[Lower[w]] # NoWallet THEN cache[Lower[w]] ELSE Derive(w)

CacheWith(w) == [cache EXCEPT ![Lower[w]] = WalletFor(w)]

(* A planted fault: loadSeed without cache.clear().                        *)
CacheKept == cache

CacheAfterLoad == [w \in Wire |-> NoWallet]

(* A planted fault: a UserState made but not put in the Map.               *)
WithoutTenant(w) == users

WithTenant(w) == users \cup {TenantKey(w)}

(* A planted fault: `=` for `+=`, the Map's last tenant being the idlest.  *)
LastOf(f) ==
  IF users = {} THEN 0 ELSE f[CHOOSE w \in users : \A v \in users : f[w] <= f[v]]

(* The loop of reportState over users.values().                            *)
Sum(f) == MapThenSumSet(LAMBDA w : f[w], users)

-----------------------------------------------------------------------------
(* Handlers.                                                               *)

(* A payload that is not hex, empty (UPDATE_KEY) or not JSON, or names no  *)
(* valid user, or a policy that does not parse: an error before any state  *)
(* is touched.                                                             *)
RefuseUndecodable(r) ==
  /\ Answer(r, "error")
  /\ instr[r].op = "UNDECODABLE"
  /\ UNCHANGED <<report, enclaveVars>>

(* UPDATE_KEY to its await: the ciphertext is on its way to the node.      *)
UpdateKeyBegin(r) ==
  /\ Suspend(r, "decrypting")
  /\ instr[r].op = "UPDATE_KEY"
  /\ UNCHANGED <<held, enclaveVars>>

(* The node answers with 32 bytes: loadSeed.                               *)
UpdateKeyLoad(r) ==
  /\ Settle(r, "decrypting", "ok")
  /\ instr[r].key # BadKey
  /\ seed' = instr[r].key
  /\ cache' = CacheAfterLoad
  /\ UNCHANGED <<held, users, tenantVars, revealed, issued>>

(* A planted fault: what the node rejects goes back into the queue.        *)
UpdateKeyRequeued(r) ==
  /\ phase[r] = "decrypting" /\ instr[r].key = BadKey
  /\ active' = active \ {r}
  /\ phase' = [phase EXCEPT ![r] = "queued"]
  /\ queue' = Append(queue, r)
  /\ UNCHANGED <<instr, outcome, held, report, stops, enclaveVars>>

(* The node rejects, or what it decrypts is not 32 bytes long.             *)
UpdateKeyReject(r) ==
  /\ Settle(r, "decrypting", "error")
  /\ instr[r].key = BadKey
  /\ UNCHANGED <<held, enclaveVars>>

(* A planted fault: a fetch without the abort timer.                       *)
UpdateKeyUntimed(r) == FALSE

(* The node does not answer: fetch is aborted after its 30 s.              *)
UpdateKeyTimeout(r) ==
  /\ Settle(r, "decrypting", "error")
  /\ UNCHANGED <<held, enclaveVars>>

CreateWallet(r) ==
  /\ instr[r].op = "CREATE"
  /\ IF seed = NoSeed
     THEN Answer(r, "error") /\ UNCHANGED enclaveVars
     ELSE /\ Answer(r, "ok")
          /\ cache' = CacheWith(instr[r].user)
          /\ users' = WithTenant(instr[r].user)
          /\ revealed' = revealed \cup {<<TenantKey(instr[r].user), WalletFor(instr[r].user)>>}
          /\ UNCHANGED <<seed, tenantVars, issued>>
  /\ UNCHANGED report

SetPolicy(r) ==
  LET p == instr[r].policy IN
  /\ Answer(r, "ok")
  /\ instr[r].op = "SET_POLICY"
  /\ users' = WithTenant(p.owner)
  /\ policy' = [policy EXCEPT ![TenantKey(p.owner)] = p]
  /\ UNCHANGED <<report, cache, seed, actionsSigned, actionsRefused,
                 confirmedDrops, depositsConfirmed, revealed, issued>>

(* A planted fault: `=` for `+=`.                                          *)
CreditedAnew(u, d) == d.receivedAmount

Credited(u, d) == confirmedDrops[u] + d.receivedAmount

ConfirmDeposit(r) ==
  LET u == TenantKey(instr[r].user)
      d == instr[r].deposit
  IN
  /\ instr[r].op = "CONFIRM_DEPOSIT"
  /\ users' = WithTenant(instr[r].user)
  /\ IF policy[u] = NoPolicy \/ d = Malformed \/ DepositVerdict(d) # "OK"
     THEN Answer(r, "error") /\ UNCHANGED <<confirmedDrops, depositsConfirmed>>
     ELSE /\ Answer(r, "confirmed")
          /\ confirmedDrops' = [confirmedDrops EXCEPT ![u] = Credited(u, d)]
          /\ depositsConfirmed' = [depositsConfirmed EXCEPT ![u] = @ + 1]
  /\ UNCHANGED <<report, cache, seed, policy, actionsSigned, actionsRefused,
                 revealed, issued>>

(* GET /state goes through the same queue.                                 *)
ReportState(r) ==
  /\ Answer(r, "state")
  /\ instr[r].op = "STATE"
  /\ report' = [hasSeed |-> seed # NoSeed, users |-> Cardinality(users),
                signed |-> Sum(actionsSigned), refused |-> Sum(actionsRefused),
                deposits |-> Sum(depositsConfirmed)]
  /\ UNCHANGED enclaveVars

(* A VAULT instruction up to its signature: the error returns, ...         *)
VaultError(r) ==
  /\ Answer(r, "error")
  /\ instr[r].op = "VAULT"
  /\ \/ policy[TenantKey(instr[r].user)] = NoPolicy
     \/ seed = NoSeed
     \/ instr[r].intent = Malformed
  /\ users' = WithTenant(instr[r].user)
  /\ UNCHANGED <<report, cache, seed, tenantVars, revealed, issued>>

(* A planted fault: no test that there is a seed to derive from.           *)
JudgedUnseeded(r) ==
  /\ instr[r].op = "VAULT"
  /\ policy[TenantKey(instr[r].user)] # NoPolicy
  /\ instr[r].intent # Malformed

Judged(r) ==
  /\ instr[r].op = "VAULT"
  /\ policy[TenantKey(instr[r].user)] # NoPolicy
  /\ seed # NoSeed
  /\ instr[r].intent # Malformed

(* ... the guard's refusal, ...                                            *)
VaultRefuse(r) ==
  LET u == TenantKey(instr[r].user) IN
  /\ Answer(r, "refused")
  /\ Judged(r)
  /\ Verdict(policy[u], instr[r].intent) # "OK"
  /\ actionsRefused' = [actionsRefused EXCEPT ![u] = @ + 1]
  /\ UNCHANGED <<report, cache, seed, users, policy, actionsSigned,
                 confirmedDrops, depositsConfirmed, revealed, issued>>

(* ... a digest that cannot be encoded, thrown outside the handler's try:  *)
(* nothing catches the rejection, and Node ends the process, ...           *)
VaultThrow(r) ==
  /\ Turn(r)
  /\ Judged(r)
  /\ Verdict(policy[TenantKey(instr[r].user)], instr[r].intent) = "OK"
  /\ ~Encodable(instr[r].intent)
  /\ Exit
  /\ UNCHANGED stops

(* ... or the await of the signature, with the wallet in hand, ...         *)
VaultBegin(r) ==
  LET w == instr[r].user IN
  /\ Suspend(r, "signing")
  /\ Judged(r)
  /\ Verdict(policy[TenantKey(w)], instr[r].intent) = "OK"
  /\ Encodable(instr[r].intent)
  /\ held' = [held EXCEPT ![r] = [signer |-> WalletFor(w), under |-> policy[TenantKey(w)]]]
  /\ cache' = CacheWith(w)
  /\ UNCHANGED <<seed, users, tenantVars, revealed, issued>>

(* ... after which it is counted and leaves, ...                           *)
VaultEnd(r) ==
  LET u == TenantKey(instr[r].user) IN
  /\ Settle(r, "signing", "signed")
  /\ actionsSigned' = [actionsSigned EXCEPT ![u] = @ + 1]
  /\ issued' = issued \cup {[owner |-> u, signer |-> held[r].signer,
                             intent |-> instr[r].intent, under |-> held[r].under]}
  /\ held' = [held EXCEPT ![r] = NoWallet]
  /\ UNCHANGED <<cache, seed, users, policy, actionsRefused, confirmedDrops,
                 depositsConfirmed, revealed>>

(* ... or the signer fails and only an error does.                         *)
VaultSignFails(r) ==
  /\ Settle(r, "signing", "error")
  /\ held' = [held EXCEPT ![r] = NoWallet]
  /\ UNCHANGED enclaveVars

-----------------------------------------------------------------------------
(* What the server does by itself once r is in; the node's answer and the  *)
(* signer's failure are not its to give.                                   *)
Serve(r) ==
  \/ RefuseUndecodable(r)
  \/ UpdateKeyBegin(r) \/ UpdateKeyTimeout(r)
  \/ CreateWallet(r) \/ SetPolicy(r) \/ ConfirmDeposit(r) \/ ReportState(r)
  \/ VaultError(r) \/ VaultRefuse(r) \/ VaultThrow(r)
  \/ VaultBegin(r) \/ VaultEnd(r)

Next ==
  \/ \E ins \in Instructions : Receive(ins)
  \/ \E r \in DOMAIN instr :
       \/ RefuseUndecodable(r)
       \/ UpdateKeyBegin(r) \/ UpdateKeyLoad(r) \/ UpdateKeyReject(r) \/ UpdateKeyTimeout(r)
       \/ CreateWallet(r) \/ SetPolicy(r) \/ ConfirmDeposit(r) \/ ReportState(r)
       \/ VaultError(r) \/ VaultRefuse(r) \/ VaultThrow(r)
       \/ VaultBegin(r) \/ VaultEnd(r) \/ VaultSignFails(r)
  \/ Stop \/ LookupThrows

Spec == Init /\ [][Next]_vars

Fairness == \A r \in Requests : WF_vars(r \in DOMAIN instr /\ Serve(r))

FairSpec == Spec /\ Fairness

-----------------------------------------------------------------------------
(* The handlers, interleaved with everything the event loop may run at     *)
(* their awaits, do what Enclave's one-step handlers do.                   *)
E == INSTANCE Enclave

ImplementsEnclave == E!Spec

(* A cached wallet is the one the current seed derives for that owner: a   *)
(* wallet of an earlier seed never signs (wallet.ts: the same user         *)
(* resolves to the same wallet for the life of the seed).                  *)
CacheCoherent ==
  \A w \in Wire : cache[w] # NoWallet => seed # NoSeed /\ cache[w] = <<seed, w>>

(* A signature leaves under the policy that is in force when it leaves and *)
(* with the key of the seed in force: the verdict taken before the await   *)
(* still holds after it.                                                   *)
SignedUnderPolicyInForce ==
  [][\A r \in DOMAIN instr :
       outcome[r] # "signed" /\ outcome'[r] = "signed" =>
         LET u == Lower[instr[r].user] IN
         /\ policy[u] # NoPolicy
         /\ WithinPolicy(policy[u], instr[r].intent)
         /\ held[r].signer = <<seed, u>>]_vars

Answered(u, o) ==
  {r \in DOMAIN instr : outcome[r] = o /\ Lower[instr[r].user] = u}

(* Each owner's counters are the tally of the answers given since boot to  *)
(* requests under any spelling of the owner's address: nothing is counted  *)
(* twice, lost, or counted to another tenant, across refusals, awaits and  *)
(* exits.                                                                  *)
CountersTallyAnswers ==
  \A u \in Wire :
    Lower[u] = u =>
      /\ actionsSigned[u] = Cardinality(Answered(u, "signed"))
      /\ actionsRefused[u] = Cardinality(Answered(u, "refused"))
      /\ depositsConfirmed[u] = Cardinality(Answered(u, "confirmed"))

(* So are the drops of FXRP confirmed for an owner the sum of the payments *)
(* in the proofs whose confirmation was answered.                          *)
DropsTallyAnswers ==
  \A u \in Wire :
    Lower[u] = u =>
      confirmedDrops[u] = MapThenSumSet(LAMBDA r : instr[r].deposit.receivedAmount,
                                        Answered(u, "confirmed"))

(* What /state reports is what the clients of this process were answered   *)
(* so far: its sums run over every tenant that has a counter.              *)
ReportTalliesAnswers ==
  [][\A r \in DOMAIN instr :
       outcome[r] # "state" /\ outcome'[r] = "state" =>
         /\ report'.signed = Cardinality({q \in DOMAIN instr : outcome[q] = "signed"})
         /\ report'.refused = Cardinality({q \in DOMAIN instr : outcome[q] = "refused"})
         /\ report'.deposits = Cardinality({q \in DOMAIN instr : outcome[q] = "confirmed"})]_vars

Waiting == {"queued", "decrypting", "signing"}

(* serialize(): requests are served in the order in which they joined, one *)
(* at a time; no await lets a later one start, or be answered, before it.  *)
ServedInOrder ==
  \A q, r \in DOMAIN instr :
    q < r /\ phase[q] \in Waiting => phase[r] = "queued" \/ outcome[r] = "unrouted"

(* What the server still has to do until r is settled: begin and end each  *)
(* handler up to r's.                                                      *)
StepsTo(r) ==
  2 * Cardinality({q \in 1..r : phase[q] = "queued"})
    + Cardinality({q \in 1..r : phase[q] \in Waiting \ {"queued"}})

(* Whatever the server does brings every request that waits closer to its  *)
(* end; only the arrival of a new one does not, and it takes nothing away: *)
(* no retry, no handler and no client keeps others waiting for ever.       *)
EveryStepAdvances ==
  [][\A r \in DOMAIN instr :
       phase[r] \in Waiting =>
         \/ StepsTo(r)' < StepsTo(r)
         \/ StepsTo(r)' = StepsTo(r) /\ instr' # instr]_vars

(* Every request that joins the queue is answered, or dropped by an exit:  *)
(* no handler, node reply or missing reply stalls the ones behind it.      *)
EveryRequestSettles ==
  \A r \in Requests : phase[r] = "queued" ~> phase[r] \in {"answered", "gone"}

(* server.ts on serialize(): "The queue is advanced even when fn rejects,  *)
(* so one failing handler cannot wedge the server."  Requests behind a     *)
(* handler that rejects stay queued.                                       *)
FailureKeepsTheQueue ==
  [][\A r \in DOMAIN instr :
       VaultThrow(r) => \A q \in DOMAIN instr \ {r} :
                          phase[q] = "queued" => phase'[q] = "queued"]_vars

(* handlers.ts on confirmedDrops: "FXRP verified as deposited".  What an   *)
(* owner has confirmed is covered by the distinct payments proved for them,*)
(* also when a client sends a proof again.                                 *)
DropsWereDeposited ==
  \A u \in Wire :
    Lower[u] = u =>
      confirmedDrops[u] <= MapThenSumSet(LAMBDA d : d.receivedAmount,
                                         {instr[r].deposit : r \in Answered(u, "confirmed")})
=============================================================================
