# Mindorr in TLA+

Mindorr lets an agent manage a user's FXRP without being able to run away with
it: an extension of a Flare TEE (the *enclave*) holds one signing key per user and
signs an action only if the user's policy allows it, and a contract
(`MindorrVault`) releases FXRP only against such a signature. Around this trust
core stand a server through which clients reach the enclave, and the tools that
deploy contract and extension, register the TEE, verify the deployment and test
it end to end. This directory models all of these; TLC checks the models on small
instances, and TLAPS proves what matters most for every instance.

Source paths below are relative to the repository's `src/`; `ts/` stands for
`extension/typescript/src/`, `tools/` for `extension/tools/`.

## The system

| Component | State it keeps | Operations | Correct when |
|---|---|---|---|
| Guard and codec (`ts/app/policy.ts`, `codec.ts`) | none | `evaluateIntent`, `actionDigest`, parsers | allows exactly what the policy says, for any spelling of an address and any amount |
| FDC check (`ts/app/fdc.ts`) | none | `validatePaymentProof` | confirms only the expected payment |
| Managed wallets (`ts/app/wallet.ts`) | master seed, wallet cache | `loadSeed`, `walletFor` | a wallet is the current seed's, for its owner |
| Handlers (`ts/app/handlers.ts`) | map owner -> policy and counters | the seven instructions, `/state` | tenants are separate, counters tally answers, signatures are within policy |
| Server (`ts/base/server.ts`, `node.ts`) | promise queue, in-flight requests | receive, chain, answer; decrypt via the TEE node | handlers never overlap, every request settles |
| Vault (`extension/contracts/MindorrVault.sol`) | accounts, allowlists, used digests, tokens | register, setVenue, execute, preview | a signature releases once, where the owner allows |
| InstructionSender (contract) | extension id | `setExtensionId`, seven sends | bound once, to the extension meant |
| Live server (`tools/cmd/live-server`) | `sendMu`, one goroutine per request; the proxy's queue and results | deliver the seed, onboard, allocate, withdraw, poll | answers are for their own requests and reflect what the enclave did |
| Web app session (`app/src`) | session object that travels with the client | chat turns | display agrees with the enclave |
| Mint scripts (`app/mint`) | `reservation.json`, `payment.json` | reserve, pay, execute | a reservation is paid once and minted |
| Registration (`tools/pkg/fccutils`, `cmd/register-tee`) | `register-tee.state`, registry, FTDC proofs | steps r, R, a, p, resume | the file tells the truth; success means production |
| Deployment (`scripts/pre-build.sh`, `post-build.sh`, `full-setup.sh`, their tools) | `extension.env`, registry, InstructionSender | deploy, register, allow, write, start, version, governance, machine | what the file names works, re-runs included |
| Validation (`tools/pkg/validate`, `cmd/verify-deploy`) | a report | D, R, S, V, T, E checks | a clean report means what the next tools rely on |
| End-to-end test (`tools/cmd/run-test`) | none | four instructions, expectations | passes on a sound deployment |
| Go and Python samples | greeting counters | two commands | handlers serialized, as the contract document says |

How they interact: the app calls the live-server over HTTP, which posts to the TEE
proxy; the proxy queues actions for the TEE node, which posts each to the
extension server (`POST /action`) and keeps the answer for polling. The extension
calls the node back for `/decrypt`. Users, or anyone, carry signatures to the
vault; owners mirror their policy on-chain (`docs/DEPLOY.md`). Enclave and chain
share no state: a signature that has left stays valid whatever the enclave does.

What is hard here: two handlers await in the middle; the enclave forgets
everything at an exit while signatures and on-chain accounts survive; instructions
are retried by clients that time out first; addresses come in any case; the two
halves of the guard are written twice, in TypeScript and Solidity; one mutex and
many goroutines share a proxy that promises no order; and the operator's tools are
killed, time out on transactions that are mined later, and are run again over
files that an earlier run has left.

## Modules

| Module | Models | Kind |
|---|---|---|
| `PolicyGuard` | the pure part: verdicts, digest, deposit check, and `WithinPolicy`, a reference definition of what the guard is for | operators |
| `Enclave` | the trust core, one action per instruction: what the server promises | abstract specification |
| `ExtServer` | HTTP requests, promise queue, handlers split at their awaits, wallet cache, node client, exits | detailed specification, implements `Enclave` |
| `Vault` | the contract; a call that reverts is no step | specification |
| `MindorrSystem` | `Enclave` and `Vault` (by `INSTANCE`), with owners, relayers and funding | composition |
| `LiveServer` | the live-server's goroutines, seed delivery and polls, the proxy, and `Enclave` behind it with restarts of both | composition |
| `Registration` | register-tee over chain, TEE, FTDC proxy and state file | specification |
| `DeployChecks` | verify-deploy's checks as functions of what they look at | operators |
| `Deployment` | the setup scripts and tools, the registry, `setExtensionId`, verify-deploy's register step | specification, uses `DeployChecks` |
| `RunTest` | run-test in front of `Enclave` | composition |
| `PolicyGuard_proofs`, `Enclave_proofs`, `ExtServer_proofs` | theorems about the guard, the trust core, and the server that implements it | TLAPS |
| `Vault_proofs`, `MindorrSystem_proofs` | about the contract, and about enclave and contract together | TLAPS |
| `LiveServer_proofs`, `Registration_proofs`, `Deployment_proofs` | about the live-server, register-tee and the deployment | TLAPS |
| `MC...` | one small instance per specification above | TLC |

How state and actions correspond to the code:

* `seed`, `cache` are `WalletManager`'s fields; `users` is the domain of the
  handlers' `Map`, and `policy`, `actionsSigned`, ... the fields of its
  `UserState`s, as functions of the lower-case owner. An address is a spelling, and
  `Lower` maps it to its lower-case one; the models use `Lower` exactly where the
  code calls `toLowerCase`, or decodes hex to bytes.
* A managed key is the pair of seed and owner (keccak256 has no collisions), a
  digest the four encoded fields. `issued` and `revealed` are history: what the
  outside world has received, so that an exit does not erase them.
* JavaScript runs to the next `await` without interruption. A handler without one
  is one action; UPDATE_KEY is `UpdateKeyBegin` and one of `UpdateKeyLoad`,
  `UpdateKeyReject`, `UpdateKeyTimeout`; a signed VAULT instruction is
  `VaultBegin` and `VaultEnd` or `VaultSignFails`. A request whose payload parses
  only up to its `user` is `Malformed`; one that fails before is `UNDECODABLE`;
  one the server answers without a handler is `UNROUTED`.
* `Turn` is `serialize()`: a handler starts once all before it have settled.
* `Exit` is the end of the process: `VaultThrow` is the digest that cannot be
  encoded (see Findings), `LookupThrows` an opType or opCommand that is no string, on
  which `normalize` throws before the request joins anything, and `Stop` the container
  stopped from outside.
* In `Vault`, `Executable` holds all of `execute()`'s checks including the token's
  own balance check; `paid` and `signed` are history. `Recover` answers the signer
  for the digest it signed, a stranger for another digest, and the zero address for
  malformed bytes. `Sign` lets every key sign every action, so the vault is
  checked against any enclave; in `MindorrSystem`, `signed` is what `Enclave` issued and
  what others sign with keys of their own (`outside`).
* In `MindorrSystem`, `Register` is `registerAccount` as it is: any owner registers any
  key, a wallet of the enclave's, revealed or not and his own or not, or a key the enclave
  never had. `Relay` carries any signature there is to any account.
* In `LiveServer`, `thread[r]` is where request r's goroutine is: `Arrive` is the
  handler up to the payload, `Lock`, `Posted` and `PostFails` are the part under
  `sendMu`, `PollAgain`, `PollExpires`, `PollBreaks` and `PollSucceeds` the loop
  after it. Of the proxy only `queued` and `results` are kept, and the enclave takes
  queued actions in any order. The calls' fields stand for the JSON bodies after
  `IntentOf` and `PolicyOf` have done what the handlers' builders and the enclave's
  parsers do together. `main`, `launch` and `sealedTo` are the start of the server:
  the seed is sealed to the public key of the boot that `/info` answered for, and
  decrypts in no other.
* In `Registration`, a transaction is its position in `txs` (nonce order) and stands
  for the instruction id it causes. `run` holds the locals of `RegisterNode`; `Launch`
  is `main` up to `loadState`; each step is a `Send` (with gas estimated first), a
  wait that ends mined, reverted or timed out, and a `Save` that may fail or tear the
  file. `Abort` is the end of the process anywhere. The registry's and the providers'
  rules (`Accepted`, `Prove`) are as the tool's comments and documents rely on them.
* In `Deployment`, `Steps(tool)` is the order of a tool's steps, `run` the tool that
  is running, `pending` the mempool in nonce order. Whether the registry refuses a
  second extension of a sender is not decided in the repository (`docs/testing.md`
  and `fccutils/extension.go` differ), so `strict` is chosen at the start and both are
  checked. `settled` and `setup` are history: pairs that a clean report stood for, and
  what `full-setup.sh` completed for.
* In `RunTest`, `at` is the place in the list of four instructions; an instruction may
  be taken by the enclave after the tool has given up on it.

Definitions that a comment calls a planted fault are mutated forms of the
definition after them. No specification uses them; they show that each property
can fail.

## Runs

All runs pass with deadlock unchecked where the instance is bounded (after the last
request the server rightly idles; after the last signature nothing is left to
relay); the vault's run checks deadlock.

* **server_safety** (`ExtServer.cfg`, 1.3 million states). Five requests drawn from
  ten: two seeds, CREATE for two owners, a policy and its replacement under
  another spelling, a deposit, an allocation under two spellings, `/state`. Five
  suffice for the longest interesting chain, seed, policy, allocation, second
  seed or policy, `/state`, in every order of arrival. Shows that the server implements
  `Enclave` step by step, that a cached wallet is the current seed's
  (`CacheCoherent`), that the verdict taken before the await still holds when the
  signature leaves (`SignedUnderPolicyInForce`), and that counters, confirmed drops and
  `/state` agree with what clients were answered (`CountersTallyAnswers`,
  `DropsTallyAnswers`, `ReportTalliesAnswers`).
* **server_liveness** (`ExtServerLive.cfg`). Three requests of every kind and
  failure, one stop of the container or throwing lookup. Every request that joins the queue is answered or
  dropped by an exit. Fairness is weak fairness of what the server does by itself
  for each request: the event loop runs a ready handler, a signature by a local
  key completes, and the node client's abort timer fires. The node's answer
  and requests themselves get none, and the timeout is always possible while a
  decryption is pending, so nothing depends on the node. The run also checks what the
  liveness rests on: the promise queue is served in the order of arrival
  (`ServedInOrder`), and each step of the server brings every waiting request closer to
  its end (`EveryStepAdvances`, by the number of handlers that are still to begin and to
  end up to that request's).
* **vault** (`Vault.cfg`). Two owners, two keys, two assets, four actions of which
  one (a withdrawal to a venue) must always be refused. `NoDigestPaidTwice`, `EveryReleaseAuthorised`,
  `PreviewPredictsExecute`. Balances up to two units: enough for an
  action to be unaffordable and then affordable. Owners and keys are symmetric.
* **system** (`MindorrSystem.cfg`, 208 thousand states). Two owners, two seeds (symmetric),
  a policy for each owner, one venue, an allocation at the cap's boundary and a withdrawal,
  one key outside the enclave; one wallet revealed, one account on-chain at a time in
  either owner's name, one signature of the enclave and one from outside; any number of
  restarts, re-registrations and allowlist changes. One signature of each kind suffices as
  every property speaks of one, and one account as every release is against one; that it
  may hold another owner's wallet, one never revealed, or the outside key is what the run
  is about. How several signatures and accounts meet at the contract (replay, funds) is the
  vault run's subject, where all keys sign everything, and an owner's several policies the
  server runs'; the theorems have no such bounds. `ReleasesWithinPolicy` is the end-to-end
  promise: against an account with a wallet of the enclave only what the enclave signed
  within a policy is released, and, if the wallet is the one revealed to the account's
  owner, within that owner's;
  `MirroredSignaturesVerify` says that TypeScript and Solidity halves agree;
  `ImplementsVault` that the contract takes only steps of `Vault` here.
* **live_server** (`LiveServer.cfg`, 837 thousand states). Two requests out of ten
  (onboarding with a good and a mistyped risk level, allocations and withdrawals in
  and out of policy, a user in two spellings, an invalid request), two polls, two
  boots of the enclave, two starts of the server. Two requests are enough for every
  pair of goroutines: onboarding before, during and after an action, two actions of one
  user or of two. `LiveSignaturesStayHome` bounds what clients can reach, `AnswersAreOwn`
  says that results are not mixed up (that the wallet `/onboard` computes locally is the one
  that signs it says too, but as no second seed is delivered here, nothing could make it
  otherwise), `OnboardedIsServed` that "onboarded" can be relied on until the
  enclave restarts, `EveryRequestAnswered` that every request ends, and
  `EveryHandlerAdvances` that no goroutine ever goes back or polls more often than it
  counts, whatever the others do.
* **registration** (`Registration.cfg`, 854 thousand states). Two runs over three step
  sets, two TEE identities, two epochs, six transactions: a fresh run that breaks off
  anywhere, and a second one that resumes, starts afresh, or is given an instruction
  id, with the first one's transactions still to be mined. `FileTellsTruth` and
  `SuccessPromotes` are the crash recovery, `GateSparesTransactions` the pre-flight,
  `EveryRunEnds` liveness (for calls that return, see below), with
  `EveryStepShortensTheRun`: no part of a run is gone through twice.
* **deployment** (`Deployment.cfg`, 2.3 million states). Three things that the
  operator does, out of all tools, with two deployments and three registrations and
  two governances: two setups and a verification, a setup, a further
  registration and a binding, and so on, every tool breaking off anywhere.
  `EnvNamesWorkingExtension`, `SetupIsServed`, and what a report of verify-deploy is
  worth: `CleanReportIsSound`, `CleanReportBinds`.
* **server_failure**, **deposit_retry**, **wallet_orphan**, **registration_resume** and
  **run_test** are expected to find a counterexample; see below.

Bounds, all named constants in guards: `MaxRequests`, `MaxStops` (`ExtServer`),
`MaxBalance` (`Vault`), `MaxCalls`, `MaxIssued`, `MaxRevealed`, `MaxAccounts`, `MaxOutside`
(`MindorrSystem`), `MaxRequests`,
`MaxPolls`, `MaxBoots`, `MaxLaunches` (`LiveServer`), `Repeats`, `MaxTees`, `MaxEpoch`,
`MaxTxs`, `MaxRuns` (`Registration`), `MaxSenders`, `MaxExts`, `MaxRuns` (`Deployment`),
`MaxRuns`, `MaxBoots` (`RunTest`). `MaxPolls` and `Repeats` are the code's own attempt
counts, made small: a loop of two attempts has a first, a last and an early success.

Fairness. `ExtServer` is described above. `LiveServer`: a goroutine that can go on does
(`Handle`): the Go scheduler runs it, a free mutex is handed on, and an attempt of the
poll loop ends because its HTTP client has a deadline. The POST is not given any: it has
no timeout, and `EveryRequestAnswered` says so in its premise. Nothing is owed by enclave
or proxy. `Registration`: weak fairness of what the tool does between its calls, its
two-minute deadline included (`~Calling /\ Proceed`). Calls get none: `http.Get` for
`/info` and for action results (`tee_calls.go:25,93`) has no timeout, and the RPC calls run on
`context.Background()`, so that a proxy or node that keeps silent holds the run up. That
they return or break is the premise `CallsReturn` of `EveryRunEnds`, without which TLC
finds a run that hangs. Nothing is owed by the chain, the TEE or the data providers: a
transaction that is never mined, a proof never cosigned and any error answer are within
the property. `Deployment`, `Vault`, `MindorrSystem` and `RunTest` have safety only.

## Findings

1. *server_failure.* `serialize()` says one failing handler cannot wedge the server.
   The queue does advance, but nobody handles the rejection: it reaches
   `void this.serve(req, res)` and Node ends the process. `actionDigest` is computed outside
   `handleVaultAction`'s `try` and throws for an allowed amount above 2^256-1.
2. *deposit_retry.* `confirmedDrops` is documented as FXRP verified as deposited. A
   repeated CONFIRM_DEPOSIT counts the same payment again.
3. *wallet_orphan.* The master seed is documented as delivered once. A second seed is
   accepted and replaces the signer under accounts registered on-chain.
4. *registration_resume.* The state file names no TEE. When the TEE has restarted with
   another key, a resumed run promotes the earlier identity and reports the new one,
   which was never registered, as registered.
5. *run_test.* run-test confirms the delivered key by a `walletAddress` in the answer
   to UPDATE_KEY; the enclave answers `{ ok: true }` only. The end-to-end test cannot get
   past its second step, although the key was loaded.

Met while reading, and part of the models without a run of their own:

* `http.Post` in the live-server (`main.go:110`) has no timeout and is called with
  `sendMu` held: one proxy connection that never answers stops every later request.
* SET_POLICY needs no seed: after an enclave restart onboarding still answers ok, and
  then every action is refused until the live-server is started again. This is why
  `OnboardedIsServed` speaks of one boot.
* `registerAccount` takes any non-zero wallet from any sender, so that the "registered
  in-enclave managed wallet" of the contract's notice (lines 10-16) is the owner's word.
  An owner may register another's wallet, and then a signature made for the other is
  released against his account too; or a key of his own, and then what bounds a release
  is the contract alone (`EveryReleaseAuthorised`). The funds are one pool. Hence the two
  clauses of `ReleasesWithinPolicy`.
* `normalizeRisk` matches the trimmed spelling and returns the untrimmed one, which
  the enclave refuses.
* R7 passes over an extension id whose lookup fails, and then reports the sender as
  unique. `CleanReportBinds` is about reports without such a lookup. A malformed
  INSTRUCTION_SENDER leaves R2 and R7 out of the register step's report altogether.
* A file that is missing is a FAIL of S2 and a SKIP of D7, R, V4 and E1; `--checks`
  drops results before the exit code is computed; S10 passes for any LOCAL_MODE other than
  `false`.
* D6 fails when the chain does not answer for its id, and a lookup of code or balance that
  is not answered fails as one that finds none.
* `http.Get` in register-tee's polls and `/info` has no timeout, as the live-server's
  `http.Post` has none.
* `docs/testing.md:82` says that SetupExtension run twice returns the same id; the code
  registers a new extension each time.
* `SetExtensionId` and the byte sends of run-test wait for their transaction without a
  deadline.
* A challenge in the state file that has expired or been used makes every `--resume`
  fail at the same step, until the operator starts afresh. So does a torn file.
* post-build's tools work on the extension id that the proxy reports, not on the one in
  `extension.env`.

## Proofs

The assumptions are on the constants only. TLC evaluates each on its runs.

| Assumption | Says | Why the code justifies it |
|---|---|---|
| `GuardAssumption` | lower-casing is idempotent, `Absent` is no number | `toLowerCase` |
| `EnclaveAssumption`, `ServerAssumption` | policies, intents, deposits and requests are of the parsers' types; the sentinels are none of the values; bounds are numbers | a request that does not parse is `Malformed` or `UNDECODABLE` |
| `VaultAssumption` | an action is a tuple of a kind, an asset, a number and a destination; nobody's key is the zero address | the ABI's types; `ecrecover` answers zero for no signature |
| `SystemAssumption` | owners, venues, homes and assets of the chain are addresses in one spelling; keys outside the enclave are none of its wallets | an address in calldata has no case; derived keys never leave the enclave |
| `LiveAssumption` | what onboarding and actions parse to is among the core's policies and intents; a withdrawal has a destination; at least one poll and one boot | the handlers' builders; `pollResult` |
| `RegistrationAssumption` | bounds are numbers, there is a TEE and an epoch, commands are sets of steps | `--command` is read as the letters it contains |
| `DeploymentAssumption` | bounds are numbers, governances are not 0, what cannot be read is no number | 0 stands for "not set" |

Guard and trust core.

* `GuardIsExact`: `Verdict(p, i) = "OK" <=> WithinPolicy(p, i)`. By cases on the
  kind; the only arithmetic is that the truncated cap is as strict as the exact
  share (`RoundedCap`).
* `SignaturesWithinPolicy`, `TenantsOwnTheirSlots`, `EnclaveTyped`: invariants of
  `Enclave`. `IssuedWithinPolicy` alone is not inductive: signing reads the tenant's
  slot, so slots must be known to hold their owners' policies. `IInv` joins the
  two with the types; the step for `SignAction` uses `GuardIsExact`.

The server (`ExtServer_proofs`). Its `IInv` is about the promise queue and the awaits.

* `QueueInv` is what `serialize()` maintains: every request that has not started is in
  the queue once, and at most one handler is suspended. `AwaitInv` says what a handler
  established before its await and relies on after it (`Promised`): the policy, the seed and
  the verdict. It is inductive only because of `QueueInv`, for a second handler
  could replace the policy meanwhile.
* `ServerTyped`, `CacheIsCoherent` and `SignaturesUnderPolicyInForce` follow, and
  `CountersAreTallies`, by adding an answer to a finite set of answers at each step.
* `DropsAreTallies`: a tenant's confirmed drops are the sum of what was answered to
  CONFIRM_DEPOSIT, for any number of deposits. The sum is a fold over a finite set
  (`Total`); `TotalRecursion` and `TotalWithout` say what one element adds to it. The
  library's induction over finite sets takes a predicate as a parameter, which the
  provers cannot instantiate; `SubsetInduction` takes the *set* of the subsets for which
  a fact holds, and follows from the least element of the strict-subset ordering.
* `ReportsAreTallies`: `/state` sums the counters of the users it lists. This equals the
  number of answers only because everyone who was ever answered is listed
  (`CensusInv`), and because the users' answers are disjoint sets.
* `RequestsServedInOrder`, from `OrderInv`: the queue is ascending and holds every request
  that has not begun. `EveryStepCounts` uses it: who is at the head of the queue stands
  before every other that waits, so that its beginning or end counts for all.
* `ServerImplementsEnclave`: each step of the server is one of `Enclave`'s or leaves the
  core alone; a handler split at its await takes effect at its end.
  `ServerSignsWithinPolicy` and `ServerTenantsOwnTheirSlots` carry `Enclave`'s theorems
  over, through an instance of `Enclave_proofs` whose assumptions are shown to hold.

The contract, and the system.

* `ReplayGuard`, `ReleasesAuthorised`, `VaultTyped`: invariants and an action
  property of `Vault`. `NoDigestPaidTwice` needs that what is not marked was never
  paid (`UnmarkedUnpaid`). `RecoveredWalletSigned` is the lemma that a registered
  wallet is recovered only from its own signature of that very digest.
* `PreviewIsFaithful`: `previewExecute` predicts `execute` in every reachable state.
* `SystemReleasesWithinPolicy` is the end-to-end promise, for any number of signatures,
  restarts and second seeds, whoever registers which wallet and signs with what other
  keys. The strengthening is `OwnWallets`: CREATE reveals to an owner that owner's wallet
  only, and what is signed outside is signed with the other keys. A wallet of the enclave
  recovered on-chain is then one that the enclave signed with (`ReleasedByEnclave`), for
  this very call, and `IssuedWithinPolicy` does the rest. Nothing is assumed of what is
  registered.
  `GuardAndVaultAgree` is the other direction: what the enclave signs under a
  policy that is mirrored on-chain passes the contract's checks.
* `SystemImplementsEnclave` and `SystemImplementsVault`: the composition's steps are steps
  of both parts; `SystemSignsWithinPolicy`, `SystemTenantsOwnTheirSlots` and
  `SystemPaysOnce` carry their theorems over. What an enclave issues becomes `Vault`'s
  `signed`: `EnclaveStepSigns` shows that a new signature is one that `Vault`'s `Sign` allows.

The live-server.

* `LiveImplementsEnclave`: the live-server's composition implements `Enclave`. Each of
  its steps is a step of the core for a call that some client made (`CoreStep`), or leaves
  the core alone; the invariant needed is that what the proxy holds was asked for
  (`Asks`).
* `ClientsSignaturesStayHome`: `LiveSignaturesStayHome` follows from the former and from
  `OnlyOnboarded`: policies enter the core by `/onboard` alone, so that every signature
  was made under a policy that `/onboard` builds.
* `ClientsGetTheirOwn`, `OnboardingHolds`, `LiveTyped`, from `HistoryInv`. An
  action is taken once (`TakenOnce`), a result in the proxy is what the enclave did for that
  request (`ResultsAreOwn`), an answer is such a result (`AnswersAreResults`), and what a
  boot has accepted is in force until it ends (`InForce`, `EarlierDone`), so that an
  onboarded user is served (`Served`).
* `HandlersAdvance`: a goroutine has at most `MaxPolls` + 3 steps (`WorkLeft`), and no step
  of anyone adds to them.

The tools.

* `StateFileTellsTruth`, `ReportedIsPromoted`: for any number of runs, TEEs, epochs and
  transactions. The strengthening `RegInv` says in addition what a run claims in memory
  (`Claims`), which transaction it waits for (`Waiting`), and that a run begun without a
  file makes its own availability check (`OwnCheck`). Its steps rest on `ChainGrows`:
  claims are about mined transactions, and those never change.
* `RegistrationTyped`, `PreflightHolds`: from `BoundInv`, that the bound on
  transactions is never in a tool's way (`Room` counts the steps that are ahead), and what
  a run has read of the epoch and the policy (`Reached`).
* `RunsShorten`: whatever a run does lowers `StepsLeft`, which is at most `Repeats` + 13,
  and nothing that happens to the chain, the TEE or the epoch raises it.
* `DeploymentTyped`, `EnvIsWorking`, `CleanReportsBind`, `CleanReportsAreSound`,
  `SetupHolds`, for any number of deployments, registrations and tools run.
  `DeploymentInv` has a part about the chain, the file and the machine, whoever is at work
  (`WorldInv`), and one about how far the running tool has come (`RunInv`). The
  argument has three legs. The chain only grows (`Grows`): what a step or a lookup has
  found is still so later. A tool that waits has sent the last transaction
  (`Waiting`), so that the receipt it reads is its own, whatever earlier tools left
  pending (`OthersMined`, `OwnMined`). And a setup's contract is nobody else's until the
  setup has registered it (`Unregistered`): contracts are new, and only one with code is
  registered, so that the setup's extension is the first of its sender (`Secured`), the one
  that `setExtensionId` finds. `Verified` is the same for verify-deploy: what the
  results so far stand for, below the counter that was read first.
* `StepsFailExactly`: why verify-deploy exits with an error, for every step and in every
  state that is reached: the pre-flight, the chain's id, what the step reads of the file,
  or what the register step found. The latter's lookups may fail at any time, so that for
  them it says when they can count at all (with `--config` and something in the file) and
  when they must (an id that is malformed). It shows which checks decide an exit code and
  which never do: the tee-machine step has none that fails. That the register step's
  results are nobody else's, and that it goes no further than the file allows, is kept in
  `Verified`.

Only model-checked:

* liveness (`EveryRequestSettles`, `EveryRequestAnswered`, `EveryRunEnds`): fairness and
  `ENABLED` are beyond the prover. The half of each argument that does not need them is
  proved: `EveryStepCounts`, `HandlersAdvance` and `RunsShorten` say that only so many
  steps can be ahead. What remains with TLC is that the next one is taken;
* the runs that end in a counterexample, and with them `RunTest`.

## Plan

Done: `PolicyGuard`, `Enclave`, `ExtServer`, `Vault`, `MindorrSystem`, `LiveServer`,
`Registration`, `DeployChecks` with `Deployment`, `RunTest`; then the proofs above, one
module per specification. Every safety property and every action property that a passing
run checks is a theorem. Next:

1. Split long leaves and share the lemmas on sequences that `ExtServer_proofs` and
   `Deployment_proofs` both need.
2. For `LiveServer`, a variant of all goroutines together that goes with `sendMu`: a bound
   on how long one can wait for the mutex when every POST returns.
3. The start-up tools (`start-tee`, `audit-deploy`), if they come to change state that the
   registration relies on.

## Not modelled

* Wire formats, hex and JSON decoding beyond their outcome, logs and messages;
  `riskLevel`, which the guard only validates and echoes; gas, events and ERC-20
  internals; key derivation failing (probability 2^-128); attestation and TLS.
* The web app's session: a client of the live-server that keeps no state of its own on
  the server; `LiveServer` takes any request. React rendering and the parsing of chat
  messages into requests.
* The guard mirror of the app (`app/src/lib/guard.ts`): no action depends on it.
* The mint scripts: one-off scripts over the XRP ledger and the FAssets asset manager,
  whose rules are not in the repository; funding is a step of `MindorrSystem`. Their
  hazards (a crash between payment and `payment.json`, two reservations over one file,
  a re-run after a timed-out proof) are listed without a property.
* The Go and Python samples: the scaffold's greeting demo, which no deployment of Mindorr
  runs.
* `audit-deploy`, `query-tee`, `start-proxy` and the service scripts, which print what they
  read or start one process. Containers come up in `StartServices` as a whole.
* Two operators, or two tools, at the same time. In particular nobody else registers the
  sender that a setup has just deployed before the setup does, which `SetupIsServed`
  depends on; the choice of a random machine by the
  InstructionSender, since a deployment registers one.
* The context of an intent (`portfolioValue`, `venueBalance`, `projectedHealthFactorBps`) and
  `userAuthorized` are payload fields, as in the code, where comments describe them as
  supplied by on-chain reads and an owner's signature.
