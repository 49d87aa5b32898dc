------------------------- MODULE LiveServer_proofs -------------------------
(***************************************************************************)
(* For every set of calls and every bound: behind the live-server, its     *)
(* goroutines, its proxy and all restarts, the trust core takes only steps *)
(* of Enclave, so that what is proved there holds here; and no client of   *)
(* the server obtains a signature that moves FXRP elsewhere than to the    *)
(* onboarding venue or home.                                               *)
(* Clients get their own results, what was onboarded is served, and no     *)
(* goroutine goes back.                                                    *)
(***************************************************************************)
EXTENDS LiveServer, Enclave_proofs, FiniteSetTheorems

(* What the trust core does behind the server, whoever waits for it.       *)
CoreStep ==
  \/ UpdateKey(MasterSeed)
  \/ \E c \in Calls :
       c.route = "onboard" /\ PolicyParses(c) /\ SetPolicy(PolicyOf(c))
  \/ \E c \in Calls :
       /\ c.route \in {"allocate", "withdraw"}
       /\ \/ ~Judged(c.user, IntentOf(c)) /\ Materialise(c.user)
          \/ RefuseAction(c.user, IntentOf(c))
          \/ SignAction(c.user, IntentOf(c))
  \/ Restart

(* An action that the proxy holds is one that a client asked for.          *)
Asks ==
  /\ launch \in Nat
  /\ asked \in [Requests -> Calls \cup {NoCall}]
  /\ thread \in [Requests -> Threads]
  /\ \A r \in Requests : thread[r] # "none" \/ r \in queued => asked[r] # NoCall

(* Every policy in force, or under which a signature was made, is one that *)
(* /onboard builds.                                                        *)
Onboarding(p) ==
  /\ p.asset = Fxrp
  /\ p.allowedVenues = {DefaultVenue}
  /\ p.maxTxAmount = TxCap
  /\ p.maxVenueBps = 10000
  /\ p.returnAddress = p.owner

OnlyOnboarded ==
  /\ \A w \in Wire : policy[w] # NoPolicy => Onboarding(policy[w])
  /\ \A s \in issued : Onboarding(s.under)

LiveInv == IInv /\ Asks /\ OnlyOnboarded

-----------------------------------------------------------------------------
(* Requests and deliveries of the seed have different numbers.             *)
LEMMA RequestsArePositive ==
  ASSUME NEW r \in Requests, NEW n \in Nat
  PROVE  r # -n
BY LiveAssumption DEF Requests

(* What the core does behind the server is a step of Enclave.              *)
LEMMA CoreIsEnclave == CoreStep => Next
<1>1. ASSUME NEW c \in Calls, c.route = "onboard", PolicyParses(c), SetPolicy(PolicyOf(c))
      PROVE  Next
  BY <1>1, LiveAssumption DEF Next, Step
<1>2. ASSUME NEW c \in Calls, c.route \in {"allocate", "withdraw"},
             \/ ~Judged(c.user, IntentOf(c)) /\ Materialise(c.user)
             \/ RefuseAction(c.user, IntentOf(c))
             \/ SignAction(c.user, IntentOf(c))
      PROVE  Next
  <2>1. c.user \in Wire
    BY LiveAssumption DEF Call
  <2>2. IntentOf(c) \in Intents \cup {Malformed}
    BY <1>2, LiveAssumption DEF IntentOf
  <2> QED BY <1>2, <2>1, <2>2 DEF Next, Step
<1>3. UpdateKey(MasterSeed) => Next
  BY LiveAssumption DEF Next, Step
<1>4. Restart => Next
  BY DEF Next, Step
<1> QED BY <1>1, <1>2, <1>3, <1>4 DEF CoreStep

(* Every step of the composition is one of the core's, or leaves it alone. *)
LEMMA LiveSteps ==
  ASSUME Asks, [LiveNext]_liveVars
  PROVE  CoreStep \/ UNCHANGED vars
<1>1. ASSUME NEW r \in Requests, TakePolicy(r)
      PROVE  CoreStep \/ UNCHANGED vars
  <2>1. asked[r] \in Calls
    BY <1>1 DEF TakePolicy, Asks
  <2> QED BY <1>1, <2>1 DEF TakePolicy, CoreStep
<1>2. ASSUME NEW r \in Requests, TakeAction(r)
      PROVE  CoreStep \/ UNCHANGED vars
  <2>1. asked[r] \in Calls
    BY <1>2 DEF TakeAction, Asks
  <2> QED BY <1>2, <2>1 DEF TakeAction, CoreStep
<1>3. ASSUME NEW a \in SeedActions, TakeSeed(a)
      PROVE  CoreStep \/ UNCHANGED vars
  BY <1>3 DEF TakeSeed, CoreStep
<1>4. ASSUME NEW lost \in SUBSET queued, Reboot(lost)
      PROVE  CoreStep \/ UNCHANGED vars
  BY <1>4 DEF Reboot, CoreStep
<1>5. CASE Launch \/ Stop \/ SendSeed \/ AwaitSeed \/ SeedFails
  BY <1>5 DEF Launch, Stop, SendSeed, AwaitSeed, SeedFails, Die
<1>6. ASSUME NEW r \in Requests, NEW c \in Calls, Arrive(r, c)
      PROVE  CoreStep \/ UNCHANGED vars
  BY <1>6 DEF Arrive
<1>7. ASSUME NEW r \in Requests,
             \/ Lock(r) \/ Posted(r) \/ PostFails(r)
             \/ PollAgain(r) \/ PollExpires(r) \/ PollBreaks(r) \/ PollSucceeds(r)
      PROVE  CoreStep \/ UNCHANGED vars
  BY <1>7 DEF Lock, Posted, PostFails, PollAgain, PollExpires, PollBreaks, PollSucceeds, rest
<1>8. CASE UNCHANGED liveVars
  BY <1>8 DEF liveVars
<1> QED BY <1>1, <1>2, <1>3, <1>4, <1>5, <1>6, <1>7, <1>8 DEF LiveNext

(* Nothing is queued that nobody asked for, after every step.              *)
LEMMA NextAsks ==
  ASSUME Asks, [LiveNext]_liveVars
  PROVE  Asks'
<1> USE DEF Asks
<1>1. CASE Launch
  BY <1>1 DEF Launch, proxyVars
<1>2. CASE Die /\ UNCHANGED proxyVars
  BY <1>2 DEF Die, proxyVars, Threads
<1>3. CASE SendSeed
  <2>1. CASE queued' = queued \cup {SeedAction} /\ UNCHANGED <<launch, asked, thread>>
    BY <2>1, RequestsArePositive DEF SeedAction
  <2>2. CASE Die /\ queued' \in {queued, queued \cup {SeedAction}}
    BY <2>2, RequestsArePositive DEF Die, SeedAction, Threads
  <2> QED BY <1>3, <2>1, <2>2 DEF SendSeed
<1>4. CASE AwaitSeed
  BY <1>4 DEF AwaitSeed, proxyVars
<1>5. ASSUME NEW r \in Requests, NEW c \in Calls, Arrive(r, c)
      PROVE  Asks'
  <2>1. c # NoCall
    BY LiveAssumption
  <2>2. /\ asked' = [asked EXCEPT ![r] = c]
        /\ \/ thread' = [thread EXCEPT ![r] = "answered"]
           \/ thread' = [thread EXCEPT ![r] = "locking"]
        /\ UNCHANGED <<launch, queued>>
    BY <1>5 DEF Arrive, AnswerWith, proxyVars
  <2> QED BY <2>1, <2>2 DEF Threads
<1>6. ASSUME NEW r \in Requests, thread[r] \in {"locking", "posting", "polling"},
             NEW t \in Threads \ {"none"}, thread' = [thread EXCEPT ![r] = t],
             queued' \in {queued, queued \cup {r}}, UNCHANGED <<launch, asked>>
      PROVE  Asks'
  BY <1>6 DEF Threads
<1>7. ASSUME NEW r \in Requests,
             \/ Lock(r) \/ Posted(r) \/ PostFails(r)
             \/ PollExpires(r) \/ PollBreaks(r) \/ PollSucceeds(r)
      PROVE  Asks'
  <2>1. /\ thread[r] \in {"locking", "posting", "polling"}
        /\ UNCHANGED <<launch, asked>>
        /\ queued' \in {queued, queued \cup {r}}
        /\ \E t \in {"posting", "polling", "answered"} : thread' = [thread EXCEPT ![r] = t]
    BY <1>7 DEF Lock, Posted, PostFails, PollExpires, PollBreaks, PollSucceeds,
                AnswerWith, rest, proxyVars
  <2> QED BY <1>6, <2>1 DEF Threads
<1>8. ASSUME NEW r \in Requests, PollAgain(r)
      PROVE  Asks'
  BY <1>8 DEF PollAgain, rest, proxyVars
<1>9. ASSUME queued' \subseteq queued, UNCHANGED serverVars
      PROVE  Asks'
  BY <1>9 DEF serverVars
<1>10. CASE \/ \E a \in SeedActions : TakeSeed(a)
            \/ \E r \in Requests : TakePolicy(r) \/ TakeAction(r)
            \/ \E lost \in SUBSET queued : Reboot(lost)
  BY <1>9, <1>10 DEF TakeSeed, TakePolicy, TakeAction, Reboot, Store
<1>11. CASE UNCHANGED liveVars
  BY <1>9, <1>11 DEF liveVars, proxyVars
<1> QED BY <1>1, <1>2, <1>3, <1>4, <1>5, <1>7, <1>8, <1>10, <1>11
    DEF LiveNext, Stop, SeedFails

(* Policies enter by /onboard alone, and signatures are made under those   *)
(* in force.                                                               *)
LEMMA NextOnboarded ==
  ASSUME TypeOK, OnlyOnboarded, CoreStep \/ UNCHANGED vars
  PROVE  OnlyOnboarded'
<1> USE GuardAssumption
<1>1. CASE UNCHANGED <<policy, issued>>
  BY <1>1 DEF OnlyOnboarded
<1>2. ASSUME NEW c \in Calls, SetPolicy(PolicyOf(c))
      PROVE  OnlyOnboarded'
  <2>1. Onboarding(PolicyOf(c))
    BY DEF Onboarding, PolicyOf
  <2>2. policy' = [policy EXCEPT ![Lower[PolicyOf(c).owner]] = PolicyOf(c)]
        /\ issued' = issued
    BY <1>2 DEF SetPolicy
  <2>3. \A w \in Wire : policy'[w] \in {policy[w], PolicyOf(c)}
    BY <2>2 DEF TypeOK
  <2> QED BY <2>1, <2>2, <2>3 DEF OnlyOnboarded
<1>3. ASSUME NEW c \in Calls, c.route \in {"allocate", "withdraw"},
             SignAction(c.user, IntentOf(c))
      PROVE  OnlyOnboarded'
  <2>1. c.user \in Wire
    BY LiveAssumption DEF Call
  <2>2. policy[Lower[c.user]] # NoPolicy /\ Lower[c.user] \in Wire
    BY <1>3, <2>1 DEF SignAction, Judged
  <2>3. Onboarding(policy[Lower[c.user]])
    BY <2>2 DEF OnlyOnboarded
  <2>4. /\ policy' = policy
        /\ \E s : s.under = policy[Lower[c.user]] /\ issued' = issued \cup {s}
    BY <1>3 DEF SignAction
  <2> QED BY <2>3, <2>4 DEF OnlyOnboarded
<1>4. CASE Restart
  BY <1>4 DEF Restart, Blank, OnlyOnboarded
<1> QED BY <1>1, <1>2, <1>3, <1>4
    DEF CoreStep, UpdateKey, Materialise, RefuseAction, tenantVars, vars

(* At first nothing is asked, and no policy is in force.                   *)
LEMMA InitLiveInv == LiveInit => LiveInv
<1> SUFFICES ASSUME LiveInit PROVE LiveInv
  OBVIOUS
<1>1. Init
  BY DEF LiveInit
<1>2. Asks
  BY DEF LiveInit, Asks, Threads
<1>3. OnlyOnboarded
  BY <1>1 DEF Init, Blank, OnlyOnboarded
<1> QED BY <1>1, <1>2, <1>3, InitIInv DEF LiveInv

(* Every step keeps the invariant.                                         *)
LEMMA NextLiveInv == LiveInv /\ [LiveNext]_liveVars => LiveInv'
<1> SUFFICES ASSUME LiveInv, [LiveNext]_liveVars PROVE LiveInv'
  OBVIOUS
<1>1. CoreStep \/ UNCHANGED vars
  BY LiveSteps DEF LiveInv
<1>2. IInv'
  BY <1>1, CoreIsEnclave, NextIInv DEF LiveInv
<1>3. OnlyOnboarded'
  BY <1>1, NextOnboarded DEF LiveInv, IInv
<1> QED BY <1>2, <1>3, NextAsks DEF LiveInv

(* What holds of the core and its policies behind the server.              *)
LEMMA LiveInvariant == LiveSafety => []LiveInv
BY InitLiveInv, NextLiveInv, PTL DEF LiveSafety

(* handlers.ts behind main.go: with its server, its proxy and restarts of  *)
(* both, the trust core is still the one that Enclave describes, and       *)
(* whatever is proved of Enclave is so for every client of the server.     *)
THEOREM LiveImplementsEnclave == LiveSafety => Spec
<1>1. LiveInit => Init
  BY DEF LiveInit
<1>2. LiveInv /\ [LiveNext]_liveVars => [Next]_vars
  BY LiveSteps, CoreIsEnclave DEF LiveInv
<1> QED BY <1>1, <1>2, LiveInvariant, PTL DEF LiveSafety, Spec

(* main.go's handlers pass on any venue, and any `to` as authorised: still *)
(* every signature moves FXRP within the cap, to the one venue onboarding  *)
(* lists or home to its own user.                                          *)
THEOREM ClientsSignaturesStayHome == LiveSafety => []LiveSignaturesStayHome
<1>1. LiveInv => LiveSignaturesStayHome
  <2> SUFFICES ASSUME LiveInv, NEW s \in issued
               PROVE  /\ s.intent.amount \in 1..TxCap
                      /\ EqAddr(s.intent.asset, Fxrp)
                      /\ Lower[s.intent.dest] \in {Lower[DefaultVenue], s.owner}
    BY DEF LiveSignaturesStayHome
  <2>1. WithinPolicy(s.under, s.intent) /\ Lower[s.under.owner] = s.owner
    BY DEF LiveInv, IInv, IssuedWithinPolicy
  <2>2. Onboarding(s.under)
    BY DEF LiveInv, OnlyOnboarded
  <2>3. s.intent.amount \in 1..TxCap /\ EqAddr(s.intent.asset, Fxrp)
    BY <2>1, <2>2 DEF WithinPolicy, WithinCaps, Onboarding
  <2>4. Lower[s.intent.dest] \in {Lower[DefaultVenue], s.owner}
    BY <2>1, <2>2 DEF WithinPolicy, Onboarding
  <2> QED BY <2>3, <2>4
<1> QED BY <1>1, LiveInvariant, PTL

-----------------------------------------------------------------------------
(* Results, answers and the order of requests.                             *)

(* A signature made for call c, with the wallet /onboard reports.          *)
MadeFor(c, s) ==
  /\ s.owner = Lower[c.user]
  /\ s.intent = IntentOf(c)
  /\ s.signer = DerivedWallet(c.user)

Accepted(a) == results[a] # NoResult /\ results[a].status = 1
Rejected(a) == results[a] # NoResult /\ results[a].status = 0

(* Types and domains; requests are numbered as they come.                  *)
ServerTyped ==
  /\ main \in {"down", "posting", "polling", "serving"}
  /\ launch \in 0..MaxLaunches
  /\ main # "down" => launch # 0
  /\ boot \in 1..MaxBoots
  /\ sealedTo \in [SeedActions -> 0..MaxBoots]
  /\ thread \in [Requests -> Threads]
  /\ sendMu \in Requests \cup {0}
  /\ sendMu # 0 => thread[sendMu] = "posting"
  /\ queued \subseteq Actions
  /\ tries \in [Actions -> 0..MaxPolls]
  /\ earlier \in [Requests -> SUBSET Actions]

Numbered ==
  \E n \in 0..MaxRequests : {q \in Requests : asked[q] # NoCall} = 1..n

Signed == issued \cup {NoSignature}

Recorded ==
  /\ results \in [Actions -> Result \cup {NoResult}]
  /\ answer \in [Requests -> [what : Answers, signature : Signed]]

(* Every action is handed to the proxy at most once, and taken once.       *)
TakenOnce ==
  /\ \A r \in Requests :
       r \in queued \/ results[r] # NoResult => thread[r] \in {"polling", "answered", "gone"}
  /\ \A a \in SeedActions :
       a < SeedAction \/ (a = SeedAction /\ main = "posting") =>
         a \notin queued /\ results[a] = NoResult
  /\ \A a \in queued : results[a] = NoResult
  /\ main = "serving" => Accepted(SeedAction)

(* What an accepted request got, and what its client is told of it.        *)
ResultsAreOwn ==
  \A r \in Requests :
    Accepted(r) => \/ asked[r].route = "onboard"
                   \/ results[r].signature \in issued /\ MadeFor(asked[r], results[r].signature)

AnswersAreResults ==
  \A r \in Requests :
    /\ answer[r].what # "none" => thread[r] = "answered"
    /\ answer[r].what = "signed" =>
         answer[r].signature \in issued /\ MadeFor(asked[r], answer[r].signature)
    /\ answer[r].what = "onboarded" => Accepted(r) /\ asked[r].route = "onboard"
    /\ answer[r].what = "refused" => Rejected(r)

(* What a result says of the enclave until it restarts.                    *)
InForce ==
  /\ seed \in {NoSeed, MasterSeed}
  /\ \A a \in Actions : results[a] # NoResult => results[a].boot <= boot
  /\ \A a \in SeedActions : Accepted(a) /\ results[a].boot = boot => seed = MasterSeed
  /\ \A r \in Requests :
       Accepted(r) /\ asked[r].route = "onboard" /\ results[r].boot = boot
         => policy[Lower[asked[r].user]] # NoPolicy

(* What was done when a request came stays done.                           *)
EarlierDone ==
  \A q \in Requests :
    /\ \A r \in earlier[q] \cap Requests : thread[r] = "answered"
    /\ \A a \in earlier[q] \cap SeedActions : Accepted(a)

OnboardedBefore(q) ==
  \E r \in earlier[q] \cap Requests, a \in earlier[q] \cap SeedActions :
    /\ answer[r].what = "onboarded"
    /\ Lower[asked[r].user] = Lower[asked[q].user]
    /\ results[a].boot = results[q].boot
    /\ results[r].boot = results[q].boot

(* OnboardedIsServed, from the moment the enclave decides.                 *)
Served ==
  \A q \in Requests : Rejected(q) /\ WithinOnboarding(asked[q]) => ~OnboardedBefore(q)

HistoryInv ==
  /\ ServerTyped /\ Numbered /\ Recorded
  /\ TakenOnce /\ ResultsAreOwn /\ AnswersAreResults
  /\ InForce /\ EarlierDone /\ Served

-----------------------------------------------------------------------------
(* The steps, by what they do to the proxy's queue and results.            *)

Dies ==
  /\ Die
  /\ results' = results
  /\ queued' = queued \/ (main = "posting" /\ queued' = queued \cup {SeedAction})

SeedSent ==
  /\ main = "posting" /\ main' = "polling"
  /\ queued' = queued \cup {SeedAction}
  /\ UNCHANGED <<launch, asked, thread, sendMu, tries, answer, earlier,
                 results, boot, sealedTo, vars>>

Fails(r) ==
  /\ thread[r] \in {"posting", "polling"}
  /\ AnswerWith(r, "failed", NoSignature)
  /\ sendMu' \in {sendMu, 0}
  /\ thread[r] = "posting" => sendMu' = 0
  /\ queued' = queued \/ (thread[r] = "posting" /\ queued' = queued \cup {r})
  /\ UNCHANGED <<rest, results>>

(* The enclave takes action a; what it may decide on whom.                 *)
Takes(a, status, s) ==
  /\ a \in queued /\ status \in {0, 1} /\ s \in Signed'
  /\ queued' = queued \ {a}
  /\ results' = [results EXCEPT ![a] = [status |-> status, boot |-> boot, signature |-> s]]
  /\ UNCHANGED <<serverVars, boot, sealedTo>>
  /\ seed' \in {seed, MasterSeed}
  /\ \A w \in Wire : policy[w] # NoPolicy => policy'[w] # NoPolicy
  /\ a \in SeedActions /\ status = 1 => seed' = MasterSeed
  /\ a \in Requests /\ status = 1 =>
       \/ asked[a].route = "onboard" /\ policy'[Lower[asked[a].user]] # NoPolicy
       \/ asked[a].route # "onboard" /\ s \in issued' /\ MadeFor(asked[a], s)
  /\ a \in Requests /\ status = 0 /\ WithinOnboarding(asked[a]) =>
       seed # MasterSeed \/ policy[Lower[asked[a].user]] = NoPolicy

(* A result that carries a signature, ...                                  *)
LEMMA StoreOne ==
  ASSUME NEW a, NEW n, NEW s, Store(a, n, {s})
  PROVE  /\ queued' = queued \ {a}
         /\ results' = [results EXCEPT ![a] = [status |-> n, boot |-> boot, signature |-> s]]
         /\ UNCHANGED <<serverVars, boot, sealedTo>>
<1>1. {s} # {} /\ (CHOOSE x \in {s} : TRUE) = s
  OBVIOUS
<1> QED BY <1>1 DEF Store

(* ... and one that carries none.                                          *)
LEMMA StoreNone ==
  ASSUME NEW a, NEW n, Store(a, n, {})
  PROVE  /\ queued' = queued \ {a}
         /\ results' = [results EXCEPT ![a] = [status |-> n, boot |-> boot, signature |-> NoSignature]]
         /\ UNCHANGED <<serverVars, boot, sealedTo>>
BY DEF Store

(* An action within what onboarding promises passes the guard, under any   *)
(* policy that /onboard builds for its user.                               *)
LEMMA OnboardingPasses ==
  ASSUME NEW c \in Calls, NEW p \in Policy, Onboarding(p), Lower[p.owner] = Lower[c.user],
         WithinOnboarding(c)
  PROVE  IntentOf(c) # Malformed /\ Verdict(p, IntentOf(c)) = "OK"
<1> DEFINE i == IntentOf(c)
<1>1. c.route \in {"allocate", "withdraw"} /\ IntentParses(c) /\ c.amount \in 1..TxCap
  BY DEF WithinOnboarding
<1>2. i \in Intents /\ i # Malformed /\ i \in Intent
  BY <1>1, LiveAssumption, EnclaveAssumption
<1>3. /\ i.kind = c.route /\ i.asset = Fxrp /\ i.amount = c.amount /\ i.dest = VenueOf(c)
      /\ i.projectedHealthFactorBps = Absent
  BY <1>1 DEF IntentOf
<1>4. WithinCaps(p, i)
  BY <1>1, <1>3 DEF WithinCaps, Onboarding, EqAddr
<1>5. ~ConcentrationChecked(p, i) /\ ~BelowHealthFloor(p, i)
  BY <1>3 DEF ConcentrationChecked, BelowHealthFloor, Onboarding
<1>6. c.route = "withdraw" => Lower[i.dest] = Lower[p.returnAddress]
  BY <1>3 DEF WithinOnboarding, Onboarding
<1>7. c.route # "withdraw" => Lower[i.dest] = Lower[DefaultVenue]
  BY <1>1, <1>3 DEF WithinOnboarding
<1>8. Lower[DefaultVenue] \in {Lower[v] : v \in p.allowedVenues}
  BY DEF Onboarding
<1>9. i.userAuthorized <=> c.route = "withdraw"
  BY <1>1 DEF IntentOf
<1>10. i.kind = "withdraw" <=> c.route = "withdraw"
  BY <1>3
<1> HIDE DEF i
<1>11. WithinPolicy(p, i)
  BY <1>4, <1>5, <1>6, <1>7, <1>8, <1>9, <1>10 DEF WithinPolicy, WithinShare
<1> QED BY <1>2, <1>11, GuardIsExact DEF i

(* Every step of the enclave behind the proxy, read so.                    *)
LEMMA SeedTaken ==
  ASSUME LiveInv, HistoryInv, NEW a \in SeedActions, TakeSeed(a)
  PROVE  \E n \in {0, 1} : Takes(a, n, NoSignature)
<1>1. a \in queued /\ a \notin Requests
  BY RequestsArePositive, LiveAssumption DEF TakeSeed, SeedActions
<1>2. NoSignature \in Signed'
  BY DEF Signed
<1>3. CASE sealedTo[a] = boot /\ UpdateKey(MasterSeed) /\ Store(a, 1, {})
  BY <1>1, <1>2, <1>3, StoreNone DEF Takes, UpdateKey, tenantVars
<1>4. CASE UNCHANGED vars /\ Store(a, 0, {})
  BY <1>1, <1>2, <1>4, StoreNone DEF Takes, vars, tenantVars
<1> QED BY <1>3, <1>4 DEF TakeSeed

(* What taking a SET_POLICY does to the proxy, ...                         *)
LEMMA PolicyTaken ==
  ASSUME LiveInv, HistoryInv, NEW r \in Requests, TakePolicy(r)
  PROVE  \E n \in {0, 1} : Takes(r, n, NoSignature)
<1>1. r \in queued /\ r \notin SeedActions /\ asked[r].route = "onboard" /\ asked[r] \in Calls
  BY RequestsArePositive, LiveAssumption DEF TakePolicy, SeedActions, LiveInv, Asks
<1>2. NoSignature \in Signed' /\ ~WithinOnboarding(asked[r])
  BY <1>1 DEF Signed, WithinOnboarding
<1>3. CASE PolicyParses(asked[r]) /\ SetPolicy(PolicyOf(asked[r])) /\ Store(r, 1, {})
  <2> DEFINE p == PolicyOf(asked[r])
  <2>1. p \in Policies /\ p # NoPolicy /\ p.owner = asked[r].user
    BY <1>1, <1>3, LiveAssumption, EnclaveAssumption DEF PolicyOf
  <2>2. Lower[p.owner] \in Wire
    BY <2>1, EnclaveAssumption, GuardAssumption DEF Policy
  <2>3. policy' = [policy EXCEPT ![Lower[p.owner]] = p] /\ seed' = seed
    BY <1>3 DEF SetPolicy
  <2> HIDE DEF p
  <2>4. /\ \A w \in Wire : policy[w] # NoPolicy => policy'[w] # NoPolicy
        /\ policy'[Lower[asked[r].user]] # NoPolicy
    BY <2>1, <2>2, <2>3 DEF LiveInv, IInv, TypeOK
  <2> QED BY <1>1, <1>2, <1>3, <2>3, <2>4, StoreNone DEF Takes
<1>4. CASE UNCHANGED vars /\ Store(r, 0, {})
  BY <1>1, <1>2, <1>4, StoreNone DEF Takes, vars, tenantVars
<1> QED BY <1>3, <1>4 DEF TakePolicy

(* ... and what taking a VAULT instruction does.                           *)
LEMMA ActionTaken ==
  ASSUME LiveInv, HistoryInv, NEW r \in Requests, TakeAction(r)
  PROVE  \E n \in {0, 1}, s \in Signed' : Takes(r, n, s)
<1> DEFINE c == asked[r]
           w == c.user
           i == IntentOf(c)
<1>1. /\ r \in queued /\ r \notin SeedActions
      /\ c.route \in {"allocate", "withdraw"} /\ c \in Calls /\ w \in Wire
  BY RequestsArePositive, LiveAssumption DEF TakeAction, SeedActions, LiveInv, Asks, Call
<1>2. NoSignature \in Signed'
  BY DEF Signed
<1>3. ASSUME ~Judged(w, i) \/ Verdict(policy[Lower[w]], i) # "OK", WithinOnboarding(c)
      PROVE  seed # MasterSeed \/ policy[Lower[w]] = NoPolicy
  <2> SUFFICES ASSUME seed = MasterSeed, policy[Lower[w]] # NoPolicy PROVE FALSE
    OBVIOUS
  <2>1. Lower[w] \in Wire /\ policy[Lower[w]] \in Policy
    BY <1>1, GuardAssumption, EnclaveAssumption DEF LiveInv, IInv, TypeOK
  <2>2. Onboarding(policy[Lower[w]]) /\ Lower[policy[Lower[w]].owner] = Lower[w]
    BY <2>1 DEF LiveInv, IInv, OnlyOnboarded, SlotsBelongToOwners
  <2>3. i # Malformed /\ Verdict(policy[Lower[w]], i) = "OK"
    BY <1>1, <1>3, <2>1, <2>2, OnboardingPasses
  <2> QED BY <1>3, <2>3, LiveAssumption, EnclaveAssumption DEF Judged
<1>4. CASE /\ (~Judged(w, i) /\ Materialise(w)) \/ RefuseAction(w, i)
           /\ Store(r, 0, {})
  <2>1. seed' = seed /\ policy' = policy
    BY <1>4 DEF Materialise, RefuseAction, tenantVars
  <2>2. WithinOnboarding(c) => seed # MasterSeed \/ policy[Lower[w]] = NoPolicy
    BY <1>3, <1>4 DEF RefuseAction
  <2>3. Takes(r, 0, NoSignature)
    BY <1>1, <1>2, <1>4, <2>1, <2>2, StoreNone DEF Takes
  <2> QED BY <1>2, <2>3
<1>5. CASE SignAction(w, i) /\ Store(r, 1, {SignatureOn(w, i)})
  <2> DEFINE s == SignatureOn(w, i)
  <2>1. seed' = seed /\ policy' = policy /\ issued' = issued \cup {s}
    BY <1>5 DEF SignAction, SignatureOn
  <2>2. seed = MasterSeed
    BY <1>5 DEF SignAction, Judged, HistoryInv, InForce
  <2>3. MadeFor(c, s)
    BY <2>2 DEF MadeFor, SignatureOn, WalletOf, DerivedWallet
  <2>4. /\ queued' = queued \ {r}
        /\ results' = [results EXCEPT ![r] = [status |-> 1, boot |-> boot, signature |-> s]]
        /\ UNCHANGED <<serverVars, boot, sealedTo>>
    BY <1>5, StoreOne
  <2> HIDE DEF s
  <2>5. s \in issued' /\ s \in Signed'
    BY <2>1 DEF Signed
  <2>6. Takes(r, 1, s)
    BY <1>1, <2>1, <2>3, <2>4, <2>5 DEF Takes
  <2> QED BY <2>5, <2>6
<1> QED BY <1>4, <1>5 DEF TakeAction

(* Every step of the server, the proxy and the enclave, by what it         *)
(* changes.                                                                *)
LEMMA StepShapes ==
  ASSUME LiveInv, HistoryInv, [LiveNext]_liveVars
  PROVE  \/ Launch \/ Dies \/ SeedSent \/ AwaitSeed
         \/ \E r \in Requests, c \in Calls : Arrive(r, c)
         \/ \E r \in Requests :
              Lock(r) \/ Posted(r) \/ PollAgain(r) \/ Fails(r) \/ PollSucceeds(r)
         \/ \E a \in Actions, n \in {0, 1}, s \in Signed' : Takes(a, n, s)
         \/ \E lost \in SUBSET queued : Reboot(lost)
         \/ UNCHANGED liveVars
<1>1. Stop \/ SeedFails => Dies
  BY DEF Stop, SeedFails, Dies, proxyVars
<1>2. SendSeed => SeedSent \/ Dies
  BY DEF SendSeed, SeedSent, Dies
<1>3. ASSUME NEW r \in Requests, PostFails(r) \/ PollExpires(r) \/ PollBreaks(r)
      PROVE  Fails(r)
  BY <1>3 DEF PostFails, PollExpires, PollBreaks, Fails, proxyVars
<1>4. NoSignature \in Signed' /\ Requests \subseteq Actions /\ SeedActions \subseteq Actions
  BY DEF Signed, Actions
<1>5. ASSUME NEW a \in SeedActions, TakeSeed(a)
      PROVE  \E b \in Actions, n \in {0, 1}, s \in Signed' : Takes(b, n, s)
  BY <1>4, <1>5, SeedTaken
<1>6. ASSUME NEW r \in Requests, TakePolicy(r) \/ TakeAction(r)
      PROVE  \E b \in Actions, n \in {0, 1}, s \in Signed' : Takes(b, n, s)
  BY <1>4, <1>6, PolicyTaken, ActionTaken
<1> QED BY <1>1, <1>2, <1>3, <1>5, <1>6 DEF LiveNext

-----------------------------------------------------------------------------
(* One step and the types, with the numbering of requests.                 *)
LEMMA NextFree ==
  ASSUME LiveInv, HistoryInv, NEW r \in Requests, NEW c \in Calls, Arrive(r, c)
  PROVE  /\ asked[r] = NoCall /\ thread[r] = "none" /\ r \notin queued
         /\ Numbered'
<1>1. PICK n \in 0..MaxRequests : {q \in Requests : asked[q] # NoCall} = 1..n
  BY DEF HistoryInv, Numbered
<1>2. Cardinality(1..n) = n
  BY <1>1, FS_Interval
<1>3. r = n + 1
  BY <1>1, <1>2 DEF Arrive
<1>4. asked[r] = NoCall
  BY <1>1, <1>3
<1>5. asked' = [asked EXCEPT ![r] = c] /\ c # NoCall
  BY LiveAssumption DEF Arrive
<1>6. {q \in Requests : asked'[q] # NoCall} = 1..(n + 1)
  BY <1>1, <1>3, <1>5 DEF LiveInv, Asks
<1>7. n + 1 \in 0..MaxRequests
  BY <1>1, <1>3, LiveAssumption DEF Requests
<1> QED BY <1>4, <1>6, <1>7 DEF Numbered, LiveInv, Asks

(* Requests are numbered without gaps, after every step.                   *)
LEMMA NextNumbered ==
  ASSUME LiveInv, HistoryInv, [LiveNext]_liveVars
  PROVE  Numbered'
<1>1. CASE asked' = asked
  BY <1>1 DEF HistoryInv, Numbered
<1>2. ASSUME NEW r \in Requests, NEW c \in Calls, Arrive(r, c)
      PROVE  Numbered'
  BY <1>2, NextFree
<1> QED BY <1>1, <1>2, StepShapes
    DEF Launch, Dies, Die, SeedSent, AwaitSeed, Lock, Posted, PollAgain, Fails, PollSucceeds,
        Takes, Reboot, liveVars, serverVars, rest

(* The server's state keeps its types, after every step.                   *)
LEMMA NextTyped ==
  ASSUME LiveInv, HistoryInv, [LiveNext]_liveVars
  PROVE  ServerTyped'
<1>1. ServerTyped
  BY DEF HistoryInv
<1>2. /\ Requests \subseteq Actions /\ 0 \notin Requests
      /\ \A n \in 1..MaxLaunches : -n \in SeedActions /\ -n \in Actions
  BY LiveAssumption DEF Actions, Requests, SeedActions
<1>3. launch # 0 => SeedAction \in SeedActions /\ SeedAction \in Actions
  BY <1>1, <1>2, LiveAssumption DEF ServerTyped, SeedAction
<1>4. CASE Launch
  <2>1. -(launch + 1) \in SeedActions /\ launch' \in 0..MaxLaunches /\ launch' # 0
    BY <1>1, <1>2, <1>4, LiveAssumption DEF Launch, ServerTyped
  <2>2. sealedTo' \in [SeedActions -> 0..MaxBoots]
    BY <1>1, <1>4, <2>1, LiveAssumption DEF Launch, ServerTyped
  <2> QED BY <1>1, <1>4, <2>1, <2>2 DEF Launch, ServerTyped, proxyVars
<1>5. CASE Dies
  <2>1. queued' \subseteq Actions
    BY <1>1, <1>3, <1>5 DEF Dies, ServerTyped
  <2>2. tries' \in [Actions -> 0..MaxPolls]
    BY <1>5, LiveAssumption DEF Dies, Die
  <2>3. thread' \in [Requests -> Threads]
    BY <1>1, <1>5 DEF Dies, Die, ServerTyped, Threads
  <2> QED BY <1>1, <1>5, <2>1, <2>2, <2>3 DEF Dies, Die, ServerTyped
<1>6. CASE SeedSent
  BY <1>1, <1>3, <1>6 DEF SeedSent, ServerTyped
<1>7. CASE AwaitSeed
  <2>1. tries' \in [Actions -> 0..MaxPolls]
    BY <1>1, <1>3, <1>7, LiveAssumption DEF AwaitSeed, ServerTyped
  <2> QED BY <1>1, <1>7, <2>1 DEF AwaitSeed, ServerTyped, proxyVars
<1>8. ASSUME NEW r \in Requests, NEW c \in Calls, Arrive(r, c)
      PROVE  ServerTyped'
  <2>1. thread[r] = "none"
    BY <1>8, NextFree
  <2>2. launch # 0 /\ main' = main /\ main = "serving"
    BY <1>1, <1>8 DEF Arrive, ServerTyped
  <2>3. earlier' \in [Requests -> SUBSET Actions]
    BY <1>1, <1>2, <1>3, <1>8, <2>2 DEF Arrive, ServerTyped
  <2>4. tries' \in [Actions -> 0..MaxPolls]
    BY <1>1, <1>2, <1>8, LiveAssumption DEF Arrive, AnswerWith, ServerTyped
  <2>5. thread' \in [Requests -> Threads] /\ \A q \in Requests \ {r} : thread'[q] = thread[q]
    BY <1>1, <1>8 DEF Arrive, AnswerWith, ServerTyped, Threads
  <2>6. UNCHANGED <<main, launch, sendMu, queued, boot, sealedTo>>
    BY <1>8 DEF Arrive, proxyVars
  <2> QED BY <1>1, <2>1, <2>3, <2>4, <2>5, <2>6 DEF ServerTyped
<1>9. ASSUME NEW r \in Requests, thread[r] \in {"locking", "posting", "polling"},
             NEW t \in Threads, thread' = [thread EXCEPT ![r] = t],
             t = "posting" => sendMu' = r,
             t # "posting" => sendMu' = 0 \/ (thread[r] # "posting" /\ sendMu' = sendMu),
             queued' \in {queued, queued \cup {r}},
             tries' = tries \/ tries' = [tries EXCEPT ![r] = 0],
             UNCHANGED <<main, launch, earlier, boot, sealedTo>>
      PROVE  ServerTyped'
  <2>1. tries' \in [Actions -> 0..MaxPolls]
    BY <1>1, <1>2, <1>9, LiveAssumption DEF ServerTyped
  <2>2. queued' \subseteq Actions /\ thread' \in [Requests -> Threads]
    BY <1>1, <1>2, <1>9 DEF ServerTyped
  <2>3. sendMu' \in Requests \cup {0} /\ (sendMu' # 0 => thread'[sendMu'] = "posting")
    BY <1>1, <1>9 DEF ServerTyped
  <2> QED BY <1>1, <1>9, <2>1, <2>2, <2>3 DEF ServerTyped
<1>10. ASSUME NEW r \in Requests, Lock(r) \/ Posted(r) \/ Fails(r) \/ PollSucceeds(r)
       PROVE  ServerTyped'
  <2>1. CASE Lock(r)
    BY <1>9, <2>1 DEF Lock, rest, proxyVars, Threads
  <2>2. CASE Posted(r)
    BY <1>9, <2>2 DEF Posted, rest, Threads
  <2>3. CASE Fails(r)
    BY <1>9, <2>3 DEF Fails, AnswerWith, rest, Threads
  <2>4. CASE PollSucceeds(r)
    BY <1>9, <2>4 DEF PollSucceeds, AnswerWith, rest, proxyVars, Threads
  <2> QED BY <1>10, <2>1, <2>2, <2>3, <2>4
<1>11. ASSUME NEW r \in Requests, PollAgain(r)
       PROVE  ServerTyped'
  <2>1. tries' \in [Actions -> 0..MaxPolls]
    BY <1>1, <1>2, <1>11, LiveAssumption DEF PollAgain, ServerTyped
  <2> QED BY <1>1, <1>11, <2>1 DEF PollAgain, rest, proxyVars, ServerTyped
<1>12. ASSUME NEW a \in Actions, NEW n \in {0, 1}, NEW s \in Signed', Takes(a, n, s)
       PROVE  ServerTyped'
  BY <1>1, <1>12 DEF Takes, serverVars, ServerTyped
<1>13. ASSUME NEW lost \in SUBSET queued, Reboot(lost)
       PROVE  ServerTyped'
  BY <1>1, <1>13, LiveAssumption DEF Reboot, serverVars, ServerTyped
<1>14. CASE UNCHANGED liveVars
  BY <1>1, <1>14 DEF liveVars, serverVars, proxyVars, ServerTyped
<1> QED BY <1>4, <1>5, <1>6, <1>7, <1>8, <1>10, <1>11, <1>12, <1>13, <1>14, StepShapes

(* A signature that was made stays made.                                   *)
LEMMA IssuedGrows ==
  ASSUME LiveInv, [LiveNext]_liveVars
  PROVE  issued \subseteq issued'
BY LiveSteps DEF LiveInv, CoreStep, UpdateKey, SetPolicy, Materialise, RefuseAction, SignAction,
                 Restart, tenantVars, vars

(* One step and the types of results and answers.                          *)
LEMMA NextRecorded ==
  ASSUME LiveInv, HistoryInv, [LiveNext]_liveVars
  PROVE  Recorded'
<1>1. ServerTyped /\ Recorded
  BY DEF HistoryInv
<1>2. Signed \subseteq Signed' /\ Result \subseteq Result' /\ NoSignature \in Signed
  BY IssuedGrows DEF Signed, Result
<1>3. CASE results' = results /\ answer' = answer
  BY <1>1, <1>2, <1>3 DEF Recorded
<1>4. ASSUME NEW r \in Requests, NEW what \in Answers, NEW s \in Signed, AnswerWith(r, what, s),
             results' = results
      PROVE  Recorded'
  BY <1>1, <1>2, <1>4 DEF Recorded, AnswerWith
<1>5. ASSUME NEW r \in Requests, NEW c \in Calls, Arrive(r, c)
      PROVE  Recorded'
  BY <1>2, <1>3, <1>4, <1>5 DEF Arrive, proxyVars, Answers
<1>6. ASSUME NEW r \in Requests, Fails(r)
      PROVE  Recorded'
  BY <1>2, <1>4, <1>6 DEF Fails, Answers
<1>7. ASSUME NEW r \in Requests, PollSucceeds(r)
      PROVE  Recorded'
  <2>1. results[r] \in Result
    BY <1>1, <1>7 DEF PollSucceeds, ResultOf, Recorded, Actions
  <2>2. results[r].signature \in Signed
    BY <2>1 DEF Result, Signed
  <2> QED BY <1>4, <1>7, <2>2
      DEF PollSucceeds, ResultOf, OnboardAnswer, ActionAnswer, proxyVars, Answers
<1>8. ASSUME NEW a \in Actions, NEW n \in {0, 1}, NEW s \in Signed', Takes(a, n, s)
      PROVE  Recorded'
  <2>1. boot \in 1..MaxBoots /\ answer' = answer
    BY <1>1, <1>8 DEF ServerTyped, Takes, serverVars
  <2>2. [status |-> n, boot |-> boot, signature |-> s] \in Result'
    BY <1>8, <2>1 DEF Result, Signed
  <2>3. results' \in [Actions -> Result' \cup {NoResult}]
    BY <1>1, <1>2, <1>8, <2>2 DEF Takes, Recorded
  <2> QED BY <1>1, <1>2, <2>1, <2>3 DEF Recorded
<1> QED BY <1>3, <1>5, <1>6, <1>7, <1>8, StepShapes
    DEF Launch, Dies, Die, SeedSent, AwaitSeed, Lock, Posted, PollAgain, Reboot,
        liveVars, serverVars, proxyVars, rest

-----------------------------------------------------------------------------
(* One step and the promises between queue, results and answers.           *)

(* No number is both a request and a seed action.                          *)
LEMMA ActionKinds ==
  /\ Requests \subseteq Actions /\ SeedActions \subseteq Actions /\ SeedActions \subseteq Int
  /\ \A r \in Requests : r \notin SeedActions
  /\ launch \in Nat => SeedAction \notin Requests
BY LiveAssumption DEF Actions, Requests, SeedActions, SeedAction

(* A result stays as it is: an action that is queued has none yet.         *)
LEMMA ResultsLast ==
  ASSUME LiveInv, HistoryInv, [LiveNext]_liveVars
  PROVE  \A a \in Actions : results[a] # NoResult => results'[a] = results[a]
<1>1. CASE results' = results
  BY <1>1
<1>2. ASSUME NEW b \in Actions, NEW n \in {0, 1}, NEW s \in Signed', Takes(b, n, s)
      PROVE  \A a \in Actions : results[a] # NoResult => results'[a] = results[a]
  BY <1>2 DEF Takes, HistoryInv, TakenOnce, Recorded
<1> QED BY <1>1, <1>2, StepShapes
    DEF Launch, Dies, SeedSent, AwaitSeed, Arrive, Lock, Posted, PollAgain, Fails, PollSucceeds,
        Reboot, liveVars, proxyVars, rest

(* A result that the proxy holds is not replaced: an action is taken once. *)
LEMMA AcceptedLasts ==
  ASSUME LiveInv, HistoryInv, [LiveNext]_liveVars
  PROVE  \A a \in Actions : /\ Accepted(a) => Accepted(a)' /\ results'[a] = results[a]
                            /\ Rejected(a) => Rejected(a)' /\ results'[a] = results[a]
BY ResultsLast DEF Accepted, Rejected

(* No action is both queued and done, after every step.                    *)
LEMMA NextTakenOnce ==
  ASSUME LiveInv, HistoryInv, [LiveNext]_liveVars
  PROVE  TakenOnce'
<1>1. TakenOnce /\ ServerTyped /\ Recorded /\ ServerTyped'
  BY NextTyped DEF HistoryInv
<1>2. main' = "serving" /\ main = "serving" /\ launch' = launch => Accepted(SeedAction)'
  <2>1. main = "serving" => SeedAction \in Actions /\ Accepted(SeedAction)
    <3>1. main = "serving" => launch \in 1..MaxLaunches
      BY <1>1, LiveAssumption DEF ServerTyped
    <3>2. main = "serving" => SeedAction \in Actions
      BY <3>1 DEF SeedAction, Actions, SeedActions
    <3> QED BY <1>1, <3>2 DEF TakenOnce
  <2>2. main = "serving" => results'[SeedAction] = results[SeedAction]
    BY <2>1, ResultsLast DEF Accepted
  <2> QED BY <2>1, <2>2 DEF Accepted, SeedAction
<1>3. CASE Launch
  <2>1. \A a \in SeedActions : a < SeedAction' \/ a = SeedAction' => a < SeedAction
    BY <1>1, <1>3, ActionKinds DEF Launch, SeedAction, ServerTyped
  <2> QED BY <1>1, <1>3, <2>1 DEF Launch, TakenOnce, proxyVars
<1>4. CASE Dies
  <2>1. /\ main' = "down" /\ SeedAction' = SeedAction /\ results' = results
        /\ \A r \in Requests : thread[r] \in {"polling", "answered", "gone"} =>
                                 thread'[r] \in {"polling", "answered", "gone"}
    BY <1>4 DEF Dies, Die, SeedAction
  <2>2. /\ \A r \in Requests : r \in queued' => r \in queued
        /\ \A a \in SeedActions : a < SeedAction /\ a \in queued' => a \in queued
        /\ \A a \in queued' : a \in queued \/ (a = SeedAction /\ main = "posting")
    <3>1. \A r \in Requests : r # SeedAction
      BY <1>1, ActionKinds DEF ServerTyped
    <3>2. \A a \in SeedActions : a < SeedAction => a # SeedAction
      BY <1>1, ActionKinds DEF ServerTyped, SeedAction
    <3> QED BY <1>4, <3>1, <3>2 DEF Dies
  <2>3. main = "posting" => SeedAction \in SeedActions
    BY <1>1, LiveAssumption DEF ServerTyped, SeedAction, SeedActions
  <2> QED BY <1>1, <2>1, <2>2, <2>3 DEF TakenOnce
<1>5. CASE SeedSent
  <2>1. /\ main' = "polling" /\ SeedAction' = SeedAction /\ UNCHANGED <<results, thread>>
        /\ queued' = queued \cup {SeedAction} /\ main = "posting"
    BY <1>5 DEF SeedSent, SeedAction
  <2>2. \A r \in Requests : r # SeedAction
    BY <1>1, ActionKinds DEF ServerTyped
  <2>3. \A a \in SeedActions : a < SeedAction => a # SeedAction
    BY <1>1, ActionKinds DEF ServerTyped, SeedAction
  <2>4. SeedAction \in SeedActions
    BY <1>1, <1>5, LiveAssumption DEF SeedSent, ServerTyped, SeedAction, SeedActions
  <2> QED BY <1>1, <2>1, <2>2, <2>3, <2>4 DEF TakenOnce
<1>6. CASE AwaitSeed
  <2>1. main' = "polling" \/ (main' = "serving" /\ Accepted(SeedAction))
    BY <1>6 DEF AwaitSeed, Accepted
  <2>2. UNCHANGED <<queued, results, thread, launch>>
    BY <1>6 DEF AwaitSeed, proxyVars
  <2> QED BY <1>1, <2>1, <2>2 DEF TakenOnce, Accepted, SeedAction
<1>7. ASSUME NEW r \in Requests, UNCHANGED <<main, launch, results>>,
             \A q \in Requests \ {r} : thread'[q] = thread[q],
             r \in queued' \/ results[r] # NoResult => thread'[r] \in {"polling", "answered", "gone"},
             queued' = queued \/ (results[r] = NoResult /\ queued' = queued \cup {r})
      PROVE  TakenOnce'
  <2>1. SeedAction' = SeedAction
    BY <1>7 DEF SeedAction
  <2>2. \A a \in SeedActions : a # r
    BY ActionKinds
  <2>3. \A q \in Requests : q \in queued' => q \in queued \/ q = r
    BY <1>7
  <2>4. \A a \in SeedActions : a \in queued' => a \in queued
    BY <1>7, <2>2
  <2>5. \A a \in queued' : results'[a] = NoResult
    BY <1>1, <1>7 DEF TakenOnce
  <2>6. \A q \in Requests : q \in queued' \/ results'[q] # NoResult =>
                              thread'[q] \in {"polling", "answered", "gone"}
    BY <1>1, <1>7, <2>3 DEF TakenOnce
  <2>7. \A a \in SeedActions : a < SeedAction' \/ (a = SeedAction' /\ main' = "posting") =>
                                 a \notin queued' /\ results'[a] = NoResult
    BY <1>1, <1>7, <2>1, <2>4 DEF TakenOnce
  <2> QED BY <1>1, <1>2, <1>7, <2>5, <2>6, <2>7 DEF TakenOnce
<1>8. ASSUME NEW r \in Requests, NEW c \in Calls, Arrive(r, c)
      PROVE  TakenOnce'
  <2>1. thread[r] = "none"
    BY <1>8, NextFree
  <2>2. r \notin queued /\ results[r] = NoResult
    BY <1>1, <2>1 DEF TakenOnce
  <2>3. UNCHANGED <<main, launch, results, queued>>
        /\ \A q \in Requests \ {r} : thread'[q] = thread[q]
    BY <1>1, <1>8 DEF Arrive, AnswerWith, proxyVars, ServerTyped
  <2> QED BY <1>7, <2>2, <2>3
<1>9. ASSUME NEW r \in Requests,
             Lock(r) \/ Posted(r) \/ PollAgain(r) \/ Fails(r) \/ PollSucceeds(r)
      PROVE  TakenOnce'
  <2>1. UNCHANGED <<main, launch, results>>
        /\ \A q \in Requests \ {r} : thread'[q] = thread[q]
    BY <1>1, <1>9 DEF Lock, Posted, PollAgain, Fails, PollSucceeds, AnswerWith, rest, proxyVars,
                      ServerTyped
  <2>2. CASE Lock(r)
    <3>1. queued' = queued /\ r \notin queued /\ results[r] = NoResult
      BY <1>1, <2>2 DEF Lock, TakenOnce, proxyVars
    <3> QED BY <1>7, <2>1, <3>1
  <2>3. CASE Posted(r) \/ Fails(r) \/ PollSucceeds(r)
    <3>1. thread'[r] \in {"polling", "answered"}
      BY <1>1, <2>3 DEF Posted, Fails, PollSucceeds, AnswerWith, ServerTyped
    <3>2. queued' = queued \/ (thread[r] = "posting" /\ queued' = queued \cup {r})
      BY <2>3 DEF Posted, Fails, PollSucceeds, proxyVars
    <3>3. thread[r] = "posting" => results[r] = NoResult
      BY <1>1 DEF TakenOnce
    <3> QED BY <1>7, <2>1, <3>1, <3>2, <3>3
  <2>4. CASE PollAgain(r)
    BY <1>7, <2>1, <2>4 DEF PollAgain, proxyVars
  <2> QED BY <1>9, <2>2, <2>3, <2>4
<1>10. ASSUME NEW b \in Actions, NEW n \in {0, 1}, NEW s \in Signed', Takes(b, n, s)
       PROVE  TakenOnce'
  <2>1. /\ b \in queued /\ queued' = queued \ {b}
        /\ UNCHANGED <<main, launch, thread>>
        /\ \A a \in Actions \ {b} : results'[a] = results[a]
    BY <1>1, <1>10 DEF Takes, serverVars, Recorded
  <2>2. SeedAction' = SeedAction
    BY <2>1 DEF SeedAction
  <2>3. \A r \in Requests : r \in queued' \/ results'[r] # NoResult =>
                              thread'[r] \in {"polling", "answered", "gone"}
    BY <1>1, <2>1, ActionKinds DEF TakenOnce
  <2>4. \A a \in SeedActions : a < SeedAction' \/ (a = SeedAction' /\ main' = "posting") =>
                                 a \notin queued' /\ results'[a] = NoResult
    BY <1>1, <2>1, <2>2, ActionKinds DEF TakenOnce
  <2>5. \A a \in queued' : results'[a] = NoResult
    BY <1>1, <2>1 DEF TakenOnce, ServerTyped
  <2> QED BY <1>2, <2>1, <2>3, <2>4, <2>5 DEF TakenOnce
<1>11. CASE queued' \subseteq queued /\ UNCHANGED <<main, launch, thread, results>>
  <2>1. SeedAction' = SeedAction
    BY <1>11 DEF SeedAction
  <2>2. \A a \in SeedActions : a < SeedAction' \/ (a = SeedAction' /\ main' = "posting") =>
                                 a \notin queued' /\ results'[a] = NoResult
    BY <1>1, <1>11, <2>1 DEF TakenOnce
  <2> QED BY <1>1, <1>2, <1>11, <2>2 DEF TakenOnce
<1> QED BY <1>3, <1>4, <1>5, <1>6, <1>8, <1>9, <1>10, <1>11, StepShapes
    DEF Reboot, liveVars, serverVars, proxyVars

(* A request that has come keeps its call.                                 *)
LEMMA AskedLasts ==
  ASSUME LiveInv, HistoryInv, [LiveNext]_liveVars
  PROVE  \A r \in Requests : asked[r] # NoCall \/ thread[r] # "none" => asked'[r] = asked[r]
<1>1. CASE asked' = asked
  BY <1>1
<1>2. ASSUME NEW r \in Requests, NEW c \in Calls, Arrive(r, c)
      PROVE  \A q \in Requests : asked[q] # NoCall \/ thread[q] # "none" => asked'[q] = asked[q]
  BY <1>2, NextFree DEF Arrive, LiveInv, Asks
<1> QED BY <1>1, <1>2, StepShapes
    DEF Launch, Dies, Die, SeedSent, AwaitSeed, Lock, Posted, PollAgain, Fails, PollSucceeds,
        Takes, Reboot, liveVars, serverVars, rest

(* A goroutine that has answered stays so.                                 *)
LEMMA AnsweredLasts ==
  ASSUME LiveInv, HistoryInv, [LiveNext]_liveVars
  PROVE  \A r \in Requests :
           thread[r] = "answered" => thread'[r] = "answered" /\ answer'[r] = answer[r]
<1>1. ServerTyped /\ Recorded
  BY DEF HistoryInv
<1>2. CASE UNCHANGED <<thread, answer>>
  BY <1>2
<1>3. CASE Dies
  BY <1>1, <1>3 DEF Dies, Die
<1>4. ASSUME NEW r \in Requests, NEW c \in Calls, Arrive(r, c)
      PROVE  \A q \in Requests :
               thread[q] = "answered" => thread'[q] = "answered" /\ answer'[q] = answer[q]
  BY <1>1, <1>4, NextFree DEF Arrive, AnswerWith, ServerTyped, Recorded
<1>5. ASSUME NEW r \in Requests, Lock(r) \/ Posted(r) \/ Fails(r) \/ PollSucceeds(r)
      PROVE  \A q \in Requests :
               thread[q] = "answered" => thread'[q] = "answered" /\ answer'[q] = answer[q]
  BY <1>1, <1>5 DEF Lock, Posted, Fails, PollSucceeds, AnswerWith, ServerTyped, Recorded
<1> QED BY <1>2, <1>3, <1>4, <1>5, StepShapes
    DEF Launch, SeedSent, AwaitSeed, PollAgain, Takes, Reboot, liveVars, serverVars

(* Whoever has a result, has asked.                                        *)
LEMMA ResultsAreAsked ==
  ASSUME LiveInv, HistoryInv
  PROVE  \A r \in Requests : results[r] # NoResult => asked[r] # NoCall
BY DEF LiveInv, Asks, HistoryInv, TakenOnce

(* A result is of the action it is stored under, after every step.         *)
LEMMA NextResultsAreOwn ==
  ASSUME LiveInv, HistoryInv, [LiveNext]_liveVars
  PROVE  ResultsAreOwn'
<1>1. ResultsAreOwn /\ Recorded /\ Asks
  BY DEF HistoryInv, LiveInv
<1>2. SUFFICES ASSUME NEW r \in Requests, Accepted(r)'
               PROVE  \/ asked'[r].route = "onboard"
                      \/ results'[r].signature \in issued' /\ MadeFor(asked'[r], results'[r].signature)
  BY DEF ResultsAreOwn, MadeFor
<1>3. CASE results'[r] = results[r]
  <2>1. Accepted(r) /\ asked'[r] = asked[r]
    BY <1>2, <1>3, ResultsAreAsked, AskedLasts DEF Accepted
  <2> QED BY <1>1, <1>2, <1>3, <2>1, IssuedGrows DEF ResultsAreOwn
<1>4. ASSUME NEW a \in Actions, NEW n \in {0, 1}, NEW s \in Signed', Takes(a, n, s)
      PROVE  \/ asked'[r].route = "onboard"
             \/ results'[r].signature \in issued' /\ MadeFor(asked'[r], results'[r].signature)
  <2>1. CASE a # r
    BY <1>1, <1>3, <1>4, <2>1 DEF Takes, Recorded
  <2>2. CASE a = r
    <3>1. results'[r] = [status |-> n, boot |-> boot, signature |-> s] /\ asked' = asked
      BY <1>1, <1>4, <2>2, ActionKinds DEF Takes, Recorded, serverVars
    <3>2. n = 1
      BY <1>2, <3>1 DEF Accepted
    <3> QED BY <1>4, <2>2, <3>1, <3>2 DEF Takes
  <2> QED BY <2>1, <2>2
<1> QED BY <1>3, <1>4, StepShapes
    DEF Launch, Dies, SeedSent, AwaitSeed, Arrive, Lock, Posted, PollAgain, Fails, PollSucceeds,
        Reboot, liveVars, proxyVars, rest

(* An answer is the result of its own request, after every step.           *)
LEMMA NextAnswers ==
  ASSUME LiveInv, HistoryInv, [LiveNext]_liveVars
  PROVE  AnswersAreResults'
<1>1. /\ AnswersAreResults /\ ResultsAreOwn /\ Recorded /\ ServerTyped
      /\ Requests \subseteq Actions
  BY ActionKinds DEF HistoryInv
<1> DEFINE Kept(q) ==
      /\ answer'[q].what # "none" => thread'[q] = "answered"
      /\ answer'[q].what = "signed" =>
           answer'[q].signature \in issued' /\ MadeFor(asked'[q], answer'[q].signature)
      /\ answer'[q].what = "onboarded" => Accepted(q)' /\ asked'[q].route = "onboard"
      /\ answer'[q].what = "refused" => Rejected(q)'
<1>2. ASSUME NEW q \in Requests, answer'[q] = answer[q]
      PROVE  Kept(q)
  <2>1. answer[q].what # "none" => thread[q] = "answered"
    BY <1>1 DEF AnswersAreResults
  <2>2. answer[q].what # "none" => thread'[q] = "answered" /\ asked'[q] = asked[q]
    BY <2>1, AnsweredLasts, AskedLasts
  <2>3. (Accepted(q) => Accepted(q)') /\ (Rejected(q) => Rejected(q)')
    BY <1>1, AcceptedLasts
  <2> QED BY <1>1, <1>2, <2>2, <2>3, IssuedGrows DEF AnswersAreResults
<1>3. ASSUME NEW r \in Requests, NEW what \in {"invalid", "failed"}, AnswerWith(r, what, NoSignature)
      PROVE  \A q \in Requests : Kept(q)
  <2>1. answer'[r].what = what /\ thread'[r] = "answered"
    BY <1>1, <1>3 DEF AnswerWith, Recorded, ServerTyped
  <2>2. \A q \in Requests \ {r} : answer'[q] = answer[q]
    BY <1>1, <1>3 DEF AnswerWith, Recorded
  <2> QED BY <1>2, <1>3, <2>1, <2>2
<1>4. ASSUME NEW r \in Requests, PollSucceeds(r)
      PROVE  \A q \in Requests : Kept(q)
  <2>1. /\ results[r] # NoResult /\ results[r] \in Result
        /\ asked' = asked /\ issued' = issued /\ results' = results
    BY <1>1, <1>4 DEF PollSucceeds, ResultOf, Recorded, rest, vars, proxyVars
  <2>2. results[r].status \in {0, 1}
    BY <2>1 DEF Result
  <2>3. thread'[r] = "answered" /\ answer'[r].signature = results[r].signature
        /\ answer'[r].what = IF asked[r].route = "onboard"
                             THEN OnboardAnswer(results[r].status)
                             ELSE ActionAnswer(results[r].status)
    BY <1>1, <1>4 DEF PollSucceeds, AnswerWith, ResultOf, Recorded, ServerTyped
  <2>4. \A q \in Requests \ {r} : answer'[q] = answer[q]
    BY <1>1, <1>4 DEF PollSucceeds, AnswerWith, Recorded
  <2>5. CASE asked[r].route = "onboard"
    <3>1. Kept(r)
      BY <2>1, <2>3, <2>5 DEF OnboardAnswer, Accepted
    <3> QED BY <1>2, <2>4, <3>1
  <2>6. CASE asked[r].route # "onboard"
    <3>1. results[r].status = 1 =>
            results[r].signature \in issued /\ MadeFor(asked[r], results[r].signature)
      BY <1>1, <2>1, <2>6 DEF ResultsAreOwn, Accepted
    <3>2. Kept(r)
      BY <2>1, <2>2, <2>3, <2>6, <3>1 DEF ActionAnswer, Rejected
    <3> QED BY <1>2, <2>4, <3>2
  <2> QED BY <2>5, <2>6
<1>5. ASSUME NEW r \in Requests, NEW c \in Calls, Arrive(r, c)
      PROVE  \A q \in Requests : Kept(q)
  BY <1>2, <1>3, <1>5 DEF Arrive
<1>6. ASSUME NEW r \in Requests, Fails(r)
      PROVE  \A q \in Requests : Kept(q)
  BY <1>3, <1>6 DEF Fails
<1>7. ASSUME answer' = answer
      PROVE  \A q \in Requests : Kept(q)
  BY <1>2, <1>7
<1>8. \A q \in Requests : Kept(q)
  BY <1>4, <1>5, <1>6, <1>7, StepShapes
  DEF Launch, Dies, Die, SeedSent, AwaitSeed, Lock, Posted, PollAgain, Takes, Reboot,
      liveVars, serverVars
<1> QED BY <1>8 DEF AnswersAreResults, MadeFor

(* A seed or policy accepted in this boot is in force, after every step.   *)
LEMMA NextInForce ==
  ASSUME LiveInv, HistoryInv, [LiveNext]_liveVars
  PROVE  InForce'
<1>1. InForce /\ Recorded /\ ServerTyped /\ boot \in Int
      /\ Requests \subseteq Actions /\ SeedActions \subseteq Actions
  BY ActionKinds DEF HistoryInv, ServerTyped
<1>2. \A r \in Requests : Accepted(r) => asked'[r] = asked[r]
  BY ResultsAreAsked, AskedLasts DEF Accepted
<1>3. CASE UNCHANGED <<seed, policy, boot, results>>
  BY <1>1, <1>2, <1>3 DEF InForce, Accepted
<1>4. ASSUME NEW b \in Actions, NEW n \in {0, 1}, NEW s \in Signed', Takes(b, n, s)
      PROVE  InForce'
  <2>1. /\ boot' = boot /\ asked' = asked
        /\ results'[b] = [status |-> n, boot |-> boot, signature |-> s]
        /\ \A a \in Actions \ {b} : results'[a] = results[a]
    BY <1>1, <1>4 DEF Takes, serverVars, Recorded
  <2>2. seed' \in {NoSeed, MasterSeed} /\ (seed = MasterSeed => seed' = MasterSeed)
    BY <1>1, <1>4 DEF Takes, InForce
  <2>3. ASSUME NEW a \in Actions, results'[a] # NoResult
        PROVE  results'[a].boot <= boot'
    BY <1>1, <2>1, <2>3 DEF InForce
  <2>4. ASSUME NEW a \in SeedActions, Accepted(a)', results'[a].boot = boot'
        PROVE  seed' = MasterSeed
    BY <1>1, <1>4, <2>1, <2>2, <2>4 DEF InForce, Accepted, Takes
  <2>5. ASSUME NEW r \in Requests, Accepted(r)', asked'[r].route = "onboard",
               results'[r].boot = boot'
        PROVE  policy'[Lower[asked'[r].user]] # NoPolicy
    <3>1. CASE r = b
      BY <1>4, <2>1, <2>5, <3>1 DEF Accepted, Takes
    <3>2. CASE r # b
      <4>1. Accepted(r) /\ policy[Lower[asked[r].user]] # NoPolicy
        BY <1>1, <2>1, <2>5, <3>2 DEF InForce, Accepted
      <4>2. asked[r] \in Calls
        BY <4>1, ResultsAreAsked DEF Accepted, LiveInv, Asks
      <4>3. Lower[asked[r].user] \in Wire
        BY <2>1, <2>5, <4>2, LiveAssumption, GuardAssumption DEF Call
      <4> QED BY <1>4, <2>1, <4>1, <4>3 DEF Takes
    <3> QED BY <3>1, <3>2
  <2> QED BY <2>2, <2>3, <2>4, <2>5 DEF InForce
<1>5. ASSUME NEW lost \in SUBSET queued, Reboot(lost)
      PROVE  InForce'
  <2>1. /\ boot' = boot + 1 /\ results' = results
        /\ seed' = NoSeed
    BY <1>5 DEF Reboot, Restart, Blank
  <2>2. \A a \in Actions : results[a] # NoResult => results[a].boot \in Int /\ results[a].boot <= boot
    BY <1>1 DEF InForce, Recorded, Result
  <2>3. \A a \in Actions : results'[a] # NoResult => results'[a].boot <= boot' /\ results'[a].boot # boot'
    BY <1>1, <2>1, <2>2
  <2> QED BY <1>1, <2>1, <2>3 DEF InForce, Accepted
<1> QED BY <1>3, <1>4, <1>5, StepShapes
    DEF Launch, Dies, Die, SeedSent, AwaitSeed, Arrive, Lock, Posted, PollAgain, Fails,
        PollSucceeds, liveVars, proxyVars, rest, vars, tenantVars

(* What was known to be done before a request came is done, after every    *)
(* step.                                                                   *)
LEMMA NextEarlierDone ==
  ASSUME LiveInv, HistoryInv, [LiveNext]_liveVars
  PROVE  EarlierDone'
<1>1. EarlierDone /\ TakenOnce /\ ServerTyped /\ SeedActions \subseteq Actions
  BY ActionKinds DEF HistoryInv
<1>2. ASSUME NEW q \in Requests, earlier'[q] = earlier[q]
      PROVE  /\ \A r \in earlier'[q] \cap Requests : thread'[r] = "answered"
             /\ \A a \in earlier'[q] \cap SeedActions : Accepted(a)'
  BY <1>1, <1>2, AnsweredLasts, AcceptedLasts DEF EarlierDone
<1>3. CASE earlier' = earlier
  BY <1>2, <1>3 DEF EarlierDone
<1>4. ASSUME NEW r \in Requests, NEW c \in Calls, Arrive(r, c)
      PROVE  EarlierDone'
  <2>1. /\ earlier'[r] = {q \in Requests : thread[q] = "answered"} \cup {SeedAction}
        /\ \A q \in Requests \ {r} : earlier'[q] = earlier[q]
        /\ Accepted(SeedAction)
    BY <1>1, <1>4 DEF Arrive, TakenOnce, ServerTyped
  <2>2. \A q \in earlier'[r] \cap Requests : thread'[q] = "answered"
    BY <1>1, <2>1, ActionKinds, AnsweredLasts DEF ServerTyped
  <2>3. \A a \in earlier'[r] \cap SeedActions : Accepted(a)'
    BY <1>1, <2>1, ActionKinds, AcceptedLasts
  <2> QED BY <1>2, <2>1, <2>2, <2>3 DEF EarlierDone
<1> QED BY <1>3, <1>4, StepShapes
    DEF Launch, Dies, Die, SeedSent, AwaitSeed, Lock, Posted, PollAgain, Fails, PollSucceeds,
        Takes, Reboot, liveVars, serverVars, rest

(* The enclave does not refuse what it promised in this boot.              *)
LEMMA NextServed ==
  ASSUME LiveInv, HistoryInv, [LiveNext]_liveVars
  PROVE  Served'
<1>1. /\ Served /\ EarlierDone /\ AnswersAreResults /\ AnswersAreResults' /\ InForce
      /\ Recorded /\ TakenOnce /\ Requests \subseteq Actions /\ SeedActions \subseteq Actions
  BY NextAnswers, ActionKinds DEF HistoryInv
<1>2. SUFFICES ASSUME NEW q \in Requests, Rejected(q)', WithinOnboarding(asked'[q]),
                      NEW r \in earlier'[q] \cap Requests, NEW a \in earlier'[q] \cap SeedActions,
                      answer'[r].what = "onboarded",
                      Lower[asked'[r].user] = Lower[asked'[q].user],
                      results'[a].boot = results'[q].boot,
                      results'[r].boot = results'[q].boot
               PROVE  FALSE
  BY DEF Served, OnboardedBefore, WithinOnboarding
<1>3. earlier'[q] = earlier[q] /\ asked'[q] = asked[q]
  <2>1. asked[q] # NoCall
    <3>1. CASE results'[q] = results[q]
      BY <1>2, <3>1, ResultsAreAsked DEF Rejected
    <3>2. ASSUME NEW b \in Actions, NEW n \in {0, 1}, NEW s \in Signed', Takes(b, n, s)
          PROVE  asked[q] # NoCall
      <4>1. q \in queued \/ results'[q] = results[q]
        BY <1>1, <3>2 DEF Takes, Recorded
      <4> QED BY <3>1, <4>1 DEF LiveInv, Asks
    <3> QED BY <3>1, <3>2, StepShapes
        DEF Launch, Dies, SeedSent, AwaitSeed, Arrive, Lock, Posted, PollAgain, Fails,
            PollSucceeds, Reboot, liveVars, proxyVars, rest
  <2>2. asked'[q] = asked[q]
    BY <2>1, AskedLasts
  <2>3. ASSUME NEW p \in Requests, NEW c \in Calls, Arrive(p, c)
        PROVE  earlier'[q] = earlier[q]
    BY <2>1, <2>3, NextFree DEF Arrive, HistoryInv, ServerTyped
  <2> QED BY <2>2, <2>3, StepShapes
      DEF Launch, Dies, Die, SeedSent, AwaitSeed, Lock, Posted, PollAgain, Fails, PollSucceeds,
          Takes, Reboot, liveVars, serverVars, rest
<1>4. thread[r] = "answered" /\ Accepted(a) /\ results'[a] = results[a]
  BY <1>1, <1>2, <1>3, AcceptedLasts DEF EarlierDone
<1>5. answer[r].what = "onboarded" /\ asked'[r] = asked[r]
  BY <1>2, <1>4, AnsweredLasts, AskedLasts
<1>6. Accepted(r) /\ asked[r].route = "onboard" /\ results'[r] = results[r]
  BY <1>1, <1>5, AcceptedLasts DEF AnswersAreResults
<1>7. CASE results'[q] = results[q]
  <2>1. Rejected(q) /\ WithinOnboarding(asked[q])
    BY <1>2, <1>3, <1>7 DEF Rejected
  <2>2. OnboardedBefore(q)
    BY <1>2, <1>3, <1>4, <1>5, <1>6, <1>7 DEF OnboardedBefore
  <2> QED BY <1>1, <2>1, <2>2 DEF Served
<1>8. ASSUME NEW b \in Actions, NEW n \in {0, 1}, NEW s \in Signed', Takes(b, n, s)
      PROVE  FALSE
  <2>1. CASE q # b
    BY <1>1, <1>7, <1>8, <2>1 DEF Takes, Recorded
  <2>2. CASE q = b
    <3>1. results'[q] = [status |-> n, boot |-> boot, signature |-> s]
      BY <1>1, <1>8, <2>2 DEF Takes, Recorded
    <3>2. n = 0
      BY <1>2, <3>1 DEF Rejected
    <3>3. seed # MasterSeed \/ policy[Lower[asked[q].user]] = NoPolicy
      BY <1>2, <1>3, <1>8, <2>2, <3>2 DEF Takes
    <3>4. results[a].boot = boot /\ results[r].boot = boot
      BY <1>2, <1>4, <1>6, <3>1
    <3>5. seed = MasterSeed
      BY <1>1, <1>4, <3>4 DEF InForce
    <3>6. policy[Lower[asked[r].user]] # NoPolicy
      BY <1>1, <1>6, <3>4 DEF InForce
    <3> QED BY <1>2, <1>3, <1>5, <3>3, <3>5, <3>6
  <2> QED BY <2>1, <2>2
<1> QED BY <1>7, <1>8, StepShapes
    DEF Launch, Dies, SeedSent, AwaitSeed, Arrive, Lock, Posted, PollAgain, Fails, PollSucceeds,
        Reboot, liveVars, proxyVars, rest

-----------------------------------------------------------------------------
(* At first there is nothing to answer for.                                *)
LEMMA InitHistory == LiveInit => HistoryInv
<1> SUFFICES ASSUME LiveInit PROVE HistoryInv
  OBVIOUS
<1>1. ServerTyped
  BY LiveAssumption DEF LiveInit, ServerTyped, Threads
<1>2. Numbered
  BY LiveAssumption DEF LiveInit, Numbered
<1>3. Recorded
  BY DEF LiveInit, Recorded, Unanswered, Answers, Signed
<1>4. \A a \in Actions : results[a] = NoResult
  BY DEF LiveInit
<1>5. TakenOnce
  BY <1>4, ActionKinds DEF LiveInit, TakenOnce
<1>6. ResultsAreOwn /\ InForce
  BY <1>4, ActionKinds DEF LiveInit, Init, Blank, ResultsAreOwn, InForce, Accepted
<1>7. AnswersAreResults
  BY DEF LiveInit, Unanswered, AnswersAreResults
<1>8. EarlierDone /\ Served
  BY <1>4, ActionKinds DEF LiveInit, EarlierDone, Served, OnboardedBefore
<1> QED BY <1>1, <1>2, <1>3, <1>5, <1>6, <1>7, <1>8 DEF HistoryInv

(* Every step keeps what is known of results and answers.                  *)
LEMMA NextHistory ==
  ASSUME LiveInv, HistoryInv, [LiveNext]_liveVars
  PROVE  HistoryInv'
BY NextTyped, NextNumbered, NextRecorded, NextTakenOnce, NextResultsAreOwn, NextAnswers,
   NextInForce, NextEarlierDone, NextServed DEF HistoryInv

(* What holds of results, answers and the policies behind them.            *)
LEMMA HistoryInvariant == LiveSafety => []HistoryInv
<1>1. LiveInv /\ HistoryInv /\ [LiveNext]_liveVars => HistoryInv'
  BY NextHistory
<1> QED BY <1>1, InitHistory, LiveInvariant, PTL DEF LiveSafety

(* The state of server, proxy and trust core keeps its types.              *)
THEOREM LiveTyped == LiveSafety => []LiveTypeOK
<1>1. LiveInv /\ HistoryInv => LiveTypeOK
  BY DEF LiveInv, IInv, Asks, HistoryInv, ServerTyped, Recorded, Signed, LiveTypeOK
<1> QED BY <1>1, LiveInvariant, HistoryInvariant, PTL

(* main.go: polls go by the id that sendDirect returned to this goroutine, *)
(* so that in any interleaving, with late, lost and repeated requests, a   *)
(* signature in an answer was made for that very request and user.         *)
THEOREM ClientsGetTheirOwn == LiveSafety => []AnswersAreOwn
<1>1. HistoryInv => AnswersAreOwn
  BY DEF HistoryInv, AnswersAreResults, MadeFor, AnswersAreOwn
<1> QED BY <1>1, HistoryInvariant, PTL

(* handleOnboard answers only after the enclave's: until the enclave       *)
(* restarts, it does not refuse a user what onboarding promised.           *)
THEOREM OnboardingHolds == LiveSafety => []OnboardedIsServed
<1>1. HistoryInv => OnboardedIsServed
  BY DEF HistoryInv, AnswersAreResults, Served, OnboardedBefore, OnboardedIsServed
<1> QED BY <1>1, HistoryInvariant, PTL

-----------------------------------------------------------------------------
(* How much a goroutine has still to do.                                   *)

(* WorkLeft is a natural number, 0 only where there is nothing left.       *)
LEMMA WorkIs ==
  ASSUME ServerTyped, NEW r \in Requests
  PROVE  /\ WorkLeft(r) \in Nat
         /\ WorkLeft(r) > 0 <=> thread[r] \in {"locking", "posting", "polling"}
         /\ tries[r] \in 0..MaxPolls /\ MaxPolls \in Nat
<1>1. tries[r] \in 0..MaxPolls /\ MaxPolls \in Nat /\ thread[r] \in Threads
  BY LiveAssumption DEF ServerTyped, Actions
<1> QED  BY <1>1 DEF WorkLeft, Threads

(* A goroutine's own step.                                                 *)
LEMMA OwnStepAdvances ==
  ASSUME ServerTyped, ServerTyped', NEW r \in Requests,
         Lock(r) \/ Posted(r) \/ PollAgain(r) \/ Fails(r) \/ PollSucceeds(r)
  PROVE  WorkLeft(r)' < WorkLeft(r)
<1>1. /\ thread \in [Requests -> Threads] /\ tries \in [Actions -> 0..MaxPolls]
      /\ r \in Actions /\ tries[r] \in 0..MaxPolls /\ MaxPolls \in Nat
  BY LiveAssumption DEF ServerTyped, Actions
<1>2. CASE Lock(r)
  <2>1. thread[r] = "locking" /\ thread'[r] = "posting"
    BY <1>1, <1>2 DEF Lock
  <2> QED  BY <1>1, <2>1 DEF WorkLeft
<1>3. CASE Posted(r)
  <2>1. thread[r] = "posting" /\ thread'[r] = "polling" /\ tries' = tries
    BY <1>1, <1>3 DEF Posted
  <2> QED  BY <1>1, <2>1 DEF WorkLeft
<1>4. CASE PollAgain(r)
  <2>1. thread[r] = "polling" /\ thread' = thread /\ tries'[r] = tries[r] + 1
    BY <1>1, <1>4 DEF PollAgain
  <2> QED  BY <1>1, <2>1 DEF WorkLeft
<1>5. CASE Fails(r) \/ PollSucceeds(r)
  <2>1. thread[r] \in {"posting", "polling"} /\ thread'[r] = "answered"
    BY <1>1, <1>5 DEF Fails, PollSucceeds, AnswerWith
  <2> QED  BY <1>1, <2>1 DEF WorkLeft
<1> QED  BY <1>2, <1>3, <1>4, <1>5

(* main.go: whatever clients, the proxy, the enclave and restarts do, a    *)
(* request's goroutine only goes forward, in at most MaxPolls + 3 steps    *)
(* from its first.  With sendMu handed on and POSTs that end it answers.   *)
THEOREM HandlersAdvance == LiveSafety => EveryHandlerAdvances
<1> DEFINE Forward(r) == WorkLeft(r) > 0 =>
                           WorkLeft(r)' < WorkLeft(r) \/ UNCHANGED <<thread[r], tries[r]>>
<1>1. ASSUME LiveInv, HistoryInv, HistoryInv', [LiveNext]_liveVars, NEW r \in Requests
      PROVE  Forward(r)
  <2> SUFFICES ASSUME WorkLeft(r) > 0
               PROVE  WorkLeft(r)' < WorkLeft(r) \/ UNCHANGED <<thread[r], tries[r]>>
    OBVIOUS
  <2>1. /\ ServerTyped /\ ServerTyped' /\ thread[r] \in {"locking", "posting", "polling"}
        /\ thread \in [Requests -> Threads] /\ tries \in [Actions -> 0..MaxPolls]
        /\ WorkLeft(r) \in Nat /\ r \in Actions
    BY <1>1, WorkIs DEF HistoryInv, ServerTyped, Actions
  <2>2. CASE \E q \in Requests :
               Lock(q) \/ Posted(q) \/ PollAgain(q) \/ Fails(q) \/ PollSucceeds(q)
    <3>1. PICK q \in Requests :
            Lock(q) \/ Posted(q) \/ PollAgain(q) \/ Fails(q) \/ PollSucceeds(q)
      BY <2>2
    <3>2. CASE q = r
      BY <2>1, <3>1, <3>2, OwnStepAdvances
    <3>3. CASE q # r
      <4>1. /\ thread' = thread \/ \E t : thread' = [thread EXCEPT ![q] = t]
            /\ tries' = tries \/ \E n : tries' = [tries EXCEPT ![q] = n]
        BY <3>1 DEF Lock, Posted, PollAgain, Fails, PollSucceeds, AnswerWith
      <4> QED  BY <2>1, <3>3, <4>1
    <3> QED  BY <3>2, <3>3
  <2>3. CASE \E q \in Requests, c \in Calls : Arrive(q, c)
    <3>1. PICK q \in Requests, c \in Calls : Arrive(q, c)
      BY <2>3
    <3>2. asked[q] = NoCall
      BY <1>1, <3>1, NextFree
    <3>3. q # r
      BY <1>1, <2>1, <3>2 DEF LiveInv, Asks
    <3>4. /\ \E t : thread' = [thread EXCEPT ![q] = t]
          /\ tries' = tries \/ tries' = [tries EXCEPT ![q] = 0]
      BY <3>1 DEF Arrive, AnswerWith
    <3> QED  BY <2>1, <3>3, <3>4
  <2>4. CASE Dies
    <3>1. thread'[r] = "gone"
      BY <2>1, <2>4 DEF Dies, Die
    <3>2. WorkLeft(r)' = 0
      BY <3>1 DEF WorkLeft
    <3> QED  BY <2>1, <3>2
  <2>5. CASE AwaitSeed
    <3>1. /\ thread' = thread
          /\ tries' \in {[tries EXCEPT ![SeedAction] = @ + 1], [tries EXCEPT ![SeedAction] = 0]}
      BY <2>5 DEF AwaitSeed
    <3>2. r # SeedAction
      BY <1>1, RequestsArePositive DEF SeedAction, LiveInv, Asks
    <3> QED  BY <2>1, <3>1, <3>2
  <2>6. CASE \/ Launch \/ SeedSent \/ UNCHANGED liveVars
             \/ \E a \in Actions, n \in {0, 1}, s \in Signed' : Takes(a, n, s)
             \/ \E lost \in SUBSET queued : Reboot(lost)
    BY <2>6 DEF Launch, SeedSent, Takes, Reboot, liveVars, serverVars
  <2> QED  BY <1>1, <2>2, <2>3, <2>4, <2>5, <2>6, StepShapes
<1>2. LiveInv /\ HistoryInv /\ HistoryInv' /\ [LiveNext]_liveVars
        => [\A r \in Requests : Forward(r)]_liveVars
  BY <1>1
<1> QED  BY <1>2, LiveInvariant, HistoryInvariant, PTL DEF LiveSafety, EveryHandlerAdvances
=============================================================================
