----------------------------- MODULE LiveServer -----------------------------
(***************************************************************************)
(* The live-server (tools/cmd/live-server/main.go) in front of the trust   *)
(* core: one goroutine per HTTP request, sendMu around the POST of an      *)
(* action, up to 60 polls for its result; and main, which delivers the     *)
(* master seed once before it serves.  Between the two sits the TEE proxy, *)
(* of which nothing more is assumed than that it keeps the actions it was  *)
(* given and the results it got: the enclave takes actions in any order.   *)
(* The enclave may restart behind a server that keeps running.             *)
(***************************************************************************)
EXTENDS Enclave, FiniteSets

CONSTANTS
  MasterSeed,     \* masterSeedHex
  Fxrp,           \* fxrp
  DefaultVenue,   \* defaultVenue
  TxCap,          \* maxTxAmount
  Calls,          \* what clients may ask for
  NoCall,
  NoResult,
  NoSignature,
  MaxRequests,    \* bound: requests per behaviour
  MaxPolls,       \* poll's 60 attempts
  MaxBoots,       \* bound: times the enclave boots
  MaxLaunches     \* bound: times the live-server is started

Requests == 1..MaxRequests
SeedActions == {-n : n \in 1..MaxLaunches}
Actions == Requests \cup SeedActions

(* A call with everything a handler reads of it.  dest is `venue` or `to`; *)
(* amount and dest are Malformed when the enclave's parsers refuse them.   *)
(* Requests that fail CORS, authorisation, method, JSON or validAddr are   *)
(* the route "invalid".                                                    *)
Call ==
  [route : {"onboard", "allocate", "withdraw", "invalid"}, user : Wire,
   risk : {"conservative", "moderate", "growth", "padded"},
   amount : Nat \cup {Malformed}, dest : Wire \cup {Absent, Malformed}]

(* healthFloor of what normalizeRisk returns.                              *)
HealthFloor(risk) ==
  CASE risk = "conservative" -> 15000
    [] risk = "growth" -> 12000
    [] OTHER -> 13000

(* normalizeRisk matches the trimmed spelling but returns the untrimmed    *)
(* one, which parsePolicy does not know: no policy comes of it.            *)
PolicyParses(c) == c.risk # "padded"

PolicyOf(c) ==
  [owner |-> c.user, returnAddress |-> c.user, asset |-> Fxrp,
   allowedVenues |-> {DefaultVenue}, maxVenueBps |-> 10000,
   maxTxAmount |-> TxCap, minHealthFactorBps |-> HealthFloor(c.risk)]

VenueOf(c) == IF c.dest = Absent THEN DefaultVenue ELSE c.dest

IntentParses(c) == c.amount # Malformed /\ c.dest # Malformed

(* What parseVaultIntent makes of the payload of /allocate or /withdraw.   *)
IntentOf(c) ==
  IF ~IntentParses(c) THEN Malformed
  ELSE [kind |-> c.route, asset |-> Fxrp, amount |-> c.amount, dest |-> VenueOf(c),
        userAuthorized |-> c.route = "withdraw",
        portfolioValue |-> IF c.route = "allocate" THEN c.amount ELSE Absent,
        venueBalance |-> IF c.route = "allocate" THEN 0 ELSE Absent,
        projectedHealthFactorBps |-> Absent]

(* deriveWalletAddress: the address /onboard reports, from the server's    *)
(* own copy of the seed.                                                   *)
DerivedWallet(user) == <<MasterSeed, Lower[user]>>

ASSUME LiveAssumption ==
  /\ MasterSeed \in Seeds
  /\ {Fxrp, DefaultVenue} \subseteq Wire
  /\ TxCap \in 0..MaxUint
  /\ Calls \subseteq Call /\ NoCall \notin Calls
  /\ \A c \in Calls :
       /\ c.route = "onboard" /\ PolicyParses(c) => PolicyOf(c) \in Policies
       /\ c.route \in {"allocate", "withdraw"} /\ IntentParses(c) => IntentOf(c) \in Intents
       /\ c.route = "withdraw" => c.dest # Absent
  /\ MaxRequests \in Nat /\ MaxLaunches \in Nat
  /\ MaxPolls \in Nat \ {0} /\ MaxBoots \in Nat \ {0}

VARIABLES
  main,      \* where main is: posting and polling the seed, serving or down
  launch,    \* how often the server has been started
  boot,      \* which boot of the enclave this is
  sealedTo,  \* the boot whose public key a seed was encrypted to
  asked,     \* the requests so far
  thread,    \* where each request's goroutine is
  sendMu,    \* who holds sendMu, 0 for nobody
  queued,    \* actions the proxy holds for the enclave
  results,   \* results the proxy holds for polling
  tries,     \* polls that found no result
  answer,    \* what a request was answered
  earlier    \* history: actions known to be done when this request came

serverVars == <<main, launch, asked, thread, sendMu, tries, answer, earlier>>
proxyVars == <<queued, results>>
rest == <<main, launch, asked, earlier, boot, sealedTo, vars>>  \* no goroutine's
liveVars == <<serverVars, proxyVars, boot, sealedTo, vars>>

Threads == {"none", "locking", "posting", "polling", "answered", "gone"}
Answers == {"none", "invalid", "failed", "onboarded", "refused", "signed"}

Unanswered == [what |-> "none", signature |-> NoSignature]

Result ==
  [status : {0, 1}, boot : 1..MaxBoots, signature : issued \cup {NoSignature}]

LiveTypeOK ==
  /\ TypeOK
  /\ main \in {"down", "posting", "polling", "serving"}
  /\ launch \in 0..MaxLaunches
  /\ boot \in 1..MaxBoots
  /\ sealedTo \in [SeedActions -> 0..MaxBoots]
  /\ asked \in [Requests -> Calls \cup {NoCall}]
  /\ thread \in [Requests -> Threads]
  /\ sendMu \in Requests \cup {0}
  /\ sendMu # 0 => thread[sendMu] = "posting"
  /\ queued \subseteq Actions
  /\ \A a \in Actions : results[a] # NoResult => results[a] \in Result
  /\ tries \in [Actions -> 0..MaxPolls]
  /\ answer \in [Requests -> [what : Answers, signature : issued \cup {NoSignature}]]
  /\ earlier \in [Requests -> SUBSET Actions]

LiveInit ==
  /\ Init
  /\ main = "down"
  /\ launch = 0
  /\ boot = 1
  /\ sealedTo = [a \in SeedActions |-> 0]
  /\ asked = [r \in Requests |-> NoCall]
  /\ thread = [r \in Requests |-> "none"]
  /\ sendMu = 0
  /\ queued = {}
  /\ results = [a \in Actions |-> NoResult]
  /\ tries = [a \in Actions |-> 0]
  /\ answer = [r \in Requests |-> Unanswered]
  /\ earlier = [r \in Requests |-> {}]

-----------------------------------------------------------------------------
(* main.                                                                   *)

SeedAction == -launch

(* The server is started and reads the TEE's key from /info.               *)
Launch ==
  /\ main = "down"
  /\ launch < MaxLaunches
  /\ launch' = launch + 1
  /\ main' = "posting"
  /\ sealedTo' = [sealedTo EXCEPT ![-(launch + 1)] = boot]
  /\ UNCHANGED <<asked, thread, sendMu, tries, answer, earlier, proxyVars, boot, vars>>

(* The process ends: log.Fatalf, or stopped from outside.                  *)
Die ==
  /\ main' = "down"
  /\ thread' = [r \in Requests |->
                  IF thread[r] \in {"locking", "posting", "polling"} THEN "gone" ELSE thread[r]]
  /\ sendMu' = 0
  /\ tries' = [a \in Actions |-> 0]
  /\ UNCHANGED <<launch, asked, answer, earlier, boot, sealedTo, vars>>

Stop == main # "down" /\ Die /\ UNCHANGED proxyVars

SendSeed ==
  /\ main = "posting"
  /\ \/ /\ main' = "polling"
        /\ queued' = queued \cup {SeedAction}
        /\ UNCHANGED <<launch, asked, thread, sendMu, tries, answer, earlier,
                       results, boot, sealedTo, vars>>
     \/ Die /\ queued' \in {queued, queued \cup {SeedAction}} /\ UNCHANGED results

AwaitSeed ==
  /\ main = "polling"
  /\ \/ /\ results[SeedAction] = NoResult
        /\ tries[SeedAction] + 1 < MaxPolls
        /\ tries' = [tries EXCEPT ![SeedAction] = @ + 1]
        /\ UNCHANGED main
     \/ /\ results[SeedAction] # NoResult
        /\ results[SeedAction].status = 1
        /\ main' = "serving"
        /\ tries' = [tries EXCEPT ![SeedAction] = 0]
  /\ UNCHANGED <<launch, asked, thread, sendMu, answer, earlier, proxyVars,
                 boot, sealedTo, vars>>

(* No result in time, a refused seed, or an error of the poll itself.      *)
SeedFails == main = "polling" /\ Die /\ UNCHANGED proxyVars

-----------------------------------------------------------------------------
(* The request handlers.                                                   *)

AnswerWith(r, what, s) ==
  /\ thread' = [thread EXCEPT ![r] = "answered"]
  /\ tries' = [tries EXCEPT ![r] = 0]
  /\ answer' = [answer EXCEPT ![r] = [what |-> what, signature |-> s]]

(* Up to the payload.                                                      *)
Arrive(r, c) ==
  /\ main = "serving"
  /\ r = Cardinality({q \in Requests : asked[q] # NoCall}) + 1
  /\ asked' = [asked EXCEPT ![r] = c]
  /\ earlier' = [earlier EXCEPT ![r] = {q \in Requests : thread[q] = "answered"} \cup {SeedAction}]
  /\ IF c.route = "invalid"
     THEN AnswerWith(r, "invalid", NoSignature)
     ELSE thread' = [thread EXCEPT ![r] = "locking"] /\ UNCHANGED <<tries, answer>>
  /\ UNCHANGED <<main, launch, sendMu, proxyVars, boot, sealedTo, vars>>

Lock(r) ==
  /\ thread[r] = "locking"
  /\ sendMu = 0
  /\ sendMu' = r
  /\ thread' = [thread EXCEPT ![r] = "posting"]
  /\ UNCHANGED <<rest, tries, answer, proxyVars>>

(* sendDirect succeeds and sendMu is released.                             *)
Posted(r) ==
  /\ thread[r] = "posting"
  /\ queued' = queued \cup {r}
  /\ thread' = [thread EXCEPT ![r] = "polling"]
  /\ sendMu' = 0
  /\ UNCHANGED <<rest, tries, answer, results>>

(* A planted fault: a POST that fails is made again, behind the others.    *)
PostRetried(r) ==
  /\ thread[r] = "posting"
  /\ thread' = [thread EXCEPT ![r] = "locking"]
  /\ queued' \in {queued, queued \cup {r}}
  /\ sendMu' = 0
  /\ UNCHANGED <<rest, tries, answer, results>>

(* The POST fails before or after the proxy has taken the action.          *)
PostFails(r) ==
  /\ thread[r] = "posting"
  /\ AnswerWith(r, "failed", NoSignature)
  /\ queued' \in {queued, queued \cup {r}}
  /\ sendMu' = 0
  /\ UNCHANGED <<rest, results>>

(* 404: not ready, ask again a second later.                               *)
PollAgain(r) ==
  /\ thread[r] = "polling"
  /\ results[r] = NoResult
  /\ tries[r] + 1 < MaxPolls
  /\ tries' = [tries EXCEPT ![r] = @ + 1]
  /\ UNCHANGED <<rest, thread, sendMu, answer, proxyVars>>

(* A planted fault: `for {` in place of the 60 attempts.                   *)
PollForever(r) == FALSE

(* The last 404.                                                           *)
PollExpires(r) ==
  /\ thread[r] = "polling"
  /\ results[r] = NoResult
  /\ tries[r] + 1 >= MaxPolls
  /\ AnswerWith(r, "failed", NoSignature)
  /\ UNCHANGED <<rest, sendMu, proxyVars>>

(* Any other error of a poll ends it.                                      *)
PollBreaks(r) ==
  /\ thread[r] = "polling"
  /\ AnswerWith(r, "failed", NoSignature)
  /\ UNCHANGED <<rest, sendMu, proxyVars>>

(* A planted fault: the id of the action is kept in a package variable.    *)
ResultOfLastSent(r) ==
  results[CHOOSE q \in Requests :
            /\ thread[q] = "polling"
            /\ \A p \in Requests : thread[p] = "polling" => p <= q]

ResultOf(r) == results[r]

(* A planted fault: handleOnboard does not look at pstatus.                *)
OnboardAlways(status) == "onboarded"

OnboardAnswer(status) == IF status = 1 THEN "onboarded" ELSE "failed"

ActionAnswer(status) == IF status = 1 THEN "signed" ELSE "refused"

PollSucceeds(r) ==
  /\ thread[r] = "polling"
  /\ ResultOf(r) # NoResult
  /\ AnswerWith(r, IF asked[r].route = "onboard"
                   THEN OnboardAnswer(ResultOf(r).status)
                   ELSE ActionAnswer(ResultOf(r).status),
                ResultOf(r).signature)
  /\ UNCHANGED <<rest, sendMu, proxyVars>>

-----------------------------------------------------------------------------
(* The enclave, behind the proxy.                                          *)

Store(a, status, sigs) ==
  /\ queued' = queued \ {a}
  /\ results' = [results EXCEPT ![a] =
       [status |-> status, boot |-> boot,
        signature |-> IF sigs = {} THEN NoSignature ELSE CHOOSE s \in sigs : TRUE]]
  /\ UNCHANGED <<serverVars, boot, sealedTo>>

(* UPDATE_KEY: decrypts in the boot it was encrypted to, and in no other.  *)
TakeSeed(a) ==
  /\ a \in queued \cap SeedActions
  /\ \/ sealedTo[a] = boot /\ UpdateKey(MasterSeed) /\ Store(a, 1, {})
     \/ sealedTo[a] # boot /\ UNCHANGED vars /\ Store(a, 0, {})

TakePolicy(r) ==
  /\ r \in queued \cap Requests
  /\ asked[r].route = "onboard"
  /\ \/ PolicyParses(asked[r]) /\ SetPolicy(PolicyOf(asked[r])) /\ Store(r, 1, {})
     \/ ~PolicyParses(asked[r]) /\ UNCHANGED vars /\ Store(r, 0, {})

SignatureOn(w, i) ==
  [owner |-> Lower[w], signer |-> WalletOf(seed, w), intent |-> i, under |-> policy[Lower[w]]]

TakeAction(r) ==
  LET w == asked[r].user
      i == IntentOf(asked[r])
  IN
  /\ r \in queued \cap Requests
  /\ asked[r].route \in {"allocate", "withdraw"}
  /\ \/ ~Judged(w, i) /\ Materialise(w) /\ Store(r, 0, {})
     \/ RefuseAction(w, i) /\ Store(r, 0, {})
     \/ SignAction(w, i) /\ Store(r, 1, {SignatureOn(w, i)})

(* The enclave's container ends, with the actions it had fetched, and      *)
(* boots again with a new key.                                             *)
Reboot(lost) ==
  /\ boot < MaxBoots
  /\ boot' = boot + 1
  /\ queued' = queued \ lost
  /\ Restart
  /\ UNCHANGED <<serverVars, results, sealedTo>>

-----------------------------------------------------------------------------
(* What goroutine r does by itself: the POST is not its to end, nor is a   *)
(* broken poll its to give.                                                *)
Handle(r) == Lock(r) \/ PollAgain(r) \/ PollExpires(r) \/ PollSucceeds(r)

LiveNext ==
  \/ Launch \/ Stop \/ SendSeed \/ AwaitSeed \/ SeedFails
  \/ \E r \in Requests, c \in Calls : Arrive(r, c)
  \/ \E r \in Requests :
       \/ Lock(r) \/ Posted(r) \/ PostFails(r)
       \/ PollAgain(r) \/ PollExpires(r) \/ PollBreaks(r) \/ PollSucceeds(r)
  \/ \E a \in SeedActions : TakeSeed(a)
  \/ \E r \in Requests : TakePolicy(r) \/ TakeAction(r)
  \/ \E lost \in SUBSET queued : Reboot(lost)

LiveSafety == LiveInit /\ [][LiveNext]_liveVars

(* Goroutines are scheduled and a free Mutex is handed on; a POST need not *)
(* return, and neither the enclave nor its results are owed to anybody.    *)
LiveSpec == LiveSafety /\ \A r \in Requests : WF_liveVars(Handle(r))

-----------------------------------------------------------------------------
(* What the guard leaves of the server's reach: whatever clients ask for,  *)
(* in any interleaving, every signature the enclave gives for it moves     *)
(* FXRP within the cap to the one venue onboarding lists, or home to its   *)
(* own user.  /allocate passes any venue on, and /withdraw any `to` with   *)
(* userAuthorized set.                                                     *)
LiveSignaturesStayHome ==
  \A s \in issued :
    /\ s.intent.amount \in 1..TxCap
    /\ EqAddr(s.intent.asset, Fxrp)
    /\ Lower[s.intent.dest] \in {Lower[DefaultVenue], s.owner}

(* Goroutines do not answer with each other's results: a signature handed  *)
(* to a client is one the enclave made for that very request, with the     *)
(* wallet /onboard reports for its user.                                   *)
AnswersAreOwn ==
  \A r \in Requests : answer[r].what = "signed" =>
    LET s == answer[r].signature IN
    /\ s \in issued
    /\ s.owner = Lower[asked[r].user]
    /\ s.intent = IntentOf(asked[r])
    /\ s.signer = DerivedWallet(asked[r].user)

(* An action onboarding promises: within the cap, to the venue or home.    *)
WithinOnboarding(c) ==
  /\ c.route \in {"allocate", "withdraw"}
  /\ IntentParses(c)
  /\ c.amount \in 1..TxCap
  /\ Lower[VenueOf(c)] = IF c.route = "allocate" THEN Lower[DefaultVenue] ELSE Lower[c.user]

(* "onboarded" can be relied on: while the enclave has not restarted since *)
(* it got the seed, an action within the policy is not refused to a user   *)
(* who had been answered so before asking.                                 *)
OnboardedIsServed ==
  \A q \in Requests :
    answer[q].what = "refused" /\ WithinOnboarding(asked[q]) =>
      ~ \E r \in earlier[q] \cap Requests, a \in earlier[q] \cap SeedActions :
          /\ answer[r].what = "onboarded"
          /\ Lower[asked[r].user] = Lower[asked[q].user]
          /\ results[a].boot = results[q].boot
          /\ results[r].boot = results[q].boot

(* The most that r's goroutine has still to do.                            *)
WorkLeft(r) ==
  CASE thread[r] = "locking" -> MaxPolls + 3
    [] thread[r] = "posting" -> MaxPolls + 2
    [] thread[r] = "polling" -> MaxPolls + 1 - tries[r]
    [] OTHER -> 0

(* Goroutines only go forward: none waits for sendMu or posts twice, none  *)
(* polls more often than it counts, and no other goroutine, no result, no  *)
(* restart of the enclave sends one back.                                  *)
EveryHandlerAdvances ==
  [][\A r \in Requests :
       WorkLeft(r) > 0 =>
         WorkLeft(r)' < WorkLeft(r) \/ UNCHANGED <<thread[r], tries[r]>>]_liveVars

(* A client gets an answer: as long as POSTs end, for http.Post is given   *)
(* no timeout while sendMu is held, so do the wait for sendMu and the      *)
(* polls, whatever the enclave does, unless the server itself is stopped.  *)
EveryRequestAnswered ==
  []<>(\A q \in Requests : thread[q] # "posting") =>
    \A r \in Requests : thread[r] = "locking" ~> thread[r] \in {"answered", "gone"}
=============================================================================
