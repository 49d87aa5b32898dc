-------------------------- MODULE ExtServer_proofs --------------------------
(***************************************************************************)
(* For every set of requests and every number of them: the server's queue  *)
(* and cache, that a signature leaves under the policy in force, and that  *)
(* the handlers with their awaits implement Enclave's, which carries       *)
(* Enclave's theorems over to the server.                                  *)
(* Then the sums: counters, confirmed drops and /state agree with what was *)
(* answered; and the order of the queue, with the number of steps that a   *)
(* request can still have ahead of it.                                     *)
(***************************************************************************)
EXTENDS ExtServer, PolicyGuard_proofs, FiniteSetTheorems

Holds == [signer : Seeds \X Wire, under : Policies]

(* The queue's part of the types, and the tenants' part.                   *)
HttpTyped ==
  /\ instr \in Seq(Instructions) /\ Len(instr) <= MaxRequests
  /\ phase \in [Requests -> Phases]
  /\ outcome \in [Requests -> Outcomes]
  /\ queue \in Seq(Requests)
  /\ active \subseteq Requests
  /\ stops \in 0..MaxStops

CoreTyped ==
  /\ held \in [Requests -> Holds \cup {NoWallet}]
  /\ cache \in [Wire -> (Seeds \X Wire) \cup {NoWallet}]
  /\ E!TypeOK

(* What serialize() maintains: the queue holds the requests that have not  *)
(* started, each once, at most one handler is suspended, and nothing has   *)
(* an outcome before its answer.                                           *)
QueueInv ==
  /\ \A r \in Requests : phase[r] = "idle" <=> r \notin DOMAIN instr
  /\ \A k \in DOMAIN queue : phase[queue[k]] = "queued"
  /\ \A j, k \in DOMAIN queue : queue[j] = queue[k] => j = k
  /\ active = {r \in Requests : phase[r] \in {"decrypting", "signing"}}
  /\ \A q, r \in active : q = r
  /\ \A r \in Requests : phase[r] # "answered" => outcome[r] = "none"

(* What was established before r's await on the signature and must still   *)
(* hold after it.                                                          *)
Promised(r) ==
  LET u == Lower[instr[r].user] IN
  /\ instr[r].op = "VAULT"
  /\ instr[r].intent # Malformed
  /\ seed # NoSeed
  /\ policy[u] # NoPolicy
  /\ held[r] = [signer |-> <<seed, u>>, under |-> policy[u]]
  /\ Verdict(policy[u], instr[r].intent) = "OK"
  /\ Encodable(instr[r].intent)

AwaitInv ==
  \A r \in Requests :
    /\ phase[r] = "decrypting" => instr[r].op = "UPDATE_KEY"
    /\ phase[r] = "signing" => Promised(r)

SlotsInCensus == \A w \in Wire : policy[w] # NoPolicy => w \in users

IInv ==
  /\ HttpTyped /\ CoreTyped
  /\ QueueInv /\ AwaitInv /\ CacheCoherent /\ SlotsInCensus
-----------------------------------------------------------------------------
(* The queue.                                                              *)

(* Requests received are among the requests, of their payloads' types.     *)
LEMMA Received ==
  ASSUME HttpTyped, NEW r \in DOMAIN instr
  PROVE  r \in Requests /\ instr[r] \in Instruction
<1>1. Len(instr) \in Nat /\ MaxRequests \in Nat /\ DOMAIN instr = 1..Len(instr)
  BY ServerAssumption DEF HttpTyped
<1>2. instr[r] \in Instructions
  BY DEF HttpTyped
<1> QED BY <1>1, <1>2, ServerAssumption DEF HttpTyped, Requests

(* At its turn a request is the queue's first, has no outcome yet and no   *)
(* other handler is suspended; the rest of the queue keeps its shape.      *)
LEMMA AtItsTurn ==
  ASSUME HttpTyped, QueueInv, NEW r \in DOMAIN instr, Turn(r)
  PROVE  /\ r \in Requests /\ phase[r] = "queued" /\ outcome[r] = "none"
         /\ \A q \in Requests : phase[q] \notin {"decrypting", "signing"}
         /\ Tail(queue) \in Seq(Requests)
         /\ \A k \in DOMAIN Tail(queue) :
              k + 1 \in DOMAIN queue /\ Tail(queue)[k] = queue[k + 1]
                /\ Tail(queue)[k] \in Requests \ {r}
<1>1. queue \in Seq(Requests) /\ queue # <<>> /\ queue[1] = r /\ 1 \in DOMAIN queue
  BY DEF Turn, HttpTyped
<1>2. phase[r] = "queued"
  BY <1>1 DEF QueueInv
<1>3. r \in Requests
  BY Received
<1>4. outcome[r] = "none"
  BY <1>2, <1>3 DEF QueueInv
<1>5. \A q \in Requests : phase[q] \notin {"decrypting", "signing"}
  BY DEF QueueInv, Turn
<1>6. Tail(queue) \in Seq(Requests)
  BY <1>1
<1>7. ASSUME NEW k \in DOMAIN Tail(queue)
      PROVE  k + 1 \in DOMAIN queue /\ Tail(queue)[k] = queue[k + 1]
               /\ Tail(queue)[k] \in Requests \ {r}
  <2>1. k \in 1..(Len(queue) - 1) /\ Len(queue) \in Nat
    BY <1>1, <1>6
  <2>2. k + 1 \in DOMAIN queue /\ Tail(queue)[k] = queue[k + 1]
    BY <1>1, <2>1
  <2>3. queue[k + 1] \in Requests
    BY <1>1, <2>2
  <2>4. queue[k + 1] # r
    BY <1>1, <2>1, <2>2 DEF QueueInv
  <2> QED BY <2>2, <2>3, <2>4
<1> QED BY <1>2, <1>3, <1>4, <1>5, <1>6, <1>7

(* A request that arrives is numbered next and joins the queue or is       *)
(* answered.                                                               *)
LEMMA ReceiveHttp ==
  ASSUME HttpTyped, QueueInv, NEW ins \in Instructions, Receive(ins)
  PROVE  /\ HttpTyped' /\ QueueInv'
         /\ \A q \in Requests :
              phase'[q] \in {"decrypting", "signing"} =>
                q \in DOMAIN instr /\ phase[q] = phase'[q] /\ instr'[q] = instr[q]
<1> DEFINE n == Len(instr) + 1
<1>1. /\ instr \in Seq(Instructions) /\ Len(instr) \in Nat /\ n \in Requests
      /\ instr' = Append(instr, ins)
      /\ UNCHANGED <<active, stops>>
  BY DEF Receive, HttpTyped
<1>2. /\ instr' \in Seq(Instructions) /\ Len(instr') = n /\ Len(instr') <= MaxRequests
      /\ DOMAIN instr = 1..Len(instr) /\ DOMAIN instr' = 1..n
      /\ n \notin DOMAIN instr /\ n \in DOMAIN instr'
      /\ \A q \in DOMAIN instr : q \in DOMAIN instr' /\ instr'[q] = instr[q]
      /\ \A q \in DOMAIN instr' : q = n \/ q \in DOMAIN instr
  BY <1>1, ServerAssumption DEF Requests
<1>3. phase[n] = "idle" /\ outcome[n] = "none" /\ n \notin active
  BY <1>1, <1>2 DEF QueueInv
<1>4. CASE ins.op = "UNROUTED"
  <2>1. /\ phase' = [phase EXCEPT ![n] = "answered"]
        /\ outcome' = [outcome EXCEPT ![n] = "unrouted"]
        /\ queue' = queue
    BY <1>4 DEF Receive
  <2>2. HttpTyped'
    BY <1>1, <1>2, <2>1 DEF HttpTyped, Phases, Outcomes
  <2>3. QueueInv'
    <3>1. \A r \in Requests : phase'[r] = "idle" <=> r \notin DOMAIN instr'
      BY <1>1, <1>2, <2>1 DEF QueueInv, HttpTyped
    <3>2. \A k \in DOMAIN queue' : phase'[queue'[k]] = "queued"
      BY <1>1, <1>3, <2>1 DEF QueueInv, HttpTyped
    <3>3. active' = {r \in Requests : phase'[r] \in {"decrypting", "signing"}}
      BY <1>1, <1>3, <2>1 DEF QueueInv, HttpTyped
    <3>4. \A r \in Requests : phase'[r] # "answered" => outcome'[r] = "none"
      BY <1>1, <2>1 DEF QueueInv, HttpTyped
    <3> QED BY <1>1, <2>1, <3>1, <3>2, <3>3, <3>4 DEF QueueInv
  <2>4. \A q \in Requests : phase'[q] \in {"decrypting", "signing"} =>
            q \in DOMAIN instr /\ phase[q] = phase'[q] /\ instr'[q] = instr[q]
    BY <1>1, <1>2, <2>1 DEF QueueInv, HttpTyped
  <2> QED BY <2>2, <2>3, <2>4
<1>5. CASE ins.op # "UNROUTED"
  <2>1. /\ phase' = [phase EXCEPT ![n] = "queued"]
        /\ queue' = Append(queue, n)
        /\ outcome' = outcome
    BY <1>5 DEF Receive
  <2>2. queue \in Seq(Requests) /\ Len(queue) \in Nat
    BY DEF HttpTyped
  <2>3. HttpTyped'
    BY <1>1, <1>2, <2>1, <2>2 DEF HttpTyped, Phases, Outcomes
  <2>4. /\ DOMAIN queue = 1..Len(queue) /\ DOMAIN queue' = 1..(Len(queue) + 1)
        /\ queue'[Len(queue) + 1] = n
        /\ \A k \in DOMAIN queue : queue'[k] = queue[k] /\ queue[k] \in Requests
    BY <1>1, <2>1, <2>2
  <2>5. \A k \in DOMAIN queue : queue[k] # n
    BY <1>3 DEF QueueInv
  <2>6. QueueInv'
    <3>1. \A r \in Requests : phase'[r] = "idle" <=> r \notin DOMAIN instr'
      BY <1>1, <1>2, <2>1 DEF QueueInv, HttpTyped
    <3>2. ASSUME NEW k \in DOMAIN queue'
          PROVE  phase'[queue'[k]] = "queued"
      <4>1. CASE k = Len(queue) + 1
        BY <1>1, <2>1, <2>4, <4>1 DEF HttpTyped
      <4>2. CASE k \in DOMAIN queue
        BY <2>1, <2>4, <2>5, <4>2 DEF QueueInv, HttpTyped
      <4> QED BY <2>2, <2>4, <4>1, <4>2
    <3>3. \A j, k \in DOMAIN queue' : queue'[j] = queue'[k] => j = k
      <4>1. ASSUME NEW k \in DOMAIN queue'
            PROVE  k \in DOMAIN queue \/ k = Len(queue) + 1
        BY <2>2, <2>4
      <4> QED BY <2>4, <2>5, <4>1 DEF QueueInv
    <3>4. active' = {r \in Requests : phase'[r] \in {"decrypting", "signing"}}
      BY <1>1, <1>3, <2>1 DEF QueueInv, HttpTyped
    <3>5. \A r \in Requests : phase'[r] # "answered" => outcome'[r] = "none"
      BY <1>1, <1>3, <2>1 DEF QueueInv, HttpTyped
    <3> QED BY <1>1, <3>1, <3>2, <3>3, <3>4, <3>5 DEF QueueInv
  <2>7. \A q \in Requests : phase'[q] \in {"decrypting", "signing"} =>
            q \in DOMAIN instr /\ phase[q] = phase'[q] /\ instr'[q] = instr[q]
    BY <1>1, <1>2, <2>1 DEF QueueInv, HttpTyped
  <2> QED BY <2>3, <2>6, <2>7
<1> QED BY <1>4, <1>5

(* A handler that runs to its end leaves no handler suspended.             *)
LEMMA AnswerHttp ==
  ASSUME HttpTyped, QueueInv, NEW r \in DOMAIN instr, NEW o \in Outcomes, Answer(r, o)
  PROVE  /\ HttpTyped' /\ QueueInv'
         /\ \A q \in Requests : phase'[q] \notin {"decrypting", "signing"}
<1>1. Turn(r)
  BY DEF Answer
<1>2. /\ r \in Requests /\ phase[r] = "queued" /\ outcome[r] = "none"
      /\ \A q \in Requests : phase[q] \notin {"decrypting", "signing"}
      /\ Tail(queue) \in Seq(Requests)
      /\ \A k \in DOMAIN Tail(queue) :
           k + 1 \in DOMAIN queue /\ Tail(queue)[k] = queue[k + 1]
             /\ Tail(queue)[k] \in Requests \ {r}
  BY <1>1, AtItsTurn
<1>3. /\ queue' = Tail(queue)
      /\ phase' = [phase EXCEPT ![r] = "answered"]
      /\ outcome' = [outcome EXCEPT ![r] = o]
      /\ instr' = instr /\ active' = active /\ stops' = stops
  BY DEF Answer
<1>4. HttpTyped'
  BY <1>2, <1>3 DEF HttpTyped, Phases
<1>5. \A q \in Requests : phase'[q] \notin {"decrypting", "signing"}
  BY <1>2, <1>3 DEF HttpTyped
<1>6. QueueInv'
  <2>1. \A q \in Requests : phase'[q] = "idle" <=> q \notin DOMAIN instr'
    BY <1>2, <1>3 DEF QueueInv, HttpTyped
  <2>2. \A k \in DOMAIN queue' : phase'[queue'[k]] = "queued"
    BY <1>2, <1>3 DEF QueueInv, HttpTyped
  <2>3. ASSUME NEW j \in DOMAIN Tail(queue), NEW k \in DOMAIN Tail(queue),
               Tail(queue)[j] = Tail(queue)[k]
        PROVE  j = k
    <3>1. j + 1 = k + 1
      BY <1>2, <2>3 DEF QueueInv
    <3>2. j \in Int /\ k \in Int
      BY <1>2
    <3> QED BY <3>1, <3>2
  <2>4. active' = {q \in Requests : phase'[q] \in {"decrypting", "signing"}}
    BY <1>2, <1>3, <1>5 DEF QueueInv, HttpTyped
  <2>5. \A q \in Requests : phase'[q] # "answered" => outcome'[q] = "none"
    BY <1>2, <1>3 DEF QueueInv, HttpTyped
  <2> QED BY <1>3, <2>1, <2>2, <2>3, <2>4, <2>5 DEF QueueInv
<1> QED BY <1>4, <1>5, <1>6

(* A handler that runs to its await is the only one suspended.             *)
LEMMA SuspendHttp ==
  ASSUME HttpTyped, QueueInv, NEW r \in DOMAIN instr,
         NEW ph \in {"decrypting", "signing"}, Suspend(r, ph)
  PROVE  /\ HttpTyped' /\ QueueInv'
         /\ \A q \in Requests \ {r} : phase'[q] \notin {"decrypting", "signing"}
         /\ phase'[r] = ph /\ instr' = instr
<1>1. Turn(r)
  BY DEF Suspend
<1>2. /\ r \in Requests /\ phase[r] = "queued" /\ outcome[r] = "none"
      /\ \A q \in Requests : phase[q] \notin {"decrypting", "signing"}
      /\ Tail(queue) \in Seq(Requests)
      /\ \A k \in DOMAIN Tail(queue) :
           k + 1 \in DOMAIN queue /\ Tail(queue)[k] = queue[k + 1]
             /\ Tail(queue)[k] \in Requests \ {r}
  BY <1>1, AtItsTurn
<1>3. /\ queue' = Tail(queue)
      /\ phase' = [phase EXCEPT ![r] = ph]
      /\ active' = active \cup {r}
      /\ instr' = instr /\ outcome' = outcome /\ stops' = stops
  BY DEF Suspend
<1>4. HttpTyped'
  BY <1>2, <1>3 DEF HttpTyped, Phases
<1>5. /\ phase'[r] = ph
      /\ \A q \in Requests \ {r} : phase'[q] \notin {"decrypting", "signing"}
  BY <1>2, <1>3 DEF HttpTyped
<1>6. QueueInv'
  <2>1. \A q \in Requests : phase'[q] = "idle" <=> q \notin DOMAIN instr'
    BY <1>2, <1>3 DEF QueueInv, HttpTyped
  <2>2. \A k \in DOMAIN queue' : phase'[queue'[k]] = "queued"
    BY <1>2, <1>3 DEF QueueInv, HttpTyped
  <2>3. ASSUME NEW j \in DOMAIN Tail(queue), NEW k \in DOMAIN Tail(queue),
               Tail(queue)[j] = Tail(queue)[k]
        PROVE  j = k
    <3>1. j + 1 = k + 1
      BY <1>2, <2>3 DEF QueueInv
    <3>2. j \in Int /\ k \in Int
      BY <1>2
    <3> QED BY <3>1, <3>2
  <2>4. active = {} /\ active' = {r}
    BY <1>1, <1>3 DEF Turn
  <2>5. active' = {q \in Requests : phase'[q] \in {"decrypting", "signing"}}
    BY <1>2, <1>5, <2>4
  <2>6. \A q \in Requests : phase'[q] # "answered" => outcome'[q] = "none"
    BY <1>2, <1>3 DEF QueueInv, HttpTyped
  <2> QED BY <1>3, <2>1, <2>2, <2>3, <2>4, <2>5, <2>6 DEF QueueInv
<1> QED BY <1>3, <1>4, <1>5, <1>6

(* A handler that resumes was the only one suspended, and none is left.    *)
LEMMA SettleHttp ==
  ASSUME HttpTyped, QueueInv, NEW r \in DOMAIN instr,
         NEW ph \in {"decrypting", "signing"}, NEW o \in Outcomes, Settle(r, ph, o)
  PROVE  /\ HttpTyped' /\ QueueInv'
         /\ r \in Requests /\ phase[r] = ph /\ outcome[r] = "none"
         /\ \A q \in Requests : phase'[q] \notin {"decrypting", "signing"}
<1>1. r \in Requests
  BY Received
<1>2. /\ phase[r] = ph
      /\ phase' = [phase EXCEPT ![r] = "answered"]
      /\ outcome' = [outcome EXCEPT ![r] = o]
      /\ active' = active \ {r}
      /\ instr' = instr /\ queue' = queue /\ stops' = stops
  BY DEF Settle
<1>3. outcome[r] = "none"
  BY <1>1, <1>2 DEF QueueInv
<1>4. active = {r}
  BY <1>1, <1>2 DEF QueueInv
<1>5. HttpTyped'
  BY <1>1, <1>2 DEF HttpTyped, Phases
<1>6. \A q \in Requests : phase'[q] \notin {"decrypting", "signing"}
  BY <1>1, <1>2, <1>4 DEF QueueInv, HttpTyped
<1>7. QueueInv'
  <2>1. \A q \in Requests : phase'[q] = "idle" <=> q \notin DOMAIN instr'
    BY <1>1, <1>2 DEF QueueInv, HttpTyped
  <2>2. \A k \in DOMAIN queue' : phase'[queue'[k]] = "queued"
    BY <1>1, <1>2 DEF QueueInv, HttpTyped
  <2>3. active' = {q \in Requests : phase'[q] \in {"decrypting", "signing"}}
    BY <1>2, <1>4, <1>6
  <2>4. \A q \in Requests : phase'[q] # "answered" => outcome'[q] = "none"
    BY <1>1, <1>2 DEF QueueInv, HttpTyped
  <2> QED BY <1>2, <1>4, <2>1, <2>2, <2>3, <2>4 DEF QueueInv
<1> QED BY <1>1, <1>2, <1>3, <1>5, <1>6, <1>7

(* After an exit nothing is queued, suspended or answered.                 *)
LEMMA ExitHttp ==
  ASSUME HttpTyped, QueueInv, Exit, stops' \in 0..MaxStops
  PROVE  /\ HttpTyped' /\ QueueInv'
         /\ \A q \in Requests : phase'[q] \notin {"decrypting", "signing"}
<1>1. /\ phase' = [r \in Requests |-> IF phase[r] = "idle" THEN "idle" ELSE "gone"]
      /\ outcome' = [r \in Requests |-> "none"]
      /\ queue' = <<>> /\ active' = {} /\ instr' = instr
  BY DEF Exit
<1>2. HttpTyped'
  BY <1>1 DEF HttpTyped, Phases, Outcomes
<1>3. \A q \in Requests : phase'[q] \notin {"decrypting", "signing"}
  BY <1>1
<1>4. QueueInv'
  BY <1>1, <1>3 DEF QueueInv, HttpTyped
<1> QED BY <1>2, <1>3, <1>4

-----------------------------------------------------------------------------
(* The core.                                                               *)

(* Enclave's guard and deposit check are the server's.                     *)
LEMMA SameGuard ==
  /\ \A p, i : E!Verdict(p, i) = Verdict(p, i)
  /\ \A i : E!Encodable(i) = Encodable(i)
  /\ \A d : E!DepositVerdict(d) = DepositVerdict(d)
BY DEF E!Verdict, Verdict, E!VenueVerdict, VenueVerdict, E!WithdrawVerdict,
       WithdrawVerdict, E!IsAllowedVenue, IsAllowedVenue, E!EqAddr, EqAddr,
       E!OverConcentrated, OverConcentrated, E!ConcentrationChecked,
       ConcentrationChecked, E!Projected, Projected, E!CapAmount, CapAmount,
       E!BelowHealthFloor, BelowHealthFloor, E!Encodable, Encodable,
       E!DepositVerdict, DepositVerdict

(* The payload of a request has the type its operation's parser gives it.  *)
LEMMA Payloads ==
  ASSUME NEW ins \in Instruction
  PROVE  /\ ins.op = "UPDATE_KEY" => ins.key \in Seeds \cup {BadKey}
         /\ ins.op \in {"CREATE", "CONFIRM_DEPOSIT", "VAULT"} =>
              ins.user \in Wire /\ Lower[ins.user] \in Wire
         /\ ins.op = "SET_POLICY" =>
              /\ ins.policy \in Policies /\ ins.policy # NoPolicy
              /\ ins.policy \in Policy
              /\ ins.policy.owner \in Wire /\ Lower[ins.policy.owner] \in Wire
         /\ ins.op = "CONFIRM_DEPOSIT" => ins.deposit \in Deposits \cup {Malformed}
         /\ ins.op = "VAULT" => ins.intent \in Intents \cup {Malformed}
<1>1. ins.op = "SET_POLICY" => ins.policy \in Policies
  BY DEF Instruction
<1>2. \A p \in Policies : p # NoPolicy /\ p \in Policy /\ p.owner \in Wire /\ Lower[p.owner] \in Wire
  BY ServerAssumption, GuardAssumption DEF Policy
<1> QED BY <1>1, <1>2, GuardAssumption DEF Instruction

(* The wallet a handler gets, cached or derived, is the current seed's.    *)
LEMMA WalletInHand ==
  ASSUME CoreTyped, CacheCoherent, seed # NoSeed, NEW w \in Wire
  PROVE  /\ Lower[w] \in Wire
         /\ seed \in Seeds
         /\ WalletFor(w) = <<seed, Lower[w]>>
         /\ CacheWith(w) = [cache EXCEPT ![Lower[w]] = <<seed, Lower[w]>>]
<1>1. Lower[w] \in Wire /\ seed \in Seeds
  BY GuardAssumption DEF CoreTyped, E!TypeOK
<1> QED BY <1>1 DEF WalletFor, CacheWith, Derive, CacheCoherent

(* A wallet that is put in the cache is the one the seed derives.          *)
LEMMA CacheFilled ==
  ASSUME CoreTyped, CacheCoherent, seed # NoSeed, NEW w \in Wire,
         cache' = CacheWith(w), seed' = seed
  PROVE  /\ cache' \in [Wire -> (Seeds \X Wire) \cup {NoWallet}]
         /\ CacheCoherent'
<1>1. /\ Lower[w] \in Wire /\ seed \in Seeds
      /\ cache' = [cache EXCEPT ![Lower[w]] = <<seed, Lower[w]>>]
      /\ cache \in [Wire -> (Seeds \X Wire) \cup {NoWallet}]
  BY WalletInHand DEF CoreTyped
<1> QED BY <1>1 DEF CacheCoherent

(* With nobody at an await there is nothing held to account for.           *)
LEMMA NobodySuspended ==
  ASSUME \A q \in Requests : phase'[q] \notin {"decrypting", "signing"}
  PROVE  AwaitInv'
BY DEF AwaitInv

(* The core is left alone by what is neither a handler's end nor an exit.  *)
LEMMA CoreStutters ==
  ASSUME UNCHANGED <<cache, seed, users, tenantVars, revealed, issued>>,
         CoreTyped, CacheCoherent, SlotsInCensus,
         held' \in [Requests -> Holds \cup {NoWallet}]
  PROVE  /\ CoreTyped' /\ CacheCoherent' /\ SlotsInCensus'
         /\ UNCHANGED E!vars
BY DEF CoreTyped, CacheCoherent, SlotsInCensus, tenantVars, E!vars, E!tenantVars,
       E!TypeOK

-----------------------------------------------------------------------------
(* One lemma per action: it preserves the invariant, and is a step of      *)
(* Enclave or leaves Enclave's state alone.                                *)

(* Arrivals do not touch the enclave.                                      *)
LEMMA ReceiveStep ==
  ASSUME IInv, NEW ins \in Instructions, Receive(ins)
  PROVE  IInv' /\ UNCHANGED E!vars
<1> USE DEF IInv
<1>1. /\ HttpTyped' /\ QueueInv'
      /\ \A q \in Requests :
           phase'[q] \in {"decrypting", "signing"} =>
             q \in DOMAIN instr /\ phase[q] = phase'[q] /\ instr'[q] = instr[q]
  BY ReceiveHttp
<1>2. /\ UNCHANGED <<cache, seed, users, tenantVars, revealed, issued>>
      /\ held' = held
  BY DEF Receive, enclaveVars
<1>3. CoreTyped' /\ CacheCoherent' /\ SlotsInCensus' /\ UNCHANGED E!vars
  BY <1>2, CoreStutters DEF CoreTyped
<1>4. AwaitInv'
  BY <1>1, <1>2 DEF AwaitInv, Promised, tenantVars
<1> QED BY <1>1, <1>3, <1>4

(* An answer without a trace in the core.                                  *)
LEMMA AnswerOnly ==
  ASSUME IInv, NEW r \in DOMAIN instr, NEW o \in Outcomes, Answer(r, o),
         UNCHANGED enclaveVars
  PROVE  IInv' /\ UNCHANGED E!vars
<1> USE DEF IInv
<1>1. HttpTyped' /\ QueueInv' /\ AwaitInv'
  BY AnswerHttp, NobodySuspended
<1>2. held' = held
  BY DEF Answer
<1>3. CoreTyped' /\ CacheCoherent' /\ SlotsInCensus' /\ UNCHANGED E!vars
  BY <1>2, CoreStutters DEF CoreTyped, enclaveVars
<1> QED BY <1>1, <1>3

(* Nor does a key that is only on its way to the node.                     *)
LEMMA UpdateKeyBeginStep ==
  ASSUME IInv, NEW r \in DOMAIN instr, UpdateKeyBegin(r)
  PROVE  IInv' /\ UNCHANGED E!vars
<1> USE DEF IInv
<1>1. Suspend(r, "decrypting") /\ instr[r].op = "UPDATE_KEY" /\ held' = held
      /\ UNCHANGED <<cache, seed, users, tenantVars, revealed, issued>>
  BY DEF UpdateKeyBegin, enclaveVars
<1>2. /\ HttpTyped' /\ QueueInv'
      /\ \A q \in Requests \ {r} : phase'[q] \notin {"decrypting", "signing"}
      /\ phase'[r] = "decrypting" /\ instr' = instr
  BY <1>1, SuspendHttp
<1>3. AwaitInv'
  BY <1>1, <1>2 DEF AwaitInv
<1>4. CoreTyped' /\ CacheCoherent' /\ SlotsInCensus' /\ UNCHANGED E!vars
  BY <1>1, CoreStutters DEF CoreTyped
<1> QED BY <1>2, <1>3, <1>4

(* loadSeed: the only request suspended is this one, so no signature is    *)
(* under way with the earlier seed, and the cache is emptied with it.      *)
LEMMA UpdateKeyLoadStep ==
  ASSUME IInv, NEW r \in DOMAIN instr, UpdateKeyLoad(r)
  PROVE  IInv' /\ E!Next
<1> USE DEF IInv
<1>1. /\ Settle(r, "decrypting", "ok") /\ instr[r].key # BadKey
      /\ seed' = instr[r].key /\ cache' = [w \in Wire |-> NoWallet]
      /\ UNCHANGED <<held, users, tenantVars, revealed, issued>>
  BY DEF UpdateKeyLoad, CacheAfterLoad
<1>2. /\ HttpTyped' /\ QueueInv' /\ r \in Requests /\ phase[r] = "decrypting"
      /\ AwaitInv'
  BY <1>1, SettleHttp, NobodySuspended DEF Outcomes
<1>3. instr[r].op = "UPDATE_KEY" /\ instr[r] \in Instruction
  BY <1>2, Received DEF AwaitInv
<1>4. seed' \in Seeds
  BY <1>1, <1>3, Payloads
<1>5. CoreTyped' /\ CacheCoherent' /\ SlotsInCensus'
  BY <1>1, <1>4 DEF CoreTyped, E!TypeOK, CacheCoherent, SlotsInCensus, tenantVars
<1>6. E!Next
  BY <1>1, <1>4 DEF E!Next, E!Step, E!UpdateKey, E!tenantVars, tenantVars
<1> QED BY <1>2, <1>5, <1>6

(* The node rejects or does not answer, or the signer fails.               *)
LEMMA SettleOnly ==
  ASSUME IInv, NEW r \in DOMAIN instr, NEW ph \in {"decrypting", "signing"},
         Settle(r, ph, "error"), UNCHANGED enclaveVars,
         held' \in [Requests -> Holds \cup {NoWallet}]
  PROVE  IInv' /\ UNCHANGED E!vars
<1> USE DEF IInv
<1>1. HttpTyped' /\ QueueInv' /\ AwaitInv'
  BY SettleHttp, NobodySuspended DEF Outcomes
<1>2. CoreTyped' /\ CacheCoherent' /\ SlotsInCensus' /\ UNCHANGED E!vars
  BY CoreStutters DEF enclaveVars
<1> QED BY <1>1, <1>2

(* CREATE is Enclave's, or an error that changes nothing there.            *)
LEMMA CreateWalletStep ==
  ASSUME IInv, NEW r \in DOMAIN instr, CreateWallet(r)
  PROVE  IInv' /\ [E!Next]_(E!vars)
<1> USE DEF IInv
<1> DEFINE w == instr[r].user
<1>1. CASE seed = NoSeed
  BY <1>1, AnswerOnly DEF CreateWallet, Outcomes
<1>2. CASE seed # NoSeed
  <2>1. /\ Answer(r, "ok") /\ instr[r].op = "CREATE"
        /\ cache' = CacheWith(w) /\ users' = users \cup {Lower[w]}
        /\ revealed' = revealed \cup {<<Lower[w], WalletFor(w)>>}
        /\ UNCHANGED <<seed, tenantVars, issued>>
    BY <1>2 DEF CreateWallet, WithTenant, TenantKey
  <2>2. HttpTyped' /\ QueueInv' /\ AwaitInv'
    BY <2>1, AnswerHttp, NobodySuspended DEF Outcomes
  <2>3. w \in Wire /\ Lower[w] \in Wire
    BY <2>1, Received, Payloads
  <2>4. WalletFor(w) = <<seed, Lower[w]>> /\ seed \in Seeds
    BY <1>2, <2>3, WalletInHand
  <2>5. cache' \in [Wire -> (Seeds \X Wire) \cup {NoWallet}] /\ CacheCoherent'
    BY <1>2, <2>1, <2>3, CacheFilled
  <2>6. CoreTyped' /\ SlotsInCensus'
    BY <2>1, <2>3, <2>4, <2>5
    DEF CoreTyped, E!TypeOK, E!Wallets, SlotsInCensus, tenantVars, Answer
  <2>7. E!CreateWallet(w)
    BY <1>2, <2>1, <2>4 DEF E!CreateWallet, E!WalletOf, E!tenantVars, tenantVars
  <2>8. E!Next
    BY <2>3, <2>7 DEF E!Next, E!Step
  <2> QED BY <2>2, <2>5, <2>6, <2>8
<1> QED BY <1>1, <1>2

(* SET_POLICY is Enclave's.                                                *)
LEMMA SetPolicyStep ==
  ASSUME IInv, NEW r \in DOMAIN instr, SetPolicy(r)
  PROVE  IInv' /\ E!Next
<1> USE DEF IInv
<1> DEFINE p == instr[r].policy
           u == Lower[p.owner]
<1>1. /\ Answer(r, "ok") /\ instr[r].op = "SET_POLICY"
      /\ users' = users \cup {u}
      /\ policy' = [policy EXCEPT ![u] = p]
      /\ UNCHANGED <<cache, seed, actionsSigned, actionsRefused, confirmedDrops,
                     depositsConfirmed, revealed, issued>>
  BY DEF SetPolicy, WithTenant, TenantKey
<1>2. HttpTyped' /\ QueueInv' /\ AwaitInv' /\ held' = held
  BY <1>1, AnswerHttp, NobodySuspended DEF Outcomes, Answer
<1>3. p \in Policies /\ u \in Wire
  BY <1>1, Received, Payloads
<1>4. CoreTyped' /\ CacheCoherent' /\ SlotsInCensus'
  BY <1>1, <1>2, <1>3 DEF CoreTyped, E!TypeOK, CacheCoherent, SlotsInCensus
<1>5. E!Next
  BY <1>1, <1>3 DEF E!Next, E!Step, E!SetPolicy
<1> QED BY <1>2, <1>4, <1>5

(* CONFIRM_DEPOSIT is Enclave's, confirmed or refused.                     *)
LEMMA ConfirmDepositStep ==
  ASSUME IInv, NEW r \in DOMAIN instr, ConfirmDeposit(r)
  PROVE  IInv' /\ E!Next
<1> USE DEF IInv
<1> DEFINE w == instr[r].user
           u == Lower[w]
           d == instr[r].deposit
           Honoured == policy[u] # NoPolicy /\ d # Malformed /\ DepositVerdict(d) = "OK"
<1>1. /\ instr[r].op = "CONFIRM_DEPOSIT"
      /\ users' = users \cup {u}
      /\ UNCHANGED <<cache, seed, policy, actionsSigned, actionsRefused, revealed, issued>>
  BY DEF ConfirmDeposit, WithTenant, TenantKey
<1>2. w \in Wire /\ u \in Wire /\ d \in Deposits \cup {Malformed}
  BY <1>1, Received, Payloads
<1>3. E!DepositHonoured(w, d) <=> Honoured
  BY SameGuard DEF E!DepositHonoured
<1>4. CASE ~Honoured
  <2>1. Answer(r, "error") /\ UNCHANGED <<confirmedDrops, depositsConfirmed>>
    BY <1>4 DEF ConfirmDeposit, TenantKey
  <2>2. HttpTyped' /\ QueueInv' /\ AwaitInv' /\ held' = held
    BY <2>1, AnswerHttp, NobodySuspended DEF Outcomes, Answer
  <2>3. CoreTyped' /\ CacheCoherent' /\ SlotsInCensus'
    BY <1>1, <1>2, <2>1, <2>2 DEF CoreTyped, E!TypeOK, CacheCoherent, SlotsInCensus
  <2>4. E!Materialise(w)
    BY <1>1, <2>1 DEF E!Materialise, E!tenantVars
  <2>5. E!ConfirmDeposit(w, d)
    BY <1>3, <1>4, <2>4 DEF E!ConfirmDeposit
  <2>6. E!Next
    BY <1>2, <2>5 DEF E!Next, E!Step
  <2> QED BY <2>2, <2>3, <2>6
<1>5. CASE Honoured
  <2>1. /\ Answer(r, "confirmed")
        /\ confirmedDrops' = [confirmedDrops EXCEPT ![u] = confirmedDrops[u] + d.receivedAmount]
        /\ depositsConfirmed' = [depositsConfirmed EXCEPT ![u] = @ + 1]
    BY <1>5 DEF ConfirmDeposit, TenantKey, Credited
  <2>2. HttpTyped' /\ QueueInv' /\ AwaitInv' /\ held' = held
    BY <2>1, AnswerHttp, NobodySuspended DEF Outcomes, Answer
  <2>3. d \in Deposits /\ d.receivedAmount \in Nat
    BY <1>2, <1>5, ServerAssumption DEF Deposit
  <2>4. CoreTyped' /\ CacheCoherent' /\ SlotsInCensus'
    BY <1>1, <1>2, <2>1, <2>2, <2>3
    DEF CoreTyped, E!TypeOK, CacheCoherent, SlotsInCensus
  <2>5. E!ConfirmDeposit(w, d)
    BY <1>1, <1>3, <1>5, <2>1 DEF E!ConfirmDeposit
  <2>6. E!Next
    BY <1>2, <2>5 DEF E!Next, E!Step
  <2> QED BY <2>2, <2>4, <2>6
<1> QED BY <1>4, <1>5

(* A VAULT instruction that is not judged only makes the tenant.           *)
LEMMA VaultErrorStep ==
  ASSUME IInv, NEW r \in DOMAIN instr, VaultError(r)
  PROVE  IInv' /\ E!Next
<1> USE DEF IInv
<1> DEFINE w == instr[r].user
           i == instr[r].intent
<1>1. /\ Answer(r, "error") /\ instr[r].op = "VAULT"
      /\ \/ policy[Lower[w]] = NoPolicy
         \/ seed = NoSeed
         \/ i = Malformed
      /\ users' = users \cup {Lower[w]}
      /\ UNCHANGED <<cache, seed, tenantVars, revealed, issued>>
  BY DEF VaultError, WithTenant, TenantKey
<1>2. w \in Wire /\ Lower[w] \in Wire /\ i \in Intents \cup {Malformed}
  BY <1>1, Received, Payloads
<1>3. HttpTyped' /\ QueueInv' /\ AwaitInv' /\ held' = held
  BY <1>1, AnswerHttp, NobodySuspended DEF Outcomes, Answer
<1>4. CoreTyped' /\ CacheCoherent' /\ SlotsInCensus'
  BY <1>1, <1>2, <1>3
  DEF CoreTyped, E!TypeOK, CacheCoherent, SlotsInCensus, tenantVars
<1>5. ~E!Judged(w, i) /\ E!Materialise(w)
  BY <1>1 DEF E!Judged, E!Materialise, E!tenantVars, tenantVars
<1>6. E!Next
  BY <1>2, <1>5 DEF E!Next, E!Step
<1> QED BY <1>3, <1>4, <1>6

(* A VAULT request that reaches the guard: its owner is in the census, as  *)
(* the owner of a policy, and Enclave's handler reaches the guard too.     *)
LEMMA AtTheGuard ==
  ASSUME IInv, NEW r \in DOMAIN instr, Judged(r)
  PROVE  LET w == instr[r].user
             i == instr[r].intent
         IN  /\ w \in Wire /\ Lower[w] \in Wire /\ i \in Intents
             /\ policy[Lower[w]] \in Policies /\ seed \in Seeds
             /\ users = users \cup {Lower[w]}
             /\ E!Judged(w, i)
<1> USE DEF IInv
<1> DEFINE w == instr[r].user
           i == instr[r].intent
<1>1. /\ instr[r].op = "VAULT" /\ policy[Lower[w]] # NoPolicy
      /\ seed # NoSeed /\ i # Malformed
  BY DEF Judged, TenantKey
<1>2. w \in Wire /\ Lower[w] \in Wire /\ i \in Intents
  BY <1>1, Received, Payloads
<1>3. policy[Lower[w]] \in Policies /\ seed \in Seeds
  BY <1>1, <1>2 DEF CoreTyped, E!TypeOK
<1>4. Lower[w] \in users
  BY <1>1, <1>2 DEF SlotsInCensus
<1> QED BY <1>1, <1>2, <1>3, <1>4 DEF E!Judged

(* A refusal is Enclave's.                                                 *)
LEMMA VaultRefuseStep ==
  ASSUME IInv, NEW r \in DOMAIN instr, VaultRefuse(r)
  PROVE  IInv' /\ E!Next
<1> USE DEF IInv
<1> DEFINE w == instr[r].user
           u == Lower[w]
           i == instr[r].intent
<1>1. /\ Answer(r, "refused") /\ Judged(r)
      /\ Verdict(policy[u], i) # "OK"
      /\ actionsRefused' = [actionsRefused EXCEPT ![u] = @ + 1]
      /\ UNCHANGED <<cache, seed, users, policy, actionsSigned,
                     confirmedDrops, depositsConfirmed, revealed, issued>>
  BY DEF VaultRefuse, TenantKey
<1>2. /\ w \in Wire /\ u \in Wire /\ i \in Intents
      /\ users = users \cup {u} /\ E!Judged(w, i)
  BY <1>1, AtTheGuard
<1>3. HttpTyped' /\ QueueInv' /\ AwaitInv' /\ held' = held
  BY <1>1, AnswerHttp, NobodySuspended DEF Outcomes, Answer
<1>4. CoreTyped' /\ CacheCoherent' /\ SlotsInCensus'
  BY <1>1, <1>2, <1>3 DEF CoreTyped, E!TypeOK, CacheCoherent, SlotsInCensus
<1>5. E!RefuseAction(w, i)
  BY <1>1, <1>2, SameGuard DEF E!RefuseAction
<1>6. E!Next
  BY <1>2, <1>5 DEF E!Next, E!Step
<1> QED BY <1>3, <1>4, <1>6

(* To the await of the signature: what is promised there.                  *)
LEMMA VaultBeginStep ==
  ASSUME IInv, NEW r \in DOMAIN instr, VaultBegin(r)
  PROVE  IInv' /\ UNCHANGED E!vars
<1> USE DEF IInv
<1> DEFINE w == instr[r].user
           u == Lower[w]
           i == instr[r].intent
<1>1. /\ Suspend(r, "signing") /\ Judged(r)
      /\ Verdict(policy[u], i) = "OK" /\ Encodable(i)
      /\ held' = [held EXCEPT ![r] = [signer |-> WalletFor(w), under |-> policy[u]]]
      /\ cache' = CacheWith(w)
      /\ UNCHANGED <<seed, users, tenantVars, revealed, issued>>
  BY DEF VaultBegin, TenantKey
<1>2. /\ instr[r].op = "VAULT" /\ policy[u] # NoPolicy
      /\ seed # NoSeed /\ i # Malformed
  BY <1>1 DEF Judged, TenantKey
<1>3. /\ w \in Wire /\ u \in Wire /\ i \in Intents
      /\ policy[u] \in Policies /\ seed \in Seeds
  BY <1>1, AtTheGuard
<1>4. /\ HttpTyped' /\ QueueInv' /\ r \in Requests
      /\ \A q \in Requests \ {r} : phase'[q] \notin {"decrypting", "signing"}
      /\ phase'[r] = "signing" /\ instr' = instr
  BY <1>1, SuspendHttp, Received
<1>5. WalletFor(w) = <<seed, u>>
  BY <1>2, <1>3, WalletInHand
<1>6. cache' \in [Wire -> (Seeds \X Wire) \cup {NoWallet}] /\ CacheCoherent'
  BY <1>1, <1>2, <1>3, CacheFilled
<1>7. [signer |-> <<seed, u>>, under |-> policy[u]] \in Holds
  BY <1>3 DEF Holds
<1>8. /\ held' \in [Requests -> Holds \cup {NoWallet}]
      /\ held'[r] = [signer |-> <<seed, u>>, under |-> policy[u]]
  BY <1>1, <1>4, <1>5, <1>7 DEF CoreTyped
<1>9. CoreTyped' /\ SlotsInCensus'
  BY <1>1, <1>6, <1>8 DEF CoreTyped, E!TypeOK, SlotsInCensus, tenantVars
<1>10. Promised(r)'
  BY <1>1, <1>2, <1>4, <1>8 DEF Promised, tenantVars
<1>11. AwaitInv'
  BY <1>4, <1>10 DEF AwaitInv
<1>12. UNCHANGED E!vars
  BY <1>1 DEF E!vars, E!tenantVars, tenantVars
<1> QED BY <1>4, <1>6, <1>9, <1>11, <1>12

(* After the await: the promise still holds, so that this is Enclave's     *)
(* signing in one step.                                                    *)
LEMMA VaultEndStep ==
  ASSUME IInv, NEW r \in DOMAIN instr, VaultEnd(r)
  PROVE  IInv' /\ E!Next
<1> USE DEF IInv
<1> DEFINE w == instr[r].user
           u == Lower[w]
           i == instr[r].intent
           s == [owner |-> u, signer |-> <<seed, u>>, intent |-> i, under |-> policy[u]]
<1>1. /\ Settle(r, "signing", "signed")
      /\ actionsSigned' = [actionsSigned EXCEPT ![u] = @ + 1]
      /\ issued' = issued \cup {[owner |-> u, signer |-> held[r].signer,
                                 intent |-> i, under |-> held[r].under]}
      /\ held' = [held EXCEPT ![r] = NoWallet]
      /\ UNCHANGED <<cache, seed, users, policy, actionsRefused, confirmedDrops,
                     depositsConfirmed, revealed>>
  BY DEF VaultEnd, TenantKey
<1>2. HttpTyped' /\ QueueInv' /\ AwaitInv' /\ r \in Requests /\ phase[r] = "signing"
  BY <1>1, SettleHttp, NobodySuspended DEF Outcomes
<1>3. Promised(r)
  BY <1>2 DEF AwaitInv
<1>4. Judged(r)
  BY <1>3 DEF Promised, Judged, TenantKey
<1>5. /\ w \in Wire /\ u \in Wire /\ i \in Intents
      /\ policy[u] \in Policies /\ seed \in Seeds
      /\ users = users \cup {u} /\ E!Judged(w, i)
  BY <1>4, AtTheGuard
<1>6. held[r].signer = <<seed, u>> /\ held[r].under = policy[u]
  BY <1>3 DEF Promised
<1>7. issued' = issued \cup {s}
  BY <1>1, <1>6
<1>8. s \in E!Signatures
  BY <1>5 DEF E!Signatures, E!Wallets
<1>9. CoreTyped' /\ CacheCoherent' /\ SlotsInCensus'
  BY <1>1, <1>2, <1>5, <1>7, <1>8 DEF CoreTyped, E!TypeOK, CacheCoherent, SlotsInCensus
<1>10. E!SignAction(w, i)
  BY <1>1, <1>3, <1>5, <1>7, SameGuard DEF E!SignAction, E!WalletOf, Promised
<1>11. E!Next
  BY <1>5, <1>10 DEF E!Next, E!Step
<1> QED BY <1>2, <1>9, <1>11

(* An exit is Enclave's restart, whoever was at an await.                  *)
LEMMA ExitStep ==
  ASSUME IInv, Exit, stops' \in 0..MaxStops
  PROVE  IInv' /\ E!Next
<1> USE DEF IInv
<1>1. HttpTyped' /\ QueueInv' /\ AwaitInv'
  BY ExitHttp, NobodySuspended
<1>2. CoreTyped' /\ CacheCoherent' /\ SlotsInCensus'
  BY DEF Exit, CoreTyped, E!TypeOK, CacheCoherent, SlotsInCensus, NoHold, Zero
<1>3. E!Next
  BY DEF Exit, Zero, E!Next, E!Step, E!Restart, E!Blank
<1> QED BY <1>1, <1>2, <1>3

-----------------------------------------------------------------------------
(* The server starts where Enclave does.                                   *)
LEMMA InitIInv == Init => IInv /\ E!Init
<1> SUFFICES ASSUME Init
             PROVE  IInv /\ E!Init
  OBVIOUS
<1>1. HttpTyped
  BY ServerAssumption DEF Init, HttpTyped, Phases, Outcomes
<1>2. CoreTyped
  BY DEF Init, NoHold, Zero, CoreTyped, E!TypeOK
<1>3. QueueInv
  BY DEF Init, QueueInv
<1>4. AwaitInv /\ CacheCoherent /\ SlotsInCensus
  BY DEF Init, AwaitInv, CacheCoherent, SlotsInCensus
<1>5. E!Init
  BY DEF Init, Zero, E!Init, E!Blank
<1> QED BY <1>1, <1>2, <1>3, <1>4, <1>5 DEF IInv

(* Every step keeps the invariant, and is one of Enclave's or none there.  *)
LEMMA NextStep ==
  ASSUME IInv, [Next]_vars
  PROVE  IInv' /\ [E!Next]_(E!vars)
<1>1. ASSUME NEW ins \in Instructions, Receive(ins)
      PROVE  IInv' /\ [E!Next]_(E!vars)
  BY <1>1, ReceiveStep
<1>2. ASSUME NEW r \in DOMAIN instr,
             \/ RefuseUndecodable(r) \/ ReportState(r)
             \/ UpdateKeyReject(r) \/ UpdateKeyTimeout(r) \/ VaultSignFails(r)
      PROVE  IInv' /\ UNCHANGED E!vars
  <2>1. CASE RefuseUndecodable(r)
    BY <2>1, AnswerOnly DEF RefuseUndecodable, Outcomes
  <2>2. CASE ReportState(r)
    BY <2>2, AnswerOnly DEF ReportState, Outcomes
  <2>3. CASE UpdateKeyReject(r) \/ UpdateKeyTimeout(r)
    BY <2>3, SettleOnly DEF UpdateKeyReject, UpdateKeyTimeout, IInv, CoreTyped
  <2>4. CASE VaultSignFails(r)
    <3>1. held' \in [Requests -> Holds \cup {NoWallet}]
      BY <2>4 DEF VaultSignFails, IInv, CoreTyped
    <3> QED BY <2>4, <3>1, SettleOnly DEF VaultSignFails
  <2> QED BY <1>2, <2>1, <2>2, <2>3, <2>4
<1>3. ASSUME NEW r \in DOMAIN instr,
             \/ UpdateKeyBegin(r) \/ UpdateKeyLoad(r)
             \/ CreateWallet(r) \/ SetPolicy(r) \/ ConfirmDeposit(r)
      PROVE  IInv' /\ [E!Next]_(E!vars)
  BY <1>3, UpdateKeyBeginStep, UpdateKeyLoadStep, CreateWalletStep, SetPolicyStep,
     ConfirmDepositStep
<1>4. ASSUME NEW r \in DOMAIN instr,
             \/ VaultError(r) \/ VaultRefuse(r) \/ VaultThrow(r)
             \/ VaultBegin(r) \/ VaultEnd(r)
      PROVE  IInv' /\ [E!Next]_(E!vars)
  <2>1. CASE VaultThrow(r)
    <3>1. Exit /\ stops' \in 0..MaxStops
      BY <2>1 DEF VaultThrow, IInv, HttpTyped
    <3> QED BY <3>1, ExitStep
  <2> QED BY <1>4, <2>1, VaultErrorStep, VaultRefuseStep, VaultBeginStep, VaultEndStep
<1>5. CASE Stop \/ LookupThrows
  <2>1. Exit /\ stops' \in 0..MaxStops
    BY <1>5, ServerAssumption DEF Stop, LookupThrows, IInv, HttpTyped
  <2> QED BY <2>1, ExitStep
<1>6. CASE UNCHANGED vars
  <2>1. HttpTyped' /\ QueueInv' /\ AwaitInv'
    BY <1>6 DEF vars, httpVars, enclaveVars, tenantVars, IInv, HttpTyped, QueueInv,
               AwaitInv, Promised
  <2>2. CoreTyped' /\ CacheCoherent' /\ SlotsInCensus' /\ UNCHANGED E!vars
    BY <1>6, CoreStutters DEF vars, httpVars, enclaveVars, IInv, CoreTyped
  <2> QED BY <2>1, <2>2 DEF IInv
<1> QED BY <1>1, <1>2, <1>3, <1>4, <1>5, <1>6 DEF Next

(* server.ts, handlers.ts and wallet.ts: the queue, the awaits and the     *)
(* cache are consistent in every state, for any number of requests and     *)
(* stops.                                                                  *)
THEOREM ServerInvariant == Spec => []IInv
<1>1. Init => IInv
  BY InitIInv
<1>2. IInv /\ [Next]_vars => IInv'
  BY NextStep
<1> QED BY <1>1, <1>2, PTL DEF Spec

(* server.ts and handlers.ts: the server's and the tenants' state stays of *)
(* its types; in particular a handler resumes with a wallet and a policy.  *)
THEOREM ServerTyped == Spec => []TypeOK
<1>1. IInv => TypeOK
  <2> SUFFICES ASSUME IInv
               PROVE  TypeOK
    OBVIOUS
  <2>1. \A r \in Requests : phase[r] = "signing" =>
           held[r] \in [signer : Seeds \X Wire, under : Policies]
    <3> SUFFICES ASSUME NEW r \in Requests, phase[r] = "signing"
                 PROVE  held[r] \in [signer : Seeds \X Wire, under : Policies]
      OBVIOUS
    <3>1. Promised(r) /\ r \in DOMAIN instr
      BY DEF IInv, AwaitInv, QueueInv
    <3>2. Judged(r)
      BY <3>1 DEF Promised, Judged, TenantKey
    <3>3. /\ Lower[instr[r].user] \in Wire /\ seed \in Seeds
          /\ policy[Lower[instr[r].user]] \in Policies
      BY <3>1, <3>2, AtTheGuard
    <3> QED BY <3>1, <3>3 DEF Promised
  <2> QED BY <2>1 DEF IInv, HttpTyped, CoreTyped, E!TypeOK, TypeOK
<1> QED BY <1>1, ServerInvariant, PTL

(* wallet.ts: a cached wallet is the current seed's for its owner.         *)
THEOREM CacheIsCoherent == Spec => []CacheCoherent
<1>1. IInv => CacheCoherent
  BY DEF IInv
<1> QED BY <1>1, ServerInvariant, PTL

(* server.ts with handlers.ts: whatever requests come in, and whatever     *)
(* they do to each other at the awaits, the server takes only steps of     *)
(* Enclave, where every instruction is one step.                           *)
THEOREM ServerImplementsEnclave == Spec => ImplementsEnclave
<1>1. Init => E!Init
  BY InitIInv
<1>2. IInv /\ [Next]_vars => [E!Next]_(E!vars)
  BY NextStep
<1> QED BY <1>1, <1>2, ServerInvariant, PTL DEF Spec, ImplementsEnclave, E!Spec

-----------------------------------------------------------------------------
(* Answers and counters.                                                   *)

Counted == {"signed", "refused", "confirmed"}
counters == <<actionsSigned, actionsRefused, depositsConfirmed>>

(* An answer given to r puts r among the requests so answered to its       *)
(* owner, where it was not before, and moves no other request.             *)
LEMMA AnswerIsTallied ==
  ASSUME HttpTyped, NEW r \in DOMAIN instr, NEW o \in Outcomes,
         outcome[r] = "none", outcome' = [outcome EXCEPT ![r] = o],
         instr' = instr
  PROVE  \A u \in Wire, c \in Counted :
           /\ Cardinality(Answered(u, c)) \in Nat
           /\ Cardinality(Answered(u, c)') =
                IF c = o /\ Lower[instr[r].user] = u
                THEN Cardinality(Answered(u, c)) + 1
                ELSE Cardinality(Answered(u, c))
<1> TAKE u \in Wire, c \in Counted
<1>1. r \in Requests
  BY Received
<1>2. IsFiniteSet(Answered(u, c))
  <2>1. DOMAIN instr = 1..Len(instr) /\ Len(instr) \in Nat
    BY DEF HttpTyped
  <2>2. IsFiniteSet(DOMAIN instr)
    BY <2>1, FS_Interval
  <2>3. Answered(u, c) \in SUBSET DOMAIN instr
    BY DEF Answered
  <2> QED BY <2>2, <2>3, FS_Subset
<1>3. r \notin Answered(u, c)
  BY DEF Answered, Counted
<1>4. /\ outcome'[r] = o
      /\ \A q \in DOMAIN instr : q # r => outcome'[q] = outcome[q]
  BY <1>1 DEF HttpTyped
<1>5. CASE c = o /\ Lower[instr[r].user] = u
  <2>1. Answered(u, c)' = Answered(u, c) \cup {r}
    BY <1>4, <1>5 DEF Answered
  <2> QED BY <1>2, <1>3, <1>5, <2>1, FS_AddElement, FS_CardinalityType
<1>6. CASE ~(c = o /\ Lower[instr[r].user] = u)
  <2>1. Answered(u, c)' = Answered(u, c)
    BY <1>3, <1>4, <1>6 DEF Answered
  <2> QED BY <1>2, <1>6, <2>1, FS_CardinalityType
<1> QED BY <1>5, <1>6

(* An answer no counter counts.                                            *)
LEMMA UncountedTally ==
  ASSUME HttpTyped, CountersTallyAnswers, NEW r \in DOMAIN instr,
         NEW o \in Outcomes \ Counted, outcome[r] = "none",
         outcome' = [outcome EXCEPT ![r] = o], instr' = instr, UNCHANGED counters
  PROVE  CountersTallyAnswers'
<1>1. \A u \in Wire, c \in Counted : Cardinality(Answered(u, c)') = Cardinality(Answered(u, c))
  BY AnswerIsTallied
<1> QED BY <1>1 DEF CountersTallyAnswers, counters, Counted

(* An answer that its owner's counter counts.                              *)
LEMMA SignedTally ==
  ASSUME IInv, CountersTallyAnswers, NEW r \in DOMAIN instr, VaultEnd(r)
  PROVE  CountersTallyAnswers'
<1> DEFINE w == Lower[instr[r].user]
<1>1. /\ outcome' = [outcome EXCEPT ![r] = "signed"] /\ instr' = instr
      /\ actionsSigned' = [actionsSigned EXCEPT ![w] = @ + 1]
      /\ UNCHANGED <<actionsRefused, depositsConfirmed>>
  BY DEF VaultEnd, Settle, TenantKey
<1>2. outcome[r] = "none"
  BY SettleHttp DEF VaultEnd, IInv, Outcomes
<1>3. \A u \in Wire, c \in Counted :
        /\ Cardinality(Answered(u, c)) \in Nat
        /\ Cardinality(Answered(u, c)') =
             IF c = "signed" /\ w = u THEN Cardinality(Answered(u, c)) + 1
             ELSE Cardinality(Answered(u, c))
  BY <1>1, <1>2, AnswerIsTallied DEF IInv, Outcomes
<1>4. actionsSigned \in [Wire -> Nat]
  BY DEF IInv, CoreTyped, E!TypeOK
<1> QED BY <1>1, <1>3, <1>4 DEF CountersTallyAnswers, Counted

(* A refusal is counted once, for its owner.                               *)
LEMMA RefusedTally ==
  ASSUME IInv, CountersTallyAnswers, NEW r \in DOMAIN instr, VaultRefuse(r)
  PROVE  CountersTallyAnswers'
<1> DEFINE w == Lower[instr[r].user]
<1>1. /\ Turn(r)
      /\ outcome' = [outcome EXCEPT ![r] = "refused"] /\ instr' = instr
      /\ actionsRefused' = [actionsRefused EXCEPT ![w] = @ + 1]
      /\ UNCHANGED <<actionsSigned, depositsConfirmed>>
  BY DEF VaultRefuse, Answer, TenantKey
<1>2. outcome[r] = "none"
  BY <1>1, AtItsTurn DEF IInv
<1>3. \A u \in Wire, c \in Counted :
        /\ Cardinality(Answered(u, c)) \in Nat
        /\ Cardinality(Answered(u, c)') =
             IF c = "refused" /\ w = u THEN Cardinality(Answered(u, c)) + 1
             ELSE Cardinality(Answered(u, c))
  BY <1>1, <1>2, AnswerIsTallied DEF IInv, Outcomes
<1>4. actionsRefused \in [Wire -> Nat]
  BY DEF IInv, CoreTyped, E!TypeOK
<1> QED BY <1>1, <1>3, <1>4 DEF CountersTallyAnswers, Counted

(* So is a confirmed deposit.                                              *)
LEMMA DepositTally ==
  ASSUME IInv, CountersTallyAnswers, NEW r \in DOMAIN instr, ConfirmDeposit(r)
  PROVE  CountersTallyAnswers'
<1> DEFINE w == Lower[instr[r].user]
<1>1. \/ Answer(r, "error") /\ UNCHANGED counters
      \/ /\ Answer(r, "confirmed")
         /\ depositsConfirmed' = [depositsConfirmed EXCEPT ![w] = @ + 1]
         /\ UNCHANGED <<actionsSigned, actionsRefused>>
  BY DEF ConfirmDeposit, TenantKey, counters
<1>2. instr' = instr /\ outcome[r] = "none"
  BY <1>1, AtItsTurn DEF Answer, IInv
<1>3. CASE Answer(r, "error") /\ UNCHANGED counters
  BY <1>2, <1>3, UncountedTally DEF Answer, IInv, Outcomes, Counted
<1>4. CASE /\ Answer(r, "confirmed")
           /\ depositsConfirmed' = [depositsConfirmed EXCEPT ![w] = @ + 1]
           /\ UNCHANGED <<actionsSigned, actionsRefused>>
  <2>1. \A u \in Wire, c \in Counted :
          /\ Cardinality(Answered(u, c)) \in Nat
          /\ Cardinality(Answered(u, c)') =
               IF c = "confirmed" /\ w = u THEN Cardinality(Answered(u, c)) + 1
               ELSE Cardinality(Answered(u, c))
    BY <1>2, <1>4, AnswerIsTallied DEF IInv, Outcomes, Answer
  <2>2. depositsConfirmed \in [Wire -> Nat]
    BY DEF IInv, CoreTyped, E!TypeOK
  <2> QED BY <1>4, <2>1, <2>2 DEF CountersTallyAnswers, Counted
<1> QED BY <1>1, <1>3, <1>4

(* No other step counts or gives an answer that is counted.                *)
LEMMA NextTally ==
  ASSUME IInv, CountersTallyAnswers, [Next]_vars
  PROVE  CountersTallyAnswers'
<1>1. ASSUME NEW ins \in Instructions, Receive(ins)
      PROVE  CountersTallyAnswers'
  <2> DEFINE n == Len(instr) + 1
  <2>1. /\ instr \in Seq(Instructions) /\ n \in Requests /\ instr' = Append(instr, ins)
        /\ outcome' \in {outcome, [outcome EXCEPT ![n] = "unrouted"]}
        /\ UNCHANGED counters
    BY <1>1 DEF Receive, IInv, HttpTyped, enclaveVars, tenantVars, counters
  <2>2. /\ DOMAIN instr = 1..Len(instr) /\ DOMAIN instr' = 1..n /\ n \notin DOMAIN instr
        /\ \A q \in DOMAIN instr : instr'[q] = instr[q]
        /\ \A q \in DOMAIN instr' : q \in DOMAIN instr \/ q = n
    BY <2>1
  <2>3. outcome[n] = "none" /\ outcome \in [Requests -> Outcomes]
    BY <2>1, <2>2 DEF IInv, QueueInv, HttpTyped
  <2>4. /\ \A q \in DOMAIN instr : outcome'[q] = outcome[q]
        /\ outcome'[n] \notin Counted
    <3> HIDE DEF n
    <3>1. CASE outcome' = outcome
      BY <2>3, <3>1 DEF Counted
    <3>2. CASE outcome' = [outcome EXCEPT ![n] = "unrouted"]
      BY <2>1, <2>2, <2>3, <3>2 DEF Counted
    <3> QED BY <2>1, <3>1, <3>2
  <2>5. \A u \in Wire, c \in Counted : Answered(u, c)' = Answered(u, c)
    BY <2>2, <2>4 DEF Answered
  <2> QED BY <2>1, <2>5 DEF CountersTallyAnswers, Counted, counters
<1>2. ASSUME NEW r \in DOMAIN instr,
             \/ RefuseUndecodable(r) \/ CreateWallet(r) \/ SetPolicy(r)
             \/ ReportState(r) \/ VaultError(r)
      PROVE  CountersTallyAnswers'
  <2>1. PICK o \in Outcomes \ Counted : Answer(r, o) /\ UNCHANGED counters
    BY <1>2 DEF RefuseUndecodable, CreateWallet, SetPolicy, ReportState, VaultError,
         enclaveVars, tenantVars, counters, Outcomes, Counted
  <2>2. outcome[r] = "none"
    BY <2>1, AtItsTurn DEF Answer, IInv
  <2> QED BY <2>1, <2>2, UncountedTally DEF Answer, IInv
<1>3. ASSUME NEW r \in DOMAIN instr,
             \/ UpdateKeyLoad(r) \/ UpdateKeyReject(r) \/ UpdateKeyTimeout(r)
             \/ VaultSignFails(r)
      PROVE  CountersTallyAnswers'
  <2>1. PICK ph \in {"decrypting", "signing"}, o \in Outcomes \ Counted :
          Settle(r, ph, o) /\ UNCHANGED counters
    BY <1>3 DEF UpdateKeyLoad, UpdateKeyReject, UpdateKeyTimeout, VaultSignFails,
         enclaveVars, tenantVars, counters, Outcomes, Counted
  <2>2. outcome[r] = "none"
    BY <2>1, SettleHttp DEF IInv
  <2> QED BY <2>1, <2>2, UncountedTally DEF Settle, IInv
<1>4. ASSUME \/ \E r \in DOMAIN instr : UpdateKeyBegin(r) \/ VaultBegin(r)
             \/ UNCHANGED vars
      PROVE  CountersTallyAnswers'
  <2>1. UNCHANGED <<instr, outcome, counters>>
    BY <1>4 DEF UpdateKeyBegin, VaultBegin, Suspend, vars, httpVars, enclaveVars,
         tenantVars, counters
  <2> QED BY <2>1 DEF CountersTallyAnswers, Answered, counters
<1>5. ASSUME Exit
      PROVE  CountersTallyAnswers'
  <2>1. instr' = instr /\ outcome' = [r \in Requests |-> "none"]
        /\ actionsSigned' = Zero /\ actionsRefused' = Zero /\ depositsConfirmed' = Zero
    BY <1>5 DEF Exit
  <2>2. \A q \in DOMAIN instr : q \in Requests
    BY Received DEF IInv
  <2>3. \A u \in Wire, c \in Counted : Answered(u, c)' = {}
    BY <2>1, <2>2 DEF Answered, Counted
  <2> QED BY <2>1, <2>3, FS_EmptySet DEF CountersTallyAnswers, Counted, Zero
<1> QED BY <1>1, <1>2, <1>3, <1>4, <1>5, SignedTally, RefusedTally, DepositTally
        DEF Next, VaultThrow, Stop, LookupThrows

(* handlers.ts: actionsSigned, actionsRefused and depositsConfirmed are,   *)
(* for every owner and however many requests, the number of answers given  *)
(* since boot under any spelling of the owner's address.                   *)
THEOREM CountersAreTallies == Spec => []CountersTallyAnswers
<1>1. Init => CountersTallyAnswers
  <2> SUFFICES ASSUME Init
               PROVE  CountersTallyAnswers
    OBVIOUS
  <2>1. \A u \in Wire, c \in Counted : Answered(u, c) = {}
    BY DEF Init, Answered, Counted
  <2> QED BY <2>1, FS_EmptySet DEF Init, CountersTallyAnswers, Counted, Zero
<1>2. IInv /\ CountersTallyAnswers /\ [Next]_vars => CountersTallyAnswers'
  BY NextTally
<1> QED BY <1>1, <1>2, ServerInvariant, PTL DEF Spec

(* An outcome becomes "signed" at the end of the await only.               *)
LEMMA OnlyVaultEndSigns ==
  ASSUME IInv, [Next]_vars, NEW r \in DOMAIN instr,
         outcome[r] # "signed", outcome'[r] = "signed"
  PROVE  VaultEnd(r)
<1>1. r \in Requests /\ outcome \in [Requests -> Outcomes]
  BY Received DEF IInv, HttpTyped
<1>2. outcome' # outcome
  OBVIOUS
<1>3. ASSUME NEW ins \in Instructions, Receive(ins)
      PROVE  FALSE
  BY <1>1, <1>3 DEF Receive
<1>4. ASSUME NEW q \in DOMAIN instr, NEW o \in Outcomes, o # "signed",
             Answer(q, o) \/ \E ph \in Phases : Settle(q, ph, o)
      PROVE  FALSE
  BY <1>1, <1>4 DEF Answer, Settle
<1>5. ASSUME Exit
      PROVE  FALSE
  BY <1>1, <1>5 DEF Exit
<1>6. ASSUME NEW q \in DOMAIN instr,
             \/ RefuseUndecodable(q) \/ CreateWallet(q) \/ SetPolicy(q)
             \/ ConfirmDeposit(q) \/ ReportState(q) \/ VaultError(q) \/ VaultRefuse(q)
             \/ UpdateKeyLoad(q) \/ UpdateKeyReject(q) \/ UpdateKeyTimeout(q)
             \/ VaultSignFails(q)
      PROVE  FALSE
  <2>1. \E o \in Outcomes : o # "signed" /\
           (Answer(q, o) \/ \E ph \in Phases : Settle(q, ph, o))
    BY <1>6 DEF RefuseUndecodable, CreateWallet, SetPolicy, ConfirmDeposit, ReportState,
         VaultError, VaultRefuse, UpdateKeyLoad, UpdateKeyReject, UpdateKeyTimeout,
         VaultSignFails, Outcomes, Phases
  <2> QED BY <1>4, <2>1
<1>7. ASSUME NEW q \in DOMAIN instr, VaultEnd(q)
      PROVE  q = r
  BY <1>1, <1>7 DEF VaultEnd, Settle
<1>8. ASSUME NEW q \in DOMAIN instr, UpdateKeyBegin(q) \/ VaultBegin(q)
      PROVE  FALSE
  BY <1>2, <1>8 DEF UpdateKeyBegin, VaultBegin, Suspend
<1> QED BY <1>2, <1>3, <1>5, <1>6, <1>7, <1>8
        DEF Next, VaultThrow, Stop, LookupThrows, vars, httpVars

(* handlers.ts: the policy judged before the await on the signature is the *)
(* one in force when the signature leaves, it allows what was signed, and  *)
(* the key that signed is the seed's in force, for any number of requests  *)
(* queued behind the await.                                                *)
THEOREM SignaturesUnderPolicyInForce == Spec => SignedUnderPolicyInForce
<1> DEFINE Sound(r) ==
      outcome[r] # "signed" /\ outcome'[r] = "signed" =>
        LET u == Lower[instr[r].user] IN
        /\ policy[u] # NoPolicy
        /\ WithinPolicy(policy[u], instr[r].intent)
        /\ held[r].signer = <<seed, u>>
<1>1. ASSUME IInv, [Next]_vars, NEW r \in DOMAIN instr
      PROVE  Sound(r)
  <2> SUFFICES ASSUME outcome[r] # "signed", outcome'[r] = "signed"
               PROVE  LET u == Lower[instr[r].user] IN
                      /\ policy[u] # NoPolicy
                      /\ WithinPolicy(policy[u], instr[r].intent)
                      /\ held[r].signer = <<seed, u>>
    OBVIOUS
  <2>1. phase[r] = "signing" /\ r \in Requests
    BY <1>1, OnlyVaultEndSigns, Received DEF VaultEnd, Settle, IInv
  <2>2. Promised(r)
    BY <1>1, <2>1 DEF IInv, AwaitInv
  <2>3. Judged(r)
    BY <2>2 DEF Promised, Judged, TenantKey
  <2>4. /\ instr[r].intent \in Intent
        /\ policy[Lower[instr[r].user]] \in Policy
    BY <1>1, <2>3, AtTheGuard, ServerAssumption
  <2>5. WithinPolicy(policy[Lower[instr[r].user]], instr[r].intent)
    BY <2>2, <2>4, GuardIsExact DEF Promised
  <2> QED BY <2>2, <2>5 DEF Promised
<1>2. IInv /\ [Next]_vars => [\A r \in DOMAIN instr : Sound(r)]_vars
  BY <1>1
<1> QED BY <1>2, ServerInvariant, PTL DEF Spec, SignedUnderPolicyInForce

-----------------------------------------------------------------------------
(* Sums over finite sets.  The library's induction over finite sets takes  *)
(* a predicate as a parameter; the one below takes a set instead, and is   *)
(* enough for what MapThenSumSet's recursion adds up.                      *)

(* Induction on the subsets of a finite set: Q holds the subsets of which  *)
(* something is true.                                                      *)
LEMMA SubsetInduction ==
  ASSUME NEW T, IsFiniteSet(T), NEW Q,
         \A s \in SUBSET T : (\A u \in SUBSET s : u # s => u \in Q) => s \in Q
  PROVE  \A s \in SUBSET T : s \in Q
<1> DEFINE R == StrictSubsetOrdering(T)
           Bad == {s \in SUBSET T : s \notin Q}
<1> SUFFICES ASSUME Bad # {}
             PROVE  FALSE
  OBVIOUS
<1>1. IsWellFoundedOn(R, SUBSET T)
  <2>1. IsWellFoundedOn(R, FiniteSubsetsOf(T))
    BY FS_StrictSubsetOrderingWellFounded
  <2>2. FiniteSubsetsOf(T) = SUBSET T
    BY FS_FiniteSubsetsOfFinite
  <2> HIDE DEF R
  <2> QED  BY <2>1, <2>2
<1>2. PICK s \in Bad : \A u \in Bad : ~ (<<u, s>> \in R)
  <2> HIDE DEF R, Bad
  <2>1. Bad \subseteq SUBSET T
    BY DEF Bad
  <2> QED  BY <1>1, <2>1, WFMin
<1>3. \A u \in SUBSET s : u # s => u \in Q
  BY <1>2 DEF StrictSubsetOrdering
<1> QED  BY <1>2, <1>3

(* The recursion by which MapThenSumSet adds up f over a set: it takes the *)
(* elements out one by one, in an order of CHOOSE's.                       *)
Picked(s) == CHOOSE x \in s : TRUE

SumsUp(it, f, T) ==
  it = [s \in SUBSET T |-> IF s = {} THEN 0 ELSE f[Picked(s)] + it[s \ {Picked(s)}]]

Total(f, T) == (CHOOSE it : SumsUp(it, f, T))[T]

(* The recursion, unfolded once.                                           *)
LEMMA SumsUpAt ==
  ASSUME NEW f, NEW T, NEW it, SumsUp(it, f, T), NEW s \in SUBSET T
  PROVE  it[s] = IF s = {} THEN 0 ELSE f[Picked(s)] + it[s \ {Picked(s)}]
  BY DEF SumsUp

(* The element that MapThenSumSet takes next.                              *)
LEMMA PickedIn ==
  ASSUME NEW s, s # {}
  PROVE  Picked(s) \in s
  BY DEF Picked

(* The recursion has one outcome, ...                                      *)
LEMMA SumsUpAgree ==
  ASSUME NEW f, NEW T, NEW U, IsFiniteSet(U), U \in SUBSET T,
         NEW it, SumsUp(it, f, T), NEW jt, SumsUp(jt, f, U)
  PROVE  \A s \in SUBSET U : it[s] = jt[s]
<1> DEFINE Q == {s \in SUBSET U : it[s] = jt[s]}
<1>1. ASSUME NEW s \in SUBSET U, \A u \in SUBSET s : u # s => u \in Q
      PROVE  s \in Q
  <2>1. CASE s = {}
    BY <2>1, SumsUpAt
  <2>2. CASE s # {}
    <3>1. Picked(s) \in s
      BY <2>2, PickedIn
    <3>2. it[s \ {Picked(s)}] = jt[s \ {Picked(s)}]
      BY <1>1, <3>1
    <3> QED  BY <2>2, <3>2, SumsUpAt
  <2> QED  BY <2>1, <2>2
<1>2. \A s \in SUBSET U : s \in Q
  <2> HIDE DEF Q
  <2> QED  BY <1>1, SubsetInduction
<1> QED  BY <1>2

(* ... and it has one over every finite set.                               *)
LEMMA SumsUpExists ==
  ASSUME NEW f, NEW T, IsFiniteSet(T)
  PROVE  \E it : SumsUp(it, f, T)
<1> DEFINE Q == {s \in SUBSET T : \E it : SumsUp(it, f, s)}
           Below(s) == IF s = {} THEN 0 ELSE f[Picked(s)] + Total(f, s \ {Picked(s)})
<1>1. ASSUME NEW s \in SUBSET T, \A u \in SUBSET s : u # s => u \in Q
      PROVE  s \in Q
  <2> DEFINE jt == [u \in SUBSET s |-> Below(u)]
  <2>1. ASSUME NEW u \in SUBSET s, u # s
        PROVE  Total(f, u) = Below(u)
    <3> DEFINE kt == CHOOSE it : SumsUp(it, f, u)
    <3>1. SumsUp(kt, f, u)
      BY <1>1, <2>1
    <3>2. Total(f, u) = kt[u]
      BY DEF Total
    <3> HIDE DEF kt
    <3>3. CASE u = {}
      BY <3>1, <3>2, <3>3, SumsUpAt
    <3>4. CASE u # {}
      <4> DEFINE v == u \ {Picked(u)}
                 lt == CHOOSE it : SumsUp(it, f, v)
      <4>1. Picked(u) \in u /\ v \in SUBSET s /\ v # s /\ v \in SUBSET u
        BY <2>1, <3>4, PickedIn
      <4>2. SumsUp(lt, f, v) /\ IsFiniteSet(v)
        BY <1>1, <4>1, FS_Subset
      <4>3. Total(f, v) = lt[v]
        BY DEF Total
      <4> HIDE DEF lt
      <4>4. kt[v] = lt[v]
        <5> HIDE DEF v
        <5> QED  BY <3>1, <4>1, <4>2, SumsUpAgree
      <4>5. kt[u] = f[Picked(u)] + kt[v]
        BY <3>1, <3>4, SumsUpAt
      <4> QED  BY <3>2, <3>4, <4>3, <4>4, <4>5
    <3> QED  BY <3>3, <3>4
  <2>2. ASSUME NEW u \in SUBSET s, u # {}
        PROVE  jt[u \ {Picked(u)}] = Total(f, u \ {Picked(u)})
    <3>1. Picked(u) \in u
      BY <2>2, PickedIn
    <3>2. u \ {Picked(u)} \in SUBSET s /\ u \ {Picked(u)} # s
      BY <3>1
    <3> HIDE DEF Below
    <3> QED  BY <2>1, <3>2
  <2>3. \A u \in SUBSET s : jt[u] = IF u = {} THEN 0 ELSE f[Picked(u)] + jt[u \ {Picked(u)}]
    BY <2>2
  <2>4. SumsUp(jt, f, s)
    <3>1. jt = [u \in SUBSET s |-> jt[u]]
      OBVIOUS
    <3> HIDE DEF jt
    <3> QED  BY <2>3, <3>1 DEF SumsUp
  <2> QED  BY <2>4
<1>2. T \in Q
  <2> HIDE DEF Q
  <2> QED  BY <1>1, SubsetInduction
<1> QED  BY <1>2
(* So a total does not depend on the order.                                *)
LEMMA TotalRecursion ==
  ASSUME NEW f, NEW T, IsFiniteSet(T)
  PROVE  Total(f, T) = IF T = {} THEN 0
                       ELSE f[Picked(T)] + Total(f, T \ {Picked(T)})
<1> DEFINE it == CHOOSE it : SumsUp(it, f, T)
           U == T \ {Picked(T)}
           jt == CHOOSE jt : SumsUp(jt, f, U)
<1>1. SumsUp(it, f, T)
  BY SumsUpExists
<1>2. IsFiniteSet(U) /\ U \in SUBSET T
  BY FS_Subset
<1>3. SumsUp(jt, f, U)
  BY <1>2, SumsUpExists
<1>4. Total(f, T) = it[T] /\ Total(f, U) = jt[U]
  BY DEF Total
<1> HIDE DEF it, jt
<1>5. it[U] = jt[U]
  <2> HIDE DEF U
  <2> QED  BY <1>1, <1>2, <1>3, SumsUpAgree
<1> QED  BY <1>1, <1>4, <1>5, SumsUpAt

(* A sum of naturals is one.                                               *)
LEMMA TotalNat ==
  ASSUME NEW T, IsFiniteSet(T), NEW f, \A x \in T : f[x] \in Nat
  PROVE  Total(f, T) \in Nat
<1> DEFINE Q == {s \in SUBSET T : Total(f, s) \in Nat}
<1>1. ASSUME NEW s \in SUBSET T, \A u \in SUBSET s : u # s => u \in Q
      PROVE  s \in Q
  <2>1. IsFiniteSet(s)
    BY FS_Subset
  <2>2. CASE s = {}
    <3>1. Total(f, s) = 0
      BY <2>1, <2>2, TotalRecursion
    <3> QED  BY <3>1
  <2>3. CASE s # {}
    <3>1. Picked(s) \in s
      BY <2>3, PickedIn
    <3>2. Total(f, s \ {Picked(s)}) \in Nat /\ f[Picked(s)] \in Nat
      BY <1>1, <3>1
    <3>3. Total(f, s) = f[Picked(s)] + Total(f, s \ {Picked(s)})
      BY <2>1, <2>3, TotalRecursion
    <3> QED  BY <3>2, <3>3
  <2> QED  BY <2>2, <2>3
<1>2. T \in Q
  <2> HIDE DEF Q
  <2> QED  BY <1>1, SubsetInduction
<1> QED  BY <1>2

(* A sum is that of its terms.                                             *)
LEMMA TotalSame ==
  ASSUME NEW T, IsFiniteSet(T), NEW f, NEW g, \A x \in T : f[x] = g[x]
  PROVE  Total(f, T) = Total(g, T)
<1> DEFINE Q == {s \in SUBSET T : Total(f, s) = Total(g, s)}
<1>1. ASSUME NEW s \in SUBSET T, \A u \in SUBSET s : u # s => u \in Q
      PROVE  s \in Q
  <2>1. IsFiniteSet(s)
    BY FS_Subset
  <2>2. CASE s = {}
    BY <2>1, <2>2, TotalRecursion
  <2>3. CASE s # {}
    <3>1. Picked(s) \in s
      BY <2>3, PickedIn
    <3>2. /\ Total(f, s \ {Picked(s)}) = Total(g, s \ {Picked(s)})
          /\ f[Picked(s)] = g[Picked(s)]
      BY <1>1, <3>1
    <3>3. /\ Total(f, s) = f[Picked(s)] + Total(f, s \ {Picked(s)})
          /\ Total(g, s) = g[Picked(s)] + Total(g, s \ {Picked(s)})
      BY <2>1, <2>3, TotalRecursion
    <3> QED  BY <3>2, <3>3
  <2> QED  BY <2>2, <2>3
<1>2. T \in Q
  <2> HIDE DEF Q
  <2> QED  BY <1>1, SubsetInduction
<1> QED  BY <1>2

(* Any term can be taken out of a sum, not just the one picked.            *)
LEMMA TotalWithout ==
  ASSUME NEW T, IsFiniteSet(T), NEW f, \A x \in T : f[x] \in Nat, NEW x \in T
  PROVE  Total(f, T) = f[x] + Total(f, T \ {x})
<1> DEFINE Q == {s \in SUBSET T : \A y \in s : Total(f, s) = f[y] + Total(f, s \ {y})}
<1>1. ASSUME NEW s \in SUBSET T, \A u \in SUBSET s : u # s => u \in Q,
             NEW y \in s
      PROVE  Total(f, s) = f[y] + Total(f, s \ {y})
  <2> DEFINE p == Picked(s)
             rest == (s \ {p}) \ {y}
  <2>1. p \in s /\ IsFiniteSet(s)
    BY PickedIn, FS_Subset
  <2>2. Total(f, s) = f[p] + Total(f, s \ {p})
    BY <2>1, TotalRecursion
  <2>3. CASE y = p
    BY <2>2, <2>3
  <2>4. CASE y # p
    <3>1. /\ s \ {p} \in SUBSET s /\ s \ {p} # s /\ y \in s \ {p}
          /\ s \ {y} \in SUBSET s /\ s \ {y} # s /\ p \in s \ {y}
          /\ rest = (s \ {y}) \ {p}
      BY <2>1, <2>4
    <3> HIDE DEF p
    <3>2. s \ {p} \in Q /\ s \ {y} \in Q
      <4> HIDE DEF Q
      <4> QED  BY <1>1, <3>1
    <3>3. /\ Total(f, s \ {p}) = f[y] + Total(f, rest)
          /\ Total(f, s \ {y}) = f[p] + Total(f, rest)
      BY <3>1, <3>2
    <3>4. IsFiniteSet(rest) /\ rest \in SUBSET T
      BY <2>1, FS_Subset
    <3>5. Total(f, rest) \in Nat /\ f[y] \in Nat /\ f[p] \in Nat
      BY <2>1, <3>4, TotalNat
    <3> QED  BY <2>2, <3>3, <3>5
  <2> QED  BY <2>3, <2>4
<1>2. T \in Q
  <2>1. ASSUME NEW s \in SUBSET T, \A u \in SUBSET s : u # s => u \in Q
        PROVE  s \in Q
    BY <1>1, <2>1
  <2> HIDE DEF Q
  <2> QED  BY <2>1, SubsetInduction
<1> QED  BY <1>2

(* MapThenSumSet's sum of a function's values is the total.                *)
LEMMA SumIsTotal ==
  ASSUME NEW f, NEW T, IsFiniteSet(T)
  PROVE  MapThenSumSet(LAMBDA w : f[w], T) = Total(f, T)
<1> DEFINE it == CHOOSE it : SumsUp(it, f, T)
<1>1. it = CHOOSE k : k = [s \in SUBSET T |->
                            IF s = {} THEN 0 ELSE f[Picked(s)] + k[s \ {Picked(s)}]]
  BY DEF SumsUp
<1>2. MapThenSumSet(LAMBDA w : f[w], T) = it[T]
  BY <1>1 DEF MapThenSumSet, MapThenFoldSet, Picked
<1> QED  BY <1>2 DEF Total

(* As many elements as the sets of a family have together, when no two     *)
(* share one.                                                              *)
LEMMA TotalOfSizes ==
  ASSUME NEW T, IsFiniteSet(T), NEW F, NEW f,
         \A x \in T : IsFiniteSet(F[x]) /\ f[x] = Cardinality(F[x]),
         \A x, y \in T : x # y => F[x] \cap F[y] = {}
  PROVE  Total(f, T) = Cardinality(UNION {F[x] : x \in T})
<1> DEFINE All(s) == UNION {F[x] : x \in s}
           Q == {s \in SUBSET T : IsFiniteSet(All(s)) /\ Total(f, s) = Cardinality(All(s))}
<1>1. ASSUME NEW s \in SUBSET T, \A u \in SUBSET s : u # s => u \in Q
      PROVE  s \in Q
  <2>1. IsFiniteSet(s)
    BY FS_Subset
  <2>2. CASE s = {}
    <3>1. All(s) = {} /\ Total(f, s) = 0
      BY <2>1, <2>2, TotalRecursion
    <3> HIDE DEF All
    <3> QED  BY <3>1, FS_EmptySet
  <2>3. CASE s # {}
    <3> DEFINE p == Picked(s)
               u == s \ {p}
    <3>1. p \in s /\ u \in SUBSET s /\ u # s
      BY <2>3, PickedIn
    <3>2. IsFiniteSet(All(u)) /\ Total(f, u) = Cardinality(All(u))
      <4> HIDE DEF All, u
      <4> QED  BY <1>1, <3>1
    <3>3. Total(f, s) = Cardinality(F[p]) + Cardinality(All(u))
      BY <2>1, <2>3, <3>1, <3>2, TotalRecursion
    <3>4. All(s) = F[p] \cup All(u) /\ F[p] \cap All(u) = {}
      <4> HIDE DEF p
      <4> QED  BY <3>1
    <3>5. IsFiniteSet(F[p])
      BY <3>1
    <3> HIDE DEF All, p, u
    <3>6. /\ IsFiniteSet(F[p] \cup All(u))
          /\ Cardinality(F[p] \cup All(u)) =
               Cardinality(F[p]) + Cardinality(All(u)) - Cardinality(F[p] \cap All(u))
      BY <3>2, <3>5, FS_Union
    <3>7. Cardinality(F[p] \cap All(u)) = 0
      BY <3>4, FS_EmptySet
    <3>8. Cardinality(F[p]) \in Nat /\ Cardinality(All(u)) \in Nat
      BY <3>2, <3>5, FS_CardinalityType
    <3>9. IsFiniteSet(All(s)) /\ Total(f, s) = Cardinality(All(s))
      BY <3>3, <3>4, <3>6, <3>7, <3>8
    <3> QED  BY <3>9
  <2> QED  BY <2>2, <2>3
<1>2. T \in Q
  <2> HIDE DEF Q
  <2> QED  BY <1>1, SubsetInduction
<1> QED  BY <1>2

-----------------------------------------------------------------------------
(* What is confirmed, and what is reported.                                *)

(* Between two exits an answer that is counted stays as it is, and comes   *)
(* from the handler that counts it.                                        *)
LEMMA AnswersKept ==
  ASSUME IInv, [Next]_vars, ~Exit
  PROVE  /\ \A q \in DOMAIN instr :
              /\ q \in DOMAIN instr' /\ instr'[q] = instr[q]
              /\ outcome[q] \in Counted => outcome'[q] = outcome[q]
              /\ outcome'[q] \in Counted /\ outcome'[q] # outcome[q] =>
                   \/ outcome'[q] = "signed" /\ VaultEnd(q)
                   \/ outcome'[q] = "refused" /\ VaultRefuse(q)
                   \/ outcome'[q] = "confirmed" /\ ConfirmDeposit(q) /\ Answer(q, "confirmed")
         /\ \A q \in DOMAIN instr' : outcome'[q] \in Counted => q \in DOMAIN instr
<1> DEFINE From(q) ==
             \/ outcome'[q] = "signed" /\ VaultEnd(q)
             \/ outcome'[q] = "refused" /\ VaultRefuse(q)
             \/ outcome'[q] = "confirmed" /\ ConfirmDeposit(q) /\ Answer(q, "confirmed")
           Kept(q) ==
             /\ q \in DOMAIN instr' /\ instr'[q] = instr[q]
             /\ outcome[q] \in Counted => outcome'[q] = outcome[q]
             /\ outcome'[q] \in Counted /\ outcome'[q] # outcome[q] => From(q)
           Goal == /\ \A q \in DOMAIN instr : Kept(q)
                   /\ \A q \in DOMAIN instr' : outcome'[q] \in Counted => q \in DOMAIN instr
<1>1. ASSUME NEW ins \in Instructions, Receive(ins)
      PROVE  Goal
  <2> DEFINE n == Len(instr) + 1
  <2>1. /\ instr \in Seq(Instructions) /\ n \in Requests /\ instr' = Append(instr, ins)
        /\ outcome' \in {outcome, [outcome EXCEPT ![n] = "unrouted"]}
    BY <1>1 DEF Receive, IInv, HttpTyped
  <2>2. /\ DOMAIN instr = 1..Len(instr) /\ DOMAIN instr' = 1..n /\ n \notin DOMAIN instr
        /\ \A q \in DOMAIN instr : q \in DOMAIN instr' /\ instr'[q] = instr[q]
        /\ \A q \in DOMAIN instr' : q \in DOMAIN instr \/ q = n
    BY <2>1
  <2>3. outcome[n] = "none" /\ outcome \in [Requests -> Outcomes]
    BY <2>1, <2>2 DEF IInv, QueueInv, HttpTyped
  <2>4. /\ \A q \in DOMAIN instr : outcome'[q] = outcome[q]
        /\ outcome'[n] \notin Counted
    <3> HIDE DEF n
    <3>1. CASE outcome' = outcome
      BY <2>3, <3>1 DEF Counted
    <3>2. CASE outcome' = [outcome EXCEPT ![n] = "unrouted"]
      BY <2>1, <2>2, <2>3, <3>2 DEF Counted
    <3> QED BY <2>1, <3>1, <3>2
  <2> HIDE DEF n, From
  <2> QED BY <2>2, <2>4
<1>2. ASSUME NEW r \in DOMAIN instr, NEW o \in Outcomes, instr' = instr,
             outcome[r] = "none", outcome' = [outcome EXCEPT ![r] = o],
             o \in Counted => From(r)
      PROVE  Goal
  <2>1. r \in Requests /\ outcome \in [Requests -> Outcomes]
    BY Received DEF IInv, HttpTyped
  <2> HIDE DEF From
  <2>2. outcome'[r] = o /\ \A q \in DOMAIN instr : q # r => outcome'[q] = outcome[q]
    BY <1>2, <2>1
  <2>3. "none" \notin Counted
    BY DEF Counted
  <2> QED BY <1>2, <2>2, <2>3
<1>3. ASSUME NEW r \in DOMAIN instr,
             \/ RefuseUndecodable(r) \/ CreateWallet(r) \/ SetPolicy(r)
             \/ ReportState(r) \/ VaultError(r) \/ VaultRefuse(r) \/ ConfirmDeposit(r)
      PROVE  Goal
  <2>1. PICK o \in Outcomes :
          Answer(r, o) /\ (o \in Counted => \/ o = "refused" /\ VaultRefuse(r)
                                            \/ o = "confirmed" /\ ConfirmDeposit(r))
    BY <1>3 DEF RefuseUndecodable, CreateWallet, SetPolicy, ReportState, VaultError,
         VaultRefuse, ConfirmDeposit, Outcomes, Counted
  <2>2. outcome[r] = "none" /\ r \in Requests
    BY <2>1, AtItsTurn DEF Answer, IInv
  <2>3. instr' = instr /\ outcome' = [outcome EXCEPT ![r] = o] /\ outcome'[r] = o
    BY <2>1, <2>2 DEF Answer, IInv, HttpTyped
  <2> QED BY <1>2, <2>1, <2>2, <2>3
<1>4. ASSUME NEW r \in DOMAIN instr,
             \/ UpdateKeyLoad(r) \/ UpdateKeyReject(r) \/ UpdateKeyTimeout(r)
             \/ VaultEnd(r) \/ VaultSignFails(r)
      PROVE  Goal
  <2>1. PICK ph \in {"decrypting", "signing"}, o \in Outcomes :
          Settle(r, ph, o) /\ (o \in Counted => o = "signed" /\ VaultEnd(r))
    BY <1>4 DEF UpdateKeyLoad, UpdateKeyReject, UpdateKeyTimeout, VaultEnd, VaultSignFails,
         Outcomes, Counted
  <2>2. outcome[r] = "none" /\ r \in Requests
    BY <2>1, SettleHttp DEF IInv
  <2>3. instr' = instr /\ outcome' = [outcome EXCEPT ![r] = o] /\ outcome'[r] = o
    BY <2>1, <2>2 DEF Settle, IInv, HttpTyped
  <2> QED BY <1>2, <2>1, <2>2, <2>3
<1>5. ASSUME \/ \E r \in DOMAIN instr : UpdateKeyBegin(r) \/ VaultBegin(r)
             \/ UNCHANGED vars
      PROVE  Goal
  <2>1. UNCHANGED <<instr, outcome>>
    BY <1>5 DEF UpdateKeyBegin, VaultBegin, Suspend, vars, httpVars
  <2> HIDE DEF From
  <2> QED BY <2>1
<1> HIDE DEF Goal
<1>6. Goal
  BY <1>1, <1>3, <1>4, <1>5 DEF Next, VaultThrow, Stop, LookupThrows
<1> QED  BY <1>6 DEF Goal

(* The census of users: it is finite, holds no spelling but the lowered    *)
(* one, and has everyone who has a counted answer.                         *)
CensusInv ==
  /\ IsFiniteSet(users)
  /\ \A w \in users : w \in Wire /\ Lower[w] = w
  /\ \A q \in DOMAIN instr : outcome[q] \in Counted => Lower[instr[q].user] \in users

(* The census only grows, by owners' lowered addresses.                    *)
LEMMA CensusGrows ==
  ASSUME IInv, [Next]_vars, ~Exit
  PROVE  users' = users \/ \E w \in Wire : users' = users \cup {Lower[w]}
<1> USE DEF IInv
<1>1. ASSUME NEW r \in DOMAIN instr, CreateWallet(r) \/ ConfirmDeposit(r) \/ VaultError(r)
      PROVE  users' = users \/ \E w \in Wire : users' = users \cup {Lower[w]}
  <2>1. users' = users \/ users' = users \cup {Lower[instr[r].user]}
    BY <1>1 DEF CreateWallet, ConfirmDeposit, VaultError, WithTenant, TenantKey, enclaveVars
  <2>2. instr[r].op \in {"CREATE", "CONFIRM_DEPOSIT", "VAULT"}
    BY <1>1 DEF CreateWallet, ConfirmDeposit, VaultError
  <2> QED  BY <2>1, <2>2, Received, Payloads
<1>2. ASSUME NEW r \in DOMAIN instr, SetPolicy(r)
      PROVE  \E w \in Wire : users' = users \cup {Lower[w]}
  <2>1. users' = users \cup {Lower[instr[r].policy.owner]} /\ instr[r].op = "SET_POLICY"
    BY <1>2 DEF SetPolicy, WithTenant, TenantKey
  <2> QED  BY <2>1, Received, Payloads
<1>3. ASSUME NEW r \in DOMAIN instr,
             \/ RefuseUndecodable(r) \/ ReportState(r) \/ VaultRefuse(r)
             \/ UpdateKeyBegin(r) \/ UpdateKeyLoad(r) \/ UpdateKeyReject(r)
             \/ UpdateKeyTimeout(r) \/ VaultBegin(r) \/ VaultEnd(r) \/ VaultSignFails(r)
      PROVE  users' = users
  BY <1>3 DEF RefuseUndecodable, ReportState, VaultRefuse, UpdateKeyBegin, UpdateKeyLoad,
       UpdateKeyReject, UpdateKeyTimeout, VaultBegin, VaultEnd, VaultSignFails, enclaveVars
<1>4. ASSUME (\E ins \in Instructions : Receive(ins)) \/ UNCHANGED vars
      PROVE  users' = users
  BY <1>4 DEF Receive, vars, enclaveVars
<1> QED  BY <1>1, <1>2, <1>3, <1>4 DEF Next, VaultThrow, Stop, LookupThrows

(* Whoever is answered with a count is in the census by then.              *)
LEMMA CountedInCensus ==
  ASSUME IInv, NEW q \in DOMAIN instr,
         VaultEnd(q) \/ VaultRefuse(q) \/ ConfirmDeposit(q)
  PROVE  Lower[instr[q].user] \in users'
<1> USE DEF IInv
<1>1. CASE ConfirmDeposit(q)
  BY <1>1 DEF ConfirmDeposit, WithTenant, TenantKey
<1>2. CASE VaultRefuse(q)
  <2>1. Judged(q) /\ users' = users
    BY <1>2 DEF VaultRefuse
  <2> QED  BY <2>1, AtTheGuard
<1>3. CASE VaultEnd(q)
  <2>1. phase[q] = "signing" /\ users' = users /\ q \in Requests
    BY <1>3, Received DEF VaultEnd, Settle
  <2>2. Judged(q)
    BY <2>1 DEF AwaitInv, Promised, Judged, TenantKey
  <2> QED  BY <2>1, <2>2, AtTheGuard
<1> QED  BY <1>1, <1>2, <1>3

(* Whoever was answered is a tenant with a counter, after every step.      *)
LEMMA NextCensus ==
  ASSUME IInv, CensusInv, [Next]_vars
  PROVE  CensusInv'
<1>1. CASE Exit
  <2>1. users' = {} /\ outcome' = [r \in Requests |-> "none"] /\ instr' = instr
    BY <1>1 DEF Exit
  <2>2. \A q \in DOMAIN instr : q \in Requests
    BY Received DEF IInv
  <2> QED  BY <2>1, <2>2, FS_EmptySet DEF CensusInv, Counted
<1>2. CASE ~Exit
  <2>1. users' = users \/ \E w \in Wire : users' = users \cup {Lower[w]}
    BY <1>2, CensusGrows
  <2>2. \A w \in users' : w \in Wire /\ Lower[w] = w
    BY <2>1, GuardAssumption DEF CensusInv
  <2>3. IsFiniteSet(users')
    BY <2>1, FS_AddElement DEF CensusInv
  <2>4. ASSUME NEW q \in DOMAIN instr', outcome'[q] \in Counted
        PROVE  Lower[instr'[q].user] \in users'
    <3>1. /\ q \in DOMAIN instr /\ instr'[q] = instr[q]
          /\ outcome'[q] # outcome[q] => VaultEnd(q) \/ VaultRefuse(q) \/ ConfirmDeposit(q)
      BY <1>2, <2>4, AnswersKept
    <3>2. CASE outcome'[q] = outcome[q]
      BY <2>1, <2>4, <3>1, <3>2 DEF CensusInv
    <3>3. CASE outcome'[q] # outcome[q]
      BY <3>1, <3>3, CountedInCensus
    <3> QED  BY <3>2, <3>3
  <2> QED  BY <2>2, <2>3, <2>4 DEF CensusInv
<1> QED  BY <1>1, <1>2

(* Every tenant with an answer to his name is in the users Map.            *)
LEMMA CensusHolds == Spec => []CensusInv
<1>1. Init => CensusInv
  BY FS_EmptySet DEF Init, CensusInv
<1>2. IInv /\ CensusInv /\ [Next]_vars => CensusInv'
  BY NextCensus
<1> QED BY <1>1, <1>2, ServerInvariant, PTL DEF Spec

(* The payments in the proofs that were confirmed, by request.             *)
Proved(ins) == [q \in DOMAIN ins |-> ins[q].deposit.receivedAmount]

DropsInv ==
  /\ \A q \in DOMAIN instr : outcome[q] = "confirmed" => Proved(instr)[q] \in Nat
  /\ \A u \in Wire :
       Lower[u] = u => confirmedDrops[u] = Total(Proved(instr), Answered(u, "confirmed"))

(* Requests answered alike are finitely many.                              *)
LEMMA AnsweredFinite ==
  ASSUME HttpTyped
  PROVE  IsFiniteSet(DOMAIN instr) /\ \A u, c : IsFiniteSet(Answered(u, c))
<1>1. DOMAIN instr = 1..Len(instr) /\ Len(instr) \in Nat
  BY DEF HttpTyped
<1>2. IsFiniteSet(DOMAIN instr)
  BY <1>1, FS_Interval
<1>3. \A u, c : Answered(u, c) \in SUBSET DOMAIN instr
  BY DEF Answered
<1> QED  BY <1>2, <1>3, FS_Subset

(* Only a confirmed deposit moves an owner's drops.                        *)
LEMMA DropsKept ==
  ASSUME IInv, [Next]_vars, ~Exit,
         ~ \E r \in DOMAIN instr : ConfirmDeposit(r) /\ Answer(r, "confirmed")
  PROVE  confirmedDrops' = confirmedDrops
<1>1. ASSUME NEW r \in DOMAIN instr, ConfirmDeposit(r)
      PROVE  confirmedDrops' = confirmedDrops
  BY <1>1 DEF ConfirmDeposit
<1>2. ASSUME \/ \E ins \in Instructions : Receive(ins)
             \/ \E r \in DOMAIN instr :
                  \/ RefuseUndecodable(r) \/ CreateWallet(r) \/ SetPolicy(r)
                  \/ ReportState(r) \/ VaultError(r) \/ VaultRefuse(r)
                  \/ UpdateKeyBegin(r) \/ UpdateKeyLoad(r) \/ UpdateKeyReject(r)
                  \/ UpdateKeyTimeout(r) \/ VaultBegin(r) \/ VaultEnd(r)
                  \/ VaultSignFails(r)
             \/ UNCHANGED vars
      PROVE  confirmedDrops' = confirmedDrops
  BY <1>2 DEF Receive, RefuseUndecodable, CreateWallet, SetPolicy, ReportState,
       VaultError, VaultRefuse, UpdateKeyBegin, UpdateKeyLoad, UpdateKeyReject,
       UpdateKeyTimeout, VaultBegin, VaultEnd, VaultSignFails, enclaveVars, tenantVars, vars
<1> QED  BY <1>1, <1>2 DEF Next, VaultThrow, Stop, LookupThrows

(* A confirmation adds its payment to its owner's drops; nothing else      *)
(* adds.                                                                   *)
LEMMA NextDrops ==
  ASSUME IInv, DropsInv, [Next]_vars
  PROVE  DropsInv'
<1> DEFINE f == Proved(instr)
           g == Proved(instr')
           Confirmed(u) == Answered(u, "confirmed")
<1>1. CASE Exit
  <2>1. outcome' = [r \in Requests |-> "none"] /\ instr' = instr /\ confirmedDrops' = Zero
    BY <1>1 DEF Exit
  <2>2. \A q \in DOMAIN instr : q \in Requests
    BY Received DEF IInv
  <2>3. \A u \in Wire : Confirmed(u)' = {}
    BY <2>1, <2>2 DEF Answered
  <2>4. Total(g, {}) = 0
    BY TotalRecursion, FS_EmptySet
  <2> QED  BY <2>1, <2>2, <2>3, <2>4 DEF DropsInv, Zero
<1>2. CASE ~Exit
  <2>1. \A q \in DOMAIN instr :
          /\ q \in DOMAIN instr' /\ instr'[q] = instr[q] /\ f[q] = g[q]
          /\ outcome[q] = "confirmed" => outcome'[q] = "confirmed"
          /\ outcome'[q] = "confirmed" /\ outcome[q] # "confirmed" =>
               ConfirmDeposit(q) /\ Answer(q, "confirmed")
    BY <1>2, AnswersKept DEF Counted, Proved
  <2>2. \A q \in DOMAIN instr' : outcome'[q] = "confirmed" => q \in DOMAIN instr
    BY <1>2, AnswersKept DEF Counted
  <2>3. ASSUME NEW u \in Wire
        PROVE  /\ IsFiniteSet(Confirmed(u)) /\ Total(f, Confirmed(u)) = Total(g, Confirmed(u))
               /\ Total(f, Confirmed(u)) \in Nat
    <3>1. IsFiniteSet(Confirmed(u))
      BY AnsweredFinite DEF IInv
    <3>2. \A q \in Confirmed(u) : f[q] = g[q] /\ f[q] \in Nat
      BY <2>1 DEF DropsInv, Answered
    <3> HIDE DEF f, g, Confirmed
    <3> QED  BY <3>1, <3>2, TotalSame, TotalNat
  <2>4. CASE ~ \E r \in DOMAIN instr : ConfirmDeposit(r) /\ Answer(r, "confirmed")
    <3>1. \A u \in Wire : Confirmed(u)' = Confirmed(u)
      BY <2>1, <2>2, <2>4 DEF Answered
    <3>2. confirmedDrops' = confirmedDrops
      BY <1>2, <2>4, DropsKept
    <3>3. \A q \in DOMAIN instr' : outcome'[q] = "confirmed" => g[q] \in Nat
      <4> TAKE q \in DOMAIN instr'
      <4> HAVE outcome'[q] = "confirmed"
      <4>1. q \in DOMAIN instr /\ outcome[q] = "confirmed" /\ f[q] = g[q]
        BY <2>1, <2>2, <2>4
      <4> HIDE DEF g
      <4> QED  BY <4>1 DEF DropsInv
    <3> HIDE DEF f, g, Confirmed
    <3>4. \A u \in Wire : Lower[u] = u => confirmedDrops'[u] = Total(g, Confirmed(u)')
      <4>1. \A u \in Wire : Lower[u] = u => confirmedDrops[u] = Total(f, Confirmed(u))
        BY DEF DropsInv, f, Confirmed
      <4> QED  BY <2>3, <3>1, <3>2, <4>1
    <3> QED  BY <3>3, <3>4 DEF DropsInv, g, Confirmed
  <2>5. ASSUME NEW r \in DOMAIN instr, ConfirmDeposit(r), Answer(r, "confirmed")
        PROVE  DropsInv'
    <3> DEFINE w == Lower[instr[r].user]
               d == instr[r].deposit
    <3>1. /\ instr[r].op = "CONFIRM_DEPOSIT" /\ instr' = instr
          /\ outcome' = [outcome EXCEPT ![r] = "confirmed"]
          /\ outcome[r] = "none" /\ r \in Requests
      BY <2>5, AtItsTurn DEF ConfirmDeposit, Answer, IInv
    <3>2. outcome'[r] = "confirmed"
          /\ \A q \in DOMAIN instr : q # r => outcome'[q] = outcome[q]
      BY <3>1 DEF IInv, HttpTyped
    <3>3. /\ d \in Deposits
          /\ confirmedDrops' = [confirmedDrops EXCEPT ![w] = confirmedDrops[w] + d.receivedAmount]
      <4>1. ~Answer(r, "error")
        BY <3>1, <3>2 DEF Answer, IInv, HttpTyped
      <4>2. d \in Deposits \cup {Malformed}
        BY <3>1, Received, Payloads DEF IInv
      <4>3. /\ d # Malformed
            /\ confirmedDrops' = [confirmedDrops EXCEPT ![w] = Credited(w, d)]
        BY <2>5, <4>1 DEF ConfirmDeposit, TenantKey
      <4> QED  BY <4>2, <4>3 DEF Credited
    <3>4. w \in Wire /\ confirmedDrops \in [Wire -> Nat] /\ d.receivedAmount \in Nat
      BY <3>1, <3>3, Received, Payloads, ServerAssumption DEF IInv, CoreTyped, E!TypeOK, Deposit
    <3>5. f = g /\ f[r] = d.receivedAmount
      BY <3>1 DEF Proved
    <3>6. \A q \in DOMAIN instr' : outcome'[q] = "confirmed" => g[q] \in Nat
      <4> TAKE q \in DOMAIN instr'
      <4> HAVE outcome'[q] = "confirmed"
      <4> HIDE DEF g, d
      <4>1. CASE q = r
        BY <3>4, <3>5, <4>1
      <4>2. CASE q # r
        BY <3>1, <3>2, <3>5, <4>2 DEF DropsInv
      <4> QED  BY <4>1, <4>2
    <3>7. ASSUME NEW u \in Wire, Lower[u] = u
          PROVE  confirmedDrops'[u] = Total(g, Confirmed(u)')
      <4>1. confirmedDrops[u] = Total(f, Confirmed(u)) /\ Total(f, Confirmed(u)) \in Nat
        BY <2>3, <3>7 DEF DropsInv
      <4>2. r \notin Confirmed(u)
        BY <3>1 DEF Answered
      <4>3. CASE u # w
        <5>1. Confirmed(u)' = Confirmed(u)
          BY <3>1, <3>2, <4>2, <4>3 DEF Answered
        <5> HIDE DEF f, g, Confirmed, w
        <5> QED  BY <3>3, <3>4, <3>5, <4>1, <4>3, <5>1
      <4>4. CASE u = w
        <5>1. Confirmed(u)' = Confirmed(u) \cup {r}
          BY <3>1, <3>2, <4>4 DEF Answered
        <5>2. \A q \in Confirmed(u)' : g[q] \in Nat
          <6>1. Confirmed(u)' \subseteq DOMAIN instr'
                /\ \A q \in Confirmed(u)' : outcome'[q] = "confirmed"
            BY DEF Answered
          <6> HIDE DEF g, Confirmed
          <6> QED  BY <3>6, <6>1
        <5> HIDE DEF f, g, Confirmed, w, d
        <5>3. IsFiniteSet(Confirmed(u)')
          BY <2>3, <5>1, FS_AddElement
        <5>4. Total(g, Confirmed(u)') = g[r] + Total(g, Confirmed(u)' \ {r})
          BY <5>1, <5>2, <5>3, TotalWithout
        <5>5. Confirmed(u)' \ {r} = Confirmed(u)
          BY <4>2, <5>1
        <5>6. confirmedDrops'[u] = confirmedDrops[u] + d.receivedAmount
          BY <3>3, <3>4, <4>4
        <5> QED  BY <3>4, <3>5, <4>1, <5>4, <5>5, <5>6
      <4> QED  BY <4>3, <4>4
    <3> QED  BY <3>6, <3>7 DEF DropsInv
  <2> QED  BY <2>4, <2>5
<1> QED  BY <1>1, <1>2

(* handlers.ts: confirmedDrops is, for every owner, any number of deposits *)
(* and any amounts, the sum of the payments in the proofs whose            *)
(* confirmation was answered since boot.                                   *)
THEOREM DropsAreTallies == Spec => []DropsTallyAnswers
<1>1. Init => DropsInv
  <2> SUFFICES ASSUME Init
               PROVE  DropsInv
    OBVIOUS
  <2>1. DOMAIN instr = {} /\ \A u \in Wire : Answered(u, "confirmed") = {}
    BY DEF Init, Answered
  <2>2. Total(Proved(instr), {}) = 0
    BY TotalRecursion, FS_EmptySet
  <2>3. \A u \in Wire : confirmedDrops[u] = 0
    BY DEF Init, Zero
  <2> QED  BY <2>1, <2>2, <2>3 DEF DropsInv
<1>2. IInv /\ DropsInv /\ [Next]_vars => DropsInv'
  BY NextDrops
<1>3. IInv /\ DropsInv => DropsTallyAnswers
  <2> SUFFICES ASSUME IInv, DropsInv, NEW u \in Wire, Lower[u] = u
               PROVE  confirmedDrops[u] =
                        MapThenSumSet(LAMBDA r : instr[r].deposit.receivedAmount,
                                      Answered(u, "confirmed"))
    BY DEF DropsTallyAnswers
  <2> DEFINE T == Answered(u, "confirmed")
             f == Proved(instr)
             it == CHOOSE k : k = [s \in SUBSET T |->
                                     IF s = {} THEN 0
                                     ELSE instr[Picked(s)].deposit.receivedAmount
                                            + k[s \ {Picked(s)}]]
  <2>1. MapThenSumSet(LAMBDA r : instr[r].deposit.receivedAmount, T) = it[T]
    BY DEF MapThenSumSet, MapThenFoldSet, Picked
  <2>2. ASSUME NEW k
        PROVE  SumsUp(k, f, T) <=>
                 k = [s \in SUBSET T |-> IF s = {} THEN 0
                                         ELSE instr[Picked(s)].deposit.receivedAmount
                                                + k[s \ {Picked(s)}]]
    <3>1. ASSUME NEW s \in SUBSET T, s # {}
          PROVE  f[Picked(s)] = instr[Picked(s)].deposit.receivedAmount
      BY <3>1, PickedIn DEF Proved, Answered
    <3> HIDE DEF f, T
    <3> QED  BY <3>1 DEF SumsUp
  <2>3. IsFiniteSet(T)
    BY AnsweredFinite DEF IInv
  <2>4. \E k : SumsUp(k, f, T)
    BY <2>3, SumsUpExists
  <2>5. SumsUp(it, f, T)
    <3> HIDE DEF f, T
    <3> QED  BY <2>2, <2>4
  <2>6. Total(f, T) = it[T]
    <3> DEFINE jt == CHOOSE k : SumsUp(k, f, T)
    <3>1. SumsUp(jt, f, T) /\ Total(f, T) = jt[T]
      BY <2>4 DEF Total
    <3> HIDE DEF it, jt, f, T
    <3> QED  BY <2>3, <2>5, <3>1, SumsUpAgree
  <2> QED  BY <2>1, <2>6 DEF DropsInv
<1> QED BY <1>1, <1>2, <1>3, ServerInvariant, PTL DEF Spec

(* The state is reported by its handler only.                              *)
LEMMA OnlyReportStates ==
  ASSUME IInv, [Next]_vars, NEW r \in DOMAIN instr,
         outcome[r] # "state", outcome'[r] = "state"
  PROVE  ReportState(r)
<1>1. r \in Requests /\ outcome \in [Requests -> Outcomes] /\ outcome' # outcome
  BY Received DEF IInv, HttpTyped
<1>2. ASSUME NEW q \in DOMAIN instr, NEW o \in Outcomes, o # "state",
             Answer(q, o) \/ \E ph \in Phases : Settle(q, ph, o)
      PROVE  FALSE
  BY <1>1, <1>2 DEF Answer, Settle
<1>3. ASSUME Exit \/ \E ins \in Instructions : Receive(ins)
      PROVE  FALSE
  BY <1>1, <1>3 DEF Exit, Receive
<1>4. ASSUME NEW q \in DOMAIN instr,
             \/ RefuseUndecodable(q) \/ CreateWallet(q) \/ SetPolicy(q)
             \/ ConfirmDeposit(q) \/ VaultError(q) \/ VaultRefuse(q)
             \/ UpdateKeyLoad(q) \/ UpdateKeyReject(q) \/ UpdateKeyTimeout(q)
             \/ VaultEnd(q) \/ VaultSignFails(q)
      PROVE  FALSE
  <2>1. \E o \in Outcomes : o # "state" /\
           (Answer(q, o) \/ \E ph \in Phases : Settle(q, ph, o))
    BY <1>4 DEF RefuseUndecodable, CreateWallet, SetPolicy, ConfirmDeposit, VaultError,
         VaultRefuse, UpdateKeyLoad, UpdateKeyReject, UpdateKeyTimeout, VaultEnd,
         VaultSignFails, Outcomes, Phases
  <2> QED BY <1>2, <2>1
<1>5. ASSUME NEW q \in DOMAIN instr, ReportState(q)
      PROVE  q = r
  BY <1>1, <1>5 DEF ReportState, Answer
<1>6. ASSUME NEW q \in DOMAIN instr, UpdateKeyBegin(q) \/ VaultBegin(q)
      PROVE  FALSE
  BY <1>1, <1>6 DEF UpdateKeyBegin, VaultBegin, Suspend
<1> QED BY <1>1, <1>3, <1>4, <1>5, <1>6
        DEF Next, VaultThrow, Stop, LookupThrows, vars, httpVars

(* A counter's sum over the census is the number of answers it counts.     *)
LEMMA SumOfTallies ==
  ASSUME IInv, CensusInv, NEW f, NEW c \in Counted,
         \A u \in Wire : Lower[u] = u => f[u] = Cardinality(Answered(u, c))
  PROVE  Sum(f) = Cardinality({q \in DOMAIN instr : outcome[q] = c})
<1> DEFINE F == [u \in users |-> Answered(u, c)]
<1>1. Sum(f) = Total(f, users)
  BY SumIsTotal DEF Sum, CensusInv
<1>2. \A u \in users : IsFiniteSet(F[u]) /\ f[u] = Cardinality(F[u])
  BY AnsweredFinite DEF CensusInv, IInv
<1>3. \A u, v \in users : u # v => F[u] \cap F[v] = {}
  BY DEF Answered
<1>4. UNION {F[u] : u \in users} = {q \in DOMAIN instr : outcome[q] = c}
  <2>1. ASSUME NEW q \in DOMAIN instr, outcome[q] = c
        PROVE  \E u \in users : q \in F[u]
    <3>1. Lower[instr[q].user] \in users
      BY <2>1 DEF CensusInv
    <3> QED  BY <2>1, <3>1 DEF Answered
  <2>2. \A u \in users : F[u] \subseteq {q \in DOMAIN instr : outcome[q] = c}
    BY DEF Answered
  <2> HIDE DEF F
  <2> QED  BY <2>1, <2>2
<1> HIDE DEF F
<1>5. Total(f, users) = Cardinality(UNION {F[u] : u \in users})
  BY <1>2, <1>3, TotalOfSizes DEF CensusInv
<1> QED  BY <1>1, <1>4, <1>5

(* handlers.ts, reportState: the totals reported are the numbers of        *)
(* requests signed, refused and confirmed since boot, over however many    *)
(* tenants they are spread, and every counter is in the sum.               *)
THEOREM ReportsAreTallies == Spec => ReportTalliesAnswers
<1> DEFINE Number(c) == Cardinality({q \in DOMAIN instr : outcome[q] = c})
           Sound(r) == outcome[r] # "state" /\ outcome'[r] = "state" =>
                         /\ report'.signed = Number("signed")
                         /\ report'.refused = Number("refused")
                         /\ report'.deposits = Number("confirmed")
<1>1. ASSUME IInv, CensusInv, CountersTallyAnswers, [Next]_vars, NEW r \in DOMAIN instr
      PROVE  Sound(r)
  <2> SUFFICES ASSUME outcome[r] # "state", outcome'[r] = "state"
               PROVE  /\ report'.signed = Number("signed")
                      /\ report'.refused = Number("refused")
                      /\ report'.deposits = Number("confirmed")
    OBVIOUS
  <2>1. /\ report'.signed = Sum(actionsSigned)
        /\ report'.refused = Sum(actionsRefused)
        /\ report'.deposits = Sum(depositsConfirmed)
    BY <1>1, OnlyReportStates DEF ReportState
  <2>2. Sum(actionsSigned) = Number("signed")
    BY <1>1, SumOfTallies DEF CountersTallyAnswers, Counted
  <2>3. Sum(actionsRefused) = Number("refused")
    BY <1>1, SumOfTallies DEF CountersTallyAnswers, Counted
  <2>4. Sum(depositsConfirmed) = Number("confirmed")
    BY <1>1, SumOfTallies DEF CountersTallyAnswers, Counted
  <2> QED  BY <2>1, <2>2, <2>3, <2>4
<1>2. IInv /\ CensusInv /\ CountersTallyAnswers /\ [Next]_vars
        => [\A r \in DOMAIN instr : Sound(r)]_vars
  BY <1>1
<1> QED BY <1>2, ServerInvariant, CensusHolds, CountersAreTallies, PTL
        DEF Spec, ReportTalliesAnswers

-----------------------------------------------------------------------------
(* The order of service.                                                   *)

(* What a step does to the queue, whichever handler takes it.              *)
Begins(r, ph) ==
  /\ Turn(r) /\ queue' = Tail(queue) /\ instr' = instr
  /\ phase' = [phase EXCEPT ![r] = ph]
  /\ \E o \in Outcomes : outcome' = [outcome EXCEPT ![r] = o]

Ends(r) == \E ph \in {"decrypting", "signing"}, o \in Outcomes : Settle(r, ph, o)

(* Every step is an arrival, begins the first handler, ends one, or exits. *)
LEMMA StepShapes ==
  ASSUME IInv, Next
  PROVE  \/ \E ins \in Instructions : Receive(ins)
         \/ \E r \in DOMAIN instr, ph \in {"answered", "decrypting", "signing"} : Begins(r, ph)
         \/ \E r \in DOMAIN instr : Ends(r)
         \/ Exit
<1>1. ASSUME NEW r \in DOMAIN instr,
             \/ RefuseUndecodable(r) \/ CreateWallet(r) \/ SetPolicy(r)
             \/ ConfirmDeposit(r) \/ ReportState(r) \/ VaultError(r) \/ VaultRefuse(r)
      PROVE  Begins(r, "answered")
  <2>1. \E o \in Outcomes : Answer(r, o)
    BY <1>1 DEF RefuseUndecodable, CreateWallet, SetPolicy, ConfirmDeposit, ReportState,
         VaultError, VaultRefuse, Outcomes
  <2> QED  BY <2>1 DEF Answer, Begins
<1>2. ASSUME NEW r \in DOMAIN instr, NEW ph \in {"decrypting", "signing"}, Suspend(r, ph)
      PROVE  Begins(r, ph)
  <2>1. outcome[r] \in Outcomes /\ outcome = [outcome EXCEPT ![r] = outcome[r]]
    BY Received DEF IInv, HttpTyped
  <2>2. outcome' = [outcome EXCEPT ![r] = outcome[r]]
    BY <1>2, <2>1 DEF Suspend
  <2> QED  BY <1>2, <2>1, <2>2 DEF Suspend, Begins
<1>3. ASSUME NEW r \in DOMAIN instr, UpdateKeyBegin(r) \/ VaultBegin(r)
      PROVE  Begins(r, "decrypting") \/ Begins(r, "signing")
  BY <1>2, <1>3 DEF UpdateKeyBegin, VaultBegin
<1>4. ASSUME NEW r \in DOMAIN instr,
             \/ UpdateKeyLoad(r) \/ UpdateKeyReject(r) \/ UpdateKeyTimeout(r)
             \/ VaultEnd(r) \/ VaultSignFails(r)
      PROVE  Ends(r)
  BY <1>4 DEF UpdateKeyLoad, UpdateKeyReject, UpdateKeyTimeout, VaultEnd, VaultSignFails,
       Ends, Outcomes
<1> QED  BY <1>1, <1>3, <1>4 DEF Next, VaultThrow, Stop, LookupThrows

(* The queue is in the order of arrival and has everyone who waits for a   *)
(* turn.                                                                   *)
OrderInv ==
  /\ \A j, k \in DOMAIN queue : j < k => queue[j] < queue[k]
  /\ \A r \in Requests : phase[r] = "queued" => \E k \in DOMAIN queue : queue[k] = r
  /\ ServedInOrder

(* At its turn a request is the first of those that wait.                  *)
LEMMA FirstInLine ==
  ASSUME HttpTyped, QueueInv, OrderInv, NEW r \in DOMAIN instr, Turn(r),
         NEW q \in Requests, phase[q] \in Waiting
  PROVE  phase[q] = "queued" /\ r <= q
<1>1. /\ r \in Requests /\ phase[q] = "queued"
  BY AtItsTurn DEF Waiting
<1>2. PICK k \in DOMAIN queue : queue[k] = q
  BY <1>1 DEF OrderInv
<1>3. queue \in Seq(Requests) /\ queue # <<>> /\ queue[1] = r
  BY DEF Turn, HttpTyped
<1>4. 1 \in DOMAIN queue /\ k \in Nat /\ 1 <= k
  BY <1>3
<1>5. k = 1 \/ r < q
  BY <1>2, <1>3, <1>4 DEF OrderInv
<1>6. q \in Int /\ r \in Int
  BY <1>1 DEF Requests
<1> QED  BY <1>1, <1>2, <1>3, <1>5, <1>6

(* A handler that ends is the first of those that wait, too.               *)
LEMMA EndsFirst ==
  ASSUME HttpTyped, QueueInv, OrderInv, NEW r \in DOMAIN instr, Ends(r),
         NEW q \in DOMAIN instr, phase[q] \in Waiting
  PROVE  r <= q
<1>1. r \in Requests /\ q \in Requests /\ phase[r] \in {"decrypting", "signing"}
  BY Received DEF Ends, Settle
<1>2. outcome[r] = "none"
  BY <1>1 DEF QueueInv
<1>3. ~ (q < r)
  BY <1>1, <1>2 DEF OrderInv, ServedInOrder
<1> QED  BY <1>1, <1>3 DEF Requests

(* A request that arrives joins behind everyone.                           *)
LEMMA ReceiveOrder ==
  ASSUME HttpTyped, QueueInv, OrderInv, NEW ins \in Instructions, Receive(ins)
  PROVE  OrderInv'
<1> DEFINE n == Len(instr) + 1
<1>1. /\ instr \in Seq(Instructions) /\ n \in Requests /\ instr' = Append(instr, ins)
      /\ Len(instr) \in Nat
  BY DEF Receive, HttpTyped
<1>2. /\ DOMAIN instr = 1..Len(instr) /\ DOMAIN instr' = 1..n
      /\ \A q \in DOMAIN instr : q < n
      /\ \A q \in DOMAIN instr' : q \in DOMAIN instr \/ q = n
  BY <1>1
<1>3. /\ phase[n] = "idle" /\ outcome[n] = "none"
      /\ phase \in [Requests -> Phases] /\ outcome \in [Requests -> Outcomes]
      /\ queue \in Seq(Requests)
  BY <1>1, <1>2 DEF QueueInv, HttpTyped
<1>4. ASSUME NEW k \in DOMAIN queue
      PROVE  queue[k] \in DOMAIN instr /\ queue[k] < n
  <2>1. queue[k] \in Requests /\ phase[queue[k]] = "queued"
    BY <1>3 DEF QueueInv
  <2>2. queue[k] \in DOMAIN instr
    BY <2>1 DEF QueueInv
  <2> QED  BY <1>2, <2>2
<1> HIDE DEF n
<1>5. CASE ins.op = "UNROUTED"
  <2>1. /\ phase' = [phase EXCEPT ![n] = "answered"]
        /\ outcome' = [outcome EXCEPT ![n] = "unrouted"] /\ queue' = queue
    BY <1>5 DEF Receive, n
  <2>2. /\ outcome'[n] = "unrouted" /\ phase'[n] = "answered"
        /\ \A q \in Requests : q # n => phase'[q] = phase[q] /\ outcome'[q] = outcome[q]
    BY <1>1, <1>3, <2>1
  <2>3. ServedInOrder'
    <3> SUFFICES ASSUME NEW q \in DOMAIN instr', NEW r \in DOMAIN instr', q < r,
                        phase'[q] \in Waiting
                 PROVE  phase'[r] = "queued" \/ outcome'[r] = "unrouted"
      BY DEF ServedInOrder
    <3>1. CASE r = n
      BY <2>2, <3>1
    <3>2. CASE r # n
      <4>1. q \in DOMAIN instr /\ q # n
        BY <1>2, <2>2 DEF Waiting
      <4>2. r \in DOMAIN instr
        BY <1>2, <3>2
      <4>3. q \in Requests /\ r \in Requests
        BY <4>1, <4>2, Received
      <4> QED  BY <2>2, <3>2, <4>1, <4>2, <4>3 DEF OrderInv, ServedInOrder
    <3> QED  BY <3>1, <3>2
  <2> QED  BY <2>1, <2>2, <2>3 DEF OrderInv
<1>6. CASE ins.op # "UNROUTED"
  <2>1. /\ phase' = [phase EXCEPT ![n] = "queued"]
        /\ outcome' = outcome /\ queue' = Append(queue, n)
    BY <1>6 DEF Receive, n
  <2>2. /\ phase'[n] = "queued"
        /\ \A q \in Requests : q # n => phase'[q] = phase[q]
    BY <1>1, <1>3, <2>1
  <2>3. /\ Len(queue) \in Nat /\ DOMAIN queue = 1..Len(queue)
        /\ DOMAIN queue' = 1..(Len(queue) + 1) /\ queue'[Len(queue) + 1] = n
        /\ \A k \in DOMAIN queue : queue'[k] = queue[k]
    BY <1>3, <2>1
  <2>4. \A j, k \in DOMAIN queue' : j < k => queue'[j] < queue'[k]
    <3> TAKE j, k \in DOMAIN queue'
    <3> HAVE j < k
    <3>1. j \in DOMAIN queue
      BY <2>3
    <3>2. CASE k = Len(queue) + 1
      BY <1>4, <2>3, <3>1, <3>2
    <3>3. CASE k # Len(queue) + 1
      <4>1. k \in DOMAIN queue
        BY <2>3, <3>3
      <4> QED  BY <2>3, <3>1, <4>1 DEF OrderInv
    <3> QED  BY <3>2, <3>3
  <2>5. \A r \in Requests : phase'[r] = "queued" => \E k \in DOMAIN queue' : queue'[k] = r
    <3> TAKE r \in Requests
    <3> HAVE phase'[r] = "queued"
    <3>1. CASE r = n
      BY <2>3, <3>1
    <3>2. CASE r # n
      <4>1. PICK k \in DOMAIN queue : queue[k] = r
        BY <2>2, <3>2 DEF OrderInv
      <4>2. k \in DOMAIN queue'
        BY <2>3, <4>1
      <4> QED  BY <2>3, <4>1, <4>2
    <3> QED  BY <3>1, <3>2
  <2>6. ServedInOrder'
    <3> SUFFICES ASSUME NEW q \in DOMAIN instr', NEW r \in DOMAIN instr', q < r,
                        phase'[q] \in Waiting
                 PROVE  phase'[r] = "queued" \/ outcome'[r] = "unrouted"
      BY DEF ServedInOrder
    <3>1. CASE r = n
      BY <2>2, <3>1
    <3>2. CASE r # n
      <4>1. r \in DOMAIN instr /\ r < n
        BY <1>2, <3>2
      <4>2. q # n
        <5>1. n \in Int /\ r \in Int
          BY <1>1, <1>2, <4>1 DEF Requests
        <5> QED  BY <4>1, <5>1
      <4>3. q \in DOMAIN instr
        BY <1>2, <4>2
      <4>4. q \in Requests /\ r \in Requests
        BY <4>1, <4>3, Received
      <4> QED  BY <2>1, <2>2, <3>2, <4>1, <4>2, <4>3, <4>4 DEF OrderInv, ServedInOrder
    <3> QED  BY <3>1, <3>2
  <2> QED  BY <2>4, <2>5, <2>6 DEF OrderInv
<1> QED  BY <1>5, <1>6

(* The first of the queue leaves it, and nobody overtakes.                 *)
LEMMA BeginsOrder ==
  ASSUME HttpTyped, QueueInv, OrderInv, NEW r \in DOMAIN instr,
         NEW ph \in {"answered", "decrypting", "signing"}, Begins(r, ph)
  PROVE  OrderInv'
<1>1. /\ Turn(r) /\ queue' = Tail(queue) /\ instr' = instr
      /\ phase' = [phase EXCEPT ![r] = ph]
  BY DEF Begins
<1>2. PICK o \in Outcomes : outcome' = [outcome EXCEPT ![r] = o]
  BY DEF Begins
<1>3. /\ r \in Requests /\ phase[r] = "queued" /\ outcome[r] = "none"
      /\ \A k \in DOMAIN Tail(queue) :
           k + 1 \in DOMAIN queue /\ Tail(queue)[k] = queue[k + 1]
  BY <1>1, AtItsTurn
<1>4. /\ phase'[r] = ph
      /\ \A q \in Requests : q # r => phase'[q] = phase[q] /\ outcome'[q] = outcome[q]
  BY <1>1, <1>2, <1>3 DEF HttpTyped
<1>5. queue \in Seq(Requests) /\ queue # <<>> /\ queue[1] = r
  BY <1>1 DEF Turn, HttpTyped
<1>6. /\ DOMAIN queue = 1..Len(queue) /\ Len(queue) \in Nat
      /\ DOMAIN queue' = 1..(Len(queue) - 1)
  BY <1>1, <1>5
<1>7. \A j, k \in DOMAIN queue' : j < k => queue'[j] < queue'[k]
  <2> TAKE j, k \in DOMAIN queue'
  <2> HAVE j < k
  <2>1. /\ j + 1 \in DOMAIN queue /\ queue'[j] = queue[j + 1]
        /\ k + 1 \in DOMAIN queue /\ queue'[k] = queue[k + 1]
    BY <1>1, <1>3
  <2>2. j + 1 < k + 1
    BY <1>6
  <2> QED  BY <2>1, <2>2 DEF OrderInv
<1>8. \A q \in Requests : phase'[q] = "queued" => \E k \in DOMAIN queue' : queue'[k] = q
  <2> TAKE q \in Requests
  <2> HAVE phase'[q] = "queued"
  <2>1. q # r /\ phase[q] = "queued"
    BY <1>4
  <2>2. PICK k \in DOMAIN queue : queue[k] = q
    BY <2>1 DEF OrderInv
  <2>3. k # 1
    BY <1>5, <2>1, <2>2
  <2>4. k - 1 \in DOMAIN queue' /\ (k - 1) + 1 = k
    BY <1>6, <2>3
  <2>5. queue'[k - 1] = queue[k]
    BY <1>1, <1>3, <2>4
  <2> QED  BY <2>2, <2>4, <2>5
<1>9. ServedInOrder'
  <2> SUFFICES ASSUME NEW p \in DOMAIN instr, NEW q \in DOMAIN instr, p < q,
                      phase'[p] \in Waiting
               PROVE  phase'[q] = "queued" \/ outcome'[q] = "unrouted"
    BY <1>1 DEF ServedInOrder
  <2>1. p \in Requests /\ q \in Requests /\ p \in Int /\ q \in Int
    BY Received DEF Requests
  <2>2. phase[p] \in Waiting
    BY <1>3, <1>4, <2>1 DEF Waiting
  <2>3. r <= p
    BY <1>1, <2>1, <2>2, FirstInLine
  <2>4. q # r
    BY <2>1, <2>3
  <2> QED  BY <1>4, <2>1, <2>2, <2>4 DEF OrderInv, ServedInOrder
<1> QED  BY <1>7, <1>8, <1>9 DEF OrderInv

(* The handler that ends is the first of those not settled.                *)
LEMMA EndsOrder ==
  ASSUME HttpTyped, QueueInv, OrderInv, NEW r \in DOMAIN instr, Ends(r)
  PROVE  OrderInv'
<1>1. PICK ph \in {"decrypting", "signing"}, o \in Outcomes : Settle(r, ph, o)
  BY DEF Ends
<1>2. /\ r \in Requests /\ phase[r] = ph /\ instr' = instr /\ queue' = queue
      /\ phase' = [phase EXCEPT ![r] = "answered"]
      /\ outcome' = [outcome EXCEPT ![r] = o]
  BY <1>1, Received DEF Settle
<1>3. /\ phase'[r] = "answered"
      /\ \A q \in Requests : q # r => phase'[q] = phase[q] /\ outcome'[q] = outcome[q]
  BY <1>2 DEF HttpTyped
<1>4. \A q \in Requests : phase'[q] = "queued" => \E k \in DOMAIN queue' : queue'[k] = q
  BY <1>2, <1>3 DEF OrderInv
<1>5. ServedInOrder'
  <2> SUFFICES ASSUME NEW p \in DOMAIN instr, NEW q \in DOMAIN instr, p < q,
                      phase'[p] \in Waiting
               PROVE  phase'[q] = "queued" \/ outcome'[q] = "unrouted"
    BY <1>2 DEF ServedInOrder
  <2>1. p \in Requests /\ q \in Requests /\ p \in Int /\ q \in Int
    BY Received DEF Requests
  <2>2. phase[p] \in Waiting
    BY <1>2, <1>3, <2>1 DEF Waiting
  <2>3. r <= p
    BY <2>2, EndsFirst
  <2>4. q # r
    BY <1>2, <2>1, <2>3 DEF Requests
  <2> QED  BY <1>3, <2>1, <2>2, <2>4 DEF OrderInv, ServedInOrder
<1> QED  BY <1>2, <1>4, <1>5 DEF OrderInv

(* After an exit nobody waits.                                             *)
LEMMA ExitOrder ==
  ASSUME HttpTyped, QueueInv, Exit
  PROVE  OrderInv'
<1>1. /\ instr' = instr /\ queue' = <<>>
      /\ phase' = [r \in Requests |-> IF phase[r] = "idle" THEN "idle" ELSE "gone"]
  BY DEF Exit
<1>2. \A q \in DOMAIN instr : q \in Requests
  BY Received
<1>3. \A q \in Requests : phase'[q] \notin Waiting
  BY <1>1 DEF Waiting
<1>4. ServedInOrder'
  BY <1>1, <1>2, <1>3 DEF ServedInOrder
<1>5. \A q \in Requests : phase'[q] # "queued"
  BY <1>3 DEF Waiting
<1>6. DOMAIN queue' = {}
  BY <1>1
<1> QED  BY <1>4, <1>5, <1>6 DEF OrderInv

(* The queue is in the order of arrival in every state.                    *)
LEMMA OrderHolds == Spec => []OrderInv
<1>1. Init => OrderInv
  BY DEF Init, OrderInv, ServedInOrder
<1>2. IInv /\ OrderInv /\ [Next]_vars => OrderInv'
  <2> SUFFICES ASSUME IInv, OrderInv, [Next]_vars
               PROVE  OrderInv'
    OBVIOUS
  <2>1. CASE UNCHANGED vars
    BY <2>1 DEF vars, httpVars, OrderInv, ServedInOrder
  <2> QED  BY <2>1, StepShapes, ReceiveOrder, BeginsOrder, EndsOrder, ExitOrder DEF IInv
<1> QED BY <1>1, <1>2, ServerInvariant, PTL DEF Spec

(* server.ts, serialize: for any number of requests, none starts or is     *)
(* answered before one that joined the queue earlier is settled.           *)
THEOREM RequestsServedInOrder == Spec => []ServedInOrder
<1>1. OrderInv => ServedInOrder
  BY DEF OrderInv
<1> QED BY <1>1, OrderHolds, PTL

(* The handlers still to begin, up to r's, and the one still to end.       *)
Queued(r) == {q \in 1..r : phase[q] = "queued"}
Running(r) == {q \in 1..r : phase[q] \in Waiting \ {"queued"}}

(* Finitely many are ahead of a request.                                   *)
LEMMA AheadFinite ==
  ASSUME NEW r \in Requests
  PROVE  /\ 1..r \subseteq Requests /\ r \in 1..r
         /\ IsFiniteSet(Queued(r)) /\ IsFiniteSet(Running(r))
         /\ Cardinality(Queued(r)) \in Nat /\ Cardinality(Running(r)) \in Nat
<1>1. r \in Nat /\ 1..r \subseteq Requests /\ r \in 1..r
  BY ServerAssumption DEF Requests
<1>2. IsFiniteSet(1..r)
  BY <1>1, FS_Interval
<1>3. Queued(r) \in SUBSET (1..r) /\ Running(r) \in SUBSET (1..r)
  BY DEF Queued, Running
<1>4. IsFiniteSet(Queued(r)) /\ IsFiniteSet(Running(r))
  BY <1>2, <1>3, FS_Subset
<1> QED  BY <1>1, <1>4, FS_CardinalityType

(* Starting the first handler leaves one fewer to start, and at most one   *)
(* more to settle.                                                         *)
LEMMA BeginsAdvances ==
  ASSUME IInv, OrderInv, NEW h \in DOMAIN instr,
         NEW ph \in {"answered", "decrypting", "signing"}, Begins(h, ph),
         NEW r \in DOMAIN instr, phase[r] \in Waiting
  PROVE  StepsTo(r)' < StepsTo(r)
<1> USE DEF IInv
<1>1. /\ h \in Requests /\ r \in Requests /\ phase[h] = "queued"
      /\ phase' = [phase EXCEPT ![h] = ph] /\ phase \in [Requests -> Phases]
  BY AtItsTurn, Received DEF Begins, HttpTyped
<1>2. h <= r
  BY <1>1, FirstInLine DEF Begins
<1>3. /\ 1..r \subseteq Requests /\ h \in 1..r
      /\ IsFiniteSet(Queued(r)) /\ IsFiniteSet(Running(r))
      /\ Cardinality(Queued(r)) \in Nat /\ Cardinality(Running(r)) \in Nat
  BY <1>1, <1>2, AheadFinite DEF Requests
<1>4. phase'[h] = ph /\ \A q \in 1..r : q # h => phase'[q] = phase[q]
  BY <1>1, <1>3
<1>5. Queued(r)' = Queued(r) \ {h} /\ h \in Queued(r)
  BY <1>1, <1>3, <1>4 DEF Queued
<1>6. Running(r)' \in {Running(r), Running(r) \cup {h}} /\ h \notin Running(r)
  BY <1>1, <1>3, <1>4 DEF Running, Waiting
<1>7. Cardinality(Queued(r)') = Cardinality(Queued(r)) - 1
  BY <1>3, <1>5, FS_RemoveElement
<1>8. Cardinality(Running(r)') \in {Cardinality(Running(r)), Cardinality(Running(r)) + 1}
  BY <1>3, <1>6, FS_AddElement
<1>9. /\ StepsTo(r) = 2 * Cardinality(Queued(r)) + Cardinality(Running(r))
      /\ StepsTo(r)' = 2 * Cardinality(Queued(r)') + Cardinality(Running(r)')
  BY DEF StepsTo, Queued, Running
<1> HIDE DEF IInv
<1> QED  BY <1>3, <1>7, <1>8, <1>9

(* Settling the first handler leaves one fewer to settle.                  *)
LEMMA EndsAdvances ==
  ASSUME IInv, OrderInv, NEW h \in DOMAIN instr, Ends(h),
         NEW r \in DOMAIN instr, phase[r] \in Waiting
  PROVE  StepsTo(r)' < StepsTo(r)
<1> USE DEF IInv
<1>1. /\ h \in Requests /\ r \in Requests /\ phase[h] \in {"decrypting", "signing"}
      /\ phase' = [phase EXCEPT ![h] = "answered"] /\ phase \in [Requests -> Phases]
  BY Received DEF Ends, Settle, HttpTyped
<1>2. h <= r
  BY EndsFirst
<1>3. /\ 1..r \subseteq Requests /\ h \in 1..r
      /\ IsFiniteSet(Queued(r)) /\ IsFiniteSet(Running(r))
      /\ Cardinality(Queued(r)) \in Nat /\ Cardinality(Running(r)) \in Nat
  BY <1>1, <1>2, AheadFinite DEF Requests
<1>4. phase'[h] = "answered" /\ \A q \in 1..r : q # h => phase'[q] = phase[q]
  BY <1>1, <1>3
<1>5. Queued(r)' = Queued(r)
  BY <1>1, <1>3, <1>4 DEF Queued
<1>6. Running(r)' = Running(r) \ {h} /\ h \in Running(r)
  BY <1>1, <1>3, <1>4 DEF Running, Waiting
<1>7. Cardinality(Running(r)') = Cardinality(Running(r)) - 1
  BY <1>3, <1>6, FS_RemoveElement
<1>8. /\ StepsTo(r) = 2 * Cardinality(Queued(r)) + Cardinality(Running(r))
      /\ StepsTo(r)' = 2 * Cardinality(Queued(r)') + Cardinality(Running(r)')
  BY DEF StepsTo, Queued, Running
<1> HIDE DEF IInv
<1> QED  BY <1>3, <1>5, <1>7, <1>8

(* An exit leaves nothing to do.                                           *)
LEMMA ExitAdvances ==
  ASSUME IInv, Exit, NEW r \in DOMAIN instr, phase[r] \in Waiting
  PROVE  StepsTo(r)' < StepsTo(r)
<1>1. r \in Requests
  BY Received DEF IInv
<1>2. /\ 1..r \subseteq Requests /\ r \in 1..r
      /\ IsFiniteSet(Queued(r)) /\ IsFiniteSet(Running(r))
      /\ Cardinality(Queued(r)) \in Nat /\ Cardinality(Running(r)) \in Nat
  BY <1>1, AheadFinite
<1>3. \A q \in 1..r : phase'[q] \notin Waiting
  BY <1>2 DEF Exit, Waiting
<1>4. Queued(r)' = {} /\ Running(r)' = {}
  BY <1>3 DEF Queued, Running, Waiting
<1>5. r \in Queued(r) \/ r \in Running(r)
  BY <1>2 DEF Queued, Running
<1>6. Cardinality(Queued(r)) # 0 \/ Cardinality(Running(r)) # 0
  BY <1>2, <1>5, FS_EmptySet
<1>7. /\ StepsTo(r) = 2 * Cardinality(Queued(r)) + Cardinality(Running(r))
      /\ StepsTo(r)' = 2 * Cardinality(Queued(r)') + Cardinality(Running(r)')
  BY DEF StepsTo, Queued, Running
<1>8. Cardinality(Queued(r)') = 0 /\ Cardinality(Running(r)') = 0
  BY <1>4, FS_EmptySet
<1> QED  BY <1>2, <1>6, <1>7, <1>8

(* A request that arrives goes behind, and takes nothing away.             *)
LEMMA ReceiveAdvances ==
  ASSUME IInv, NEW ins \in Instructions, Receive(ins),
         NEW r \in DOMAIN instr, phase[r] \in Waiting
  PROVE  StepsTo(r)' = StepsTo(r) /\ instr' # instr
<1> DEFINE n == Len(instr) + 1
<1>1. /\ instr \in Seq(Instructions) /\ n \in Requests /\ instr' = Append(instr, ins)
      /\ phase \in [Requests -> Phases] /\ r \in Requests
      /\ phase' \in {[phase EXCEPT ![n] = "answered"], [phase EXCEPT ![n] = "queued"]}
  BY Received DEF Receive, IInv, HttpTyped
<1>2. r < n /\ r \in Nat /\ n \in Nat /\ Len(instr') # Len(instr)
  BY <1>1
<1>3. 1..r \subseteq Requests
  BY <1>1, AheadFinite
<1>4. \A q \in 1..r : phase'[q] = phase[q]
  <2> HIDE DEF n
  <2>1. \A q \in 1..r : q # n
    BY <1>2
  <2> QED  BY <1>1, <1>3, <2>1
<1> QED  BY <1>2, <1>4 DEF StepsTo

(* server.ts, node.ts and handlers.ts: for any number of requests, every   *)
(* step of the server brings each request that waits closer to its end.    *)
(* With a step left to take at its turn, which fairness grants, nobody     *)
(* waits for ever.                                                         *)
THEOREM EveryStepCounts == Spec => EveryStepAdvances
<1> DEFINE Closer(r) == phase[r] \in Waiting =>
                          \/ StepsTo(r)' < StepsTo(r)
                          \/ StepsTo(r)' = StepsTo(r) /\ instr' # instr
<1>1. ASSUME IInv, OrderInv, Next, NEW r \in DOMAIN instr
      PROVE  Closer(r) \/ UNCHANGED vars
  <2> SUFFICES ASSUME phase[r] \in Waiting
               PROVE  \/ StepsTo(r)' < StepsTo(r)
                      \/ StepsTo(r)' = StepsTo(r) /\ instr' # instr
    OBVIOUS
  <2> QED  BY <1>1, StepShapes, BeginsAdvances, EndsAdvances, ExitAdvances, ReceiveAdvances
<1>2. IInv /\ OrderInv /\ [Next]_vars => [\A r \in DOMAIN instr : Closer(r)]_vars
  BY <1>1
<1> QED BY <1>2, ServerInvariant, OrderHolds, PTL DEF Spec, EveryStepAdvances

-----------------------------------------------------------------------------
(* Enclave's theorems hold of the server.  EP is Enclave with its proofs;  *)
(* its assumptions are among the server's.                                 *)
EP == INSTANCE Enclave_proofs

(* What Enclave assumes of its constants is part of the server's           *)
(* assumption.                                                             *)
LEMMA EnclaveAssumptionsHold == EP!EnclaveAssumption /\ EP!GuardAssumption
BY ServerAssumption, GuardAssumption
DEF EP!EnclaveAssumption, EP!GuardAssumption, EP!Policy, Policy, EP!Intent, Intent,
    EP!Kinds, Kinds, EP!Deposit, Deposit

(* EP's Enclave and E are the same specification.                          *)
LEMMA SameCore ==
  /\ E!Init <=> EP!Init
  /\ [E!Next]_(E!vars) => [EP!Next]_(EP!vars)
<1>1. \A p, i : E!Verdict(p, i) = EP!Verdict(p, i)
  BY DEF E!Verdict, EP!Verdict, E!VenueVerdict, EP!VenueVerdict, E!WithdrawVerdict,
         EP!WithdrawVerdict, E!IsAllowedVenue, EP!IsAllowedVenue, E!EqAddr, EP!EqAddr,
         E!OverConcentrated, EP!OverConcentrated, E!ConcentrationChecked,
         EP!ConcentrationChecked, E!Projected, EP!Projected, E!CapAmount,
         EP!CapAmount, E!BelowHealthFloor, EP!BelowHealthFloor
<1>2. \A d : E!DepositVerdict(d) = EP!DepositVerdict(d)
  BY DEF E!DepositVerdict, EP!DepositVerdict
<1>3. E!Init <=> EP!Init
  BY DEF E!Init, EP!Init, E!Blank, EP!Blank
<1>4. /\ \A s : E!UpdateKey(s) <=> EP!UpdateKey(s)
      /\ \A w : E!CreateWallet(w) <=> EP!CreateWallet(w)
      /\ \A p : E!SetPolicy(p) <=> EP!SetPolicy(p)
      /\ \A w : E!Materialise(w) <=> EP!Materialise(w)
      /\ E!Restart <=> EP!Restart
  BY DEF E!UpdateKey, EP!UpdateKey, E!CreateWallet, EP!CreateWallet, E!WalletOf,
         EP!WalletOf, E!SetPolicy, EP!SetPolicy, E!Materialise, EP!Materialise,
         E!Restart, EP!Restart, E!Blank, EP!Blank, E!tenantVars, EP!tenantVars
<1>5. \A w, d : E!ConfirmDeposit(w, d) <=> EP!ConfirmDeposit(w, d)
  BY <1>2, <1>4
  DEF E!ConfirmDeposit, EP!ConfirmDeposit, E!DepositHonoured, EP!DepositHonoured
<1>6. \A w, i : /\ E!Judged(w, i) <=> EP!Judged(w, i)
                /\ E!RefuseAction(w, i) <=> EP!RefuseAction(w, i)
                /\ E!SignAction(w, i) <=> EP!SignAction(w, i)
  BY <1>1 DEF E!Judged, EP!Judged, E!RefuseAction, EP!RefuseAction, E!SignAction,
              EP!SignAction, E!WalletOf, EP!WalletOf, E!Encodable, EP!Encodable
<1>7. E!Next <=> EP!Next
  BY <1>4, <1>5, <1>6 DEF E!Next, EP!Next, E!Step, EP!Step
<1> QED BY <1>3, <1>7 DEF E!vars, EP!vars, E!tenantVars, EP!tenantVars

(* So the server implements the Enclave that was proved about.             *)
LEMMA SpecImpliesEnclaveProved == Spec => EP!Spec
<1>1. E!Spec => EP!Spec
  BY SameCore, PTL DEF E!Spec, EP!Spec
<1> QED BY <1>1, ServerImplementsEnclave, PTL DEF ImplementsEnclave

(* What leaves the server, awaits, cache, exits and all, is signed with    *)
(* its owner's key for an intent within a policy that owner set.           *)
THEOREM ServerSignsWithinPolicy == Spec => []E!IssuedWithinPolicy
<1>1. EP!IssuedWithinPolicy => E!IssuedWithinPolicy
  BY DEF EP!IssuedWithinPolicy, E!IssuedWithinPolicy, EP!WithinPolicy, E!WithinPolicy,
         EP!WithinCaps, E!WithinCaps, EP!EqAddr, E!EqAddr, EP!WithinShare,
         E!WithinShare, EP!ConcentrationChecked, E!ConcentrationChecked,
         EP!Projected, E!Projected, EP!BelowHealthFloor, E!BelowHealthFloor
<1>2. EP!Spec => []EP!IssuedWithinPolicy
  BY EnclaveAssumptionsHold, EP!SignaturesWithinPolicy, PTL
<1> QED BY <1>1, <1>2, SpecImpliesEnclaveProved, PTL

(* The server's tenants own their slots, as Enclave's do.                  *)
THEOREM ServerTenantsOwnTheirSlots == Spec => []E!SlotsBelongToOwners
<1>1. EP!SlotsBelongToOwners => E!SlotsBelongToOwners
  BY DEF EP!SlotsBelongToOwners, E!SlotsBelongToOwners
<1>2. EP!Spec => []EP!SlotsBelongToOwners
  BY EnclaveAssumptionsHold, EP!TenantsOwnTheirSlots, PTL
<1> QED BY <1>1, <1>2, SpecImpliesEnclaveProved, PTL
=============================================================================
