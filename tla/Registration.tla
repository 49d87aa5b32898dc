---------------------------- MODULE Registration ----------------------------
(***************************************************************************)
(* register-tee: the steps r (pre-register), R (fresh attestation), a      *)
(* (availability check) and p (to production) of a TEE's registration      *)
(* (fccutils/registration.go), against a chain that mines a transaction    *)
(* late or never, a TEE that may restart with another identity, an FTDC    *)
(* proxy whose signing policy runs beside the reward epochs, and a state   *)
(* file that is written after each step so that a run can resume.  A run   *)
(* may end at any point; transactions it has sent stay in the mempool.     *)
(*                                                                         *)
(* A transaction is its position in txs, which is also the id of the       *)
(* instruction it causes; 0 is the zero hash.                              *)
(***************************************************************************)
EXTENDS Naturals, Sequences, FiniteSets

CONSTANTS
  Commands,   \* step sets an operator passes as -command
  NoFile,
  Torn,       \* a state file that was being written when the run ended
  Repeats,    \* ActionResult's repeats
  MaxTees,    \* bound: identities the TEE takes
  MaxEpoch,   \* bound: reward epochs
  MaxTxs,     \* bound: transactions
  MaxRuns     \* bound: runs of the tool

Steps == {"r", "R", "a", "p"}

Ids == 0..MaxTxs

(* registrationState: no TEE identity in it.                               *)
State == [done : SUBSET Steps, attest : Ids, instruction : Ids]

ASSUME RegistrationAssumption ==
  /\ Commands \subseteq SUBSET Steps
  /\ Repeats \in Nat \ {0}
  /\ {MaxTees, MaxEpoch} \subseteq Nat \ {0} /\ {MaxTxs, MaxRuns} \subseteq Nat
  /\ NoFile \notin State /\ Torn \notin State

VARIABLES
  tee,       \* the identity /info reports now
  epoch,     \* FlareSystemsManager.getCurrentRewardEpochId
  policyId,  \* the FTDC proxy's LastSigningPolicyID
  txs,       \* transactions sent, in nonce order
  expired,   \* attestation requests whose challenge has run out
  proved,    \* availability checks the FTDC proxy has a proof of
  file,      \* register-tee.state
  pc,        \* where the current run is
  run,       \* its locals
  runs,      \* how many runs there have been
  reported   \* history: runs that ended with "Registered TEE node"

chainVars == <<txs, expired>>
outside == <<tee, epoch, policyId, expired, proved>>
vars == <<tee, epoch, policyId, txs, expired, proved, file, pc, run, runs, reported>>

Tees == 1..MaxTees

Tx ==
  [op : {"register", "attest", "avail", "promote"}, tee : Tees, of : Ids,
   status : {"pending", "ok", "reverted"}]

EmptyState == [done |-> {}, attest |-> 0, instruction |-> 0]

Run ==
  [cmd : SUBSET Steps, tee : Tees, fresh : BOOLEAN, state : State, attest : Ids,
   instruction : Ids, step : Steps, tx : Ids, seen : 0..MaxEpoch, polls : 0..(Repeats - 1)]

TypeOK ==
  /\ tee \in Tees
  /\ epoch \in 1..MaxEpoch
  /\ policyId \in 0..(MaxEpoch + 1)
  /\ txs \in Seq(Tx) /\ Len(txs) <= MaxTxs
  /\ expired \subseteq DOMAIN txs
  /\ proved \subseteq DOMAIN txs
  /\ file \in State \cup {NoFile, Torn}
  /\ pc \in {"idle", "gate", "request", "wait", "save", "finish"} \cup Steps
  /\ run \in Run
  /\ runs \in 0..MaxRuns
  /\ reported \subseteq Run

Idle ==
  [cmd |-> {}, tee |-> 1, fresh |-> TRUE, state |-> EmptyState, attest |-> 0,
   instruction |-> 0, step |-> "r", tx |-> 0, seen |-> 0, polls |-> 0]

Init ==
  /\ tee = 1
  /\ epoch = 1
  /\ policyId \in 0..2
  /\ txs = <<>>
  /\ expired = {}
  /\ proved = {}
  /\ file = NoFile
  /\ pc = "idle"
  /\ run = Idle
  /\ runs = 0
  /\ reported = {}

-----------------------------------------------------------------------------
(* The TEE registry and FTDC, as the tool and its comments rely on them.   *)

Done(op) == {i \in DOMAIN txs : txs[i].op = op /\ txs[i].status = "ok"}

Registered == {txs[i].tee : i \in Done("register")}

Production == {txs[i].tee : i \in Done("promote")}

(* A challenge serves one availability check of its TEE, before it runs    *)
(* out (ChallengeExpired).                                                 *)
ChallengeStands(i, t) ==
  /\ i \in Done("register") \cup Done("attest")
  /\ txs[i].tee = t
  /\ i \notin expired
  /\ \A j \in Done("avail") : txs[j].of # i

(* The calls do not revert on the present state.                           *)
Accepted(t) ==
  \/ t.op = "register" /\ t.tee \notin Registered
  \/ t.op = "attest" /\ t.tee \in Registered
  \/ t.op = "avail" /\ ChallengeStands(t.of, t.tee)
  \/ t.op = "promote" /\ t.of \in proved

Pending == {i \in DOMAIN txs : txs[i].status = "pending"}

(* The pending transaction of the lowest nonce is mined; the registry has  *)
(* reasons of its own to revert a toProduction.                            *)
Mine(i) ==
  /\ i \in Pending
  /\ \A j \in Pending : i <= j
  /\ \E s \in {"ok", "reverted"} :
       /\ s = "ok" => Accepted(txs[i])
       /\ s = "reverted" => ~Accepted(txs[i]) \/ txs[i].op = "promote"
       /\ txs' = [txs EXCEPT ![i].status = s]
  /\ UNCHANGED <<outside, file, pc, run, runs, reported>>

Expire(i) ==
  /\ i \in (Done("register") \cup Done("attest")) \ expired
  /\ expired' = expired \cup {i}
  /\ UNCHANGED <<tee, epoch, policyId, txs, proved, file, pc, run, runs, reported>>

(* A planted fault: the tolerance is one epoch behind, not ahead.          *)
LagTolerated(e, p) == p = e \/ p + 1 = e

(* policyInSync: the proxy may be one epoch ahead.                         *)
PolicyInSync(e, p) == p = e \/ p = e + 1

(* Data providers cosign while the policies agree and the TEE answers.     *)
Prove(i) ==
  /\ i \in Done("avail") \ proved
  /\ txs[i].tee = tee
  /\ policyId \in {epoch, epoch + 1}
  /\ proved' = proved \cup {i}
  /\ UNCHANGED <<tee, epoch, policyId, chainVars, file, pc, run, runs, reported>>

(* The TEE node restarts: a new key is a new identity (RUNBOOK.md).        *)
RestartTee ==
  /\ tee < MaxTees
  /\ tee' = tee + 1
  /\ UNCHANGED <<epoch, policyId, chainVars, proved, file, pc, run, runs, reported>>

(* The proxy sees the next signing policy, the chain enters the next epoch.*)
Advance ==
  /\ \/ policyId <= epoch /\ policyId' = policyId + 1 /\ UNCHANGED epoch
     \/ epoch < MaxEpoch /\ epoch' = epoch + 1 /\ UNCHANGED policyId
  /\ UNCHANGED <<tee, chainVars, proved, file, pc, run, runs, reported>>

-----------------------------------------------------------------------------
(* One run.                                                                *)

(* main up to RegisterNode's loadState: without -resume the state file is  *)
(* removed first, and a failure to remove it is only a warning.            *)
Launch(cmd, resume, given) ==
  \E f \in IF resume THEN {file} ELSE {NoFile, file} :
    /\ pc = "idle"
    /\ runs < MaxRuns
    /\ Len(txs) + Cardinality(cmd) <= MaxTxs
    /\ given # 0 => given \in Done("avail") /\ "a" \notin cmd
    /\ runs' = runs + 1
    /\ file' = f
    /\ IF f = Torn
       THEN UNCHANGED <<pc, run>>
       ELSE /\ pc' = "r"
            /\ LET s == IF f = NoFile THEN EmptyState ELSE f IN
               run' = [Idle EXCEPT !.cmd = cmd, !.tee = tee, !.state = s,
                                   !.fresh = s.done = {}, !.instruction = given]
    /\ UNCHANGED <<outside, txs, reported>>

Goto(next) == pc' = next /\ UNCHANGED <<outside, txs, file, runs, reported>>

(* An error return, or the end of the process, anywhere.                   *)
Fail == Goto("idle") /\ run' = Idle

Abort == pc # "idle" /\ Fail

After(step) == CASE step = "r" -> "R" [] step = "R" -> "a" [] step = "a" -> "p" [] step = "p" -> "finish"

(* Gas is estimated first, so that a call that reverts now is not sent.    *)
Send(op, t, of, step) ==
  LET new == [op |-> op, tee |-> t, of |-> of, status |-> "pending"] IN
  IF ~Accepted(new) THEN Fail
  ELSE /\ txs' = Append(txs, new)
       /\ run' = [run EXCEPT !.step = step, !.tx = Len(txs) + 1]
       /\ pc' = "wait"
       /\ UNCHANGED <<outside, file, runs, reported>>

ToDo(step) == pc = step /\ step \in run.cmd /\ step \notin run.state.done

Skip(step) ==
  /\ pc = step
  /\ step \notin run.cmd
  /\ Goto(After(step)) /\ UNCHANGED run

(* The step is in the state file: its instruction id comes from there.     *)
FromFile(step) ==
  /\ pc = step
  /\ step \in run.cmd \cap run.state.done
  /\ run' = IF step = "a" THEN [run EXCEPT !.instruction = run.state.instruction]
            ELSE [run EXCEPT !.attest = run.state.attest]
  /\ Goto(After(step))

(* r: a machine that GetTeeMachine finds gets a fresh attestation; one it  *)
(* does not find, or whose lookup fails, is pre-registered.                *)
PreRegister ==
  /\ ToDo("r")
  /\ \/ run.tee \in Registered /\ Send("attest", run.tee, 0, "r")
     \/ Send("register", run.tee, 0, "r")

RequestAttestation == ToDo("R") /\ Send("attest", run.tee, 0, "R")

(* a: CheckFTDCProxyPolicyConsistency reads the epoch, then the proxy's    *)
(* policy; a lookup that fails (0) skips the check.                        *)
ReadEpoch ==
  /\ ToDo("a")
  /\ \E e \in {0, epoch} :
       /\ run' = [run EXCEPT !.seen = e]
       /\ Goto(IF e = 0 THEN "request" ELSE "gate")

Gate ==
  /\ pc = "gate"
  /\ \/ run' = [run EXCEPT !.seen = 0] /\ Goto("request")
     \/ PolicyInSync(run.seen, policyId) /\ Goto("request") /\ UNCHANGED run
     \/ ~PolicyInSync(run.seen, policyId) /\ Fail

RequestAvailability ==
  pc = "request" /\ Send("avail", run.tee, run.attest, "a")

(* A planted fault: a transaction that is sent counts as done.             *)
ConfirmedUnmined(i) == txs[i].status # "reverted"

(* A planted fault: the receipt's status is not looked at.                 *)
ConfirmedMined(i) == txs[i].status # "pending"

(* CheckTx.                                                                *)
Confirmed(i) == txs[i].status = "ok"

WaitMined ==
  /\ pc = "wait"
  /\ Confirmed(run.tx)
  /\ IF run.step = "p" THEN UNCHANGED run /\ Goto("finish")
     ELSE /\ Goto("save")
          /\ run' = IF run.step = "a"
                    THEN [run EXCEPT !.instruction = run.tx, !.state.instruction = run.tx,
                                     !.state.done = @ \cup {"a"}]
                    ELSE [run EXCEPT !.attest = run.tx, !.state.attest = run.tx,
                                     !.state.done = @ \cup {run.step}]

(* A planted fault: a step whose transaction reverted is taken again.      *)
WaitRevertedRetried ==
  /\ pc = "wait"
  /\ ~Confirmed(run.tx) /\ txs[run.tx].status # "pending"
  /\ Goto(run.step) /\ UNCHANGED run

WaitReverted ==
  pc = "wait" /\ ~Confirmed(run.tx) /\ txs[run.tx].status # "pending" /\ Fail

(* A planted fault: WaitMined without its deadline.                        *)
WaitForever == FALSE

(* Two minutes without a receipt; the transaction may be mined after all.  *)
WaitTimesOut == pc = "wait" /\ run.tx \in Pending /\ Fail

(* saveState: failing is a warning, and may leave half a file.             *)
Save ==
  /\ pc = "save"
  /\ file' \in {run.state, file, Torn}
  /\ pc' = After(run.step)
  /\ UNCHANGED <<outside, txs, run, runs, reported>>

Promote ==
  /\ ToDo("p")
  /\ run.instruction \in proved
  /\ Send("promote", txs[run.instruction].tee, run.instruction, "p")

(* A planted fault: one poll too many.                                     *)
PollOnceMore == run.polls < Repeats

PollsLeft == run.polls + 1 < Repeats

PollAgain ==
  /\ ToDo("p")
  /\ run.instruction \notin proved
  /\ PollsLeft
  /\ run' = [run EXCEPT !.polls = @ + 1]
  /\ Goto("p")

PollExpires ==
  ToDo("p") /\ run.instruction \notin proved /\ ~PollsLeft /\ Fail

(* The state file is deleted, as far as that succeeds.                     *)
Finish ==
  /\ pc = "finish"
  /\ file' \in {NoFile, file}
  /\ reported' = reported \cup {run}
  /\ pc' = "idle"
  /\ run' = Idle
  /\ UNCHANGED <<outside, txs, runs>>

-----------------------------------------------------------------------------
(* What a run does by itself.                                              *)
Proceed ==
  \/ \E step \in Steps : Skip(step) \/ FromFile(step)
  \/ PreRegister \/ RequestAttestation
  \/ ReadEpoch \/ Gate \/ RequestAvailability
  \/ WaitMined \/ WaitReverted \/ WaitTimesOut
  \/ Save
  \/ Promote \/ PollAgain \/ PollExpires
  \/ Finish

Outside ==
  \/ \E i \in DOMAIN txs : Mine(i) \/ Expire(i) \/ Prove(i)
  \/ RestartTee \/ Advance

Next ==
  \/ \E cmd \in Commands, resume \in BOOLEAN, given \in Ids : Launch(cmd, resume, given)
  \/ Proceed
  \/ Abort
  \/ Outside

Safety == Init /\ [][Next]_vars

(* The run is in a call that has no deadline: http.Get for /info and for   *)
(* the action result, RPC calls on context.Background or without a         *)
(* context.  CheckTx's wait is not among them, but the look for the reason *)
(* of a revert and the one at the promoted machine are.                    *)
Calling ==
  \/ \E step \in Steps : ToDo(step)
  \/ pc \in {"gate", "request"}
  \/ pc = "wait" /\ txs[run.tx].status = "reverted"
  \/ pc = "wait" /\ txs[run.tx].status = "ok" /\ run.step = "p"

(* The tool goes on with what it has, and its deadlines expire.  Nothing   *)
(* is owed by those it calls, by the chain or by the data providers.       *)
Spec == Safety /\ WF_vars(~Calling /\ Proceed)

-----------------------------------------------------------------------------
(* The state file never claims what the chain does not have: the ids in it *)
(* are instructions that were mined, of the kind the step stands for,      *)
(* through crashes, timeouts, late transactions and failed writes.         *)
FileTellsTruth ==
  file \in State =>
    /\ file.done \cap {"r", "R"} # {} => file.attest \in Done("register") \cup Done("attest")
    /\ "a" \in file.done => file.instruction \in Done("avail")
    /\ "p" \notin file.done

(* "Registered TEE node": what a run with p reports as registered is in    *)
(* production, if it began without a state file; one that resumed has at   *)
(* least put the TEE of its proof there.                                   *)
SuccessPromotes ==
  \A r \in reported : "p" \in r.cmd =>
    /\ txs[r.instruction].tee \in Production
    /\ r.fresh /\ {"r", "a"} \subseteq r.cmd => r.tee \in Production

(* The pre-flight saves what it is for: an availability check is sent with *)
(* the proxy's policy in reach of the epoch, unless a lookup was skipped   *)
(* or the epoch has turned between the check and the transaction.          *)
GateSparesTransactions ==
  [][RequestAvailability /\ txs' # txs /\ run.seen = epoch
       => policyId \in {epoch, epoch + 1}]_vars

(* The most steps that a run can still take from a place.                  *)
StepsFrom(place, step, polls) ==
  LET polling == Repeats - polls + 2
      later == CASE step = "r" -> 8 [] step = "R" -> 5 [] OTHER -> 0
  IN
  CASE place = "idle" -> 0
    [] place = "finish" -> 1
    [] place = "wait" /\ step = "p" -> 2
    [] place = "p" -> polling
    [] place = "save" -> polling + later + 1
    [] place = "wait" /\ step # "p" -> polling + later + 2
    [] place = "request" -> polling + 3
    [] place = "gate" -> polling + 4
    [] place = "a" -> polling + 5
    [] place = "R" -> polling + 8
    [] place = "r" -> polling + 11

StepsLeft == StepsFrom(pc, run.step, run.polls)

(* Whatever a run does takes it nearer to its end, and neither the chain   *)
(* nor the TEE nor the epochs set it back: no part of it is gone through   *)
(* twice, and its one loop no more often than it counts.                   *)
EveryStepShortensTheRun ==
  [][pc # "idle" => StepsLeft' < StepsLeft \/ UNCHANGED <<pc, run>>]_vars

(* Whatever a run calls without a deadline answers, or breaks.             *)
CallsReturn == WF_vars(Calling /\ Proceed)

(* A run ends, as long as its calls return: no transaction that is never   *)
(* mined, no proof that is never cosigned and no answer that is an error   *)
(* keeps it, though a node or proxy that stays silent does (tee_calls.go:  *)
(* http.Get has no timeout).                                               *)
EveryRunEnds == CallsReturn => (pc # "idle" ~> pc = "idle")

(* register-tee/main.go: "Registered TEE node with id %s", after           *)
(* "registration can resume after failures": the TEE a successful run      *)
(* names is in production.                                                 *)
SuccessMeansProduction ==
  \A r \in reported : {"r", "a", "p"} \subseteq r.cmd => r.tee \in Production
=============================================================================
