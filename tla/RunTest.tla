------------------------------ MODULE RunTest ------------------------------
(***************************************************************************)
(* run-test (tools/cmd/run-test/main.go) against the trust core: four      *)
(* instructions, each sent through the InstructionSender, taken by the     *)
(* enclave at some later time or never, polled for, and judged before the  *)
(* next one is sent.  The binding of the extension id, with which a run    *)
(* begins, is in Deployment.  The enclave may restart under a run, and     *)
(* then has another key to seal to.                                        *)
(***************************************************************************)
EXTENDS Enclave, Sequences, TLC

CONSTANTS
  ManagedKey,  \* managedKeyHex, as the master seed it is taken for: one of Seeds
  TestPolicy,  \* the policy of step 1, one of Policies
  MaxRuns,     \* bound: runs of run-test
  MaxBoots     \* bound: times the enclave boots

VARIABLES
  sent,     \* instructions on the chain: <<run, op, sealed to which boot>>
  answers,  \* what the proxy holds of those the enclave has taken
  boot,     \* which boot the enclave is in
  run,      \* how many runs have begun
  at,       \* the current run's place in Ops, 0 when none runs
  asked,    \* its instruction has been sent
  failed    \* history: op, answer and the enclave's seed where runs ended fatally

driver == <<run, at, asked, failed>>
runVars == <<vars, sent, answers, boot, driver>>

Ops == <<"SET_POLICY", "UPDATE_KEY", "ALLOCATE", "ALLOCATE(malicious)">>

Unanswered == [status |-> 2, walletAddress |-> Absent, signer |-> Absent]

Answer(status) == [Unanswered EXCEPT !.status = status]

RunInit ==
  /\ Init
  /\ sent = {}
  /\ answers = <<>>
  /\ boot = 1
  /\ run = 0 /\ at = 0 /\ asked = FALSE
  /\ failed = {}

-----------------------------------------------------------------------------
(* The enclave's side.  An instruction may be taken after its run is over. *)

Take(i) ==
  /\ i \in sent \ DOMAIN answers
  /\ \/ /\ i[2] = "SET_POLICY"
        /\ SetPolicy(TestPolicy)
        /\ answers' = answers @@ i :> Answer(1)
     \/ /\ i[2] = "UPDATE_KEY" /\ i[3] = boot
        /\ UpdateKey(ManagedKey)
        /\ answers' = answers @@ i :> Answer(1)
     \/ /\ i[2] = "UPDATE_KEY" /\ i[3] # boot
        /\ UNCHANGED vars
        /\ answers' = answers @@ i :> Answer(0)
     \/ (* run-test's intents name no user: refused before any state.      *)
        /\ i[2] \in {"ALLOCATE", "ALLOCATE(malicious)"}
        /\ UNCHANGED vars
        /\ answers' = answers @@ i :> Answer(0)
  /\ UNCHANGED <<sent, boot, driver>>

Reboot ==
  /\ boot < MaxBoots
  /\ boot' = boot + 1
  /\ Restart
  /\ UNCHANGED <<sent, answers, driver>>

-----------------------------------------------------------------------------
(* The tool's side.                                                        *)

Begin ==
  /\ at = 0 /\ run < MaxRuns
  /\ run' = run + 1 /\ at' = 1 /\ asked' = FALSE
  /\ UNCHANGED <<vars, sent, answers, boot, failed>>

Fatal(answer) ==
  /\ failed' = failed \cup {[op |-> Ops[at], answer |-> answer, seed |-> seed]}
  /\ at' = 0 /\ asked' = FALSE
  /\ UNCHANGED <<vars, sent, answers, boot, run>>

(* A send that fails, reverts or has no event of its own is fatal.  The    *)
(* key is sealed to the key that /info gives just before.                  *)
Send ==
  /\ at # 0 /\ ~asked
  /\ \/ /\ sent' = sent \cup {<<run, Ops[at], boot>>}
        /\ asked' = TRUE
        /\ UNCHANGED <<vars, answers, boot, run, at, failed>>
     \/ Fatal(Unanswered)

(* What main expects of each answer before it goes on.                     *)
Confirms(op, answer) ==
  CASE op = "SET_POLICY" -> answer.status = 1
    [] op = "UPDATE_KEY" -> answer.status = 1 /\ answer.walletAddress = ManagedKey
    [] op = "ALLOCATE" -> answer.status = 1 /\ answer.signer = ManagedKey
    [] op = "ALLOCATE(malicious)" -> answer.status = 0

(* finishResult, and main's checks of what it decoded.                     *)
FinishResult ==
  /\ asked
  /\ \E i \in DOMAIN answers :
       /\ i[1] = run /\ i[2] = Ops[at]
       /\ IF Confirms(Ops[at], answers[i])
          THEN /\ at' = (at + 1) % (Len(Ops) + 1)
               /\ asked' = FALSE
               /\ UNCHANGED <<vars, sent, answers, boot, run, failed>>
          ELSE Fatal(answers[i])

(* No answer after all the polls.                                          *)
PollFails ==
  /\ asked
  /\ \A i \in DOMAIN answers : <<i[1], i[2]>> # <<run, Ops[at]>>
  /\ Fatal(Unanswered)

RunNext ==
  \/ Begin \/ Send \/ FinishResult \/ PollFails
  \/ \E i \in sent : Take(i)
  \/ Reboot

RunSpec == RunInit /\ [][RunNext]_runVars

-----------------------------------------------------------------------------
(* "confirm the enclave loaded it (walletAddress == our key)": a run that   *)
(* ends because it could not confirm the key it had delivered, on an       *)
(* answer that says the delivery succeeded, finds the enclave without it.  *)
DeliveredKeyConfirmed ==
  \A f \in failed :
    f.op = "UPDATE_KEY" /\ f.answer.status = 1 => f.seed # ManagedKey
=============================================================================
