----------------------------- MODULE Deployment -----------------------------
(***************************************************************************)
(* From a contract to a TEE that serves it: pre-build.sh (deploy the       *)
(* InstructionSender, register an extension for it, write extension.env),  *)
(* start-services.sh, post-build.sh (allow the TEE's version, set its      *)
(* governance, register the machine), full-setup.sh over the three,        *)
(* register-extension by hand, the binding of the extension id with which  *)
(* run-test begins, and verify-deploy, which reads the chain call by call. *)
(*                                                                         *)
(* The operator runs one tool at a time.  A tool may fail, time out or be  *)
(* killed anywhere; its transactions stay pending and are mined in nonce   *)
(* order, perhaps under another tool's feet.  Extension ids are numbered   *)
(* from 1, FIRST_PUBLIC_EXTENSION_ID in the contract: the reserved ids     *)
(* below carry other senders.                                              *)
(***************************************************************************)
EXTENDS DeployChecks, Sequences

CONSTANTS
  Configurations,  \* process environments the tools run in
  Filters,         \* --checks
  Governances,     \* signer sets and thresholds in .env
  MaxSenders,      \* bound: InstructionSenders deployed
  MaxExts,         \* bound: registrations sent
  MaxRuns          \* bound: things the operator does

ASSUME DeploymentAssumption ==
  /\ Configurations \subseteq Settings
  /\ \A f \in Filters : f \subseteq STRING
  /\ Governances \subseteq Nat \ {0}
  /\ {MaxSenders, MaxExts, MaxRuns} \subseteq Nat
  /\ {Absent, Malformed} \cap Nat = {}

VARIABLES
  strict,    \* the registry refuses a second extension of a sender
  pending,   \* transactions not mined yet, in nonce order
  code,      \* InstructionSenders that are deployed
  exts,      \* extensions, by id
  bound,     \* InstructionSender._extensionId, 0 when not set
  env,       \* config/extension.env
  tee,       \* what /info reports: extension id (0 when down) and governance
  run,       \* the tool that is running
  sent,      \* how many deployments and registrations were sent, and tools run
  report,    \* what verify-deploy has just reported
  settled,   \* history: <<sender, extension>> that clean reports stood for
  setup      \* history: what full-setup.sh last completed for

vars == <<strict, pending, code, exts, bound, env, tee, run, sent, report, settled, setup>>

Senders == 1..MaxSenders
ExtIds == 1..MaxExts

Ext ==
  [sender : Senders, owner : BOOLEAN, project : BOOLEAN, key : BOOLEAN,
   version : BOOLEAN, governance : Governances \cup {0}, machine : BOOLEAN]

(* The steps of each tool, in order.                                       *)
RegisterSteps == <<"code", "register", "owner", "project", "key">>
PreBuildSteps == <<"preflight", "deploy">> \o RegisterSteps \o <<"write">>
PostBuildSteps == <<"version", "governance", "machine">>

Steps(tool) ==
  CASE tool = "none" -> <<>>
    [] tool = "pre-build" -> PreBuildSteps
    [] tool = "register-extension" -> RegisterSteps \o <<"print">>
    [] tool = "post-build" -> PostBuildSteps
    [] tool = "full-setup" -> PreBuildSteps \o <<"start">> \o PostBuildSteps \o <<"done">>
    [] tool = "run-test" -> <<"bind">>
    [] tool = "verify-deploy" ->
         <<"counter", "match", "allowed", "types", "unique", "report">>

Tools == {"none", "pre-build", "register-extension", "post-build", "full-setup",
          "run-test", "verify-deploy"}

VerifySteps == {"deploy", "register", "services", "tee-version", "tee-machine", "test", "all"}

NoReport == [step |-> "none"]

DeployTypeOK ==
  /\ strict \in BOOLEAN
  /\ \A i \in DOMAIN pending : pending[i].ext \in DOMAIN exts \cup {0}
  /\ code \subseteq Senders
  /\ Len(exts) <= MaxExts /\ \A i \in DOMAIN exts : exts[i] \in Ext
  /\ bound \in [Senders -> ExtIds \cup {0}]
  /\ {env.exists, env.edited} \subseteq BOOLEAN
  /\ env.id \in ExtIds \cup {Absent, Malformed}
  /\ env.sender \in Senders \cup {Absent, Malformed}
  /\ tee.ext \in ExtIds \cup {0}
  /\ run.tool \in Tools /\ run.at \in 0..Len(Steps(run.tool))
  /\ run.sender \in Senders \cup {0}
  /\ run.ext \in DOMAIN exts \cup {0}
  /\ report.step \in VerifySteps \cup {"none"}

Idle ==
  [tool |-> "none", at |-> 0, waits |-> FALSE, sender |-> 0, ext |-> 0,
   governance |-> 0, step |-> "none", config |-> FALSE, counter |-> 0,
   skipped |-> FALSE, results |-> {}]

Init ==
  /\ strict \in BOOLEAN
  /\ pending = <<>>
  /\ code = {}
  /\ exts = <<>>
  /\ bound = [s \in Senders |-> 0]
  /\ env = NoEnvFile
  /\ tee = [ext |-> 0, governance |-> 0]
  /\ run = Idle
  /\ sent = [deploys |-> 0, registers |-> 0, tools |-> 0]
  /\ report = NoReport
  /\ settled = {}
  /\ setup = [sender |-> 0, ext |-> 0]

-----------------------------------------------------------------------------
(* The chain.                                                              *)

Matching(s) == {i \in DOMAIN exts : exts[i].sender = s}

(* A planted fault: the loop does not stop at the first match.             *)
LastMatch(s) == CHOOSE i \in Matching(s) : \A j \in Matching(s) : j <= i

(* setExtensionId's loop.                                                  *)
FirstMatch(s) == CHOOSE i \in Matching(s) : \A j \in Matching(s) : i <= j

(* The call does not revert on the present state.                          *)
Accepted(t) ==
  \/ t.op \in {"deploy", "owner", "project", "key", "governance"}
  \/ t.op = "register" /\ (strict => Matching(t.sender) = {})
  \/ t.op = "version" /\ ~exts[t.ext].version
  \/ t.op = "machine" /\ exts[t.ext].version /\ exts[t.ext].governance = t.governance
  \/ t.op = "bind" /\ bound[t.sender] = 0 /\ Matching(t.sender) # {}

NewExt(s) ==
  [sender |-> s, owner |-> FALSE, project |-> FALSE, key |-> FALSE,
   version |-> FALSE, governance |-> 0, machine |-> FALSE]

(* A planted fault: the id is read from the counter after the registration.*)
CounterAfter == Len(exts) + 2

(* TeeExtensionRegistered's extension id.                                  *)
RegisteredId == Len(exts) + 1

Apply(t) ==
  /\ code' = IF t.op = "deploy" THEN code \cup {t.sender} ELSE code
  /\ bound' = IF t.op = "bind" THEN [bound EXCEPT ![t.sender] = FirstMatch(t.sender)]
              ELSE bound
  /\ exts' = CASE t.op \in {"deploy", "bind"} -> exts
               [] t.op = "register" -> Append(exts, NewExt(t.sender))
               [] t.op = "governance" -> [exts EXCEPT ![t.ext].governance = t.governance]
               [] OTHER -> [exts EXCEPT ![t.ext][t.op] = TRUE]

-----------------------------------------------------------------------------
(* Tools.                                                                  *)

Step == IF run.at = 0 THEN "none" ELSE Steps(run.tool)[run.at]

AfterStep(r) == IF r.at = Len(Steps(r.tool)) THEN Idle ELSE [r EXCEPT !.at = @ + 1]

At(step) == Step = step /\ ~run.waits

outside == <<strict, pending, code, exts, bound, sent, report, settled, setup>>

Fail == run' = Idle /\ UNCHANGED <<outside, env, tee>>

Advance(r) == run' = AfterStep(r) /\ UNCHANGED <<outside, env, tee>>

Abort == run.tool # "none" /\ Fail

(* One more thing that the operator does.                                  *)
Act ==
  /\ run.tool = "none"
  /\ sent.tools < MaxRuns
  /\ sent' = [sent EXCEPT !.tools = @ + 1]
  /\ report' = NoReport

(* DefaultSupport reads the addresses and the key and dials the chain; if  *)
(* it fails, the tool is aborted before its first step.  register-extension*)
(* takes any sender, deployed or not.                                      *)
Launch(tool, s, step, config) ==
  /\ Act
  /\ tool \in {"pre-build", "full-setup"} => sent.deploys < MaxSenders
  /\ tool \in {"pre-build", "full-setup", "register-extension"} => sent.registers < MaxExts
  /\ tool = "post-build" => tee.ext # 0
  /\ tool = "register-extension" <=> s # 0
  /\ \E g \in IF tool \in {"full-setup", "post-build"} THEN Governances ELSE {0} :
       run' = [Idle EXCEPT !.tool = tool, !.at = 1, !.sender = s, !.governance = g,
                           !.step = step, !.config = config]
  /\ UNCHANGED <<strict, pending, code, exts, bound, env, tee, settled, setup>>

(* Gas is estimated first, so that a call that reverts now is not sent.    *)
Send(op, s, e) ==
  LET t == [op |-> op, sender |-> s, ext |-> e,
            governance |-> IF op = "machine" THEN tee.governance ELSE run.governance] IN
  IF ~Accepted(t) THEN Fail
  ELSE /\ pending' = Append(pending, t)
       /\ sent' = [sent EXCEPT !.deploys = @ + (IF op = "deploy" THEN 1 ELSE 0),
                               !.registers = @ + (IF op = "register" THEN 1 ELSE 0)]
       /\ run' = [run EXCEPT !.waits = TRUE, !.sender = s, !.ext = e]
       /\ UNCHANGED <<strict, code, exts, bound, env, tee, report, settled, setup>>

(* A planted fault: the allowlist's receipts are not looked at.            *)
AnyReceipt(op, ok) == ok \/ op \in {"owner", "project"}

(* CheckTx; WaitMined and a look at the status.                            *)
Succeeded(op, ok) == ok

(* The transaction of the lowest nonce is mined; the calls the deployer    *)
(* needs a role for, or gas, may revert.  The tool that waits for it reads *)
(* the receipt: a bind that reverts was "already set", and run-test goes   *)
(* on; so does allow-tee-version, if the node names the error.             *)
Mine(ok) ==
  /\ pending # <<>>
  /\ LET t == Head(pending)
         mine == run.waits /\ Len(pending) = 1
         new == IF t.op = "register" THEN [run EXCEPT !.ext = RegisteredId] ELSE run IN
     /\ ok => Accepted(t)
     /\ ~ok => ~Accepted(t) \/ t.op \in {"deploy", "owner", "project", "key"}
     /\ IF ok THEN Apply(t) ELSE UNCHANGED <<code, exts, bound>>
     /\ \/ mine /\ Succeeded(t.op, ok) /\ run' = AfterStep([new EXCEPT !.waits = FALSE])
        \/ mine /\ ~Succeeded(t.op, ok) /\ run' = Idle
        \/ mine /\ ~ok /\ t.op \in {"version", "bind"} /\ run' = AfterStep([run EXCEPT !.waits = FALSE])
        \/ ~mine /\ UNCHANGED run
  /\ pending' = Tail(pending)
  /\ UNCHANGED <<strict, env, tee, sent, report, settled, setup>>

(* Two minutes without a receipt; SetExtensionId waits without a deadline. *)
WaitTimesOut == run.waits /\ Step # "bind" /\ Fail

Preflight ==
  /\ At("preflight")
  /\ \E c \in Configurations : IF PreflightPasses(c) THEN Advance(run) ELSE Fail

DeployInstructionSender == At("deploy") /\ Send("deploy", sent.deploys + 1, 0)

(* AddressHasCode, or a lookup that fails.                                 *)
CheckCode == At("code") /\ IF run.sender \in code THEN Advance(run) ELSE Fail

RegisterExtension == At("register") /\ Send("register", run.sender, 0)

(* Skipped if it is so already.                                            *)
SetOnce(step, e, already) ==
  At(step) /\ IF already THEN Advance(run) ELSE Send(step, run.sender, e)

AllowMachineOwner == SetOnce("owner", run.ext, exts[run.ext].owner)

AllowProjectOwner == SetOnce("project", run.ext, exts[run.ext].project)

SupportKeyType == SetOnce("key", run.ext, exts[run.ext].key)

(* cat > extension.env, killed before it has written or not.               *)
WriteEnv ==
  /\ At("write")
  /\ \/ env' = EnvFile(run.ext, run.sender) /\ run' = AfterStep(run)
     \/ env' = EmptyEnvFile /\ run' = Idle
  /\ UNCHANGED <<outside, tee>>

(* register-extension prints the id; the operator puts it in the file, with *)
(* the sender it is for, or leaves the file as it is.                      *)
PrintId ==
  /\ At("print")
  /\ env' \in {env, EnvFile(run.ext, run.sender)}
  /\ run' = Idle
  /\ UNCHANGED <<outside, tee>>

(* extension.env by hand: a value is lost or mistyped, or the id is        *)
(* another, as of a registration that broke off and named it in its error. *)
EditEnv ==
  /\ run.tool = "none"
  /\ env.exists /\ ~env.edited
  /\ \/ \E id \in DOMAIN exts \cup {Absent, Malformed} :
          env' = [env EXCEPT !.id = id, !.edited = TRUE]
     \/ \E s \in {Absent, Malformed} : env' = [env EXCEPT !.sender = s, !.edited = TRUE]
  /\ report' = NoReport
  /\ UNCHANGED <<strict, pending, code, exts, bound, tee, run, sent, settled, setup>>

(* The containers come up with the file's EXTENSION_ID.                    *)
Serve(g) == WellFormed(env.id) /\ tee' = [ext |-> env.id, governance |-> g]

StartServices ==
  /\ At("start")
  /\ Serve(run.governance)
  /\ run' = AfterStep(run)
  /\ UNCHANGED <<outside, env>>

StartByHand ==
  /\ Act
  /\ \E g \in Governances : Serve(g)
  /\ UNCHANGED <<strict, pending, code, exts, bound, env, run, settled, setup>>

(* post-build's tools ask the proxy which extension it serves.             *)
AllowTeeVersion == SetOnce("version", tee.ext, exts[tee.ext].version)

(* A lookup that fails counts as not set yet.                              *)
SetGovernance ==
  \/ SetOnce("governance", tee.ext, exts[tee.ext].governance = run.governance)
  \/ At("governance") /\ Send("governance", run.sender, tee.ext)

RegisterMachine == SetOnce("machine", tee.ext, exts[tee.ext].machine)

Done ==
  /\ At("done")
  /\ setup' = [sender |-> env.sender, ext |-> tee.ext]
  /\ run' = Idle
  /\ UNCHANGED <<strict, pending, code, exts, bound, env, tee, sent, report, settled>>

(* run-test's first call: bound already is as good.                        *)
SetExtensionId ==
  /\ At("bind")
  /\ IF ~WellFormed(env.sender) THEN Fail
     ELSE IF bound[env.sender] # 0 THEN Advance(run)
     ELSE Send("bind", env.sender, 0)

-----------------------------------------------------------------------------
(* verify-deploy.  Every lookup may fail.                                  *)

Add(results) == Advance([run EXCEPT !.results = @ \cup results])

ToReport(results) ==
  Advance([run EXCEPT !.results = @ \cup results, !.at = Len(Steps("verify-deploy")) - 1])

CheckCounter ==
  /\ At("counter")
  /\ IF run.step \notin {"register", "all"} THEN ToReport({})
     ELSE IF NothingToRegister(run.config, env) THEN ToReport(One("R1-R7", "skipped", "SKIP"))
     ELSE \E fails \in BOOLEAN :
       LET r1 == One("R1", "counter", PassIf(~fails, "FAIL")) IN
       IF ~WellFormed(env.id) THEN ToReport(r1 \cup One("R2", "format", "FAIL"))
       ELSE Advance([run EXCEPT !.results = r1,
                                !.counter = IF fails THEN 0 ELSE Len(exts) + 1])

(* A planted fault: a lookup that fails is taken for a yes.                *)
LookedKindly(id, about, good) ==
  \E fails \in BOOLEAN : Add(One(id, about, PassIf(fails \/ good, "FAIL")))

(* A lookup's verdict on the extension that the file names.                *)
Looked(id, about, good) ==
  \E fails \in BOOLEAN : Add(One(id, about, PassIf(~fails /\ good, "FAIL")))

(* A malformed sender is not looked up, nor is its absence reported.       *)
CheckSenderMatches ==
  /\ At("match")
  /\ IF WellFormed(env.sender) THEN Looked("R2", "match", exts[env.id].sender = env.sender)
     ELSE Add({})

CheckMachineOwner == At("allowed") /\ Looked("R3", "owner", exts[env.id].owner)

CheckKeyType == At("types") /\ Looked("R4", "key", exts[env.id].key)

(* A planted fault: one duplicate is let pass.                             *)
AtMostTwo(ids) == \A i, j, k \in ids : i = j \/ j = k \/ i = k

AtMostOne(ids) == \A i, j \in ids : i = j

(* R7 looks below the counter; ids whose lookup fails are passed over.     *)
CheckUniqueSender ==
  /\ At("unique")
  /\ IF run.counter = 0 \/ ~WellFormed(env.sender) THEN Add({})
     ELSE \E missed \in SUBSET (1..(run.counter - 1)) :
       LET seen == {i \in Matching(env.sender) : i < run.counter /\ i \notin missed} IN
       Advance([run EXCEPT !.skipped = (missed # {}),
                           !.results = @ \cup One("R7", "unique", PassIf(AtMostOne(seen), "WARN"))])

(* R2 and R7 have passed.                                                  *)
SettlesBinding(results) ==
  One("R2", "match", "PASS") \cup One("R7", "unique", "PASS") \subseteq results

Report ==
  /\ At("report")
  /\ \E c \in Configurations, f \in Filters :
       LET all == run.results \cup StepReport(run.step, c, env)
           r == [step |-> run.step, settings |-> c, env |-> env, filter |-> f,
                 results |-> Filtered(all, f)] IN
       /\ c.config = run.config
       /\ report' = r
       /\ settled' = IF SettlesBinding(r.results) /\ ~run.skipped
                     THEN settled \cup {<<env.sender, env.id>>} ELSE settled
  /\ run' = Idle
  /\ UNCHANGED <<strict, pending, code, exts, bound, env, tee, sent, setup>>

-----------------------------------------------------------------------------
(* What a tool does by itself.                                             *)
Proceed ==
  \/ Preflight \/ DeployInstructionSender
  \/ CheckCode \/ RegisterExtension
  \/ AllowMachineOwner \/ AllowProjectOwner \/ SupportKeyType
  \/ WriteEnv \/ PrintId
  \/ StartServices
  \/ AllowTeeVersion \/ SetGovernance \/ RegisterMachine \/ Done
  \/ SetExtensionId
  \/ CheckCounter \/ CheckSenderMatches \/ CheckMachineOwner \/ CheckKeyType
  \/ CheckUniqueSender \/ Report
  \/ WaitTimesOut

Operator ==
  \/ \E tool \in Tools \ {"none", "verify-deploy"}, s \in Senders \cup {0} :
       Launch(tool, s, "none", FALSE)
  \/ \E step \in VerifySteps, config \in BOOLEAN : Launch("verify-deploy", 0, step, config)
  \/ EditEnv
  \/ StartByHand
  \/ Abort

Next == Proceed \/ Operator \/ \E ok \in BOOLEAN : Mine(ok)

Spec == Init /\ [][Next]_vars

-----------------------------------------------------------------------------
(* The pair in extension.env is one that a registration ended with: the    *)
(* extension is the sender's, with the deployer and the key type on its    *)
(* lists, whatever was left pending, mined late, or killed half-way.       *)
EnvNamesWorkingExtension ==
  WellFormed(env.id) /\ WellFormed(env.sender) /\ ~env.edited =>
    LET e == exts[env.id] IN
    e.sender = env.sender /\ e.sender \in code /\ e.owner /\ e.project /\ e.key

Passed(id, about) == [id |-> id, about |-> about, status |-> "PASS"] \in report.results

(* R2 and R7 together settle which extension the InstructionSender binds,  *)
(* or has bound, and for good: setExtensionId takes the first match.  Only *)
(* if no lookup of R7 failed, for those count as no match.                 *)
CleanReportBinds ==
  \A p \in settled :
    /\ bound[p[1]] \in {0, p[2]}
    /\ \A i \in Matching(p[1]) : p[2] <= i

(* verify-deploy for all steps, with the file and without --checks, exits  *)
(* 0 only if what the next tools rely on is so: the file names a pair that *)
(* belongs together, the lists are set, and deploy-contract would start.   *)
CleanReportIsSound ==
  /\ report.step = "all" /\ report.settings.config /\ report.filter = {}
  /\ ~HasFailures(report.results)
  => /\ PreflightPasses(report.settings)
     /\ WellFormed(report.env.id) /\ WellFormed(report.env.sender)
     /\ LET e == exts[report.env.id] IN
          e.sender = report.env.sender /\ e.owner /\ e.key

(* After full-setup the machine that serves is registered for the one      *)
(* extension that the deployed InstructionSender can bind to, whoever else *)
(* registers it again, before the binding or after.                        *)
SetupIsServed ==
  setup.ext # 0 =>
    /\ exts[setup.ext].machine /\ exts[setup.ext].version
    /\ bound[setup.sender] \in {0, setup.ext}
    /\ setup.ext \in Matching(setup.sender)
=============================================================================
