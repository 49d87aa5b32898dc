---------------------------- MODULE DeployChecks ----------------------------
(***************************************************************************)
(* verify-deploy's checks (validate/checks.go), as functions of what they  *)
(* look at: the process environment, extension.env as it parses, and what  *)
(* the probes and the chain answer.  A report is a set of results.  The    *)
(* register step reads the chain call by call and is in Deployment.        *)
(***************************************************************************)
EXTENDS Naturals

CONSTANTS
  Absent,      \* a key that extension.env does not have
  Malformed    \* a value that is no address, or no 32-byte id

Statuses == {"PASS", "WARN", "FAIL", "SKIP"}

One(id, about, status) == {[id |-> id, about |-> about, status |-> status]}

PassIf(good, otherwise) == IF good THEN "PASS" ELSE otherwise

HasFailures(results) == \E r \in results : r.status = "FAIL"

(* --checks: the results of other ids are dropped before the exit code.    *)
Filtered(results, ids) == IF ids = {} THEN results ELSE {r \in results : r.id \in ids}

-----------------------------------------------------------------------------
(* What the checks look at.  A lookup of code or of a balance that the     *)
(* chain does not answer fails its check, as no code or no funds do.       *)
Settings ==
  [config : BOOLEAN,                            \* --config is given
   local : {"unset", "true", "false", "other"}, \* LOCAL_MODE
   deployKey : BOOLEAN, ownerKey : BOOLEAN, proxyKey : BOOLEAN,
   simulated : BOOLEAN,                         \* SIMULATED_TEE
   manager : {"zero", "empty", "code"},         \* FlareTeeManager
   funded : BOOLEAN,
   chainAnswers : BOOLEAN,                      \* to the question for its id
   portInUse : BOOLEAN,
   extProxy : {"unset", "up", "down"}, normalProxy : {"unset", "up", "down"}]

NoEnvFile == [exists |-> FALSE, id |-> Absent, sender |-> Absent, edited |-> FALSE]

EmptyEnvFile == [NoEnvFile EXCEPT !.exists = TRUE]

EnvFile(id, sender) ==
  [exists |-> TRUE, id |-> id, sender |-> sender, edited |-> FALSE]

(* addressRegex and extensionIDRegex.                                      *)
WellFormed(v) == v \notin {Absent, Malformed}

LocalByDefault(s) == s.local \in {"unset", "true"}

(* An HTTP GET of /info, within 5 seconds.                                 *)
Probe(url) ==
  CASE url = "unset" -> "SKIP" [] url = "up" -> "PASS" [] url = "down" -> "WARN"

(* deploy-contract's pre-flight: AddressNotZero, AddressHasCode,           *)
(* KeyHasFunds.                                                            *)
PreflightPasses(s) == s.manager = "code" /\ s.funded

-----------------------------------------------------------------------------
EnvFormat(env) ==
  IF ~env.exists THEN One("D7", "file", "SKIP")
  ELSE One("D7", "sender", PassIf(WellFormed(env.sender), "FAIL"))
         \cup One("D7", "id", PassIf(WellFormed(env.id), "FAIL"))

DeployerKeySource(s) == PassIf(s.deployKey \/ LocalByDefault(s), "WARN")

DeployReport(s, env) ==
  One("D3", "manager", PassIf(s.manager # "zero", "FAIL"))
    \cup (IF s.manager = "zero" THEN {}
          ELSE One("D1", "manager", PassIf(s.manager = "code", "FAIL")))
    \cup One("D5", "key", DeployerKeySource(s))
    \cup One("D5", "funds", PassIf(s.funded, "FAIL"))
    \cup One("D6", "chain", PassIf(s.chainAnswers, "FAIL"))
    \cup (IF s.config THEN EnvFormat(env) ELSE {})

(* A file that is not there has no EXTENSION_ID here, and fails.           *)
ServicesReport(s, env) ==
  One("S2", "id", IF ~s.config THEN "SKIP" ELSE PassIf(WellFormed(env.id), "FAIL"))
    \cup One("S5", "port", PassIf(~s.portInUse, "WARN"))
    \cup One("S7", "ports", "PASS")
    \cup One("S9", "proxy", Probe(s.extProxy))
    \cup One("S10", "key", PassIf(s.proxyKey \/ s.local # "false", "WARN"))

TeeVersionReport(s, env) ==
  One("V2", "key", PassIf(s.ownerKey \/ s.deployKey \/ LocalByDefault(s), "WARN"))
    \cup One("V4", "id", IF ~s.config \/ ~env.exists THEN "SKIP"
                         ELSE PassIf(WellFormed(env.id), "FAIL"))
    \cup One("V6", "proxy", Probe(s.extProxy))

TeeMachineReport(s) ==
  One("T1", "mode", PassIf(~(s.simulated /\ s.local = "false"), "WARN"))
    \cup One("T5", "proxy", Probe(s.normalProxy))
    \cup One("T10", "host", Probe(s.extProxy))

TestReport(s, env) ==
  One("E1", "sender", IF ~s.config \/ ~env.exists THEN "SKIP"
                      ELSE PassIf(WellFormed(env.sender), "FAIL"))
    \cup One("E3", "proxy", Probe(s.extProxy))
    \cup One("E6", "ops", "PASS")

(* What the steps other than register add to a report.                     *)
StepReport(step, s, env) ==
  LET in(name) == step \in {name, "all"} IN
  UNION {IF in("deploy") THEN DeployReport(s, env) ELSE {},
         IF in("services") THEN ServicesReport(s, env) ELSE {},
         IF in("tee-version") THEN TeeVersionReport(s, env) ELSE {},
         IF in("tee-machine") THEN TeeMachineReport(s) ELSE {},
         IF in("test") THEN TestReport(s, env) ELSE {}}

(* The register step looks no further: no --config, or nothing in the file.*)
NothingToRegister(config, env) == ~config \/ (env.id = Absent /\ env.sender = Absent)
=============================================================================
