-------------------------- MODULE Deployment_proofs --------------------------
(***************************************************************************)
(* What Deployment promises, for every number of senders, extensions and   *)
(* runs, every set of environments, filters and governances: the inductive *)
(* invariant DeploymentInv, and the properties that follow from it.        *)
(*                                                                         *)
(* WorldInv is about the chain, the file and the machine, whoever is at    *)
(* work; RunInv about how far the tool that runs has come, and what it may *)
(* rely on at its next step.  The chain only grows: an extension keeps its *)
(* sender and what was allowed to it (Grows), so that what a step has read *)
(* is still so when a later step, or a report, builds on it.               *)
(* What the steps of verify-deploy report is at the end.                   *)
(***************************************************************************)
EXTENDS Deployment, TLAPS, FiniteSets, FiniteSetTheorems, FunctionTheorems,
        SequenceTheorems, WellFoundedInduction

(* The tools that deploy an InstructionSender, those that register, and    *)
(* the places of their steps, counted from the first of pre-build.         *)
Fresh == {"pre-build", "full-setup"}

Registering == Fresh \cup {"register-extension"}

Building == {"post-build", "full-setup"}

Stage(r) == IF r.tool = "register-extension" THEN r.at + 2 ELSE r.at

ExtOps == {"owner", "project", "key", "version", "governance", "machine"}

Ops == ExtOps \cup {"deploy", "register", "bind"}

Someone == Senders \cup {0}

Rules == Governances \cup {0}

Tx == [op : Ops, sender : Someone, ext : Nat, governance : Rules]

Ids == {"R1", "R1-R7", "R2", "R3", "R4", "R7"}

Abouts == {"counter", "skipped", "format", "match", "owner", "key", "unique"}

Result == [id : Ids, about : Abouts, status : Statuses]

Run ==
  [tool : Tools, at : Nat, waits : BOOLEAN, sender : Someone, ext : Nat,
   governance : Rules, step : VerifySteps \cup {"none"}, config : BOOLEAN,
   counter : Nat, skipped : BOOLEAN, results : SUBSET Result]

Unread == {Absent, Malformed}

Typed ==
  /\ strict \in BOOLEAN
  /\ pending \in Seq(Tx)
  /\ code \subseteq Senders
  /\ exts \in Seq(Ext)
  /\ bound \in [Senders -> Nat]
  /\ env \in [exists : BOOLEAN, id : Nat \cup Unread, sender : Senders \cup Unread,
              edited : BOOLEAN]
  /\ tee \in [ext : Nat, governance : Rules]
  /\ run \in Run
  /\ sent \in [deploys : Nat, registers : Nat, tools : Nat]
  /\ report.step \in VerifySteps \cup {"none"}

(* The run is at a step of its tool.                                       *)
Placed ==
  IF run.tool = "none" THEN run = Idle ELSE run.at \in 1..Len(Steps(run.tool))

(* Who registers has a contract: deployments are numbered as they are sent.*)
Deployed ==
  /\ code \subseteq 1..sent.deploys
  /\ \A i \in DOMAIN exts :
       exts[i].sender \in code /\ (exts[i].machine => exts[i].version)

(* A transaction that is not mined names what there is.                    *)
Queued ==
  \A i \in DOMAIN pending :
    LET t == pending[i] IN
    /\ t.ext \in DOMAIN exts \cup {0}
    /\ t.op \in ExtOps => t.ext \in DOMAIN exts
    /\ t.op = "deploy" => t.sender \in 1..sent.deploys
    /\ t.op = "register" => t.sender \in code
    /\ t.op = "bind" => t.sender \in Senders

Registrations(q) == {i \in DOMAIN q : q[i].op = "register"}

(* The bounds hold, with the transactions that are pending.                *)
Counted ==
  /\ Len(exts) + Cardinality(Registrations(pending)) <= sent.registers
  /\ sent.registers <= MaxExts /\ sent.deploys <= MaxSenders

(* Launch has left room for what the run has yet to send.                  *)
Spare(r, n) ==
  /\ r.tool \in Registering /\ Stage(r) <= 4 /\ (Stage(r) = 4 => ~r.waits)
       => n.registers < MaxExts
  /\ r.tool \in Fresh /\ r.at <= 2 /\ (r.at = 2 => ~r.waits)
       => n.deploys < MaxSenders

(* e is the extension that setExtensionId takes for s.                     *)
First(x, s, e) ==
  /\ e \in DOMAIN x /\ x[e].sender = s
  /\ \A i \in DOMAIN x : x[i].sender = s => e <= i

BoundFirst == \A s \in Senders : bound[s] = 0 \/ First(exts, s, bound[s])

(* A registration that ended well.                                         *)
Works(x, c, e, s) ==
  /\ e \in DOMAIN x /\ x[e].sender = s /\ s \in c
  /\ x[e].owner /\ x[e].project /\ x[e].key

Filed ==
  /\ env.id \in DOMAIN exts \cup Unread
  /\ WellFormed(env.id) => env.exists
  /\ WellFormed(env.id) /\ WellFormed(env.sender) /\ ~env.edited
       => Works(exts, code, env.id, env.sender)
  /\ tee.ext \in DOMAIN exts \cup {0}

(* A run that waits has sent the last transaction.                         *)
Waiting ==
  run.waits =>
    /\ pending # <<>>
    /\ LET t == pending[Len(pending)] IN
       t.op = Step /\ t.sender = run.sender /\ t.ext = run.ext

(* How far the registration of the run is.                                 *)
Registered(r, x, c) ==
  r.tool \in Registering =>
    /\ Stage(r) >= 4 => r.sender \in c
    /\ Stage(r) \in 5..8 => r.ext \in DOMAIN x /\ x[r.ext].sender = r.sender
    /\ Stage(r) \in 6..8 => x[r.ext].owner
    /\ Stage(r) \in 7..8 => x[r.ext].project
    /\ Stage(r) = 8 => x[r.ext].key

(* The contract that the run has deployed is nobody else's to register     *)
(* before the run has registered it.                                       *)
Unregistered(r, x, q) ==
  r.tool \in Fresh /\ r.at \in 2..4 /\ (r.at = 2 => r.waits) =>
    /\ \A i \in DOMAIN x : x[i].sender # r.sender
    /\ \A i \in DOMAIN q : q[i].op = "register" /\ q[i].sender = r.sender
                             => r.at = 4 /\ r.waits /\ i = Len(q)

(* From then on the first extension of the contract is the run's.          *)
Secured(r, x, file, server) ==
  /\ r.ext \in DOMAIN x \cup {0}
  /\ r.tool \in Fresh /\ r.at \in 5..8 => First(x, r.sender, r.ext)
  /\ r.tool = "full-setup" /\ r.at >= 9 =>
       file.sender = r.sender /\ First(x, r.sender, file.id)
  /\ r.tool = "full-setup" /\ r.at >= 10 => server.ext = file.id
  /\ r.tool = "full-setup" /\ r.at >= 10 /\ r.waits => r.ext = server.ext
  /\ r.tool = "post-build" => server.ext \in DOMAIN x
  /\ r.tool = "full-setup" /\ r.at = 13 => x[server.ext].machine

Pass(id, about) == [id |-> id, about |-> about, status |-> "PASS"]

(* What the register step has to look at.                                  *)
Looks(step, config, file) ==
  step \in {"register", "all"} /\ ~NothingToRegister(config, file)

(* What the results of verify-deploy so far stand for.                     *)
Verified(r, x, file) ==
  r.tool = "verify-deploy" =>
    /\ HasFailures(r.results) \/ r.at \in 2..5 => Looks(r.step, r.config, file)
    /\ r.at = 6 /\ Looks(r.step, r.config, file) /\ ~WellFormed(file.id)
         => HasFailures(r.results)
    /\ r.at = 1 => r.results = {} /\ r.counter = 0
    /\ r.at <= 5 => ~r.skipped
    /\ r.counter <= Len(x) + 1
    /\ r.counter # 0 => WellFormed(file.id) /\ file.id < r.counter
    /\ r.at \in 2..5 => WellFormed(file.id)
    /\ Pass("R2", "match") \in r.results =>
         WellFormed(file.id) /\ WellFormed(file.sender) /\ x[file.id].sender = file.sender
    /\ Pass("R7", "unique") \in r.results /\ ~r.skipped =>
         /\ r.counter # 0
         /\ \A i, j \in DOMAIN x :
              /\ x[i].sender = file.sender /\ i < r.counter
              /\ x[j].sender = file.sender /\ j < r.counter
              => i = j
    /\ r.step \in {"register", "all"} /\ r.config /\ WellFormed(file.id)
         /\ ~HasFailures(r.results) =>
         /\ r.at >= 3 /\ WellFormed(file.sender) => x[file.id].sender = file.sender
         /\ r.at >= 4 => x[file.id].owner
         /\ r.at >= 5 => x[file.id].key

CleanReport ==
  /\ report.step = "all" /\ report.settings.config /\ report.filter = {}
  /\ ~HasFailures(report.results)

(* The register step reports a failure.                                    *)
RegisterFails(results) == \E x \in results : x.id \in Ids /\ x.status = "FAIL"

(* What a report without --checks fails for.                               *)
FailsExactly(r) ==
  r.step # "none" /\ r.filter = {} =>
    LET in(name) == r.step \in {name, "all"}
        s == r.settings
        badId == s.config /\ r.env.exists /\ ~WellFormed(r.env.id)
        badSender == s.config /\ r.env.exists /\ ~WellFormed(r.env.sender)
        looks == Looks(r.step, s.config, r.env)
    IN
    /\ HasFailures(r.results) <=>
         \/ /\ in("deploy")
            /\ ~PreflightPasses(s) \/ ~s.chainAnswers \/ badId \/ badSender
         \/ in("services") /\ s.config /\ ~WellFormed(r.env.id)
         \/ in("tee-version") /\ badId
         \/ in("test") /\ badSender
         \/ RegisterFails(r.results)
    /\ RegisterFails(r.results) => looks
    /\ looks /\ ~WellFormed(r.env.id) => RegisterFails(r.results)

Reported ==
  /\ FailsExactly(report)
  /\ CleanReport =>
       /\ PreflightPasses(report.settings)
       /\ report.env.id \in DOMAIN exts /\ WellFormed(report.env.sender)
       /\ LET e == exts[report.env.id] IN
          e.sender = report.env.sender /\ e.owner /\ e.key

Remembered ==
  /\ \A p \in settled : p[1] \in Senders /\ First(exts, p[1], p[2])
  /\ setup.ext # 0 =>
       /\ setup.sender \in Senders
       /\ First(exts, setup.sender, setup.ext) /\ exts[setup.ext].machine

(* What holds of the run, and of all else.                                 *)
RunInv(r, x, c, q, file, server, n) ==
  /\ Registered(r, x, c) /\ Unregistered(r, x, q) /\ Secured(r, x, file, server)
  /\ Verified(r, x, file) /\ Spare(r, n)

WorldInv ==
  Deployed /\ Queued /\ Counted /\ BoundFirst /\ Filed /\ Reported /\ Remembered

DeploymentInv ==
  /\ Typed /\ Placed /\ WorldInv /\ Waiting
  /\ RunInv(run, exts, code, pending, env, tee, sent)
-----------------------------------------------------------------------------
(* Operators.                                                              *)

(* A set of naturals that is not empty has a least element.                *)
LEMMA LeastOf ==
  ASSUME NEW S \in SUBSET Nat, S # {}
  PROVE  \E m \in S : \A k \in S : m <= k
<1> DEFINE R == OpToRel(<, Nat)
<1>1. IsWellFoundedOn(R, Nat)
  BY NatLessThanWellFounded
<1>2. \A x, y \in Nat : x < y => <<x, y>> \in R
  BY DEF OpToRel
<1> HIDE DEF R
<1>3. PICK m \in S : \A k \in S : ~ (<<k, m>> \in R)
  BY <1>1, WFMin
<1>4. \A k \in S : ~ (k < m)
  BY <1>2, <1>3
<1>5. \A k \in S : m <= k
  <2> TAKE k \in S
  <2>1. k \in Nat /\ m \in Nat /\ ~ (k < m)
    BY <1>4
  <2> QED  BY <2>1
<1> QED  BY <1>5

Names ==
  {"preflight", "deploy", "code", "register", "owner", "project", "key", "write",
   "print", "start", "version", "governance", "machine", "done"}

(* The steps of the tools that are composed of others.                     *)
LEMMA PreBuildOrder ==
  PreBuildSteps =
    <<"preflight", "deploy", "code", "register", "owner", "project", "key", "write">>
<1> DEFINE a == <<"preflight", "deploy">>
           b == <<"code", "register", "owner", "project", "key">>
           c == <<"write">>
           d == <<"preflight", "deploy", "code", "register", "owner", "project", "key", "write">>
<1>1. a \in Seq(Names) /\ b \in Seq(Names) /\ c \in Seq(Names) /\ d \in Seq(Names)
  BY DEF Names
<1>2. /\ a \o b \in Seq(Names) /\ Len(a \o b) = 7
      /\ \A i \in 1..7 : (a \o b)[i] = IF i <= 2 THEN a[i] ELSE b[i - 2]
  BY <1>1, ConcatProperties
<1>3. \A i \in 1..7 : (a \o b)[i] = d[i]
  BY <1>2
<1>4. /\ (a \o b) \o c \in Seq(Names) /\ Len((a \o b) \o c) = 8
      /\ \A i \in 1..8 : ((a \o b) \o c)[i] = IF i <= 7 THEN (a \o b)[i] ELSE c[i - 7]
  BY <1>1, <1>2, ConcatProperties
<1>5. \A i \in 1..8 : ((a \o b) \o c)[i] = d[i]
  BY <1>4, <1>3
<1> QED  BY <1>1, <1>4, <1>5, SeqEqual DEF PreBuildSteps, RegisterSteps

(* The steps of register-extension.                                        *)
LEMMA RegisterOrder ==
  RegisterSteps \o <<"print">> = <<"code", "register", "owner", "project", "key", "print">>
<1> DEFINE a == <<"code", "register", "owner", "project", "key">>
           b == <<"print">>
           d == <<"code", "register", "owner", "project", "key", "print">>
<1>1. a \in Seq(Names) /\ b \in Seq(Names) /\ d \in Seq(Names)
  BY DEF Names
<1>2. /\ a \o b \in Seq(Names) /\ Len(a \o b) = 6
      /\ \A i \in 1..6 : (a \o b)[i] = IF i <= 5 THEN a[i] ELSE b[i - 5]
  BY <1>1, ConcatProperties
<1>3. \A i \in 1..6 : (a \o b)[i] = d[i]
  BY <1>2
<1> QED  BY <1>1, <1>2, <1>3, SeqEqual DEF RegisterSteps

(* The steps of full-setup.sh: pre-build's, the start, post-build's.       *)
LEMMA FullSetupOrder ==
  PreBuildSteps \o <<"start">> \o PostBuildSteps \o <<"done">> =
    <<"preflight", "deploy", "code", "register", "owner", "project", "key", "write",
      "start", "version", "governance", "machine", "done">>
<1> DEFINE a == <<"preflight", "deploy", "code", "register", "owner", "project", "key", "write">>
           b == <<"start">>
           c == <<"version", "governance", "machine">>
           e == <<"done">>
           d == <<"preflight", "deploy", "code", "register", "owner", "project", "key", "write",
                  "start", "version", "governance", "machine", "done">>
<1>1. /\ a \in Seq(Names) /\ b \in Seq(Names) /\ c \in Seq(Names) /\ e \in Seq(Names)
      /\ d \in Seq(Names)
  BY DEF Names
<1>2. /\ a \o b \in Seq(Names) /\ Len(a \o b) = 9
      /\ \A i \in 1..9 : (a \o b)[i] = IF i <= 8 THEN a[i] ELSE b[i - 8]
  BY <1>1, ConcatProperties
<1>3. \A i \in 1..9 : (a \o b)[i] = d[i]
  BY <1>2
<1>4. /\ (a \o b) \o c \in Seq(Names) /\ Len((a \o b) \o c) = 12
      /\ \A i \in 1..12 : ((a \o b) \o c)[i] = IF i <= 9 THEN (a \o b)[i] ELSE c[i - 9]
  BY <1>1, <1>2, ConcatProperties
<1>5. \A i \in 1..12 : ((a \o b) \o c)[i] = d[i]
  BY <1>4, <1>3
<1>6. /\ (a \o b) \o c \o e \in Seq(Names) /\ Len((a \o b) \o c \o e) = 13
      /\ \A i \in 1..13 : ((a \o b) \o c \o e)[i] = IF i <= 12 THEN ((a \o b) \o c)[i] ELSE e[i - 12]
  BY <1>1, <1>4, ConcatProperties
<1>7. \A i \in 1..13 : ((a \o b) \o c \o e)[i] = d[i]
  BY <1>6, <1>5
<1>8. (a \o b) \o c \o e = d
  BY <1>1, <1>6, <1>7, SeqEqual
<1> QED  BY <1>8, PreBuildOrder DEF PostBuildSteps

(* How many steps a tool has.                                              *)
Length(tool) ==
  CASE tool = "none" -> 0 [] tool = "pre-build" -> 8 [] tool = "register-extension" -> 6
    [] tool = "post-build" -> 3 [] tool = "full-setup" -> 13 [] tool = "run-test" -> 1
    [] tool = "verify-deploy" -> 6

(* Each step has its place in the tools that have it.                      *)
PlacesOf(tool, at, name) ==
  /\ name = "preflight" => tool \in Fresh /\ at = 1
  /\ name = "deploy" => tool \in Fresh /\ at = 2
  /\ name = "code" => tool \in Registering /\ (IF tool \in Fresh THEN at = 3 ELSE at = 1)
  /\ name = "register" => tool \in Registering /\ (IF tool \in Fresh THEN at = 4 ELSE at = 2)
  /\ name = "owner" => tool \in Registering /\ (IF tool \in Fresh THEN at = 5 ELSE at = 3)
  /\ name = "project" => tool \in Registering /\ (IF tool \in Fresh THEN at = 6 ELSE at = 4)
  /\ name = "key" => tool \in Registering /\ (IF tool \in Fresh THEN at = 7 ELSE at = 5)
  /\ name = "write" => tool \in Fresh /\ at = 8
  /\ name = "print" => tool = "register-extension" /\ at = 6
  /\ name = "start" => tool = "full-setup" /\ at = 9
  /\ name = "version" => tool \in Building /\ (IF tool = "full-setup" THEN at = 10 ELSE at = 1)
  /\ name = "governance" => tool \in Building /\ (IF tool = "full-setup" THEN at = 11 ELSE at = 2)
  /\ name = "machine" => tool \in Building /\ (IF tool = "full-setup" THEN at = 12 ELSE at = 3)
  /\ name = "done" => tool = "full-setup" /\ at = 13
  /\ name = "bind" => tool = "run-test" /\ at = 1
  /\ name = "counter" => tool = "verify-deploy" /\ at = 1
  /\ name = "match" => tool = "verify-deploy" /\ at = 2
  /\ name = "allowed" => tool = "verify-deploy" /\ at = 3
  /\ name = "types" => tool = "verify-deploy" /\ at = 4
  /\ name = "unique" => tool = "verify-deploy" /\ at = 5
  /\ name = "report" => tool = "verify-deploy" /\ at = 6

(* Steps, by place, for every tool.                                        *)
LEMMA StepPlaces ==
  ASSUME NEW tool \in Tools
  PROVE  /\ Len(Steps(tool)) = Length(tool)
         /\ \A at \in 1..Length(tool) : PlacesOf(tool, at, Steps(tool)[at])
<1>1. CASE tool = "none"
  BY <1>1 DEF Steps, Length
<1>2. CASE tool = "pre-build"
  <2>1. Steps(tool) =
          <<"preflight", "deploy", "code", "register", "owner", "project", "key", "write">>
    BY <1>2, PreBuildOrder DEF Steps
  <2> QED  BY <1>2, <2>1 DEF Length, PlacesOf, Fresh, Registering, Building
<1>3. CASE tool = "register-extension"
  <2>1. Steps(tool) = <<"code", "register", "owner", "project", "key", "print">>
    BY <1>3, RegisterOrder DEF Steps
  <2> QED  BY <1>3, <2>1 DEF Length, PlacesOf, Fresh, Registering, Building
<1>4. CASE tool = "post-build"
  <2>1. Steps(tool) = <<"version", "governance", "machine">>
    BY <1>4 DEF Steps, PostBuildSteps
  <2> QED  BY <1>4, <2>1 DEF Length, PlacesOf, Fresh, Registering, Building
<1>5. CASE tool = "full-setup"
  <2>1. Steps(tool) =
          <<"preflight", "deploy", "code", "register", "owner", "project", "key", "write",
            "start", "version", "governance", "machine", "done">>
    BY <1>5, FullSetupOrder DEF Steps
  <2>2. Len(Steps(tool)) = 13
    BY <2>1
  <2>3. ASSUME NEW at \in 1..13  PROVE  PlacesOf("full-setup", at, Steps(tool)[at])
    <3>1. CASE at \in 1..4
      BY <2>1, <3>1 DEF PlacesOf, Fresh, Registering, Building
    <3>2. CASE at \in 5..8
      BY <2>1, <3>2 DEF PlacesOf, Fresh, Registering, Building
    <3>3. CASE at \in 9..10
      BY <2>1, <3>3 DEF PlacesOf, Building
    <3>4. CASE at = 11
      BY <2>1, <3>4 DEF PlacesOf, Building
    <3>5. CASE at = 12
      BY <2>1, <3>5 DEF PlacesOf, Building
    <3>6. CASE at = 13
      BY <2>1, <3>6 DEF PlacesOf
    <3> QED  BY <3>1, <3>2, <3>3, <3>4, <3>5, <3>6
  <2> QED  BY <1>5, <2>2, <2>3 DEF Length
<1>6. CASE tool = "run-test"
  <2>1. Steps(tool) = <<"bind">>
    BY <1>6 DEF Steps
  <2> QED  BY <1>6, <2>1 DEF Length, PlacesOf, Fresh, Registering, Building
<1>7. CASE tool = "verify-deploy"
  <2>1. Steps(tool) = <<"counter", "match", "allowed", "types", "unique", "report">>
    BY <1>7 DEF Steps
  <2> QED  BY <1>7, <2>1 DEF Length, PlacesOf, Fresh, Registering, Building
<1> QED  BY <1>1, <1>2, <1>3, <1>4, <1>5, <1>6, <1>7 DEF Tools

(* The run's place, by the name of its step.                               *)
LEMMA Place ==
  ASSUME Typed, Placed
  PROVE  /\ run.at \in Nat
         /\ run.tool # "none" => run.at \in 1..Length(run.tool)
         /\ PlacesOf(run.tool, run.at, Step)
         /\ Step # "none" => run.tool # "none"
<1>1. run.tool \in Tools /\ run.at \in Nat
  BY DEF Typed, Run
<1>2. CASE run.tool = "none"
  <2>1. Step = "none" /\ run.at = 0
    BY <1>2 DEF Placed, Idle, Step
  <2> QED  BY <1>1, <1>2, <2>1 DEF PlacesOf
<1>3. CASE run.tool # "none"
  <2>1. run.at \in 1..Length(run.tool)
    BY <1>1, <1>3, StepPlaces DEF Placed
  <2>2. Step = Steps(run.tool)[run.at]
    BY <2>1, <1>1 DEF Step
  <2> QED  BY <1>1, <1>3, <2>1, <2>2, StepPlaces
<1> QED  BY <1>2, <1>3

(* After its last step a run is over.                                      *)
LEMMA After ==
  ASSUME NEW r \in Run
  PROVE  AfterStep(r) = IF r.at = Length(r.tool) THEN Idle ELSE [r EXCEPT !.at = r.at + 1]
BY StepPlaces DEF AfterStep, Run
-----------------------------------------------------------------------------
(* The chain only grows.                                                   *)

(* Extensions keep their sender, and what was allowed to them.             *)
Grows(x, y) ==
  /\ Len(x) <= Len(y)
  /\ \A i \in DOMAIN x :
       /\ y[i].sender = x[i].sender
       /\ x[i].owner => y[i].owner
       /\ x[i].project => y[i].project
       /\ x[i].key => y[i].key
       /\ x[i].machine => y[i].machine

(* Ids that are taken stay taken, and a new one is above them.             *)
LEMMA GrowsDomain ==
  ASSUME NEW x \in Seq(Ext), NEW y \in Seq(Ext), Grows(x, y)
  PROVE  /\ DOMAIN x \subseteq DOMAIN y
         /\ \A i \in DOMAIN y : i \in DOMAIN x \/ i > Len(x)
         /\ \A i \in DOMAIN x : i \in Nat /\ i # 0 /\ i <= Len(x)
BY DEF Grows

(* An extension that registers a sender again does not come first.         *)
LEMMA FirstStays ==
  ASSUME NEW x \in Seq(Ext), NEW y \in Seq(Ext), Grows(x, y), NEW s, NEW e, First(x, s, e)
  PROVE  First(y, s, e)
<1>1. e \in DOMAIN x /\ x[e].sender = s /\ e \in DOMAIN y /\ y[e].sender = s
  BY GrowsDomain DEF First, Grows
<1>2. ASSUME NEW i \in DOMAIN y, y[i].sender = s
      PROVE  e <= i
  <2>1. CASE i \in DOMAIN x
    BY <2>1, <1>2 DEF First, Grows
  <2>2. CASE i > Len(x)
    <3>1. e \in Nat /\ e <= Len(x) /\ Len(x) \in Nat /\ i \in Nat
      BY <1>1, GrowsDomain
    <3> QED  BY <2>2, <3>1
  <2> QED  BY <2>1, <2>2, GrowsDomain
<1> QED  BY <1>1, <1>2 DEF First

(* A registration that ended well stays so.                                *)
LEMMA WorksStays ==
  ASSUME NEW x \in Seq(Ext), NEW y \in Seq(Ext), Grows(x, y), NEW c, NEW d, c \subseteq d,
         NEW e, NEW s, Works(x, c, e, s)
  PROVE  Works(y, d, e, s)
BY GrowsDomain DEF Works, Grows

(* The first extension of a sender is the only one that can be called so.  *)
LEMMA FirstIsUnique ==
  ASSUME NEW x \in Seq(Ext), NEW s, NEW e, NEW f, First(x, s, e), First(x, s, f)
  PROVE  e = f
<1>1. e \in Nat /\ f \in Nat /\ e <= f /\ f <= e
  BY DEF First
<1> QED  BY <1>1

(* What the loop of setExtensionId returns.                                *)
LEMMA FirstMatchIsFirst ==
  ASSUME exts \in Seq(Ext), NEW s, Matching(s) # {}
  PROVE  First(exts, s, FirstMatch(s))
<1>1. Matching(s) \in SUBSET Nat
  BY DEF Matching
<1>2. \E m \in Matching(s) : \A k \in Matching(s) : m <= k
  BY <1>1, LeastOf
<1>3. FirstMatch(s) \in Matching(s) /\ \A k \in Matching(s) : FirstMatch(s) <= k
  BY <1>2 DEF FirstMatch
<1> QED  BY <1>3 DEF First, Matching

Flags == {"owner", "project", "key", "version", "machine"}

WithFlag(n, r, f) ==
  /\ n.sender = r.sender
  /\ n.owner <=> f = "owner" \/ r.owner
  /\ n.project <=> f = "project" \/ r.project
  /\ n.key <=> f = "key" \/ r.key
  /\ n.version <=> f = "version" \/ r.version
  /\ n.machine <=> f = "machine" \/ r.machine

(* addTeeMachineOwners and the like set one flag of an extension.          *)
LEMMA FlagSet ==
  ASSUME NEW r \in Ext, NEW f \in Flags
  PROVE  LET n == [r EXCEPT ![f] = TRUE] IN n \in Ext /\ WithFlag(n, r, f)
<1>1. CASE f = "owner"
  BY <1>1 DEF Ext, WithFlag
<1>2. CASE f = "project"
  BY <1>2 DEF Ext, WithFlag
<1>3. CASE f = "key"
  BY <1>3 DEF Ext, WithFlag
<1>4. CASE f = "version"
  BY <1>4 DEF Ext, WithFlag
<1>5. CASE f = "machine"
  BY <1>5 DEF Ext, WithFlag
<1> QED  BY <1>1, <1>2, <1>3, <1>4, <1>5 DEF Flags

(* The governance of an extension is replaced, and nothing else of it.     *)
LEMMA GovernanceSet ==
  ASSUME NEW r \in Ext, NEW g \in Rules, NEW n, n = [r EXCEPT !.governance = g]
  PROVE  /\ n \in Ext /\ n.sender = r.sender /\ n.owner = r.owner /\ n.project = r.project
         /\ n.key = r.key /\ n.version = r.version /\ n.machine = r.machine
BY DEF Ext, Rules

(* What a transaction that is mined does to the extensions.                *)
Effect(t, x, y) ==
  /\ y \in Seq(Ext) /\ Grows(x, y)
  /\ \A i \in DOMAIN y :
       \/ i \in DOMAIN x
       \/ t.op = "register" /\ i = Len(x) + 1 /\ y[i].sender = t.sender /\ ~y[i].machine
  /\ IF t.op = "register" THEN Len(y) = Len(x) + 1 /\ y[Len(x) + 1].sender = t.sender
     ELSE Len(y) = Len(x)
  /\ t.op \in Flags => t.ext \in DOMAIN x
  /\ t.op = "owner" => y[t.ext].owner
  /\ t.op = "project" => y[t.ext].project
  /\ t.op = "key" => y[t.ext].key
  /\ t.op = "machine" => y[t.ext].machine
  /\ \A i \in DOMAIN x : y[i].machine => y[i].version

(* Apply has the effect that Effect says, and no other.                    *)
LEMMA Applied ==
  ASSUME Typed, Deployed, NEW t \in Tx, Accepted(t), Apply(t),
         t.op \in ExtOps => t.ext \in DOMAIN exts,
         t.op = "register" => t.sender \in Senders
  PROVE  Effect(t, exts, exts')
<1> USE DEF Effect
<1>0. exts \in Seq(Ext) /\ Len(exts) \in Nat /\ DOMAIN exts = 1..Len(exts)
      /\ \A i \in DOMAIN exts : exts[i] \in Ext
  BY DEF Typed
<1>1. CASE t.op \in {"deploy", "bind"}
  <2>1. exts' = exts
    BY <1>1 DEF Apply
  <2>2. Grows(exts, exts') /\ \A i \in DOMAIN exts : exts'[i].machine => exts'[i].version
    BY <2>1, <1>0 DEF Grows, Deployed
  <2> QED  BY <2>1, <2>2, <1>0, <1>1 DEF Flags
<1>2. CASE t.op = "register"
  <2>1. exts' = Append(exts, NewExt(t.sender))
    BY <1>2 DEF Apply
  <2>2. NewExt(t.sender) \in Ext /\ NewExt(t.sender).sender = t.sender
        /\ ~NewExt(t.sender).machine
    BY <1>2 DEF NewExt, Ext, Rules
  <2>3. /\ exts' \in Seq(Ext) /\ Len(exts') = Len(exts) + 1
        /\ \A i \in 1..Len(exts) : exts'[i] = exts[i]
        /\ exts'[Len(exts) + 1] = NewExt(t.sender)
    BY <2>1, <2>2, <1>0, AppendProperties
  <2>4. DOMAIN exts' = 1..(Len(exts) + 1)
    BY <2>3
  <2>5. Grows(exts, exts')
    BY <2>3, <1>0 DEF Grows
  <2>6. \A i \in DOMAIN exts' :
          \/ i \in DOMAIN exts
          \/ i = Len(exts) + 1 /\ exts'[i].sender = t.sender /\ ~exts'[i].machine
    BY <2>2, <2>3, <2>4, <1>0
  <2>7. \A i \in DOMAIN exts : exts'[i].machine => exts'[i].version
    BY <2>3, <1>0 DEF Deployed
  <2> QED  BY <1>2, <2>2, <2>3, <2>5, <2>6, <2>7 DEF Flags
<1>3. CASE t.op = "governance"
  <2> DEFINE n == [exts[t.ext] EXCEPT !.governance = t.governance]
  <2>1. exts' = [exts EXCEPT ![t.ext] = n] /\ t.ext \in DOMAIN exts
    BY <1>3 DEF Apply, ExtOps
  <2>2. exts[t.ext] \in Ext /\ t.governance \in Rules
    BY <1>0, <2>1 DEF Tx
  <2>3. /\ n \in Ext /\ n.sender = exts[t.ext].sender /\ n.owner = exts[t.ext].owner
        /\ n.project = exts[t.ext].project /\ n.key = exts[t.ext].key
        /\ n.version = exts[t.ext].version /\ n.machine = exts[t.ext].machine
    BY <2>2, GovernanceSet
  <2> HIDE DEF n
  <2>4. /\ exts' \in Seq(Ext) /\ Len(exts') = Len(exts) /\ DOMAIN exts' = DOMAIN exts
        /\ \A i \in DOMAIN exts : exts'[i] = IF i = t.ext THEN n ELSE exts[i]
    BY <2>1, <2>3, <1>0, ExceptSeq
  <2>5. Grows(exts, exts')
    BY <2>3, <2>4, <1>0 DEF Grows
  <2>6. \A i \in DOMAIN exts : exts'[i].machine => exts'[i].version
    BY <2>3, <2>4 DEF Deployed
  <2> QED  BY <1>3, <2>4, <2>5, <2>6 DEF Flags
<1>4. CASE t.op \in Flags
  <2> DEFINE f == t.op
             n == [exts[t.ext] EXCEPT ![f] = TRUE]
  <2>1. exts' = [exts EXCEPT ![t.ext] = n] /\ t.ext \in DOMAIN exts
    BY <1>4 DEF Apply, ExtOps, Flags
  <2>2. exts[t.ext] \in Ext /\ f \in Flags /\ n = [exts[t.ext] EXCEPT ![f] = TRUE]
    BY <1>0, <1>4, <2>1
  <2> HIDE DEF n, f
  <2>3. n \in Ext /\ WithFlag(n, exts[t.ext], f)
    BY <2>2, FlagSet
  <2>4. /\ exts' \in Seq(Ext) /\ Len(exts') = Len(exts) /\ DOMAIN exts' = DOMAIN exts
        /\ \A i \in DOMAIN exts : exts'[i] = IF i = t.ext THEN n ELSE exts[i]
    BY <2>1, <2>3, <1>0, ExceptSeq
  <2>5. Grows(exts, exts')
    BY <2>3, <2>4, <1>0 DEF Grows, WithFlag
  <2>6. \A i \in DOMAIN exts : exts'[i].machine => exts'[i].version
    <3>1. f = "machine" => exts[t.ext].version
      BY DEF Accepted, f
    <3>2. n.machine => n.version
      BY <3>1, <2>1, <2>3 DEF Deployed, WithFlag
    <3> QED  BY <3>2, <2>4 DEF Deployed
  <2> QED  BY <1>4, <2>1, <2>3, <2>4, <2>5, <2>6 DEF Flags, WithFlag, f
<1> QED  BY <1>1, <1>2, <1>3, <1>4 DEF Tx, Ops, ExtOps, Flags
-----------------------------------------------------------------------------
(* Counting what is pending.                                               *)

(* There are finitely many registrations among what is pending.            *)
LEMMA RegistrationsFinite ==
  ASSUME NEW q \in Seq(Tx)
  PROVE  IsFiniteSet(Registrations(q)) /\ Cardinality(Registrations(q)) \in Nat
<1>1. Registrations(q) \in SUBSET (1..Len(q)) /\ Len(q) \in Nat
  BY DEF Registrations
<1>2. IsFiniteSet(1..Len(q))
  BY <1>1, FS_Interval
<1>3. IsFiniteSet(Registrations(q))
  BY <1>1, <1>2, FS_Subset
<1> QED  BY <1>3, FS_CardinalityType

(* A transaction that is sent is one more, if it is a registration.        *)
LEMMA OneMore ==
  ASSUME NEW q \in Seq(Tx), NEW t \in Tx
  PROVE  Cardinality(Registrations(Append(q, t))) =
           Cardinality(Registrations(q)) + (IF t.op = "register" THEN 1 ELSE 0)
<1>1. /\ Append(q, t) \in Seq(Tx) /\ Len(Append(q, t)) = Len(q) + 1 /\ Len(q) \in Nat
      /\ \A i \in 1..Len(q) : Append(q, t)[i] = q[i]
      /\ Append(q, t)[Len(q) + 1] = t
  BY AppendProperties
<1>2. DOMAIN q = 1..Len(q) /\ DOMAIN Append(q, t) = 1..(Len(q) + 1)
  BY <1>1
<1>3. CASE t.op = "register"
  <2>1. Registrations(Append(q, t)) = Registrations(q) \cup {Len(q) + 1}
    BY <1>1, <1>2, <1>3 DEF Registrations
  <2>2. Len(q) + 1 \notin Registrations(q)
    BY <1>1, <1>2 DEF Registrations
  <2>3. Cardinality(Registrations(q) \cup {Len(q) + 1}) = Cardinality(Registrations(q)) + 1
    BY <2>2, RegistrationsFinite, FS_AddElement
  <2> QED  BY <1>3, <2>1, <2>3
<1>4. CASE t.op # "register"
  <2>1. Registrations(Append(q, t)) = Registrations(q)
    BY <1>1, <1>2, <1>4 DEF Registrations
  <2> QED  BY <1>4, <2>1, RegistrationsFinite
<1> QED  BY <1>3, <1>4

(* One that is mined is one less.                                          *)
LEMMA OneLess ==
  ASSUME NEW q \in Seq(Tx), q # <<>>
  PROVE  Cardinality(Registrations(Tail(q)))
           + (IF Head(q).op = "register" THEN 1 ELSE 0) <= Cardinality(Registrations(q))
<1>1. /\ Tail(q) \in Seq(Tx) /\ Len(Tail(q)) = Len(q) - 1 /\ Len(q) \in Nat /\ Len(q) >= 1
      /\ \A i \in 1..Len(Tail(q)) : Tail(q)[i] = q[i + 1]
  BY HeadTailProperties, EmptySeq
<1>2. DOMAIN q = 1..Len(q) /\ DOMAIN Tail(q) = 1..(Len(q) - 1) /\ Head(q) = q[1]
  BY <1>1
<1> DEFINE S == Registrations(Tail(q))
           T == Registrations(q) \ {1}
           f == [i \in S |-> i + 1]
<1>3. \A i \in S : i + 1 \in T /\ i \in Nat
  BY <1>1, <1>2 DEF Registrations
<1>4. f \in Injection(S, T)
  <2>1. f \in [S -> T]
    BY <1>3
  <2>2. \A a, b \in S : f[a] = f[b] => a = b
    BY <1>3
  <2> QED  BY <2>1, <2>2, Fun_IsInj
<1>5. IsFiniteSet(Registrations(q)) /\ Cardinality(Registrations(q)) \in Nat
  BY RegistrationsFinite
<1>6. /\ IsFiniteSet(T)
      /\ Cardinality(T) = IF 1 \in Registrations(q) THEN Cardinality(Registrations(q)) - 1
                          ELSE Cardinality(Registrations(q))
  BY <1>5, FS_RemoveElement
<1>7. Cardinality(S) <= Cardinality(T)
  BY <1>4, <1>6, FS_Injection
<1>8. Head(q).op = "register" <=> 1 \in Registrations(q)
  BY <1>1, <1>2 DEF Registrations
<1>9. Cardinality(S) \in Nat
  BY <1>1, RegistrationsFinite
<1> HIDE DEF S, T, f
<1>10. Cardinality(S) + (IF Head(q).op = "register" THEN 1 ELSE 0) <= Cardinality(Registrations(q))
  BY <1>5, <1>6, <1>7, <1>8, <1>9
<1> QED  BY <1>10 DEF S
-----------------------------------------------------------------------------
(* Steps of every kind.                                                    *)

(* Of a run that is over nothing is claimed.                               *)
LEMMA IdleRun ==
  ASSUME NEW x, NEW c, NEW q, NEW file, NEW server, NEW n
  PROVE  Idle \in Run /\ RunInv(Idle, x, c, q, file, server, n)
<1>1. Idle \in Run
  BY DEF Idle, Run, Tools, Someone, Rules
<1>2. Idle.tool = "none" /\ Idle.ext = 0
  BY DEF Idle
<1> QED  BY <1>1, <1>2 DEF RunInv, Registered, Unregistered, Secured, Verified, Spare,
                           Registering, Fresh

(* What the run alone changes leaves the rest as it is.                    *)
LEMMA WorldStays ==
  ASSUME WorldInv, UNCHANGED <<pending, code, exts, bound>>,
         sent'.deploys = sent.deploys, sent'.registers = sent.registers,
         Filed', Reported', Remembered'
  PROVE  WorldInv'
<1>1. Deployed' /\ Queued' /\ Counted' /\ BoundFirst'
  BY DEF WorldInv, Deployed, Queued, Counted, BoundFirst
<1> QED  BY <1>1 DEF WorldInv

(* A step of the run alone leaves the invariant of all else.               *)
LEMMA OutsideStays ==
  ASSUME Typed, WorldInv, UNCHANGED <<outside, env, tee>>, run' \in Run
  PROVE  Typed' /\ WorldInv'
<1>1. UNCHANGED <<strict, pending, code, exts, bound, sent, report, settled, setup, env, tee>>
  BY DEF outside
<1>2. Filed' /\ Reported' /\ Remembered'
  BY <1>1 DEF WorldInv, Filed, Reported, Remembered, CleanReport
<1>3. WorldInv'
  BY <1>1, <1>2, WorldStays
<1>4. Typed'
  BY <1>1 DEF Typed
<1> QED  BY <1>3, <1>4

(* A tool that is over leaves nothing to prove of its run.                 *)
LEMMA OverKeeps ==
  ASSUME run' = Idle
  PROVE  /\ run' \in Run /\ Placed' /\ Waiting'
         /\ RunInv(run, exts, code, pending, env, tee, sent)'
<1>1. run' \in Run /\ RunInv(run', exts', code', pending', env', tee', sent')
  BY IdleRun
<1>2. Placed' /\ Waiting'
  BY DEF Placed, Waiting, Idle
<1> QED  BY <1>1, <1>2

(* A tool that fails, or is killed, keeps the invariant.                   *)
LEMMA FailKeeps ==
  ASSUME DeploymentInv, Fail
  PROVE  DeploymentInv'
<1>1. run' = Idle /\ UNCHANGED <<outside, env, tee>>
  BY DEF Fail
<1>2. /\ run' \in Run /\ Placed' /\ Waiting'
      /\ RunInv(run, exts, code, pending, env, tee, sent)'
  BY <1>1, OverKeeps
<1>3. Typed' /\ WorldInv'
  BY <1>1, <1>2, OutsideStays DEF DeploymentInv
<1> QED  BY <1>2, <1>3 DEF DeploymentInv

Moved(r) == [r EXCEPT !.at = r.at + 1]

(* A step forward changes the place of a run and nothing else of it.       *)
LEMMA Moves ==
  ASSUME NEW r \in Run, r.at \in 1..Length(r.tool)
  PROVE  /\ r.at = Length(r.tool) => AfterStep(r) = Idle
         /\ r.at # Length(r.tool) => AfterStep(r) = Moved(r)
         /\ Moved(r) \in Run
         /\ Moved(r).at = r.at + 1 /\ Moved(r).tool = r.tool /\ Moved(r).waits = r.waits
         /\ Moved(r).sender = r.sender /\ Moved(r).ext = r.ext
         /\ Moved(r).counter = r.counter /\ Moved(r).skipped = r.skipped
         /\ Moved(r).results = r.results /\ Moved(r).step = r.step
         /\ Moved(r).config = r.config /\ Moved(r).governance = r.governance
<1>1. AfterStep(r) = IF r.at = Length(r.tool) THEN Idle ELSE Moved(r)
  BY After DEF Moved
<1>2. /\ Moved(r) \in Run
      /\ Moved(r).at = r.at + 1 /\ Moved(r).tool = r.tool /\ Moved(r).waits = r.waits
      /\ Moved(r).sender = r.sender /\ Moved(r).ext = r.ext
      /\ Moved(r).counter = r.counter /\ Moved(r).skipped = r.skipped
      /\ Moved(r).results = r.results /\ Moved(r).step = r.step
      /\ Moved(r).config = r.config /\ Moved(r).governance = r.governance
  BY DEF Moved, Run
<1> QED  BY <1>1, <1>2

(* Every tool has a number of steps.                                       *)
LEMMA LengthsPositive ==
  ASSUME NEW tool \in Tools
  PROVE  Length(tool) \in Nat
BY DEF Tools, Length

(* The next step of the run, of which only it can disturb anything.        *)
LEMMA StepKeeps ==
  ASSUME NEW r \in Run, r.at \in 1..Length(r.tool), ~r.waits,
         run' = AfterStep(r),
         r.at # Length(r.tool) => RunInv(Moved(r), exts', code', pending', env', tee', sent')
  PROVE  /\ run' \in Run /\ Placed' /\ Waiting'
         /\ RunInv(run, exts, code, pending, env, tee, sent)'
<1>1. CASE r.at = Length(r.tool)
  BY <1>1, Moves, OverKeeps
<1>2. CASE r.at # Length(r.tool)
  <2>1. run' = Moved(r) /\ run' \in Run
    BY <1>2, Moves
  <2>2. run'.tool = r.tool /\ run'.at = r.at + 1 /\ run'.waits = r.waits /\ r.tool \in Tools
        /\ r.at \in Nat
    BY <2>1, Moves DEF Run
  <2>3. run'.tool # "none" /\ run'.at \in 1..Length(run'.tool)
    <3>1. r.tool # "none"
      BY DEF Length
    <3>2. Length(r.tool) \in Nat
      BY <2>2, LengthsPositive
    <3> QED  BY <1>2, <2>2, <3>1, <3>2
  <2>4. Placed'
    BY <2>2, <2>3, StepPlaces DEF Placed
  <2>5. Waiting'
    BY <2>2 DEF Waiting
  <2> QED  BY <1>2, <2>1, <2>4, <2>5
<1> QED  BY <1>1, <1>2

(* A tool that goes on to its next step, and changes nothing else.         *)
LEMMA AdvanceKeeps ==
  ASSUME DeploymentInv, NEW r \in Run, Advance(r), r.at \in 1..Length(r.tool), ~r.waits,
         r.at # Length(r.tool) => RunInv(Moved(r), exts, code, pending, env, tee, sent)
  PROVE  DeploymentInv'
<1>1. run' = AfterStep(r) /\ UNCHANGED <<outside, env, tee>>
  BY DEF Advance
<1>2. UNCHANGED <<exts, code, pending, env, tee, sent>>
  BY <1>1 DEF outside
<1>3. r.at # Length(r.tool) => RunInv(Moved(r), exts', code', pending', env', tee', sent')
  BY <1>2
<1>4. /\ run' \in Run /\ Placed' /\ Waiting'
      /\ RunInv(run, exts, code, pending, env, tee, sent)'
  BY <1>1, <1>3, StepKeeps
<1>5. Typed' /\ WorldInv'
  BY <1>1, <1>4, OutsideStays DEF DeploymentInv
<1> QED  BY <1>4, <1>5 DEF DeploymentInv
-----------------------------------------------------------------------------
(* Steps that send nothing, on the way to a served extension.              *)

(* Where a run is that is about to take a step.                            *)
LEMMA AtStep ==
  ASSUME DeploymentInv, NEW step, step # "none", At(step)
  PROVE  /\ run \in Run /\ run.at \in Nat /\ run.at \in 1..Length(run.tool) /\ ~run.waits
         /\ run.tool # "none"
         /\ PlacesOf(run.tool, run.at, step)
<1>1. Step = step /\ ~run.waits
  BY DEF At
<1>2. run \in Run
  BY DEF DeploymentInv, Typed
<1> QED  BY <1>1, <1>2, Place DEF DeploymentInv

(* deploy-contract's checks before it deploys.                             *)
LEMMA PreflightKeeps ==
  ASSUME DeploymentInv, Preflight
  PROVE  DeploymentInv'
<1>1. At("preflight") /\ (Advance(run) \/ Fail)
  BY DEF Preflight
<1>2. CASE Advance(run)
  <2>1. /\ run \in Run /\ run.at \in 1..Length(run.tool) /\ ~run.waits
        /\ run.tool \in Fresh /\ run.at = 1
    <3>1. /\ run \in Run /\ run.at \in 1..Length(run.tool) /\ ~run.waits
          /\ PlacesOf(run.tool, run.at, "preflight")
      BY <1>1, AtStep
    <3> QED  BY <3>1 DEF PlacesOf
  <2>2. Moved(run).tool = run.tool /\ Moved(run).at = 2 /\ ~Moved(run).waits
        /\ Moved(run).ext = run.ext /\ Moved(run).sender = run.sender
    BY <2>1, Moves
  <2>3. RunInv(run, exts, code, pending, env, tee, sent)
    BY DEF DeploymentInv
  <2>4. RunInv(Moved(run), exts, code, pending, env, tee, sent)
    BY <2>1, <2>2, <2>3
       DEF RunInv, Registered, Unregistered, Secured, Verified, Spare, Stage, Fresh, Registering
  <2> QED  BY <1>2, <2>1, <2>4, AdvanceKeeps
<1> QED  BY <1>1, <1>2, FailKeeps

(* The check that the sender is deployed: what Registered begins with.     *)
LEMMA CheckCodeKeeps ==
  ASSUME DeploymentInv, CheckCode
  PROVE  DeploymentInv'
<1>1. At("code") /\ (Fail \/ (run.sender \in code /\ Advance(run)))
  BY DEF CheckCode
<1>2. CASE run.sender \in code /\ Advance(run)
  <2>1. /\ run \in Run /\ run.at \in 1..Length(run.tool) /\ ~run.waits
        /\ run.tool \in Registering /\ Stage(run) = 3
    <3>1. /\ run \in Run /\ run.at \in 1..Length(run.tool) /\ ~run.waits
          /\ PlacesOf(run.tool, run.at, "code")
      BY <1>1, AtStep
    <3> QED  BY <3>1 DEF PlacesOf, Stage, Registering, Fresh
  <2>2. /\ Moved(run).tool = run.tool /\ Moved(run).at = run.at + 1 /\ ~Moved(run).waits
        /\ Moved(run).ext = run.ext /\ Moved(run).sender = run.sender
        /\ Stage(Moved(run)) = 4
    BY <2>1, Moves DEF Stage
  <2>3. RunInv(run, exts, code, pending, env, tee, sent)
    BY DEF DeploymentInv
  <2>4. RunInv(Moved(run), exts, code, pending, env, tee, sent)
    <3>1. Registered(Moved(run), exts, code)
      BY <1>2, <2>2 DEF Registered
    <3>2. run.tool \in Fresh => run.at = 3 /\ Moved(run).at = 4
      BY <2>1, <2>2 DEF Stage, Fresh
    <3>3. Unregistered(Moved(run), exts, pending)
      BY <2>1, <2>2, <2>3, <3>2 DEF RunInv, Unregistered
    <3>4. Secured(Moved(run), exts, env, tee) /\ Verified(Moved(run), exts, env)
      BY <2>1, <2>2, <2>3, <3>2 DEF RunInv, Secured, Verified, Registering, Fresh
    <3>5. Spare(Moved(run), sent)
      BY <2>1, <2>2, <2>3, <3>2 DEF RunInv, Spare
    <3> QED  BY <3>1, <3>3, <3>4, <3>5 DEF RunInv
  <2> QED  BY <1>2, <2>1, <2>4, AdvanceKeeps
<1> QED  BY <1>1, <1>2, FailKeeps

(* What the run looks for is there, whoever has set it.                    *)
LEMMA AllowedKeeps ==
  ASSUME DeploymentInv, NEW step \in {"owner", "project", "key"}, At(step), Advance(run),
         step = "owner" => exts[run.ext].owner,
         step = "project" => exts[run.ext].project,
         step = "key" => exts[run.ext].key
  PROVE  DeploymentInv'
<1> DEFINE m == Moved(run)
<1>1. /\ run \in Run /\ run.at \in Nat /\ run.at \in 1..Length(run.tool) /\ ~run.waits
      /\ run.tool \in Registering /\ PlacesOf(run.tool, run.at, step)
  <2>1. /\ run \in Run /\ run.at \in Nat /\ run.at \in 1..Length(run.tool) /\ ~run.waits
        /\ PlacesOf(run.tool, run.at, step)
    BY AtStep
  <2> QED  BY <2>1 DEF PlacesOf
<1>2. Stage(run) = CASE step = "owner" -> 5 [] step = "project" -> 6 [] step = "key" -> 7
  BY <1>1 DEF PlacesOf, Stage, Registering, Fresh
<1>3. /\ m.tool = run.tool /\ m.at = run.at + 1 /\ ~m.waits
      /\ m.ext = run.ext /\ m.sender = run.sender /\ Stage(m) = Stage(run) + 1
  BY <1>1, Moves DEF Stage
<1>4. RunInv(run, exts, code, pending, env, tee, sent)
  BY DEF DeploymentInv
<1> HIDE DEF m
<1>5. Registered(m, exts, code)
  BY <1>1, <1>2, <1>3, <1>4 DEF RunInv, Registered
<1>6. run.tool \in Fresh => run.at = Stage(run) /\ m.at \in 6..8 /\ run.at \in 5..7
  BY <1>2, <1>3 DEF Stage, Fresh
<1>7. Secured(m, exts, env, tee)
  BY <1>1, <1>3, <1>4, <1>6 DEF RunInv, Secured, Fresh, Registering
<1>8. Unregistered(m, exts, pending) /\ Verified(m, exts, env) /\ Spare(m, sent)
  BY <1>1, <1>2, <1>3, <1>6 DEF Unregistered, Verified, Spare, Registering, Fresh
<1>9. RunInv(m, exts, code, pending, env, tee, sent)
  BY <1>5, <1>7, <1>8 DEF RunInv
<1> QED  BY <1>1, <1>9, AdvanceKeeps DEF m

(* So it is with the TEE's version, its governance and its machine.        *)
LEMMA ServedKeeps ==
  ASSUME DeploymentInv, NEW step \in {"version", "governance", "machine"}, At(step),
         Advance(run), step = "machine" => exts[tee.ext].machine
  PROVE  DeploymentInv'
<1> DEFINE m == Moved(run)
<1>1. /\ run \in Run /\ run.at \in Nat /\ run.at \in 1..Length(run.tool) /\ ~run.waits
      /\ run.tool \in Building /\ PlacesOf(run.tool, run.at, step)
  <2>1. /\ run \in Run /\ run.at \in Nat /\ run.at \in 1..Length(run.tool) /\ ~run.waits
        /\ PlacesOf(run.tool, run.at, step)
    BY AtStep
  <2> QED  BY <2>1 DEF PlacesOf
<1>2. run.tool = "full-setup" =>
        run.at = CASE step = "version" -> 10 [] step = "governance" -> 11 [] step = "machine" -> 12
  BY <1>1 DEF PlacesOf
<1>3. /\ m.tool = run.tool /\ m.at = run.at + 1 /\ ~m.waits
      /\ m.ext = run.ext /\ m.sender = run.sender
  BY <1>1, Moves
<1>4. RunInv(run, exts, code, pending, env, tee, sent)
  BY DEF DeploymentInv
<1> HIDE DEF m
<1>5. Registered(m, exts, code)
  BY <1>1, <1>2, <1>3, <1>4 DEF RunInv, Registered, Stage, Registering, Fresh, Building
<1>6. Secured(m, exts, env, tee)
  BY <1>1, <1>2, <1>3, <1>4 DEF RunInv, Secured, Fresh, Building
<1>7. Unregistered(m, exts, pending) /\ Verified(m, exts, env) /\ Spare(m, sent)
  BY <1>1, <1>2, <1>3 DEF Unregistered, Verified, Spare, Registering, Fresh, Stage, Building
<1>8. RunInv(m, exts, code, pending, env, tee, sent)
  BY <1>5, <1>6, <1>7 DEF RunInv
<1> QED  BY <1>1, <1>8, AdvanceKeeps DEF m
-----------------------------------------------------------------------------
(* A transaction that is sent.                                             *)

Sent(n, op) ==
  [n EXCEPT !.deploys = @ + (IF op = "deploy" THEN 1 ELSE 0),
            !.registers = @ + (IF op = "register" THEN 1 ELSE 0)]

(* Where the queue's new last transaction leaves the world.                *)
LEMMA SendWorld ==
  ASSUME DeploymentInv, NEW t \in Tx,
         pending' = Append(pending, t), sent' = Sent(sent, t.op), run' \in Run,
         UNCHANGED <<strict, code, exts, bound, env, tee, report, settled, setup>>,
         t.ext \in DOMAIN exts \cup {0},
         t.op \in ExtOps => t.ext \in DOMAIN exts,
         t.op = "deploy" => t.sender = sent.deploys + 1 /\ sent.deploys < MaxSenders,
         t.op = "register" => t.sender \in code /\ sent.registers < MaxExts,
         t.op = "bind" => t.sender \in Senders
  PROVE  Typed' /\ WorldInv'
<1>1. pending \in Seq(Tx) /\ sent \in [deploys : Nat, registers : Nat, tools : Nat]
      /\ exts \in Seq(Ext) /\ Len(exts) \in Nat
  BY DEF DeploymentInv, Typed
<1>2. /\ sent' \in [deploys : Nat, registers : Nat, tools : Nat]
      /\ sent'.deploys = sent.deploys + (IF t.op = "deploy" THEN 1 ELSE 0)
      /\ sent'.registers = sent.registers + (IF t.op = "register" THEN 1 ELSE 0)
  <2> DEFINE a == IF t.op = "deploy" THEN 1 ELSE 0
             b == IF t.op = "register" THEN 1 ELSE 0
  <2>1. a \in Nat /\ b \in Nat
    OBVIOUS
  <2>2. sent' = [sent EXCEPT !.deploys = sent.deploys + a, !.registers = sent.registers + b]
    BY DEF Sent
  <2> HIDE DEF a, b
  <2>3. sent.deploys + a \in Nat /\ sent.registers + b \in Nat
    BY <1>1, <2>1
  <2>4. sent' \in [deploys : Nat, registers : Nat, tools : Nat]
    BY <1>1, <2>2, <2>3
  <2>5. sent'.deploys = sent.deploys + a /\ sent'.registers = sent.registers + b
    BY <1>1, <2>2
  <2> QED  BY <2>4, <2>5 DEF a, b
<1>3. /\ pending' \in Seq(Tx) /\ Len(pending') = Len(pending) + 1
      /\ \A i \in 1..Len(pending) : pending'[i] = pending[i]
      /\ pending'[Len(pending) + 1] = t
      /\ DOMAIN pending = 1..Len(pending) /\ DOMAIN pending' = 1..(Len(pending) + 1)
      /\ Len(pending) \in Nat
  BY <1>1, AppendProperties
<1>4. Typed'
  BY <1>2, <1>3 DEF DeploymentInv, Typed
<1>5. {MaxSenders, MaxExts} \subseteq Nat
  BY DeploymentAssumption
<1>6. Deployed'
  <2>1. Deployed
    BY DEF DeploymentInv, WorldInv
  <2> QED  BY <1>1, <1>2, <2>1 DEF Deployed
<1>7. Queued'
  <2>1. Queued
    BY DEF DeploymentInv, WorldInv
  <2>2. ASSUME NEW i \in 1..Len(pending)
        PROVE  LET u == pending[i] IN
               /\ u.ext \in DOMAIN exts \cup {0}
               /\ u.op \in ExtOps => u.ext \in DOMAIN exts
               /\ u.op = "deploy" => u.sender \in 1..sent'.deploys
               /\ u.op = "register" => u.sender \in code
               /\ u.op = "bind" => u.sender \in Senders
    <3>1. i \in DOMAIN pending
      BY <1>3
    <3>2. 1..sent.deploys \subseteq 1..sent'.deploys
      BY <1>1, <1>2
    <3> QED  BY <2>1, <3>1, <3>2 DEF Queued
  <2>3. t.op = "deploy" => t.sender \in 1..sent'.deploys
    BY <1>1, <1>2
  <2> QED  BY <1>3, <2>2, <2>3 DEF Queued
<1>8. Counted'
  <2>1. Counted
    BY DEF DeploymentInv, WorldInv
  <2>2. Cardinality(Registrations(pending')) =
          Cardinality(Registrations(pending)) + (IF t.op = "register" THEN 1 ELSE 0)
    BY <1>1, OneMore
  <2>3. Cardinality(Registrations(pending)) \in Nat
    BY <1>1, RegistrationsFinite
  <2>4. Len(exts) + Cardinality(Registrations(pending')) <= sent'.registers
    BY <1>1, <1>2, <2>1, <2>2, <2>3 DEF Counted
  <2>5. sent'.registers <= MaxExts /\ sent'.deploys <= MaxSenders
    BY <1>1, <1>2, <1>5, <2>1 DEF Counted
  <2> QED  BY <2>4, <2>5 DEF Counted
<1>9. BoundFirst' /\ Filed' /\ Reported' /\ Remembered'
  BY DEF DeploymentInv, WorldInv, BoundFirst, Filed, Reported, Remembered, CleanReport
<1> QED  BY <1>4, <1>6, <1>7, <1>8, <1>9 DEF WorldInv

(* Whatever a tool sends; what it is has to be said by who sends it.       *)
LEMMA SendKeeps ==
  ASSUME DeploymentInv, NEW op \in Ops, NEW s \in Someone, NEW e \in Nat,
         At(op), Send(op, s, e),
         e \in DOMAIN exts \cup {0},
         op \in ExtOps => e \in DOMAIN exts /\ s = run.sender,
         op \in {"owner", "project", "key"} => e = run.ext,
         op \in {"version", "governance", "machine"} => e = tee.ext,
         op = "deploy" => s = sent.deploys + 1,
         op = "register" => s = run.sender,
         op = "bind" => s \in Senders
  PROVE  DeploymentInv'
<1> DEFINE t == [op |-> op, sender |-> s, ext |-> e,
                 governance |-> IF op = "machine" THEN tee.governance ELSE run.governance]
<1>1. Fail \/ /\ pending' = Append(pending, t)
              /\ sent' = Sent(sent, op)
              /\ run' = [run EXCEPT !.waits = TRUE, !.sender = s, !.ext = e]
              /\ UNCHANGED <<strict, code, exts, bound, env, tee, report, settled, setup>>
  BY DEF Send, Sent
<1>2. SUFFICES ASSUME pending' = Append(pending, t), sent' = Sent(sent, op),
                      run' = [run EXCEPT !.waits = TRUE, !.sender = s, !.ext = e],
                      UNCHANGED <<strict, code, exts, bound, env, tee, report, settled, setup>>
               PROVE  DeploymentInv'
  BY <1>1, FailKeeps
<1>3. /\ run \in Run /\ run.at \in Nat /\ run.at \in 1..Length(run.tool) /\ ~run.waits
      /\ PlacesOf(run.tool, run.at, op) /\ run.tool # "none"
  <2>1. op # "none"
    BY DEF Ops, ExtOps
  <2> QED  BY <2>1, AtStep
<1>4. t \in Tx /\ t.op = op /\ t.sender = s /\ t.ext = e
  <2>1. run.governance \in Rules /\ tee.governance \in Rules
    BY <1>3 DEF DeploymentInv, Typed, Run
  <2> QED  BY <2>1 DEF Tx
<1>5. /\ run' \in Run /\ run'.tool = run.tool /\ run'.at = run.at /\ run'.waits
      /\ run'.sender = s /\ run'.ext = e /\ run'.counter = run.counter
      /\ run'.results = run.results /\ run'.skipped = run.skipped
  BY <1>2, <1>3 DEF Run
<1> HIDE DEF t
<1>6. RunInv(run, exts, code, pending, env, tee, sent)
  BY DEF DeploymentInv
<1>7. /\ pending \in Seq(Tx) /\ Len(pending) \in Nat /\ DOMAIN pending = 1..Len(pending)
      /\ sent \in [deploys : Nat, registers : Nat, tools : Nat]
  BY DEF DeploymentInv, Typed
<1>8. op = "register" => s \in code /\ sent.registers < MaxExts
  BY <1>3, <1>6 DEF RunInv, Registered, Spare, PlacesOf, Stage, Registering, Fresh
<1>9. op = "deploy" => sent.deploys < MaxSenders
  BY <1>3, <1>6 DEF RunInv, Spare, PlacesOf
<1>10. Typed' /\ WorldInv'
  BY <1>2, <1>4, <1>5, <1>8, <1>9, SendWorld
<1>11. Placed'
  <2>1. Placed
    BY DEF DeploymentInv
  <2> QED  BY <1>3, <1>5, <2>1 DEF Placed
<1>12. /\ pending' # <<>> /\ Len(pending') = Len(pending) + 1
       /\ \A i \in 1..Len(pending) : pending'[i] = pending[i]
       /\ pending'[Len(pending')] = t /\ DOMAIN pending' = 1..(Len(pending) + 1)
  BY <1>2, <1>4, <1>7, AppendProperties
<1>13. Waiting'
  <2>1. Step' = op
    BY <1>5 DEF At, Step
  <2> QED  BY <1>4, <1>5, <1>12, <2>1 DEF Waiting
<1>14. Registered(run', exts', code')
  <2>1. Stage(run') = Stage(run)
    BY <1>5 DEF Stage
  <2>2. CASE op \in {"owner", "project", "key"}
    BY <1>2, <1>5, <1>6, <2>1, <2>2 DEF RunInv, Registered, ExtOps
  <2>3. CASE op = "register"
    <3>1. Stage(run) = 4
      BY <1>3, <2>3 DEF PlacesOf, Stage, Registering, Fresh
    <3> QED  BY <1>2, <1>5, <1>8, <2>1, <2>3, <3>1 DEF Registered
  <2>4. CASE op = "deploy"
    <3>1. Stage(run) = 2
      BY <1>3, <2>4 DEF PlacesOf, Stage, Fresh
    <3> QED  BY <1>5, <2>1, <3>1 DEF Registered
  <2>5. CASE op \in {"version", "governance", "machine"}
    <3>1. s = run.sender
      BY <2>5 DEF ExtOps
    <3>2. run.tool \in Registering => Stage(run) >= 10
      BY <1>3, <2>5 DEF PlacesOf, Stage, Registering, Fresh, Building
    <3>3. Stage(run) \in Nat
      BY <1>3 DEF Stage
    <3> QED  BY <1>2, <1>5, <1>6, <2>1, <3>1, <3>2, <3>3 DEF RunInv, Registered
  <2>6. CASE op = "bind"
    BY <1>3, <1>5, <2>6 DEF Registered, PlacesOf, Registering, Fresh
  <2> QED  BY <2>2, <2>3, <2>4, <2>5, <2>6 DEF Ops, ExtOps
<1>15. Unregistered(run', exts', pending')
  <2>1. CASE op = "deploy"
    <3>1. run.at = 2 /\ t.op # "register" /\ s = sent.deploys + 1
      BY <1>3, <1>4, <2>1 DEF PlacesOf
    <3>2. Deployed /\ Queued
      BY DEF DeploymentInv, WorldInv
    <3>3. \A c \in code : c # s
      BY <1>7, <3>1, <3>2 DEF Deployed
    <3>4. \A i \in DOMAIN exts : exts[i].sender # s
      BY <3>2, <3>3 DEF Deployed
    <3>5. \A i \in DOMAIN pending : pending[i].op = "register" => pending[i].sender # s
      BY <3>2, <3>3 DEF Queued
    <3>6. \A i \in DOMAIN pending' : pending'[i].op = "register" => pending'[i].sender # s
      BY <1>7, <1>12, <3>1, <3>5
    <3> QED  BY <1>2, <1>5, <3>4, <3>6 DEF Unregistered
  <2>2. CASE op = "register"
    <3>1. run.tool \in Fresh => run.at = 4
      BY <1>3, <2>2 DEF PlacesOf
    <3>2. run.tool \in Fresh =>
            /\ \A i \in DOMAIN exts : exts[i].sender # s
            /\ \A i \in DOMAIN pending : pending[i].op = "register" => pending[i].sender # s
      BY <1>3, <1>6, <2>2, <3>1 DEF RunInv, Unregistered
    <3>3. run.tool \in Fresh =>
            \A i \in DOMAIN pending' :
              pending'[i].op = "register" /\ pending'[i].sender = s => i = Len(pending')
      BY <1>7, <1>12, <3>2
    <3> QED  BY <1>2, <1>5, <3>1, <3>2, <3>3 DEF Unregistered
  <2>3. CASE op \notin {"deploy", "register"}
    <3>1. run.tool \in Fresh => run.at >= 5
      BY <1>3, <2>3 DEF PlacesOf, Ops, ExtOps, Fresh, Registering, Building
    <3> QED  BY <1>3, <1>5, <3>1 DEF Unregistered
  <2> QED  BY <2>1, <2>2, <2>3
<1>16. Secured(run', exts', env', tee')
  <2>1. CASE op \in {"owner", "project", "key"}
    <3>1. s = run.sender /\ e \in DOMAIN exts /\ e = run.ext
      BY <2>1 DEF ExtOps
    <3>2. run.tool \in Registering /\ (run.tool \in Fresh => run.at \in 5..7)
      BY <1>3, <2>1 DEF PlacesOf
    <3> QED  BY <1>2, <1>3, <1>5, <1>6, <3>1, <3>2 DEF RunInv, Secured, Registering, Fresh
  <2>2. CASE op = "register"
    <3>1. run.tool \in Registering /\ (run.tool \in Fresh => run.at = 4)
      BY <1>3, <2>2 DEF PlacesOf
    <3> QED  BY <1>2, <1>5, <1>3, <3>1 DEF Secured, Registering, Fresh
  <2>3. CASE op = "deploy"
    <3>1. run.tool \in Fresh /\ run.at = 2
      BY <1>3, <2>3 DEF PlacesOf
    <3> QED  BY <1>2, <1>5, <3>1 DEF Secured, Fresh
  <2>4. CASE op \in {"version", "governance", "machine"}
    <3>1. s = run.sender /\ e \in DOMAIN exts /\ e = tee.ext
      BY <2>4 DEF ExtOps
    <3>2. run.tool \in Fresh => run.at \in 10..12
      BY <1>3, <2>4 DEF PlacesOf, Fresh, Building
    <3> QED  BY <1>2, <1>3, <1>5, <1>6, <3>1, <3>2 DEF RunInv, Secured
  <2>5. CASE op = "bind"
    BY <1>2, <1>3, <1>5, <2>5 DEF Secured, PlacesOf, Fresh
  <2> QED  BY <2>1, <2>2, <2>3, <2>4, <2>5 DEF Ops, ExtOps
<1>17. Verified(run', exts', env')
  <2>1. run.tool # "verify-deploy"
    BY <1>3 DEF PlacesOf, Ops, ExtOps, Fresh, Registering, Building
  <2> QED  BY <1>5, <2>1 DEF Verified
<1>18. Spare(run', sent')
  <2>1. Stage(run') = Stage(run)
    BY <1>5 DEF Stage
  <2>2. sent'.registers = sent.registers + (IF op = "register" THEN 1 ELSE 0)
        /\ sent'.deploys = sent.deploys + (IF op = "deploy" THEN 1 ELSE 0)
    BY <1>2, <1>7 DEF Sent
  <2>3. CASE op = "deploy"
    <3>1. run.tool \in Fresh /\ run.at = 2 /\ run.tool \in Registering
      BY <1>3, <2>3 DEF PlacesOf, Registering
    <3>2. sent.registers < MaxExts /\ sent'.registers = sent.registers
      BY <1>3, <1>6, <1>7, <2>2, <2>3, <3>1 DEF RunInv, Spare, Stage, Fresh
    <3> QED  BY <1>5, <3>1, <3>2 DEF Spare
  <2>4. CASE op = "register"
    <3>1. Stage(run) = 4 /\ (run.tool \in Fresh => run.at = 4)
      BY <1>3, <2>4 DEF PlacesOf, Stage, Registering, Fresh
    <3> QED  BY <1>5, <2>1, <3>1 DEF Spare
  <2>5. CASE op \notin {"deploy", "register"}
    <3>1. run.tool \in Registering => Stage(run) >= 5
      BY <1>3, <2>5 DEF PlacesOf, Ops, ExtOps, Fresh, Registering, Building, Stage
    <3>2. run.tool \in Fresh => run.at >= 5
      BY <3>1 DEF Stage, Fresh, Registering
    <3>3. Stage(run) \in Nat /\ run.at \in Nat
      BY <1>3 DEF Stage
    <3> QED  BY <1>5, <2>1, <3>1, <3>2, <3>3 DEF Spare
  <2> QED  BY <2>3, <2>4, <2>5
<1> QED  BY <1>10, <1>11, <1>13, <1>14, <1>15, <1>16, <1>17, <1>18 DEF DeploymentInv, RunInv
-----------------------------------------------------------------------------
(* The steps that send, and those that write.                              *)

(* The parts of the invariant, by name.                                    *)
LEMMA RunTyped ==
  ASSUME DeploymentInv
  PROVE  /\ run \in Run /\ run.sender \in Someone /\ run.ext \in Nat
         /\ RunInv(run, exts, code, pending, env, tee, sent)
         /\ Typed /\ Placed /\ WorldInv /\ Waiting
BY DEF DeploymentInv, Typed, Run

(* A deployment takes a number that nobody has.                            *)
LEMMA DeployKeeps ==
  ASSUME DeploymentInv, DeployInstructionSender
  PROVE  DeploymentInv'
<1>1. At("deploy") /\ Send("deploy", sent.deploys + 1, 0)
  BY DEF DeployInstructionSender
<1>2. PlacesOf(run.tool, run.at, "deploy") /\ ~run.waits
  BY <1>1, AtStep
<1>3. sent.deploys \in Nat /\ sent.deploys < MaxSenders /\ MaxSenders \in Nat
  BY <1>2, RunTyped, DeploymentAssumption DEF RunInv, Spare, PlacesOf, Typed
<1>4. sent.deploys + 1 \in Someone
  BY <1>3 DEF Someone, Senders
<1> QED  BY <1>1, <1>4, SendKeeps DEF Ops, ExtOps

(* A registration is sent for a sender that has code.                      *)
LEMMA RegisterKeeps ==
  ASSUME DeploymentInv, RegisterExtension
  PROVE  DeploymentInv'
<1>1. At("register") /\ Send("register", run.sender, 0)
  BY DEF RegisterExtension
<1> QED  BY <1>1, RunTyped, SendKeeps DEF Ops, ExtOps

(* The calls that fill the lists of the extension just registered.         *)
LEMMA ListsKeep ==
  ASSUME DeploymentInv, AllowMachineOwner \/ AllowProjectOwner \/ SupportKeyType
  PROVE  DeploymentInv'
<1>1. PICK step \in {"owner", "project", "key"} :
        /\ At(step)
        /\ \/ /\ Advance(run)
              /\ step = "owner" => exts[run.ext].owner
              /\ step = "project" => exts[run.ext].project
              /\ step = "key" => exts[run.ext].key
           \/ Send(step, run.sender, run.ext)
  BY DEF AllowMachineOwner, AllowProjectOwner, SupportKeyType, SetOnce
<1>2. PlacesOf(run.tool, run.at, step) /\ run.at \in Nat
  BY <1>1, AtStep
<1>3. run.tool \in Registering /\ Stage(run) \in 5..7
  BY <1>2 DEF PlacesOf, Stage, Registering, Fresh
<1>4. run.ext \in DOMAIN exts
  BY <1>3, RunTyped DEF RunInv, Registered
<1> QED  BY <1>1, <1>4, RunTyped, AllowedKeeps, SendKeeps DEF Ops, ExtOps

(* post-build's calls, for the extension that the proxy names.             *)
LEMMA ServingKeeps ==
  ASSUME DeploymentInv, AllowTeeVersion \/ SetGovernance \/ RegisterMachine
  PROVE  DeploymentInv'
<1>1. PICK step \in {"version", "governance", "machine"} :
        /\ At(step)
        /\ \/ Advance(run) /\ (step = "machine" => exts[tee.ext].machine)
           \/ Send(step, run.sender, tee.ext)
  BY DEF AllowTeeVersion, SetGovernance, RegisterMachine, SetOnce
<1>2. PlacesOf(run.tool, run.at, step) /\ run.at \in Nat
  BY <1>1, AtStep
<1>3. run.tool = "post-build" \/ (run.tool = "full-setup" /\ run.at \in 10..12)
  BY <1>2 DEF PlacesOf, Building
<1>4. tee.ext \in DOMAIN exts
  BY <1>3, RunTyped DEF RunInv, Secured, First
<1>5. tee.ext \in Nat
  BY RunTyped DEF Typed
<1> QED  BY <1>1, <1>4, <1>5, RunTyped, ServedKeeps, SendKeeps DEF Ops, ExtOps

(* run-test's setExtensionId.                                              *)
LEMMA BindKeeps ==
  ASSUME DeploymentInv, SetExtensionId
  PROVE  DeploymentInv'
<1>1. At("bind") /\ \/ Fail \/ Advance(run)
                    \/ WellFormed(env.sender) /\ Send("bind", env.sender, 0)
  BY DEF SetExtensionId
<1>2. CASE Advance(run)
  <2>1. /\ PlacesOf(run.tool, run.at, "bind") /\ run \in Run /\ ~run.waits
        /\ run.at \in 1..Length(run.tool)
    BY <1>1, AtStep
  <2>2. run.at = Length(run.tool)
    BY <2>1 DEF PlacesOf, Length
  <2> QED  BY <1>2, <2>1, <2>2, AdvanceKeeps
<1>3. CASE WellFormed(env.sender) /\ Send("bind", env.sender, 0)
  <2>1. env.sender \in Senders
    BY <1>3, RunTyped DEF Typed, WellFormed, Unread
  <2> QED  BY <1>1, <1>3, <2>1, SendKeeps DEF Ops, ExtOps, Someone
<1> QED  BY <1>1, <1>2, <1>3, FailKeeps

(* A number is read as a number.                                           *)
LEMMA NotUnread == \A n \in Nat : WellFormed(n)
BY DeploymentAssumption DEF WellFormed

(* The file as pre-build or the operator writes it.                        *)
LEMMA FileWritten ==
  ASSUME DeploymentInv, run.tool \in Registering, Stage(run) = 8
  PROVE  LET f == EnvFile(run.ext, run.sender) IN
         /\ f \in [exists : BOOLEAN, id : Nat \cup Unread, sender : Senders \cup Unread,
                   edited : BOOLEAN]
         /\ f.id = run.ext /\ f.sender = run.sender /\ f.exists
         /\ f.id \in DOMAIN exts /\ Works(exts, code, f.id, f.sender)
<1>1. /\ run.ext \in DOMAIN exts /\ exts[run.ext].sender = run.sender /\ run.sender \in code
      /\ exts[run.ext].owner /\ exts[run.ext].project /\ exts[run.ext].key
  BY RunTyped DEF RunInv, Registered
<1>2. run.sender \in Senders /\ run.ext \in Nat
  BY <1>1, RunTyped DEF Typed
<1> QED  BY <1>1, <1>2 DEF EnvFile, Works

(* pre-build's file names what the run has registered; a torn one names    *)
(* nothing.                                                                *)
LEMMA WriteKeeps ==
  ASSUME DeploymentInv, WriteEnv
  PROVE  DeploymentInv'
<1>1. /\ At("write") /\ UNCHANGED <<outside, tee>>
      /\ \/ env' = EnvFile(run.ext, run.sender) /\ run' = AfterStep(run)
         \/ env' = EmptyEnvFile /\ run' = Idle
  BY DEF WriteEnv
<1>2. UNCHANGED <<strict, pending, code, exts, bound, sent, report, settled, setup, tee>>
  BY <1>1 DEF outside
<1>3. /\ PlacesOf(run.tool, run.at, "write") /\ run \in Run /\ ~run.waits
      /\ run.at \in 1..Length(run.tool) /\ run.at \in Nat
  BY <1>1, AtStep
<1>4. run.tool \in Fresh /\ run.at = 8 /\ run.tool \in Registering /\ Stage(run) = 8
  BY <1>3 DEF PlacesOf, Fresh, Registering, Stage
<1>5. Reported' /\ Remembered'
  BY <1>2, RunTyped DEF WorldInv, Reported, Remembered, CleanReport
<1>6. CASE env' = EnvFile(run.ext, run.sender) /\ run' = AfterStep(run)
  <2>1. /\ env' \in [exists : BOOLEAN, id : Nat \cup Unread, sender : Senders \cup Unread,
                     edited : BOOLEAN]
        /\ env'.id = run.ext /\ env'.sender = run.sender /\ env'.exists
        /\ env'.id \in DOMAIN exts /\ Works(exts, code, env'.id, env'.sender)
    BY <1>4, <1>6, FileWritten
  <2>2. Filed'
    BY <1>2, <2>1, RunTyped DEF WorldInv, Filed
  <2>3. WorldInv'
    BY <1>2, <1>5, <2>2, RunTyped, WorldStays
  <2>4. ASSUME run.at # Length(run.tool)
        PROVE  RunInv(Moved(run), exts', code', pending', env', tee', sent')
    <3>1. run.tool = "full-setup"
      BY <1>4, <2>4 DEF Fresh, Length
    <3>2. /\ Moved(run).tool = run.tool /\ Moved(run).at = 9 /\ ~Moved(run).waits
          /\ Moved(run).ext = run.ext /\ Moved(run).sender = run.sender
          /\ Stage(Moved(run)) = 9
      BY <1>3, <1>4, <3>1, Moves DEF Stage
    <3>3. Registered(Moved(run), exts', code')
      BY <1>2, <1>4, <3>2, RunTyped DEF RunInv, Registered
    <3>4. Secured(Moved(run), exts', env', tee')
      BY <1>2, <1>4, <2>1, <3>1, <3>2, RunTyped DEF RunInv, Secured
    <3>5. Unregistered(Moved(run), exts', pending') /\ Verified(Moved(run), exts', env')
          /\ Spare(Moved(run), sent')
      BY <3>1, <3>2 DEF Unregistered, Verified, Spare
    <3> QED  BY <3>3, <3>4, <3>5 DEF RunInv
  <2>5. /\ run' \in Run /\ Placed' /\ Waiting'
        /\ RunInv(run, exts, code, pending, env, tee, sent)'
    BY <1>3, <1>6, <2>4, StepKeeps
  <2>6. Typed'
    BY <1>2, <2>1, <2>5, RunTyped DEF Typed
  <2> QED  BY <2>3, <2>5, <2>6 DEF DeploymentInv
<1>7. CASE env' = EmptyEnvFile /\ run' = Idle
  <2>1. /\ env' \in [exists : BOOLEAN, id : Nat \cup Unread, sender : Senders \cup Unread,
                     edited : BOOLEAN]
        /\ env'.id = Absent
    BY <1>7 DEF EmptyEnvFile, NoEnvFile, Unread
  <2>2. Filed'
    BY <1>2, <2>1, RunTyped DEF WorldInv, Filed, WellFormed, Unread
  <2>3. WorldInv'
    BY <1>2, <1>5, <2>2, RunTyped, WorldStays
  <2>4. /\ run' \in Run /\ Placed' /\ Waiting'
        /\ RunInv(run, exts, code, pending, env, tee, sent)'
    BY <1>7, OverKeeps
  <2>5. Typed'
    BY <1>2, <2>1, <2>4, RunTyped DEF Typed
  <2> QED  BY <2>3, <2>4, <2>5 DEF DeploymentInv
<1> QED  BY <1>1, <1>6, <1>7

(* The id that register-extension prints is of an extension that works.    *)
LEMMA PrintKeeps ==
  ASSUME DeploymentInv, PrintId
  PROVE  DeploymentInv'
<1>1. /\ At("print") /\ UNCHANGED <<outside, tee>> /\ run' = Idle
      /\ env' = env \/ env' = EnvFile(run.ext, run.sender)
  BY DEF PrintId
<1>2. UNCHANGED <<strict, pending, code, exts, bound, sent, report, settled, setup, tee>>
  BY <1>1 DEF outside
<1>3. PlacesOf(run.tool, run.at, "print")
  BY <1>1, AtStep
<1>4. run.tool \in Registering /\ Stage(run) = 8
  BY <1>3 DEF PlacesOf, Registering, Stage
<1>5. Reported' /\ Remembered'
  BY <1>2, RunTyped DEF WorldInv, Reported, Remembered, CleanReport
<1>6. /\ env' \in [exists : BOOLEAN, id : Nat \cup Unread, sender : Senders \cup Unread,
                   edited : BOOLEAN]
      /\ Filed'
  <2>1. CASE env' = env
    BY <1>2, <2>1, RunTyped DEF WorldInv, Filed, Typed
  <2>2. CASE env' = EnvFile(run.ext, run.sender)
    <3>1. /\ env' \in [exists : BOOLEAN, id : Nat \cup Unread, sender : Senders \cup Unread,
                       edited : BOOLEAN]
          /\ env'.id \in DOMAIN exts /\ Works(exts, code, env'.id, env'.sender) /\ env'.exists
      BY <1>4, <2>2, FileWritten
    <3> QED  BY <1>2, <3>1, RunTyped DEF WorldInv, Filed
  <2> QED  BY <1>1, <2>1, <2>2
<1>7. WorldInv'
  BY <1>2, <1>5, <1>6, RunTyped, WorldStays
<1>8. /\ run' \in Run /\ Placed' /\ Waiting'
      /\ RunInv(run, exts, code, pending, env, tee, sent)'
  BY <1>1, OverKeeps
<1>9. Typed'
  BY <1>2, <1>6, <1>8, RunTyped DEF Typed
<1> QED  BY <1>7, <1>8, <1>9 DEF DeploymentInv

(* The containers serve the extension of the file.                         *)
LEMMA StartKeeps ==
  ASSUME DeploymentInv, StartServices
  PROVE  DeploymentInv'
<1>1. /\ At("start") /\ UNCHANGED <<outside, env>> /\ run' = AfterStep(run)
      /\ WellFormed(env.id) /\ tee' = [ext |-> env.id, governance |-> run.governance]
  BY DEF StartServices, Serve
<1>2. UNCHANGED <<strict, pending, code, exts, bound, sent, report, settled, setup, env>>
  BY <1>1 DEF outside
<1>3. /\ PlacesOf(run.tool, run.at, "start") /\ run \in Run /\ ~run.waits
      /\ run.at \in 1..Length(run.tool) /\ run.at \in Nat
  BY <1>1, AtStep
<1>4. run.tool = "full-setup" /\ run.at = 9
  BY <1>3 DEF PlacesOf
<1>5. env.id \in DOMAIN exts /\ env.id \in Nat /\ run.governance \in Rules
  BY <1>1, <1>3, RunTyped DEF WorldInv, Filed, WellFormed, Unread, Typed, Run
<1>6. tee' \in [ext : Nat, governance : Rules] /\ tee'.ext = env.id
  BY <1>1, <1>5
<1>7. Filed' /\ Reported' /\ Remembered'
  BY <1>2, <1>5, <1>6, RunTyped DEF WorldInv, Filed, Reported, Remembered, CleanReport
<1>8. WorldInv'
  BY <1>2, <1>7, RunTyped, WorldStays
<1>9. RunInv(Moved(run), exts', code', pending', env', tee', sent')
  <2>1. /\ Moved(run).tool = run.tool /\ Moved(run).at = 10 /\ ~Moved(run).waits
        /\ Moved(run).ext = run.ext /\ Moved(run).sender = run.sender
        /\ Stage(Moved(run)) = 10
    BY <1>3, <1>4, Moves DEF Stage
  <2>2. Stage(run) = 9
    BY <1>4 DEF Stage
  <2>3. Registered(Moved(run), exts', code')
    BY <1>2, <1>4, <2>1, <2>2, RunTyped DEF RunInv, Registered
  <2>4. Secured(Moved(run), exts', env', tee')
    BY <1>2, <1>4, <1>6, <2>1, RunTyped DEF RunInv, Secured
  <2>5. Unregistered(Moved(run), exts', pending') /\ Verified(Moved(run), exts', env')
        /\ Spare(Moved(run), sent')
    BY <1>4, <2>1 DEF Unregistered, Verified, Spare
  <2> QED  BY <2>3, <2>4, <2>5 DEF RunInv
<1>10. /\ run' \in Run /\ Placed' /\ Waiting'
       /\ RunInv(run, exts, code, pending, env, tee, sent)'
  BY <1>1, <1>3, <1>9, StepKeeps
<1>11. Typed'
  BY <1>2, <1>6, <1>10, RunTyped DEF Typed
<1> QED  BY <1>8, <1>10, <1>11 DEF DeploymentInv

(* What full-setup leaves behind is remembered.                            *)
LEMMA DoneKeeps ==
  ASSUME DeploymentInv, Done
  PROVE  DeploymentInv'
<1>1. /\ At("done") /\ run' = Idle /\ setup' = [sender |-> env.sender, ext |-> tee.ext]
      /\ UNCHANGED <<strict, pending, code, exts, bound, env, tee, sent, report, settled>>
  BY DEF Done
<1>2. PlacesOf(run.tool, run.at, "done")
  BY <1>1, AtStep
<1>3. /\ env.sender = run.sender /\ First(exts, env.sender, tee.ext)
      /\ exts[tee.ext].machine
  BY <1>2, RunTyped DEF RunInv, Secured, PlacesOf
<1>4. env.sender \in Senders
  <2>1. tee.ext \in DOMAIN exts /\ exts[tee.ext].sender = env.sender
    BY <1>3 DEF First
  <2>2. exts \in Seq(Ext)
    BY RunTyped DEF Typed
  <2>3. exts[tee.ext] \in Ext
    BY <2>1, <2>2
  <2> QED  BY <2>1, <2>3 DEF Ext
<1>5. setup'.sender = env.sender /\ setup'.ext = tee.ext
  BY <1>1
<1>6. Remembered'
  BY <1>1, <1>3, <1>4, <1>5, RunTyped DEF WorldInv, Remembered
<1>7. Filed' /\ Reported'
  BY <1>1, RunTyped DEF WorldInv, Filed, Reported, CleanReport
<1>8. WorldInv'
  BY <1>1, <1>6, <1>7, RunTyped, WorldStays
<1>9. /\ run' \in Run /\ Placed' /\ Waiting'
      /\ RunInv(run, exts, code, pending, env, tee, sent)'
  BY <1>1, OverKeeps
<1>10. Typed'
  BY <1>1, <1>9, RunTyped DEF Typed
<1> QED  BY <1>8, <1>9, <1>10 DEF DeploymentInv
-----------------------------------------------------------------------------
(* verify-deploy.                                                          *)

(* The two verdicts of a check are statuses.                               *)
LEMMA VerdictsAreStatuses ==
  ASSUME NEW good
  PROVE  PassIf(good, "FAIL") \in Statuses /\ PassIf(good, "WARN") \in Statuses
BY DEF PassIf, Statuses

(* A result is a result.                                                   *)
LEMMA OneResult ==
  ASSUME NEW id \in Ids, NEW about \in Abouts, NEW status \in Statuses
  PROVE  One(id, about, status) \in SUBSET Result
BY DEF One, Result

(* A step of verify-deploy that adds results and goes on to a later step.  *)
LEMMA AddKeeps ==
  ASSUME DeploymentInv, run.tool = "verify-deploy", ~run.waits,
         NEW r \in Run, Advance(r), r.tool = "verify-deploy", r.at \in 1..6, ~r.waits,
         r.ext = run.ext,
         r.at # 6 => Verified(Moved(r), exts, env)
  PROVE  DeploymentInv'
<1>1. Length(r.tool) = 6 /\ r.at \in 1..Length(r.tool)
  BY DEF Length
<1>2. Moved(r).tool = r.tool /\ Moved(r).ext = r.ext /\ Moved(r).waits = r.waits
  BY <1>1, Moves
<1>3. r.at # 6 => RunInv(Moved(r), exts, code, pending, env, tee, sent)
  BY <1>2, RunTyped
     DEF RunInv, Registered, Unregistered, Secured, Spare, Fresh, Registering
<1> QED  BY <1>1, <1>3, AdvanceKeeps

(* Only a check that is good adds a result that passed.                    *)
LEMMA PassIsGood ==
  ASSUME NEW id, NEW about, NEW id2, NEW about2, NEW good, NEW otherwise, otherwise # "PASS",
         Pass(id, about) \in One(id2, about2, PassIf(good, otherwise))
  PROVE  id = id2 /\ about = about2 /\ good
BY DEF One, PassIf, Pass

(* A report fails if a part of it does, ...                                *)
LEMMA FailuresAdd ==
  ASSUME NEW S, NEW T
  PROVE  HasFailures(S \cup T) <=> HasFailures(S) \/ HasFailures(T)
BY DEF HasFailures

(* ... a result by its status alone, ...                                   *)
LEMMA FailureOfOne ==
  ASSUME NEW id, NEW about, NEW status
  PROVE  /\ HasFailures(One(id, about, status)) <=> status = "FAIL"
         /\ ~HasFailures({})
BY DEF HasFailures, One

(* A failure is not taken back.                                            *)
LEMMA FailuresStay ==
  ASSUME NEW S, NEW T, ~HasFailures(S \cup T)
  PROVE  ~HasFailures(S) /\ ~HasFailures(T)
BY DEF HasFailures

(* A check that is not good fails the report.                              *)
LEMMA FailIsFailure ==
  ASSUME NEW id, NEW about, NEW good, ~HasFailures(One(id, about, PassIf(good, "FAIL")))
  PROVE  good
BY DEF HasFailures, One, PassIf

(* Where verify-deploy is when it is about to take a step.                 *)
LEMMA AtVerify ==
  ASSUME DeploymentInv, NEW step \in {"counter", "match", "allowed", "types", "unique", "report"},
         At(step)
  PROVE  /\ run.tool = "verify-deploy" /\ ~run.waits /\ run \in Run
         /\ Verified(run, exts, env)
         /\ run.at = CASE step = "counter" -> 1 [] step = "match" -> 2 [] step = "allowed" -> 3
                       [] step = "types" -> 4 [] step = "unique" -> 5 [] step = "report" -> 6
<1>1. PlacesOf(run.tool, run.at, step) /\ run \in Run /\ ~run.waits
  BY AtStep
<1> QED  BY <1>1, RunTyped DEF PlacesOf, RunInv

(* The run with more results, before its next step.                        *)
LEMMA WithResults ==
  ASSUME NEW r \in Run, NEW T \in SUBSET Result, r.at \in 1..6, r.tool = "verify-deploy"
  PROVE  LET s == [r EXCEPT !.results = @ \cup T] IN
         /\ s \in Run /\ s.tool = r.tool /\ s.at = r.at /\ s.waits = r.waits /\ s.ext = r.ext
         /\ Moved(s).tool = r.tool /\ Moved(s).at = r.at + 1
         /\ Moved(s).results = r.results \cup T
         /\ Moved(s).counter = r.counter /\ Moved(s).skipped = r.skipped
         /\ Moved(s).step = r.step /\ Moved(s).config = r.config
<1> DEFINE s == [r EXCEPT !.results = @ \cup T]
<1>1. /\ s \in Run /\ s.tool = r.tool /\ s.at = r.at /\ s.waits = r.waits /\ s.ext = r.ext
      /\ s.results = r.results \cup T /\ s.counter = r.counter /\ s.skipped = r.skipped
      /\ s.step = r.step /\ s.config = r.config
  BY DEF Run
<1> HIDE DEF s
<1>2. s.at \in 1..Length(s.tool)
  BY <1>1 DEF Length
<1>3. /\ Moved(s).tool = s.tool /\ Moved(s).at = s.at + 1 /\ Moved(s).results = s.results
      /\ Moved(s).counter = s.counter /\ Moved(s).skipped = s.skipped
      /\ Moved(s).step = s.step /\ Moved(s).config = s.config
  BY <1>1, <1>2, Moves
<1> QED  BY <1>1, <1>3 DEF s

(* R2, R3, R4: what has been looked up holds if it passed, and if nothing  *)
(* has failed.                                                             *)
LEMMA LookedVerified ==
  ASSUME NEW r \in Run, NEW m, NEW x, NEW file, NEW id, NEW about, NEW good,
         Verified(r, x, file), r.tool = "verify-deploy", WellFormed(file.id),
         \/ /\ r.at = 2 /\ id = "R2" /\ about = "match" /\ WellFormed(file.sender)
            /\ good => x[file.id].sender = file.sender
         \/ r.at = 3 /\ id = "R3" /\ (good => x[file.id].owner)
         \/ r.at = 4 /\ id = "R4" /\ (good => x[file.id].key),
         m.tool = r.tool, m.at = r.at + 1,
         m.results = r.results \cup One(id, about, PassIf(good, "FAIL")),
         m.counter = r.counter, m.skipped = r.skipped, m.step = r.step, m.config = r.config
  PROVE  Verified(m, x, file)
<1> DEFINE T == One(id, about, PassIf(good, "FAIL"))
<1>0. m.results = r.results \cup T
  OBVIOUS
<1>1. Pass("R2", "match") \in T => id = "R2" /\ good
  BY PassIsGood
<1>2. Pass("R7", "unique") \notin T
  <2>1. id # "R7"
    OBVIOUS
  <2> QED  BY <2>1, PassIsGood
<1>3. ~HasFailures(T) => good
  BY FailIsFailure
<1> HIDE DEF T
<1>4. ~HasFailures(m.results) => ~HasFailures(r.results) /\ ~HasFailures(T)
  BY <1>0, FailuresStay
<1>5. r.at \in 2..4 /\ r.at \in Nat /\ m.at # 1 /\ m.at \in 3..5
  OBVIOUS
<1>6. Pass("R2", "match") \in m.results =>
        WellFormed(file.id) /\ WellFormed(file.sender) /\ x[file.id].sender = file.sender
  BY <1>0, <1>1 DEF Verified
<1>7. Pass("R7", "unique") \in m.results => Pass("R7", "unique") \in r.results
  BY <1>0, <1>2
<1>8. ~r.skipped
  BY <1>5 DEF Verified
<1>9. m.step \in {"register", "all"} /\ m.config /\ ~HasFailures(m.results) =>
        /\ m.at >= 3 /\ WellFormed(file.sender) => x[file.id].sender = file.sender
        /\ m.at >= 4 => x[file.id].owner
        /\ m.at >= 5 => x[file.id].key
  BY <1>3, <1>4, <1>5 DEF Verified
<1>10. Looks(m.step, m.config, file)
  BY <1>5 DEF Verified
<1> QED  BY <1>5, <1>6, <1>7, <1>8, <1>9, <1>10 DEF Verified

(* An id that can be read in the file is one that is registered.           *)
LEMMA WellFormedId ==
  ASSUME DeploymentInv, WellFormed(env.id)
  PROVE  /\ env.id \in DOMAIN exts /\ env.id \in Nat
         /\ exts \in Seq(Ext) /\ Len(exts) \in Nat /\ env.id < Len(exts) + 1
<1>1. env.id \in DOMAIN exts /\ exts \in Seq(Ext)
  BY RunTyped DEF WorldInv, Filed, Typed, WellFormed, Unread
<1>2. Len(exts) \in Nat /\ DOMAIN exts = 1..Len(exts)
  BY <1>1
<1> QED  BY <1>1, <1>2

(* The results of the steps other than register.                           *)
LEMMA SkipKeeps ==
  ASSUME DeploymentInv, NEW T \in SUBSET Result, At("counter"),
         Pass("R2", "match") \notin T, Pass("R7", "unique") \notin T,
         \/ run.step \notin {"register", "all"}
         \/ ~run.config
         \/ ~WellFormed(env.id),
         HasFailures(T) => Looks(run.step, run.config, env),
         Looks(run.step, run.config, env) => HasFailures(T),
         ToReport(T)
  PROVE  DeploymentInv'
<1>1. /\ run.tool = "verify-deploy" /\ ~run.waits /\ run \in Run /\ run.at = 1
      /\ Verified(run, exts, env)
  BY AtVerify
<1> DEFINE r == [run EXCEPT !.results = @ \cup T, !.at = 5]
<1>2. Advance(r)
  <2>1. Len(Steps("verify-deploy")) - 1 = 5
    BY StepPlaces DEF Tools, Length
  <2> QED  BY <2>1 DEF ToReport
<1>3. /\ r \in Run /\ r.tool = "verify-deploy" /\ r.at = 5 /\ ~r.waits /\ r.ext = run.ext
      /\ r.results = run.results \cup T /\ r.counter = run.counter /\ r.skipped = run.skipped
      /\ r.step = run.step /\ r.config = run.config
  BY <1>1 DEF Run
<1> HIDE DEF r
<1>4. r.at \in 1..Length(r.tool)
  BY <1>3 DEF Length
<1>5. /\ Moved(r).tool = r.tool /\ Moved(r).at = 6 /\ Moved(r).results = r.results
      /\ Moved(r).counter = r.counter /\ Moved(r).skipped = r.skipped
      /\ Moved(r).step = r.step /\ Moved(r).config = r.config
  BY <1>3, <1>4, Moves
<1>6. HasFailures(Moved(r).results) <=> HasFailures(T)
  <2>1. run.results = {}
    BY <1>1 DEF Verified
  <2> QED  BY <1>3, <1>5, <2>1
<1>7. Verified(Moved(r), exts, env)
  BY <1>1, <1>3, <1>5, <1>6 DEF Verified
<1> QED  BY <1>1, <1>2, <1>3, <1>7, AddKeeps

(* The first check reads the counter, below which R7 looks later.          *)
LEMMA CounterKeeps ==
  ASSUME DeploymentInv, CheckCounter
  PROVE  DeploymentInv'
<1>1. At("counter")
  BY DEF CheckCounter
<1>2. /\ run.tool = "verify-deploy" /\ ~run.waits /\ run \in Run /\ run.at = 1
      /\ Verified(run, exts, env) /\ run.results = {} /\ run.counter = 0 /\ ~run.skipped
  BY <1>1, AtVerify DEF Verified
<1>3. CASE run.step \notin {"register", "all"} /\ ToReport({})
  <2>1. ~Looks(run.step, run.config, env) /\ ~HasFailures({})
    BY <1>3 DEF Looks, HasFailures
  <2> QED  BY <1>1, <1>3, <2>1, SkipKeeps
<1>4. CASE NothingToRegister(run.config, env) /\ ToReport(One("R1-R7", "skipped", "SKIP"))
  <2>1. One("R1-R7", "skipped", "SKIP") \in SUBSET Result
    BY DEF One, Result, Ids, Abouts, Statuses
  <2>2. Pass("R2", "match") \notin One("R1-R7", "skipped", "SKIP")
        /\ Pass("R7", "unique") \notin One("R1-R7", "skipped", "SKIP")
    BY DEF One, Pass
  <2>3. ~run.config \/ ~WellFormed(env.id)
    BY <1>4 DEF NothingToRegister, WellFormed
  <2>4. ~Looks(run.step, run.config, env)
        /\ ~HasFailures(One("R1-R7", "skipped", "SKIP"))
    BY <1>4, FailureOfOne DEF Looks
  <2> QED  BY <1>1, <1>4, <2>1, <2>2, <2>3, <2>4, SkipKeeps
<1>5. ASSUME NEW fails \in BOOLEAN, ~WellFormed(env.id), Looks(run.step, run.config, env),
             ToReport(One("R1", "counter", PassIf(~fails, "FAIL")) \cup One("R2", "format", "FAIL"))
      PROVE  DeploymentInv'
  <2> DEFINE T == One("R1", "counter", PassIf(~fails, "FAIL")) \cup One("R2", "format", "FAIL")
  <2>1. T \in SUBSET Result
    BY DEF One, Result, Ids, Abouts, Statuses, PassIf
  <2>2. Pass("R2", "match") \notin T /\ Pass("R7", "unique") \notin T
    BY DEF One, Pass
  <2>3. ToReport(T)
    BY <1>5
  <2>4. HasFailures(T)
    BY DEF One, HasFailures
  <2> HIDE DEF T
  <2> QED  BY <1>1, <1>5, <2>1, <2>2, <2>3, <2>4, SkipKeeps
<1>6. ASSUME NEW fails \in BOOLEAN, WellFormed(env.id), Looks(run.step, run.config, env),
             Advance([run EXCEPT !.results = One("R1", "counter", PassIf(~fails, "FAIL")),
                                 !.counter = IF fails THEN 0 ELSE Len(exts) + 1])
      PROVE  DeploymentInv'
  <2> DEFINE T == One("R1", "counter", PassIf(~fails, "FAIL"))
             n == IF fails THEN 0 ELSE Len(exts) + 1
             r == [run EXCEPT !.results = T, !.counter = n]
  <2>1. T \in SUBSET Result
    BY DEF One, Result, Ids, Abouts, Statuses, PassIf
  <2>2. Pass("R2", "match") \notin T /\ Pass("R7", "unique") \notin T
    BY DEF One, Pass
  <2>3. n \in Nat /\ n <= Len(exts) + 1 /\ (n # 0 => env.id < n)
    BY <1>6, WellFormedId
  <2>4. Advance(r)
    BY <1>6
  <2> HIDE DEF T, n
  <2>5. /\ r \in Run /\ r.tool = "verify-deploy" /\ r.at = 1 /\ ~r.waits /\ r.ext = run.ext
        /\ r.results = T /\ r.counter = n /\ r.skipped = run.skipped
        /\ r.step = run.step /\ r.config = run.config
    BY <1>2, <2>1, <2>3 DEF Run
  <2> HIDE DEF r
  <2>6. r.at \in 1..Length(r.tool)
    BY <2>5 DEF Length
  <2>7. /\ Moved(r).tool = r.tool /\ Moved(r).at = 2 /\ Moved(r).results = T
        /\ Moved(r).counter = n /\ Moved(r).skipped = r.skipped
        /\ Moved(r).step = r.step /\ Moved(r).config = r.config
    BY <2>5, <2>6, Moves
  <2>8. Verified(Moved(r), exts, env)
    BY <1>2, <1>6, <2>2, <2>3, <2>5, <2>7 DEF Verified
  <2> QED  BY <1>2, <2>4, <2>5, <2>8, AddKeeps
<1> QED  BY <1>2, <1>3, <1>4, <1>5, <1>6 DEF CheckCounter, Looks

(* A lookup on the extension that the file names.                          *)
LEMMA LookupKeeps ==
  ASSUME DeploymentInv, NEW step \in {"match", "allowed", "types"}, At(step),
         NEW id \in Ids, NEW about \in Abouts, NEW good,
         \/ /\ step = "match" /\ id = "R2" /\ about = "match" /\ WellFormed(env.sender)
            /\ good => exts[env.id].sender = env.sender
         \/ step = "allowed" /\ id = "R3" /\ (good => exts[env.id].owner)
         \/ step = "types" /\ id = "R4" /\ (good => exts[env.id].key),
         Add(One(id, about, PassIf(good, "FAIL")))
  PROVE  DeploymentInv'
<1>1. /\ run.tool = "verify-deploy" /\ ~run.waits /\ run \in Run
      /\ Verified(run, exts, env)
      /\ run.at = CASE step = "match" -> 2 [] step = "allowed" -> 3 [] step = "types" -> 4
  BY AtVerify
<1> DEFINE T == One(id, about, PassIf(good, "FAIL"))
           r == [run EXCEPT !.results = @ \cup T]
           m == Moved(r)
<1>2. T \in SUBSET Result
  BY VerdictsAreStatuses, OneResult
<1>3. run.at \in 1..6 /\ run.at \in 2..5
  BY <1>1
<1>4. Advance(r)
  BY DEF Add
<1>5. T = One(id, about, PassIf(good, "FAIL"))
  OBVIOUS
<1> HIDE DEF T
<1>6. /\ r \in Run /\ r.tool = run.tool /\ r.at = run.at /\ r.waits = run.waits /\ r.ext = run.ext
      /\ m.tool = run.tool /\ m.at = run.at + 1
      /\ m.results = run.results \cup T
      /\ m.counter = run.counter /\ m.skipped = run.skipped
      /\ m.step = run.step /\ m.config = run.config
  BY <1>1, <1>2, <1>3, WithResults
<1> HIDE DEF r, m
<1>7. WellFormed(env.id)
  BY <1>1, <1>3 DEF Verified
<1>8. Verified(m, exts, env)
  BY <1>1, <1>5, <1>6, <1>7, LookedVerified
<1> QED  BY <1>1, <1>3, <1>4, <1>6, <1>8, AddKeeps DEF m

(* Nothing is looked up for a sender that is no address.                   *)
LEMMA AddNothingKeeps ==
  ASSUME DeploymentInv, NEW step \in {"match", "unique"}, At(step), Add({}),
         step = "match" => ~WellFormed(env.sender)
  PROVE  DeploymentInv'
<1>1. /\ run.tool = "verify-deploy" /\ ~run.waits /\ run \in Run
      /\ Verified(run, exts, env)
      /\ run.at = CASE step = "match" -> 2 [] step = "unique" -> 5
  BY AtVerify
<1> DEFINE r == [run EXCEPT !.results = @ \cup {}]
           m == Moved(r)
<1>2. run.at \in 1..6 /\ run.at \in 2..5
  BY <1>1
<1>3. Advance(r)
  BY DEF Add
<1>4. /\ r \in Run /\ r.tool = run.tool /\ r.at = run.at /\ r.waits = run.waits /\ r.ext = run.ext
      /\ m.tool = run.tool /\ m.at = run.at + 1
      /\ m.results = run.results \cup {}
      /\ m.counter = run.counter /\ m.skipped = run.skipped
      /\ m.step = run.step /\ m.config = run.config
  <2>1. {} \in SUBSET Result
    OBVIOUS
  <2> QED  BY <1>1, <1>2, <2>1, WithResults
<1> HIDE DEF r, m
<1>5. m.results = run.results
  BY <1>4
<1>6. Verified(m, exts, env)
  BY <1>1, <1>2, <1>4, <1>5 DEF Verified
<1> QED  BY <1>1, <1>2, <1>3, <1>4, <1>6, AddKeeps DEF m

(* R2, R3 and R4.                                                          *)
LEMMA LooksKeep ==
  ASSUME DeploymentInv, CheckSenderMatches \/ CheckMachineOwner \/ CheckKeyType
  PROVE  DeploymentInv'
<1>1. ASSUME CheckSenderMatches
      PROVE  DeploymentInv'
  <2>1. At("match")
    BY <1>1 DEF CheckSenderMatches
  <2>2. CASE ~WellFormed(env.sender)
    <3>1. Add({})
      BY <1>1, <2>2 DEF CheckSenderMatches
    <3> QED  BY <2>1, <2>2, <3>1, AddNothingKeeps
  <2>3. CASE WellFormed(env.sender)
    <3>1. PICK fails \in BOOLEAN :
            Add(One("R2", "match", PassIf(~fails /\ exts[env.id].sender = env.sender, "FAIL")))
      BY <1>1, <2>3 DEF CheckSenderMatches, Looked
    <3> DEFINE good == ~fails /\ exts[env.id].sender = env.sender
    <3>2. Add(One("R2", "match", PassIf(good, "FAIL"))) /\ (good => exts[env.id].sender = env.sender)
      BY <3>1
    <3> HIDE DEF good
    <3>3. "R2" \in Ids /\ "match" \in Abouts
      BY DEF Ids, Abouts
    <3> QED  BY <2>1, <2>3, <3>2, <3>3, LookupKeeps
  <2> QED  BY <2>2, <2>3
<1>2. ASSUME CheckMachineOwner
      PROVE  DeploymentInv'
  <2>1. At("allowed")
    BY <1>2 DEF CheckMachineOwner
  <2>2. PICK fails \in BOOLEAN : Add(One("R3", "owner", PassIf(~fails /\ exts[env.id].owner, "FAIL")))
    BY <1>2 DEF CheckMachineOwner, Looked
  <2> DEFINE good == ~fails /\ exts[env.id].owner
  <2>3. Add(One("R3", "owner", PassIf(good, "FAIL"))) /\ (good => exts[env.id].owner)
    BY <2>2
  <2> HIDE DEF good
  <2>4. "R3" \in Ids /\ "owner" \in Abouts
    BY DEF Ids, Abouts
  <2> QED  BY <2>1, <2>3, <2>4, LookupKeeps
<1>3. ASSUME CheckKeyType
      PROVE  DeploymentInv'
  <2>1. At("types")
    BY <1>3 DEF CheckKeyType
  <2>2. PICK fails \in BOOLEAN : Add(One("R4", "key", PassIf(~fails /\ exts[env.id].key, "FAIL")))
    BY <1>3 DEF CheckKeyType, Looked
  <2> DEFINE good == ~fails /\ exts[env.id].key
  <2>3. Add(One("R4", "key", PassIf(good, "FAIL"))) /\ (good => exts[env.id].key)
    BY <2>2
  <2> HIDE DEF good
  <2>4. "R4" \in Ids /\ "key" \in Abouts
    BY DEF Ids, Abouts
  <2> QED  BY <2>1, <2>3, <2>4, LookupKeeps
<1> QED  BY <1>1, <1>2, <1>3

(* R7.                                                                     *)
LEMMA UniqueKeeps ==
  ASSUME DeploymentInv, CheckUniqueSender
  PROVE  DeploymentInv'
<1>1. At("unique")
  BY DEF CheckUniqueSender
<1>2. /\ run.tool = "verify-deploy" /\ ~run.waits /\ run \in Run
      /\ Verified(run, exts, env) /\ run.at = 5
  BY <1>1, AtVerify
<1>3. CASE Add({})
  BY <1>1, <1>3, AddNothingKeeps
<1>4. ASSUME NEW missed \in SUBSET (1..(run.counter - 1)), run.counter # 0, WellFormed(env.sender),
             Advance([run EXCEPT
               !.skipped = (missed # {}),
               !.results = @ \cup One("R7", "unique",
                 PassIf(AtMostOne({i \in Matching(env.sender) : i < run.counter /\ i \notin missed}), "WARN"))])
      PROVE  DeploymentInv'
  <2> DEFINE seen == {i \in Matching(env.sender) : i < run.counter /\ i \notin missed}
             ok == AtMostOne(seen)
             T == One("R7", "unique", PassIf(ok, "WARN"))
             k == (missed # {})
             r == [run EXCEPT !.skipped = k, !.results = @ \cup T]
  <2>1. T \in SUBSET Result
    <3>1. "R7" \in Ids /\ "unique" \in Abouts
      BY DEF Ids, Abouts
    <3> QED  BY <3>1, VerdictsAreStatuses, OneResult
  <2>2. Advance(r)
    BY <1>4
  <2>3. Pass("R2", "match") \notin T /\ (Pass("R7", "unique") \in T => ok)
    BY PassIsGood
  <2>4. ASSUME ok, ~k, NEW i \in DOMAIN exts, NEW j \in DOMAIN exts,
               exts[i].sender = env.sender, i < run.counter,
               exts[j].sender = env.sender, j < run.counter
        PROVE  i = j
    <3>1. i \in Nat /\ j \in Nat /\ i # 0 /\ j # 0
      BY RunTyped DEF Typed
    <3>2. i \in seen /\ j \in seen
      BY <2>4, <3>1 DEF Matching
    <3> QED  BY <2>4, <3>2 DEF AtMostOne
  <2>5. k \in BOOLEAN
    OBVIOUS
  <2> HIDE DEF T, ok, k, seen
  <2>6. /\ r \in Run /\ r.tool = "verify-deploy" /\ r.at = 5 /\ ~r.waits /\ r.ext = run.ext
        /\ r.results = run.results \cup T /\ r.counter = run.counter /\ r.skipped = k
        /\ r.step = run.step /\ r.config = run.config
    BY <1>2, <2>1, <2>5 DEF Run
  <2> HIDE DEF r
  <2>7. r.at \in 1..Length(r.tool)
    BY <2>6 DEF Length
  <2>8. /\ Moved(r).tool = r.tool /\ Moved(r).at = 6 /\ Moved(r).results = r.results
        /\ Moved(r).counter = r.counter /\ Moved(r).skipped = r.skipped
        /\ Moved(r).step = r.step /\ Moved(r).config = r.config
    BY <2>6, <2>7, Moves
  <2>9. ~HasFailures(r.results) => ~HasFailures(run.results)
    BY <2>6, FailuresStay
  <2>10. ~run.skipped
    BY <1>2 DEF Verified
  <2>11. Pass("R7", "unique") \in r.results /\ ~k =>
           \A i, j \in DOMAIN exts :
              /\ exts[i].sender = env.sender /\ i < run.counter
              /\ exts[j].sender = env.sender /\ j < run.counter
              => i = j
    BY <1>2, <2>3, <2>4, <2>6, <2>10 DEF Verified
  <2>12. Verified(Moved(r), exts, env)
    BY <1>2, <1>4, <2>3, <2>6, <2>8, <2>9, <2>11 DEF Verified
  <2> QED  BY <1>2, <2>2, <2>6, <2>12, AddKeeps
<1> QED  BY <1>3, <1>4 DEF CheckUniqueSender

(* What One holds.                                                         *)
LEMMA OneIs ==
  ASSUME NEW id, NEW about, NEW status, NEW x \in One(id, about, status)
  PROVE  x.id = id
BY DEF One

(* The other steps report nothing under the register step's names.         *)
LEMMA StepIds ==
  ASSUME NEW step, NEW s, NEW file, NEW x \in StepReport(step, s, file)
  PROVE  x.id \notin Ids
<1>1. \/ x \in DeployReport(s, file) \/ x \in ServicesReport(s, file)
      \/ x \in TeeVersionReport(s, file) \/ x \in TeeMachineReport(s)
      \/ x \in TestReport(s, file)
  BY DEF StepReport
<1>2. ASSUME x \in DeployReport(s, file)  PROVE  x.id \in {"D1", "D3", "D5", "D6", "D7"}
  BY <1>2, OneIs DEF DeployReport, EnvFormat
<1>3. ASSUME x \in ServicesReport(s, file)  PROVE  x.id \in {"S2", "S5", "S7", "S9", "S10"}
  BY <1>3, OneIs DEF ServicesReport
<1>4. ASSUME x \in TeeVersionReport(s, file)  PROVE  x.id \in {"V2", "V4", "V6"}
  BY <1>4, OneIs DEF TeeVersionReport
<1>5. ASSUME x \in TeeMachineReport(s)  PROVE  x.id \in {"T1", "T5", "T10"}
  BY <1>5, OneIs DEF TeeMachineReport
<1>6. ASSUME x \in TestReport(s, file)  PROVE  x.id \in {"E1", "E3", "E6"}
  BY <1>6, OneIs DEF TestReport
<1> QED  BY <1>1, <1>2, <1>3, <1>4, <1>5, <1>6 DEF Ids
-----------------------------------------------------------------------------
(* What makes verify-deploy exit with an error, check by check.            *)

(* A test with FAIL in store fails by its outcome, one with WARN never.    *)
LEMMA FailureOfTest ==
  ASSUME NEW good \in BOOLEAN
  PROVE  /\ PassIf(good, "FAIL") = "FAIL" <=> ~good
         /\ PassIf(good, "WARN") # "FAIL"
BY DEF PassIf

(* A probe that gets no answer is a warning at most.                       *)
LEMMA ProbesNeverFail ==
  ASSUME NEW url \in {"unset", "up", "down"}
  PROVE  Probe(url) # "FAIL"
BY DEF Probe

(* The deploy step: the pre-flight, the chain's id, and the two values if  *)
(* there is a file.                                                        *)
LEMMA DeployFails ==
  ASSUME NEW s \in Settings, NEW file, file.exists \in BOOLEAN
  PROVE  HasFailures(DeployReport(s, file)) <=>
           \/ ~PreflightPasses(s) \/ ~s.chainAnswers
           \/ /\ s.config /\ file.exists
              /\ ~WellFormed(file.id) \/ ~WellFormed(file.sender)
<1> DEFINE zero == One("D3", "manager", PassIf(s.manager # "zero", "FAIL"))
           manager == IF s.manager = "zero" THEN {}
                      ELSE One("D1", "manager", PassIf(s.manager = "code", "FAIL"))
           key == One("D5", "key", DeployerKeySource(s))
           funds == One("D5", "funds", PassIf(s.funded, "FAIL"))
           chain == One("D6", "chain", PassIf(s.chainAnswers, "FAIL"))
           values == IF s.config THEN EnvFormat(file) ELSE {}
<1>1. HasFailures(EnvFormat(file)) <=>
        file.exists /\ (~WellFormed(file.id) \/ ~WellFormed(file.sender))
  <2>1. CASE ~file.exists
    BY <2>1, FailureOfOne DEF EnvFormat
  <2>2. CASE file.exists
    <3>1. WellFormed(file.id) \in BOOLEAN /\ WellFormed(file.sender) \in BOOLEAN
      BY DEF WellFormed
    <3> QED  BY <2>2, <3>1, FailuresAdd, FailureOfOne, FailureOfTest DEF EnvFormat
  <2> QED  BY <2>1, <2>2
<1>2. HasFailures(values) <=>
        s.config /\ file.exists /\ (~WellFormed(file.id) \/ ~WellFormed(file.sender))
  BY <1>1, FailureOfOne DEF Settings
<1>3. HasFailures(zero) <=> s.manager = "zero"
  BY FailureOfOne, FailureOfTest
<1>4. HasFailures(manager) <=> s.manager \notin {"zero", "code"}
  BY FailureOfOne, FailureOfTest
<1>5. ~HasFailures(key)
  BY FailureOfOne DEF DeployerKeySource, PassIf
<1>6. HasFailures(funds) <=> ~s.funded
  BY FailureOfOne, FailureOfTest DEF Settings
<1>7. HasFailures(chain) <=> ~s.chainAnswers
  BY FailureOfOne, FailureOfTest DEF Settings
<1>8. DeployReport(s, file) =
        zero \cup manager \cup key \cup funds \cup chain \cup values
  BY DEF DeployReport
<1> HIDE DEF zero, manager, key, funds, chain, values
<1>9. HasFailures(zero \cup manager \cup key \cup funds \cup chain \cup values) <=>
        \/ HasFailures(zero) \/ HasFailures(manager) \/ HasFailures(key)
        \/ HasFailures(funds) \/ HasFailures(chain) \/ HasFailures(values)
  BY DEF HasFailures
<1> QED  BY <1>2, <1>3, <1>4, <1>5, <1>6, <1>7, <1>8, <1>9 DEF PreflightPasses

(* The services step takes a file that is not there for one without an id. *)
LEMMA ServicesFail ==
  ASSUME NEW s \in Settings, NEW file
  PROVE  HasFailures(ServicesReport(s, file)) <=> s.config /\ ~WellFormed(file.id)
<1> DEFINE id == One("S2", "id", IF ~s.config THEN "SKIP"
                                 ELSE PassIf(WellFormed(file.id), "FAIL"))
           port == One("S5", "port", PassIf(~s.portInUse, "WARN"))
           ports == One("S7", "ports", "PASS")
           proxy == One("S9", "proxy", Probe(s.extProxy))
           key == One("S10", "key", PassIf(s.proxyKey \/ s.local # "false", "WARN"))
<1>1. HasFailures(id) <=> s.config /\ ~WellFormed(file.id)
  BY FailureOfOne DEF PassIf, Settings
<1>2. ~HasFailures(proxy)
  BY FailureOfOne, ProbesNeverFail DEF Settings
<1>3. ~HasFailures(port) /\ ~HasFailures(ports) /\ ~HasFailures(key)
  BY FailureOfOne DEF PassIf
<1>4. ServicesReport(s, file) = id \cup port \cup ports \cup proxy \cup key
  BY DEF ServicesReport
<1> HIDE DEF id, port, ports, proxy, key
<1>5. HasFailures(id \cup port \cup ports \cup proxy \cup key) <=>
        \/ HasFailures(id) \/ HasFailures(port) \/ HasFailures(ports)
        \/ HasFailures(proxy) \/ HasFailures(key)
  BY DEF HasFailures
<1> QED  BY <1>1, <1>2, <1>3, <1>4, <1>5

(* The tee-version step looks at the id, if there is a file.               *)
LEMMA TeeVersionFails ==
  ASSUME NEW s \in Settings, NEW file, file.exists \in BOOLEAN
  PROVE  HasFailures(TeeVersionReport(s, file)) <=>
           s.config /\ file.exists /\ ~WellFormed(file.id)
<1>1. HasFailures(One("V4", "id", IF ~s.config \/ ~file.exists THEN "SKIP"
                                  ELSE PassIf(WellFormed(file.id), "FAIL"))) <=>
        s.config /\ file.exists /\ ~WellFormed(file.id)
  BY FailureOfOne DEF PassIf, Settings
<1>2. /\ ~HasFailures(One("V2", "key",
                          PassIf(s.ownerKey \/ s.deployKey \/ LocalByDefault(s), "WARN")))
      /\ ~HasFailures(One("V6", "proxy", Probe(s.extProxy)))
  BY FailureOfOne, FailureOfTest, ProbesNeverFail DEF Settings, LocalByDefault
<1> QED  BY <1>1, <1>2, FailuresAdd DEF TeeVersionReport

(* The tee-machine step has warnings only.                                 *)
LEMMA TeeMachineNeverFails ==
  ASSUME NEW s \in Settings
  PROVE  ~HasFailures(TeeMachineReport(s))
<1>1. /\ ~HasFailures(One("T1", "mode", PassIf(~(s.simulated /\ s.local = "false"), "WARN")))
      /\ ~HasFailures(One("T5", "proxy", Probe(s.normalProxy)))
      /\ ~HasFailures(One("T10", "host", Probe(s.extProxy)))
  BY FailureOfOne, FailureOfTest, ProbesNeverFail DEF Settings
<1> QED  BY <1>1, FailuresAdd DEF TeeMachineReport

(* The test step looks at the sender, if there is a file.                  *)
LEMMA TestFails ==
  ASSUME NEW s \in Settings, NEW file, file.exists \in BOOLEAN
  PROVE  HasFailures(TestReport(s, file)) <=>
           s.config /\ file.exists /\ ~WellFormed(file.sender)
<1>1. HasFailures(One("E1", "sender", IF ~s.config \/ ~file.exists THEN "SKIP"
                                      ELSE PassIf(WellFormed(file.sender), "FAIL"))) <=>
        s.config /\ file.exists /\ ~WellFormed(file.sender)
  BY FailureOfOne DEF PassIf, Settings
<1>2. /\ ~HasFailures(One("E3", "proxy", Probe(s.extProxy)))
      /\ ~HasFailures(One("E6", "ops", "PASS"))
  BY FailureOfOne, ProbesNeverFail DEF Settings
<1> QED  BY <1>1, <1>2, FailuresAdd DEF TestReport

(* What a report fails for: the register step's findings, and the reasons  *)
(* of the steps it is of.                                                  *)
LEMMA ReportFails ==
  ASSUME NEW step, NEW s \in Settings, NEW file, file.exists \in BOOLEAN,
         NEW found, \A x \in found : x.id \in Ids,
         HasFailures(found) => Looks(step, s.config, file),
         Looks(step, s.config, file) /\ ~WellFormed(file.id) => HasFailures(found),
         NEW r, r.step = step, r.settings = s, r.env = file,
         r.filter = {} => r.results = found \cup StepReport(step, s, file)
  PROVE  FailsExactly(r)
<1> SUFFICES ASSUME r.filter = {}  PROVE  FailsExactly(r)
  BY DEF FailsExactly
<1> DEFINE steps == StepReport(step, s, file)
           in(name) == step \in {name, "all"}
           badId == s.config /\ file.exists /\ ~WellFormed(file.id)
           badSender == s.config /\ file.exists /\ ~WellFormed(file.sender)
<1>1. RegisterFails(r.results) <=> HasFailures(found)
  BY StepIds DEF RegisterFails, HasFailures
<1>2. HasFailures(r.results) <=> HasFailures(found) \/ HasFailures(steps)
  BY DEF HasFailures
<1>3. HasFailures(steps) <=>
        \/ in("deploy") /\ HasFailures(DeployReport(s, file))
        \/ in("services") /\ HasFailures(ServicesReport(s, file))
        \/ in("tee-version") /\ HasFailures(TeeVersionReport(s, file))
        \/ in("tee-machine") /\ HasFailures(TeeMachineReport(s))
        \/ in("test") /\ HasFailures(TestReport(s, file))
  BY DEF HasFailures, StepReport
<1>4. HasFailures(steps) <=>
        \/ /\ in("deploy")
           /\ ~PreflightPasses(s) \/ ~s.chainAnswers \/ badId \/ badSender
        \/ in("services") /\ s.config /\ ~WellFormed(file.id)
        \/ in("tee-version") /\ badId
        \/ in("test") /\ badSender
  BY <1>3, DeployFails, ServicesFail, TeeVersionFails, TeeMachineNeverFails, TestFails
<1> HIDE DEF steps
<1> QED  BY <1>1, <1>2, <1>4 DEF FailsExactly

-----------------------------------------------------------------------------
(* The report.                                                             *)

(* No check of a report without failures has failed.                       *)
LEMMA NoFailureIn ==
  ASSUME NEW S, NEW T, T \subseteq S, ~HasFailures(S)
  PROVE  ~HasFailures(T)
BY DEF HasFailures

(* What the steps other than register vouch for, if none of them fails.    *)
LEMMA CleanSteps ==
  ASSUME NEW s \in Settings, NEW file, s.config, ~HasFailures(StepReport("all", s, file))
  PROVE  /\ PreflightPasses(s) /\ WellFormed(file.id)
         /\ file.exists => WellFormed(file.sender)
<1>1. DeployReport(s, file) \subseteq StepReport("all", s, file)
      /\ ServicesReport(s, file) \subseteq StepReport("all", s, file)
  BY DEF StepReport
<1>2. ~HasFailures(DeployReport(s, file)) /\ ~HasFailures(ServicesReport(s, file))
  BY <1>1, NoFailureIn
<1>3. s.manager # "zero"
  <2>1. One("D3", "manager", PassIf(s.manager # "zero", "FAIL")) \subseteq DeployReport(s, file)
    BY DEF DeployReport
  <2>2. ~HasFailures(One("D3", "manager", PassIf(s.manager # "zero", "FAIL")))
    BY <1>2, <2>1, NoFailureIn
  <2> QED  BY <2>2 DEF HasFailures, One, PassIf
<1>4. s.manager = "code"
  <2>1. One("D1", "manager", PassIf(s.manager = "code", "FAIL")) \subseteq DeployReport(s, file)
    BY <1>3 DEF DeployReport
  <2>2. ~HasFailures(One("D1", "manager", PassIf(s.manager = "code", "FAIL")))
    BY <1>2, <2>1, NoFailureIn
  <2> QED  BY <2>2 DEF HasFailures, One, PassIf
<1>5. s.funded
  <2>1. One("D5", "funds", PassIf(s.funded, "FAIL")) \subseteq DeployReport(s, file)
    BY DEF DeployReport
  <2>2. ~HasFailures(One("D5", "funds", PassIf(s.funded, "FAIL")))
    BY <1>2, <2>1, NoFailureIn
  <2> QED  BY <2>2, FailIsFailure
<1>6. WellFormed(file.id)
  <2>1. One("S2", "id", PassIf(WellFormed(file.id), "FAIL")) \subseteq ServicesReport(s, file)
    BY DEF ServicesReport
  <2>2. ~HasFailures(One("S2", "id", PassIf(WellFormed(file.id), "FAIL")))
    BY <1>2, <2>1, NoFailureIn
  <2> QED  BY <2>2 DEF HasFailures, One, PassIf
<1>7. ASSUME file.exists  PROVE  WellFormed(file.sender)
  <2>1. One("D7", "sender", PassIf(WellFormed(file.sender), "FAIL")) \subseteq DeployReport(s, file)
    BY <1>7 DEF DeployReport, EnvFormat
  <2>2. ~HasFailures(One("D7", "sender", PassIf(WellFormed(file.sender), "FAIL")))
    BY <1>2, <2>1, NoFailureIn
  <2> QED  BY <2>2 DEF HasFailures, One, PassIf
<1> QED  BY <1>4, <1>5, <1>6, <1>7 DEF PreflightPasses

(* What a clean report says is so, and is remembered.                      *)
LEMMA ReportKeeps ==
  ASSUME DeploymentInv, Report
  PROVE  DeploymentInv'
<1>1. At("report") /\ run' = Idle
      /\ UNCHANGED <<strict, pending, code, exts, bound, env, tee, sent, setup>>
  BY DEF Report
<1>2. /\ run.tool = "verify-deploy" /\ ~run.waits /\ run \in Run
      /\ Verified(run, exts, env) /\ run.at = 6
  BY <1>1, AtVerify
<1>3. PICK c \in Configurations, f \in Filters :
        LET all == run.results \cup StepReport(run.step, c, env)
            r == [step |-> run.step, settings |-> c, env |-> env, filter |-> f,
                  results |-> Filtered(all, f)] IN
        /\ c.config = run.config
        /\ report' = r
        /\ settled' = IF SettlesBinding(r.results) /\ ~run.skipped
                      THEN settled \cup {<<env.sender, env.id>>} ELSE settled
  BY DEF Report
<1> DEFINE steps == StepReport(run.step, c, env)
           out == Filtered(run.results \cup steps, f)
<1>4. /\ report'.step = run.step /\ report'.settings = c /\ report'.env = env
      /\ report'.filter = f /\ report'.results = out
  BY <1>3
<1>5. settled' \subseteq settled \cup {<<env.sender, env.id>>}
      /\ (settled' = settled \/ (SettlesBinding(out) /\ ~run.skipped))
  BY <1>3
<1>6. out \subseteq run.results \cup steps /\ (f = {} => out = run.results \cup steps)
  BY DEF Filtered
<1>7. c \in Settings
  BY DeploymentAssumption
<1>8. \A x \in steps : x.id \notin {"R2", "R7"}
  BY StepIds DEF Ids
<1>9. f = {} /\ run.step = "all" /\ run.config /\ ~HasFailures(out) =>
        /\ PreflightPasses(c) /\ WellFormed(env.id)
        /\ env.exists => WellFormed(env.sender)
        /\ ~HasFailures(run.results)
  <2> SUFFICES ASSUME f = {}, run.step = "all", run.config, ~HasFailures(out)
               PROVE  /\ PreflightPasses(c) /\ WellFormed(env.id)
                      /\ env.exists => WellFormed(env.sender)
                      /\ ~HasFailures(run.results)
    OBVIOUS
  <2>1. ~HasFailures(run.results) /\ ~HasFailures(StepReport("all", c, env))
    BY <1>6, FailuresStay
  <2>2. c.config
    BY <1>3
  <2> QED  BY <1>7, <2>1, <2>2, CleanSteps
<1>17. FailsExactly(report')
  <2>1. c.config = run.config
    BY <1>3
  <2>2. f = {} => out = run.results \cup StepReport(run.step, c, env)
    BY <1>6
  <2>3. \A x \in run.results : x.id \in Ids
    BY <1>2 DEF Run, Result
  <2>4. /\ HasFailures(run.results) => Looks(run.step, run.config, env)
        /\ Looks(run.step, run.config, env) /\ ~WellFormed(env.id) => HasFailures(run.results)
    BY <1>2 DEF Verified
  <2>5. env.exists \in BOOLEAN
    BY RunTyped DEF Typed
  <2> HIDE DEF steps, out
  <2> QED  BY <1>4, <1>7, <2>1, <2>2, <2>3, <2>4, <2>5, ReportFails
<1> HIDE DEF steps, out
<1>10. Reported'
  <2> SUFFICES ASSUME CleanReport'
               PROVE  /\ PreflightPasses(c)
                      /\ env.id \in DOMAIN exts /\ WellFormed(env.sender)
                      /\ LET e == exts[env.id] IN
                         e.sender = env.sender /\ e.owner /\ e.key
    BY <1>1, <1>4, <1>17 DEF Reported
  <2>1. f = {} /\ run.step = "all" /\ run.config /\ ~HasFailures(out)
    BY <1>3, <1>4 DEF CleanReport
  <2>2. PreflightPasses(c) /\ WellFormed(env.id) /\ ~HasFailures(run.results)
    BY <1>9, <2>1
  <2>3. env.id \in DOMAIN exts /\ env.exists
    BY <2>2, WellFormedId, RunTyped DEF WorldInv, Filed
  <2>4. WellFormed(env.sender)
    BY <1>9, <2>1, <2>3
  <2>5. exts[env.id].sender = env.sender /\ exts[env.id].owner /\ exts[env.id].key
    BY <1>2, <2>1, <2>2, <2>4 DEF Verified
  <2> QED  BY <2>2, <2>3, <2>4, <2>5
<1>11. SettlesBinding(out) /\ ~run.skipped =>
         env.sender \in Senders /\ First(exts, env.sender, env.id)
  <2> SUFFICES ASSUME SettlesBinding(out), ~run.skipped
               PROVE  env.sender \in Senders /\ First(exts, env.sender, env.id)
    OBVIOUS
  <2>1. Pass("R2", "match") \in out /\ Pass("R7", "unique") \in out
    BY DEF SettlesBinding, One, Pass
  <2>2. Pass("R2", "match") \in run.results /\ Pass("R7", "unique") \in run.results
    <3>1. Pass("R2", "match").id = "R2" /\ Pass("R7", "unique").id = "R7"
      BY DEF Pass
    <3> QED  BY <1>6, <1>8, <2>1, <3>1
  <2>3. /\ WellFormed(env.id) /\ WellFormed(env.sender) /\ exts[env.id].sender = env.sender
        /\ run.counter # 0 /\ env.id < run.counter
    BY <1>2, <2>2 DEF Verified
  <2>4. env.id \in DOMAIN exts /\ env.id \in Nat /\ exts \in Seq(Ext)
    BY <2>3, WellFormedId
  <2>5. env.sender \in Senders
    BY <2>3, RunTyped DEF Typed, WellFormed, Unread
  <2>6. ASSUME NEW i \in DOMAIN exts, exts[i].sender = env.sender
        PROVE  env.id <= i
    <3>1. i \in Nat /\ run.counter \in Nat
      BY <1>2, <2>4 DEF Run
    <3>2. CASE i < run.counter
      <4>1. i = env.id
        BY <1>2, <2>2, <2>3, <2>4, <2>6, <3>2 DEF Verified
      <4> QED  BY <2>4, <4>1
    <3>3. CASE ~(i < run.counter)
      BY <2>3, <2>4, <3>1, <3>3
    <3> QED  BY <3>2, <3>3
  <2> QED  BY <2>3, <2>4, <2>5, <2>6 DEF First
<1>12. Remembered'
  <2>1. ASSUME NEW p \in settled'
        PROVE  p[1] \in Senders /\ First(exts, p[1], p[2])
    <3>1. CASE p \in settled
      BY <3>1, RunTyped DEF WorldInv, Remembered
    <3>2. CASE p \notin settled
      <4>1. p = <<env.sender, env.id>> /\ SettlesBinding(out) /\ ~run.skipped
        BY <1>5, <2>1, <3>2
      <4>2. p[1] = env.sender /\ p[2] = env.id
        BY <4>1
      <4> QED  BY <1>11, <4>1, <4>2
    <3> QED  BY <3>1, <3>2
  <2> QED  BY <1>1, <2>1, RunTyped DEF WorldInv, Remembered
<1>13. Filed'
  BY <1>1, RunTyped DEF WorldInv, Filed
<1>14. WorldInv'
  BY <1>1, <1>10, <1>12, <1>13, RunTyped, WorldStays
<1>15. /\ run' \in Run /\ Placed' /\ Waiting'
       /\ RunInv(run, exts, code, pending, env, tee, sent)'
  BY <1>1, OverKeeps
<1>16. Typed'
  <2>1. report'.step \in VerifySteps \cup {"none"}
    BY <1>2, <1>4 DEF Run
  <2> QED  BY <1>1, <1>15, <2>1, RunTyped DEF Typed
<1> QED  BY <1>14, <1>15, <1>16 DEF DeploymentInv
-----------------------------------------------------------------------------
(* What the operator does.                                                 *)

(* The operator acts when no tool runs, and the last report is gone.       *)
LEMMA ActFacts ==
  ASSUME DeploymentInv, Act
  PROVE  /\ run.tool = "none" /\ run = Idle
         /\ sent' \in [deploys : Nat, registers : Nat, tools : Nat]
         /\ sent'.deploys = sent.deploys /\ sent'.registers = sent.registers
         /\ report' = NoReport /\ Reported' /\ report'.step \in VerifySteps \cup {"none"}
<1>1. run.tool = "none" /\ sent' = [sent EXCEPT !.tools = @ + 1] /\ report' = NoReport
  BY DEF Act
<1>2. run = Idle
  BY <1>1, RunTyped DEF Placed
<1>3. sent \in [deploys : Nat, registers : Nat, tools : Nat]
  BY RunTyped DEF Typed
<1>4. report'.step = "none"
  BY <1>1 DEF NoReport
<1>5. Reported'
  BY <1>4 DEF Reported, CleanReport, FailsExactly
<1> QED  BY <1>1, <1>2, <1>3, <1>4, <1>5

(* A tool starts at its first step, with room for what it will send.       *)
LEMMA LaunchKeeps ==
  ASSUME DeploymentInv, NEW tool \in Tools \ {"none"}, NEW s \in Senders \cup {0},
         NEW step \in VerifySteps \cup {"none"}, NEW config \in BOOLEAN,
         Launch(tool, s, step, config)
  PROVE  DeploymentInv'
<1>1. /\ Act
      /\ tool \in {"pre-build", "full-setup"} => sent.deploys < MaxSenders
      /\ tool \in {"pre-build", "full-setup", "register-extension"} => sent.registers < MaxExts
      /\ tool = "post-build" => tee.ext # 0
      /\ UNCHANGED <<strict, pending, code, exts, bound, env, tee, settled, setup>>
  BY DEF Launch
<1>2. PICK g \in IF tool \in {"full-setup", "post-build"} THEN Governances ELSE {0} :
        run' = [Idle EXCEPT !.tool = tool, !.at = 1, !.sender = s, !.governance = g,
                            !.step = step, !.config = config]
  BY DEF Launch
<1>3. g \in Rules
  BY DEF Rules
<1>4. /\ run' \in Run /\ run'.tool = tool /\ run'.at = 1 /\ ~run'.waits /\ run'.sender = s
      /\ run'.ext = 0 /\ run'.counter = 0 /\ ~run'.skipped /\ run'.results = {}
  BY <1>2, <1>3, IdleRun DEF Run, Idle, Someone
<1>5. /\ sent' \in [deploys : Nat, registers : Nat, tools : Nat]
      /\ sent'.deploys = sent.deploys /\ sent'.registers = sent.registers
      /\ Reported' /\ report'.step \in VerifySteps \cup {"none"}
  BY <1>1, ActFacts
<1>6. Filed' /\ Remembered'
  BY <1>1, RunTyped DEF WorldInv, Filed, Remembered
<1>7. WorldInv'
  BY <1>1, <1>5, <1>6, RunTyped, WorldStays
<1>8. Typed'
  BY <1>1, <1>4, <1>5, RunTyped DEF Typed
<1>9. Placed'
  <2>1. Length(tool) >= 1 /\ Length(tool) \in Nat
    BY DEF Tools, Length
  <2> QED  BY <1>4, <2>1, StepPlaces DEF Placed
<1>10. Waiting'
  BY <1>4 DEF Waiting
<1>11. Registered(run', exts', code')
  <2>1. Stage(run') \in {1, 3}
    BY <1>4 DEF Stage
  <2> QED  BY <2>1 DEF Registered
<1>12. Unregistered(run', exts', pending')
  BY <1>4 DEF Unregistered
<1>13. Secured(run', exts', env', tee')
  <2>1. tool = "post-build" => tee.ext \in DOMAIN exts
    BY <1>1, RunTyped DEF WorldInv, Filed
  <2> QED  BY <1>1, <1>4, <2>1 DEF Secured
<1>14. Verified(run', exts', env')
  <2>1. Pass("R2", "match") \notin run'.results /\ Pass("R7", "unique") \notin run'.results
        /\ ~HasFailures(run'.results)
    BY <1>4 DEF HasFailures
  <2> QED  BY <1>4, <2>1, RunTyped DEF Verified, Typed
<1>15. Spare(run', sent')
  BY <1>1, <1>4, <1>5 DEF Spare, Registering, Fresh
<1> QED  BY <1>7, <1>8, <1>9, <1>10, <1>11, <1>12, <1>13, <1>14, <1>15
         DEF DeploymentInv, RunInv

(* extension.env edited by hand names an extension or nothing.             *)
LEMMA EditKeeps ==
  ASSUME DeploymentInv, EditEnv
  PROVE  DeploymentInv'
<1>1. /\ run.tool = "none" /\ env.exists /\ report' = NoReport
      /\ \/ \E id \in DOMAIN exts \cup {Absent, Malformed} :
              env' = [env EXCEPT !.id = id, !.edited = TRUE]
         \/ \E s \in {Absent, Malformed} : env' = [env EXCEPT !.sender = s, !.edited = TRUE]
      /\ UNCHANGED <<strict, pending, code, exts, bound, tee, run, sent, settled, setup>>
  BY DEF EditEnv
<1>2. run' = Idle
  BY <1>1, RunTyped DEF Placed
<1>3. /\ env \in [exists : BOOLEAN, id : Nat \cup Unread, sender : Senders \cup Unread,
                  edited : BOOLEAN]
      /\ env.id \in DOMAIN exts \cup Unread /\ exts \in Seq(Ext)
  BY RunTyped DEF Typed, WorldInv, Filed
<1>4. /\ env' \in [exists : BOOLEAN, id : Nat \cup Unread, sender : Senders \cup Unread,
                   edited : BOOLEAN]
      /\ env'.id \in DOMAIN exts \cup Unread /\ env'.exists /\ env'.edited
  <2>1. ASSUME NEW id \in DOMAIN exts \cup {Absent, Malformed},
               env' = [env EXCEPT !.id = id, !.edited = TRUE]
        PROVE  /\ env' \in [exists : BOOLEAN, id : Nat \cup Unread, sender : Senders \cup Unread,
                            edited : BOOLEAN]
               /\ env'.id \in DOMAIN exts \cup Unread /\ env'.exists /\ env'.edited
    <3>1. id \in Nat \cup Unread /\ id \in DOMAIN exts \cup Unread
      BY <1>3 DEF Unread
    <3> QED  BY <1>1, <1>3, <2>1, <3>1
  <2>2. ASSUME NEW s \in {Absent, Malformed},
               env' = [env EXCEPT !.sender = s, !.edited = TRUE]
        PROVE  /\ env' \in [exists : BOOLEAN, id : Nat \cup Unread, sender : Senders \cup Unread,
                            edited : BOOLEAN]
               /\ env'.id \in DOMAIN exts \cup Unread /\ env'.exists /\ env'.edited
    <3>1. s \in Senders \cup Unread
      BY DEF Unread
    <3> QED  BY <1>1, <1>3, <2>2, <3>1
  <2> QED  BY <1>1, <2>1, <2>2
<1>5. Filed' /\ Remembered'
  BY <1>1, <1>4, RunTyped DEF WorldInv, Filed, Remembered
<1>6. report'.step = "none"
  BY <1>1 DEF NoReport
<1>7. Reported'
  BY <1>6 DEF Reported, CleanReport, FailsExactly
<1>8. WorldInv'
  BY <1>1, <1>5, <1>7, RunTyped, WorldStays
<1>9. /\ run' \in Run /\ Placed' /\ Waiting'
      /\ RunInv(run, exts, code, pending, env, tee, sent)'
  BY <1>2, OverKeeps
<1>10. Typed'
  BY <1>1, <1>4, <1>6, <1>9, RunTyped DEF Typed
<1> QED  BY <1>8, <1>9, <1>10 DEF DeploymentInv

(* The services started by hand serve the extension of the file.           *)
LEMMA ByHandKeeps ==
  ASSUME DeploymentInv, StartByHand
  PROVE  DeploymentInv'
<1>1. Act /\ UNCHANGED <<strict, pending, code, exts, bound, env, run, settled, setup>>
  BY DEF StartByHand
<1>2. PICK g \in Governances : WellFormed(env.id) /\ tee' = [ext |-> env.id, governance |-> g]
  BY DEF StartByHand, Serve
<1>3. run' = Idle
  BY <1>1, ActFacts
<1>4. env.id \in DOMAIN exts /\ env.id \in Nat
  BY <1>2, WellFormedId
<1>5. tee' \in [ext : Nat, governance : Rules] /\ tee'.ext = env.id
  BY <1>2, <1>4 DEF Rules
<1>6. Filed' /\ Remembered'
  BY <1>1, <1>4, <1>5, RunTyped DEF WorldInv, Filed, Remembered
<1>7. WorldInv'
  BY <1>1, <1>6, RunTyped, ActFacts, WorldStays
<1>8. /\ run' \in Run /\ Placed' /\ Waiting'
      /\ RunInv(run, exts, code, pending, env, tee, sent)'
  BY <1>3, OverKeeps
<1>9. Typed'
  BY <1>1, <1>5, <1>8, RunTyped, ActFacts DEF Typed
<1> QED  BY <1>7, <1>8, <1>9 DEF DeploymentInv

(* Whatever the operator does.                                             *)
LEMMA OperatorKeeps ==
  ASSUME DeploymentInv, Operator
  PROVE  DeploymentInv'
<1>1. CASE \E tool \in Tools \ {"none", "verify-deploy"}, s \in Senders \cup {0} :
             Launch(tool, s, "none", FALSE)
  BY <1>1, LaunchKeeps
<1>2. CASE \E step \in VerifySteps, config \in BOOLEAN : Launch("verify-deploy", 0, step, config)
  <2>1. "verify-deploy" \in Tools \ {"none"}
    BY DEF Tools
  <2> QED  BY <1>2, <2>1, LaunchKeeps
<1>3. CASE Abort
  BY <1>3, FailKeeps DEF Abort
<1> QED  BY <1>1, <1>2, <1>3, EditKeeps, ByHandKeeps DEF Operator
-----------------------------------------------------------------------------
(* A transaction that is mined, whoever has sent it.                       *)

(* The transaction that is next, and those behind it.                      *)
LEMMA HeadIs ==
  ASSUME DeploymentInv, pending # <<>>
  PROVE  /\ Head(pending) = pending[1] /\ Head(pending) \in Tx /\ 1 \in DOMAIN pending
         /\ pending \in Seq(Tx) /\ Len(pending) \in Nat /\ Len(pending) >= 1
         /\ DOMAIN pending = 1..Len(pending)
         /\ Tail(pending) \in Seq(Tx) /\ Len(Tail(pending)) = Len(pending) - 1
         /\ DOMAIN Tail(pending) = 1..(Len(pending) - 1)
         /\ \A i \in 1..(Len(pending) - 1) : Tail(pending)[i] = pending[i + 1]
<1>1. pending \in Seq(Tx) /\ Len(pending) \in Nat /\ Len(pending) >= 1
      /\ DOMAIN pending = 1..Len(pending)
  BY RunTyped, EmptySeq DEF Typed
<1>2. /\ Head(pending) = pending[1] /\ 1 \in DOMAIN pending
      /\ Tail(pending) \in Seq(Tx) /\ Len(Tail(pending)) = Len(pending) - 1
      /\ \A i \in 1..Len(Tail(pending)) : Tail(pending)[i] = pending[i + 1]
  BY <1>1, HeadTailProperties
<1>3. Head(pending) \in Tx
  BY <1>1, <1>2
<1>4. DOMAIN Tail(pending) = 1..(Len(pending) - 1)
  BY <1>2
<1> QED  BY <1>1, <1>2, <1>3, <1>4

(* What any transaction does to the chain, mined well or reverted.         *)
Changes(t, x, y, c, d) ==
  /\ y \in Seq(Ext) /\ Grows(x, y)
  /\ \A i \in DOMAIN y :
       \/ i \in DOMAIN x
       \/ t.op = "register" /\ i = Len(x) + 1 /\ y[i].sender = t.sender /\ ~y[i].machine
  /\ Len(y) <= Len(x) + (IF t.op = "register" THEN 1 ELSE 0)
  /\ \A i \in DOMAIN x : y[i].machine => y[i].version
  /\ c \subseteq d /\ d \subseteq c \cup (IF t.op = "deploy" THEN {t.sender} ELSE {})

(* Mine changes the chain as Changes says.                                 *)
LEMMA MineChanges ==
  ASSUME DeploymentInv, NEW ok \in BOOLEAN, Mine(ok)
  PROVE  /\ pending # <<>>
         /\ Changes(Head(pending), exts, exts', code, code')
         /\ ok => Effect(Head(pending), exts, exts')
         /\ bound' \in [Senders -> Nat]
         /\ \A s \in Senders : bound'[s] = bound[s] \/ First(exts', s, bound'[s])
<1> DEFINE t == Head(pending)
<1>1. /\ pending # <<>>
      /\ ok => Accepted(t) /\ Apply(t)
      /\ ~ok => UNCHANGED <<code, exts, bound>>
  BY DEF Mine
<1>2. t \in Tx /\ t = pending[1] /\ 1 \in DOMAIN pending
  BY <1>1, HeadIs
<1>3. /\ t.op \in ExtOps => t.ext \in DOMAIN exts
      /\ t.op = "register" => t.sender \in code
      /\ t.op = "bind" => t.sender \in Senders
  BY <1>2, RunTyped DEF WorldInv, Queued
<1>4. exts \in Seq(Ext) /\ Len(exts) \in Nat /\ code \subseteq Senders /\ bound \in [Senders -> Nat]
  BY RunTyped DEF Typed
<1>5. Deployed /\ Typed
  BY RunTyped DEF WorldInv
<1> HIDE DEF t
<1>6. CASE ok
  <2>1. Effect(t, exts, exts')
    BY <1>1, <1>2, <1>3, <1>4, <1>5, <1>6, Applied
  <2>2. code' = IF t.op = "deploy" THEN code \cup {t.sender} ELSE code
    BY <1>1, <1>6 DEF Apply
  <2>3. Changes(t, exts, exts', code, code')
    BY <1>4, <2>1, <2>2 DEF Changes, Effect
  <2>4. CASE t.op = "bind"
    <3>1. Matching(t.sender) # {} /\ exts' = exts
          /\ bound' = [bound EXCEPT ![t.sender] = FirstMatch(t.sender)]
      BY <1>1, <1>6, <2>4 DEF Accepted, Apply
    <3>2. First(exts, t.sender, FirstMatch(t.sender))
      BY <1>4, <3>1, FirstMatchIsFirst
    <3>3. FirstMatch(t.sender) \in Nat
      BY <1>4, <3>2 DEF First
    <3>4. bound' \in [Senders -> Nat]
          /\ \A s \in Senders : bound'[s] = IF s = t.sender THEN FirstMatch(t.sender) ELSE bound[s]
      BY <1>3, <1>4, <2>4, <3>1, <3>3
    <3> QED  BY <1>1, <2>1, <2>3, <3>1, <3>2, <3>4 DEF t
  <2>5. CASE t.op # "bind"
    <3>1. bound' = bound
      BY <1>1, <1>6, <2>5 DEF Apply
    <3> QED  BY <1>1, <1>4, <2>1, <2>3, <3>1 DEF t
  <2> QED  BY <2>4, <2>5
<1>7. CASE ~ok
  <2>1. exts' = exts /\ code' = code /\ bound' = bound
    BY <1>1, <1>7
  <2>2. Grows(exts, exts')
    BY <1>4, <2>1 DEF Grows
  <2>3. \A i \in DOMAIN exts : exts'[i].machine => exts'[i].version
    BY <1>5, <2>1 DEF Deployed
  <2>4. Changes(t, exts, exts', code, code')
    BY <1>4, <2>1, <2>2, <2>3 DEF Changes
  <2> QED  BY <1>1, <1>4, <1>7, <2>1, <2>4 DEF t
<1> QED  BY <1>6, <1>7

(* What is mined keeps the invariant of all but the run.                   *)
LEMMA MineWorld ==
  ASSUME DeploymentInv, NEW ok \in BOOLEAN, Mine(ok), run' \in Run
  PROVE  Typed' /\ WorldInv'
<1> DEFINE t == Head(pending)
<1>1. /\ pending # <<>> /\ pending' = Tail(pending)
      /\ UNCHANGED <<strict, env, tee, sent, report, settled, setup>>
  BY DEF Mine
<1>2. /\ Changes(t, exts, exts', code, code')
      /\ bound' \in [Senders -> Nat]
      /\ \A s \in Senders : bound'[s] = bound[s] \/ First(exts', s, bound'[s])
  BY MineChanges
<1>3. /\ t \in Tx /\ t = pending[1] /\ 1 \in DOMAIN pending
      /\ Len(pending) \in Nat /\ Len(pending) >= 1 /\ DOMAIN pending = 1..Len(pending)
      /\ pending \in Seq(Tx)
      /\ pending' \in Seq(Tx) /\ DOMAIN pending' = 1..(Len(pending) - 1)
      /\ \A i \in 1..(Len(pending) - 1) : pending'[i] = pending[i + 1]
  BY <1>1, HeadIs
<1>4. /\ t.op = "deploy" => t.sender \in 1..sent.deploys
      /\ t.op = "register" => t.sender \in code
  BY <1>3, RunTyped DEF WorldInv, Queued
<1>5. /\ exts \in Seq(Ext) /\ Len(exts) \in Nat /\ DOMAIN exts = 1..Len(exts)
      /\ code \subseteq Senders /\ sent \in [deploys : Nat, registers : Nat, tools : Nat]
      /\ code \subseteq 1..sent.deploys /\ sent.deploys <= MaxSenders /\ MaxSenders \in Nat
      /\ WorldInv /\ Typed
  BY RunTyped, DeploymentAssumption DEF WorldInv, Typed, Deployed, Counted
<1> HIDE DEF t
<1>6. /\ exts' \in Seq(Ext) /\ Grows(exts, exts') /\ code \subseteq code'
      /\ DOMAIN exts \subseteq DOMAIN exts' /\ Len(exts') \in Nat
  BY <1>2, <1>5, GrowsDomain DEF Changes
<1>7. code' \subseteq 1..sent.deploys /\ code' \subseteq Senders
  BY <1>2, <1>4, <1>5 DEF Changes, Senders
<1>8. Typed'
  BY <1>1, <1>2, <1>3, <1>5, <1>6, <1>7 DEF Typed
<1>9. Deployed'
  <2>1. ASSUME NEW i \in DOMAIN exts'
        PROVE  exts'[i].sender \in code' /\ (exts'[i].machine => exts'[i].version)
    <3>1. CASE i \in DOMAIN exts
      <4>1. exts[i].sender \in code
        BY <1>5, <3>1 DEF WorldInv, Deployed
      <4>2. exts'[i].sender = exts[i].sender
        BY <1>6, <3>1 DEF Grows
      <4> QED  BY <1>2, <1>6, <3>1, <4>1, <4>2 DEF Changes
    <3>2. CASE i \notin DOMAIN exts
      <4>1. t.op = "register" /\ exts'[i].sender = t.sender /\ ~exts'[i].machine
        BY <1>2, <3>2 DEF Changes
      <4> QED  BY <1>4, <1>6, <4>1
    <3> QED  BY <3>1, <3>2
  <2> QED  BY <1>1, <1>7, <2>1 DEF Deployed
<1>10. Queued'
  <2>1. ASSUME NEW i \in DOMAIN pending'
        PROVE  LET u == pending'[i] IN
               /\ u.ext \in DOMAIN exts' \cup {0}
               /\ u.op \in ExtOps => u.ext \in DOMAIN exts'
               /\ u.op = "deploy" => u.sender \in 1..sent.deploys
               /\ u.op = "register" => u.sender \in code'
               /\ u.op = "bind" => u.sender \in Senders
    <3>1. i + 1 \in DOMAIN pending /\ pending'[i] = pending[i + 1]
      BY <1>3
    <3> QED  BY <1>5, <1>6, <3>1 DEF WorldInv, Queued
  <2> QED  BY <1>1, <2>1 DEF Queued
<1>11. Counted'
  <2> DEFINE a == IF t.op = "register" THEN 1 ELSE 0
             m == Cardinality(Registrations(pending))
             n == Cardinality(Registrations(pending'))
  <2>1. n + a <= m
    BY <1>1, <1>3, OneLess DEF t
  <2>2. m \in Nat /\ n \in Nat /\ a \in Nat
    BY <1>3, RegistrationsFinite
  <2>3. Len(exts') <= Len(exts) + a
    BY <1>2 DEF Changes
  <2>4. Len(exts) + m <= sent.registers /\ sent.registers <= MaxExts
    BY <1>5 DEF WorldInv, Counted
  <2>5. sent.registers \in Nat
    BY <1>5
  <2> HIDE DEF a, m, n
  <2>6. Len(exts') + n <= sent.registers
    BY <1>5, <1>6, <2>1, <2>2, <2>3, <2>4, <2>5
  <2> QED  BY <1>1, <1>5, <2>4, <2>6 DEF Counted, n
<1>12. BoundFirst'
  <2>1. ASSUME NEW s \in Senders
        PROVE  bound'[s] = 0 \/ First(exts', s, bound'[s])
    <3>1. CASE bound'[s] = bound[s] /\ bound[s] # 0
      <4>1. First(exts, s, bound[s])
        BY <1>5, <3>1 DEF WorldInv, BoundFirst
      <4> QED  BY <1>5, <1>6, <3>1, <4>1, FirstStays
    <3> QED  BY <1>2, <3>1
  <2> QED  BY <2>1 DEF BoundFirst
<1>13. Filed'
  <2>1. Works(exts, code, env.id, env.sender) => Works(exts', code', env.id, env.sender)
    BY <1>5, <1>6, WorksStays
  <2> QED  BY <1>1, <1>5, <1>6, <2>1 DEF WorldInv, Filed
<1>14. Reported'
  <2> SUFFICES ASSUME CleanReport
               PROVE  /\ PreflightPasses(report.settings)
                      /\ report.env.id \in DOMAIN exts' /\ WellFormed(report.env.sender)
                      /\ LET e == exts'[report.env.id] IN
                         e.sender = report.env.sender /\ e.owner /\ e.key
    <3>1. FailsExactly(report')
      BY <1>1, RunTyped DEF WorldInv, Reported
    <3> QED  BY <1>1, <3>1 DEF Reported, CleanReport
  <2> QED  BY <1>5, <1>6 DEF WorldInv, Reported, Grows
<1>15. Remembered'
  <2>1. ASSUME NEW p \in settled
        PROVE  p[1] \in Senders /\ First(exts', p[1], p[2])
    <3>1. p[1] \in Senders /\ First(exts, p[1], p[2])
      BY <1>5 DEF WorldInv, Remembered
    <3> QED  BY <1>5, <1>6, <3>1, FirstStays
  <2>2. ASSUME setup.ext # 0
        PROVE  /\ setup.sender \in Senders
               /\ First(exts', setup.sender, setup.ext) /\ exts'[setup.ext].machine
    <3>1. /\ setup.sender \in Senders
          /\ First(exts, setup.sender, setup.ext) /\ exts[setup.ext].machine
      BY <1>5, <2>2 DEF WorldInv, Remembered
    <3>2. First(exts', setup.sender, setup.ext)
      BY <1>5, <1>6, <3>1, FirstStays
    <3> QED  BY <1>6, <3>1, <3>2 DEF First, Grows
  <2> QED  BY <1>1, <2>1, <2>2 DEF Remembered
<1> QED  BY <1>8, <1>9, <1>10, <1>11, <1>12, <1>13, <1>14, <1>15 DEF WorldInv
(* What is known of a run stays so while the chain grows.                  *)
LEMMA RunGrows ==
  ASSUME DeploymentInv, NEW y \in Seq(Ext), NEW d, Grows(exts, y), code \subseteq d
  PROVE  Registered(run, y, d) /\ Secured(run, y, env, tee) /\ Verified(run, y, env)
<1>1. /\ exts \in Seq(Ext) /\ Len(exts) \in Nat /\ DOMAIN exts = 1..Len(exts)
      /\ RunInv(run, exts, code, pending, env, tee, sent) /\ run \in Run
      /\ env.id \in DOMAIN exts \cup Unread /\ tee.ext \in DOMAIN exts \cup {0}
  BY RunTyped DEF Typed, WorldInv, Filed
<1>2. DOMAIN exts \subseteq DOMAIN y
  BY <1>1, GrowsDomain
<1>3. Registered(run, y, d)
  <2>1. Registered(run, exts, code)
    BY <1>1 DEF RunInv
  <2>2. ASSUME Stage(run) \in 5..8, run.tool \in Registering
        PROVE  run.ext \in DOMAIN exts
    BY <2>1, <2>2 DEF Registered
  <2> QED  BY <1>2, <2>1, <2>2 DEF Registered, Grows
<1>4. Secured(run, y, env, tee)
  <2>1. Secured(run, exts, env, tee)
    BY <1>1 DEF RunInv
  <2>2. \A s, e : First(exts, s, e) => First(y, s, e)
    BY <1>1, FirstStays
  <2>3. run.tool = "full-setup" /\ run.at = 13 => y[tee.ext].machine
    <3> SUFFICES ASSUME run.tool = "full-setup", run.at = 13  PROVE  y[tee.ext].machine
      OBVIOUS
    <3>1. First(exts, run.sender, env.id) /\ tee.ext = env.id /\ exts[tee.ext].machine
      BY <2>1 DEF Secured
    <3>2. tee.ext \in DOMAIN exts
      BY <3>1 DEF First
    <3> QED  BY <3>1, <3>2 DEF Grows
  <2> QED  BY <1>2, <2>1, <2>2, <2>3 DEF Secured
<1>5. Verified(run, y, env)
  <2>1. Verified(run, exts, env)
    BY <1>1 DEF RunInv
  <2>2. Len(exts) <= Len(y) /\ Len(y) \in Nat /\ run.counter \in Nat
    BY <1>1 DEF Grows, Run
  <2>3. WellFormed(env.id) => env.id \in DOMAIN exts
    BY WellFormedId
  <2>4. WellFormed(env.id) =>
          /\ y[env.id].sender = exts[env.id].sender
          /\ exts[env.id].owner => y[env.id].owner
          /\ exts[env.id].key => y[env.id].key
    BY <2>3 DEF Grows
  <2>5. run.counter <= Len(exts) + 1 =>
          \A i \in DOMAIN y : i < run.counter =>
            i \in DOMAIN exts /\ y[i].sender = exts[i].sender
    <3> SUFFICES ASSUME run.counter <= Len(exts) + 1, NEW i \in DOMAIN y, i < run.counter
                 PROVE  i \in DOMAIN exts /\ y[i].sender = exts[i].sender
      OBVIOUS
    <3>1. i \in DOMAIN exts
      BY <1>1, <2>2
    <3> QED  BY <3>1 DEF Grows
  <2>6. run.tool = "verify-deploy" => run.counter <= Len(y) + 1
    BY <1>1, <2>1, <2>2 DEF Verified
  <2> QED  BY <2>1, <2>4, <2>5, <2>6 DEF Verified
<1> QED  BY <1>3, <1>4, <1>5

(* Nobody but the run itself registers its contract before it has.         *)
LEMMA OthersMined ==
  ASSUME DeploymentInv, NEW ok \in BOOLEAN, Mine(ok),
         ~(run.waits /\ Len(pending) = 1), UNCHANGED run
  PROVE  /\ run' \in Run /\ Placed' /\ Waiting'
         /\ RunInv(run, exts, code, pending, env, tee, sent)'
<1> DEFINE t == Head(pending)
<1>1. /\ pending # <<>> /\ pending' = Tail(pending)
      /\ UNCHANGED <<strict, env, tee, sent, report, settled, setup>>
  BY DEF Mine
<1>2. Changes(t, exts, exts', code, code')
  BY MineChanges
<1>3. /\ t = pending[1] /\ 1 \in DOMAIN pending
      /\ Len(pending) \in Nat /\ Len(pending) >= 1 /\ DOMAIN pending = 1..Len(pending)
      /\ pending' \in Seq(Tx) /\ DOMAIN pending' = 1..(Len(pending) - 1)
      /\ Len(pending') = Len(pending) - 1
      /\ \A i \in 1..(Len(pending) - 1) : pending'[i] = pending[i + 1]
  BY <1>1, HeadIs
<1>4. /\ exts' \in Seq(Ext) /\ Grows(exts, exts') /\ code \subseteq code'
      /\ exts \in Seq(Ext) /\ Len(exts) \in Nat
      /\ \A i \in DOMAIN exts' :
           \/ i \in DOMAIN exts
           \/ t.op = "register" /\ exts'[i].sender = t.sender
  BY <1>2, RunTyped DEF Changes, Typed
<1>5. run \in Run /\ Placed /\ Waiting /\ RunInv(run, exts, code, pending, env, tee, sent)
  BY RunTyped
<1> HIDE DEF t
<1>6. Placed'
  BY <1>5 DEF Placed
<1>7. run.waits => Len(pending) >= 2
  BY <1>3
<1>8. Waiting'
  <2> SUFFICES ASSUME run.waits
               PROVE  /\ pending' # <<>>
                      /\ LET u == pending'[Len(pending')] IN
                         u.op = Step /\ u.sender = run.sender /\ u.ext = run.ext
    BY DEF Waiting, Step
  <2>1. Len(pending') \in 1..(Len(pending) - 1)
    BY <1>3, <1>7
  <2>2. pending' # <<>>
    BY <1>3, <2>1
  <2>3. pending'[Len(pending')] = pending[Len(pending)]
    BY <1>3, <2>1
  <2> QED  BY <1>5, <2>2, <2>3 DEF Waiting
<1>9. Unregistered(run', exts', pending')
  <2> SUFFICES ASSUME run.tool \in Fresh, run.at \in 2..4, run.at = 2 => run.waits
               PROVE  /\ \A i \in DOMAIN exts' : exts'[i].sender # run.sender
                      /\ \A i \in DOMAIN pending' :
                           pending'[i].op = "register" /\ pending'[i].sender = run.sender
                             => run.at = 4 /\ run.waits /\ i = Len(pending')
    BY DEF Unregistered
  <2>1. /\ \A i \in DOMAIN exts : exts[i].sender # run.sender
        /\ \A i \in DOMAIN pending :
             pending[i].op = "register" /\ pending[i].sender = run.sender
               => run.at = 4 /\ run.waits /\ i = Len(pending)
    BY <1>5 DEF RunInv, Unregistered
  <2>2. ~(t.op = "register" /\ t.sender = run.sender)
    BY <1>3, <1>7, <2>1
  <2>3. \A i \in DOMAIN exts' : exts'[i].sender # run.sender
    BY <1>4, <2>1, <2>2 DEF Grows
  <2>4. ASSUME NEW i \in DOMAIN pending', pending'[i].op = "register",
               pending'[i].sender = run.sender
        PROVE  run.at = 4 /\ run.waits /\ i = Len(pending')
    <3>1. i + 1 \in DOMAIN pending /\ pending'[i] = pending[i + 1] /\ i \in Nat
      BY <1>3
    <3>2. run.at = 4 /\ run.waits /\ i + 1 = Len(pending)
      BY <2>1, <2>4, <3>1
    <3> QED  BY <1>3, <3>1, <3>2
  <2> QED  BY <2>3, <2>4
<1>10. Registered(run, exts', code') /\ Secured(run, exts', env, tee) /\ Verified(run, exts', env)
  BY <1>4, RunGrows
<1>11. Spare(run, sent)
  BY <1>5 DEF RunInv
<1> QED  BY <1>1, <1>5, <1>6, <1>8, <1>9, <1>10, <1>11 DEF RunInv
-----------------------------------------------------------------------------
(* The run goes on with the receipt of what it has sent.                   *)

(* Its next step finds what the transaction was sent for: the proof splits *)
(* by the call.                                                            *)
LEMMA OwnMined ==
  ASSUME DeploymentInv, NEW ok \in BOOLEAN, Mine(ok), run.waits, Len(pending) = 1,
         NEW r \in Run, r.tool = run.tool, r.at = run.at, ~r.waits, r.sender = run.sender,
         r.ext = IF Head(pending).op = "register" THEN Len(exts) + 1 ELSE run.ext,
         ok \/ Head(pending).op \in {"version", "bind"},
         r.at # Length(r.tool)
  PROVE  RunInv(Moved(r), exts', code', pending', env', tee', sent')
<1> DEFINE t == Head(pending)
           k == Moved(r)
<1>1. /\ pending # <<>> /\ pending' = Tail(pending)
      /\ UNCHANGED <<strict, env, tee, sent, report, settled, setup>>
  BY DEF Mine
<1>2. /\ Changes(t, exts, exts', code, code')
      /\ ok => Effect(t, exts, exts')
      /\ ok => code' = IF t.op = "deploy" THEN code \cup {t.sender} ELSE code
  BY MineChanges DEF Mine, Apply
<1>3. /\ t = pending[1] /\ pending' \in Seq(Tx) /\ DOMAIN pending' = {} /\ t \in Tx
  <2>1. /\ t = pending[1] /\ pending' \in Seq(Tx) /\ t \in Tx
        /\ DOMAIN pending' = 1..(Len(pending) - 1)
    BY <1>1, HeadIs
  <2> QED  BY <2>1
<1>4. t.op = Step /\ t.sender = run.sender /\ t.ext = run.ext
  BY <1>3, RunTyped DEF Waiting
<1>5. /\ run \in Run /\ run.at \in Nat /\ run.tool # "none" /\ run.at \in 1..Length(run.tool)
      /\ PlacesOf(run.tool, run.at, t.op)
  <2>1. t.op # "none"
    BY <1>3 DEF Tx, Ops, ExtOps
  <2> QED  BY <1>4, <2>1, RunTyped, Place
<1>6. /\ k \in Run /\ k.at = run.at + 1 /\ k.tool = run.tool /\ ~k.waits
      /\ k.sender = run.sender /\ k.ext = r.ext
  BY <1>5, Moves
<1>7. /\ exts' \in Seq(Ext) /\ Grows(exts, exts') /\ code \subseteq code'
      /\ exts \in Seq(Ext) /\ Len(exts) \in Nat /\ DOMAIN exts = 1..Len(exts)
      /\ DOMAIN exts \subseteq DOMAIN exts'
      /\ \A i \in DOMAIN exts' :
           i \in DOMAIN exts \/ (t.op = "register" /\ i = Len(exts) + 1)
  <2>1. exts \in Seq(Ext)
    BY RunTyped DEF Typed
  <2>2. exts' \in Seq(Ext) /\ Grows(exts, exts')
    BY <1>2 DEF Changes
  <2>3. Len(exts) \in Nat /\ DOMAIN exts = 1..Len(exts)
    BY <2>1
  <2>4. DOMAIN exts \subseteq DOMAIN exts'
    BY <2>1, <2>2, GrowsDomain
  <2> HIDE DEF t
  <2>5. code \subseteq code'
        /\ \A i \in DOMAIN exts' :
             i \in DOMAIN exts \/ (t.op = "register" /\ i = Len(exts) + 1)
    BY <1>2 DEF Changes
  <2> QED  BY <2>1, <2>2, <2>3, <2>4, <2>5
<1>8. Registered(run, exts', code') /\ Secured(run, exts', env, tee)
  BY <1>7, RunGrows
<1>9. Unregistered(run, exts, pending) /\ Spare(run, sent)
  BY RunTyped DEF RunInv
<1>10. r.ext = IF t.op = "register" THEN Len(exts) + 1 ELSE run.ext
  OBVIOUS
<1>11. ok \/ t.op \in {"version", "bind"}
  OBVIOUS
<1>12. r.at # Length(r.tool) /\ r.at = run.at /\ r.tool = run.tool
  OBVIOUS
<1>13. Stage(k) = Stage(run) + 1
  BY <1>5, <1>6 DEF Stage
<1>14. tee.ext \in DOMAIN exts \cup {0}
  BY RunTyped DEF WorldInv, Filed
<1> HIDE DEF t, k
<1>15. run.tool # "verify-deploy"
  BY <1>3, <1>5 DEF PlacesOf, Tx, Ops, ExtOps, Registering, Fresh, Building
<1>16. Verified(k, exts', env)
  BY <1>6, <1>15 DEF Verified
<1>17. t.op \notin {"deploy", "register"} =>
         (run.tool \in Fresh => run.at >= 5) /\ (run.tool \in Registering => Stage(run) >= 5)
  BY <1>3, <1>5 DEF PlacesOf, Tx, Ops, ExtOps, Registering, Fresh, Building, Stage
<1>18. Spare(k, sent)
  <2>1. CASE t.op = "deploy"
    <3>1. run.tool \in Fresh /\ run.at = 2 /\ run.tool \in Registering
      BY <1>5, <2>1 DEF PlacesOf, Registering
    <3>2. Stage(run) = 2
      BY <3>1 DEF Stage, Fresh
    <3>3. sent.registers < MaxExts
      BY <1>9, <3>1, <3>2 DEF Spare
    <3> QED  BY <1>6, <3>1, <3>3 DEF Spare
  <2>2. CASE t.op # "deploy"
    <3>1. run.tool \in Registering => Stage(run) >= 4 /\ Stage(run) \in Nat
      <4>1. t.op = "register" => Stage(run) = 4
        BY <1>5 DEF PlacesOf, Stage, Registering, Fresh
      <4>2. Stage(run) \in Nat
        BY <1>5 DEF Stage
      <4> QED  BY <1>17, <2>2, <4>1, <4>2
    <3>2. run.tool \in Fresh => run.at >= 4
      BY <3>1 DEF Stage, Fresh, Registering
    <3> QED  BY <1>5, <1>6, <1>13, <3>1, <3>2 DEF Spare
  <2> QED  BY <2>1, <2>2
<1>19. Unregistered(k, exts', pending')
  <2>1. CASE t.op = "deploy"
    <3>1. run.tool \in Fresh /\ run.at = 2
      BY <1>5, <2>1 DEF PlacesOf
    <3>2. \A i \in DOMAIN exts : exts[i].sender # run.sender
      BY <1>9, <3>1 DEF Unregistered
    <3>3. \A i \in DOMAIN exts' : exts'[i].sender # run.sender
      BY <1>7, <2>1, <3>2 DEF Grows
    <3> QED  BY <1>3, <1>6, <3>3 DEF Unregistered
  <2>2. CASE t.op = "register"
    <3>1. run.tool \in Fresh => run.at = 4
      BY <1>5, <2>2 DEF PlacesOf
    <3> QED  BY <1>6, <3>1 DEF Unregistered
  <2>3. CASE t.op \notin {"deploy", "register"}
    BY <1>5, <1>6, <1>17, <2>3 DEF Unregistered
  <2> QED  BY <2>1, <2>2, <2>3
<1>20. Registered(k, exts', code')
  <2>1. CASE t.op = "deploy"
    <3>1. Stage(run) = 2
      BY <1>5, <2>1 DEF PlacesOf, Stage, Fresh
    <3> QED  BY <1>13, <3>1 DEF Registered
  <2>2. CASE t.op = "register"
    <3>1. run.tool \in Registering /\ Stage(run) = 4
      BY <1>5, <2>2 DEF PlacesOf, Stage, Registering, Fresh
    <3>2. run.sender \in code'
      BY <1>8, <3>1 DEF Registered
    <3>3. /\ Len(exts) + 1 \in DOMAIN exts' /\ exts'[Len(exts) + 1].sender = run.sender
      BY <1>2, <1>4, <1>7, <1>11, <2>2 DEF Effect
    <3> QED  BY <1>6, <1>10, <1>13, <2>2, <3>1, <3>2, <3>3 DEF Registered
  <2>3. CASE t.op \in {"owner", "project", "key"}
    <3>1. run.tool \in Registering
          /\ Stage(run) = (CASE t.op = "owner" -> 5 [] t.op = "project" -> 6 [] t.op = "key" -> 7)
      BY <1>5, <2>3 DEF PlacesOf, Stage, Registering, Fresh
    <3>2. k.ext = run.ext
      BY <1>6, <1>10, <2>3
    <3>3. /\ t.op = "owner" => exts'[run.ext].owner
          /\ t.op = "project" => exts'[run.ext].project
          /\ t.op = "key" => exts'[run.ext].key
      BY <1>2, <1>4, <1>11 DEF Effect
    <3>4. /\ run.sender \in code' /\ run.ext \in DOMAIN exts'
          /\ exts'[run.ext].sender = run.sender
          /\ t.op \in {"project", "key"} => exts'[run.ext].owner
          /\ t.op = "key" => exts'[run.ext].project
      BY <1>8, <2>3, <3>1 DEF Registered
    <3> QED  BY <1>6, <1>13, <2>3, <3>1, <3>2, <3>3, <3>4 DEF Registered
  <2>4. CASE t.op \in {"version", "governance", "machine"}
    <3>1. run.tool \in Registering => Stage(run) >= 10
      BY <1>5, <2>4 DEF PlacesOf, Stage, Registering, Fresh, Building
    <3>2. Stage(run) \in Nat
      BY <1>5 DEF Stage
    <3> QED  BY <1>6, <1>8, <1>13, <3>1, <3>2 DEF Registered
  <2>5. CASE t.op = "bind"
    BY <1>5, <1>6, <2>5 DEF Registered, PlacesOf, Registering, Fresh
  <2> QED  BY <1>3, <2>1, <2>2, <2>3, <2>4, <2>5 DEF Tx, Ops, ExtOps
<1>21. Secured(k, exts', env, tee)
  <2>1. CASE t.op = "deploy"
    <3>1. run.tool \in Fresh /\ run.at = 2 /\ k.ext = run.ext
      BY <1>5, <1>6, <1>10, <2>1 DEF PlacesOf
    <3> QED  BY <1>6, <1>8, <3>1 DEF Secured, Fresh
  <2>2. CASE t.op = "register"
    <3>1. run.tool \in Registering /\ (run.tool \in Fresh => run.at = 4)
      BY <1>5, <2>2 DEF PlacesOf
    <3>2. /\ Len(exts) + 1 \in DOMAIN exts' /\ exts'[Len(exts) + 1].sender = run.sender
          /\ k.ext = Len(exts) + 1
      BY <1>2, <1>4, <1>6, <1>7, <1>10, <1>11, <2>2 DEF Effect
    <3>3. run.tool \in Fresh => First(exts', run.sender, Len(exts) + 1)
      <4> SUFFICES ASSUME run.tool \in Fresh  PROVE  First(exts', run.sender, Len(exts) + 1)
        OBVIOUS
      <4>1. \A i \in DOMAIN exts : exts[i].sender # run.sender
        BY <1>9, <3>1 DEF Unregistered
      <4>2. \A i \in DOMAIN exts' : exts'[i].sender = run.sender => i = Len(exts) + 1
        BY <1>7, <4>1 DEF Grows
      <4> QED  BY <1>7, <3>2, <4>2 DEF First
    <3> QED  BY <1>5, <1>6, <3>1, <3>2, <3>3 DEF Secured, Registering, Fresh
  <2>3. CASE t.op \in {"owner", "project", "key"}
    <3>1. run.tool \in Registering /\ (run.tool \in Fresh => run.at \in 5..7)
          /\ k.ext = run.ext
      BY <1>5, <1>6, <1>10, <2>3 DEF PlacesOf
    <3> QED  BY <1>6, <1>8, <3>1 DEF Secured, Registering, Fresh
  <2>4. CASE t.op \in {"version", "governance", "machine"}
    <3>1. run.tool \in Building /\ k.ext = run.ext
          /\ (run.tool = "full-setup" => run.at \in 10..12)
          /\ (run.tool = "full-setup" /\ run.at = 12 => t.op = "machine")
      BY <1>5, <1>6, <1>10, <2>4 DEF PlacesOf
    <3>2. run.tool = "full-setup" =>
            /\ env.sender = run.sender /\ First(exts', run.sender, env.id)
            /\ tee.ext = env.id /\ run.ext = tee.ext
      BY <1>5, <1>8, <3>1 DEF Secured
    <3>3. run.tool = "full-setup" /\ run.at = 12 => exts'[tee.ext].machine
      BY <1>2, <1>4, <1>11, <3>1, <3>2 DEF Effect
    <3> QED  BY <1>5, <1>6, <1>8, <3>1, <3>2, <3>3 DEF Secured, Building, Fresh
  <2>5. CASE t.op = "bind"
    BY <1>5, <1>12, <2>5 DEF PlacesOf, Length
  <2> QED  BY <1>3, <2>1, <2>2, <2>3, <2>4, <2>5 DEF Tx, Ops, ExtOps
<1>22. RunInv(k, exts', code', pending', env, tee, sent)
  BY <1>16, <1>18, <1>19, <1>20, <1>21 DEF RunInv
<1> QED  BY <1>1, <1>22 DEF k

(* What the run reads in the receipt of its own transaction.               *)
LEMMA ReceiptKeeps ==
  ASSUME DeploymentInv, NEW ok \in BOOLEAN, Mine(ok), run.waits, Len(pending) = 1,
         NEW n, n = (IF Head(pending).op = "register" THEN [run EXCEPT !.ext = RegisteredId]
                     ELSE run),
         ok \/ Head(pending).op \in {"version", "bind"},
         run' = AfterStep([n EXCEPT !.waits = FALSE])
  PROVE  /\ run' \in Run /\ Placed' /\ Waiting'
         /\ RunInv(run, exts, code, pending, env, tee, sent)'
<1> DEFINE r == [n EXCEPT !.waits = FALSE]
<1>1. /\ run \in Run /\ Placed /\ Waiting /\ run.waits
      /\ exts \in Seq(Ext) /\ Len(exts) \in Nat /\ pending # <<>>
  BY RunTyped DEF Typed, Mine
<1>2. RegisteredId = Len(exts) + 1
  BY DEF RegisteredId
<1>3. n \in Run /\ n.tool = run.tool /\ n.at = run.at /\ n.sender = run.sender
      /\ n.ext = (IF Head(pending).op = "register" THEN Len(exts) + 1 ELSE run.ext)
  BY <1>1, <1>2 DEF Run
<1>4. r \in Run /\ r.tool = run.tool /\ r.at = run.at /\ r.sender = run.sender /\ ~r.waits
      /\ r.ext = (IF Head(pending).op = "register" THEN Len(exts) + 1 ELSE run.ext)
  BY <1>3 DEF Run
<1>5. run.at \in 1..Length(run.tool)
  <2>1. run.tool # "none"
    BY <1>1 DEF Placed, Idle
  <2> QED  BY <2>1, RunTyped, Place
<1>6. run' = AfterStep(r)
  OBVIOUS
<1> HIDE DEF r
<1>7. r.at # Length(r.tool) => RunInv(Moved(r), exts', code', pending', env', tee', sent')
  BY <1>4, OwnMined
<1> QED  BY <1>4, <1>5, <1>6, <1>7, StepKeeps

(* A transaction of the run or of one that is over, mined well or          *)
(* reverted.                                                               *)
LEMMA MineKeeps ==
  ASSUME DeploymentInv, NEW ok \in BOOLEAN, Mine(ok)
  PROVE  DeploymentInv'
<1> DEFINE t == Head(pending)
           mine == run.waits /\ Len(pending) = 1
           new == IF t.op = "register" THEN [run EXCEPT !.ext = RegisteredId] ELSE run
<1>1. \/ mine /\ ok /\ run' = AfterStep([new EXCEPT !.waits = FALSE])
      \/ mine /\ ~ok /\ run' = Idle
      \/ mine /\ ~ok /\ t.op \in {"version", "bind"} /\ run' = AfterStep([run EXCEPT !.waits = FALSE])
      \/ ~mine /\ UNCHANGED run
  BY DEF Mine, Succeeded
<1>2. /\ run' \in Run /\ Placed' /\ Waiting'
      /\ RunInv(run, exts, code, pending, env, tee, sent)'
  <2>1. CASE mine /\ ok /\ run' = AfterStep([new EXCEPT !.waits = FALSE])
    BY <2>1, ReceiptKeeps
  <2>2. CASE mine /\ ~ok /\ run' = Idle
    BY <2>2, OverKeeps
  <2>3. CASE mine /\ ~ok /\ t.op \in {"version", "bind"}
             /\ run' = AfterStep([run EXCEPT !.waits = FALSE])
    <3>1. new = run
      BY <2>3
    <3> QED  BY <2>3, <3>1, ReceiptKeeps
  <2>4. CASE ~mine /\ UNCHANGED run
    BY <2>4, OthersMined
  <2> QED  BY <1>1, <2>1, <2>2, <2>3, <2>4
<1>3. Typed' /\ WorldInv'
  BY <1>2, MineWorld
<1> QED  BY <1>2, <1>3 DEF DeploymentInv
-----------------------------------------------------------------------------
(* The invariant.                                                          *)

(* Nothing is deployed at first.                                           *)
LEMMA InitHolds ==
  ASSUME Init
  PROVE  DeploymentInv
<1>1. /\ strict \in BOOLEAN /\ pending = <<>> /\ code = {} /\ exts = <<>>
      /\ bound = [s \in Senders |-> 0] /\ env = NoEnvFile
      /\ tee = [ext |-> 0, governance |-> 0] /\ run = Idle
      /\ sent = [deploys |-> 0, registers |-> 0, tools |-> 0]
      /\ report = NoReport /\ settled = {} /\ setup = [sender |-> 0, ext |-> 0]
  BY DEF Init
<1>2. /\ run \in Run /\ RunInv(run, exts, code, pending, env, tee, sent)
  BY <1>1, IdleRun
<1>3. /\ env \in [exists : BOOLEAN, id : Nat \cup Unread, sender : Senders \cup Unread,
                  edited : BOOLEAN]
      /\ env.id \in Unread /\ ~WellFormed(env.id)
  BY <1>1 DEF NoEnvFile, WellFormed, Unread
<1>4. report.step = "none"
  BY <1>1 DEF NoReport
<1>5. DOMAIN exts = {} /\ DOMAIN pending = {} /\ Len(exts) = 0
      /\ exts \in Seq(Ext) /\ pending \in Seq(Tx)
  BY <1>1
<1>6. Typed
  <2>1. bound \in [Senders -> Nat] /\ tee \in [ext : Nat, governance : Rules]
        /\ sent \in [deploys : Nat, registers : Nat, tools : Nat]
    BY <1>1 DEF Rules
  <2> QED  BY <1>1, <1>2, <1>3, <1>4, <1>5, <2>1 DEF Typed
<1>7. Placed /\ Waiting
  BY <1>1 DEF Placed, Waiting, Idle
<1>8. Deployed /\ Queued
  BY <1>1, <1>5 DEF Deployed, Queued
<1>9. Counted
  <2>1. Registrations(pending) = {}
    BY <1>5 DEF Registrations
  <2>2. Cardinality(Registrations(pending)) = 0
    BY <2>1, FS_EmptySet
  <2> QED  BY <1>1, <1>5, <2>2, DeploymentAssumption DEF Counted
<1>10. BoundFirst /\ Remembered
  BY <1>1 DEF BoundFirst, Remembered
<1>11. Filed
  BY <1>1, <1>3 DEF Filed
<1>12. Reported
  BY <1>4 DEF Reported, CleanReport, FailsExactly
<1> QED  BY <1>2, <1>6, <1>7, <1>8, <1>9, <1>10, <1>11, <1>12 DEF DeploymentInv, WorldInv

(* Whatever a tool does.                                                   *)
LEMMA ProceedKeeps ==
  ASSUME DeploymentInv, Proceed
  PROVE  DeploymentInv'
<1>1. CASE WaitTimesOut
  BY <1>1, FailKeeps DEF WaitTimesOut
<1>2. CASE Preflight
  BY <1>2, PreflightKeeps
<1>3. CASE DeployInstructionSender
  BY <1>3, DeployKeeps
<1>4. CASE CheckCode
  BY <1>4, CheckCodeKeeps
<1>5. CASE RegisterExtension
  BY <1>5, RegisterKeeps
<1>6. CASE AllowMachineOwner \/ AllowProjectOwner \/ SupportKeyType
  BY <1>6, ListsKeep
<1>7. CASE WriteEnv
  BY <1>7, WriteKeeps
<1>8. CASE PrintId
  BY <1>8, PrintKeeps
<1>9. CASE StartServices
  BY <1>9, StartKeeps
<1>10. CASE AllowTeeVersion \/ SetGovernance \/ RegisterMachine
  BY <1>10, ServingKeeps
<1>11. CASE Done
  BY <1>11, DoneKeeps
<1>12. CASE SetExtensionId
  BY <1>12, BindKeeps
<1>13. CASE CheckCounter
  BY <1>13, CounterKeeps
<1>14. CASE CheckSenderMatches \/ CheckMachineOwner \/ CheckKeyType
  BY <1>14, LooksKeep
<1>15. CASE CheckUniqueSender
  BY <1>15, UniqueKeeps
<1>16. CASE Report
  BY <1>16, ReportKeeps
<1> QED  BY <1>1, <1>2, <1>3, <1>4, <1>5, <1>6, <1>7, <1>8, <1>9, <1>10, <1>11, <1>12,
            <1>13, <1>14, <1>15, <1>16 DEF Proceed

(* Nothing happens.                                                        *)
LEMMA StutterKeeps ==
  ASSUME DeploymentInv, UNCHANGED vars
  PROVE  DeploymentInv'
<1>1. UNCHANGED <<outside, env, tee>> /\ UNCHANGED run
  BY DEF vars, outside
<1>2. UNCHANGED <<pending, code, exts, sent>>
  BY <1>1 DEF outside
<1>3. run' \in Run
  BY <1>1, RunTyped
<1>4. Typed' /\ WorldInv'
  BY <1>1, <1>3, RunTyped, OutsideStays
<1>5. Placed' /\ Waiting'
  BY <1>1, <1>2, RunTyped DEF Placed, Waiting, Step
<1>6. RunInv(run', exts', code', pending', env', tee', sent')
  BY <1>1, <1>2, RunTyped
<1> QED  BY <1>4, <1>5, <1>6 DEF DeploymentInv

(* DeploymentInv holds in every state that the deployment reaches: what    *)
(* Deployment.tla models of the tools, of the chain they send to and of    *)
(* what may come between two of their steps.                               *)
THEOREM DeploymentInvariant == Spec => []DeploymentInv
<1>1. Init => DeploymentInv
  BY InitHolds
<1>2. DeploymentInv /\ [Next]_vars => DeploymentInv'
  <2> SUFFICES ASSUME DeploymentInv, [Next]_vars  PROVE  DeploymentInv'
    OBVIOUS
  <2>1. CASE \E ok \in BOOLEAN : Mine(ok)
    BY <2>1, MineKeeps
  <2> QED  BY <2>1, ProceedKeeps, OperatorKeeps, StutterKeeps DEF Next
<1> QED  BY <1>1, <1>2, PTL DEF Spec
-----------------------------------------------------------------------------
(* What follows.                                                           *)

(* The variables keep their types, and what a run or a pending transaction *)
(* names exists.                                                           *)
THEOREM DeploymentTyped == Spec => []DeployTypeOK
<1>1. DeploymentInv => DeployTypeOK
  <2> SUFFICES ASSUME DeploymentInv  PROVE  DeployTypeOK
    OBVIOUS
  <2>1. /\ Typed /\ Placed /\ WorldInv /\ RunInv(run, exts, code, pending, env, tee, sent)
    BY RunTyped
  <2>2. Len(exts) <= MaxExts
    <3>1. Cardinality(Registrations(pending)) \in Nat
      BY <2>1, RegistrationsFinite DEF Typed
    <3>2. Len(exts) \in Nat /\ sent.registers \in Nat /\ MaxExts \in Nat
      BY <2>1, DeploymentAssumption DEF Typed
    <3> QED  BY <2>1, <3>1, <3>2 DEF WorldInv, Counted
  <2>3. DOMAIN exts \subseteq ExtIds /\ \A i \in DOMAIN exts : exts[i] \in Ext
    <3>1. exts \in Seq(Ext) /\ Len(exts) \in Nat /\ MaxExts \in Nat
      BY <2>1, DeploymentAssumption DEF Typed
    <3>2. DOMAIN exts = 1..Len(exts)
      BY <3>1
    <3> QED  BY <2>2, <3>1, <3>2 DEF ExtIds
  <2>4. bound \in [Senders -> ExtIds \cup {0}]
    <3>1. \A s \in Senders : bound[s] \in ExtIds \cup {0}
      BY <2>1, <2>3 DEF WorldInv, BoundFirst, First
    <3> QED  BY <2>1, <3>1 DEF Typed
  <2>5. run.at \in 0..Len(Steps(run.tool)) /\ run.tool \in Tools
    <3>1. run.tool \in Tools /\ run.at \in Nat
      BY <2>1 DEF Typed, Run
    <3>2. CASE run.tool = "none"
      <4>1. run.at = 0 /\ Len(Steps(run.tool)) = 0
        BY <2>1, <3>2 DEF Placed, Idle, Steps
      <4> QED  BY <3>1, <4>1
    <3>3. CASE run.tool # "none"
      BY <2>1, <3>1, <3>3 DEF Placed
    <3> QED  BY <3>2, <3>3
  <2>6. /\ \A i \in DOMAIN pending : pending[i].ext \in DOMAIN exts \cup {0}
        /\ env.id \in ExtIds \cup {Absent, Malformed}
        /\ tee.ext \in ExtIds \cup {0}
    BY <2>1, <2>3 DEF WorldInv, Queued, Filed, Unread
  <2>7. /\ {env.exists, env.edited} \subseteq BOOLEAN
        /\ env.sender \in Senders \cup {Absent, Malformed}
    BY <2>1 DEF Typed, Unread
  <2>8. run.sender \in Senders \cup {0} /\ run.ext \in DOMAIN exts \cup {0}
    BY <2>1 DEF Typed, Run, Someone, RunInv, Secured
  <2> QED  BY <2>1, <2>2, <2>3, <2>4, <2>5, <2>6, <2>7, <2>8 DEF DeployTypeOK, Typed
<1> QED  BY <1>1, DeploymentInvariant, PTL

(* Whatever pre-build.sh, full-setup.sh and register-extension left        *)
(* pending, half-done or killed, the pair that extension.env holds, if     *)
(* nobody has edited it, is one that a registration ended with.            *)
THEOREM EnvIsWorking == Spec => []EnvNamesWorkingExtension
<1>1. DeploymentInv => EnvNamesWorkingExtension
  <2> SUFFICES ASSUME DeploymentInv, WellFormed(env.id), WellFormed(env.sender), ~env.edited
               PROVE  LET e == exts[env.id] IN
                      e.sender = env.sender /\ e.sender \in code /\ e.owner /\ e.project /\ e.key
    BY DEF EnvNamesWorkingExtension
  <2>1. Works(exts, code, env.id, env.sender)
    BY RunTyped DEF WorldInv, Filed
  <2> QED  BY <2>1 DEF Works
<1> QED  BY <1>1, DeploymentInvariant, PTL

(* A verify-deploy that passes R2 and R7, with no lookup of R7 failed,     *)
(* settles for good which extension setExtensionId binds, or has bound,    *)
(* whoever registers the InstructionSender again and whenever it is bound. *)
THEOREM CleanReportsBind == Spec => []CleanReportBinds
<1>1. DeploymentInv => CleanReportBinds
  <2> SUFFICES ASSUME DeploymentInv, NEW p \in settled
               PROVE  /\ bound[p[1]] \in {0, p[2]}
                      /\ \A i \in Matching(p[1]) : p[2] <= i
    BY DEF CleanReportBinds
  <2>1. p[1] \in Senders /\ First(exts, p[1], p[2])
    BY RunTyped DEF WorldInv, Remembered
  <2>2. bound[p[1]] = 0 \/ First(exts, p[1], bound[p[1]])
    BY <2>1, RunTyped DEF WorldInv, BoundFirst
  <2>3. exts \in Seq(Ext)
    BY RunTyped DEF Typed
  <2>4. bound[p[1]] = 0 \/ bound[p[1]] = p[2]
    BY <2>1, <2>2, <2>3, FirstIsUnique
  <2> QED  BY <2>1, <2>4 DEF First, Matching
<1> QED  BY <1>1, DeploymentInvariant, PTL

(* verify-deploy's clean report of all steps is true of the chain while it *)
(* stands, though the checks read the chain one call at a time and other   *)
(* transactions are mined in between: what they look for is never undone.  *)
THEOREM CleanReportsAreSound == Spec => []CleanReportIsSound
<1>1. DeploymentInv => CleanReportIsSound
  <2> SUFFICES ASSUME DeploymentInv, CleanReport
               PROVE  /\ PreflightPasses(report.settings)
                      /\ WellFormed(report.env.id) /\ WellFormed(report.env.sender)
                      /\ LET e == exts[report.env.id] IN
                           e.sender = report.env.sender /\ e.owner /\ e.key
    BY DEF CleanReportIsSound, CleanReport
  <2>1. /\ PreflightPasses(report.settings)
        /\ report.env.id \in DOMAIN exts /\ WellFormed(report.env.sender)
        /\ LET e == exts[report.env.id] IN
           e.sender = report.env.sender /\ e.owner /\ e.key
    BY RunTyped DEF WorldInv, Reported
  <2>2. report.env.id \in Nat
    BY <2>1, RunTyped DEF Typed
  <2> QED  BY <2>1, <2>2, NotUnread
<1> QED  BY <1>1, DeploymentInvariant, PTL

(* After full-setup.sh the machine that serves is registered for the one   *)
(* extension that the InstructionSender it deployed can bind to.  The run  *)
(* deploys a contract nobody has, so that the first extension of it is the *)
(* run's own: the sequence is carried from step to step by Secured.        *)
THEOREM SetupHolds == Spec => []SetupIsServed
<1>1. DeploymentInv => SetupIsServed
  <2> SUFFICES ASSUME DeploymentInv, setup.ext # 0
               PROVE  /\ exts[setup.ext].machine /\ exts[setup.ext].version
                      /\ bound[setup.sender] \in {0, setup.ext}
                      /\ setup.ext \in Matching(setup.sender)
    BY DEF SetupIsServed
  <2>1. /\ setup.sender \in Senders
        /\ First(exts, setup.sender, setup.ext) /\ exts[setup.ext].machine
    BY RunTyped DEF WorldInv, Remembered
  <2>2. exts[setup.ext].version
    BY <2>1, RunTyped DEF WorldInv, Deployed, First
  <2>3. bound[setup.sender] = 0 \/ First(exts, setup.sender, bound[setup.sender])
    BY <2>1, RunTyped DEF WorldInv, BoundFirst
  <2>4. exts \in Seq(Ext)
    BY RunTyped DEF Typed
  <2>5. bound[setup.sender] = 0 \/ bound[setup.sender] = setup.ext
    BY <2>1, <2>3, <2>4, FirstIsUnique
  <2> QED  BY <2>1, <2>2, <2>5 DEF First, Matching
<1> QED  BY <1>1, DeploymentInvariant, PTL

(* Why verify-deploy exits with an error, for every environment, every     *)
(* extension.env and every answer of the chain and of the probes: a report *)
(* without --checks fails for exactly these reasons, step by step.  No     *)
(* probe, key or port fails it, and the tee-machine step never does; a     *)
(* file that is not there fails the services step alone; the register step *)
(* can fail it only if --config is given and the file has a value, and     *)
(* does fail it, whatever its lookups answer, if the id is malformed then. *)
THEOREM StepsFailExactly == Spec => []FailsExactly(report)
<1>1. DeploymentInv => FailsExactly(report)
  BY RunTyped DEF WorldInv, Reported
<1> QED  BY <1>1, DeploymentInvariant, PTL
=============================================================================
