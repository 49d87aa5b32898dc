------------------------ MODULE Registration_proofs ------------------------
(***************************************************************************)
(* For any number of runs, identities, transactions and epochs: whatever   *)
(* breaks off, is mined late or is torn, the state file claims only what   *)
(* the chain has, and a run that reports success has promoted the TEE it   *)
(* had a proof for.                                                        *)
(* Every step of a run brings it nearer to its end.                        *)
(***************************************************************************)
EXTENDS Registration, TLAPS, FiniteSetTheorems

(* The types without the bounds.                                           *)
Shape ==
  [op : {"register", "attest", "avail", "promote"}, tee : Nat, of : Nat,
   status : {"pending", "ok", "reverted"}]

StateShape == [done : SUBSET Steps, attest : Nat, instruction : Nat]

RunShape ==
  [cmd : SUBSET Steps, tee : Nat, fresh : BOOLEAN, state : StateShape, attest : Nat,
   instruction : Nat, step : Steps, tx : Nat, seen : Nat, polls : Nat]

Shapes ==
  /\ tee \in Nat
  /\ epoch \in Nat
  /\ txs \in Seq(Shape)
  /\ run \in RunShape
  /\ file \in StateShape \cup {NoFile, Torn}

(* What a state, in the file or in a run, says is done.                    *)
Claims(s) ==
  /\ s.done \cap {"r", "R"} # {} => s.attest \in Done("register") \cup Done("attest")
  /\ "a" \in s.done => s.instruction \in Done("avail")
  /\ "p" \notin s.done

FileClaims == file \notin {NoFile, Torn} => Claims(file)

ProvedChecks == proved \subseteq Done("avail")

(* The transaction a run waits for is the one its step is about.           *)
Waiting ==
  pc = "wait" =>
    /\ run.tx \in DOMAIN txs
    /\ run.step = "r" => txs[run.tx].op \in {"register", "attest"}
    /\ run.step = "R" => txs[run.tx].op = "attest"
    /\ run.step = "a" => txs[run.tx].op = "avail" /\ txs[run.tx].tee = run.tee
    /\ run.step = "p" => /\ txs[run.tx].op = "promote"
                         /\ run.instruction \in DOMAIN txs
                         /\ txs[run.tx].tee = txs[run.instruction].tee

Saving == pc = "save" => run.step # "p"

Finishing ==
  pc = "finish" /\ "p" \in run.cmd =>
    run.instruction \in DOMAIN txs /\ txs[run.instruction].tee \in Production

(* A run that began without a state file makes its own availability check. *)
BeforeCheck ==
  \/ pc \in {"r", "R", "a", "gate", "request"}
  \/ pc = "wait" /\ run.step # "p"
  \/ pc = "save" /\ run.step # "a"

AfterCheck ==
  \/ pc \in {"p", "finish"}
  \/ pc = "wait" /\ run.step = "p"
  \/ pc = "save" /\ run.step = "a"

OwnCheck ==
  run.fresh =>
    /\ BeforeCheck => "a" \notin run.state.done
    /\ AfterCheck /\ "a" \in run.cmd =>
         run.instruction \in DOMAIN txs /\ txs[run.instruction].tee = run.tee

Reports ==
  \A r \in reported : "p" \in r.cmd =>
    /\ r.instruction \in DOMAIN txs
    /\ txs[r.instruction].tee \in Production
    /\ r.fresh /\ "a" \in r.cmd => txs[r.instruction].tee = r.tee

RunInv == Claims(run.state) /\ Waiting /\ Saving /\ Finishing /\ OwnCheck

RegInv == Shapes /\ FileClaims /\ ProvedChecks /\ RunInv /\ Reports

(* Transactions are never taken back, and mined ones never change.         *)
Grows ==
  \A i \in DOMAIN txs :
    /\ i \in DOMAIN txs'
    /\ txs'[i].op = txs[i].op
    /\ txs'[i].tee = txs[i].tee
    /\ txs[i].status = "ok" => txs'[i].status = "ok"

-----------------------------------------------------------------------------
(* What is done on the chain stays done, ...                               *)
LEMMA DoneStays ==
  ASSUME Grows, NEW op
  PROVE  Done(op) \subseteq Done(op)'
BY DEF Grows, Done

(* ... a TEE in production too.                                            *)
LEMMA ProductionStays ==
  ASSUME Grows
  PROVE  Production \subseteq Production'
BY DEF Grows, Done, Production

(* What is claimed, waited for or reported of the chain stays so while the *)
(* chain grows.                                                            *)
LEMMA ChainGrows ==
  ASSUME RegInv, Grows, Shapes', ProvedChecks', UNCHANGED <<file, pc, run, reported>>
  PROVE  RegInv'
<1> USE DEF RegInv, RunInv
<1>1. /\ Done("register") \subseteq Done("register")'
      /\ Done("attest") \subseteq Done("attest")'
      /\ Done("avail") \subseteq Done("avail")'
      /\ Production \subseteq Production'
  BY DoneStays, ProductionStays
<1>2. FileClaims' /\ Claims(run.state)'
  BY <1>1 DEF FileClaims, Claims
<1>3. Waiting'
  BY DEF Waiting, Grows
<1>4. Saving' /\ Finishing'
  BY <1>1 DEF Saving, Finishing, Grows
<1>5. OwnCheck'
  BY DEF OwnCheck, BeforeCheck, AfterCheck, Grows
<1>6. Reports'
  BY <1>1 DEF Reports, Grows
<1> QED BY <1>2, <1>3, <1>4, <1>5, <1>6

(* A chain that is left alone has grown, in the weak sense.                *)
LEMMA NothingGrows == UNCHANGED txs => Grows
BY DEF Grows

(* A run that breaks off leaves nothing of itself but the chain and the    *)
(* file.                                                                   *)
LEMMA FailInv ==
  ASSUME RegInv, Fail
  PROVE  RegInv'
<1> USE DEF RegInv, RunInv
<1>1. /\ pc' = "idle" /\ run' = Idle
      /\ UNCHANGED <<tee, epoch, policyId, expired, proved, txs, file, runs, reported>>
  BY DEF Fail, Goto, outside
<1>2. Shapes'
  BY <1>1 DEF Shapes, Idle, EmptyState, RunShape, StateShape, Steps
<1>3. FileClaims' /\ ProvedChecks' /\ Reports'
  BY <1>1 DEF FileClaims, Claims, ProvedChecks, Reports, Production, Done
<1>4. RunInv'
  BY <1>1 DEF Idle, EmptyState, Claims, Waiting, Saving, Finishing, OwnCheck,
              BeforeCheck, AfterCheck
<1> QED BY <1>2, <1>3, <1>4

(* A step inside a run that sends nothing and saves nothing: what is left  *)
(* to show is about the run.                                               *)
LEMMA GotoInv ==
  ASSUME RegInv, NEW next, Goto(next), run' \in RunShape, RunInv'
  PROVE  RegInv'
<1>1. UNCHANGED <<tee, epoch, policyId, expired, proved, txs, file, runs, reported>>
  BY DEF Goto, outside
<1> QED BY <1>1 DEF RegInv, Shapes, FileClaims, Claims, ProvedChecks, Reports, Production, Done

(* A transaction that is sent joins the chain behind all others.           *)
LEMMA SendInv ==
  ASSUME RegInv,
         NEW op \in {"register", "attest", "avail", "promote"}, NEW t \in Nat,
         NEW of \in Nat, NEW step \in Steps, Send(op, t, of, step),
         step = "r" => op \in {"register", "attest"},
         step = "R" => op = "attest",
         step = "a" => op = "avail" /\ t = run.tee,
         step = "p" => /\ op = "promote" /\ run.instruction \in DOMAIN txs
                       /\ t = txs[run.instruction].tee,
         step # "p" => BeforeCheck,
         step = "p" => AfterCheck
  PROVE  RegInv'
<1> DEFINE new == [op |-> op, tee |-> t, of |-> of, status |-> "pending"]
<1>1. CASE ~Accepted(new)
  BY <1>1, FailInv DEF Send
<1>2. CASE Accepted(new)
  <2>1. /\ txs' = Append(txs, new)
        /\ run' = [run EXCEPT !.step = step, !.tx = Len(txs) + 1]
        /\ pc' = "wait"
        /\ UNCHANGED <<tee, epoch, policyId, expired, proved, file, runs, reported>>
    BY <1>2 DEF Send, outside
  <2>2. txs \in Seq(Shape) /\ run \in RunShape /\ new \in Shape
    BY DEF RegInv, Shapes, Shape
  <2>3. /\ txs' \in Seq(Shape)
        /\ DOMAIN txs' = DOMAIN txs \cup {Len(txs) + 1}
        /\ Len(txs) + 1 \notin DOMAIN txs
        /\ txs'[Len(txs) + 1] = new
        /\ \A i \in DOMAIN txs : txs'[i] = txs[i]
    BY <2>1, <2>2
  <2>4. Grows
    BY <2>3 DEF Grows
  <2>5. run' \in RunShape
    <3>1. Len(txs) + 1 \in Nat
      BY <2>2
    <3> QED BY <2>1, <2>2, <3>1 DEF RunShape
  <2>6. Shapes'
    BY <2>1, <2>3, <2>5 DEF RegInv, Shapes
  <2>7. /\ Done("register") \subseteq Done("register")'
        /\ Done("attest") \subseteq Done("attest")'
        /\ Done("avail") \subseteq Done("avail")'
        /\ Production \subseteq Production'
    BY <2>4, DoneStays, ProductionStays
  <2>8. FileClaims' /\ ProvedChecks'
    BY <2>1, <2>7 DEF RegInv, FileClaims, Claims, ProvedChecks
  <2>9. Reports'
    BY <2>1, <2>3, <2>7 DEF RegInv, Reports
  <2>10. /\ run'.step = step /\ run'.tx = Len(txs) + 1
         /\ run'.state = run.state /\ run'.fresh = run.fresh /\ run'.cmd = run.cmd
         /\ run'.tee = run.tee /\ run'.instruction = run.instruction
    BY <2>1, <2>2 DEF RunShape
  <2>11. Claims(run.state)'
    BY <2>7, <2>10 DEF RegInv, RunInv, Claims
  <2>12. Waiting'
    BY <2>1, <2>3, <2>10 DEF Waiting
  <2>13. Saving' /\ Finishing'
    BY <2>1 DEF Saving, Finishing
  <2>14. OwnCheck'
    BY <2>1, <2>3, <2>10 DEF RegInv, RunInv, OwnCheck, BeforeCheck, AfterCheck
  <2> QED BY <2>6, <2>8, <2>9, <2>11, <2>12, <2>13, <2>14 DEF RegInv, RunInv
<1> QED BY <1>1, <1>2

-----------------------------------------------------------------------------
(* Before the first run nothing is claimed.                                *)
LEMMA InitRegInv == Init => RegInv
<1> SUFFICES ASSUME Init PROVE RegInv
  OBVIOUS
<1>1. Shapes
  BY DEF Init, Shapes, Idle, EmptyState, RunShape, StateShape, Steps
<1>2. FileClaims /\ ProvedChecks /\ Reports
  BY DEF Init, FileClaims, ProvedChecks, Reports
<1>3. RunInv
  BY DEF Init, RunInv, Idle, EmptyState, Claims, Waiting, Saving, Finishing, OwnCheck,
         BeforeCheck, AfterCheck
<1> QED BY <1>1, <1>2, <1>3 DEF RegInv

(* The chain, the TEE and the proxy keep the invariant.                    *)
LEMMA OutsideInv ==
  ASSUME RegInv, Outside
  PROVE  RegInv'
<1> USE DEF RegInv
<1>1. ASSUME NEW i \in DOMAIN txs, Mine(i)
      PROVE  RegInv'
  <2>1. PICK s \in {"ok", "reverted"} : txs' = [txs EXCEPT ![i].status = s]
    BY <1>1 DEF Mine
  <2>2. /\ txs[i].status = "pending"
        /\ UNCHANGED <<tee, epoch, proved, file, pc, run, reported>>
    BY <1>1 DEF Mine, Pending, outside
  <2>3. txs \in Seq(Shape)
    BY DEF Shapes
  <2>4. /\ DOMAIN txs' = DOMAIN txs
        /\ txs'[i] = [txs[i] EXCEPT !.status = s]
        /\ \A j \in DOMAIN txs : j # i => txs'[j] = txs[j]
    BY <2>1, <2>3
  <2>5. Grows
    <3>1. txs[i] \in Shape
      BY <2>3
    <3>2. /\ txs'[i].op = txs[i].op /\ txs'[i].tee = txs[i].tee
          /\ txs[i].status # "ok"
      BY <2>2, <2>4, <3>1 DEF Shape
    <3> QED BY <2>4, <3>2 DEF Grows
  <2>6. txs' \in Seq(Shape)
    <3>1. txs[i] \in Shape
      BY <2>3
    <3>2. [txs[i] EXCEPT !.status = s] \in Shape
      BY <3>1 DEF Shape
    <3> QED BY <2>1, <2>3, <3>2
  <2>7. Shapes' /\ ProvedChecks'
    BY <2>2, <2>5, <2>6, DoneStays DEF Shapes, ProvedChecks
  <2> QED BY <2>2, <2>5, <2>7, ChainGrows
<1>2. ASSUME UNCHANGED <<txs, file, pc, run, reported>>, tee' \in Nat, epoch' \in Nat,
             proved' \subseteq Done("avail")
      PROVE  RegInv'
  <2>1. Shapes' /\ ProvedChecks'
    BY <1>2 DEF Shapes, ProvedChecks, Done
  <2> QED BY <1>2, <2>1, NothingGrows, ChainGrows
<1>3. ASSUME NEW i \in DOMAIN txs, Expire(i)
      PROVE  RegInv'
  BY <1>2, <1>3 DEF Expire, Shapes, ProvedChecks
<1>4. ASSUME NEW i \in DOMAIN txs, Prove(i)
      PROVE  RegInv'
  BY <1>2, <1>4 DEF Prove, chainVars, Shapes, ProvedChecks
<1>5. CASE RestartTee
  BY <1>2, <1>5 DEF RestartTee, chainVars, Shapes, ProvedChecks
<1>6. CASE Advance
  BY <1>2, <1>6 DEF Advance, chainVars, Shapes, ProvedChecks
<1> QED BY <1>1, <1>3, <1>4, <1>5, <1>6 DEF Outside

(* A run begins with what the file claims, or with nothing.                *)
LEMMA LaunchInv ==
  ASSUME RegInv, NEW cmd \in Commands, NEW resume \in BOOLEAN, NEW given \in Ids,
         Launch(cmd, resume, given)
  PROVE  RegInv'
<1> USE DEF RegInv
<1>1. PICK f \in {file, NoFile} :
        /\ file' = f
        /\ pc = "idle"
        /\ UNCHANGED <<tee, epoch, policyId, expired, proved, txs, reported>>
        /\ IF f = Torn
           THEN UNCHANGED <<pc, run>>
           ELSE /\ pc' = "r"
                /\ LET s == IF f = NoFile THEN EmptyState ELSE f IN
                   run' = [Idle EXCEPT !.cmd = cmd, !.tee = tee, !.state = s,
                                       !.fresh = s.done = {}, !.instruction = given]
  BY DEF Launch, outside
<1>2. ProvedChecks' /\ Reports'
  BY <1>1 DEF ProvedChecks, Reports, Production, Done
<1>3. FileClaims'
  BY <1>1 DEF FileClaims, Claims, Done
<1>4. CASE f = Torn
  <2>1. Shapes'
    BY <1>1, <1>4 DEF Shapes
  <2>2. RunInv'
    BY <1>1, <1>4 DEF RunInv, Claims, Done, Waiting, Saving, Finishing, OwnCheck,
                      BeforeCheck, AfterCheck
  <2> QED BY <1>2, <1>3, <2>1, <2>2
<1>5. CASE f # Torn
  <2> DEFINE s == IF f = NoFile THEN EmptyState ELSE f
  <2>1. s \in StateShape /\ Claims(s)
    BY <1>1, <1>5 DEF Shapes, FileClaims, Claims, EmptyState, StateShape, Steps
  <2>2. cmd \in SUBSET Steps /\ given \in Nat /\ tee \in Nat
    BY RegistrationAssumption DEF Ids, Shapes
  <2>3. run' = [Idle EXCEPT !.cmd = cmd, !.tee = tee, !.state = s,
                            !.fresh = s.done = {}, !.instruction = given]
        /\ pc' = "r"
    BY <1>1, <1>5
  <2>4. run' \in RunShape /\ run'.state = s /\ run'.fresh = (s.done = {})
    BY <2>1, <2>2, <2>3 DEF Idle, RunShape, Steps, StateShape, EmptyState
  <2>5. Shapes'
    BY <1>1, <2>4 DEF Shapes
  <2>6. RunInv'
    BY <1>1, <2>1, <2>3, <2>4 DEF RunInv, Claims, Done, Waiting, Saving, Finishing, OwnCheck,
                                  BeforeCheck, AfterCheck
  <2> QED BY <1>2, <1>3, <2>5, <2>6
<1> QED BY <1>4, <1>5

(* A step that is left out, or taken from the file: never the promotion,   *)
(* and never the check of a run without a file.                            *)
LEMMA SkipInv ==
  ASSUME RegInv, NEW step \in Steps, Skip(step) \/ FromFile(step)
  PROVE  RegInv'
<1> USE DEF RegInv, RunInv
<1>1. /\ pc = step /\ pc' = After(step)
      /\ run' \in {run, [run EXCEPT !.instruction = run.state.instruction],
                     [run EXCEPT !.attest = run.state.attest]}
      /\ Goto(After(step))
      /\ step \in run.cmd => step \in run.state.done
      /\ step # "a" => run'.instruction = run.instruction
  BY DEF Skip, FromFile, Goto, Shapes, RunShape
<1>2. run \in RunShape /\ run.state \in StateShape
  BY DEF Shapes, RunShape
<1>3. /\ run' \in RunShape
      /\ run'.cmd = run.cmd /\ run'.state = run.state
      /\ run'.fresh = run.fresh /\ run'.tee = run.tee
  BY <1>1, <1>2 DEF RunShape, StateShape
<1>4. UNCHANGED txs
  BY <1>1 DEF Goto
<1>5. pc' = CASE pc = "r" -> "R" [] pc = "R" -> "a" [] pc = "a" -> "p" [] pc = "p" -> "finish"
  BY <1>1 DEF After
<1>6. /\ pc' \in {"R", "a", "p", "finish"}
      /\ pc' = "finish" => pc = "p"
      /\ pc' = "p" => pc = "a"
      /\ pc' \in {"R", "a"} => pc \in {"r", "R"}
  BY <1>1, <1>5 DEF Steps
<1>7. Claims(run.state)'
  BY <1>3, <1>4 DEF Claims, Done
<1>8. Waiting' /\ Saving'
  BY <1>6 DEF Waiting, Saving
<1>9. Finishing'
  BY <1>1, <1>3, <1>6 DEF Finishing, Claims
<1>10. OwnCheck'
  <2>1. CASE pc' \in {"R", "a"}
    BY <1>3, <1>6, <2>1 DEF OwnCheck, BeforeCheck, AfterCheck
  <2>2. CASE pc' = "p"
    BY <1>1, <1>3, <1>6, <2>2 DEF OwnCheck, BeforeCheck, AfterCheck
  <2>3. CASE pc' = "finish"
    BY <1>1, <1>3, <1>4, <1>6, <2>3 DEF OwnCheck, BeforeCheck, AfterCheck
  <2> QED BY <1>6, <2>1, <2>2, <2>3
<1> QED BY <1>1, <1>3, <1>7, <1>8, <1>9, <1>10, GotoInv

(* The four transactions.                                                  *)
LEMMA RequestInv ==
  ASSUME RegInv, PreRegister \/ RequestAttestation \/ RequestAvailability \/ Promote
  PROVE  RegInv'
<1>1. run.tee \in Nat /\ run.attest \in Nat /\ run.instruction \in Nat
  BY DEF RegInv, Shapes, RunShape
<1>2. CASE PreRegister
  <2>1. BeforeCheck
    BY <1>2 DEF PreRegister, ToDo, BeforeCheck
  <2>2. Send("attest", run.tee, 0, "r") \/ Send("register", run.tee, 0, "r")
    BY <1>2 DEF PreRegister
  <2> QED BY <1>1, <2>1, <2>2, SendInv DEF Steps
<1>3. CASE RequestAttestation
  <2>1. BeforeCheck /\ Send("attest", run.tee, 0, "R")
    BY <1>3 DEF RequestAttestation, ToDo, BeforeCheck
  <2> QED BY <1>1, <2>1, SendInv DEF Steps
<1>4. CASE RequestAvailability
  <2>1. BeforeCheck /\ Send("avail", run.tee, run.attest, "a")
    BY <1>4 DEF RequestAvailability, BeforeCheck
  <2> QED BY <1>1, <2>1, SendInv DEF Steps
<1>5. CASE Promote
  <2>1. /\ AfterCheck /\ run.instruction \in proved
        /\ Send("promote", txs[run.instruction].tee, run.instruction, "p")
    BY <1>5 DEF Promote, ToDo, AfterCheck
  <2>2. run.instruction \in DOMAIN txs
    BY <2>1 DEF RegInv, ProvedChecks, Done
  <2>3. txs[run.instruction].tee \in Nat
    <3>1. txs \in Seq(Shape)
      BY DEF RegInv, Shapes
    <3>2. txs[run.instruction] \in Shape
      BY <2>2, <3>1
    <3> QED BY <3>2 DEF Shape
  <2> QED BY <1>1, <2>1, <2>2, <2>3, SendInv DEF Steps
<1> QED BY <1>2, <1>3, <1>4, <1>5

(* The reads in between.                                                   *)
LEMMA ReadInv ==
  ASSUME RegInv, ReadEpoch \/ Gate \/ PollAgain
  PROVE  RegInv'
<1> USE DEF RegInv, RunInv
<1>1. run \in RunShape /\ epoch \in Nat
  BY DEF Shapes
<1>2. CASE Gate /\ Fail
  BY <1>2, FailInv
<1>3. CASE ~(Gate /\ Fail)
  <2>1. PICK next \in {"gate", "request", "p"} :
          /\ Goto(next)
          /\ next = "p" <=> pc = "p"
          /\ pc \in {"a", "gate", "p"}
    BY <1>3 DEF ReadEpoch, Gate, PollAgain, ToDo
  <2>2. \/ UNCHANGED run
        \/ \E e \in {0, epoch} : run' = [run EXCEPT !.seen = e]
        \/ run' = [run EXCEPT !.polls = @ + 1]
    BY <1>3 DEF ReadEpoch, Gate, PollAgain
  <2>3. run' \in RunShape
    BY <1>1, <2>2 DEF RunShape
  <2>4. /\ run'.cmd = run.cmd /\ run'.state = run.state /\ run'.instruction = run.instruction
        /\ run'.fresh = run.fresh /\ run'.tee = run.tee
    BY <1>1, <2>2 DEF RunShape
  <2>5. pc' = next /\ UNCHANGED txs
    BY <2>1 DEF Goto
  <2>6. Claims(run.state)'
    BY <2>4, <2>5 DEF Claims, Done
  <2>7. Waiting' /\ Saving' /\ Finishing'
    BY <2>5 DEF Waiting, Saving, Finishing
  <2>8. OwnCheck'
    BY <2>1, <2>4, <2>5 DEF OwnCheck, BeforeCheck, AfterCheck
  <2> QED BY <2>1, <2>3, <2>6, <2>7, <2>8, GotoInv
<1> QED BY <1>2, <1>3

(* A receipt: what the run claims from now on is on the chain.             *)
LEMMA MinedInv ==
  ASSUME RegInv, WaitMined
  PROVE  RegInv'
<1> USE DEF RegInv, RunInv
<1>1. /\ pc = "wait" /\ run \in RunShape /\ run.state \in StateShape
      /\ run.step \in Steps /\ run.tx \in Nat
  BY DEF WaitMined, Shapes, RunShape
<1>2. /\ run.tx \in DOMAIN txs /\ txs[run.tx].status = "ok"
      /\ UNCHANGED txs
  BY DEF WaitMined, Confirmed, Waiting, Goto
<1>3. CASE run.step = "p"
  <2>1. UNCHANGED run /\ Goto("finish") /\ pc' = "finish"
    BY <1>3 DEF WaitMined, Goto
  <2>2. run.tx \in Done("promote")
    BY <1>1, <1>2, <1>3 DEF Waiting, Done
  <2>3. run.instruction \in DOMAIN txs /\ txs[run.instruction].tee \in Production
    BY <1>1, <1>3, <2>2 DEF Waiting, Production
  <2>4. Claims(run.state)' /\ Finishing'
    BY <1>2, <2>1, <2>3 DEF Claims, Done, Finishing, Production
  <2>5. Waiting' /\ Saving'
    BY <2>1 DEF Waiting, Saving
  <2>6. OwnCheck'
    BY <1>1, <1>2, <1>3, <2>1 DEF OwnCheck, BeforeCheck, AfterCheck
  <2> QED BY <1>1, <2>1, <2>4, <2>5, <2>6, GotoInv
<1>4. CASE run.step = "a"
  <2>1. /\ Goto("save") /\ pc' = "save"
        /\ run' = [run EXCEPT !.instruction = run.tx, !.state.instruction = run.tx,
                              !.state.done = @ \cup {"a"}]
    BY <1>4 DEF WaitMined, Goto
  <2>2. run.tx \in Done("avail") /\ txs[run.tx].tee = run.tee
    BY <1>1, <1>2, <1>4 DEF Waiting, Done
  <2>3. /\ run' \in RunShape
        /\ run'.state.done = run.state.done \cup {"a"}
        /\ run'.state.attest = run.state.attest
        /\ run'.state.instruction = run.tx
        /\ run'.instruction = run.tx /\ run'.step = "a"
        /\ run'.tee = run.tee
    BY <1>1, <1>4, <2>1 DEF RunShape, StateShape, Steps
  <2>4. Claims(run.state)'
    BY <1>2, <2>2, <2>3 DEF Claims, Done
  <2>5. Waiting' /\ Saving' /\ Finishing'
    BY <2>1, <2>3 DEF Waiting, Saving, Finishing
  <2>6. OwnCheck'
    BY <1>2, <2>1, <2>2, <2>3 DEF OwnCheck, BeforeCheck, AfterCheck
  <2> QED BY <2>1, <2>3, <2>4, <2>5, <2>6, GotoInv
<1>5. CASE run.step \in {"r", "R"}
  <2>1. /\ Goto("save") /\ pc' = "save"
        /\ run' = [run EXCEPT !.attest = run.tx, !.state.attest = run.tx,
                              !.state.done = @ \cup {run.step}]
    BY <1>5 DEF WaitMined, Goto
  <2>2. run.tx \in Done("register") \cup Done("attest")
    BY <1>1, <1>2, <1>5 DEF Waiting, Done
  <2>3. /\ run' \in RunShape
        /\ run'.state.done = run.state.done \cup {run.step}
        /\ run'.state.attest = run.tx
        /\ run'.state.instruction = run.state.instruction
        /\ run'.step = run.step /\ run'.fresh = run.fresh
    BY <1>1, <2>1 DEF RunShape, StateShape, Steps
  <2>4. Claims(run.state)'
    BY <1>2, <1>5, <2>2, <2>3 DEF Claims, Done
  <2>5. Waiting' /\ Saving' /\ Finishing'
    BY <1>5, <2>1, <2>3 DEF Waiting, Saving, Finishing
  <2>6. OwnCheck'
    BY <1>1, <1>5, <2>1, <2>3 DEF OwnCheck, BeforeCheck, AfterCheck
  <2> QED BY <2>1, <2>3, <2>4, <2>5, <2>6, GotoInv
<1> QED BY <1>1, <1>3, <1>4, <1>5 DEF Steps

(* The file that is written claims what the run does.                      *)
LEMMA SaveInv ==
  ASSUME RegInv, Save
  PROVE  RegInv'
<1> USE DEF RegInv, RunInv
<1>1. /\ pc = "save" /\ pc' = After(run.step)
      /\ file' \in {run.state, file, Torn}
      /\ UNCHANGED <<tee, epoch, proved, txs, run, reported>>
  BY DEF Save, outside
<1>2. run.step \in {"r", "R", "a"} /\ run.state \in StateShape
  BY <1>1 DEF Saving, Shapes, RunShape, Steps
<1>3. pc' = IF run.step = "r" THEN "R" ELSE IF run.step = "R" THEN "a" ELSE "p"
  BY <1>1, <1>2 DEF After
<1>4. Shapes' /\ ProvedChecks' /\ Reports'
  BY <1>1, <1>2 DEF Shapes, ProvedChecks, Reports, Production, Done
<1>5. FileClaims' /\ Claims(run.state)'
  BY <1>1 DEF FileClaims, Claims, Done
<1>6. Waiting' /\ Saving' /\ Finishing'
  BY <1>3 DEF Waiting, Saving, Finishing
<1>7. OwnCheck'
  BY <1>1, <1>2, <1>3 DEF OwnCheck, BeforeCheck, AfterCheck
<1> QED BY <1>4, <1>5, <1>6, <1>7

(* A run that ends well has promoted.                                      *)
LEMMA FinishInv ==
  ASSUME RegInv, Finish
  PROVE  RegInv'
<1> USE DEF RegInv, RunInv
<1>1. /\ pc = "finish" /\ pc' = "idle" /\ run' = Idle
      /\ file' \in {NoFile, file}
      /\ reported' = reported \cup {run}
      /\ UNCHANGED <<tee, epoch, proved, txs>>
  BY DEF Finish, outside
<1>2. Shapes'
  BY <1>1 DEF Shapes, Idle, EmptyState, RunShape, StateShape, Steps
<1>3. FileClaims' /\ ProvedChecks'
  BY <1>1 DEF FileClaims, Claims, ProvedChecks, Done
<1>4. Reports'
  BY <1>1 DEF Reports, Finishing, OwnCheck, AfterCheck, Production, Done
<1>5. RunInv'
  BY <1>1 DEF Idle, EmptyState, Claims, Waiting, Saving, Finishing, OwnCheck,
              BeforeCheck, AfterCheck
<1> QED BY <1>2, <1>3, <1>4, <1>5

(* Every step keeps the invariant.                                         *)
LEMMA NextRegInv == RegInv /\ [Next]_vars => RegInv'
<1> SUFFICES ASSUME RegInv, [Next]_vars PROVE RegInv'
  OBVIOUS
<1>1. CASE Abort \/ WaitReverted \/ WaitTimesOut \/ PollExpires
  BY <1>1, FailInv DEF Abort, WaitReverted, WaitTimesOut, PollExpires
<1>2. CASE UNCHANGED vars
  BY <1>2, NothingGrows, ChainGrows DEF vars, RegInv, Shapes, ProvedChecks, Done
<1>3. CASE Proceed
  BY <1>1, <1>3, SkipInv, RequestInv, ReadInv, MinedInv, SaveInv, FinishInv DEF Proceed
<1> QED BY <1>1, <1>2, <1>3, LaunchInv, OutsideInv DEF Next

(* What the file, the run and the reports claim is on the chain.           *)
LEMMA RegistrationInvariant == Safety => []RegInv
BY InitRegInv, NextRegInv, PTL DEF Safety

(* registration.go's state file: through crashes, timeouts, late           *)
(* transactions and failed or torn writes it never claims a step that is   *)
(* not on the chain.                                                       *)
THEOREM StateFileTellsTruth == Safety => []FileTellsTruth
<1>1. RegInv => FileTellsTruth
  BY RegistrationAssumption DEF RegInv, FileClaims, Claims, FileTellsTruth
<1> QED BY <1>1, RegistrationInvariant, PTL

(* RegisterNode's success: the TEE of the proof is in production, and it   *)
(* is the one the run was for if the run began without a state file.       *)
THEOREM ReportedIsPromoted == Safety => []SuccessPromotes
<1>1. RegInv => SuccessPromotes
  BY DEF RegInv, Reports, SuccessPromotes
<1> QED BY <1>1, RegistrationInvariant, PTL

-----------------------------------------------------------------------------
(* Within the bounds, and what the pre-flight knows when it lets a run go  *)
(* on.                                                                     *)
Typed ==
  /\ tee \in Tees
  /\ epoch \in 1..MaxEpoch
  /\ policyId \in 0..(MaxEpoch + 1)
  /\ txs \in Seq(Tx)
  /\ expired \subseteq DOMAIN txs
  /\ file \in State \cup {NoFile, Torn}
  /\ pc \in {"idle", "gate", "request", "wait", "save", "finish"} \cup Steps
  /\ run \in Run
  /\ runs \in 0..MaxRuns
  /\ reported \subseteq Run

From(step) ==
  CASE step = "r" -> Steps [] step = "R" -> {"R", "a", "p"} [] step = "a" -> {"a", "p"}
    [] step = "p" -> {"p"} [] OTHER -> {}

(* The steps that a run may still send a transaction for, by its place.    *)
AheadAt(place, step) ==
  CASE place \in {"gate", "request"} -> From("a")
    [] place \in {"wait", "save"} -> From(After(step))
    [] OTHER -> From(place)

Ahead == AheadAt(pc, run.step)

(* Launch leaves room for a transaction per step.                          *)
Room == Len(txs) + Cardinality(run.cmd \cap Ahead) <= MaxTxs

(* The epochs that the run has read are past or present; and the policy it *)
(* found in reach of the present one stays so until the epoch turns.       *)
Reached ==
  /\ pc \in {"gate", "request"} => "a" \in run.cmd /\ run.seen <= epoch
  /\ pc = "request" /\ run.seen = epoch => policyId \in {epoch, epoch + 1}

BoundInv == Typed /\ Room /\ Reached

(* Sets of steps are finite.                                               *)
LEMMA StepSets ==
  ASSUME NEW S \in SUBSET Steps
  PROVE  /\ IsFiniteSet(S) /\ Cardinality(S) \in Nat
         /\ \A T \in SUBSET S : IsFiniteSet(T) /\ Cardinality(T) \in Nat
                                /\ Cardinality(T) <= Cardinality(S)
         /\ \A x \in S : Cardinality(S \ {x}) = Cardinality(S) - 1
<1>1. IsFiniteSet({"r"} \cup {"R"} \cup {"a"} \cup {"p"})
  <2>1. IsFiniteSet({"r"})
    BY FS_Singleton
  <2>2. IsFiniteSet({"r"} \cup {"R"})
    BY <2>1, FS_AddElement
  <2>3. IsFiniteSet({"r"} \cup {"R"} \cup {"a"})
    BY <2>2, FS_AddElement
  <2> QED BY <2>3, FS_AddElement
<1>2. Steps = {"r"} \cup {"R"} \cup {"a"} \cup {"p"}
  BY DEF Steps
<1>3. IsFiniteSet(S)
  BY <1>1, <1>2, FS_Subset
<1>4. \A T \in SUBSET S : IsFiniteSet(T) /\ Cardinality(T) \in Nat
                          /\ Cardinality(T) <= Cardinality(S)
  BY <1>3, FS_Subset, FS_CardinalityType
<1>5. \A x \in S : Cardinality(S \ {x}) = Cardinality(S) - 1
  BY <1>3, FS_RemoveElement
<1> QED BY <1>3, <1>4, <1>5

(* The steps ahead, place by place.                                        *)
LEMMA AheadAtPlaces ==
  ASSUME NEW place \in {"idle", "gate", "request", "wait", "save", "finish"} \cup Steps,
         NEW step \in Steps
  PROVE  /\ AheadAt(place, step) \in SUBSET Steps
         /\ place = "r" => AheadAt(place, step) = Steps
         /\ place = "R" => AheadAt(place, step) = {"R", "a", "p"}
         /\ place \in {"a", "gate", "request"} => AheadAt(place, step) = {"a", "p"}
         /\ place = "p" => AheadAt(place, step) = {"p"}
         /\ place \in {"idle", "finish"} => AheadAt(place, step) = {}
         /\ place \in {"wait", "save"} /\ step = "r" => AheadAt(place, step) = {"R", "a", "p"}
         /\ place \in {"wait", "save"} /\ step = "R" => AheadAt(place, step) = {"a", "p"}
         /\ place \in {"wait", "save"} /\ step = "a" => AheadAt(place, step) = {"p"}
         /\ place \in {"wait", "save"} /\ step = "p" => AheadAt(place, step) = {}
<1>1. /\ step = "r" => After(step) = "R"
      /\ step = "R" => After(step) = "a"
      /\ step = "a" => After(step) = "p"
      /\ step = "p" => After(step) = "finish"
  BY DEF After
<1>2. CASE place = "r"
  BY <1>2 DEF AheadAt, From, Steps
<1>3. CASE place = "R"
  BY <1>3 DEF AheadAt, From, Steps
<1>4. CASE place \in {"a", "gate", "request"}
  BY <1>4 DEF AheadAt, From, Steps
<1>5. CASE place = "p"
  BY <1>5 DEF AheadAt, From, Steps
<1>6. CASE place \in {"idle", "finish"}
  BY <1>6 DEF AheadAt, From, Steps
<1>7. CASE place \in {"wait", "save"}
  BY <1>1, <1>7 DEF AheadAt, From, Steps
<1> QED BY <1>2, <1>3, <1>4, <1>5, <1>6, <1>7 DEF Steps

(* Where the run may still send, now and after a step.                     *)
LEMMA AheadIs ==
  ASSUME Typed
  PROVE  /\ Ahead \in SUBSET Steps /\ run.cmd \in SUBSET Steps
         /\ pc = "r" => Ahead = Steps
         /\ pc = "R" => Ahead = {"R", "a", "p"}
         /\ pc \in {"a", "gate", "request"} => Ahead = {"a", "p"}
         /\ pc = "p" => Ahead = {"p"}
         /\ pc \in {"idle", "finish"} => Ahead = {}
         /\ pc \in {"wait", "save"} /\ run.step = "r" => Ahead = {"R", "a", "p"}
         /\ pc \in {"wait", "save"} /\ run.step = "R" => Ahead = {"a", "p"}
         /\ pc \in {"wait", "save"} /\ run.step = "a" => Ahead = {"p"}
         /\ pc \in {"wait", "save"} /\ run.step = "p" => Ahead = {}
BY AheadAtPlaces DEF Ahead, Typed, Run

(* The same after a step.                                                  *)
LEMMA AheadNext ==
  ASSUME Typed'
  PROVE  /\ Ahead' \in SUBSET Steps /\ run'.cmd \in SUBSET Steps
         /\ pc' = "r" => Ahead' = Steps
         /\ pc' = "R" => Ahead' = {"R", "a", "p"}
         /\ pc' \in {"a", "gate", "request"} => Ahead' = {"a", "p"}
         /\ pc' = "p" => Ahead' = {"p"}
         /\ pc' \in {"idle", "finish"} => Ahead' = {}
         /\ pc' \in {"wait", "save"} /\ run'.step = "r" => Ahead' = {"R", "a", "p"}
         /\ pc' \in {"wait", "save"} /\ run'.step = "R" => Ahead' = {"a", "p"}
         /\ pc' \in {"wait", "save"} /\ run'.step = "a" => Ahead' = {"p"}
         /\ pc' \in {"wait", "save"} /\ run'.step = "p" => Ahead' = {}
BY AheadAtPlaces DEF Ahead, Typed, Run

(* There is room enough as long as nothing is sent and no step comes back. *)
LEMMA RoomStays ==
  ASSUME Typed, Typed', Room, Len(txs') = Len(txs), run'.cmd \cap Ahead' \subseteq run.cmd \cap Ahead
  PROVE  Room'
<1>1. run.cmd \cap Ahead \in SUBSET Steps
  BY AheadIs
<1>2. /\ Cardinality(run.cmd \cap Ahead) \in Nat
      /\ Cardinality(run'.cmd \cap Ahead') \in Nat
      /\ Cardinality(run'.cmd \cap Ahead') <= Cardinality(run.cmd \cap Ahead)
  BY <1>1, StepSets
<1>3. Len(txs) \in Nat
  BY DEF Typed
<1> QED BY <1>2, <1>3, RegistrationAssumption DEF Room

(* The locals of no run are those of a run.                                *)
LEMMA IdleTyped == Idle \in Run
BY RegistrationAssumption DEF Idle, Run, EmptyState, State, Steps, Ids, Tees

(* A run that fails sends nothing more.                                    *)
LEMMA FailBound ==
  ASSUME BoundInv, Fail
  PROVE  BoundInv'
<1>1. /\ pc' = "idle" /\ run' = Idle
      /\ UNCHANGED <<tee, epoch, policyId, expired, proved, txs, file, runs, reported>>
  BY DEF Fail, Goto, outside
<1>2. Typed'
  BY <1>1, IdleTyped DEF BoundInv, Typed
<1>3. run'.cmd = {}
  BY <1>1 DEF Idle
<1>4. Room'
  BY <1>1, <1>2, <1>3, RoomStays DEF BoundInv
<1>5. Reached'
  BY <1>1 DEF Reached
<1> QED BY <1>2, <1>4, <1>5 DEF BoundInv

(* A run that only goes on keeps the bounds.                               *)
LEMMA GotoBound ==
  ASSUME BoundInv, NEW next, Goto(next), run' \in Run, run'.cmd = run.cmd,
         next \in {"gate", "request", "wait", "save", "finish"} \cup Steps,
         Typed' => run.cmd \cap Ahead' \subseteq Ahead,
         Reached'
  PROVE  BoundInv'
<1>1. /\ pc' = next
      /\ UNCHANGED <<tee, epoch, policyId, expired, proved, txs, file, runs, reported>>
  BY DEF Goto, outside
<1>2. Typed'
  BY <1>1 DEF BoundInv, Typed
<1>3. Room'
  BY <1>1, <1>2, RoomStays DEF BoundInv
<1> QED BY <1>2, <1>3 DEF BoundInv

(* A transaction takes the room of its step.                               *)
LEMMA SendBound ==
  ASSUME BoundInv, NEW op \in {"register", "attest", "avail", "promote"}, NEW t \in Tees,
         NEW of \in Ids, NEW step \in Steps, Send(op, t, of, step), step \in run.cmd,
         Ahead = From(step)
  PROVE  BoundInv'
<1> DEFINE new == [op |-> op, tee |-> t, of |-> of, status |-> "pending"]
<1>1. CASE ~Accepted(new)
  BY <1>1, FailBound DEF Send
<1>2. CASE Accepted(new)
  <2>1. /\ txs' = Append(txs, new)
        /\ run' = [run EXCEPT !.step = step, !.tx = Len(txs) + 1]
        /\ pc' = "wait"
        /\ UNCHANGED <<tee, epoch, policyId, expired, proved, file, runs, reported>>
    BY <1>2 DEF Send, outside
  <2>2. txs \in Seq(Tx) /\ run \in Run /\ new \in Tx /\ Len(txs) \in Nat
    BY DEF BoundInv, Typed, Tx
  <2>3. txs' \in Seq(Tx) /\ Len(txs') = Len(txs) + 1 /\ DOMAIN txs \subseteq DOMAIN txs'
    BY <2>1, <2>2
  <2>4. step \in run.cmd \cap Ahead /\ run.cmd \cap Ahead \in SUBSET Steps
    BY AheadIs DEF BoundInv, From, Steps
  <2>5. Cardinality((run.cmd \cap Ahead) \ {step}) = Cardinality(run.cmd \cap Ahead) - 1
        /\ Cardinality(run.cmd \cap Ahead) \in Nat
        /\ Cardinality((run.cmd \cap Ahead) \ {step}) \in Nat
    BY <2>4, StepSets
  <2>6. Len(txs) + 1 \in Ids
    BY <2>2, <2>5, RegistrationAssumption DEF BoundInv, Room, Ids
  <2>7. run' \in Run /\ run'.cmd = run.cmd /\ run'.step = step
    BY <2>1, <2>2, <2>6 DEF Run
  <2>8. Typed'
    BY <2>1, <2>3, <2>7 DEF BoundInv, Typed
  <2>9. run'.cmd \cap Ahead' = (run.cmd \cap Ahead) \ {step}
    <3>1. Typed /\ pc' = "wait" /\ run'.step = step
      BY <2>1, <2>7 DEF BoundInv
    <3>2. Ahead' = From(step) \ {step}
      BY <2>8, <3>1, AheadNext DEF From, Steps
    <3> QED BY <2>7, <3>2
  <2>10. Room'
    <3>1. Cardinality(run'.cmd \cap Ahead') = Cardinality(run.cmd \cap Ahead) - 1
      BY <2>5, <2>9
    <3>2. Len(txs') + Cardinality(run'.cmd \cap Ahead') = Len(txs) + Cardinality(run.cmd \cap Ahead)
      BY <2>2, <2>3, <2>5, <3>1
    <3> QED BY <3>2 DEF BoundInv, Room
  <2>11. Reached'
    BY <2>1 DEF Reached
  <2> QED BY <2>8, <2>10, <2>11 DEF BoundInv
<1> QED BY <1>1, <1>2

(* Before the first run there is nothing to bound.                         *)
LEMMA InitBound == Init => BoundInv
<1> SUFFICES ASSUME Init PROVE BoundInv
  OBVIOUS
<1>1. Typed
  BY IdleTyped, RegistrationAssumption DEF Init, Typed, Tees
<1>2. run.cmd \cap Ahead = {} /\ Len(txs) = 0
  BY <1>1, AheadIs DEF Init
<1>3. Room
  <2>1. Cardinality(run.cmd \cap Ahead) = 0
    BY <1>2, FS_EmptySet
  <2> QED BY <1>2, <2>1, RegistrationAssumption DEF Room
<1> QED BY <1>1, <1>3 DEF Init, Reached, BoundInv

(* The reads and the poll.                                                 *)
LEMMA ReadBound ==
  ASSUME BoundInv, ReadEpoch \/ Gate \/ PollAgain
  PROVE  BoundInv'
<1>1. /\ Typed /\ Room /\ Reached /\ run \in Run
      /\ epoch \in 1..MaxEpoch /\ MaxEpoch \in Nat /\ policyId \in Nat
  BY RegistrationAssumption DEF BoundInv, Typed
<1>2. CASE Gate /\ Fail
  BY <1>2, FailBound
<1>3. CASE ReadEpoch
  <2>1. PICK e \in {0, epoch} :
          run' = [run EXCEPT !.seen = e] /\ Goto(IF e = 0 THEN "request" ELSE "gate")
    BY <1>3 DEF ReadEpoch
  <2>2. /\ run' \in Run /\ run'.cmd = run.cmd /\ run'.seen = e /\ e \in Nat
        /\ e <= epoch /\ (e = epoch => e # 0)
    BY <1>1, <2>1 DEF Run
  <2>3. pc = "a" /\ "a" \in run.cmd /\ pc' = (IF e = 0 THEN "request" ELSE "gate")
        /\ UNCHANGED <<epoch, policyId>>
    BY <1>3, <2>1 DEF ReadEpoch, ToDo, Goto, outside
  <2>4. Reached'
    BY <2>2, <2>3 DEF Reached
  <2>5. Typed' => Ahead' = Ahead
    BY <1>1, <2>3, AheadIs, AheadNext
  <2> QED BY <2>1, <2>2, <2>4, <2>5, GotoBound
<1>4. CASE Gate /\ ~Fail
  <2>1. /\ pc = "gate" /\ Goto("request")
        /\ run' \in {run, [run EXCEPT !.seen = 0]}
        /\ run' = run => PolicyInSync(run.seen, policyId) \/ run.seen = 0
    BY <1>1, <1>4 DEF Gate, Run
  <2>2. run' \in Run /\ run'.cmd = run.cmd /\ run'.seen \in {0, run.seen}
    BY <1>1, <2>1 DEF Run
  <2>3. pc' = "request" /\ UNCHANGED <<epoch, policyId>>
    BY <2>1 DEF Goto, outside
  <2>4. run'.seen = epoch => policyId \in {epoch, epoch + 1}
    BY <1>1, <2>1, <2>2 DEF PolicyInSync, Run
  <2>5. run'.seen <= epoch
    BY <1>1, <2>1, <2>2 DEF Reached
  <2>6. Reached'
    BY <1>1, <2>1, <2>2, <2>3, <2>4, <2>5 DEF Reached
  <2>7. Typed' => Ahead' = Ahead
    BY <1>1, <2>1, <2>3, AheadIs, AheadNext
  <2> QED BY <2>1, <2>2, <2>6, <2>7, GotoBound
<1>5. CASE PollAgain
  <2>1. /\ pc = "p" /\ pc' = "p" /\ Goto("p") /\ PollsLeft
        /\ run' = [run EXCEPT !.polls = @ + 1]
    BY <1>5 DEF PollAgain, ToDo, Goto
  <2>2. run.polls + 1 \in 0..(Repeats - 1)
    BY <1>1, <2>1, RegistrationAssumption DEF PollsLeft, Run
  <2>3. run' \in Run /\ run'.cmd = run.cmd
    BY <1>1, <2>1, <2>2 DEF Run
  <2>4. Typed' => Ahead' = Ahead
    BY <1>1, <2>1, AheadIs, AheadNext
  <2>5. Reached'
    BY <2>1 DEF Reached
  <2> QED BY <2>1, <2>3, <2>4, <2>5, GotoBound DEF Steps
<1> QED BY <1>2, <1>3, <1>4, <1>5

(* Skipping a step, or finding it in the file, keeps the bounds.           *)
LEMMA SkipBound ==
  ASSUME BoundInv, NEW step \in Steps, Skip(step) \/ FromFile(step)
  PROVE  BoundInv'
<1>1. Typed /\ run \in Run /\ run.state \in State
  BY DEF BoundInv, Typed, Run
<1>2. /\ pc = step /\ pc' = After(step) /\ Goto(After(step))
      /\ run' \in {run, [run EXCEPT !.instruction = run.state.instruction],
                     [run EXCEPT !.attest = run.state.attest]}
  BY DEF Skip, FromFile, Goto
<1>3. run' \in Run /\ run'.cmd = run.cmd
  BY <1>1, <1>2 DEF Run, State
<1>4. /\ After(step) \in {"R", "a", "p", "finish"}
      /\ step = "r" => After(step) = "R"
      /\ step = "R" => After(step) = "a"
      /\ step = "a" => After(step) = "p"
      /\ step = "p" => After(step) = "finish"
  BY DEF After, Steps
<1>5. Typed' => Ahead' \subseteq Ahead
  BY <1>1, <1>2, <1>4, AheadIs, AheadNext DEF Steps
<1>6. Reached'
  BY <1>2, <1>4 DEF Reached
<1> QED BY <1>2, <1>3, <1>4, <1>5, <1>6, GotoBound DEF Steps

(* Whatever a run sends takes the room of its step.                        *)
LEMMA RequestBound ==
  ASSUME RegInv, BoundInv, PreRegister \/ RequestAttestation \/ RequestAvailability \/ Promote
  PROVE  BoundInv'
<1>1. /\ Typed /\ run.tee \in Tees /\ run.attest \in Ids /\ run.instruction \in Ids /\ 0 \in Ids
  BY RegistrationAssumption DEF BoundInv, Typed, Run, Ids
<1>2. CASE PreRegister
  <2>1. pc = "r" /\ "r" \in run.cmd /\ Ahead = From("r")
    BY <1>1, <1>2, AheadIs DEF PreRegister, ToDo, From
  <2>2. Send("attest", run.tee, 0, "r") \/ Send("register", run.tee, 0, "r")
    BY <1>2 DEF PreRegister
  <2> QED BY <1>1, <2>1, <2>2, SendBound DEF Steps
<1>3. CASE RequestAttestation
  <2>1. Send("attest", run.tee, 0, "R") /\ "R" \in run.cmd /\ Ahead = From("R")
    BY <1>1, <1>3, AheadIs DEF RequestAttestation, ToDo, From
  <2> QED BY <1>1, <2>1, SendBound DEF Steps
<1>4. CASE RequestAvailability
  <2>1. Send("avail", run.tee, run.attest, "a") /\ "a" \in run.cmd /\ Ahead = From("a")
    BY <1>1, <1>4, AheadIs DEF RequestAvailability, From, BoundInv, Reached
  <2> QED BY <1>1, <2>1, SendBound DEF Steps
<1>5. CASE Promote
  <2>1. /\ run.instruction \in proved /\ "p" \in run.cmd /\ Ahead = From("p")
        /\ Send("promote", txs[run.instruction].tee, run.instruction, "p")
    BY <1>1, <1>5, AheadIs DEF Promote, ToDo, From
  <2>2. run.instruction \in DOMAIN txs
    BY <2>1 DEF RegInv, ProvedChecks, Done
  <2>3. txs[run.instruction].tee \in Tees
    <3>1. txs \in Seq(Tx)
      BY <1>1 DEF Typed
    <3>2. txs[run.instruction] \in Tx
      BY <2>2, <3>1
    <3> QED BY <3>2 DEF Tx
  <2> QED BY <1>1, <2>1, <2>3, SendBound DEF Steps
<1> QED BY <1>2, <1>3, <1>4, <1>5

(* What is mined takes no more room.                                       *)
LEMMA MinedBound ==
  ASSUME RegInv, BoundInv, WaitMined
  PROVE  BoundInv'
<1>1. /\ Typed /\ pc = "wait" /\ run \in Run /\ run.state \in State
      /\ run.step \in Steps /\ run.tx \in Ids
  BY DEF BoundInv, Typed, Run, WaitMined
<1>2. CASE run.step = "p"
  <2>1. UNCHANGED run /\ Goto("finish") /\ pc' = "finish"
    BY <1>2 DEF WaitMined, Goto
  <2>2. Typed' => Ahead' = {}
    BY <2>1, AheadNext
  <2>3. Reached'
    BY <2>1 DEF Reached
  <2> QED BY <1>1, <2>1, <2>2, <2>3, GotoBound
<1>3. CASE run.step # "p"
  <2>1. /\ Goto("save") /\ pc' = "save"
        /\ \/ run' = [run EXCEPT !.instruction = run.tx, !.state.instruction = run.tx,
                                 !.state.done = @ \cup {"a"}]
           \/ run' = [run EXCEPT !.attest = run.tx, !.state.attest = run.tx,
                                 !.state.done = @ \cup {run.step}]
    BY <1>3 DEF WaitMined, Goto
  <2>2. run' \in Run /\ run'.cmd = run.cmd /\ run'.step = run.step
    <3>1. /\ [run.state EXCEPT !.instruction = run.tx, !.done = @ \cup {"a"}] \in State
          /\ [run.state EXCEPT !.attest = run.tx, !.done = @ \cup {run.step}] \in State
      BY <1>1 DEF State, Steps
    <3>2. \/ run' = [run EXCEPT !.instruction = run.tx,
                       !.state = [run.state EXCEPT !.instruction = run.tx, !.done = @ \cup {"a"}]]
          \/ run' = [run EXCEPT !.attest = run.tx,
                       !.state = [run.state EXCEPT !.attest = run.tx, !.done = @ \cup {run.step}]]
      BY <1>1, <2>1 DEF Run, State
    <3> QED BY <1>1, <3>1, <3>2 DEF Run
  <2>3. Typed' => Ahead' = Ahead
    BY <1>1, <2>1, <2>2, AheadIs, AheadNext DEF Steps
  <2>4. Reached'
    BY <2>1 DEF Reached
  <2> QED BY <2>1, <2>2, <2>3, <2>4, GotoBound
<1> QED BY <1>2, <1>3

(* Saving keeps the bounds.                                                *)
LEMMA SaveBound ==
  ASSUME RegInv, BoundInv, Save
  PROVE  BoundInv'
<1>1. /\ pc = "save" /\ pc' = After(run.step)
      /\ file' \in {run.state, file, Torn}
      /\ UNCHANGED <<tee, epoch, policyId, expired, txs, run, runs, reported>>
  BY DEF Save, outside
<1>2. Typed /\ run.state \in State /\ run.step \in {"r", "R", "a"}
  BY <1>1 DEF BoundInv, Typed, Run, RegInv, RunInv, Saving, Steps
<1>3. pc' = IF run.step = "r" THEN "R" ELSE IF run.step = "R" THEN "a" ELSE "p"
  BY <1>1, <1>2 DEF After
<1>4. Typed'
  BY <1>1, <1>2, <1>3 DEF Typed, Steps
<1>5. Ahead' = Ahead
  BY <1>1, <1>2, <1>3, <1>4, AheadIs, AheadNext
<1>6. Room'
  BY <1>1, <1>2, <1>4, <1>5, RoomStays DEF BoundInv
<1>7. Reached'
  BY <1>3 DEF Reached
<1> QED BY <1>4, <1>6, <1>7 DEF BoundInv

(* So does the end.                                                        *)
LEMMA FinishBound ==
  ASSUME BoundInv, Finish
  PROVE  BoundInv'
<1>1. /\ pc' = "idle" /\ run' = Idle /\ file' \in {NoFile, file}
      /\ reported' = reported \cup {run}
      /\ UNCHANGED <<tee, epoch, policyId, expired, txs, runs>>
  BY DEF Finish, outside
<1>2. Typed'
  BY <1>1, IdleTyped DEF BoundInv, Typed
<1>3. run'.cmd = {}
  BY <1>1 DEF Idle
<1>4. Room'
  BY <1>1, <1>2, <1>3, RoomStays DEF BoundInv
<1> QED BY <1>1, <1>2, <1>4 DEF BoundInv, Reached

(* A run is launched only with room for its command.                       *)
LEMMA LaunchBound ==
  ASSUME BoundInv, NEW cmd \in Commands, NEW resume \in BOOLEAN, NEW given \in Ids,
         Launch(cmd, resume, given)
  PROVE  BoundInv'
<1>1. PICK f \in {file, NoFile} :
        /\ file' = f
        /\ pc = "idle"
        /\ runs < MaxRuns /\ runs' = runs + 1
        /\ Len(txs) + Cardinality(cmd) <= MaxTxs
        /\ UNCHANGED <<tee, epoch, policyId, expired, txs, reported>>
        /\ IF f = Torn
           THEN UNCHANGED <<pc, run>>
           ELSE /\ pc' = "r"
                /\ LET s == IF f = NoFile THEN EmptyState ELSE f IN
                   run' = [Idle EXCEPT !.cmd = cmd, !.tee = tee, !.state = s,
                                       !.fresh = s.done = {}, !.instruction = given]
  BY DEF Launch, outside
<1>2. Typed /\ runs' \in 0..MaxRuns /\ file' \in State \cup {NoFile, Torn}
  BY <1>1, RegistrationAssumption DEF BoundInv, Typed
<1>3. CASE f = Torn
  <2>1. Typed'
    BY <1>1, <1>2, <1>3 DEF Typed
  <2>2. Room' /\ Reached'
    BY <1>1, <1>3 DEF BoundInv, Room, Reached, Ahead
  <2> QED BY <2>1, <2>2 DEF BoundInv
<1>4. CASE f # Torn
  <2> DEFINE s == IF f = NoFile THEN EmptyState ELSE f
  <2>1. s \in State
    <3>1. 0 \in Ids
      BY RegistrationAssumption DEF Ids
    <3>2. EmptyState \in State
      BY <3>1 DEF EmptyState, State
    <3> QED BY <1>1, <1>2, <1>4, <3>2 DEF Typed
  <2>2. cmd \in SUBSET Steps /\ tee \in Tees
    BY <1>2, RegistrationAssumption DEF Typed
  <2>3. run' = [Idle EXCEPT !.cmd = cmd, !.tee = tee, !.state = s,
                            !.fresh = s.done = {}, !.instruction = given]
        /\ pc' = "r"
    BY <1>1, <1>4
  <2>4. run' \in Run /\ run'.cmd = cmd
    BY <2>1, <2>2, <2>3, IdleTyped DEF Run, Idle
  <2>5. Typed'
    BY <1>1, <1>2, <2>3, <2>4 DEF Typed, Steps
  <2>6. run'.cmd \cap Ahead' = cmd
    BY <2>2, <2>3, <2>4, <2>5, AheadNext
  <2>7. Room'
    BY <1>1, <2>6 DEF Room
  <2> QED BY <2>3, <2>5, <2>7 DEF BoundInv, Reached
<1> QED BY <1>3, <1>4

(* Nothing outside takes room, and no epoch is taken back.                 *)
LEMMA OutsideBound ==
  ASSUME BoundInv, Outside
  PROVE  BoundInv'
<1>1. Typed /\ Room /\ Reached
  BY DEF BoundInv
<1>2. UNCHANGED <<file, pc, run, runs, reported>> => Ahead' = Ahead
  BY DEF Ahead
<1>3. ASSUME NEW i \in DOMAIN txs, Mine(i)
      PROVE  BoundInv'
  <2>1. PICK s \in {"ok", "reverted"} : txs' = [txs EXCEPT ![i].status = s]
    BY <1>3 DEF Mine
  <2>2. UNCHANGED <<tee, epoch, policyId, expired, file, pc, run, runs, reported>>
    BY <1>3 DEF Mine, outside
  <2>3. txs \in Seq(Tx) /\ txs[i] \in Tx
    BY <1>1, <1>3 DEF Typed
  <2>4. [txs[i] EXCEPT !.status = s] \in Tx
    BY <2>3 DEF Tx
  <2>5. txs' \in Seq(Tx) /\ Len(txs') = Len(txs) /\ DOMAIN txs' = DOMAIN txs
    BY <2>1, <2>3, <2>4
  <2>6. Typed'
    BY <1>1, <2>2, <2>5 DEF Typed
  <2> QED BY <1>1, <1>2, <2>2, <2>5, <2>6 DEF BoundInv, Room, Reached
<1>4. ASSUME UNCHANGED <<txs, file, pc, run, runs, reported>>,
             expired' \subseteq DOMAIN txs, UNCHANGED <<tee, epoch, policyId>>
      PROVE  BoundInv'
  BY <1>1, <1>2, <1>4 DEF BoundInv, Typed, Room, Reached
<1>5. ASSUME NEW i \in DOMAIN txs, Expire(i) \/ Prove(i)
      PROVE  BoundInv'
  BY <1>1, <1>4, <1>5 DEF Expire, Prove, chainVars, Typed
<1>6. CASE RestartTee
  <2>1. tee' \in Tees
    BY <1>1, <1>6, RegistrationAssumption DEF RestartTee, Typed, Tees
  <2> QED BY <1>1, <1>2, <1>6, <2>1 DEF RestartTee, chainVars, BoundInv, Typed, Room, Reached
<1>7. CASE Advance
  <2>1. UNCHANGED <<tee, txs, expired, file, pc, run, runs, reported>>
    BY <1>7 DEF Advance, chainVars
  <2>2. epoch' \in 1..MaxEpoch /\ policyId' \in 0..(MaxEpoch + 1)
    BY <1>1, <1>7, RegistrationAssumption DEF Advance, Typed
  <2>3. Typed'
    BY <1>1, <2>1, <2>2 DEF Typed
  <2>4. run.seen \in Nat /\ epoch \in Nat /\ policyId \in Nat
    BY <1>1, RegistrationAssumption DEF Typed, Run
  <2>5. Reached'
    BY <1>1, <1>7, <2>1, <2>4 DEF Advance, Reached
  <2>6. Room'
    BY <1>1, <1>2, <2>1 DEF Room
  <2> QED BY <2>3, <2>5, <2>6 DEF BoundInv
<1> QED BY <1>3, <1>5, <1>6, <1>7 DEF Outside

(* Every step keeps the bounds.                                            *)
LEMMA NextBound ==
  ASSUME RegInv, BoundInv, [Next]_vars
  PROVE  BoundInv'
<1>1. CASE Abort \/ WaitReverted \/ WaitTimesOut \/ PollExpires
  BY <1>1, FailBound DEF Abort, WaitReverted, WaitTimesOut, PollExpires
<1>2. CASE UNCHANGED vars
  BY <1>2 DEF vars, BoundInv, Typed, Room, Reached, Ahead
<1>3. CASE Proceed
  BY <1>1, <1>3, SkipBound, RequestBound, ReadBound, MinedBound, SaveBound, FinishBound
  DEF Proceed
<1> QED BY <1>1, <1>2, <1>3, LaunchBound, OutsideBound DEF Next

(* The bounds hold in every state.                                         *)
LEMMA BoundInvariant == Safety => []BoundInv
<1>1. RegInv /\ BoundInv /\ [Next]_vars => BoundInv'
  BY NextBound
<1> QED BY <1>1, InitBound, RegistrationInvariant, PTL DEF Safety

(* Registration's state stays of its types and within its bounds: no run   *)
(* polls more often than ActionResult repeats, nor sends more transactions *)
(* than its command has steps.                                             *)
THEOREM RegistrationTyped == Safety => []TypeOK
<1>1. RegInv /\ BoundInv => TypeOK
  <2> SUFFICES ASSUME RegInv, BoundInv PROVE TypeOK
    OBVIOUS
  <2>1. Typed /\ Len(txs) \in Nat /\ Cardinality(run.cmd \cap Ahead) \in Nat
    BY AheadIs, StepSets DEF BoundInv, Typed
  <2>2. Len(txs) <= MaxTxs
    BY <2>1, RegistrationAssumption DEF BoundInv, Room
  <2>3. proved \subseteq DOMAIN txs
    BY DEF RegInv, ProvedChecks, Done
  <2> QED BY <2>1, <2>2, <2>3 DEF Typed, TypeOK
<1> QED BY <1>1, RegistrationInvariant, BoundInvariant, PTL

(* CheckFTDCProxyPolicyConsistency: whoever goes on to the availability    *)
(* check has seen a policy in reach of the epoch, and it stays in reach    *)
(* for as long as that epoch lasts, however the proxy moves on.            *)
THEOREM PreflightHolds == Safety => GateSparesTransactions
<1>1. BoundInv => (RequestAvailability /\ txs' # txs /\ run.seen = epoch
                     => policyId \in {epoch, epoch + 1})
  BY DEF BoundInv, Reached, RequestAvailability
<1> QED BY <1>1, BoundInvariant, PTL DEF GateSparesTransactions

-----------------------------------------------------------------------------
(* How long a run can still be: StepsFrom, place by place.                 *)
Counts(place, step, polls, steps) ==
  LET left == Repeats - polls IN
  /\ steps \in Nat /\ left \in Nat /\ left > 0
  /\ place = "idle" => steps = 0
  /\ place # "idle" => steps > 0
  /\ place = "finish" => steps = 1
  /\ place = "wait" /\ step = "p" => steps = 2
  /\ place = "wait" /\ step = "a" => steps = left + 4
  /\ place = "wait" /\ step = "R" => steps = left + 9
  /\ place = "wait" /\ step = "r" => steps = left + 12
  /\ place = "save" /\ step = "a" => steps = left + 3
  /\ place = "save" /\ step = "R" => steps = left + 8
  /\ place = "save" /\ step = "r" => steps = left + 11
  /\ place = "p" => steps = left + 2
  /\ place = "request" => steps = left + 5
  /\ place = "gate" => steps = left + 6
  /\ place = "a" => steps = left + 7
  /\ place = "R" => steps = left + 10
  /\ place = "r" => steps = left + 13

(* StepsFrom is what Counts says it is.                                    *)
LEMMA StepsFromPlaces ==
  ASSUME NEW place \in {"idle", "gate", "request", "wait", "save", "finish"} \cup Steps,
         NEW step \in Steps, NEW polls \in 0..(Repeats - 1),
         place = "save" => step # "p"
  PROVE  Counts(place, step, polls, StepsFrom(place, step, polls))
<1> DEFINE left == Repeats - polls
           steps == StepsFrom(place, step, polls)
           later == CASE step = "r" -> 8 [] step = "R" -> 5 [] OTHER -> 0
<1>1. left \in Nat /\ left > 0
  BY RegistrationAssumption
<1>2. /\ step = "r" => later = 8
      /\ step = "R" => later = 5
      /\ step \in {"a", "p"} => later = 0
  OBVIOUS
<1>3. /\ place = "idle" => steps = 0
      /\ place = "finish" => steps = 1
      /\ place = "wait" /\ step = "p" => steps = 2
      /\ place = "p" => steps = left + 2
      /\ place = "save" => steps = left + 2 + later + 1
      /\ place = "wait" /\ step # "p" => steps = left + 2 + later + 2
      /\ place = "request" => steps = left + 2 + 3
      /\ place = "gate" => steps = left + 2 + 4
      /\ place = "a" => steps = left + 2 + 5
      /\ place = "R" => steps = left + 2 + 8
      /\ place = "r" => steps = left + 2 + 11
  BY DEF StepsFrom
<1> HIDE DEF left, later, steps
<1>4. Counts(place, step, polls, steps)
  BY <1>1, <1>2, <1>3 DEF Steps, Counts, left
<1> QED  BY <1>4 DEF steps

(* Before a step and after it.                                             *)
LEMMA StepsLeftCounts ==
  ASSUME Typed, Saving, Typed', Saving'
  PROVE  /\ Counts(pc, run.step, run.polls, StepsLeft)
         /\ Counts(pc', run'.step, run'.polls, StepsLeft')
<1>1. /\ run.step \in Steps /\ run.polls \in 0..(Repeats - 1)
      /\ run'.step \in Steps /\ run'.polls \in 0..(Repeats - 1)
  BY DEF Typed, Run
<1> QED  BY <1>1, StepsFromPlaces DEF StepsLeft, Typed, Saving

(* A run that fails is at its end.                                         *)
LEMMA FailShortens ==
  ASSUME Typed, Saving, Typed', Saving', pc # "idle", Fail
  PROVE  StepsLeft' < StepsLeft
<1>1. pc' = "idle"
  BY DEF Fail, Goto
<1> QED  BY <1>1, StepsLeftCounts DEF Counts

(* A transaction is sent, or its run fails.                                *)
LEMMA SendShortens ==
  ASSUME Typed, Saving, Typed', Saving', NEW op, NEW t, NEW of,
         NEW step \in Steps, Send(op, t, of, step),
         pc = IF step = "a" THEN "request" ELSE step
  PROVE  StepsLeft' < StepsLeft
<1>1. pc # "idle"
  BY DEF Steps
<1>2. CASE Fail
  BY <1>1, <1>2, FailShortens
<1>3. CASE pc' = "wait" /\ run' = [run EXCEPT !.step = step, !.tx = Len(txs) + 1]
  <2>1. run'.step = step /\ run'.polls = run.polls
    BY <1>3 DEF Typed, Run
  <2> QED  BY <1>3, <2>1, StepsLeftCounts DEF Counts, Steps
<1> QED  BY <1>2, <1>3 DEF Send

(* Whatever the tool does by itself takes the run nearer to its end.       *)
LEMMA ProceedShortens ==
  ASSUME Typed, Saving, Typed', Saving', Proceed
  PROVE  StepsLeft' < StepsLeft
<1> USE StepsLeftCounts DEF Counts
<1>1. ASSUME NEW step \in Steps, Skip(step) \/ FromFile(step)
      PROVE  StepsLeft' < StepsLeft
  <2>1. pc = step /\ pc' = After(step) /\ run'.polls = run.polls
    BY <1>1 DEF Skip, FromFile, Goto, Typed, Run
  <2> QED  BY <2>1 DEF Steps, After
<1>2. CASE PreRegister \/ RequestAttestation
  BY <1>2, SendShortens DEF PreRegister, RequestAttestation, ToDo, Steps
<1>3. CASE RequestAvailability
  BY <1>3, SendShortens DEF RequestAvailability, Steps
<1>4. CASE ReadEpoch \/ Gate
  <2>1. CASE Fail
    BY <1>4, <2>1, FailShortens DEF ReadEpoch, Gate, ToDo
  <2>2. CASE ~Fail
    <3>1. /\ run'.polls = run.polls
          /\ \/ pc = "a" /\ pc' \in {"gate", "request"}
             \/ pc = "gate" /\ pc' = "request"
      BY <1>4, <2>2 DEF ReadEpoch, Gate, ToDo, Goto, Typed, Run
    <3> QED  BY <3>1
  <2> QED  BY <2>1, <2>2
<1>5. CASE WaitMined
  <2>1. CASE run.step = "p"
    <3>1. pc = "wait" /\ pc' = "finish"
      BY <1>5, <2>1 DEF WaitMined, Goto
    <3> QED  BY <2>1, <3>1
  <2>2. CASE run.step # "p"
    <3>1. pc = "wait" /\ pc' = "save" /\ run'.step = run.step /\ run'.polls = run.polls
      BY <1>5, <2>2 DEF WaitMined, Goto, Typed, Run
    <3>2. run.step \in {"r", "R", "a"}
      BY <2>2 DEF Typed, Run, Steps
    <3> QED  BY <3>1, <3>2
  <2> QED  BY <2>1, <2>2
<1>6. CASE WaitReverted \/ WaitTimesOut \/ PollExpires
  BY <1>6, FailShortens DEF WaitReverted, WaitTimesOut, PollExpires, ToDo
<1>7. CASE Save
  <2>1. pc = "save" /\ pc' = After(run.step) /\ run' = run /\ run.step \in {"r", "R", "a"}
    BY <1>7 DEF Save, Saving, Typed, Run, Steps
  <2> QED  BY <2>1 DEF After
<1>8. CASE Promote
  BY <1>8, SendShortens DEF Promote, ToDo, Steps
<1>9. CASE PollAgain
  <2>1. pc = "p" /\ pc' = "p" /\ run'.polls = run.polls + 1
    BY <1>9 DEF PollAgain, ToDo, Goto, Typed, Run
  <2>2. run.polls \in Int /\ Repeats \in Int
    BY RegistrationAssumption DEF Typed, Run
  <2> QED  BY <2>1, <2>2
<1>10. CASE Finish
  BY <1>10 DEF Finish
<1> QED  BY <1>1, <1>2, <1>3, <1>4, <1>5, <1>6, <1>7, <1>8, <1>9, <1>10 DEF Proceed

(* register-tee: whatever a run does takes it nearer to its end, and       *)
(* nothing outside sets it back; from its launch it takes at most          *)
(* Repeats + 13 steps.  A run that is given its steps ends.                *)
THEOREM RunsShorten == Safety => EveryStepShortensTheRun
<1>1. ASSUME Typed, Saving, Typed', Saving', Next, pc # "idle"
      PROVE  StepsLeft' < StepsLeft \/ UNCHANGED <<pc, run>>
  <2>1. CASE Proceed
    BY <1>1, <2>1, ProceedShortens
  <2>2. CASE Abort
    BY <1>1, <2>2, FailShortens DEF Abort
  <2>3. CASE Outside
    BY <2>3 DEF Outside, Mine, Expire, Prove, RestartTee, Advance
  <2> QED  BY <1>1, <2>1, <2>2, <2>3 DEF Next, Launch
<1>2. RegInv /\ BoundInv => Typed /\ Saving
  BY DEF RegInv, RunInv, BoundInv
<1>3. Typed /\ Saving /\ Typed' /\ Saving' /\ [Next]_vars =>
        [pc # "idle" => StepsLeft' < StepsLeft \/ UNCHANGED <<pc, run>>]_vars
  BY <1>1
<1> QED  BY <1>2, <1>3, RegistrationInvariant, BoundInvariant, PTL
        DEF Safety, EveryStepShortensTheRun
=============================================================================
