---------------------------- MODULE MCLiveServer ----------------------------
(* Two users, one of them in two spellings, and every kind of call: two    *)
(* risk levels of which one is mistyped, an allocation to the venue, to a  *)
(* strange venue and above the cap, a withdrawal home and elsewhere.       *)
EXTENDS LiveServer

MCWire == {"a", "A", "b", "v", "x", "fxrp"}
MCLower == [w \in MCWire |-> IF w = "A" THEN "a" ELSE w]

MCCalls ==
  LET on == [route |-> "onboard", user |-> "a", risk |-> "moderate", amount |-> 0, dest |-> Absent]
      pay == [on EXCEPT !.route = "allocate", !.amount = 1]
  IN
  {on, [on EXCEPT !.user = "b", !.risk = "padded"], [on EXCEPT !.route = "invalid"],
   [pay EXCEPT !.user = "A"], [pay EXCEPT !.user = "b"],
   [pay EXCEPT !.dest = "x"], [pay EXCEPT !.amount = 3],
   [pay EXCEPT !.dest = Malformed],
   [pay EXCEPT !.route = "withdraw", !.dest = "A"],
   [pay EXCEPT !.route = "withdraw", !.dest = "b"]}

MCPolicies == {PolicyOf(c) : c \in {d \in MCCalls : d.route = "onboard" /\ PolicyParses(d)}}
MCIntents ==
  {IntentOf(c) : c \in {d \in MCCalls : d.route \in {"allocate", "withdraw"}}} \ {Malformed}
=============================================================================
