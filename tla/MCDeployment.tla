---------------------------- MODULE MCDeployment ----------------------------
(* Environments that reach every verdict of every check.                   *)
EXTENDS Deployment

Local ==
  [config |-> TRUE, local |-> "unset", deployKey |-> FALSE, ownerKey |-> FALSE,
   proxyKey |-> FALSE, simulated |-> TRUE, manager |-> "code", funded |-> TRUE, chainAnswers |-> TRUE,
   portInUse |-> FALSE, extProxy |-> "unset", normalProxy |-> "unset"]

Testnet ==
  [Local EXCEPT !.local = "false", !.deployKey = TRUE, !.portInUse = TRUE,
                !.extProxy = "up", !.normalProxy = "down"]

Forgetful == [Testnet EXCEPT !.deployKey = FALSE, !.funded = FALSE, !.extProxy = "down"]

WrongNetwork == [Local EXCEPT !.manager = "empty", !.chainAnswers = FALSE]

NoAddress == [Local EXCEPT !.manager = "zero", !.config = FALSE, !.local = "other"]

MCConfigurations == {Local, Testnet, Forgetful, WrongNetwork, NoAddress}
MCFilters == {{}, {"D5", "R2"}}
MCGovernances == {1, 2}
=============================================================================
