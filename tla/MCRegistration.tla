--------------------------- MODULE MCRegistration ---------------------------
(* The default command, the one the deployment guides use, and the last    *)
(* step alone with an instruction id.                                      *)
EXTENDS Registration

MCCommands == {{"r", "a", "p"}, {"r", "R", "a", "p"}, {"p"}}
=============================================================================
