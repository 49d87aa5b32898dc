------------------------------ MODULE MCVault ------------------------------
(* Two owners, one venue, two assets, two signing keys.  Owners and keys   *)
(* are interchangeable; actions name neither.                              *)
EXTENDS Vault, TLC

MCAction ==
  {<<"allocate", "fxrp", 2, "venue">>, <<"rebalance", "usd", 1, "venue">>,
   <<"withdraw", "fxrp", 1, "home">>, <<"withdraw", "fxrp", 1, "venue">>}

MCSymmetry == Permutations(Owner) \cup Permutations(Key)
=============================================================================
