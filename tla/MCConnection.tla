---------------------------- MODULE MCConnection ----------------------------
(* Instances of ConnectionManager for TLC: tokens are drawn at random and    *)
(* connections are interchangeable, for the runs without liveness.           *)
EXTENDS ConnectionManager, TLC

TokenSymmetry == Permutations(Tokens) \cup Permutations(Conns)
=============================================================================
