--------------------------- MODULE MCHashManager ---------------------------
(* Instances of HashManager for TLC: file 1 is on d1, the rest on d2. *)
EXTENDS HashManager

CONSTANTS d1, d2

MCDeviceOf == [f \in Files |-> IF f = 1 THEN d1 ELSE d2]
=============================================================================
