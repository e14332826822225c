---------------------------- MODULE MCShareTasks ----------------------------
(* Instances of ShareTasks for TLC.  Progress is checked with the invariants, *)
(* so that the threads, though interchangeable, are no symmetry set.          *)
EXTENDS ShareTasks
=============================================================================
