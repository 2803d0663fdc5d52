---------------------------- MODULE MCObjectCache ----------------------------
(* Instances of ObjectCache for TLC: goroutines dealt out to processes. *)
EXTENDS ObjectCache

\* A process with two goroutines, and a second process with one.
TwoProcs == [w \in Workers |-> IF w = "c" THEN "q" ELSE "p"]
=============================================================================
