---------------------------- MODULE MCCompareStream ----------------------------
(* Two groups, the second larger than the pool of two goroutines.          *)
EXTENDS CompareStream

MCSizes == <<2, 3>>
=============================================================================
