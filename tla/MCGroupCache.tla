----------------------------- MODULE MCGroupCache -----------------------------
(***************************************************************************)
(* Instances of GroupCache for TLC, for up to two membership changes: the  *)
(* "late" window excludes the first members: it is empty at version 0, has *)
(* one sample, "b", in both later versions, as when the sampling limit     *)
(* leaves the new member out.                                              *)
(***************************************************************************)
EXTENDS GroupCache

MCSamples == {"empty", "a", "ab", "abc", "b"}

MCSampled == [v \in Versions |-> [w \in Windows |->
  CASE w = "late" -> IF v = 0 THEN "empty" ELSE "b"
    [] v = 0 -> "a"
    [] v = 1 -> "ab"
    [] OTHER -> "abc"]]

MCSig == [s \in MCSamples |-> <<"sha", s>>]
MCSigs == {<<"sha", s>> : s \in MCSamples}
=============================================================================
