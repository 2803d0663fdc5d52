-------------------------------- MODULE MCWebUI --------------------------------
(* An instance of WebUI for TLC. *)
EXTENDS WebUI, TLC

\* No definition of WebUI tells one group from another.
MCSymmetry == Permutations(Groups)
=============================================================================
