------------------------------- MODULE MCBlocking -------------------------------
(* Blocking with constants for TLC: f calls g, which calls f again, so that two *)
(* nodes share a function, and a cut stack loses its root.                      *)
EXTENDS Blocking

MCFnOf == [f1 |-> "f", g |-> "g", f2 |-> "f", idle |-> "(idle)"]
MCParent == [f1 |-> None, g |-> "f1", f2 |-> "g", idle |-> None]

Busy1(n, d, l) == [id |-> n, delta |-> d, label |-> l]

(* Ties, no time, and time that goes back; with and without labels. *)
MCBusySamples ==
  {Busy1("f1", 1, NoLabel), Busy1("f2", 2, "a"), Busy1("g", 2, "b"),
   Busy1("g", 0, "a"), Busy1("f1", -1, "a"), Busy1("f2", 3, NoLabel)}
=============================================================================
