--------------------------------- MODULE Tally ---------------------------------
(***************************************************************************)
(* Maps from keys to sums, as the code builds them in Go maps: a key that  *)
(* is absent counts 0 and appears when something is added to it, be it 0.  *)
(***************************************************************************)
EXTENDS Integers, FiniteSetsExt

CountOf(sums, key) == IF key \in DOMAIN sums THEN sums[key] ELSE 0

Credit(sums, key, amount) ==
  [k \in DOMAIN sums \cup {key} |->
     CountOf(sums, k) + (IF k = key THEN amount ELSE 0)]

AddSums(a, b) ==
  [k \in DOMAIN a \cup DOMAIN b |-> CountOf(a, k) + CountOf(b, k)]

(* The sum of all, and of those of some keys. *)
SumOf(sums, keys) == SumFunctionOnSet([k \in keys |-> CountOf(sums, k)], keys)
Whole(sums) == SumOf(sums, DOMAIN sums)
=============================================================================
