------------------------------ MODULE MemoService ------------------------------
(***************************************************************************)
(* What the per-object cache promises to the goroutines that use it,       *)
(* without locks, flights or files.  A process knows the aggregation of an *)
(* object or does not; it learns it while someone asks for it, forgets     *)
(* everything when it restarts, and answers everyone who asked for one     *)
(* object together or apart:                                               *)
(*   - with the whole aggregation, once the process knows it;              *)
(*   - with an error, only while the process does not know it.             *)
(* ObjectCache implements this specification.                              *)
(***************************************************************************)
EXTENDS Naturals

CONSTANTS Procs, Workers, ProcOf, Keys, None

VARIABLES
  known,  \* known[p]: the objects process p can answer for
  asked,  \* asked[w]: the object goroutine w asks for, or None
  answer  \* answer[w]: "none" until w is answered

memoVars == <<known, asked, answer>>

MemoInit ==
  /\ known = [p \in Procs |-> {}]
  /\ asked = [w \in Workers |-> None]
  /\ answer = [w \in Workers |-> "none"]

Waiting(w, p, k) == ProcOf[w] = p /\ asked[w] = k /\ answer[w] = "none"

Ask(w, k) ==
  /\ asked[w] = None
  /\ asked' = [asked EXCEPT ![w] = k]
  /\ UNCHANGED <<known, answer>>

Learn(p, k) ==
  /\ \E w \in Workers : Waiting(w, p, k)
  /\ known' = [known EXCEPT ![p] = @ \cup {k}]
  /\ UNCHANGED <<asked, answer>>

AnswerAll(S, p, k, o) ==
  /\ S # {} /\ \A w \in S : Waiting(w, p, k)
  /\ o = "whole" <=> k \in known[p]
  /\ answer' = [w \in Workers |-> IF w \in S THEN o ELSE answer[w]]
  /\ UNCHANGED <<known, asked>>

Release(w) ==
  /\ answer[w] # "none"
  /\ asked' = [asked EXCEPT ![w] = None]
  /\ answer' = [answer EXCEPT ![w] = "none"]
  /\ UNCHANGED known

Restart(p) ==
  /\ known' = [known EXCEPT ![p] = {}]
  /\ asked' = [w \in Workers |-> IF ProcOf[w] = p THEN None ELSE asked[w]]
  /\ answer' = [w \in Workers |-> IF ProcOf[w] = p THEN "none" ELSE answer[w]]

MemoNext ==
  \/ \E w \in Workers, k \in Keys : Ask(w, k)
  \/ \E w \in Workers : Release(w)
  \/ \E p \in Procs : Restart(p)
  \/ \E p \in Procs, k \in Keys :
       \/ Learn(p, k)
       \/ \E S \in SUBSET Workers, o \in {"whole", "error"} : AnswerAll(S, p, k, o)

MemoSpec == MemoInit /\ [][MemoNext]_memoVars
=============================================================================
