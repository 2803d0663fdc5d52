----------------------------- MODULE CompareStream -----------------------------
(***************************************************************************)
(* One streaming comparison: Server.handleCompare (handlers.go) runs       *)
(* Engine.Compare (engine.go), which plans every group, then builds them   *)
(* one after the other; a group that is not cached fetches its members     *)
(* with a bounded pool of goroutines (errgroup with SetLimit) that share   *)
(* one ProgressReporter, whose emit writes a line of NDJSON.               *)
(*                                                                         *)
(* The reporter counts under its lock and emits after releasing it, so a   *)
(* member goroutine takes two steps, Count and Emit, that interleave with  *)
(* those of the others.  What the group cache and the object cache do is   *)
(* in GroupCache and ObjectCache: here a lookup hits or misses and a fetch *)
(* succeeds or fails, a cancelled context being one way to fail.           *)
(***************************************************************************)
EXTENDS Integers, Sequences, FiniteSetsExt

CONSTANTS
  Sizes,            \* Sizes[g]: sampled members of the g-th group asked for
  FetchConcurrency  \* the -fetch-concurrency flag

(* A group without profiles is refused by its plan (PlanFails).            *)
ASSUME StreamAssumption ==
  /\ Sizes \in Seq(Nat \ {0}) /\ Sizes # <<>>
  /\ FetchConcurrency \in Int

VARIABLES
  phase,       \* where Compare is
  nth,         \* which of the groups it plans or builds
  done, total, \* ProgressReporter
  spawned,     \* members of the group that errgroup.Go was called for
  member,      \* member[m]: where the goroutine of member m is
  held,        \* held[m]: the count it read under the lock and will emit
  failed,      \* the errgroup has its first error; its context is cancelled
  lines        \* the lines written

poolVars == <<spawned, member, held, failed>>
streamVars == <<phase, nth, done, total, poolVars, lines>>

Turns == 1..Len(Sizes)
Members == 1..Max({Sizes[g] : g \in Turns})

(* Profiles of the first n groups. *)
Through(n) == SumFunctionOnSet(Sizes, 1..n)

(* Mutant of Limit: the flag is taken as it is. *)
LimitUnclamped == FetchConcurrency

(* The size of the pool. *)
Limit == Max({2, FetchConcurrency})

(* Goroutines that hold a slot of the pool. *)
Active == {m \in Members : member[m] \in {"fetch", "count", "emit"}}

StreamInit ==
  /\ phase = "plan"
  /\ nth = 1
  /\ done = 0 /\ total = 0
  /\ spawned = 0
  /\ member = [m \in Members |-> "idle"]
  /\ held = [m \in Members |-> 0]
  /\ failed = FALSE
  /\ lines = <<>>

-----------------------------------------------------------------------------
Progress(d) == [type |-> "progress", done |-> d]
Send(line) == lines' = Append(lines, line)

(* handleCompare: the last line of the stream. *)
Finish(type) ==
  /\ phase' = "over"
  /\ Send([type |-> type, done |-> done])

(* planGroup for one group of the request. *)
PlanGroup ==
  /\ phase = "plan"
  /\ IF nth < Len(Sizes) THEN nth' = nth + 1 /\ UNCHANGED phase
     ELSE nth' = 1 /\ phase' = "announce"
  /\ UNCHANGED <<done, total, poolVars, lines>>

(* planGroup fails: a listing fails or no profile is left. *)
PlanFails ==
  /\ phase = "plan"
  /\ Finish("error")
  /\ UNCHANGED <<nth, done, total, poolVars>>

(* The total is known; prog.add(0) emits 0/total. *)
Announce ==
  /\ phase = "announce"
  /\ total' = Through(Len(Sizes))
  /\ Send(Progress(done))
  /\ phase' = "lookup"
  /\ UNCHANGED <<nth, done, poolVars>>

(* buildPlan, cache hit: the bar advances by the whole group. *)
Hit ==
  /\ phase = "lookup"
  /\ done' = done + Sizes[nth]
  /\ Send(Progress(done'))
  /\ phase' = "next"
  /\ UNCHANGED <<nth, total, poolVars>>

(* buildPlan, cache miss: buildGroup starts with an empty pool. *)
Miss ==
  /\ phase = "lookup"
  /\ phase' = "fetch"
  /\ spawned' = 0
  /\ member' = [m \in Members |-> "idle"]
  /\ held' = [m \in Members |-> 0]
  /\ failed' = FALSE
  /\ UNCHANGED <<nth, done, total, lines>>

(* errgroup.Go for the next member; it blocks while the pool is full. *)
Spawn ==
  /\ phase = "fetch"
  /\ spawned < Sizes[nth]
  /\ Cardinality(Active) < Limit
  /\ spawned' = spawned + 1
  /\ member' = [member EXCEPT ![spawned + 1] = "fetch"]
  /\ UNCHANGED <<phase, nth, done, total, held, failed, lines>>

(* objCache.GetOrBuild returns the aggregation of member m. *)
Fetch(m) ==
  /\ member[m] = "fetch"
  /\ member' = [member EXCEPT ![m] = "count"]
  /\ UNCHANGED <<phase, nth, done, total, spawned, held, failed, lines>>

(* It returns an error, its own or that of a cancelled context. *)
FetchFails(m) ==
  /\ member[m] = "fetch"
  /\ member' = [member EXCEPT ![m] = "failed"]
  /\ failed' = TRUE
  /\ UNCHANGED <<phase, nth, done, total, spawned, held, lines>>

(* prog.add(1), under the lock: advance the counter and read it. *)
Count(m) ==
  /\ member[m] = "count"
  /\ done' = done + 1
  /\ held' = [held EXCEPT ![m] = done']
  /\ member' = [member EXCEPT ![m] = "emit"]
  /\ UNCHANGED <<phase, nth, total, spawned, failed, lines>>

(* Mutant of Emit: the counter is read again, without the lock. *)
EmitLatest(m) ==
  /\ member[m] = "emit"
  /\ Send(Progress(done))
  /\ member' = [member EXCEPT ![m] = "done"]
  /\ UNCHANGED <<phase, nth, done, total, spawned, held, failed>>

(* prog.add(1), after the lock: emit what was read. *)
Emit(m) ==
  /\ member[m] = "emit"
  /\ Send(Progress(held[m]))
  /\ member' = [member EXCEPT ![m] = "done"]
  /\ UNCHANGED <<phase, nth, done, total, spawned, held, failed>>

(* Mutant of Wait: it does not wait for the goroutines to finish. *)
WaitForCounts ==
  /\ phase = "fetch"
  /\ spawned = Sizes[nth]
  /\ \A m \in Members : member[m] \notin {"fetch", "count"}
  /\ IF failed THEN Finish("error") ELSE phase' = "next" /\ UNCHANGED lines
  /\ UNCHANGED <<nth, done, total, poolVars>>

(* errgroup.Wait returns, the pool being empty. *)
Wait ==
  /\ phase = "fetch"
  /\ spawned = Sizes[nth]
  /\ Active = {}
  /\ IF failed THEN Finish("error") ELSE phase' = "next" /\ UNCHANGED lines
  /\ UNCHANGED <<nth, done, total, poolVars>>

(* The group is merged and cached: the next one, or the matrix. *)
Advance ==
  /\ phase = "next"
  /\ IF nth < Len(Sizes)
       THEN nth' = nth + 1 /\ phase' = "lookup" /\ UNCHANGED lines
       ELSE Finish("result") /\ UNCHANGED nth
  /\ UNCHANGED <<done, total, poolVars>>

StreamNext ==
  \/ PlanGroup \/ PlanFails \/ Announce \/ Hit \/ Miss \/ Spawn \/ Wait \/ Advance
  \/ \E m \in Members : Fetch(m) \/ FetchFails(m) \/ Count(m) \/ Emit(m)

StreamSpec == StreamInit /\ [][StreamNext]_streamVars

(* The Go scheduler runs a goroutine that can run, and the source answers  *)
(* every call, if only with an error (the code sets no timeout of its own).*)
FairStreamSpec == StreamSpec /\ WF_streamVars(StreamNext)

-----------------------------------------------------------------------------
StreamLines == [type : {"progress", "result", "error"}, done : 0..Through(Len(Sizes))]

(* Type invariant: no line shows more work than was planned, and the pool  *)
(* of buildGroup never holds more goroutines than its limit.               *)
StreamTypeOK ==
  /\ phase \in {"plan", "announce", "lookup", "fetch", "next", "over"}
  /\ nth \in Turns
  /\ done \in 0..Through(Len(Sizes)) /\ total \in {0, Through(Len(Sizes))}
  /\ spawned \in 0..Max(Members)
  /\ member \in [Members -> {"idle", "fetch", "count", "emit", "done", "failed"}]
  /\ held \in [Members -> 0..Through(Len(Sizes))]
  /\ failed \in BOOLEAN
  /\ lines \in Seq(StreamLines)
  /\ Cardinality(Active) <= Max({2, FetchConcurrency})

ProgressLines == {i \in 1..Len(lines) : lines[i].type = "progress"}

(* The bar counts every profile once: no two progress lines of a stream    *)
(* show the same count, whatever the order in which goroutines count and   *)
(* emit (ProgressReporter.add reads the count under its lock), and a       *)
(* stream that ends with a result has shown the bar full before: every     *)
(* planned profile was counted, hit or fetched (handleCompare's last line).*)
BarCountsEveryProfile ==
  /\ \A i, j \in ProgressLines : i # j => lines[i].done # lines[j].done
  /\ \A i \in 1..Len(lines) :
       lines[i].type = "result" =>
         \E j \in ProgressLines : j < i /\ lines[j].done = Through(Len(Sizes))

(* Lines come in turn.  Groups are built one after the other               *)
(* (Engine.Compare): when a group is looked up or built, every line of an  *)
(* earlier group is out already, and none of its own lines falls back      *)
(* below what those had reached.  And after handleCompare's "final" result *)
(* or error line no goroutine of the comparison writes to the response.    *)
LinesComeInTurn ==
  [][/\ \A i \in {Len(lines')} \ {Len(lines)} :
          phase \in {"lookup", "fetch"} =>
            /\ lines'[i].done > Through(nth - 1) \/ lines'[i].type = "error"
            /\ lines'[i].done <= Through(nth)
     /\ (\E i \in 1..Len(lines) : lines[i].type # "progress") => UNCHANGED lines
    ]_streamVars

(* Every stream is ended by its final line, whatever fails on the way and  *)
(* whatever the value of -fetch-concurrency.                               *)
StreamEnds == <>(phase = "over")

-----------------------------------------------------------------------------
(* The inductive invariant of the proofs, in parts.                        *)
Emitting == {m \in Members : member[m] = "emit"}
Counted == {m \in Members : member[m] \in {"emit", "done"}}
CountsShown == {lines[i].done : i \in ProgressLines}

(* Goroutines run only while a group is fetched, for the members spawned.  *)
PoolFits ==
  /\ phase # "fetch" => Active = {}
  /\ phase = "fetch" =>
       /\ spawned <= Sizes[nth]
       /\ \A m \in Members : member[m] = "idle" <=> m > spawned
       /\ \A m \in Members : member[m] = "failed" => failed

(* The counter: groups that are finished and members that were counted.    *)
DoneAddsUp ==
  /\ phase \in {"plan", "announce"} => done = 0 /\ lines = <<>>
  /\ phase = "announce" => nth = 1
  /\ phase = "lookup" => done = Through(nth - 1)
  /\ phase = "fetch" => done = Through(nth - 1) + Cardinality(Counted)
  /\ phase = "next" => done = Through(nth)

(* Every count is shown or held by one goroutine, and the last count is.   *)
CountsAreApart ==
  /\ phase # "over" => ProgressLines = 1..Len(lines)
  /\ \A n \in CountsShown : n <= done
  /\ \A m \in Emitting :
       /\ held[m] > Through(nth - 1) /\ held[m] <= done /\ held[m] \notin CountsShown
       /\ \A k \in Emitting \ {m} : held[k] # held[m]
  /\ phase \in {"lookup", "fetch", "next"} =>
       done \in CountsShown \cup {held[m] : m \in Emitting}

StreamIInv ==
  StreamTypeOK /\ PoolFits /\ DoneAddsUp /\ CountsAreApart /\ BarCountsEveryProfile
==============================================================================
