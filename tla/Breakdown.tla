------------------------------- MODULE Breakdown -------------------------------
(***************************************************************************)
(* Drill-down into one entity of an aggregation                            *)
(* (internal/compare/breakdown.go): callers of a function, stitched        *)
(* through trampolines, and what a package, a file or a context consists   *)
(* of.  Sections are maps from keys to edges; their order and the cut at   *)
(* topN are left out (Matrix has those of the rows).                       *)
(***************************************************************************)
EXTENDS CallFrames, Tally, Ratios, TLC

CONSTANT MaxStitchDepth

ASSUME StitchAssumption == MaxStitchDepth \in Nat

TransparentFrameNames ==
  {"runMicrotasks", "(garbage collector)", "(program)", "ErrorPrepareStackTrace"}

TransparentByPackage == [kareem |-> {"syncWrapper", "wrap"}]

(* The name in an entity's label is that in its key. *)
IsTransparentFrame(agg, fn) ==
  LET package == agg.entities["function"][fn].package
  IN \/ fn[2] \in TransparentFrameNames
     \/ /\ package \in DOMAIN TransparentByPackage
        /\ fn[2] \in TransparentByPackage[package]

(* No categories are all categories (engine.go, allowedSet). *)
Allowed(category, allowed) == allowed = {} \/ category \in allowed

Filtered(edges, entities, allowed) ==
  [k \in {x \in DOMAIN edges : Allowed(entities[x].category, allowed)} |-> edges[k]]

Avg(agg, sum) == Over(sum, IF agg.profiles < 1 THEN 1 ELSE agg.profiles)

-----------------------------------------------------------------------------
(* buildIncoming, the row of fn *)
Incoming(agg, fn) ==
  [c \in {e[1] : e \in {x \in DOMAIN agg.edges : x[2] = fn}} |-> agg.edges[<<c, fn>>]]

(* The share of what comes into node that comes from a parent. *)
Share(agg, node, parent) ==
  Over(Incoming(agg, node)[parent], Whole(Incoming(agg, node)))

(* Mutant of Settled: a second way to a caller replaces the first. *)
SettledLast(a, b) == [k \in DOMAIN a \cup DOMAIN b |-> IF k \in DOMAIN a THEN a[k] ELSE b[k]]

(* settle, for two maps of what was settled *)
Settled(a, b) ==
  LET micros(x, k) == IF k \in DOMAIN x THEN x[k].micros ELSE Zero
      via(x, k) == k \in DOMAIN x /\ x[k].viaAsync
  IN [k \in DOMAIN a \cup DOMAIN b |->
        [micros |-> Plus(micros(a, k), micros(b, k)), viaAsync |-> via(a, k) \/ via(b, k)]]

SettledAll(Climb(_), nodes) ==
  FoldSet(LAMBDA n, acc : Settled(Climb(n), acc), <<>>, nodes)

(***************************************************************************)
(* `add`: what micros at a node settle on.  visited are the transparent    *)
(* nodes on the way up, as many as the way is deep.                        *)
(***************************************************************************)
RECURSIVE Add(_, _, _, _)
Add(agg, node, micros, visited) ==
  IF \/ ~IsTransparentFrame(agg, node)
     \/ Cardinality(visited) >= MaxStitchDepth
     \/ node \in visited
     \/ Whole(Incoming(agg, node)) <= 0
  THEN node :> [micros |-> micros, viaAsync |-> visited # {}]
  ELSE SettledAll(LAMBDA c : Add(agg, c, Times(micros, Share(agg, node, c)),
                                 visited \cup {node}),
                  DOMAIN Incoming(agg, node))

StitchedCallers(agg, fn) ==
  SettledAll(LAMBDA c : Add(agg, c, Avg(agg, Incoming(agg, fn)[c]), {}),
             DOMAIN Incoming(agg, fn))

RawCallers(agg, fn) ==
  [c \in DOMAIN Incoming(agg, fn) |->
     [micros |-> Avg(agg, Incoming(agg, fn)[c]), viaAsync |-> FALSE]]

Callers(agg, fn, stitch, allowed) ==
  Filtered(IF stitch THEN StitchedCallers(agg, fn) ELSE RawCallers(agg, fn),
           agg.entities["function"], allowed)

(* What a function calls: its own row of edges *)
Callees(agg, fn, allowed) ==
  Filtered([c \in {e[2] : e \in {x \in DOMAIN agg.edges : x[1] = fn}} |->
              Avg(agg, agg.edges[<<fn, c>>])],
           agg.entities["function"], allowed)

-----------------------------------------------------------------------------
(* The functions, or files, of a package: buildPackageBreakdown *)
MembersOfPackage(agg, package, level, allowed) ==
  LET entities == agg.entities[level]
      members == {k \in DOMAIN entities : entities[k].package = package}
  IN Filtered([k \in members |-> Avg(agg, entities[k].self)], entities, allowed)

(* The functions of a file: buildFileBreakdown *)
MembersOfFile(agg, file, allowed) ==
  LET fns == agg.entities["function"]
      members == {f \in DOMAIN fns : fns[f].file = file}
  IN Filtered([f \in members |-> Avg(agg, fns[f].self)], fns, allowed)

(* pct, as a share of 1 *)
Pct(part, whole) == IF whole <= 0 THEN Zero ELSE Over(part, whole)

(***************************************************************************)
(* The share of a row of a context: of the context, or of what the filter  *)
(* keeps of it if that took any time (filterAndRebaseContext).             *)
(***************************************************************************)
PctOfContext(self, whole, kept, allowed) ==
  IF allowed # {} /\ kept > 0 THEN Over(self, kept) ELSE Pct(self, whole)

(* The packages, or files, of a context: entitiesOfContext, filtered *)
EntitiesOfContext(agg, label, level, allowed) ==
  LET sums == IF level = "package" THEN agg.ctxPackages ELSE agg.ctxFiles
      ofLabel == {x \in DOMAIN sums : x[1] = label}
      rows == Filtered([k \in {x[2] : x \in ofLabel} |-> sums[<<label, k>>]],
                       agg.entities[level], allowed)
  IN [k \in DOMAIN rows |->
        [self |-> Avg(agg, rows[k]),
         pctOfContext |-> PctOfContext(rows[k], agg.contexts[label], Whole(rows), allowed)]]

(* The contexts of a package or a file, never filtered: contextsForEntity *)
ContextsOfEntity(agg, key, level) ==
  LET sums == IF level = "package" THEN agg.ctxPackages ELSE agg.ctxFiles
  IN [l \in {x[1] : x \in {y \in DOMAIN sums : y[2] = key}} |->
        [self |-> Avg(agg, sums[<<l, key>>]),
         pctOfContext |-> Pct(sums[<<l, key>>], agg.contexts[l])]]

(* Mutant of ContextsOfFunction: the shares are of the function's own time. *)
ContextsOfFunctionOwn(agg, fn) ==
  [l \in {x[2] : x \in {y \in DOMAIN agg.fnContexts : y[1] = fn}} |->
     LET micros == agg.fnContexts[<<fn, l>>]
     IN [total |-> Avg(agg, micros),
         pctOfFunction |-> Pct(micros, agg.entities["function"][fn].self),
         pctOfContext |-> Pct(micros, agg.contexts[l])]]

(* The contexts of a function, and the functions of a context, inclusive and *)
(* never filtered: BuildBreakdown, buildContextBreakdown.                    *)
ContextsOfFunction(agg, fn) ==
  [l \in {x[2] : x \in {y \in DOMAIN agg.fnContexts : y[1] = fn}} |->
     LET micros == agg.fnContexts[<<fn, l>>]
     IN [total |-> Avg(agg, micros),
         pctOfFunction |-> Pct(micros, agg.entities["function"][fn].total),
         pctOfContext |-> Pct(micros, agg.contexts[l])]]

FunctionsOfContext(agg, label) ==
  [fn \in {x[1] : x \in {y \in DOMAIN agg.fnContexts : y[2] = label}} |->
     [total |-> Avg(agg, agg.fnContexts[<<fn, label>>]),
      pctOfContext |-> Pct(agg.fnContexts[<<fn, label>>], agg.contexts[label])]]
=============================================================================
