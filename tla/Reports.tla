--------------------------------- MODULE Reports ---------------------------------
(***************************************************************************)
(* What is shown of a group, against the profiles it was aggregated from:  *)
(* Aggregate's walk and merge composed with the matrix and the breakdowns. *)
(***************************************************************************)
EXTENDS Aggregate, Matrix, Relation

Group == MergeAggregations(aggs)

(* Transparent functions of an aggregation, and those that lead to themselves. *)
Trampolines(a) ==
  {f \in DOMAIN a.entities["function"] : IsTransparentFrame(a, f)}

Looping(a) ==
  LET T == Trampolines(a)
      calls == TransitiveClosure([x \in T \X T |-> x \in DOMAIN a.edges], T)
  IN {f \in T : calls[<<f, f>>]}

(* Time of the calls of fn in p by the nearest caller that is no trampoline. *)
SplicedCallers(p, a, fn) ==
  LET path == PathTo(p)
      calls == {n \in DOMAIN p.frame : FnKey(p.frame[n]) = fn /\ path[n] # {n}}
      callers(n) == {m \in path[n] \ {n} : FnKey(p.frame[m]) \notin Trampolines(a)}
      nearest(n) == CHOOSE m \in callers(n) : callers(n) \subseteq path[m]
      caller(n) == FnKey(p.frame[nearest(n)])
  IN [c \in {caller(n) : n \in calls} |->
        SumOf(Subtree(p), {n \in calls : caller(n) = c})]

(***************************************************************************)
(* Stitching a function's callers moves time and neither loses nor doubles *)
(* any, whatever trampolines call each other (breakdown.go:445-466).  It   *)
(* leaves time with a trampoline only when the trampoline loops, took none *)
(* from its callers or is deeper than maxStitchDepth.  And where each      *)
(* trampoline has one caller it finds what cutting the trampolines out of  *)
(* the call tree would.                                                    *)
(***************************************************************************)
StitchMovesTime ==
  Done =>
    LET m == Group
        micros(edges) == SumRatios(LAMBDA c : edges[c].micros, DOMAIN edges)
        tooDeep == Cardinality(Trampolines(m)) > MaxStitchDepth
        callers(t) == Incoming(m, t)
    IN \A f \in DOMAIN m.entities["function"] :
         LET raw == Callers(m, f, FALSE, {})
             stitched == Callers(m, f, TRUE, {})
         IN /\ micros(stitched) = micros(raw)
            /\ \A c \in DOMAIN stitched :
                 /\ c \notin DOMAIN raw => stitched[c].viaAsync
                 /\ c \in Trampolines(m) =>
                      tooDeep \/ c \in Looping(m) \/ Whole(callers(c)) <= 0
            /\ ( /\ Len(batch) = 1 /\ ~tooDeep
                 /\ \A t \in Trampolines(m) :
                      Cardinality(DOMAIN callers(t)) = 1 /\ Whole(callers(t)) > 0 )
               => LET spliced == SplicedCallers(batch[1], m, f)
                  IN /\ DOMAIN stitched = DOMAIN spliced
                     /\ \A c \in DOMAIN spliced :
                          stitched[c].micros = Over(spliced[c], 1)

-----------------------------------------------------------------------------
(* Time that the profiles spent in frames of some categories, and that of it *)
(* which samples of a context took.                                          *)
TimeIn(allowed) ==
  LET time(p) == SumOf(SelfOf(p), {n \in DOMAIN p.frame : Allowed(Category(p.frame[n]), allowed)})
  IN MapThenSumSet(LAMBDA i : time(batch[i]), 1..Len(batch))

ContextTimeIn(label, allowed) ==
  LET samples(p) == {j \in 1..Len(p.samples) :
                       /\ p.samples[j].label = label
                       /\ p.samples[j].id \in DOMAIN p.frame
                       /\ Allowed(Category(p.frame[p.samples[j].id]), allowed)}
      time(p) == MapThenSumSet(LAMBDA j : p.samples[j].delta, samples(p))
  IN MapThenSumSet(LAMBDA i : time(batch[i]), 1..Len(batch))

(***************************************************************************)
(* Under every category filter the totals row, the rows of functions and   *)
(* those of packages sum to the time the profiles spent in frames of those *)
(* categories, and each context to its samples there (matrix.go:196-248,   *)
(* 331-350, 473-516).  Rows of files do so only if the filter takes idle   *)
(* and native together: frames without url are one file.  The list under a *)
(* package or a file sums to its row (breakdown.go:216-270).  What a       *)
(* filter keeps of a context is shared out in full (breakdown.go:336-346), *)
(* and so is busy time.                                                    *)
(***************************************************************************)
FiltersAgree ==
  Done =>
    LET m == Group
        busy == m.overall - IdleSelf(m)
        sum(cells) == SumRatios(LAMBDA k : cells[k].self, DOMAIN cells)
        sumOf(list) == SumRatios(LAMBDA k : list[k], DOMAIN list)
    IN \A allowed \in SUBSET Categories :
         LET time == Avg(m, TimeIn(allowed))
             contexts == Cells(m, "context", allowed)
             packages == Cells(m, "package", allowed)
             files == Cells(m, "file", allowed)
         IN /\ OverallSelf(m, allowed) = time
            /\ sum(Cells(m, "function", allowed)) = time
            /\ sum(packages) = time
            /\ ("idle" \in allowed <=> "native" \in allowed)
                 => sum(files) = time
            /\ \A k \in DOMAIN packages :
                 packages[k].self = sumOf(MembersOfPackage(m, k, "function", allowed))
            /\ \A k \in DOMAIN files \cap Urls :
                 files[k].self = sumOf(MembersOfFile(m, k, allowed))
            /\ \A c \in DOMAIN m.contexts :
                 LET cell == IF c \in DOMAIN contexts THEN contexts[c].self ELSE Zero
                 IN cell = Avg(m, ContextTimeIn(c, allowed))
            /\ \A c \in DOMAIN contexts :
                 contexts[c].selfPctBusy
                   = Pct(ContextTimeIn(c, Categories \ {"idle"}), busy)
            /\ \A c \in DOMAIN m.contexts :
                 LET rows == EntitiesOfContext(m, c, "package", allowed)
                 IN ContextTimeIn(c, allowed) > 0
                      => SumRatios(LAMBDA k : rows[k].pctOfContext, DOMAIN rows) = One
            /\ busy > 0 /\ allowed = Categories \ {"idle"} =>
                 /\ SumRatios(LAMBDA k : packages[k].selfPctBusy, DOMAIN packages) = One
                 /\ BusyPct(m) = Pct(TimeIn(allowed), m.overall)

-----------------------------------------------------------------------------
(***************************************************************************)
(* What drives a function reads the same in its callers, its contexts and  *)
(* the drill-down of a context (breakdown.go:122-174, 272-314, 353-368):   *)
(* callers and callees are found from either end, whatever is filtered,    *)
(* a context spends under it no more than under its callers together, the  *)
(* contexts have no more than its whole time, a context's time is that of  *)
(* the functions that start call trees, and packages and files share each  *)
(* context out.  Intervals must not be negative.  Functions that are both  *)
(* at a root and below it are excepted where roots are summed.             *)
(***************************************************************************)
DrilldownsAgree ==
  Done /\ (\A i \in 1..Len(batch) : \A j \in 1..Len(batch[i].samples) :
            batch[i].samples[j].delta >= 0) =>
    LET m == Group
        fns == DOMAIN m.entities["function"]
        rooted == UNION {{FnKey(batch[i].frame[n]) : n \in RootsOf(batch[i])} :
                         i \in 1..Len(batch)}
        lower == UNION {{FnKey(batch[i].frame[n]) : n \in DOMAIN batch[i].frame \ RootsOf(batch[i])} :
                        i \in 1..Len(batch)}
        contexts == [f \in fns |-> ContextsOfFunction(m, f)]
        sum(f, l) == IF l \in DOMAIN contexts[f] THEN contexts[f][l].total ELSE Zero
    IN /\ \A allowed \in {{}, Categories \ {"idle"}, {"user"}} :
            \A f, g \in {x \in fns : Allowed(m.entities["function"][x].category, allowed)} :
              LET callees == Callees(m, f, allowed)
                  callers == Callers(m, g, FALSE, allowed)
              IN /\ g \in DOMAIN callees <=> f \in DOMAIN callers
                 /\ g \in DOMAIN callees => callees[g] = callers[f].micros
       /\ \A f \in fns :
            LET ofF == contexts[f]
                shares == SumRatios(LAMBDA l : ofF[l].pctOfFunction, DOMAIN ofF)
                callers == DOMAIN RawCallers(m, f)
            IN /\ ~Exceeds(shares, One)
               /\ \A l \in DOMAIN ofF :
                    f \in rooted
                    \/ ~Exceeds(ofF[l].total, SumRatios(LAMBDA c : sum(c, l), callers))
       /\ \A l \in DOMAIN m.contexts :
            LET ofL == FunctionsOfContext(m, l)
                pct(k, level) ==
                  LET ofK == ContextsOfEntity(m, k, level)
                  IN IF l \in DOMAIN ofK THEN ofK[l].pctOfContext ELSE Zero
            IN m.contexts[l] > 0 =>
                 /\ rooted \cap lower = {} =>
                      SumRatios(LAMBDA f : ofL[f].pctOfContext,
                                rooted \cap DOMAIN ofL) = One
                 /\ \A level \in {"package", "file"} :
                      SumRatios(LAMBDA k : pct(k, level), DOMAIN m.entities[level]) = One

(***************************************************************************)
(* A regression is shown.  Under every filter the rows' changes from the   *)
(* first group to the last sum to that of the total, rows that only one of *)
(* them knows included; so where the total has grown, the rows that are    *)
(* kept by "delta" and by "deltaPct" have one that has grown, be a single  *)
(* row kept.  By "deltaPct" no row that has gone is kept and one that has  *)
(* time now is not (matrix.go:220-276, 412-452).  Each profile is a group  *)
(* and so is their merge, in the middle.                                   *)
(***************************************************************************)
RegressionIsShown ==
  Done /\ Len(batch) = 2 =>
    LET groups == <<aggs[1], Group, aggs[2]>>
    IN \A allowed \in SUBSET Categories :
       \A dimension \in {"function", "package"}
             \cup (IF "idle" \in allowed <=> "native" \in allowed THEN {"file"} ELSE {}) :
         LET rows == RowsOf(groups, dimension, allowed)
             total == TotalRow(groups, allowed)
             growth == Diff(total[3], total[1])
             delta == [k \in DOMAIN rows |-> Delta(rows[k], "self")]
             now(k) == Positive(rows[k][3].self)
             gone(k) == Positive(rows[k][1].self) /\ rows[k][3].self = Zero
         IN /\ SumRatios(LAMBDA k : delta[k], DOMAIN rows) = growth
            /\ \A topN \in 1..2 :
                 /\ Positive(growth) =>
                      \A mode \in {"delta", "deltaPct"} :
                        \A K \in Kept(rows, "self", mode, topN) :
                          \E k \in K : Positive(delta[k])
                 /\ \A K \in Kept(rows, "self", "deltaPct", topN) :
                      \A k \in K, l \in DOMAIN rows \ K : ~(gone(k) /\ now(l))
=============================================================================
