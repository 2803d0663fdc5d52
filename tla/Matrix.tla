--------------------------------- MODULE Matrix ---------------------------------
(***************************************************************************)
(* A comparison (internal/compare/matrix.go).  Of one group: the cells of  *)
(* every row, the total, the shares of idle and busy time.  Of all groups: *)
(* the rows, aligned, how they have changed and which of them are kept.    *)
(* Among rows that rank alike, which the code orders by what they display, *)
(* any may be kept.                                                        *)
(***************************************************************************)
EXTENDS Breakdown, Sequences

(* idleSelfMicros *)
IdleSelf(agg) ==
  LET packages == agg.entities["package"]
  IN MapThenSumSet(LAMBDA k : packages[k].self,
                   {k \in DOMAIN packages : packages[k].category = "idle"})

Cell(agg, self, total, busySelf, busyTotal) ==
  LET busy == agg.overall - IdleSelf(agg)
  IN [self |-> Avg(agg, self), total |-> Avg(agg, total),
      selfPct |-> Pct(self, agg.overall), totalPct |-> Pct(total, agg.overall),
      selfPctBusy |-> Pct(busySelf, busy), totalPctBusy |-> Pct(busyTotal, busy)]

(* Mutant of ContextSelfOf: the context whole, whatever is filtered. *)
ContextSelfOfAny(agg, label, allowed) == agg.contexts[label]

(* contextSelf: what the packages of some categories took of a context *)
ContextSelfOf(agg, label, allowed) ==
  LET packages == {x \in DOMAIN agg.ctxPackages : x[1] = label}
  IN IF packages = {} THEN agg.contexts[label]
     ELSE SumOf(agg.ctxPackages,
                {x \in packages : Allowed(agg.entities["package"][x[2]].category, allowed)})

ContextCells(agg, allowed) ==
  LET self(c) == ContextSelfOf(agg, c, allowed)
      busy(c) == ContextSelfOf(agg, c, Categories \ {"idle"})
  IN [c \in {x \in DOMAIN agg.contexts : allowed = {} \/ self(x) # 0} |->
        Cell(agg, self(c), self(c), busy(c), busy(c))]

(* The cells of a group: BuildMatrix *)
Cells(agg, dimension, allowed) ==
  IF dimension = "context" THEN ContextCells(agg, allowed)
  ELSE LET entities == agg.entities[dimension]
           cell(e) == Cell(agg, e.self, e.total, e.self, e.total)
       IN Filtered([k \in DOMAIN entities |-> cell(entities[k])], entities, allowed)

(* filteredOverall, averaged *)
OverallSelf(agg, allowed) ==
  LET packages == agg.entities["package"]
      kept == {k \in DOMAIN packages : Allowed(packages[k].category, allowed)}
  IN Avg(agg, IF allowed = {} THEN agg.overall
              ELSE MapThenSumSet(LAMBDA k : packages[k].self, kept))

(* BusyPct of a group's summary, as a share of 1 *)
BusyPct(agg) == Plus(One, Pct(-IdleSelf(agg), agg.overall))

-----------------------------------------------------------------------------
NoCell == [metric \in {"self", "total", "selfPct", "totalPct",
                       "selfPctBusy", "totalPctBusy"} |-> Zero]

(* Mutant of RowsOf: rows of the first group only. *)
RowsOfFirst(groups, dimension, allowed) ==
  [k \in DOMAIN Cells(groups[1], dimension, allowed) |->
     [i \in 1..Len(groups) |->
        LET cells == Cells(groups[i], dimension, allowed)
        IN IF k \in DOMAIN cells THEN cells[k] ELSE NoCell]]

(* The rows of all groups: a group that does not know a row has zeros there. *)
RowsOf(groups, dimension, allowed) ==
  LET cells == [i \in 1..Len(groups) |-> Cells(groups[i], dimension, allowed)]
  IN [k \in UNION {DOMAIN cells[i] : i \in 1..Len(groups)} |->
        [i \in 1..Len(groups) |-> IF k \in DOMAIN cells[i] THEN cells[i][k] ELSE NoCell]]

Diff(p, q) == Plus(p, Over(-q.num, q.den))
Exceeds(p, q) == p.num * q.den > q.num * p.den
Positive(p) == p.num > 0

(* setDeltas: last group minus first *)
Delta(row, metric) == Diff(row[Len(row)][metric], row[1][metric])

(* rowMax, which starts at zero *)
RowMax(row, metric) ==
  FoldSet(LAMBDA i, max : IF Exceeds(row[i][metric], max) THEN row[i][metric] ELSE max,
          Zero, 1..Len(row))

(* A row that has time now and had none: rowSortKey gives it MaxFloat64. *)
Appeared(row, metric) == row[1][metric] = Zero /\ Positive(row[Len(row)][metric])

(* The change of a row relative to its first cell. *)
Relative(row, metric) ==
  LET first == row[1][metric]
      size == Over(first.den, IF first.num < 0 THEN -first.num ELSE first.num)
  IN IF Len(row) < 2 \/ first = Zero THEN Zero ELSE Times(Delta(row, metric), size)

(* rowSortKey: whether a row ranks before another one *)
Outranks(a, b, metric, mode) ==
  CASE mode = "delta" -> Exceeds(Delta(a, metric), Delta(b, metric))
    [] mode = "deltaPct" ->
         IF Len(a) >= 2 /\ (Appeared(a, metric) \/ Appeared(b, metric))
         THEN Appeared(a, metric) /\ ~Appeared(b, metric)
         ELSE Exceeds(Relative(a, metric), Relative(b, metric))
    [] OTHER -> Exceeds(RowMax(a, metric), RowMax(b, metric))

(* The sets of rows that sorting and the cut at topN may keep. *)
Kept(rows, metric, mode, topN) ==
  LET size == IF topN > 0 /\ topN < Cardinality(DOMAIN rows)
              THEN topN ELSE Cardinality(DOMAIN rows)
  IN {K \in kSubset(size, DOMAIN rows) :
        \A k \in K, l \in DOMAIN rows \ K : ~Outranks(rows[l], rows[k], metric, mode)}

(* overallRows: the averages of a total, or its share *)
TotalRow(groups, allowed) == [i \in 1..Len(groups) |-> OverallSelf(groups[i], allowed)]
=============================================================================
