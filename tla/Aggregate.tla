------------------------------- MODULE Aggregate -------------------------------
(***************************************************************************)
(* Aggregation of profiles (internal/v8profile/aggregate.go) and the merge *)
(* of the aggregations of a group (merge.go).  aggregateTree walks each    *)
(* call tree depth first with an explicit stack; an action is what one     *)
(* turn of its loop does to the frame on top.  What the code computes      *)
(* before and after the walk, in one pass each, are operators.             *)
(*                                                                         *)
(* Time is counted in microseconds only: sample counts are added wherever  *)
(* microseconds are.  Call trees are trees, as V8 writes them, but may     *)
(* name children and samples may name nodes that are not there.            *)
(***************************************************************************)
EXTENDS CallFrames, Tally, Sequences, SequencesExt

CONSTANTS
  Batches,   \* sequences of profiles that are aggregated and merged
  NoProfile

(***************************************************************************)
(* A profile is                                                            *)
(*   frame    : its nodes, each with its call frame                        *)
(*   children : for each node, the sequence of its children                *)
(*   hits     : for each node, its hitCount                                *)
(*   samples  : a sequence of [id, delta, label], <<>> in a legacy profile *)
(*   duration : EndTime - StartTime                                        *)
(* with label "" for a sample without context.                             *)
(***************************************************************************)
ASSUME BatchAssumption ==
  /\ NoProfile \notin UNION {ToSet(b) : b \in Batches}
  /\ \A b \in Batches :
       /\ b \in Seq(ToSet(b))
       /\ \A p \in ToSet(b) :
            /\ IsFiniteSet(DOMAIN p.frame) /\ DOMAIN p.frame \subseteq Int
            /\ p.children \in [DOMAIN p.frame -> Seq(Int)]
            /\ p.hits \in [DOMAIN p.frame -> Int] /\ p.duration \in Int
            /\ p.samples \in Seq([id : Int, delta : Int, label : STRING])

(* No node is the child of two, or twice of one, and none is below itself:   *)
(* of any nodes one is below none of the others.                             *)
IsForest(p) ==
  /\ \A m, n \in DOMAIN p.frame :
       \A i \in 1..Len(p.children[m]), j \in 1..Len(p.children[n]) :
         p.children[m][i] = p.children[n][j] /\ p.children[m][i] \in DOMAIN p.frame
           => m = n /\ i = j
  /\ \A S \in SUBSET DOMAIN p.frame :
       S # {} => \E n \in S : \A m \in S : n \notin ToSet(p.children[m])

ASSUME ForestAssumption == \A b \in Batches : \A p \in ToSet(b) : IsForest(p)

ASSUME UrlAssumption ==
  \A b \in Batches : \A p \in ToSet(b) :
    \A n \in DOMAIN p.frame : p.frame[n].url \in Urls \cup {""}

VARIABLES
  batch,    \* the profiles of the group
  at,       \* how many of them were begun
  profile,  \* the one in work, or NoProfile
  roots,    \* its roots that were not walked yet, to be taken in any order
  stack,    \* frames of the walk, the top last
  active,   \* by level: how often a key is on the path
  agg,      \* the aggregation in work
  aggs      \* aggregations of the profiles before it

vars == <<batch, at, profile, roots, stack, active, agg, aggs>>

-----------------------------------------------------------------------------
(***************************************************************************)
(* Self time of the nodes: from the samples, or the duration of a legacy   *)
(* profile shared out by hits.                                             *)
(***************************************************************************)
Deltas(p) == [i \in 1..Len(p.samples) |-> p.samples[i].delta]

SelfOf(p) ==
  LET allHits == Whole(p.hits)
  IN [n \in DOMAIN p.frame |->
        IF p.samples # <<>>
        THEN SumOf(Deltas(p), {i \in 1..Len(p.samples) : p.samples[i].id = n})
        ELSE IF allHits > 0 /\ p.duration > 0
        THEN (p.hits[n] * p.duration) \div allHits
        ELSE 0]

(* Labels the samples of node n carry, with their time (addCtx). *)
ContextSelf(p, n) ==
  LET labelled == {i \in 1..Len(p.samples) :
                     p.samples[i].id = n /\ p.samples[i].label # ""}
  IN [l \in {p.samples[i].label : i \in labelled} |->
        SumOf(Deltas(p), {i \in labelled : p.samples[i].label = l})]

(* Time of each node under label c. *)
OfLabel(p, c) == [n \in DOMAIN p.frame |-> CountOf(ContextSelf(p, n), c)]

(* findRoots: nodes that are no node's child. *)
RootsOf(p) == DOMAIN p.frame \ UNION {ToSet(p.children[n]) : n \in DOMAIN p.frame}

(* subtreeTotals *)
Subtree(p) ==
  LET self == SelfOf(p)
      total[n \in DOMAIN p.frame] ==
        self[n] + SumFunctionOnSet(total, ToSet(p.children[n]) \cap DOMAIN p.frame)
  IN total

(* Mutant of EdgesOf: a child counts with its own time. *)
EdgesOfSelf(p) ==
  LET self == SelfOf(p)
      pairs == {e \in (DOMAIN p.frame) \X (DOMAIN p.frame) :
                  e[2] \in ToSet(p.children[e[1]])}
      fns(e) == <<FnKey(p.frame[e[1]]), FnKey(p.frame[e[2]])>>
  IN [f \in {fns(e) : e \in pairs} |->
        SumFunctionOnSet([e \in pairs |-> self[e[2]]], {e \in pairs : fns(e) = f})]

(* buildEdges: the subtree of a child counts for the pair of functions. *)
EdgesOf(p) ==
  LET total == Subtree(p)
      pairs == {e \in (DOMAIN p.frame) \X (DOMAIN p.frame) :
                  e[2] \in ToSet(p.children[e[1]])}
      fns(e) == <<FnKey(p.frame[e[1]]), FnKey(p.frame[e[2]])>>
  IN [f \in {fns(e) : e \in pairs} |->
        SumFunctionOnSet([e \in pairs |-> total[e[2]]], {e \in pairs : fns(e) = f})]

-----------------------------------------------------------------------------
NoSums == <<>>

(* The aggregation of p before its tree is walked. *)
Begun(p) ==
  LET labels == UNION {DOMAIN ContextSelf(p, n) : n \in DOMAIN p.frame}
  IN [entities |-> [l \in Levels |-> NoSums],
      edges |-> NoSums,
      contexts |-> [c \in labels |-> SumOf(OfLabel(p, c), DOMAIN p.frame)],
      fnContexts |-> NoSums, ctxPackages |-> NoSums, ctxFiles |-> NoSums,
      overall |-> Whole(SelfOf(p)),
      profiles |-> 1]

(* Entity e0 gets self time s under its key, or joins the one that is there, *)
(* which keeps its package and category and takes the file.                 *)
Joined(e, s, file) == [e EXCEPT !.self = @ + s, !.file = file]

WithSelf(entities, key, e0, s) ==
  IF key \in DOMAIN entities
  THEN [entities EXCEPT ![key] = Joined(@, s, e0.file)]
  ELSE [k \in DOMAIN entities \cup {key} |->
          IF k = key THEN [e0 EXCEPT !.self = s] ELSE entities[k]]

(* addSelfToActiveTotals *)
WithTotals(entities, onPath, s) ==
  [k \in DOMAIN entities |->
     IF k \in onPath THEN [entities[k] EXCEPT !.total = @ + s] ELSE entities[k]]

(***************************************************************************)
(* Aggregation a with node n of p, when act are the keys on its path.  The *)
(* package and category of an entity are those of its first frame; `file`  *)
(* is read of functions only.                                              *)
(***************************************************************************)
Counted(a, p, n, act) ==
  LET f == p.frame[n]
      s == SelfOf(p)[n]
      labels == ContextSelf(p, n)
      entity == [self |-> 0, total |-> 0, package |-> Package(f),
                 category |-> Category(f), file |-> FileKey(f)]
      under(key) == [x \in {<<l, key>> : l \in DOMAIN labels} |-> labels[x[1]]]
  IN [a EXCEPT
        !.entities = [l \in Levels |->
           WithTotals(WithSelf(@[l], KeyAt(f, l), entity, s), DOMAIN act[l], s)],
        !.fnContexts = AddSums(@,
           [x \in (DOMAIN act["function"]) \X (DOMAIN labels) |-> labels[x[2]]]),
        !.ctxPackages = AddSums(@, under(Package(f))),
        !.ctxFiles = AddSums(@, under(FileKey(f)))]

-----------------------------------------------------------------------------
Frame(n) == [id |-> n, next |-> 1, entered |-> FALSE,
             first |-> [l \in Levels |-> FALSE]]

Top == stack[Len(stack)]
TopKey(l) == KeyAt(profile.frame[Top.id], l)
Known(n) == n \in DOMAIN profile.frame

(* Mutant of Deactivated: a key that is counted down to 0 stays. *)
DeactivatedToZero(onPath, key, first) == Credit(onPath, key, -1)

(* Mutant of Deactivated: the key goes with the first frame that is left. *)
DeactivatedAtOnce(onPath, key, first) == [k \in DOMAIN onPath \ {key} |-> onPath[k]]

(* The keys on the path when a frame is left. *)
Deactivated(onPath, key, first) ==
  IF first THEN [k \in DOMAIN onPath \ {key} |-> onPath[k]]
  ELSE Credit(onPath, key, -1)

Init ==
  /\ batch \in Batches
  /\ at = 0 /\ profile = NoProfile
  /\ roots = {} /\ stack = <<>>
  /\ active = [l \in Levels |-> NoSums]
  /\ agg = NoProfile /\ aggs = <<>>

Begin ==
  /\ profile = NoProfile /\ at < Len(batch)
  /\ at' = at + 1
  /\ profile' = batch[at + 1]
  /\ roots' = RootsOf(profile')
  /\ agg' = Begun(profile')
  /\ UNCHANGED <<batch, stack, active, aggs>>

WalkRoot ==
  /\ profile # NoProfile /\ stack = <<>>
  /\ \E root \in roots : stack' = <<Frame(root)>> /\ roots' = roots \ {root}
  /\ UNCHANGED <<batch, at, profile, active, agg, aggs>>

(* A child that is not among the nodes. *)
Skip ==
  /\ stack # <<>> /\ ~Known(Top.id)
  /\ stack' = Front(stack)
  /\ UNCHANGED <<batch, at, profile, roots, active, agg, aggs>>

Enter ==
  /\ stack # <<>> /\ Known(Top.id) /\ ~Top.entered
  /\ active' = [l \in Levels |-> Credit(active[l], TopKey(l), 1)]
  /\ stack' = [stack EXCEPT ![Len(stack)] =
        [@ EXCEPT !.entered = TRUE,
                  !.first = [l \in Levels |-> CountOf(active[l], TopKey(l)) = 0]]]
  /\ agg' = Counted(agg, profile, Top.id, active')
  /\ UNCHANGED <<batch, at, profile, roots, aggs>>

Descend ==
  /\ stack # <<>> /\ Known(Top.id) /\ Top.entered
  /\ Top.next <= Len(profile.children[Top.id])
  /\ stack' = Append([stack EXCEPT ![Len(stack)].next = @ + 1],
                     Frame(profile.children[Top.id][Top.next]))
  /\ UNCHANGED <<batch, at, profile, roots, active, agg, aggs>>

Exit ==
  /\ stack # <<>> /\ Known(Top.id) /\ Top.entered
  /\ Top.next > Len(profile.children[Top.id])
  /\ active' = [l \in Levels |-> Deactivated(active[l], TopKey(l), Top.first[l])]
  /\ stack' = Front(stack)
  /\ UNCHANGED <<batch, at, profile, roots, agg, aggs>>

Finish ==
  /\ profile # NoProfile /\ stack = <<>> /\ roots = {}
  /\ aggs' = Append(aggs, [agg EXCEPT !.edges = EdgesOf(profile)])
  /\ profile' = NoProfile /\ agg' = NoProfile
  /\ UNCHANGED <<batch, at, roots, stack, active>>

Next == Begin \/ WalkRoot \/ Skip \/ Enter \/ Descend \/ Exit \/ Finish

Spec == Init /\ [][Next]_vars

-----------------------------------------------------------------------------
(* Mutant of MergeEntities: a copied entity keeps its time and gets it again. *)
MergeEntitiesTwice(dst, src) ==
  [k \in DOMAIN dst \cup DOMAIN src |->
     IF k \notin DOMAIN src THEN dst[k]
     ELSE LET d == IF k \in DOMAIN dst THEN dst[k] ELSE src[k]
          IN [d EXCEPT !.self = @ + src[k].self, !.total = @ + src[k].total]]

(* mergeEntities: an entity keeps what it says of itself in its first map. *)
MergeEntities(dst, src) ==
  [k \in DOMAIN dst \cup DOMAIN src |->
     IF k \notin DOMAIN dst THEN src[k]
     ELSE IF k \notin DOMAIN src THEN dst[k]
     ELSE [dst[k] EXCEPT !.self = @ + src[k].self, !.total = @ + src[k].total]]

NoAggregation ==
  [entities |-> [l \in Levels |-> NoSums], edges |-> NoSums, contexts |-> NoSums,
   fnContexts |-> NoSums, ctxPackages |-> NoSums, ctxFiles |-> NoSums,
   overall |-> 0, profiles |-> 0]

Merge2(a, b) ==
  [entities |-> [l \in Levels |-> MergeEntities(a.entities[l], b.entities[l])],
   edges |-> AddSums(a.edges, b.edges),
   contexts |-> AddSums(a.contexts, b.contexts),
   fnContexts |-> AddSums(a.fnContexts, b.fnContexts),
   ctxPackages |-> AddSums(a.ctxPackages, b.ctxPackages),
   ctxFiles |-> AddSums(a.ctxFiles, b.ctxFiles),
   overall |-> a.overall + b.overall,
   profiles |-> a.profiles + b.profiles]

MergeAggregations(all) == FoldLeft(Merge2, NoAggregation, all)
-----------------------------------------------------------------------------
(* Everything in the batch is aggregated. *)
Done == profile = NoProfile /\ at = Len(batch)

Entered == {i \in 1..Len(stack) : stack[i].entered}
KeyOn(i, l) == KeyAt(profile.frame[stack[i].id], l)
On(l, k) == {i \in Entered : KeyOn(i, l) = k}

(* The types of the variables: only keys in use are counted active. *)
TypeOK ==
  /\ batch \in Batches /\ at \in 0..Len(batch)
  /\ profile \in ToSet(batch) \cup {NoProfile}
  /\ roots \subseteq (IF profile = NoProfile THEN {} ELSE DOMAIN profile.frame)
  /\ stack \in Seq([id : Int, next : Nat \ {0}, entered : BOOLEAN,
                    first : [Levels -> BOOLEAN]])
  /\ \A l \in Levels : \A k \in DOMAIN active[l] : active[l][k] \in Nat \ {0}
  /\ aggs \in Seq(ToSet(aggs))
  /\ Len(aggs) = at - (IF profile = NoProfile THEN 0 ELSE 1)

(***************************************************************************)
(* The reference counts of aggregateTree are right at every step: the keys *)
(* on the path and no others, each as often as frames on it have it,       *)
(* through recursion at any of the three levels and children that are      *)
(* missing (aggregate.go:449-456, 498-515).                                *)
(***************************************************************************)
ActiveIsPath ==
  \A l \in Levels :
    /\ DOMAIN active[l] = {KeyOn(i, l) : i \in Entered}
    /\ \A k \in DOMAIN active[l] : active[l][k] = Cardinality(On(l, k))

(* Nodes from a root of the tree to each node. *)
PathTo(p) ==
  LET path[n \in DOMAIN p.frame] ==
        {n} \cup UNION {path[m] : m \in {x \in DOMAIN p.frame :
                                          n \in ToSet(p.children[x])}}
  IN path

(* Nodes with a key, and those with one of them on their path. *)
NodesWith(p, l, k) == {n \in DOMAIN p.frame : KeyAt(p.frame[n], l) = k}
NodesUnder(p, l, k) == {n \in DOMAIN p.frame : PathTo(p)[n] \cap NodesWith(p, l, k) # {}}

(* Aggregation a of p has the time of these nodes, and no other, right. *)
TimesOf(a, p, nodes) ==
  LET self == SelfOf(p)
  IN \A l \in Levels :
       /\ DOMAIN a.entities[l] = {KeyAt(p.frame[n], l) : n \in nodes}
       /\ \A k \in DOMAIN a.entities[l] :
            LET under == NodesUnder(p, l, k) \cap nodes
            IN /\ a.entities[l][k].self = SumOf(self, NodesWith(p, l, k) \cap nodes)
               /\ a.entities[l][k].total = SumOf(self, under)
               /\ l = "function" =>
                    \A c \in DOMAIN a.contexts :
                      CountOf(a.fnContexts, <<k, c>>) = SumOf(OfLabel(p, c), under)

(***************************************************************************)
(* In every profile each key has, at each level, the self time of its      *)
(* nodes and the inclusive time of all nodes below one of its nodes, each  *)
(* once however deep the recursion; and so by context for functions        *)
(* ("collapsing recursion", aggregate.go:403-406).                         *)
(***************************************************************************)
InclusiveTimeOnce ==
  Done => \A i \in 1..Len(aggs) : TimesOf(aggs[i], batch[i], DOMAIN batch[i].frame)

(***************************************************************************)
(* What flows into a function along the call graph is its inclusive time,  *)
(* and so is its own time with what flows out of it: edges are sums of     *)
(* subtrees and totals are counted along the path, so they could differ    *)
(* (buildEdges, aggregateTree).  A function that calls itself, directly or *)
(* not, is excepted: its edges count it once per frame.                    *)
(***************************************************************************)
EdgesCarryTotals ==
  Done => \A i \in 1..Len(aggs) :
    LET p == batch[i]
        path == PathTo(p)
        subtree == Subtree(p)
        edges == aggs[i].edges
        nodes(f) == NodesWith(p, "function", f)
        recursive(f) == \E n \in nodes(f) : path[n] \cap nodes(f) # {n}
    IN \A f \in DOMAIN aggs[i].entities["function"] :
         LET e == aggs[i].entities["function"][f]
             atRoot == SumOf(subtree, {n \in nodes(f) : path[n] = {n}})
         IN ~recursive(f) =>
              /\ e.total = atRoot + SumOf(edges, {x \in DOMAIN edges : x[2] = f})
              /\ e.total = e.self + SumOf(edges, {x \in DOMAIN edges : x[1] = f})

(* The frames of the batch; no two of a function are of two scripts.       *)
BatchFrames == UNION {{batch[i].frame[n] : n \in DOMAIN batch[i].frame} : i \in 1..Len(batch)}
ScriptsAgree == \A f, g \in BatchFrames : FnKey(f) = FnKey(g) => f.url = g.url

(***************************************************************************)
(* In the merge of a group time is neither lost nor doubled: packages, and *)
(* files, share the time of all profiles out; what is listed under a       *)
(* package or a file makes up its time ("partitions cleanly",              *)
(* compare/breakdown.go:216-217; exact membership, aggregate.go:465), and  *)
(* so do the packages and files of a context.  Functions do where a script *)
(* id stands for one script in all profiles.  Files do but in packages of  *)
(* frames without url: all these are in one file, which goes with the      *)
(* package of the first of them.                                           *)
(***************************************************************************)
TimePartitions ==
  Done =>
    LET m == MergeAggregations(aggs)
        fns == m.entities["function"]
        files == m.entities["file"]
        packages == m.entities["package"]
        self(entities, keys) == SumFunctionOnSet([k \in keys |-> entities[k].self], keys)
        ofContext(sums, c) == SumOf(sums, {x \in DOMAIN sums : x[1] = c})
        native == {Package(f) : f \in {g \in BatchFrames : FileKey(g) = "(native)"}}
        whole == [i \in 1..Len(batch) |-> Whole(SelfOf(batch[i]))]
    IN /\ m.profiles = Len(batch)
       /\ m.overall = SumFunctionOnSet(whole, 1..Len(batch))
       /\ self(packages, DOMAIN packages) = m.overall
       /\ self(files, DOMAIN files) = m.overall
       /\ ScriptsAgree =>
            /\ \A k \in DOMAIN packages :
                 packages[k].self = self(fns, {f \in DOMAIN fns : fns[f].package = k})
            /\ \A k \in DOMAIN files :
                 files[k].self = self(fns, {f \in DOMAIN fns : fns[f].file = k})
       /\ \A k \in DOMAIN packages \ native :
            packages[k].self = self(files, {f \in DOMAIN files : files[f].package = k})
       /\ \A c \in DOMAIN m.contexts :
            /\ m.contexts[c] = ofContext(m.ctxPackages, c)
            /\ m.contexts[c] = ofContext(m.ctxFiles, c)
=============================================================================
