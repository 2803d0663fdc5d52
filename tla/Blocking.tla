-------------------------------- MODULE Blocking --------------------------------
(***************************************************************************)
(* Event-loop blocking: detection of long tasks in the samples of one      *)
(* profile after the other and the merge of what was found into the group  *)
(* (internal/v8profile/blocking.go).  detectBlocking reads a profile once, *)
(* from left to right, with one episode in progress: an action is one turn *)
(* of its loop, its end, or one turn of mergeBlocking's loop over stalls.  *)
(*                                                                         *)
(* A sample is its node, its time delta and the label of its asynchronous  *)
(* context, NoLabel when it has none or the profile carries no contexts.   *)
(* Deltas are any integers: nothing between V8 and the detector checks     *)
(* that the clock goes forward.                                            *)
(***************************************************************************)
EXTENDS Integers, Sequences, FiniteSetsExt, Functions

CONSTANTS
  Nodes,       \* node ids of the profiles
  IdleNodes,   \* those of category idle
  FnOf,        \* FnOf[n]: function key of node n
  Parent,      \* Parent[n]: the node that has n as a child, or None
  Labels,      \* labels of asynchronous contexts
  BusySamples, \* samples of other nodes: what a profile may hold
  Threshold,   \* thresholdMicros
  StackDepth,  \* maxStallStackDepth
  TopLimit,    \* topStallsLimit
  MaxSamples,  \* bound: samples in all profiles together
  MaxProfiles, \* bound: profiles of the group
  Foreign,     \* a node id that the profile does not define
  NoLabel, None

Sample == [id : Nodes \cup {Foreign}, delta : Int, label : Labels \cup {NoLabel}]

ASSUME BlockingAssumption ==
  /\ IdleNodes \subseteq Nodes
  /\ Parent \in [Nodes -> Nodes \cup {None}]
  /\ \A s \in BusySamples : s \in Sample /\ s.id \in Nodes \ IdleNodes
  /\ DOMAIN FnOf = Nodes
  /\ Threshold \in Nat \ {0}
  /\ StackDepth \in Nat \ {0} /\ TopLimit \in Nat \ {0}
  /\ MaxSamples \in Nat /\ MaxProfiles \in Nat
  /\ Foreign \notin Nodes /\ None \notin Nodes
  /\ NoLabel \notin Labels

VARIABLES
  samples,  \* the samples of the current profile read so far
  ep,       \* the episode in progress
  rollup,   \* what the current profile has shown
  group,    \* what the profiles before it have shown, merged
  queue,    \* stalls of the last profile still to be merged
  past      \* history: the samples of the profiles merged

vars == <<samples, ep, rollup, group, queue, past>>

Fns == {FnOf[n] : n \in Nodes}

-----------------------------------------------------------------------------
Larger(a, b) == IF a > b THEN a ELSE b

(* Time by function or label: the key gets an entry even for no time. *)
Credit(times, key, delta) ==
  [k \in DOMAIN times \cup {key} |->
     (IF k \in DOMAIN times THEN times[k] ELSE 0)
     + (IF k = key THEN delta ELSE 0)]

Fresh == [micros |-> 0, samples |-> 0, leaf |-> <<>>, domKey |-> None,
          domMic |-> 0, ctx |-> <<>>, maxDelta |-> -1, maxIdx |-> 0]

(* Where the first of the largest samples is once the i-th, s, is read. *)
LargestAt(e, s, i) ==
  IF s.delta > e.maxDelta \/ e.samples = 0 THEN i ELSE e.maxIdx

(***************************************************************************)
(* Episode e with sample s, the i-th of the profile.  The episode that has *)
(* no samples stands for the code's nil.                                   *)
(***************************************************************************)
Extend(e, s, i) ==
  LET leaf == Credit(e.leaf, FnOf[s.id], s.delta)
      ahead == leaf[FnOf[s.id]] > e.domMic
  IN [micros |-> e.micros + s.delta,
      samples |-> e.samples + 1,
      leaf |-> leaf,
      domKey |-> IF ahead THEN FnOf[s.id] ELSE e.domKey,
      domMic |-> IF ahead THEN leaf[FnOf[s.id]] ELSE e.domMic,
      ctx |-> IF s.label = NoLabel THEN e.ctx
              ELSE Credit(e.ctx, s.label, s.delta),
      maxDelta |-> Larger(s.delta, e.maxDelta),
      maxIdx |-> LargestAt(e, s, i)]

-----------------------------------------------------------------------------
NoStat == [blocked |-> 0, episodes |-> 0, max |-> 0]
StatOf(stats, k) == IF k \in DOMAIN stats THEN stats[k] ELSE NoStat

(* Mutant of AddStat: the maximum is of the last episode. *)
AddStatLast(a, b) ==
  [blocked |-> a.blocked + b.blocked, episodes |-> a.episodes + b.episodes,
   max |-> b.max]

AddStat(a, b) ==
  [blocked |-> a.blocked + b.blocked, episodes |-> a.episodes + b.episodes,
   max |-> Larger(a.max, b.max)]

MergeStats(dst, src) ==
  [k \in DOMAIN dst \cup DOMAIN src |-> AddStat(StatOf(dst, k), StatOf(src, k))]

(* The shares of one episode: all keys get their time, dom the episode. *)
Blame(times, dom, micros) ==
  [k \in DOMAIN times |->
     [blocked |-> times[k],
      episodes |-> IF k = dom THEN 1 ELSE 0,
      max |-> IF k = dom THEN micros ELSE 0]]

(* The keys dominantKey can return: map order decides between equals. *)
Dominant(times) ==
  LET positive == {k \in DOMAIN times : times[k] > 0}
  IN IF positive = {} THEN {NoLabel}
     ELSE {k \in positive : \A j \in positive : times[j] <= times[k]}

(* Root to leaf; a node met before ends the climb, as in a malformed tree. *)
Climb[n \in Nodes, seen \in SUBSET Nodes] ==
  IF n \in seen THEN <<>>
  ELSE Append(IF Parent[n] = None THEN <<>> ELSE Climb[Parent[n], seen \cup {n}],
              FnOf[n])

Stack(n) ==
  LET frames == Climb[n, {}]
      cut == Larger(0, Len(frames) - StackDepth)
  IN SubSeq(frames, cut + 1, Len(frames))

(* Mutant of InsertStall: a full list takes no more. *)
InsertStallUntilFull(top, s) ==
  IF Len(top) >= TopLimit THEN top
  ELSE LET longer == {i \in 1..Len(top) : top[i].duration >= s.duration}
           at == Cardinality(longer)
       IN SubSeq(top, 1, at) \o <<s>> \o SubSeq(top, at + 1, Len(top))

(* What sort.Search finds: how many stalls of a sorted list stay before. *)
StallsBefore(top, duration) ==
  CHOOSE k \in 0..Len(top) :
    /\ \A i \in 1..k : top[i].duration >= duration
    /\ k < Len(top) => top[k + 1].duration < duration

(* Inserts s before the shorter stalls, and drops the last of too many. *)
InsertStall(top, s) ==
  IF Len(top) >= TopLimit /\ s.duration <= top[Len(top)].duration THEN top
  ELSE LET before == StallsBefore(top, s.duration)
       IN [i \in 1..(IF Len(top) < TopLimit THEN Len(top) + 1 ELSE TopLimit) |->
             IF i <= before THEN top[i]
             ELSE IF i = before + 1 THEN s ELSE top[i - 1]]

-----------------------------------------------------------------------------
NoBlocking == [episodes |-> 0, blocked |-> 0, max |-> 0,
               functions |-> <<>>, contexts |-> <<>>, top |-> <<>>]

(* Mutant of LongEnough: a task of exactly the threshold does not count. *)
LongEnoughStrict(e) == e.micros > Threshold

LongEnough(e) == e.micros >= Threshold

(* Blocking b with episode e, whose dominant label is lbl. *)
Recorded(b, e, lbl) ==
  [episodes |-> b.episodes + 1,
   blocked |-> b.blocked + e.micros,
   max |-> Larger(b.max, e.micros),
   functions |-> MergeStats(b.functions, Blame(e.leaf, e.domKey, e.micros)),
   contexts |-> IF DOMAIN e.ctx = {} THEN b.contexts
                ELSE MergeStats(b.contexts,
                                Blame(Credit(e.ctx, lbl, 0), lbl, e.micros)),
   top |-> InsertStall(b.top,
             [duration |-> e.micros, samples |-> e.samples, context |-> lbl,
              stack |-> Stack(samples[e.maxIdx].id)])]

(* What closing the episode in progress makes of the rollup. *)
Closed == IF LongEnough(ep) THEN {Recorded(rollup, ep, lbl) : lbl \in Dominant(ep.ctx)}
          ELSE {rollup}

Init ==
  /\ samples = <<>> /\ ep = Fresh /\ rollup = NoBlocking
  /\ group = NoBlocking /\ queue = <<>> /\ past = <<>>

SamplesRead == Len(samples) + MapThenSumSet(LAMBDA p : Len(past[p]), 1..Len(past))

(* There is another sample in the profile. *)
Reading ==
  /\ queue = <<>>
  /\ Len(past) < MaxProfiles
  /\ SamplesRead < MaxSamples

(* An idle sample, or one of a node that is not in the profile. *)
Boundary ==
  /\ Reading
  /\ \E n \in IdleNodes \cup {Foreign} :
       samples' = Append(samples, [id |-> n, delta |-> 0, label |-> NoLabel])
  /\ rollup' \in Closed
  /\ ep' = Fresh
  /\ UNCHANGED <<group, queue, past>>

Busy ==
  /\ Reading
  /\ \E s \in BusySamples :
       /\ samples' = Append(samples, s)
       /\ ep' = Extend(ep, s, Len(samples) + 1)
  /\ UNCHANGED <<rollup, group, queue, past>>

(***************************************************************************)
(* The samples end: the last episode closes, and mergeBlocking adds the    *)
(* rollup to the group's, all but the stalls.                              *)
(***************************************************************************)
EndProfile ==
  /\ queue = <<>> /\ Len(past) < MaxProfiles
  /\ samples # <<>>
  /\ \E closed \in Closed :
       /\ group' = [episodes |-> group.episodes + closed.episodes,
                     blocked |-> group.blocked + closed.blocked,
                     max |-> Larger(group.max, closed.max),
                     functions |-> MergeStats(group.functions, closed.functions),
                     contexts |-> MergeStats(group.contexts, closed.contexts),
                     top |-> group.top]
       /\ queue' = closed.top
  /\ past' = Append(past, samples)
  /\ samples' = <<>> /\ ep' = Fresh /\ rollup' = NoBlocking

MergeStall ==
  /\ queue # <<>>
  /\ group' = [group EXCEPT !.top = InsertStall(@, Head(queue))]
  /\ queue' = Tail(queue)
  /\ UNCHANGED <<samples, ep, rollup, past>>

Next == Boundary \/ Busy \/ EndProfile \/ MergeStall

Spec == Init /\ [][Next]_vars

-----------------------------------------------------------------------------
(***************************************************************************)
(* What GroupBlocking shows of the group (internal/engine/blocking.go)     *)
(* with lists cut at topN, 0 for no cut: the longest stalls, and the keys  *)
(* blamed most.  The code orders keys with equal times by what they        *)
(* display; here any of them may be shown.                                 *)
(***************************************************************************)
Cut(len, topN) == IF topN > 0 /\ len > topN THEN topN ELSE len

ShownStalls(topN) == SubSeq(group.top, 1, Cut(Len(group.top), topN))

TopRows(stats, topN) ==
  {K \in SUBSET DOMAIN stats :
     /\ Cardinality(K) = Cut(Cardinality(DOMAIN stats), topN)
     /\ \A k \in K, j \in DOMAIN stats \ K : stats[k].blocked >= stats[j].blocked}

-----------------------------------------------------------------------------
Stall == [duration : Nat, samples : Nat, context : Labels \cup {NoLabel},
          stack : {Stack(n) : n \in Nodes}]

Stat == [blocked : Int, episodes : Nat, max : Nat]

(* Values in V for some of the keys, as a Go map has them. *)
IsMap(f, keys, V) == DOMAIN f \subseteq keys /\ f \in [DOMAIN f -> V]

IsRollup(b) ==
  /\ b = [episodes |-> b.episodes, blocked |-> b.blocked, max |-> b.max,
          functions |-> b.functions, contexts |-> b.contexts, top |-> b.top]
  /\ b.episodes \in Nat /\ b.blocked \in Nat /\ b.max \in Nat
  /\ IsMap(b.functions, Fns, Stat)
  /\ IsMap(b.contexts, Labels \cup {NoLabel}, Stat)
  /\ b.top \in Seq(Stall)

IsEpisode(e) ==
  /\ e.micros \in Int /\ e.samples \in Nat
  /\ IsMap(e.leaf, Fns, Int) /\ IsMap(e.ctx, Labels, Int)
  /\ e.domKey \in Fns \cup {None} /\ e.domMic \in Nat
  /\ e.maxDelta \in Int /\ e.maxIdx \in Nat

(* The types of the variables; the episode is of samples of the profile. *)
TypeOK ==
  /\ samples \in Seq(Sample)
  /\ IsEpisode(ep)
  /\ IF ep.samples = 0 THEN ep.micros = 0
     ELSE ep.maxIdx \in 1..Len(samples) /\ samples[ep.maxIdx].id \in Nodes
  /\ IsRollup(rollup) /\ IsRollup(group)
  /\ queue \in Seq(Stall)

(***************************************************************************)
(* What a reader of the group may ask for: nothing is left to be merged.   *)
(* The references below are of whole profiles, without a scan: a task is a *)
(* maximal run of busy samples, given by its first and its last.           *)
(***************************************************************************)
Merged == queue = <<>>

IsBusy(s) == s.id \in Nodes \ IdleNodes

Duration(ss, i, j) == SumFunctionOnSet([k \in DOMAIN ss |-> ss[k].delta], i..j)

IsRun(ss, i, j) ==
  /\ i <= j /\ \A k \in i..j : IsBusy(ss[k])
  /\ i = 1 \/ ~IsBusy(ss[i - 1])
  /\ j = Len(ss) \/ ~IsBusy(ss[j + 1])

TasksIn(ss) ==
  {r \in (1..Len(ss)) \X (1..Len(ss)) :
     IsRun(ss, r[1], r[2]) /\ Duration(ss, r[1], r[2]) >= Threshold}

Durations(ss) == [r \in TasksIn(ss) |-> Duration(ss, r[1], r[2])]

IsGreatest(m, S) == m \in S /\ \A x \in S : x <= m

(***************************************************************************)
(* The totals of a group are those of the maximal runs of busy samples of  *)
(* its profiles that last the threshold or longer, each counted once,      *)
(* whatever their place in the profile (detectBlocking).                   *)
(***************************************************************************)
RollupMatchesRuns ==
  LET D(p) == Durations(past[p])
  IN /\ group.episodes =
          SumFunction([p \in DOMAIN past |-> Cardinality(TasksIn(past[p]))])
     /\ group.blocked = SumFunction([p \in DOMAIN past |-> SumFunction(D(p))])
     /\ IsGreatest(group.max, {0} \cup UNION {Range(D(p)) : p \in DOMAIN past})

BlockedOf(stats) == [k \in DOMAIN stats |-> stats[k].blocked]
EpisodesOf(stats) == [k \in DOMAIN stats |-> stats[k].episodes]
MaximaOf(stats) == {stats[k].max : k \in DOMAIN stats}

(* What record and mergeBlockStats give to functions and contexts. *)
SharesAddUp(b) ==
  /\ SumFunction(BlockedOf(b.functions)) = b.blocked
  /\ SumFunction(EpisodesOf(b.functions)) = b.episodes
  /\ IsGreatest(b.max, {0} \cup MaximaOf(b.functions))
  /\ SumFunction(EpisodesOf(b.contexts)) <= b.episodes

(***************************************************************************)
(* The functions share the group's blocked time and its episodes out among *)
(* them, and one of them dominated the longest (record, mergeBlockStats).  *)
(* Contexts get no more episodes than there are.  And the functions that a *)
(* cut list shows (topBlockingRows) explain at least their part by number  *)
(* of the blocked time in the headline above it.                           *)
(***************************************************************************)
BlameAddsUp ==
  /\ SharesAddUp(rollup) /\ SharesAddUp(group)
  /\ LET times == BlockedOf(group.functions) IN
       \A topN \in 0..2 : \A K \in TopRows(group.functions, topN) :
         SumFunctionOnSet(times, K) * Cardinality(DOMAIN times)
           >= group.blocked * Cardinality(K)

(* Stalls are kept longest first, and no more of them than the limit. *)
InOrder(top) ==
  /\ Len(top) <= TopLimit
  /\ \A i, j \in 1..Len(top) : i < j => top[i].duration >= top[j].duration

TopInOrder == InOrder(rollup.top) /\ InOrder(group.top)

(* A stall that is shown of task r of profile ss: its length, the stack of  *)
(* the first of its largest samples, and the label of one of them or none.  *)
Shows(s, ss, r) ==
  /\ s.duration = Durations(ss)[r] /\ s.samples = r[2] - r[1] + 1
  /\ \E k \in r[1]..r[2] :
       /\ \A m \in r[1]..r[2] : ss[m].delta <= ss[k].delta
       /\ \A m \in r[1]..(k - 1) : ss[m].delta < ss[k].delta
       /\ s.stack = Stack(ss[k].id)
  /\ \E m \in r[1]..r[2] : s.context \in {ss[m].label, NoLabel}

AtLeast(ss, d) == {r \in TasksIn(ss) : Durations(ss)[r] >= d}

(* How many tasks of the group are of length d or longer.                  *)
TasksAtLeast(d) == SumFunction([p \in DOMAIN past |-> Cardinality(AtLeast(past[p], d))])

Smaller(a, b) == IF a < b THEN a ELSE b

(***************************************************************************)
(* "A group's stalls are the globally worst episodes across its profiles"  *)
(* (mergeBlocking), although each profile and the group cut their lists:   *)
(* each is a long task (record), and of any length or longer the list has  *)
(* as many as there are, up to the limit.  However short the view is cut,  *)
(* its first stall is the longest episode of its headline                  *)
(* (buildBlockingView).                                                    *)
(***************************************************************************)
WorstStallsKept ==
  /\ TopInOrder
  /\ Merged =>
       /\ \A x \in 1..Len(group.top) : \E p \in DOMAIN past :
            \E r \in TasksIn(past[p]) : Shows(group.top[x], past[p], r)
       /\ \A p \in DOMAIN past : \A r \in TasksIn(past[p]) :
            LET d == Durations(past[p])[r]
            IN Cardinality({i \in 1..Len(group.top) : group.top[i].duration >= d})
                 = Smaller(TopLimit, TasksAtLeast(d))
       /\ \A topN \in 0..TopLimit :
            LET stalls == ShownStalls(topN)
            IN IF group.episodes = 0 THEN stalls = <<>>
               ELSE stalls # <<>> /\ stalls[1].duration = group.max

-----------------------------------------------------------------------------
(* What the inductive proofs need of the scan between two samples.         *)

(* The function blamed for an episode has a time of its own in it.         *)
EpisodeAddsUp ==
  /\ IsFiniteSet(DOMAIN ep.leaf) /\ IsFiniteSet(DOMAIN ep.ctx)
  /\ SumFunction(ep.leaf) = ep.micros
  /\ \A k \in DOMAIN ep.leaf : ep.leaf[k] <= ep.domMic
  /\ ep.domMic = 0 \/ ep.domKey \in DOMAIN ep.leaf

(* The samples before those of the episode in progress. *)
Scanned == Len(samples) - ep.samples

TasksScanned == {r \in TasksIn(samples) : r[2] <= Scanned}

(* The episode is the run of busy samples at the end of what was read.     *)
EpisodeIsLastRun ==
  /\ Scanned >= 0
  /\ Scanned = 0 \/ ~IsBusy(samples[Scanned])
  /\ \A i \in (Scanned + 1)..Len(samples) : IsBusy(samples[i])
  /\ ep.micros = Duration(samples, Scanned + 1, Len(samples))

(* The totals of b are those of the tasks T of profile ss.                 *)
HasTasks(b, ss, T) ==
  /\ b.episodes = Cardinality(T)
  /\ b.blocked = SumFunctionOnSet(Durations(ss), T)
  /\ IsGreatest(b.max, {0} \cup {Durations(ss)[r] : r \in T})

RollupMatchesScan == HasTasks(rollup, samples, TasksScanned)

(* Its largest sample and its labels; a sample of less than -1 is as small. *)
EpisodeShowsRun ==
  LET run == (Scanned + 1)..Len(samples)
  IN /\ ep.maxDelta >= -1
     /\ \A m \in run : samples[m].delta <= ep.maxDelta
     /\ \/ ep.maxDelta = -1
        \/ /\ ep.maxIdx \in run /\ samples[ep.maxIdx].delta = ep.maxDelta
           /\ \A m \in (Scanned + 1)..(ep.maxIdx - 1) : samples[m].delta < ep.maxDelta
     /\ \A l \in DOMAIN ep.ctx : \E m \in run : samples[m].label = l

(* The longest of tasks T of ss are in top: all are of T, and of any       *)
(* length or longer there are as many as fit.                              *)
KeepsWorst(top, ss, T, lengths) ==
  /\ \A x \in 1..Len(top) : \E r \in T : Shows(top[x], ss, r)
  /\ \A d \in lengths :
       StallsBefore(top, d) = Smaller(TopLimit, Cardinality({r \in T : Durations(ss)[r] >= d}))

(* Those of the group and of the stalls still in the queue are its longest. *)
GroupKeepsWorst(lengths) ==
  /\ InOrder(queue)
  /\ \A s \in Range(group.top) \cup Range(queue) : \E p \in DOMAIN past :
       \E r \in TasksIn(past[p]) : Shows(s, past[p], r)
  /\ \A d \in lengths :
       Smaller(TopLimit, StallsBefore(group.top, d) + StallsBefore(queue, d))
         = Smaller(TopLimit, TasksAtLeast(d))

IsFiniteRollup(b) == IsFiniteSet(DOMAIN b.functions) /\ IsFiniteSet(DOMAIN b.contexts)

IInv ==
  /\ TypeOK /\ TopInOrder
  /\ past \in Seq(Seq(Sample))
  /\ EpisodeAddsUp
  /\ IsFiniteRollup(rollup) /\ IsFiniteRollup(group)
  /\ SharesAddUp(rollup) /\ SharesAddUp(group)
  /\ EpisodeIsLastRun /\ RollupMatchesScan /\ RollupMatchesRuns

(* The stalls, for lengths that are all integers in the proof.             *)
StallsIInv(lengths) ==
  /\ IInv /\ EpisodeShowsRun
  /\ KeepsWorst(rollup.top, samples, TasksScanned, lengths)
  /\ GroupKeepsWorst(lengths)
=============================================================================
