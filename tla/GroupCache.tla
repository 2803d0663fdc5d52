------------------------------ MODULE GroupCache ------------------------------
(***************************************************************************)
(* The cache of merged group aggregations (internal/cache/cache.go) with   *)
(* the two ways the engine uses it (internal/engine/engine.go):            *)
(*                                                                         *)
(*   - "getOrBuild": GroupAggregation -> Cache.GetOrBuild, which           *)
(*     deduplicates concurrent builds with a singleflight group;           *)
(*   - "buildPlan":  Compare -> buildPlan -> Cache.Get, buildGroup,        *)
(*     Cache.Put, which does not.                                          *)
(*                                                                         *)
(* A request is a goroutine serving one HTTP or MCP call.  It first plans  *)
(* (lists and samples the members of its group) and then looks for an      *)
(* aggregation of that sample, while members keep being added to groups,   *)
(* clients disconnect and other requests use the same entry.               *)
(*                                                                         *)
(* The singleflight library is modelled from its documented use: one call  *)
(* per key at a time, its result shared by everyone who joined it, the key *)
(* forgotten when the call returns.                                        *)
(***************************************************************************)
EXTENDS Naturals

CONSTANTS
  Requests,    \* goroutines serving a call
  Groups,      \* group ids (GroupID.String())
  Windows,     \* time windows a request may ask for
  WholeGroup,  \* the window that takes all members (Window{})
  Modes,       \* the operations requests use: "getOrBuild", "buildPlan"
  Samples,     \* sets of members left by filterWindow and Sample
  EmptySample, \* the sample of a group with no member in the window
  Sigs,        \* member signatures
  MaxVersion,  \* bound: how often the members of a group change
  Sampled,     \* Sampled[v][w]: sample of version v of a group in window w
  Sig,         \* Sig[s]: MemberSignature of sample s
  None         \* no entry, no leader, no aggregation

Versions == 0..MaxVersion

ASSUME ModesAssumption == Modes \subseteq {"getOrBuild", "buildPlan"}
ASSUME NonEmptyAssumption == Modes # {} /\ Groups # {} /\ Windows # {}
ASSUME WindowAssumption == WholeGroup \in Windows
ASSUME SampledAssumption ==
  /\ MaxVersion \in Nat
  /\ EmptySample \in Samples
  /\ Sampled \in [Versions -> [Windows -> Samples]]
  /\ Sig \in [Samples -> Sigs]
ASSUME NoneAssumption == None \notin Requests

(***************************************************************************)
(* Samples stand for what is aggregated and signatures for the SHA-256 of  *)
(* the sorted Raw:Size list: two samples with one signature have the same  *)
(* members.  What it rests on (no hash collision, a Raw name never reused  *)
(* for other content) is questioned in module UploadSource.                *)
(***************************************************************************)
ASSUME SignatureFaithful == \A s, t \in Samples : Sig[s] = Sig[t] => s = t

Aggregations == Groups \X Samples
Entries == [sig : Sigs, agg : Aggregations]
ProgramPoints == {"idle", "plan", "lookup", "do", "wait", "recheck", "build",
                  "store", "return", "done"}

VARIABLES
  version,   \* version[g]: the members of g a ListGroups returns now
  items,     \* Cache.items
  flight,    \* Cache.group: the leader of the call in flight per id@sig
  pc,        \* where each request is
  mode, gid, win,  \* what it asks for
  sample,    \* groupPlan.sampled
  from,      \* history: version of its group when the request arrived
  cancelled, \* its context is done (the client went away)
  agg,       \* the aggregation it holds
  outcome    \* how its call ended

reqVars == <<mode, gid, win, from>>
vars == <<version, items, flight, pc, reqVars, sample, cancelled, agg, outcome>>

Init ==
  /\ version = [g \in Groups |-> 0]
  /\ items = [g \in Groups |-> None]
  /\ flight = [k \in Groups \X Sigs |-> None]
  /\ pc = [r \in Requests |-> "idle"]
  /\ mode = [r \in Requests |-> CHOOSE m \in Modes : TRUE]
  /\ gid = [r \in Requests |-> CHOOSE g \in Groups : TRUE]
  /\ win = [r \in Requests |-> CHOOSE w \in Windows : TRUE]
  /\ sample = [r \in Requests |-> EmptySample]
  /\ from = [r \in Requests |-> 0]
  /\ cancelled = [r \in Requests |-> FALSE]
  /\ agg = [r \in Requests |-> None]
  /\ outcome = [r \in Requests |-> "none"]

-----------------------------------------------------------------------------
(* The singleflight key of a request: id.String()@sig. *)
FlightKey(r) == <<gid[r], Sig[sample[r]]>>

(* Mutant of Hit: any entry of the group will do. *)
HitAnySignature(r) == items[gid[r]] # None

(* An entry of its group made from the sample the request planned. *)
Hit(r) == items[gid[r]] # None /\ items[gid[r]].sig = Sig[sample[r]]

Goto(r, l) == pc' = [pc EXCEPT ![r] = l]

(* The call of request r returns with outcome o and aggregation a. *)
Answer(r, o, a) ==
  /\ Goto(r, "done")
  /\ outcome' = [outcome EXCEPT ![r] = o]
  /\ agg' = [agg EXCEPT ![r] = a]

(* An upload into group g, or a new object of g in the bucket. *)
AddMembers(g) ==
  /\ version[g] < MaxVersion
  /\ version' = [version EXCEPT ![g] = @ + 1]
  /\ UNCHANGED <<items, flight, pc, reqVars, sample, cancelled, agg, outcome>>

(***************************************************************************)
(* A client calls; the request's variables are those of a fresh goroutine. *)
(* Only comparisons take a window.                                         *)
(***************************************************************************)
Arrive(r, m, g, w) ==
  /\ pc[r] = "idle"
  /\ m = "getOrBuild" => w = WholeGroup
  /\ Goto(r, "plan")
  /\ mode' = [mode EXCEPT ![r] = m]
  /\ gid' = [gid EXCEPT ![r] = g]
  /\ win' = [win EXCEPT ![r] = w]
  /\ from' = [from EXCEPT ![r] = version[g]]
  /\ UNCHANGED <<version, items, flight, sample, cancelled, agg, outcome>>

(* The client goes away: the request's context is cancelled. *)
Disconnect(r) ==
  /\ pc[r] \notin {"idle", "done"}
  /\ ~cancelled[r]
  /\ cancelled' = [cancelled EXCEPT ![r] = TRUE]
  /\ UNCHANGED <<version, items, flight, pc, reqVars, sample, agg, outcome>>

(* planGroup finds members: list, filter by window, sample, sign. *)
Plan(r) ==
  /\ pc[r] = "plan"
  /\ Sampled[version[gid[r]]][win[r]] # EmptySample
  /\ sample' = [sample EXCEPT ![r] = Sampled[version[gid[r]]][win[r]]]
  /\ Goto(r, "lookup")
  /\ UNCHANGED <<version, items, flight, reqVars, cancelled, agg, outcome>>

(* planGroup returns an error: the listing failed or no member is left. *)
PlanFails(r) ==
  /\ pc[r] = "plan"
  /\ Answer(r, "failed", None)
  /\ UNCHANGED <<version, items, flight, reqVars, sample, cancelled>>

(* Cache.Get, or the first look of GetOrBuild, under the read lock. *)
Lookup(r) ==
  /\ pc[r] = "lookup"
  /\ \/ Hit(r) /\ Answer(r, "ok", items[gid[r]].agg)
     \/ /\ ~Hit(r)
        /\ Goto(r, IF mode[r] = "getOrBuild" THEN "do" ELSE "build")
        /\ UNCHANGED <<agg, outcome>>
  /\ UNCHANGED <<version, items, flight, reqVars, sample, cancelled>>

(* Mutant of Do: no deduplication, whoever comes leads. *)
DoAlwaysLeads(r) ==
  /\ pc[r] = "do"
  /\ flight' = [flight EXCEPT ![FlightKey(r)] = r]
  /\ Goto(r, "recheck")
  /\ UNCHANGED <<version, items, reqVars, sample, cancelled, agg, outcome>>

(* group.Do: lead a new flight or wait for the one in progress. *)
Do(r) ==
  /\ pc[r] = "do"
  /\ \/ /\ flight[FlightKey(r)] = None
        /\ flight' = [flight EXCEPT ![FlightKey(r)] = r]
        /\ Goto(r, "recheck")
     \/ /\ flight[FlightKey(r)] # None
        /\ Goto(r, "wait")
        /\ UNCHANGED flight
  /\ UNCHANGED <<version, items, reqVars, sample, cancelled, agg, outcome>>

(* Mutant of Recheck: the flight builds without looking again. *)
RecheckSkipped(r) ==
  /\ pc[r] = "recheck"
  /\ Goto(r, "build")
  /\ UNCHANGED <<version, items, flight, reqVars, sample, cancelled, agg, outcome>>

(* The second look, inside the flight. *)
Recheck(r) ==
  /\ pc[r] = "recheck"
  /\ \/ /\ Hit(r)
        /\ Goto(r, "return")
        /\ agg' = [agg EXCEPT ![r] = items[gid[r]].agg]
        /\ outcome' = [outcome EXCEPT ![r] = "ok"]
     \/ ~Hit(r) /\ Goto(r, "build") /\ UNCHANGED <<agg, outcome>>
  /\ UNCHANGED <<version, items, flight, reqVars, sample, cancelled>>

(* buildGroup fetches, parses and merges the members of the plan. *)
BuildSucceeds(r) ==
  /\ pc[r] = "build"
  /\ agg' = [agg EXCEPT ![r] = <<gid[r], sample[r]>>]
  /\ Goto(r, "store")
  /\ UNCHANGED <<version, items, flight, reqVars, sample, cancelled, outcome>>

(***************************************************************************)
(* buildGroup fails: a member cannot be opened or parsed, or the context   *)
(* of the request that runs it is done.  A flight hands the error on;      *)
(* neither way caches it.                                                  *)
(***************************************************************************)
BuildFails(r) ==
  /\ pc[r] = "build"
  /\ \E o \in {"failed", "cancelled"} :
       /\ o = "cancelled" => cancelled[r]
       /\ outcome' = [outcome EXCEPT ![r] = o]
  /\ Goto(r, IF mode[r] = "getOrBuild" THEN "return" ELSE "done")
  /\ UNCHANGED <<version, items, flight, reqVars, sample, cancelled, agg>>

(* The write under the lock: Cache.Put, or the end of a GetOrBuild flight. *)
Store(r) ==
  /\ pc[r] = "store"
  /\ items' = [items EXCEPT ![gid[r]] =
                 [sig |-> Sig[sample[r]], agg |-> agg[r]]]
  /\ Goto(r, IF mode[r] = "getOrBuild" THEN "return" ELSE "done")
  /\ outcome' = [outcome EXCEPT ![r] = "ok"]
  /\ UNCHANGED <<version, flight, reqVars, sample, cancelled, agg>>

(* Those who share the result of the flight r leads. *)
Joined(r) == {r} \cup {q \in Requests : pc[q] = "wait" /\ FlightKey(q) = FlightKey(r)}

(* Mutant of Return: a flight that failed is not forgotten. *)
ReturnKeepsFailedFlight(r) ==
  /\ pc[r] = "return"
  /\ flight' = IF outcome[r] = "ok"
                 THEN [flight EXCEPT ![FlightKey(r)] = None] ELSE flight
  /\ pc' = [q \in Requests |-> IF q \in Joined(r) THEN "done" ELSE pc[q]]
  /\ agg' = [q \in Requests |-> IF q \in Joined(r) THEN agg[r] ELSE agg[q]]
  /\ outcome' = [q \in Requests |-> IF q \in Joined(r) THEN outcome[r] ELSE outcome[q]]
  /\ UNCHANGED <<version, items, reqVars, sample, cancelled>>

(* The flight ends: its key is forgotten, everyone gets the leader's result. *)
Return(r) ==
  /\ pc[r] = "return"
  /\ flight' = [flight EXCEPT ![FlightKey(r)] = None]
  /\ pc' = [q \in Requests |-> IF q \in Joined(r) THEN "done" ELSE pc[q]]
  /\ agg' = [q \in Requests |-> IF q \in Joined(r) THEN agg[r] ELSE agg[q]]
  /\ outcome' = [q \in Requests |-> IF q \in Joined(r) THEN outcome[r] ELSE outcome[q]]
  /\ UNCHANGED <<version, items, reqVars, sample, cancelled>>

(* The handler writes its response; the goroutine and its variables are gone. *)
Reply(r) ==
  /\ pc[r] = "done"
  /\ Goto(r, "idle")
  /\ mode' = [mode EXCEPT ![r] = CHOOSE m \in Modes : TRUE]
  /\ gid' = [gid EXCEPT ![r] = CHOOSE g \in Groups : TRUE]
  /\ win' = [win EXCEPT ![r] = CHOOSE w \in Windows : TRUE]
  /\ sample' = [sample EXCEPT ![r] = EmptySample]
  /\ from' = [from EXCEPT ![r] = 0]
  /\ cancelled' = [cancelled EXCEPT ![r] = FALSE]
  /\ agg' = [agg EXCEPT ![r] = None]
  /\ outcome' = [outcome EXCEPT ![r] = "none"]
  /\ UNCHANGED <<version, items, flight>>

(* What a request's goroutine does once it has been called. *)
Advance(r) ==
  \/ Plan(r) \/ PlanFails(r) \/ Lookup(r) \/ Do(r) \/ Recheck(r)
  \/ BuildSucceeds(r) \/ BuildFails(r) \/ Store(r) \/ Return(r) \/ Reply(r)

Next ==
  \/ \E g \in Groups : AddMembers(g)
  \/ \E r \in Requests :
       \/ \E m \in Modes, g \in Groups, w \in Windows : Arrive(r, m, g, w)
       \/ Disconnect(r)
       \/ Advance(r)

Spec == Init /\ [][Next]_vars

(* The runtime runs every goroutine, and fetches end; clients are free. *)
FairSpec == Spec /\ \A r \in Requests : WF_vars(Advance(r))

-----------------------------------------------------------------------------
(* Type invariant of Cache and its requests. *)
TypeOK ==
  /\ version \in [Groups -> Versions]
  /\ items \in [Groups -> Entries \cup {None}]
  /\ flight \in [Groups \X Sigs -> Requests \cup {None}]
  /\ pc \in [Requests -> ProgramPoints]
  /\ mode \in [Requests -> Modes]
  /\ gid \in [Requests -> Groups]
  /\ win \in [Requests -> Windows]
  /\ sample \in [Requests -> Samples]
  /\ from \in [Requests -> Versions]
  /\ cancelled \in [Requests -> BOOLEAN]
  /\ agg \in [Requests -> Aggregations \cup {None}]
  /\ outcome \in [Requests -> {"none", "ok", "failed", "cancelled"}]

(***************************************************************************)
(* A successful answer aggregates the members its group had, within the    *)
(* window asked for, at some moment between the arrival of the request and *)
(* now: neither the shared entry, nor a joined flight, nor a late store of *)
(* an older aggregation ever hands out members that miss what was listed   *)
(* before the request came.  (cache.go:36-60, 69-106; engine.go:346-386)   *)
(***************************************************************************)
FreshAnswer ==
  \A r \in Requests :
    pc[r] = "done" /\ outcome[r] = "ok" =>
      \E v \in from[r]..version[gid[r]] :
        agg[r] = <<gid[r], Sampled[v][win[r]]>>

(* A request between winning a flight and ending it. *)
Leading(r) ==
  /\ mode[r] = "getOrBuild"
  /\ pc[r] \in {"recheck", "build", "store", "return"}

(***************************************************************************)
(* Concurrent GetOrBuild calls for one group and signature never build at  *)
(* the same time.  (cache.go:69-71 "deduped via singleflight")             *)
(***************************************************************************)
SingleFlight ==
  \A q, r \in Requests :
    q # r /\ Leading(q) /\ Leading(r) => FlightKey(q) # FlightKey(r)

(***************************************************************************)
(* A flight never builds what is already cached: the second look closes    *)
(* the gap between the first look and the flight.  Only buildPlan, which   *)
(* takes no flight, can store the entry while the flight builds it.        *)
(* (cache.go:84-91; engine.go:428-437)                                     *)
(***************************************************************************)
BuildOnlyWhenCold ==
  [][\A r \in Requests :
       mode'[r] = "getOrBuild" /\ pc'[r] = "build" /\ Hit(r)' =>
         \/ pc[r] = "build" /\ Hit(r)
         \/ \E q \in Requests : pc[q] = "store" /\ mode[q] = "buildPlan"]_vars

(***************************************************************************)
(* Every call is answered, whoever leads the flight it joined and whether  *)
(* that leader succeeds, fails or is cancelled.  (cache.go:83-105)         *)
(***************************************************************************)
EveryCallAnswered == \A r \in Requests : pc[r] = "plan" ~> pc[r] = "done"

(***************************************************************************)
(* Whoever waits on a flight waits on one that is being flown: a waiter is *)
(* never left behind by a leader that returned.  (cache.go:83)             *)
(***************************************************************************)
FollowersHaveLeader ==
  \A q \in Requests : pc[q] = "wait" =>
    \E l \in Requests : Leading(l) /\ FlightKey(l) = FlightKey(q)

-----------------------------------------------------------------------------
(***************************************************************************)
(* The inductive invariant behind the safety properties, in named parts.   *)
(***************************************************************************)

(* What a request aggregated is the sample it planned. *)
BuiltAsPlanned ==
  \A r \in Requests :
    pc[r] = "store" \/ (pc[r] = "return" /\ outcome[r] = "ok")
      => agg[r] = <<gid[r], sample[r]>>

(* An entry was aggregated from a sample with the signature it carries. *)
EntriesSound ==
  \A g \in Groups : items[g] # None =>
    \E s \in Samples : items[g] = [sig |-> Sig[s], agg |-> <<g, s>>]

(* What a request plans to aggregate was listed after it arrived. *)
PlansFresh ==
  \A r \in Requests :
    /\ pc[r] = "plan" => from[r] <= version[gid[r]]
    /\ pc[r] \in {"lookup", "do", "wait", "recheck", "build", "store", "return"} =>
         \E v \in from[r]..version[gid[r]] : sample[r] = Sampled[v][win[r]]

(* The flights in progress and the requests that lead them correspond. *)
FlightsMatchLeaders ==
  /\ \A r \in Requests : Leading(r) => flight[FlightKey(r)] = r
  /\ \A q \in Requests : pc[q] = "wait" =>
       /\ flight[FlightKey(q)] \in Requests
       /\ Leading(flight[FlightKey(q)])
       /\ FlightKey(flight[FlightKey(q)]) = FlightKey(q)
  /\ \A k \in Groups \X Sigs : flight[k] # None =>
       Leading(flight[k]) /\ FlightKey(flight[k]) = k

(* Only GetOrBuild reaches the flight code. *)
FlightsAreGetOrBuild ==
  \A r \in Requests :
    pc[r] \in {"do", "wait", "recheck", "return"} => mode[r] = "getOrBuild"

IInv ==
  /\ TypeOK
  /\ BuiltAsPlanned
  /\ EntriesSound
  /\ PlansFresh
  /\ FlightsMatchLeaders
  /\ FlightsAreGetOrBuild
  /\ FreshAnswer

=============================================================================
