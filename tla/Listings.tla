------------------------------- MODULE Listings -------------------------------
(***************************************************************************)
(* What a request reads of the stored profiles: the listings of the bucket *)
(* (internal/store/gcs.go) and of the uploads (upload.go), and the engine  *)
(* operations made of several of them (internal/engine/engine.go): the     *)
(* latest build, a plan, the members of a group, a level of the hierarchy, *)
(* as the MCP tools (cmd/mycelia-mcp/main.go) and the HTTP handlers chain  *)
(* them.  Producers store profiles all the time and the bucket is listed   *)
(* name by name, so a listing need not be what was stored at any one       *)
(* moment; the uploads are listed in one step, under their lock.           *)
(*                                                                         *)
(* Objects are numbered in the order of their names.  The four segments of *)
(* a path (env, service, date, buildTag) are numbers in their order; Empty *)
(* is the empty string, Latest the word "latest".  A request only reads,   *)
(* so requests do not interact and one of them is modelled.                *)
(***************************************************************************)
EXTENDS Integers, Sequences, FiniteSets, FiniteSetsExt

CONSTANTS
  Objects,    \* objects that may get stored, in name order
  Path,       \* Path[o]: <<env, service, date, buildTag>>
  Ts,         \* Ts[o]: timestamp in the name; 0: zero time, as uploads have
  Conforms,   \* Conforms[o]: the name is that of a profile (ParseObjectKey)
  Hash,       \* Hash[o]: hash of the name
  Upload,     \* the env of uploads
  SampleSize, \* the flag: profiles of a group that are merged; 0: all
  Requests,   \* what may be asked: [op, asked, from, to]
  MaxArrivals \* bound: objects stored while the request is served

Empty == 0
Latest == -1
Segment == Nat \cup {Latest}
Id == Segment \X Segment \X Segment \X Segment

ASSUME ListingsAssumption ==
  /\ Objects \subseteq Nat \ {0} /\ IsFiniteSet(Objects)
  /\ Path \in [Objects -> (Nat \ {Empty}) \X (Nat \ {Empty}) \X (Nat \ {Empty}) \X (Nat \ {Empty})]
  /\ Ts \in [Objects -> Nat] /\ Hash \in [Objects -> Nat]
  /\ Conforms \in [Objects -> BOOLEAN]
  /\ Upload \in Nat \ {Empty}
  /\ SampleSize \in Nat /\ MaxArrivals \in Nat
  /\ Requests \subseteq [op : {"view", "group", "browse"},
                          asked : Seq(Id) \ {<<>>}, from : Nat, to : Nat]
  /\ \A r \in Requests : r.op # "view" => Len(r.asked) = 1

VARIABLES
  stored,  \* the objects in the bucket and among the uploads
  ask,     \* the request
  out,     \* "open", or how it ended
  cursor,  \* the listing under way: the last name read
  got,     \* the listing under way: the objects read
  ids,     \* the group ids resolved so far
  plans,   \* the plans made so far
  members, \* the members that handleGroup lists
  segs,    \* the prefixes Browse has found; its groups not yet loaded
  level,   \* Browse: the groups loaded
  since    \* history: what was stored when the request began

vars == <<stored, ask, out, cursor, got, ids, plans, members, segs, level, since>>

(* A request comes; anything may be stored by then. *)
Init ==
  /\ stored \in SUBSET Objects /\ since = stored
  /\ ask \in Requests
  /\ out = "open"
  /\ cursor = 0 /\ got = {} /\ ids = <<>> /\ plans = <<>>
  /\ members = {} /\ segs = {} /\ level = {}

-----------------------------------------------------------------------------
(* joinFilter: the prefix ends at the first empty segment. *)
InPrefix(p, f) ==
  \A i \in 1..4 : (\A j \in 1..i : f[j] # Empty) => p[i] = f[i]

(* The uploads know one env and test each other segment by itself. *)
InUploads(p, f) == p[1] = Upload /\ \A i \in 2..4 : f[i] \in {Empty, p[i]}

(* An object of the bucket that a listing with this filter reads. *)
InBucket(o, f) == Path[o][1] # Upload /\ InPrefix(Path[o], f)

(* The objects of the bucket the listing under way has yet to read. *)
Unread(f) == {o \in stored : InBucket(o, f) /\ o > cursor}

(* sourceFor: the listing is complete, and what it has found. *)
AtEnd(f) == f[1] = Upload \/ Unread(f) = {}
Found(f) == IF f[1] = Upload THEN {o \in stored : InUploads(Path[o], f)} ELSE got

(* ListGroups: the profiles among them make the groups. *)
ProfilesOf(os) == {o \in os : Conforms[o]}
MembersOf(os, id) == {o \in ProfilesOf(os) : Path[o] = id}

(* The order of tuples, first differing field first. *)
Precedes(a, b) ==
  \E i \in DOMAIN a : a[i] < b[i] /\ \A j \in 1..(i - 1) : a[j] = b[j]

NewestTs(os) == Max({Ts[o] : o \in os} \cup {0})

(* Mutant of PickNewest: the builds by name, as if names told their age. *)
PickLastName(os) ==
  LET Key(g) == <<g[3], g[4], -g[1], -g[2]>>
      Groups == {Path[o] : o \in os}
  IN CHOOSE g \in Groups : \A h \in Groups \ {g} : Precedes(Key(h), Key(g))

(***************************************************************************)
(* pickNewestGroup: the greatest newest timestamp, then the later date and *)
(* build; what is still equal keeps the first in the order of sortGroups.  *)
(***************************************************************************)
PickNewest(os) ==
  LET Key(g) == <<NewestTs(MembersOf(os, g)), g[3], g[4], -g[1], -g[2]>>
      Groups == {Path[o] : o \in os}
  IN CHOOSE g \in Groups : \A h \in Groups \ {g} : Precedes(Key(h), Key(g))

InWindow(o, from, to) == (from = 0 \/ Ts[o] >= from) /\ (to = 0 \/ Ts[o] <= to)

(* Mutant of Sample: the ranks depend on how many there are. *)
SampleByTurn(ms, n) ==
  IF n = 0 \/ n >= Cardinality(ms) THEN ms
  ELSE LET Rank(o) == <<(Hash[o] + Cardinality(ms)) % 3, o>>
       IN CHOOSE s \in kSubset(n, ms) :
            \A a \in s : \A b \in ms \ s : Precedes(Rank(a), Rank(b))

(* Sample: the n of smallest hash, then name. *)
Sample(ms, n) ==
  IF n = 0 \/ n >= Cardinality(ms) THEN ms
  ELSE LET Rank(o) == <<Hash[o], o>>
       IN CHOOSE s \in kSubset(n, ms) :
            \A a \in s : \A b \in ms \ s : Precedes(Rank(a), Rank(b))

-----------------------------------------------------------------------------
Resolving == ask.op = "view" /\ Len(ids) < Len(ask.asked)
Planning == ~Resolving /\ ask.op # "browse" /\ Len(plans) < Len(ask.asked)
Listing == ask.op = "group" /\ ~Planning
Browsing == ask.op = "browse" /\ segs = {}
Loading == ask.op = "browse" /\ segs # {}

AskedId == ask.asked[Len(ids) + 1]
PlannedId == IF ask.op = "view" THEN ids[Len(plans) + 1] ELSE ask.asked[1]

(* The level Browse lists: the first segment its filter leaves open. *)
OpenSegment(f) == Min({i \in 1..4 : f[i] = Empty} \cup {5})

NextLoaded == [ask.asked[1] EXCEPT ![4] = Min(segs)]

(* ResolveLatest searches a date only if one is given. *)
LatestScope(id) == <<id[1], id[2], IF id[3] = Latest THEN Empty ELSE id[3], Empty>>

(* The filter of the listing under way. *)
Filter ==
  CASE Resolving -> LatestScope(AskedId)
    [] Planning -> PlannedId
    [] Listing \/ Browsing -> ask.asked[1]
    [] Loading -> NextLoaded

(* Mutant of NewListing: the next listing goes on where this one ended. *)
SameCursor == cursor' = cursor /\ got' = {}

(* The next listing starts over. *)
NewListing == cursor' = 0 /\ got' = {}

(* A producer or an upload adds an object; bounded by MaxArrivals. *)
Store(o) ==
  /\ o \notin stored /\ Cardinality(stored \ since) < MaxArrivals
  /\ stored' = stored \cup {o}
  /\ UNCHANGED <<ask, out, cursor, got, ids, plans, members, segs, level, since>>

(* The iterator hands out the next name of the bucket. *)
ReadName ==
  /\ out = "open" /\ ~(Resolving /\ AskedId[4] # Latest)
  /\ ~AtEnd(Filter)
  /\ cursor' = Min(Unread(Filter))
  /\ got' = got \cup {cursor'}
  /\ UNCHANGED <<stored, ask, out, ids, plans, members, segs, level, since>>

(***************************************************************************)
(* A listing of the bucket fails anywhere: the request ends with the error *)
(* except for the members of handleGroup, which are then left out.         *)
(***************************************************************************)
ListingFails ==
  /\ out = "open" /\ ~(Resolving /\ AskedId[4] # Latest)
  /\ Filter[1] # Upload
  /\ out' = IF Listing THEN "answered without members" ELSE "failed"
  /\ NewListing
  /\ UNCHANGED <<stored, ask, ids, plans, members, segs, level, since>>

(* ResolveLatest for the next group of an MCP tool: a concrete id stays. *)
Resolve ==
  /\ out = "open" /\ Resolving
  /\ \/ /\ AskedId[4] # Latest
        /\ ids' = Append(ids, AskedId)
        /\ UNCHANGED out
     \/ /\ AskedId[4] = Latest /\ AtEnd(Filter)
        /\ LET profiles == ProfilesOf(Found(Filter))
           IN IF profiles = {}
              THEN out' = "no builds" /\ UNCHANGED ids
              ELSE ids' = Append(ids, PickNewest(profiles)) /\ UNCHANGED out
  /\ NewListing
  /\ UNCHANGED <<stored, ask, plans, members, segs, level, since>>

(* Mutant of Plan: what is outside the window is dropped after sampling. *)
PlanCutsSample ==
  /\ out = "open" /\ Planning /\ AtEnd(Filter)
  /\ LET group == MembersOf(Found(Filter), PlannedId)
         among == {o \in Sample(group, SampleSize) : InWindow(o, ask.from, ask.to)}
     IN IF among = {}
        THEN /\ out' = IF group = {} THEN "no profiles" ELSE "not in window"
             /\ UNCHANGED plans
        ELSE /\ plans' = Append(plans, [id |-> PlannedId, among |-> among,
                                        sample |-> among])
             /\ out' = IF ask.op = "view" /\ Len(plans') = Len(ask.asked)
                       THEN "answered" ELSE out
  /\ NewListing
  /\ UNCHANGED <<stored, ask, ids, members, segs, level, since>>

(* planGroup for the next group of a comparison, or for the one asked for. *)
Plan ==
  /\ out = "open" /\ Planning /\ AtEnd(Filter)
  /\ LET group == MembersOf(Found(Filter), PlannedId)
         among == {o \in group : InWindow(o, ask.from, ask.to)}
         sample == Sample(among, SampleSize)
     IN IF among = {}
        THEN /\ out' = IF group = {} THEN "no profiles" ELSE "not in window"
             /\ UNCHANGED plans
        ELSE /\ plans' = Append(plans, [id |-> PlannedId, among |-> among,
                                        sample |-> sample])
             /\ out' = IF ask.op = "view" /\ Len(plans') = Len(ask.asked)
                       THEN "answered" ELSE out
  /\ NewListing
  /\ UNCHANGED <<stored, ask, ids, members, segs, level, since>>

(* Members: handleGroup lists the group again for its answer. *)
ListMembers ==
  /\ out = "open" /\ Listing /\ AtEnd(Filter)
  /\ members' = MembersOf(Found(Filter), ask.asked[1])
  /\ out' = "answered"
  /\ NewListing
  /\ UNCHANGED <<stored, ask, ids, plans, segs, level, since>>

(***************************************************************************)
(* Browse: the segments below the prefix, those of foreign objects too; at *)
(* the level of builds their groups have yet to be loaded.  A complete id, *)
(* and the uploads, answer with groups at once.                            *)
(***************************************************************************)
Browse ==
  /\ out = "open" /\ Browsing /\ AtEnd(Filter)
  /\ LET open == OpenSegment(Filter)
         found == Found(Filter)
         children == {Path[o][open] : o \in found}
         uploads == {Path[o][1] : o \in {o \in stored : Path[o][1] = Upload}}
     IN CASE open = 5 \/ Filter[1] = Upload ->
               /\ level' = {[id |-> g, ms |-> MembersOf(found, g)] :
                              g \in {Path[o] : o \in ProfilesOf(found)}}
               /\ out' = "answered" /\ UNCHANGED segs
          [] open = 4 /\ Filter[1] # Upload ->
               /\ segs' = children /\ UNCHANGED level
               /\ out' = IF children = {} THEN "answered" ELSE out
          [] OTHER ->
               /\ level' = children \cup (IF open = 1 THEN uploads ELSE {})
               /\ out' = "answered" /\ UNCHANGED segs
  /\ NewListing
  /\ UNCHANGED <<stored, ask, ids, plans, members, since>>

(* loadGroup: a prefix without profiles is a group without members. *)
LoadGroup ==
  /\ out = "open" /\ Loading /\ AtEnd(Filter)
  /\ level' = level \cup {[id |-> NextLoaded, ms |-> MembersOf(Found(Filter), NextLoaded)]}
  /\ segs' = segs \ {Min(segs)}
  /\ out' = IF segs' = {} THEN "answered" ELSE out
  /\ NewListing
  /\ UNCHANGED <<stored, ask, ids, plans, members, since>>

Next ==
  \/ \E o \in Objects : Store(o)
  \/ ReadName \/ ListingFails
  \/ Resolve \/ Plan \/ ListMembers \/ Browse \/ LoadGroup

Spec == Init /\ [][Next]_vars

-----------------------------------------------------------------------------
Outcomes == {"open", "answered", "answered without members", "failed",
             "no builds", "no profiles", "not in window"}

(* Type invariant: what is read and answered is of what is stored. *)
TypeOK ==
  /\ since \subseteq stored /\ stored \subseteq Objects
  /\ ask \in Requests /\ out \in Outcomes
  /\ got \subseteq stored /\ cursor = Max(got \cup {0})
  /\ ids \in Seq(Id) /\ Len(ids) <= Len(ask.asked)
  /\ plans \in Seq([id : Id, among : SUBSET Objects, sample : SUBSET Objects])
  /\ Len(plans) <= Len(ask.asked)
  /\ \A i \in DOMAIN plans : plans[i].sample \subseteq plans[i].among
  /\ members \subseteq stored
  /\ IsFiniteSet(segs) /\ segs \subseteq Nat

WantsLatest(i) == ask.op = "view" /\ ask.asked[i][4] = Latest

(* The i-th asked id names a service. *)
NamesService(i) == ask.asked[i][1] # Empty /\ ask.asked[i][2] # Empty

(* The profiles of os in which "latest" of the i-th asked id is looked for. *)
InScope(os, i) ==
  LET id == ask.asked[i]
  IN {o \in ProfilesOf(os) : /\ Path[o][1] = id[1] /\ Path[o][2] = id[2]
                             /\ id[3] \in {Empty, Latest, Path[o][3]}}

(***************************************************************************)
(* "Latest" is never answered with a build that had been superseded when   *)
(* the request came: no build of its service (and date, if one is given)   *)
(* had a newer profile then, or one as new and a later date, however the   *)
(* bucket changed while it was listed and however build tags are named.    *)
(* (engine.go:146-154 "the one with the newest member timestamp wins")     *)
(***************************************************************************)
LatestIsNotOlder ==
  \A i \in DOMAIN ids : WantsLatest(i) /\ NamesService(i) =>
    LET chosen == MembersOf(stored, ids[i])
    IN /\ chosen # {} /\ chosen \subseteq InScope(stored, i)
       /\ \A o \in InScope(since, i) :
            ~Precedes(<<NewestTs(chosen), ids[i][3]>>, <<Ts[o], Path[o][3]>>)

(***************************************************************************)
(* What was stored when a request came is seen by each of its listings,    *)
(* and only a build or a window that was empty then is reported empty; a   *)
(* build that "latest" was resolved to still has profiles when it is       *)
(* planned.  (engine.go:346-386, main.go:337-349)                          *)
(***************************************************************************)
SeesWhatWasStored ==
  LET Wanted(id) == {o \in MembersOf(since, id) : InWindow(o, ask.from, ask.to)}
  IN /\ \A i \in DOMAIN plans : Wanted(plans[i].id) \subseteq plans[i].among
     /\ out = "no builds" => InScope(since, Len(ids) + 1) = {}
     /\ out = "no profiles" => /\ MembersOf(since, PlannedId) = {}
                               /\ ~WantsLatest(Len(plans) + 1)
     /\ out = "not in window" => Wanted(PlannedId) = {}

(***************************************************************************)
(* The sample of a group is stable: of the profiles that two listings of   *)
(* it have in common, one that is in the sample of the longer list is in   *)
(* that of the shorter, so a new profile displaces one at most and brings  *)
(* back none.  And a sample is as large as it may be.                      *)
(* (sample.go:9-12 "stable for a given member set", engine.go:131-133)     *)
(***************************************************************************)
SampleIsStable ==
  /\ \A i, j \in DOMAIN plans :
       plans[i].id = plans[j].id /\ plans[i].among \subseteq plans[j].among
         => plans[j].sample \cap plans[i].among \subseteq plans[i].sample
  /\ \A i \in DOMAIN plans :
       LET total == Cardinality(plans[i].among)
       IN Cardinality(plans[i].sample) =
            IF SampleSize = 0 THEN total ELSE Min({SampleSize, total})

(***************************************************************************)
(* handleGroup lists a group twice, for the aggregation and for its        *)
(* members: if it could list them, the members it answers with include     *)
(* every profile that was merged.  (handlers.go:53-61)                     *)
(***************************************************************************)
ResponseListsWhatItMerged ==
  ask.op = "group" /\ out = "answered" => plans[1].sample \subseteq members

(***************************************************************************)
(* The level of builds shows every build that had profiles when it was     *)
(* asked for, with at least those profiles, and a build without members    *)
(* only where objects are stored that are no profiles.  (gcs.go:90-101,    *)
(* 177-188: each build is listed again after its prefix was seen)          *)
(***************************************************************************)
BrowseShowsEveryBuild ==
  ask.op = "browse" /\ out = "answered" /\ OpenSegment(ask.asked[1]) = 4 =>
    LET day == {o \in since : Path[o][1] = ask.asked[1][1] /\ InPrefix(Path[o], ask.asked[1])}
    IN /\ \A o \in ProfilesOf(day) : \E g \in level : g.id = Path[o] /\ o \in g.ms
       /\ \A g \in level : g.ms = {} =>
            \E o \in stored : Path[o] = g.id /\ ~Conforms[o]

-----------------------------------------------------------------------------
(* The listing under way will have read o: it has, or o is still ahead. *)
Seen(o) == Path[o][1] = Upload \/ o > cursor \/ o \in got

(* What a request of one kind leaves alone. *)
StateFits ==
  /\ ask.op # "view" => ids = <<>>
  /\ ask.op = "view" /\ plans # <<>> => Len(ids) = Len(ask.asked)
  /\ ask.op = "view" /\ out = "open" => Len(plans) < Len(ask.asked)
  /\ ask.op = "view" /\ out = "no builds" => Len(ids) < Len(ask.asked)
  /\ out \in {"no profiles", "not in window"} =>
       /\ Len(plans) < Len(ask.asked) /\ ask.op # "browse"
       /\ ask.op = "view" => Len(ids) = Len(ask.asked)
  /\ ask.op = "browse" => plans = <<>>
  /\ ask.op = "browse" /\ out = "open" /\ segs = {} => level = {}
  /\ ask.op = "group" /\ out = "answered" => Len(plans) = 1

(* The listing under way has read what it passed of the first state. *)
ListingKeepsUp ==
  out = "open" =>
    /\ \A o \in got : InBucket(o, Filter) /\ o <= cursor
    /\ \A o \in since : InBucket(o, Filter) /\ o <= cursor => o \in got

(* A build that "latest" was resolved to is there for its plan to find. *)
LatestIsThere ==
  \A i \in DOMAIN ids : WantsLatest(i) /\ i > Len(plans) =>
    \E o \in MembersOf(stored, ids[i]) :
      out = "open" /\ Planning /\ i = Len(plans) + 1 => Seen(o)

(* A plan's profiles are of its group, and its sample is theirs. *)
PlansSound ==
  \A i \in DOMAIN plans :
    /\ plans[i].among \subseteq MembersOf(stored, plans[i].id)
    /\ plans[i].sample = Sample(plans[i].among, SampleSize)

(* What was merged is there for the listing of the members to find. *)
MergedIsThere ==
  ask.op = "group" /\ plans # <<>> =>
    /\ plans[1].id = ask.asked[1]
    /\ out = "open" => \A o \in plans[1].sample : Seen(o)

(* While builds are loaded: each that had profiles is loaded or to come, *)
(* and a prefix to come has an object that loading it will find.         *)
BuildsToCome ==
  ask.op = "browse" /\ out = "open" /\ segs # {} =>
    LET f == ask.asked[1]
    IN /\ f[1] # Upload /\ OpenSegment(f) = 4
       /\ \A o \in ProfilesOf(since) : InBucket(o, f) =>
            Path[o][4] \in segs \/ \E g \in level : g.id = Path[o] /\ o \in g.ms
       /\ \A s \in segs : \E o \in stored :
            Path[o] = [f EXCEPT ![4] = s] /\ (s = Min(segs) => Seen(o))
       /\ \A g \in level : g.ms = {} => \E o \in stored : Path[o] = g.id /\ ~Conforms[o]

(* The inductive invariant. *)
IInv ==
  /\ TypeOK /\ StateFits /\ ListingKeepsUp
  /\ LatestIsThere /\ LatestIsNotOlder
  /\ PlansSound /\ SeesWhatWasStored
  /\ MergedIsThere /\ ResponseListsWhatItMerged
  /\ BuildsToCome /\ BrowseShowsEveryBuild
=============================================================================
