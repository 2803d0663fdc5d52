--------------------------- MODULE GroupCache_proofs ---------------------------
(***************************************************************************)
(* Proofs about GroupCache, for all sets of requests, groups, windows and  *)
(* samples and any number of membership changes.  IInv (in GroupCache) is  *)
(* inductive; one lemma per group of its conjuncts has a step per action.  *)
(***************************************************************************)
EXTENDS GroupCache, TLAPS

USE DEF Versions, ProgramPoints, Aggregations, Entries

(* An entry that answers a lookup aggregates the sample that was planned. *)
LEMMA HitIsPlanned ==
  ASSUME TypeOK, EntriesSound, NEW r \in Requests, Hit(r)
  PROVE  items[gid[r]].agg = <<gid[r], sample[r]>>
<1>1. gid[r] \in Groups /\ items[gid[r]] # None
  BY DEF TypeOK, Hit
<1>2. PICK s \in Samples : items[gid[r]] = [sig |-> Sig[s], agg |-> <<gid[r], s>>]
  BY <1>1 DEF EntriesSound
<1>3. s = sample[r]
  BY <1>2, SignatureFaithful DEF TypeOK, Hit
<1>4. QED
  BY <1>2, <1>3

(* The types are kept; an entry is only stored once it was built. *)
LEMMA TypeStep ==
  ASSUME TypeOK, BuiltAsPlanned, [Next]_vars
  PROVE  TypeOK'
<1> USE SampledAssumption DEF TypeOK, reqVars, Goto
<1>1. ASSUME NEW g \in Groups, AddMembers(g)
      PROVE  TypeOK'
  BY <1>1 DEF AddMembers
<1>2. ASSUME NEW r \in Requests, NEW m \in Modes, NEW g \in Groups,
               NEW w \in Windows, Arrive(r, m, g, w)
      PROVE  TypeOK'
  BY <1>2 DEF Arrive
<1>3. ASSUME NEW r \in Requests, Disconnect(r)
      PROVE  TypeOK'
  BY <1>3 DEF Disconnect
<1>4. ASSUME NEW r \in Requests, Plan(r)
      PROVE  TypeOK'
  BY <1>4 DEF Plan
<1>5. ASSUME NEW r \in Requests, PlanFails(r)
      PROVE  TypeOK'
  BY <1>5 DEF PlanFails, Answer
<1>6. ASSUME NEW r \in Requests, Lookup(r)
      PROVE  TypeOK'
  BY <1>6 DEF Lookup, Answer, Hit
<1>7. ASSUME NEW r \in Requests, Do(r)
      PROVE  TypeOK'
  BY <1>7 DEF Do, FlightKey
<1>8. ASSUME NEW r \in Requests, Recheck(r)
      PROVE  TypeOK'
  BY <1>8 DEF Recheck, Hit
<1>9. ASSUME NEW r \in Requests, BuildSucceeds(r)
      PROVE  TypeOK'
  BY <1>9 DEF BuildSucceeds
<1>10. ASSUME NEW r \in Requests, BuildFails(r)
      PROVE  TypeOK'
  BY <1>10 DEF BuildFails
<1>11. ASSUME NEW r \in Requests, Store(r)
      PROVE  TypeOK'
  <2>1. [sig |-> Sig[sample[r]], agg |-> agg[r]] \in Entries
    <3>1. Sig[sample[r]] \in Sigs
      OBVIOUS
    <3>2. agg[r] = <<gid[r], sample[r]>>
      BY <1>11 DEF Store, BuiltAsPlanned
    <3>3. QED
      BY <3>1, <3>2
  <2>2. QED
    BY <1>11, <2>1 DEF Store
<1>12. ASSUME NEW r \in Requests, Return(r)
      PROVE  TypeOK'
  BY <1>12 DEF Return, Joined, FlightKey
<1>13. ASSUME NEW r \in Requests, Reply(r)
      PROVE  TypeOK'
  BY <1>13, NonEmptyAssumption DEF Reply
<1>14. CASE UNCHANGED vars
  BY <1>14 DEF vars, reqVars
<1>15. QED
  BY <1>1, <1>2, <1>3, <1>4, <1>5, <1>6, <1>7, <1>8, <1>9, <1>10, <1>11,
     <1>12, <1>13, <1>14 DEF Next, Advance

(* What is built, and what is returned, is the sample that was planned. *)
LEMMA BuiltStep ==
  ASSUME TypeOK, BuiltAsPlanned, EntriesSound, [Next]_vars
  PROVE  BuiltAsPlanned'
<1> USE DEF TypeOK, BuiltAsPlanned, reqVars, Goto
<1>1. ASSUME NEW g \in Groups, AddMembers(g)
      PROVE  BuiltAsPlanned'
  BY <1>1 DEF AddMembers
<1>2. ASSUME NEW r \in Requests, NEW m \in Modes, NEW g \in Groups,
               NEW w \in Windows, Arrive(r, m, g, w)
      PROVE  BuiltAsPlanned'
  BY <1>2 DEF Arrive
<1>3. ASSUME NEW r \in Requests, Disconnect(r)
      PROVE  BuiltAsPlanned'
  BY <1>3 DEF Disconnect
<1>4. ASSUME NEW r \in Requests, Plan(r)
      PROVE  BuiltAsPlanned'
  BY <1>4 DEF Plan
<1>5. ASSUME NEW r \in Requests, PlanFails(r)
      PROVE  BuiltAsPlanned'
  BY <1>5 DEF PlanFails, Answer
<1>6. ASSUME NEW r \in Requests, Lookup(r)
      PROVE  BuiltAsPlanned'
  BY <1>6 DEF Lookup, Answer
<1>7. ASSUME NEW r \in Requests, Do(r)
      PROVE  BuiltAsPlanned'
  BY <1>7 DEF Do
<1>8. ASSUME NEW r \in Requests, Recheck(r)
      PROVE  BuiltAsPlanned'
  BY <1>8, HitIsPlanned DEF Recheck
<1>9. ASSUME NEW r \in Requests, BuildSucceeds(r)
      PROVE  BuiltAsPlanned'
  BY <1>9 DEF BuildSucceeds
<1>10. ASSUME NEW r \in Requests, BuildFails(r)
      PROVE  BuiltAsPlanned'
  BY <1>10 DEF BuildFails
<1>11. ASSUME NEW r \in Requests, Store(r)
      PROVE  BuiltAsPlanned'
  BY <1>11 DEF Store
<1>12. ASSUME NEW r \in Requests, Return(r)
      PROVE  BuiltAsPlanned'
  BY <1>12 DEF Return, Joined
<1>13. ASSUME NEW r \in Requests, Reply(r)
      PROVE  BuiltAsPlanned'
  BY <1>13 DEF Reply
<1>14. CASE UNCHANGED vars
  BY <1>14 DEF vars, reqVars
<1>15. QED
  BY <1>1, <1>2, <1>3, <1>4, <1>5, <1>6, <1>7, <1>8, <1>9, <1>10, <1>11,
     <1>12, <1>13, <1>14 DEF Next, Advance

(* Only Store writes an entry, and what it writes was built as planned. *)
LEMMA EntriesStep ==
  ASSUME TypeOK, BuiltAsPlanned, EntriesSound, [Next]_vars
  PROVE  EntriesSound'
<1> USE DEF TypeOK, EntriesSound, reqVars
<1>1. ASSUME NEW g \in Groups, AddMembers(g)
      PROVE  EntriesSound'
  BY <1>1 DEF AddMembers
<1>2. ASSUME NEW r \in Requests, NEW m \in Modes, NEW g \in Groups,
               NEW w \in Windows, Arrive(r, m, g, w)
      PROVE  EntriesSound'
  BY <1>2 DEF Arrive
<1>3. ASSUME NEW r \in Requests, Disconnect(r)
      PROVE  EntriesSound'
  BY <1>3 DEF Disconnect
<1>4. ASSUME NEW r \in Requests, Plan(r)
      PROVE  EntriesSound'
  BY <1>4 DEF Plan
<1>5. ASSUME NEW r \in Requests, PlanFails(r)
      PROVE  EntriesSound'
  BY <1>5 DEF PlanFails, Answer
<1>6. ASSUME NEW r \in Requests, Lookup(r)
      PROVE  EntriesSound'
  BY <1>6 DEF Lookup, Answer
<1>7. ASSUME NEW r \in Requests, Do(r)
      PROVE  EntriesSound'
  BY <1>7 DEF Do
<1>8. ASSUME NEW r \in Requests, Recheck(r)
      PROVE  EntriesSound'
  BY <1>8 DEF Recheck
<1>9. ASSUME NEW r \in Requests, BuildSucceeds(r)
      PROVE  EntriesSound'
  BY <1>9 DEF BuildSucceeds
<1>10. ASSUME NEW r \in Requests, BuildFails(r)
      PROVE  EntriesSound'
  BY <1>10 DEF BuildFails
<1>11. ASSUME NEW r \in Requests, Store(r)
      PROVE  EntriesSound'
  <2>1. agg[r] = <<gid[r], sample[r]>> /\ sample[r] \in Samples /\ gid[r] \in Groups
    BY <1>11 DEF Store, BuiltAsPlanned
  <2>2. items' = [items EXCEPT ![gid[r]] =
                    [sig |-> Sig[sample[r]], agg |-> <<gid[r], sample[r]>>]]
    BY <1>11, <2>1 DEF Store
  <2>3. ASSUME NEW g \in Groups, items'[g] # None
        PROVE  \E s \in Samples : items'[g] = [sig |-> Sig[s], agg |-> <<g, s>>]
    <3>1. CASE g = gid[r]
      BY <2>1, <2>2, <3>1
    <3>2. CASE g # gid[r]
      BY <2>2, <2>3, <3>2
    <3>3. QED
      BY <3>1, <3>2
  <2>4. QED
    BY <2>3
<1>12. ASSUME NEW r \in Requests, Return(r)
      PROVE  EntriesSound'
  BY <1>12 DEF Return, Joined
<1>13. ASSUME NEW r \in Requests, Reply(r)
      PROVE  EntriesSound'
  BY <1>13 DEF Reply
<1>14. CASE UNCHANGED vars
  BY <1>14 DEF vars, reqVars
<1>15. QED
  BY <1>1, <1>2, <1>3, <1>4, <1>5, <1>6, <1>7, <1>8, <1>9, <1>10, <1>11,
     <1>12, <1>13, <1>14 DEF Next, Advance

(***************************************************************************)
(* A step that leaves the map of flights alone, by which nobody starts or  *)
(* stops leading or starts to wait, and which keeps the keys of those who  *)
(* lead or wait, keeps flights and leaders in correspondence.              *)
(***************************************************************************)
LEMMA FlightFrame ==
  ASSUME TypeOK, FlightsMatchLeaders, flight' = flight,
         \A q \in Requests :
           /\ Leading(q)' <=> Leading(q)
           /\ Leading(q) \/ pc'[q] = "wait" => FlightKey(q)' = FlightKey(q)
           /\ pc'[q] = "wait" => pc[q] = "wait"
  PROVE  FlightsMatchLeaders'
<1>1. \A q \in Requests : Leading(q)' => flight[FlightKey(q)]' = q
  BY DEF FlightsMatchLeaders
<1>2. ASSUME NEW q \in Requests, pc'[q] = "wait"
      PROVE  /\ flight[FlightKey(q)]' \in Requests
             /\ Leading(flight[FlightKey(q)])'
             /\ FlightKey(flight[FlightKey(q)])' = FlightKey(q)'
  <2>1. pc[q] = "wait" /\ FlightKey(q)' = FlightKey(q)
    BY <1>2
  <2>2. PICK l \in Requests : /\ l = flight[FlightKey(q)] /\ Leading(l)
                               /\ FlightKey(l) = FlightKey(q)
    BY <2>1 DEF FlightsMatchLeaders
  <2>3. QED
    BY <2>1, <2>2
<1>3. ASSUME NEW k \in Groups \X Sigs, flight'[k] # None
      PROVE  Leading(flight[k])' /\ FlightKey(flight[k])' = k
  <2>1. PICK l \in Requests : l = flight[k] /\ Leading(l) /\ FlightKey(l) = k
    BY <1>3 DEF FlightsMatchLeaders, TypeOK
  <2>2. QED
    BY <2>1
<1>4. QED
  BY <1>1, <1>2, <1>3 DEF FlightsMatchLeaders

(* A flight is entered in the map by the one who leads it, and left by it. *)
LEMMA FlightStep ==
  ASSUME TypeOK, FlightsMatchLeaders, FlightsAreGetOrBuild, [Next]_vars
  PROVE  (FlightsMatchLeaders /\ FlightsAreGetOrBuild)'
<1> USE DEF TypeOK
<1>1. ASSUME NEW g \in Groups, AddMembers(g)
      PROVE  (FlightsMatchLeaders /\ FlightsAreGetOrBuild)'
  BY <1>1 DEF AddMembers, FlightsMatchLeaders, FlightsAreGetOrBuild, FlightKey, Leading, reqVars, Goto
<1>2. ASSUME NEW r \in Requests, NEW m \in Modes, NEW g \in Groups,
               NEW w \in Windows, Arrive(r, m, g, w)
      PROVE  (FlightsMatchLeaders /\ FlightsAreGetOrBuild)'
  <2>1. flight' = flight
    BY <1>2 DEF Arrive
  <2>2. ASSUME NEW q \in Requests
        PROVE  /\ Leading(q)' <=> Leading(q)
               /\ Leading(q) \/ pc'[q] = "wait" => FlightKey(q)' = FlightKey(q)
               /\ pc'[q] = "wait" => pc[q] = "wait"
    <3>1. CASE q = r
      BY <1>2, <3>1 DEF Arrive,
         TypeOK, FlightsAreGetOrBuild, FlightKey, Leading, Goto, reqVars
    <3>2. CASE q # r
      BY <1>2, <3>2 DEF Arrive,
         TypeOK, FlightsAreGetOrBuild, FlightKey, Leading, Goto, reqVars
    <3>3. QED
      BY <3>1, <3>2
  <2>3. FlightsAreGetOrBuild'
    BY <1>2 DEF Arrive,
         TypeOK, FlightsAreGetOrBuild, FlightKey, Leading, Goto, reqVars
  <2>4. QED
    BY <2>1, <2>2, <2>3, FlightFrame
<1>3. ASSUME NEW r \in Requests, Disconnect(r)
      PROVE  (FlightsMatchLeaders /\ FlightsAreGetOrBuild)'
  BY <1>3 DEF Disconnect, FlightsMatchLeaders, FlightsAreGetOrBuild, FlightKey, Leading, reqVars, Goto
<1>4. ASSUME NEW r \in Requests, Plan(r)
      PROVE  (FlightsMatchLeaders /\ FlightsAreGetOrBuild)'
  <2>1. flight' = flight
    BY <1>4 DEF Plan
  <2>2. ASSUME NEW q \in Requests
        PROVE  /\ Leading(q)' <=> Leading(q)
               /\ Leading(q) \/ pc'[q] = "wait" => FlightKey(q)' = FlightKey(q)
               /\ pc'[q] = "wait" => pc[q] = "wait"
    <3>1. CASE q = r
      BY <1>4, <3>1 DEF Plan,
         TypeOK, FlightsAreGetOrBuild, FlightKey, Leading, Goto, reqVars
    <3>2. CASE q # r
      BY <1>4, <3>2 DEF Plan,
         TypeOK, FlightsAreGetOrBuild, FlightKey, Leading, Goto, reqVars
    <3>3. QED
      BY <3>1, <3>2
  <2>3. FlightsAreGetOrBuild'
    BY <1>4 DEF Plan,
         TypeOK, FlightsAreGetOrBuild, FlightKey, Leading, Goto, reqVars
  <2>4. QED
    BY <2>1, <2>2, <2>3, FlightFrame
<1>5. ASSUME NEW r \in Requests, PlanFails(r)
      PROVE  (FlightsMatchLeaders /\ FlightsAreGetOrBuild)'
  <2>1. flight' = flight
    BY <1>5 DEF PlanFails
  <2>2. ASSUME NEW q \in Requests
        PROVE  /\ Leading(q)' <=> Leading(q)
               /\ Leading(q) \/ pc'[q] = "wait" => FlightKey(q)' = FlightKey(q)
               /\ pc'[q] = "wait" => pc[q] = "wait"
    <3>1. CASE q = r
      BY <1>5, <3>1 DEF PlanFails, Answer,
         TypeOK, FlightsAreGetOrBuild, FlightKey, Leading, Goto, reqVars
    <3>2. CASE q # r
      BY <1>5, <3>2 DEF PlanFails, Answer,
         TypeOK, FlightsAreGetOrBuild, FlightKey, Leading, Goto, reqVars
    <3>3. QED
      BY <3>1, <3>2
  <2>3. FlightsAreGetOrBuild'
    BY <1>5 DEF PlanFails, Answer,
         TypeOK, FlightsAreGetOrBuild, FlightKey, Leading, Goto, reqVars
  <2>4. QED
    BY <2>1, <2>2, <2>3, FlightFrame
<1>6. ASSUME NEW r \in Requests, Lookup(r)
      PROVE  (FlightsMatchLeaders /\ FlightsAreGetOrBuild)'
  <2>1. flight' = flight
    BY <1>6 DEF Lookup
  <2>2. ASSUME NEW q \in Requests
        PROVE  /\ Leading(q)' <=> Leading(q)
               /\ Leading(q) \/ pc'[q] = "wait" => FlightKey(q)' = FlightKey(q)
               /\ pc'[q] = "wait" => pc[q] = "wait"
    <3>1. CASE q = r
      BY <1>6, <3>1 DEF Lookup, Answer,
         TypeOK, FlightsAreGetOrBuild, FlightKey, Leading, Goto, reqVars
    <3>2. CASE q # r
      BY <1>6, <3>2 DEF Lookup, Answer,
         TypeOK, FlightsAreGetOrBuild, FlightKey, Leading, Goto, reqVars
    <3>3. QED
      BY <3>1, <3>2
  <2>3. FlightsAreGetOrBuild'
    BY <1>6 DEF Lookup, Answer,
         TypeOK, FlightsAreGetOrBuild, FlightKey, Leading, Goto, reqVars
  <2>4. QED
    BY <2>1, <2>2, <2>3, FlightFrame
<1>7. ASSUME NEW r \in Requests, Do(r)
      PROVE  (FlightsMatchLeaders /\ FlightsAreGetOrBuild)'
  <2>1. FlightsAreGetOrBuild' /\ mode[r] = "getOrBuild"
    BY <1>7 DEF Do, TypeOK, FlightsAreGetOrBuild, Goto, reqVars
  <2>2. /\ \A q \in Requests : FlightKey(q)' = FlightKey(q)
        /\ \A q \in Requests \ {r} : /\ Leading(q)' <=> Leading(q)
                                     /\ pc'[q] = pc[q]
        /\ ~Leading(r)
        /\ FlightKey(r) \in Groups \X Sigs
    BY <1>7, SampledAssumption DEF Do, TypeOK, FlightKey, Leading, Goto, reqVars
  <2>3. CASE flight[FlightKey(r)] = None
    <3>1. /\ flight' = [flight EXCEPT ![FlightKey(r)] = r]
          /\ Leading(r)' /\ pc'[r] = "recheck"
      BY <1>7, <2>1, <2>3 DEF Do, TypeOK, Leading, Goto, reqVars
    <3>2. QED
      BY <2>1, <2>2, <2>3, <3>1, NoneAssumption DEF FlightsMatchLeaders, TypeOK
  <2>4. CASE flight[FlightKey(r)] # None
    <3>1. flight' = flight /\ ~Leading(r)' /\ pc'[r] = "wait"
      BY <1>7, <2>4 DEF Do, TypeOK, Leading, Goto, reqVars
    <3>2. QED
      BY <2>1, <2>2, <2>4, <3>1 DEF FlightsMatchLeaders, TypeOK
  <2>5. QED
    BY <2>3, <2>4
<1>8. ASSUME NEW r \in Requests, Recheck(r)
      PROVE  (FlightsMatchLeaders /\ FlightsAreGetOrBuild)'
  <2>1. flight' = flight
    BY <1>8 DEF Recheck
  <2>2. ASSUME NEW q \in Requests
        PROVE  /\ Leading(q)' <=> Leading(q)
               /\ Leading(q) \/ pc'[q] = "wait" => FlightKey(q)' = FlightKey(q)
               /\ pc'[q] = "wait" => pc[q] = "wait"
    <3>1. CASE q = r
      BY <1>8, <3>1 DEF Recheck,
         TypeOK, FlightsAreGetOrBuild, FlightKey, Leading, Goto, reqVars
    <3>2. CASE q # r
      BY <1>8, <3>2 DEF Recheck,
         TypeOK, FlightsAreGetOrBuild, FlightKey, Leading, Goto, reqVars
    <3>3. QED
      BY <3>1, <3>2
  <2>3. FlightsAreGetOrBuild'
    BY <1>8 DEF Recheck,
         TypeOK, FlightsAreGetOrBuild, FlightKey, Leading, Goto, reqVars
  <2>4. QED
    BY <2>1, <2>2, <2>3, FlightFrame
<1>9. ASSUME NEW r \in Requests, BuildSucceeds(r)
      PROVE  (FlightsMatchLeaders /\ FlightsAreGetOrBuild)'
  BY <1>9 DEF BuildSucceeds, FlightsMatchLeaders, FlightsAreGetOrBuild, FlightKey, Leading, reqVars, Goto
<1>10. ASSUME NEW r \in Requests, BuildFails(r)
      PROVE  (FlightsMatchLeaders /\ FlightsAreGetOrBuild)'
  BY <1>10 DEF BuildFails, FlightsMatchLeaders, FlightsAreGetOrBuild, FlightKey, Leading, reqVars, Goto
<1>11. ASSUME NEW r \in Requests, Store(r)
      PROVE  (FlightsMatchLeaders /\ FlightsAreGetOrBuild)'
  BY <1>11 DEF Store, FlightsMatchLeaders, FlightsAreGetOrBuild, FlightKey, Leading, reqVars, Goto
<1>12. ASSUME NEW r \in Requests, Return(r)
      PROVE  (FlightsMatchLeaders /\ FlightsAreGetOrBuild)'
  BY <1>12, NoneAssumption, SampledAssumption DEF Return, Joined, FlightsMatchLeaders, FlightsAreGetOrBuild, FlightKey, Leading, reqVars, Goto
<1>13. ASSUME NEW r \in Requests, Reply(r)
      PROVE  (FlightsMatchLeaders /\ FlightsAreGetOrBuild)'
  <2>1. flight' = flight
    BY <1>13 DEF Reply
  <2>2. ASSUME NEW q \in Requests
        PROVE  /\ Leading(q)' <=> Leading(q)
               /\ Leading(q) \/ pc'[q] = "wait" => FlightKey(q)' = FlightKey(q)
               /\ pc'[q] = "wait" => pc[q] = "wait"
    <3>1. CASE q = r
      BY <1>13, <3>1 DEF Reply,
         TypeOK, FlightsAreGetOrBuild, FlightKey, Leading, Goto, reqVars
    <3>2. CASE q # r
      BY <1>13, <3>2 DEF Reply,
         TypeOK, FlightsAreGetOrBuild, FlightKey, Leading, Goto, reqVars
    <3>3. QED
      BY <3>1, <3>2
  <2>3. FlightsAreGetOrBuild'
    BY <1>13 DEF Reply,
         TypeOK, FlightsAreGetOrBuild, FlightKey, Leading, Goto, reqVars
  <2>4. QED
    BY <2>1, <2>2, <2>3, FlightFrame
<1>14. CASE UNCHANGED vars
  BY <1>14 DEF vars, reqVars, FlightsMatchLeaders, FlightsAreGetOrBuild, FlightKey, Leading
<1>15. QED
  BY <1>1, <1>2, <1>3, <1>4, <1>5, <1>6, <1>7, <1>8, <1>9, <1>10, <1>11,
     <1>12, <1>13, <1>14 DEF Next, Advance

(* A plan is listed after the request arrived, and members only get added. *)
LEMMA PlanStep ==
  ASSUME TypeOK, PlansFresh, [Next]_vars
  PROVE  PlansFresh'
<1> USE SampledAssumption DEF TypeOK, PlansFresh, reqVars, Goto
<1>1. ASSUME NEW g \in Groups, AddMembers(g)
      PROVE  PlansFresh'
  BY <1>1 DEF AddMembers
<1>2. ASSUME NEW r \in Requests, NEW m \in Modes, NEW g \in Groups,
               NEW w \in Windows, Arrive(r, m, g, w)
      PROVE  PlansFresh'
  BY <1>2 DEF Arrive
<1>3. ASSUME NEW r \in Requests, Disconnect(r)
      PROVE  PlansFresh'
  BY <1>3 DEF Disconnect
<1>4. ASSUME NEW r \in Requests, Plan(r)
      PROVE  PlansFresh'
  BY <1>4 DEF Plan
<1>5. ASSUME NEW r \in Requests, PlanFails(r)
      PROVE  PlansFresh'
  BY <1>5 DEF PlanFails, Answer
<1>6. ASSUME NEW r \in Requests, Lookup(r)
      PROVE  PlansFresh'
  BY <1>6 DEF Lookup, Answer
<1>7. ASSUME NEW r \in Requests, Do(r)
      PROVE  PlansFresh'
  BY <1>7 DEF Do
<1>8. ASSUME NEW r \in Requests, Recheck(r)
      PROVE  PlansFresh'
  BY <1>8 DEF Recheck
<1>9. ASSUME NEW r \in Requests, BuildSucceeds(r)
      PROVE  PlansFresh'
  BY <1>9 DEF BuildSucceeds
<1>10. ASSUME NEW r \in Requests, BuildFails(r)
      PROVE  PlansFresh'
  BY <1>10 DEF BuildFails
<1>11. ASSUME NEW r \in Requests, Store(r)
      PROVE  PlansFresh'
  BY <1>11 DEF Store
<1>12. ASSUME NEW r \in Requests, Return(r)
      PROVE  PlansFresh'
  BY <1>12 DEF Return, Joined
<1>13. ASSUME NEW r \in Requests, Reply(r)
      PROVE  PlansFresh'
  BY <1>13 DEF Reply
<1>14. CASE UNCHANGED vars
  BY <1>14 DEF vars, reqVars
<1>15. QED
  BY <1>1, <1>2, <1>3, <1>4, <1>5, <1>6, <1>7, <1>8, <1>9, <1>10, <1>11,
     <1>12, <1>13, <1>14 DEF Next, Advance

(* An answer is fresh because the sample it aggregates was planned so. *)
LEMMA AnswerStep ==
  ASSUME TypeOK, BuiltAsPlanned, EntriesSound, PlansFresh, FreshAnswer, [Next]_vars
  PROVE  FreshAnswer'
<1> USE DEF TypeOK
<1>1. ASSUME NEW g \in Groups, AddMembers(g)
      PROVE  FreshAnswer'
  <2>1. \A q \in Requests : pc'[q] = "done" /\ outcome'[q] = "ok" =>
          /\ pc[q] = "done" /\ outcome[q] = "ok"
          /\ UNCHANGED <<from[q], gid[q], win[q], agg[q]>>
          /\ version'[gid[q]] \in Nat /\ version[gid[q]] <= version'[gid[q]]
    BY <1>1 DEF AddMembers, Goto, reqVars
  <2>2. QED
    BY <2>1 DEF FreshAnswer
<1>2. ASSUME NEW r \in Requests, NEW m \in Modes, NEW g \in Groups,
               NEW w \in Windows, Arrive(r, m, g, w)
      PROVE  FreshAnswer'
  <2>1. \A q \in Requests : pc'[q] = "done" /\ outcome'[q] = "ok" =>
          /\ pc[q] = "done" /\ outcome[q] = "ok"
          /\ UNCHANGED <<from[q], gid[q], win[q], agg[q]>>
          /\ version'[gid[q]] \in Nat /\ version[gid[q]] <= version'[gid[q]]
    BY <1>2 DEF Arrive, Goto, reqVars
  <2>2. QED
    BY <2>1 DEF FreshAnswer
<1>3. ASSUME NEW r \in Requests, Disconnect(r)
      PROVE  FreshAnswer'
  <2>1. \A q \in Requests : pc'[q] = "done" /\ outcome'[q] = "ok" =>
          /\ pc[q] = "done" /\ outcome[q] = "ok"
          /\ UNCHANGED <<from[q], gid[q], win[q], agg[q]>>
          /\ version'[gid[q]] \in Nat /\ version[gid[q]] <= version'[gid[q]]
    BY <1>3 DEF Disconnect, Goto, reqVars
  <2>2. QED
    BY <2>1 DEF FreshAnswer
<1>4. ASSUME NEW r \in Requests, Plan(r)
      PROVE  FreshAnswer'
  <2>1. \A q \in Requests : pc'[q] = "done" /\ outcome'[q] = "ok" =>
          /\ pc[q] = "done" /\ outcome[q] = "ok"
          /\ UNCHANGED <<from[q], gid[q], win[q], agg[q]>>
          /\ version'[gid[q]] \in Nat /\ version[gid[q]] <= version'[gid[q]]
    BY <1>4 DEF Plan, Goto, reqVars
  <2>2. QED
    BY <2>1 DEF FreshAnswer
<1>5. ASSUME NEW r \in Requests, PlanFails(r)
      PROVE  FreshAnswer'
  <2>1. \A q \in Requests : pc'[q] = "done" /\ outcome'[q] = "ok" =>
          /\ pc[q] = "done" /\ outcome[q] = "ok"
          /\ UNCHANGED <<from[q], gid[q], win[q], agg[q]>>
          /\ version'[gid[q]] \in Nat /\ version[gid[q]] <= version'[gid[q]]
    BY <1>5 DEF PlanFails, Answer, Goto, reqVars
  <2>2. QED
    BY <2>1 DEF FreshAnswer
<1>6. ASSUME NEW r \in Requests, Lookup(r)
      PROVE  FreshAnswer'
  <2>1. \A q \in Requests : pc'[q] = "done" /\ outcome'[q] = "ok" =>
          \/ pc[q] = "done" /\ outcome[q] = "ok" /\ agg'[q] = agg[q]
          \/ /\ pc[q] \in {"lookup", "wait", "store", "return"}
             /\ agg'[q] = <<gid[q], sample[q]>>
    BY <1>6, HitIsPlanned DEF Lookup, Answer, Goto
  <2>2. UNCHANGED <<from, gid, win, version>>
    BY <1>6 DEF Lookup, reqVars
  <2>3. QED
    BY <2>1, <2>2 DEF FreshAnswer, PlansFresh
<1>7. ASSUME NEW r \in Requests, Do(r)
      PROVE  FreshAnswer'
  <2>1. \A q \in Requests : pc'[q] = "done" /\ outcome'[q] = "ok" =>
          /\ pc[q] = "done" /\ outcome[q] = "ok"
          /\ UNCHANGED <<from[q], gid[q], win[q], agg[q]>>
          /\ version'[gid[q]] \in Nat /\ version[gid[q]] <= version'[gid[q]]
    BY <1>7 DEF Do, Goto, reqVars
  <2>2. QED
    BY <2>1 DEF FreshAnswer
<1>8. ASSUME NEW r \in Requests, Recheck(r)
      PROVE  FreshAnswer'
  <2>1. \A q \in Requests : pc'[q] = "done" /\ outcome'[q] = "ok" =>
          /\ pc[q] = "done" /\ outcome[q] = "ok"
          /\ UNCHANGED <<from[q], gid[q], win[q], agg[q]>>
          /\ version'[gid[q]] \in Nat /\ version[gid[q]] <= version'[gid[q]]
    BY <1>8 DEF Recheck, Goto, reqVars
  <2>2. QED
    BY <2>1 DEF FreshAnswer
<1>9. ASSUME NEW r \in Requests, BuildSucceeds(r)
      PROVE  FreshAnswer'
  <2>1. \A q \in Requests : pc'[q] = "done" /\ outcome'[q] = "ok" =>
          /\ pc[q] = "done" /\ outcome[q] = "ok"
          /\ UNCHANGED <<from[q], gid[q], win[q], agg[q]>>
          /\ version'[gid[q]] \in Nat /\ version[gid[q]] <= version'[gid[q]]
    BY <1>9 DEF BuildSucceeds, Goto, reqVars
  <2>2. QED
    BY <2>1 DEF FreshAnswer
<1>10. ASSUME NEW r \in Requests, BuildFails(r)
      PROVE  FreshAnswer'
  <2>1. \A q \in Requests : pc'[q] = "done" /\ outcome'[q] = "ok" =>
          /\ pc[q] = "done" /\ outcome[q] = "ok"
          /\ UNCHANGED <<from[q], gid[q], win[q], agg[q]>>
          /\ version'[gid[q]] \in Nat /\ version[gid[q]] <= version'[gid[q]]
    BY <1>10 DEF BuildFails, Goto, reqVars
  <2>2. QED
    BY <2>1 DEF FreshAnswer
<1>11. ASSUME NEW r \in Requests, Store(r)
      PROVE  FreshAnswer'
  <2>1. \A q \in Requests : pc'[q] = "done" /\ outcome'[q] = "ok" =>
          \/ pc[q] = "done" /\ outcome[q] = "ok" /\ agg'[q] = agg[q]
          \/ /\ pc[q] \in {"lookup", "wait", "store", "return"}
             /\ agg'[q] = <<gid[q], sample[q]>>
    BY <1>11 DEF Store, BuiltAsPlanned, Goto
  <2>2. UNCHANGED <<from, gid, win, version>>
    BY <1>11 DEF Store, reqVars
  <2>3. QED
    BY <2>1, <2>2 DEF FreshAnswer, PlansFresh
<1>12. ASSUME NEW r \in Requests, Return(r)
      PROVE  FreshAnswer'
  <2>1. \A q \in Requests : pc'[q] = "done" /\ outcome'[q] = "ok" =>
          \/ pc[q] = "done" /\ outcome[q] = "ok" /\ agg'[q] = agg[q]
          \/ /\ pc[q] \in {"lookup", "wait", "store", "return"}
             /\ agg'[q] = <<gid[q], sample[q]>>
    <3>1. ASSUME NEW q \in Joined(r), outcome[r] = "ok"
          PROVE  /\ pc[q] \in {"wait", "return"}
                 /\ agg[r] = <<gid[q], sample[q]>>
      <4>1. gid[q] = gid[r] /\ Sig[sample[q]] = Sig[sample[r]] /\ q \in Requests
        BY <1>12, <3>1 DEF Joined, FlightKey, Return
      <4>2. sample[q] = sample[r]
        BY <4>1, SignatureFaithful
      <4>3. QED
        BY <1>12, <3>1, <4>1, <4>2 DEF Return, Joined, BuiltAsPlanned
    <3>2. QED
      BY <1>12, <3>1 DEF Return
  <2>2. UNCHANGED <<from, gid, win, version>>
    BY <1>12 DEF Return, reqVars
  <2>3. QED
    BY <2>1, <2>2 DEF FreshAnswer, PlansFresh
<1>13. ASSUME NEW r \in Requests, Reply(r)
      PROVE  FreshAnswer'
  <2>1. \A q \in Requests : pc'[q] = "done" /\ outcome'[q] = "ok" =>
          /\ pc[q] = "done" /\ outcome[q] = "ok"
          /\ UNCHANGED <<from[q], gid[q], win[q], agg[q]>>
          /\ version'[gid[q]] \in Nat /\ version[gid[q]] <= version'[gid[q]]
    BY <1>13 DEF Reply, Goto, reqVars
  <2>2. QED
    BY <2>1 DEF FreshAnswer
<1>14. CASE UNCHANGED vars
  BY <1>14 DEF vars, reqVars, FreshAnswer
<1>15. QED
  BY <1>1, <1>2, <1>3, <1>4, <1>5, <1>6, <1>7, <1>8, <1>9, <1>10, <1>11,
     <1>12, <1>13, <1>14 DEF Next, Advance

-----------------------------------------------------------------------------
(***************************************************************************)
(* IInv holds throughout: it holds at the start, and each of its parts is  *)
(* kept by every step given the others.                                    *)
(***************************************************************************)
THEOREM Inductive == Spec => []IInv
<1>1. Init => IInv
  <2> SUFFICES ASSUME Init PROVE IInv
    OBVIOUS
  <2>1. TypeOK
    BY SampledAssumption, NonEmptyAssumption DEF Init, TypeOK
  <2>2. /\ BuiltAsPlanned /\ EntriesSound /\ PlansFresh
        /\ FlightsMatchLeaders /\ FlightsAreGetOrBuild /\ FreshAnswer
    BY DEF Init, BuiltAsPlanned, EntriesSound, PlansFresh, FlightsMatchLeaders,
           FlightsAreGetOrBuild, FreshAnswer, Leading
  <2>3. QED
    BY <2>1, <2>2 DEF IInv
<1>2. IInv /\ [Next]_vars => IInv'
  BY TypeStep, BuiltStep, EntriesStep, FlightStep, PlanStep, AnswerStep DEF IInv
<1>3. QED
  BY <1>1, <1>2, PTL DEF Spec

(***************************************************************************)
(* Type correctness of the cache and of the requests that use it           *)
(* (cache.go:18-106, engine.go:346-438).                                   *)
(***************************************************************************)
THEOREM TypeCorrect == Spec => []TypeOK
<1>1. IInv => TypeOK
  BY DEF IInv
<1>2. QED
  BY <1>1, Inductive, PTL

(***************************************************************************)
(* A successful answer, of either kind of call, aggregates members listed  *)
(* between the arrival of the request and now, in the window asked for.    *)
(* (cache.go:36-60, 69-106; engine.go:346-438)                             *)
(***************************************************************************)
THEOREM AnswersAreFresh == Spec => []FreshAnswer
<1>1. IInv => FreshAnswer
  BY DEF IInv
<1>2. QED
  BY <1>1, Inductive, PTL

(***************************************************************************)
(* GetOrBuild never runs two builds of one group and signature at once.    *)
(* (cache.go:69-71, 83)                                                    *)
(***************************************************************************)
THEOREM BuildsAreDeduplicated == Spec => []SingleFlight
<1>1. IInv => SingleFlight
  BY DEF IInv, FlightsMatchLeaders, SingleFlight
<1>2. QED
  BY <1>1, Inductive, PTL

(***************************************************************************)
(* Nobody waits on a flight that nobody flies: the flight a request joined *)
(* still has its leader.  (cache.go:83)                                    *)
(***************************************************************************)
THEOREM FollowersAreLed == Spec => []FollowersHaveLeader
<1>1. IInv => FollowersHaveLeader
  BY DEF IInv, FlightsMatchLeaders, FollowersHaveLeader
<1>2. QED
  BY <1>1, Inductive, PTL

(***************************************************************************)
(* What a flight builds is not cached: a step after which the leader r     *)
(* builds what is cached either found it so, or is a store by buildPlan.   *)
(***************************************************************************)
LEMMA ColdStep ==
  ASSUME IInv, [Next]_vars, NEW r \in Requests,
         mode'[r] = "getOrBuild", pc'[r] = "build", Hit(r)'
  PROVE  \/ pc[r] = "build" /\ Hit(r)
         \/ \E q \in Requests : pc[q] = "store" /\ mode[q] = "buildPlan"
<1> DEFINE Goal == \/ pc[r] = "build" /\ Hit(r)
                  \/ \E q \in Requests : pc[q] = "store" /\ mode[q] = "buildPlan"
<1> USE DEF IInv, TypeOK, reqVars, Goto, Hit
<1>1. ASSUME NEW g \in Groups, AddMembers(g)
      PROVE  Goal
  BY <1>1 DEF AddMembers
<1>2. ASSUME NEW q \in Requests, NEW m \in Modes, NEW g \in Groups,
               NEW w \in Windows, Arrive(q, m, g, w)
      PROVE  Goal
  BY <1>2 DEF Arrive
<1>3. ASSUME NEW q \in Requests, Disconnect(q)
      PROVE  Goal
  BY <1>3 DEF Disconnect
<1>4. ASSUME NEW q \in Requests, Plan(q)
      PROVE  Goal
  BY <1>4 DEF Plan
<1>5. ASSUME NEW q \in Requests, PlanFails(q)
      PROVE  Goal
  BY <1>5 DEF PlanFails, Answer
<1>6. ASSUME NEW q \in Requests, Lookup(q)
      PROVE  Goal
  BY <1>6 DEF Lookup, Answer
<1>7. ASSUME NEW q \in Requests, Do(q)
      PROVE  Goal
  BY <1>7 DEF Do
<1>8. ASSUME NEW q \in Requests, Recheck(q)
      PROVE  Goal
  BY <1>8 DEF Recheck
<1>9. ASSUME NEW q \in Requests, BuildSucceeds(q)
      PROVE  Goal
  BY <1>9 DEF BuildSucceeds
<1>10. ASSUME NEW q \in Requests, BuildFails(q)
      PROVE  Goal
  BY <1>10 DEF BuildFails
<1>11. ASSUME NEW q \in Requests, Store(q)
      PROVE  Goal
  <2> SUFFICES ASSUME mode[q] = "getOrBuild"
               PROVE  Goal
    BY <1>11, ModesAssumption DEF Store
  <2>1. q # r /\ pc[r] = "build" /\ mode[r] = "getOrBuild"
    BY <1>11 DEF Store
  <2>2. FlightKey(q) # FlightKey(r)
    BY <1>11, <2>1 DEF Store, Leading, FlightsMatchLeaders
  <2>3. \/ items'[gid[r]] = items[gid[r]]
        \/ Sig[sample[q]] # Sig[sample[r]] /\ gid[q] = gid[r]
    BY <1>11, <2>2 DEF Store, FlightKey
  <2>4. gid'[r] = gid[r] /\ sample'[r] = sample[r]
    BY <1>11 DEF Store
  <2>5. CASE items'[gid[r]] = items[gid[r]]
    BY <2>1, <2>4, <2>5
  <2>6. CASE Sig[sample[q]] # Sig[sample[r]] /\ gid[q] = gid[r]
    <3>1. items'[gid[r]].sig = Sig[sample[q]]
      BY <1>11, <2>6 DEF Store
    <3>2. QED
      BY <2>4, <2>6, <3>1
  <2>7. QED
    BY <2>3, <2>5, <2>6
<1>12. ASSUME NEW q \in Requests, Return(q)
      PROVE  Goal
  BY <1>12 DEF Return, Joined
<1>13. ASSUME NEW q \in Requests, Reply(q)
      PROVE  Goal
  BY <1>13 DEF Reply
<1>14. CASE UNCHANGED vars
  BY <1>14 DEF vars
<1>15. QED
  BY <1>1, <1>2, <1>3, <1>4, <1>5, <1>6, <1>7, <1>8, <1>9, <1>10, <1>11,
     <1>12, <1>13, <1>14 DEF Next, Advance

(***************************************************************************)
(* A GetOrBuild flight never builds what is already cached, except when a  *)
(* comparison stores it during the build.  (cache.go:84-91)                *)
(***************************************************************************)
THEOREM FlightsBuildWhatIsCold == Spec => BuildOnlyWhenCold
<1>1. IInv /\ [Next]_vars =>
        [\A r \in Requests :
           mode'[r] = "getOrBuild" /\ pc'[r] = "build" /\ Hit(r)' =>
             \/ pc[r] = "build" /\ Hit(r)
             \/ \E q \in Requests : pc[q] = "store" /\ mode[q] = "buildPlan"]_vars
  BY ColdStep
<1>2. QED
  BY <1>1, Inductive, PTL DEF Spec, BuildOnlyWhenCold

=============================================================================
