--------------------------- MODULE ObjectCache_proofs ---------------------------
(***************************************************************************)
(* Proofs about ObjectCache, for all sets of processes, goroutines and     *)
(* keys, blobs of any length and any number of crashes: IInv is inductive, *)
(* and under it every step of the cache is a step of MemoService or none.  *)
(***************************************************************************)
EXTENDS ObjectCache, FiniteSetTheorems, TLAPS

USE DEF ProgramPoints, Values

(* The union of two finite sets *)
LEMMA UnionSize ==
  ASSUME NEW S, NEW T, IsFiniteSet(S), IsFiniteSet(T)
  PROVE  /\ IsFiniteSet(S \cup T)
         /\ Cardinality(S \cup T) <= Cardinality(S) + Cardinality(T)
<1> DEFINE m == Cardinality(S)
           n == Cardinality(T)
           c == Cardinality(S \cap T)
           u == Cardinality(S \cup T)
<1>1. IsFiniteSet(S \cap T)
  <2>1. S \cap T \in SUBSET S
    OBVIOUS
  <2>2. QED
    BY <2>1, FS_Subset
<1>2. IsFiniteSet(S \cup T) /\ u = m + n - c
  BY FS_Union
<1>3. m \in Nat /\ n \in Nat /\ c \in Nat
  BY <1>1, FS_CardinalityType
<1> HIDE DEF m, n, c, u
<1>4. u <= m + n
  BY <1>2, <1>3
<1>5. QED
  BY <1>2, <1>4 DEF m, n, u

(* A save that needs a new file finds one. *)
LEMMA SomeUnused ==
  ASSUME TypeOK
  PROVE  Unused # {}
<1> DEFINE T == {tmp[k] : k \in Keys}
           P == {path[k] : k \in Keys}
           F == {fd[w] : w \in Workers}
<1>1. IsFiniteSet(T) /\ Cardinality(T) <= Cardinality(Keys)
  <2>1. [k \in Keys |-> tmp[k]] \in Surjection(Keys, T)
    BY DEF Surjection
  <2>2. QED
    BY <2>1, FS_Surjection, EnoughInodes
<1>2. IsFiniteSet(P) /\ Cardinality(P) <= Cardinality(Keys)
  <2>1. [k \in Keys |-> path[k]] \in Surjection(Keys, P)
    BY DEF Surjection
  <2>2. QED
    BY <2>1, FS_Surjection, EnoughInodes
<1>3. IsFiniteSet(F) /\ Cardinality(F) <= Cardinality(Workers)
  <2>1. [w \in Workers |-> fd[w]] \in Surjection(Workers, F)
    BY DEF Surjection
  <2>2. QED
    BY <2>1, FS_Surjection, EnoughInodes
<1> DEFINE A == T \cup P \cup F
<1>4. IsFiniteSet(A) /\ Cardinality(A) <= 2 * Cardinality(Keys) + Cardinality(Workers)
  <2> HIDE DEF T, P, F
  <2>1. IsFiniteSet(T \cup P) /\ Cardinality(T \cup P) <= Cardinality(T) + Cardinality(P)
    BY <1>1, <1>2, UnionSize
  <2>2. IsFiniteSet(A) /\ Cardinality(A) <= Cardinality(T \cup P) + Cardinality(F)
    BY <2>1, <1>3, UnionSize
  <2>3. /\ Cardinality(Keys) \in Nat /\ Cardinality(Workers) \in Nat
        /\ Cardinality(T) \in Nat /\ Cardinality(P) \in Nat /\ Cardinality(F) \in Nat
        /\ Cardinality(T \cup P) \in Nat /\ Cardinality(A) \in Nat
    BY <1>1, <1>2, <1>3, <2>1, <2>2, EnoughInodes, FS_CardinalityType
  <2> HIDE DEF A
  <2>4. QED
    BY <1>1, <1>2, <1>3, <2>1, <2>2, <2>3
<1>5. SUFFICES ASSUME Unused = {} PROVE FALSE
  OBVIOUS
<1>6. Inodes \in SUBSET A
  BY <1>5 DEF Unused
<1>7. Cardinality(Inodes) <= Cardinality(A) /\ Cardinality(Inodes) \in Nat
  BY <1>4, <1>6, FS_Subset, FS_CardinalityType
<1>8. Cardinality(A) \in Nat /\ Cardinality(Keys) \in Nat /\ Cardinality(Workers) \in Nat
  BY <1>4, EnoughInodes, FS_CardinalityType
<1> HIDE DEF A
<1>9. QED
  BY <1>4, <1>7, <1>8, EnoughInodes

(* A goroutine past its call holds a key, and runs in a process. *)
LEMMA Held ==
  ASSUME TypeOK, KeysAreHeld, NEW w \in Workers
  PROVE  /\ ProcOf[w] \in Procs
         /\ pc[w] # "idle" => key[w] \in Keys
         /\ pc[w] = "idle" => key[w] = None
BY ObjectCacheAssumption DEF TypeOK, KeysAreHeld

(* A goroutine moves between the places of GetOrBuild. *)
LEMMA Moves ==
  ASSUME TypeOK, NEW w \in Workers, NEW l \in ProgramPoints, Goto(w, l)
  PROVE  pc' \in [Workers -> ProgramPoints]
BY DEF TypeOK, Goto

(* The types are kept. *)
LEMMA TypeStep ==
  ASSUME TypeOK, KeysAreHeld, ValuesFit, [Next]_vars
  PROVE  TypeOK'
<1> USE ObjectCacheAssumption DEF TypeOK, Hold, fileVars, workerVars
<1>1. ASSUME NEW w \in Workers, NEW k \in Keys, Call(w, k)
      PROVE  TypeOK'
  BY <1>1, Moves DEF Call
<1>2. ASSUME NEW w \in Workers, Look(w)
      PROVE  TypeOK'
  <2>1. pc' \in [Workers -> ProgramPoints]
    BY <1>2, Moves DEF Look
  <2>2. val' \in [Workers -> Values]
    <3>1. InMem(w) => mem[ProcOf[w]][key[w]] \in Values
      BY <1>2, Held DEF Look
    <3>2. QED
      BY <1>2, <3>1 DEF Look
  <2>3. QED
    BY <1>2, <2>1, <2>2 DEF Look
<1>3. ASSUME NEW w \in Workers, Do(w)
      PROVE  TypeOK'
  <2>1. pc' \in [Workers -> ProgramPoints]
    BY <1>3, Moves DEF Do
  <2>2. flight' \in [Procs -> [Keys -> Workers \cup {None}]]
    <3>1. CASE Leader(w) = None
      <4>1. flight' = [flight EXCEPT ![ProcOf[w]][key[w]] = w]
        BY <1>3, <3>1 DEF Do
      <4>2. QED
        BY <4>1
    <3>2. CASE Leader(w) # None
      BY <1>3, <3>2 DEF Do
    <3>3. QED
      BY <3>1, <3>2
  <2>3. QED
    BY <1>3, <2>1, <2>2 DEF Do
<1>4. ASSUME NEW w \in Workers, Recheck(w)
      PROVE  TypeOK'
  <2>1. pc' \in [Workers -> ProgramPoints]
    BY <1>4, Moves DEF Recheck
  <2>2. val' \in [Workers -> Values]
    <3>1. InMem(w) => mem[ProcOf[w]][key[w]] \in Values
      BY <1>4, Held DEF Recheck
    <3>2. QED
      BY <1>4, <3>1 DEF Recheck
  <2>3. QED
    BY <1>4, <2>1, <2>2 DEF Recheck
<1>5. ASSUME NEW w \in Workers, LoadDisk(w)
      PROVE  TypeOK'
  <2>1. pc' \in [Workers -> ProgramPoints]
    BY <1>5, Moves DEF LoadDisk
  <2>2. val' \in [Workers -> Values]
    BY <1>5 DEF LoadDisk, Read
  <2>3. QED
    BY <1>5, <2>1, <2>2 DEF LoadDisk
<1>6. ASSUME NEW w \in Workers, Build(w)
      PROVE  TypeOK'
  BY <1>6, Moves DEF Build
<1>7. ASSUME NEW w \in Workers, Store(w)
      PROVE  TypeOK'
  <2>1. val[w] = "whole"
    BY <1>7 DEF Store, ValuesFit, ValueFits
  <2>2. mem' \in [Procs -> [Keys -> {"none", "whole", "torn"}]]
    BY <1>7, <2>1 DEF Store
  <2>3. QED
    BY <1>7, <2>2, Moves DEF Store
<1>8. ASSUME NEW w \in Workers, Create(w)
      PROVE  TypeOK'
  <2>1. key[w] \in Keys
    BY <1>8 DEF Create, KeysAreHeld
  <2>2. PICK i \in Inodes : /\ tmp' = [tmp EXCEPT ![key[w]] = i]
                            /\ data' = [data EXCEPT ![i] = {}]
                            /\ fd' = [fd EXCEPT ![w] = i]
    <3>1. (CHOOSE j \in Unused : TRUE) \in Inodes
      BY SomeUnused DEF Unused
    <3>2. QED
      BY <1>8, <2>1, <3>1 DEF Create
  <2>3. pc' \in [Workers -> ProgramPoints]
    BY <1>8, Moves DEF Create
  <2>4. /\ tmp' \in [Keys -> Inodes \cup {None}]
        /\ data' \in [Inodes -> SUBSET Whole]
        /\ fd' \in [Workers -> Inodes \cup {None}]
    BY <2>2
  <2>5. off' \in [Workers -> 0..Chunks]
    BY <1>8 DEF Create
  <2>6. QED
    BY <1>8, <2>3, <2>4, <2>5 DEF Create
<1>9. ASSUME NEW w \in Workers, CreateFails(w)
      PROVE  TypeOK'
  <2>1. pc' \in [Workers -> ProgramPoints]
    BY <1>9, Moves DEF CreateFails
  <2>2. QED
    BY <1>9, <2>1 DEF CreateFails
<1>10. ASSUME NEW w \in Workers, Write(w)
       PROVE  TypeOK'
  <2>1. off[w] + 1 \in 0..Chunks /\ off[w] + 1 \in Whole
    BY <1>10 DEF Write, Whole
  <2>2. off' \in [Workers -> 0..Chunks] /\ data' \in [Inodes -> SUBSET Whole]
    BY <1>10, <2>1 DEF Write
  <2>3. QED
    BY <1>10, <2>2 DEF Write
<1>11. ASSUME NEW w \in Workers, EncodeFails(w)
       PROVE  TypeOK'
  <2>1. pc' \in [Workers -> ProgramPoints]
    BY <1>11, Moves DEF EncodeFails
  <2>2. /\ tmp' \in [Keys -> Inodes \cup {None}]
        /\ fd' \in [Workers -> Inodes \cup {None}]
        /\ off' \in [Workers -> 0..Chunks]
    <3>1. /\ tmp' = [tmp EXCEPT ![key[w]] = None]
          /\ fd' = [fd EXCEPT ![w] = None]
          /\ off' = [off EXCEPT ![w] = 0]
      BY <1>11 DEF EncodeFails
    <3>2. 0 \in 0..Chunks
      OBVIOUS
    <3>3. QED
      BY <3>1, <3>2
  <2>3. QED
    BY <1>11, <2>1, <2>2 DEF EncodeFails
<1>12. ASSUME NEW w \in Workers, CloseAndRename(w)
       PROVE  TypeOK'
  <2>1. pc' \in [Workers -> ProgramPoints]
    BY <1>12, Moves DEF CloseAndRename
  <2>2. key[w] \in Keys
    BY <1>12, Held DEF CloseAndRename
  <2>3. path' \in [Keys -> Inodes \cup {None}]
    BY <1>12, <2>2 DEF CloseAndRename
  <2>4. /\ tmp' \in [Keys -> Inodes \cup {None}]
        /\ fd' \in [Workers -> Inodes \cup {None}]
        /\ off' \in [Workers -> 0..Chunks]
    <3>1. /\ tmp' = [tmp EXCEPT ![key[w]] = None]
          /\ fd' = [fd EXCEPT ![w] = None]
          /\ off' = [off EXCEPT ![w] = 0]
      BY <1>12 DEF CloseAndRename
    <3>2. 0 \in 0..Chunks
      OBVIOUS
    <3>3. QED
      BY <3>1, <3>2
  <2>5. QED
    BY <1>12, <2>1, <2>3, <2>4 DEF CloseAndRename
<1>13. ASSUME NEW w \in Workers, Return(w)
       PROVE  TypeOK'
  <2>1. pc' \in [Workers -> ProgramPoints] /\ val' \in [Workers -> Values]
    BY <1>13 DEF Return
  <2>2. flight' \in [Procs -> [Keys -> Workers \cup {None}]]
    BY <1>13 DEF Return
  <2>3. QED
    BY <1>13, <2>1, <2>2 DEF Return
<1>14. ASSUME NEW w \in Workers, Leave(w)
       PROVE  TypeOK'
  BY <1>14, Moves DEF Leave
<1>15. ASSUME NEW p \in Procs, Crash(p)
       PROVE  TypeOK'
  BY <1>15 DEF Crash
<1>16. CASE UNCHANGED vars
  BY <1>16 DEF vars
<1>17. QED
  BY <1>1, <1>2, <1>3, <1>4, <1>5, <1>6, <1>7, <1>8, <1>9, <1>10, <1>11,
     <1>12, <1>13, <1>14, <1>15, <1>16 DEF Next, Advance

(* A goroutine holds a key from its call to its return. *)
LEMMA KeysStep ==
  ASSUME TypeOK, KeysAreHeld, [Next]_vars
  PROVE  KeysAreHeld'
<1> USE ObjectCacheAssumption DEF TypeOK, KeysAreHeld, Goto, fileVars, workerVars
<1>1. ASSUME NEW w \in Workers, NEW k \in Keys, Call(w, k)
      PROVE  KeysAreHeld'
  BY <1>1 DEF Call
<1>2. ASSUME NEW w \in Workers, Look(w)
      PROVE  KeysAreHeld'
  BY <1>2 DEF Look
<1>3. ASSUME NEW w \in Workers, Do(w)
      PROVE  KeysAreHeld'
  BY <1>3 DEF Do
<1>4. ASSUME NEW w \in Workers, Recheck(w)
      PROVE  KeysAreHeld'
  BY <1>4 DEF Recheck
<1>5. ASSUME NEW w \in Workers, LoadDisk(w)
      PROVE  KeysAreHeld'
  BY <1>5 DEF LoadDisk
<1>6. ASSUME NEW w \in Workers, Build(w)
      PROVE  KeysAreHeld'
  BY <1>6 DEF Build
<1>7. ASSUME NEW w \in Workers, Store(w)
      PROVE  KeysAreHeld'
  BY <1>7 DEF Store
<1>8. ASSUME NEW w \in Workers, Create(w)
      PROVE  KeysAreHeld'
  BY <1>8 DEF Create
<1>9. ASSUME NEW w \in Workers, CreateFails(w)
      PROVE  KeysAreHeld'
  BY <1>9 DEF CreateFails
<1>10. ASSUME NEW w \in Workers, Write(w)
      PROVE  KeysAreHeld'
  BY <1>10 DEF Write
<1>11. ASSUME NEW w \in Workers, EncodeFails(w)
      PROVE  KeysAreHeld'
  BY <1>11 DEF EncodeFails
<1>12. ASSUME NEW w \in Workers, CloseAndRename(w)
      PROVE  KeysAreHeld'
  BY <1>12 DEF CloseAndRename
<1>13. ASSUME NEW w \in Workers, Return(w)
      PROVE  KeysAreHeld'
  <2>1. /\ key' = key /\ pc[w] = "return"
        /\ \A v \in Workers : pc'[v] = IF v \in Joined(w) THEN "done" ELSE pc[v]
    BY <1>13 DEF Return
  <2>2. \A v \in Joined(w) : pc[v] # "idle"
    BY <2>1 DEF Joined
  <2>3. QED
    BY <2>1, <2>2
<1>14. ASSUME NEW w \in Workers, Leave(w)
      PROVE  KeysAreHeld'
  BY <1>14 DEF Leave
<1>15. ASSUME NEW p \in Procs, Crash(p)
      PROVE  KeysAreHeld'
  BY <1>15 DEF Crash
<1>16. CASE UNCHANGED vars
  BY <1>16 DEF vars
<1>17. QED
  BY <1>1, <1>2, <1>3, <1>4, <1>5, <1>6, <1>7, <1>8, <1>9, <1>10, <1>11,
     <1>12, <1>13, <1>14, <1>15, <1>16 DEF Next, Advance

(* Inside a flight nothing changes about who leads what. *)
LEMMA FlightKept ==
  ASSUME TypeOK, FlightsMatchLeaders, NEW w \in Workers, InFlight(w),
         NEW l \in {"recheck", "load", "keep", "build", "store", "create", "write", "return"},
         Goto(w, l), UNCHANGED <<flight, key>>
  PROVE  FlightsMatchLeaders'
BY ObjectCacheAssumption DEF TypeOK, FlightsMatchLeaders, InFlight, Leader, Goto

(* Leaders and flights keep corresponding. *)
LEMMA FlightStep ==
  ASSUME TypeOK, KeysAreHeld, FlightsMatchLeaders, [Next]_vars
  PROVE  FlightsMatchLeaders'
<1> USE ObjectCacheAssumption DEF TypeOK, KeysAreHeld
<1>1. ASSUME NEW w \in Workers, NEW k \in Keys, Call(w, k)
      PROVE  FlightsMatchLeaders'
  BY <1>1 DEF Call, FlightsMatchLeaders, InFlight, Leader, Goto, fileVars, workerVars
<1>2. ASSUME NEW w \in Workers, Look(w)
      PROVE  FlightsMatchLeaders'
  <2>1. /\ UNCHANGED <<flight, key>> /\ pc[w] = "look"
        /\ pc' = [pc EXCEPT ![w] = "done"] \/ pc' = [pc EXCEPT ![w] = "do"]
    BY <1>2 DEF Look, Goto
  <2>2. \A v \in Workers : InFlight(v)' <=> InFlight(v)
    BY <2>1 DEF InFlight
  <2>3. QED
    BY <2>1, <2>2 DEF FlightsMatchLeaders, Leader
<1>3. ASSUME NEW w \in Workers, Do(w)
      PROVE  FlightsMatchLeaders'
  <2>1. key[w] \in Keys /\ ProcOf[w] \in Procs
    BY <1>3, Held DEF Do
  <2>2. CASE Leader(w) = None
    <3>1. /\ key' = key /\ pc[w] = "do" /\ pc' = [pc EXCEPT ![w] = "recheck"]
          /\ flight' = [flight EXCEPT ![ProcOf[w]][key[w]] = w]
      BY <1>3, <2>2 DEF Do, Goto
    <3>2. \A v \in Workers : InFlight(v)' <=> v = w \/ InFlight(v)
      BY <3>1 DEF InFlight
    <3>3. ASSUME NEW p \in Procs, NEW k \in Keys
          PROVE  flight'[p][k] = IF p = ProcOf[w] /\ k = key[w] THEN w ELSE flight[p][k]
      BY <2>1, <3>1
    <3>4. flight[ProcOf[w]][key[w]] = None /\ ~InFlight(w)
      BY <2>2, <3>1 DEF Leader, InFlight
    <3>5. QED
      BY <2>1, <3>1, <3>2, <3>3, <3>4 DEF FlightsMatchLeaders
  <2>3. CASE Leader(w) # None
    BY <1>3, <2>3 DEF Do, FlightsMatchLeaders, InFlight, Leader, Goto, fileVars, workerVars
  <2>4. QED
    BY <2>2, <2>3
<1>4. ASSUME NEW w \in Workers, Recheck(w)
      PROVE  FlightsMatchLeaders'
  BY <1>4, FlightKept DEF Recheck, InFlight
<1>5. ASSUME NEW w \in Workers, LoadDisk(w)
      PROVE  FlightsMatchLeaders'
  BY <1>5, FlightKept DEF LoadDisk, InFlight
<1>6. ASSUME NEW w \in Workers, Build(w)
      PROVE  FlightsMatchLeaders'
  BY <1>6, FlightKept DEF Build, InFlight
<1>7. ASSUME NEW w \in Workers, Store(w)
      PROVE  FlightsMatchLeaders'
  BY <1>7, FlightKept DEF Store, InFlight
<1>8. ASSUME NEW w \in Workers, Create(w)
      PROVE  FlightsMatchLeaders'
  BY <1>8, FlightKept DEF Create, InFlight
<1>9. ASSUME NEW w \in Workers, CreateFails(w)
      PROVE  FlightsMatchLeaders'
  BY <1>9, FlightKept DEF CreateFails, InFlight
<1>10. ASSUME NEW w \in Workers, Write(w)
      PROVE  FlightsMatchLeaders'
  BY <1>10 DEF Write, FlightsMatchLeaders, InFlight, Leader, Goto, fileVars, workerVars
<1>11. ASSUME NEW w \in Workers, EncodeFails(w)
      PROVE  FlightsMatchLeaders'
  BY <1>11, FlightKept DEF EncodeFails, InFlight
<1>12. ASSUME NEW w \in Workers, CloseAndRename(w)
      PROVE  FlightsMatchLeaders'
  BY <1>12, FlightKept DEF CloseAndRename, InFlight
<1>13. ASSUME NEW w \in Workers, Return(w)
      PROVE  FlightsMatchLeaders'
  <2>1. key[w] \in Keys /\ ProcOf[w] \in Procs
    BY <1>13, Held DEF Return
  <2>2. /\ key' = key /\ pc[w] = "return"
        /\ flight' = [flight EXCEPT ![ProcOf[w]][key[w]] = None]
        /\ \A v \in Workers : pc'[v] = IF v \in Joined(w) THEN "done" ELSE pc[v]
    BY <1>13 DEF Return
  <2>3. flight[ProcOf[w]][key[w]] = w /\ \A v \in Joined(w) : v = w \/ pc[v] = "wait"
    BY <2>1, <2>2 DEF FlightsMatchLeaders, InFlight, Joined
  <2>4. \A v \in Workers : InFlight(v)' <=> v # w /\ InFlight(v)
    BY <2>2, <2>3 DEF InFlight, Joined
  <2>5. ASSUME NEW p \in Procs, NEW k \in Keys
        PROVE  flight'[p][k] = IF p = ProcOf[w] /\ k = key[w] THEN None ELSE flight[p][k]
    BY <2>1, <2>2
  <2>6. QED
    BY <2>1, <2>2, <2>3, <2>4, <2>5 DEF FlightsMatchLeaders
<1>14. ASSUME NEW w \in Workers, Leave(w)
      PROVE  FlightsMatchLeaders'
  BY <1>14 DEF Leave, FlightsMatchLeaders, InFlight, Leader, Goto, fileVars, workerVars
<1>15. ASSUME NEW p \in Procs, Crash(p)
      PROVE  FlightsMatchLeaders'
  BY <1>15 DEF Crash, FlightsMatchLeaders, InFlight, Leader, Goto, fileVars, workerVars
<1>16. CASE UNCHANGED vars
  BY <1>16 DEF vars, FlightsMatchLeaders, InFlight, Leader, Goto, fileVars, workerVars
<1>17. QED
  BY <1>1, <1>2, <1>3, <1>4, <1>5, <1>6, <1>7, <1>8, <1>9, <1>10, <1>11,
     <1>12, <1>13, <1>14, <1>15, <1>16 DEF Next, Advance

(* Two goroutines of a process are not both in a flight of one key. *)
LEMMA Alone ==
  ASSUME TypeOK, KeysAreHeld, FlightsMatchLeaders,
         NEW v \in Workers, NEW w \in Workers, InFlight(v), InFlight(w),
         ProcOf[v] = ProcOf[w], key[v] = key[w]
  PROVE  v = w
BY Held DEF FlightsMatchLeaders, InFlight

(* What goroutines hold keeps fitting what their process knows. *)
LEMMA ValuesStep ==
  ASSUME TypeOK, KeysAreHeld, FlightsMatchLeaders, ValuesFit, OnlyWholeKept, [Next]_vars
  PROVE  ValuesFit'
<1> USE ObjectCacheAssumption DEF TypeOK, ValuesFit, ValueFits, InMem, Goto, Hold, fileVars, workerVars
<1>1. ASSUME NEW w \in Workers, NEW k \in Keys, Call(w, k)
      PROVE  ValuesFit'
  BY <1>1 DEF Call
<1>2. ASSUME NEW w \in Workers, Look(w)
      PROVE  ValuesFit'
  <2>1. InMem(w) => mem[ProcOf[w]][key[w]] = "whole"
    BY <1>2, Held DEF Look, OnlyWholeKept
  <2>2. ASSUME NEW v \in Workers, v # w
        PROVE  ValueFits(v)'
    BY <1>2, <2>2 DEF Look
  <2>3. ValueFits(w)'
    BY <1>2, <2>1 DEF Look
  <2>4. QED
    BY <2>2, <2>3 DEF ValuesFit
<1>3. ASSUME NEW w \in Workers, Do(w)
      PROVE  ValuesFit'
  BY <1>3 DEF Do
<1>4. ASSUME NEW w \in Workers, Recheck(w)
      PROVE  ValuesFit'
  <2>1. InMem(w) => mem[ProcOf[w]][key[w]] = "whole"
    BY <1>4, Held DEF Recheck, OnlyWholeKept
  <2>2. ASSUME NEW v \in Workers, v # w
        PROVE  ValueFits(v)'
    BY <1>4, <2>2 DEF Recheck
  <2>3. ValueFits(w)'
    BY <1>4, <2>1 DEF Recheck
  <2>4. QED
    BY <2>2, <2>3 DEF ValuesFit
<1>5. ASSUME NEW w \in Workers, LoadDisk(w)
      PROVE  ValuesFit'
  <2>1. ASSUME NEW v \in Workers, v # w
        PROVE  ValueFits(v)'
    BY <1>5, <2>1 DEF LoadDisk
  <2>2. ValueFits(w)'
    BY <1>5 DEF LoadDisk, Decodes
  <2>3. QED
    BY <2>1, <2>2 DEF ValuesFit
<1>6. ASSUME NEW w \in Workers, Build(w)
      PROVE  ValuesFit'
  BY <1>6 DEF Build
<1>7. ASSUME NEW w \in Workers, Store(w)
      PROVE  ValuesFit'
  <2>1. /\ pc[w] \in {"keep", "store"} /\ val[w] = "whole" /\ InFlight(w)
        /\ UNCHANGED <<val, key>>
        /\ pc' = [pc EXCEPT ![w] = IF pc[w] = "keep" THEN "return" ELSE "create"]
        /\ mem' = [mem EXCEPT ![ProcOf[w]][key[w]] = "whole"]
    BY <1>7 DEF Store, InFlight
  <2>2. key[w] \in Keys /\ ProcOf[w] \in Procs
    BY <2>1, Held
  <2>3. mem'[ProcOf[w]][key[w]] = "whole"
    BY <2>1, <2>2
  <2>4. ValueFits(w)'
    BY <2>1, <2>3
  <2>5. ASSUME NEW v \in Workers, v # w
        PROVE  ValueFits(v)'
    <3>1. CASE InFlight(v)
      <4>1. key[v] \in Keys /\ ProcOf[v] \in Procs
        BY <3>1, Held DEF InFlight
      <4>2. ~(ProcOf[v] = ProcOf[w] /\ key[v] = key[w])
        BY <2>1, <2>5, <3>1, Alone
      <4>3. mem'[ProcOf[v]][key[v]] = mem[ProcOf[v]][key[v]]
        BY <2>1, <2>2, <4>1, <4>2
      <4>4. QED
        BY <2>1, <2>5, <4>3
    <3>2. CASE ~InFlight(v)
      BY <2>1, <2>5, <3>2 DEF InFlight
    <3>3. QED
      BY <3>1, <3>2
  <2>6. QED
    BY <2>4, <2>5 DEF ValuesFit
<1>8. ASSUME NEW w \in Workers, Create(w)
      PROVE  ValuesFit'
  BY <1>8 DEF Create
<1>9. ASSUME NEW w \in Workers, CreateFails(w)
      PROVE  ValuesFit'
  BY <1>9 DEF CreateFails
<1>10. ASSUME NEW w \in Workers, Write(w)
      PROVE  ValuesFit'
  BY <1>10 DEF Write
<1>11. ASSUME NEW w \in Workers, EncodeFails(w)
      PROVE  ValuesFit'
  BY <1>11 DEF EncodeFails
<1>12. ASSUME NEW w \in Workers, CloseAndRename(w)
      PROVE  ValuesFit'
  BY <1>12 DEF CloseAndRename
<1>13. ASSUME NEW w \in Workers, Return(w)
      PROVE  ValuesFit'
  BY <1>13 DEF Return
<1>14. ASSUME NEW w \in Workers, Leave(w)
      PROVE  ValuesFit'
  BY <1>14 DEF Leave
<1>15. ASSUME NEW p \in Procs, Crash(p)
      PROVE  ValuesFit'
  BY <1>15 DEF Crash
<1>16. CASE UNCHANGED vars
  BY <1>16 DEF vars
<1>17. QED
  BY <1>1, <1>2, <1>3, <1>4, <1>5, <1>6, <1>7, <1>8, <1>9, <1>10, <1>11,
     <1>12, <1>13, <1>14, <1>15, <1>16 DEF Next, Advance

(* Memory never keeps a torn aggregation. *)
LEMMA WholeStep ==
  ASSUME TypeOK, ValuesFit, OnlyWholeKept, [Next]_vars
  PROVE  OnlyWholeKept'
<1> USE ObjectCacheAssumption DEF TypeOK, OnlyWholeKept, fileVars, workerVars
<1>1. ASSUME NEW w \in Workers, NEW k \in Keys, Call(w, k)
      PROVE  OnlyWholeKept'
  BY <1>1 DEF Call
<1>2. ASSUME NEW w \in Workers, Look(w)
      PROVE  OnlyWholeKept'
  BY <1>2 DEF Look
<1>3. ASSUME NEW w \in Workers, Do(w)
      PROVE  OnlyWholeKept'
  BY <1>3 DEF Do
<1>4. ASSUME NEW w \in Workers, Recheck(w)
      PROVE  OnlyWholeKept'
  BY <1>4 DEF Recheck
<1>5. ASSUME NEW w \in Workers, LoadDisk(w)
      PROVE  OnlyWholeKept'
  BY <1>5 DEF LoadDisk
<1>6. ASSUME NEW w \in Workers, Build(w)
      PROVE  OnlyWholeKept'
  BY <1>6 DEF Build
<1>7. ASSUME NEW w \in Workers, Store(w)
      PROVE  OnlyWholeKept'
  BY <1>7 DEF Store, ValuesFit, ValueFits
<1>8. ASSUME NEW w \in Workers, Create(w)
      PROVE  OnlyWholeKept'
  BY <1>8 DEF Create
<1>9. ASSUME NEW w \in Workers, CreateFails(w)
      PROVE  OnlyWholeKept'
  BY <1>9 DEF CreateFails
<1>10. ASSUME NEW w \in Workers, Write(w)
      PROVE  OnlyWholeKept'
  BY <1>10 DEF Write
<1>11. ASSUME NEW w \in Workers, EncodeFails(w)
      PROVE  OnlyWholeKept'
  BY <1>11 DEF EncodeFails
<1>12. ASSUME NEW w \in Workers, CloseAndRename(w)
      PROVE  OnlyWholeKept'
  BY <1>12 DEF CloseAndRename
<1>13. ASSUME NEW w \in Workers, Return(w)
      PROVE  OnlyWholeKept'
  BY <1>13 DEF Return
<1>14. ASSUME NEW w \in Workers, Leave(w)
      PROVE  OnlyWholeKept'
  BY <1>14 DEF Leave
<1>15. ASSUME NEW p \in Procs, Crash(p)
      PROVE  OnlyWholeKept'
  BY <1>15 DEF Crash
<1>16. CASE UNCHANGED vars
  BY <1>16 DEF vars
<1>17. QED
  BY <1>1, <1>2, <1>3, <1>4, <1>5, <1>6, <1>7, <1>8, <1>9, <1>10, <1>11,
     <1>12, <1>13, <1>14, <1>15, <1>16 DEF Next, Advance

(* A new file is no key's yet. *)
LEMMA UnusedIsFree ==
  ASSUME NEW i \in Unused
  PROVE  i \in Inodes /\ \A k \in Keys : ~Holds(k, i)
<1>1. i \in Inodes /\ \A k \in Keys : tmp[k] # i /\ path[k] # i
  BY DEF Unused
<1>2. \A w \in Workers : fd[w] # i
  BY DEF Unused
<1>3. QED
  BY <1>1, <1>2 DEF Holds

(* A goroutine that neither starts nor ends a save leaves the files alone. *)
LEMMA FilesKept ==
  ASSUME TypeOK, FilesApart, NEW w \in Workers, pc[w] # "write",
         NEW l \in ProgramPoints \ {"write"}, Goto(w, l),
         UNCHANGED <<tmp, path, fd, key>>
  PROVE  FilesApart'
BY DEF TypeOK, FilesApart, Holds, Goto

(* Saves of different keys never meet in a file. *)
LEMMA FilesStep ==
  ASSUME TypeOK, KeysAreHeld, FilesApart, [Next]_vars
  PROVE  FilesApart'
<1> USE ObjectCacheAssumption DEF TypeOK, KeysAreHeld, FilesApart, Goto, fileVars, workerVars
<1>1. ASSUME NEW w \in Workers, NEW k \in Keys, Call(w, k)
      PROVE  FilesApart'
  BY <1>1 DEF Call, Holds
<1>2. ASSUME NEW w \in Workers, Look(w)
      PROVE  FilesApart'
  BY <1>2, FilesKept DEF Look
<1>3. ASSUME NEW w \in Workers, Do(w)
      PROVE  FilesApart'
  BY <1>3, FilesKept DEF Do
<1>4. ASSUME NEW w \in Workers, Recheck(w)
      PROVE  FilesApart'
  BY <1>4, FilesKept DEF Recheck
<1>5. ASSUME NEW w \in Workers, LoadDisk(w)
      PROVE  FilesApart'
  BY <1>5, FilesKept DEF LoadDisk
<1>6. ASSUME NEW w \in Workers, Build(w)
      PROVE  FilesApart'
  BY <1>6, FilesKept DEF Build
<1>7. ASSUME NEW w \in Workers, Store(w)
      PROVE  FilesApart'
  BY <1>7, FilesKept DEF Store
<1>8. ASSUME NEW w \in Workers, Create(w)
      PROVE  FilesApart'
  <2>1. key[w] \in Keys
    BY <1>8, Held DEF Create
  <2>2. PICK i \in Inodes : /\ tmp' = [tmp EXCEPT ![key[w]] = i]
                            /\ fd' = [fd EXCEPT ![w] = i]
                            /\ \A k \in Keys : Holds(k, i) => k = key[w]
    <3>1. CASE tmp[key[w]] # None
      <4>1. tmp[key[w]] \in Inodes /\ Holds(key[w], tmp[key[w]])
        BY <2>1, <3>1 DEF Holds
      <4>2. QED
        BY <1>8, <2>1, <3>1, <4>1 DEF Create
    <3>2. CASE tmp[key[w]] = None
      <4> DEFINE i == CHOOSE j \in Unused : TRUE
      <4>0. Unused # {}
        BY SomeUnused
      <4>1. i \in Unused
        BY <4>0
      <4> HIDE DEF i
      <4>2. i \in Inodes /\ \A k \in Keys : ~Holds(k, i)
        BY <4>1, UnusedIsFree
      <4>3. QED
        BY <1>8, <2>1, <3>2, <4>2 DEF Create, i
    <3>3. QED
      BY <3>1, <3>2
  <2>3. pc[w] = "create" /\ pc' = [pc EXCEPT ![w] = "write"] /\ UNCHANGED <<path, key>>
    BY <1>8 DEF Create
  <2>4. ASSUME NEW k \in Keys, NEW j \in Inodes, Holds(k, j)'
        PROVE  Holds(k, j) \/ (k = key[w] /\ j = i)
    BY <2>1, <2>2, <2>3, <2>4 DEF Holds
  <2>5. \A v \in Workers : fd'[v] # None <=> pc'[v] = "write"
    BY <2>2, <2>3
  <2>6. ASSUME NEW k \in Keys, NEW l \in Keys, NEW j \in Inodes,
               Holds(k, j)', Holds(l, j)'
        PROVE  k = l
    BY <2>2, <2>4, <2>6
  <2>7. QED
    BY <2>5, <2>6
<1>9. ASSUME NEW w \in Workers, CreateFails(w)
      PROVE  FilesApart'
  BY <1>9, FilesKept DEF CreateFails
<1>10. ASSUME NEW w \in Workers, Write(w)
      PROVE  FilesApart'
  <2>1. UNCHANGED <<tmp, path, fd, pc, key>>
    BY <1>10 DEF Write
  <2>2. \A k \in Keys, i \in Inodes : Holds(k, i)' <=> Holds(k, i)
    BY <2>1 DEF Holds
  <2>3. QED
    BY <2>1, <2>2
<1>11. ASSUME NEW w \in Workers, EncodeFails(w)
      PROVE  FilesApart'
  <2>1. \A v \in Workers : fd'[v] # None <=> pc'[v] = "write"
    BY <1>11 DEF EncodeFails
  <2>2. ASSUME NEW k \in Keys, NEW i \in Inodes, Holds(k, i)'
        PROVE  Holds(k, i)
    BY <1>11, <2>2 DEF EncodeFails, Holds
  <2>3. QED
    BY <2>1, <2>2
<1>12. ASSUME NEW w \in Workers, CloseAndRename(w)
      PROVE  FilesApart'
  <2>1. \A v \in Workers : fd'[v] # None <=> pc'[v] = "write"
    BY <1>12 DEF CloseAndRename
  <2>2. ASSUME NEW k \in Keys, NEW i \in Inodes, Holds(k, i)'
        PROVE  Holds(k, i)
    BY <1>12, <2>2 DEF CloseAndRename, Holds
  <2>3. QED
    BY <2>1, <2>2
<1>13. ASSUME NEW w \in Workers, Return(w)
      PROVE  FilesApart'
  <2>1. \A v \in Workers : fd'[v] # None <=> pc'[v] = "write"
    BY <1>13 DEF Return, Joined
  <2>2. ASSUME NEW k \in Keys, NEW i \in Inodes, Holds(k, i)'
        PROVE  Holds(k, i)
    BY <1>13, <2>2 DEF Return, Holds
  <2>3. QED
    BY <2>1, <2>2
<1>14. ASSUME NEW w \in Workers, Leave(w)
      PROVE  FilesApart'
  <2>1. \A v \in Workers : fd'[v] # None <=> pc'[v] = "write"
    BY <1>14 DEF Leave
  <2>2. ASSUME NEW k \in Keys, NEW i \in Inodes, Holds(k, i)'
        PROVE  Holds(k, i)
    BY <1>14, <2>2 DEF Leave, Holds
  <2>3. QED
    BY <2>1, <2>2
<1>15. ASSUME NEW p \in Procs, Crash(p)
      PROVE  FilesApart'
  <2>1. \A v \in Workers : fd'[v] # None <=> pc'[v] = "write"
    BY <1>15 DEF Crash
  <2>2. ASSUME NEW k \in Keys, NEW i \in Inodes, Holds(k, i)'
        PROVE  Holds(k, i)
    BY <1>15, <2>2 DEF Crash, Holds
  <2>3. QED
    BY <2>1, <2>2
<1>16. CASE UNCHANGED vars
  BY <1>16 DEF vars, Holds
<1>17. QED
  BY <1>1, <1>2, <1>3, <1>4, <1>5, <1>6, <1>7, <1>8, <1>9, <1>10, <1>11,
     <1>12, <1>13, <1>14, <1>15, <1>16 DEF Next, Advance

(***************************************************************************)
(* The parts of IInv hold at the start and after every step.               *)
(***************************************************************************)
THEOREM Inductive == Spec => []IInv
<1>1. Init => IInv
  <2> SUFFICES ASSUME Init PROVE IInv
    OBVIOUS
  <2>1. TypeOK
    BY ObjectCacheAssumption DEF Init, TypeOK
  <2>2. KeysAreHeld /\ FlightsMatchLeaders /\ ValuesFit /\ OnlyWholeKept /\ FilesApart
    BY ObjectCacheAssumption
       DEF Init, KeysAreHeld, FlightsMatchLeaders, InFlight, ValuesFit, ValueFits,
           OnlyWholeKept, FilesApart, Holds
  <2>3. QED
    BY <2>1, <2>2 DEF IInv
<1>2. IInv /\ [Next]_vars => IInv'
  BY TypeStep, KeysStep, FlightStep, ValuesStep, WholeStep, FilesStep DEF IInv
<1>3. QED
  BY <1>1, <1>2, PTL DEF Spec

(***************************************************************************)
(* Type correctness of the object caches, their files and the goroutines   *)
(* that use them.  (objcache.go:21-143)                                    *)
(***************************************************************************)
THEOREM TypeCorrect == Spec => []TypeOK
<1>1. IInv => TypeOK
  BY DEF IInv
<1>2. QED
  BY <1>1, Inductive, PTL

(***************************************************************************)
(* No two goroutines of a process fetch one object at a time, and none     *)
(* fetches what its process already has in memory.  (objcache.go:64-98)    *)
(***************************************************************************)
THEOREM FetchesAreShared == Spec => []FetchedOnce
<1>1. IInv => FetchedOnce
  <2> SUFFICES ASSUME IInv, NEW w \in Workers, Fetching(w)
               PROVE  /\ ~InMem(w)
                      /\ \A v \in Workers \ {w} :
                           ProcOf[v] = ProcOf[w] /\ key[v] = key[w] => ~Fetching(v)
    BY DEF FetchedOnce
  <2>1. ~InMem(w)
    BY DEF IInv, ValuesFit, ValueFits, Fetching
  <2>2. \A v \in Workers : Fetching(v) => InFlight(v)
    BY DEF Fetching, InFlight
  <2>3. QED
    BY <2>1, <2>2, Alone DEF IInv
<1>2. QED
  BY <1>1, Inductive, PTL

(* Only a save of an object makes its blob whole. *)
LEMMA MadeWhole ==
  ASSUME IInv, [Next]_vars, NEW k \in Keys, Decodes(k)', ~Decodes(k)
  PROVE  \E w \in Workers : pc[w] = "write" /\ key[w] = k
<1> USE ObjectCacheAssumption DEF Decodes, Read, fileVars
<1>0. TypeOK /\ KeysAreHeld /\ FilesApart
  BY DEF IInv
<1>1. ASSUME NEW w \in Workers, Create(w)
      PROVE  FALSE
  <2>1. PICK i : data' = [data EXCEPT ![i] = {}]
    BY <1>1 DEF Create
  <2>2. path' = path /\ Whole # {}
    BY <1>1 DEF Create, Whole
  <2>3. CASE path[k] = i
    BY <1>0, <2>1, <2>2, <2>3 DEF TypeOK
  <2>4. CASE path[k] # i
    BY <1>0, <2>1, <2>2, <2>4 DEF TypeOK
  <2>5. QED
    BY <2>3, <2>4
<1>2. ASSUME NEW w \in Workers, Write(w)
      PROVE  pc[w] = "write" /\ key[w] = k
  <2>1. /\ pc[w] = "write" /\ path' = path
        /\ data' = [data EXCEPT ![fd[w]] = @ \cup {off[w] + 1}]
    BY <1>2 DEF Write
  <2>2. fd[w] \in Inodes /\ key[w] \in Keys
    BY <1>0, <2>1, Held DEF TypeOK, FilesApart
  <2>3. path[k] = fd[w]
    BY <1>0, <2>1 DEF TypeOK
  <2>4. QED
    BY <1>0, <2>1, <2>2, <2>3 DEF FilesApart, Holds
<1>3. ASSUME NEW w \in Workers, CloseAndRename(w)
      PROVE  pc[w] = "write" /\ key[w] = k
  BY <1>0, <1>3 DEF CloseAndRename, TypeOK
<1>4. ASSUME UNCHANGED <<path, data>>
      PROVE  FALSE
  BY <1>4
<1>5. QED
  BY <1>1, <1>2, <1>3, <1>4
     DEF Next, Advance, vars, Call, Look, Do, Recheck, LoadDisk, Build, Store,
         CreateFails, EncodeFails, Return, Leave, Crash

(* A goroutine decides to fetch when it has seen no whole blob. *)
LEMMA ToBuild ==
  ASSUME IInv, [Next]_vars, NEW w \in Workers, pc'[w] = "build"
  PROVE  \/ pc[w] = "build" /\ key'[w] = key[w]
         \/ pc[w] = "load" /\ ~Decodes(key[w]) /\ UNCHANGED <<key, path, data>>
<1> DEFINE Goal == \/ pc[w] = "build" /\ key'[w] = key[w]
                   \/ pc[w] = "load" /\ ~Decodes(key[w]) /\ UNCHANGED <<key, path, data>>
<1> USE DEF IInv, TypeOK, Goto, fileVars, workerVars
<1>1. ASSUME NEW v \in Workers, NEW k \in Keys, Call(v, k)
      PROVE  Goal
  BY <1>1 DEF Call
<1>2. ASSUME NEW v \in Workers, Look(v)
      PROVE  Goal
  BY <1>2 DEF Look
<1>3. ASSUME NEW v \in Workers, Do(v)
      PROVE  Goal
  BY <1>3 DEF Do
<1>4. ASSUME NEW v \in Workers, Recheck(v)
      PROVE  Goal
  BY <1>4 DEF Recheck
<1>5. ASSUME NEW v \in Workers, LoadDisk(v)
      PROVE  Goal
  BY <1>5 DEF LoadDisk
<1>6. ASSUME NEW v \in Workers, Build(v)
      PROVE  Goal
  BY <1>6 DEF Build
<1>7. ASSUME NEW v \in Workers, Store(v)
      PROVE  Goal
  BY <1>7 DEF Store
<1>8. ASSUME NEW v \in Workers, Create(v)
      PROVE  Goal
  BY <1>8 DEF Create
<1>9. ASSUME NEW v \in Workers, CreateFails(v)
      PROVE  Goal
  BY <1>9 DEF CreateFails
<1>10. ASSUME NEW v \in Workers, Write(v)
      PROVE  Goal
  BY <1>10 DEF Write
<1>11. ASSUME NEW v \in Workers, EncodeFails(v)
      PROVE  Goal
  BY <1>11 DEF EncodeFails
<1>12. ASSUME NEW v \in Workers, CloseAndRename(v)
      PROVE  Goal
  BY <1>12 DEF CloseAndRename
<1>13. ASSUME NEW v \in Workers, Return(v)
      PROVE  Goal
  BY <1>13 DEF Return
<1>14. ASSUME NEW v \in Workers, Leave(v)
      PROVE  Goal
  BY <1>14 DEF Leave
<1>15. ASSUME NEW p \in Procs, Crash(p)
      PROVE  Goal
  BY <1>15 DEF Crash
<1>16. CASE UNCHANGED vars
  BY <1>16 DEF vars
<1>17. QED
  BY <1>1, <1>2, <1>3, <1>4, <1>5, <1>6, <1>7, <1>8, <1>9, <1>10, <1>11,
     <1>12, <1>13, <1>14, <1>15, <1>16 DEF Next, Advance

(***************************************************************************)
(* What a goroutine fetches is not whole on disk, unless a goroutine of    *)
(* another process saved it after this one looked.  (objcache.go:82-85)    *)
(***************************************************************************)
THEOREM DiskSparesFetches == Spec => BlobSparesFetch
<1>1. IInv /\ [Next]_vars =>
        [\A w \in Workers :
           pc'[w] = "build" /\ Decodes(key[w])' =>
             \/ pc[w] = "build" /\ Decodes(key[w])
             \/ \E v \in Workers : pc[v] = "write" /\ key[v] = key[w] /\ ProcOf[v] # ProcOf[w]]_vars
  <2> SUFFICES ASSUME IInv, [Next]_vars, NEW w \in Workers,
                      pc'[w] = "build", Decodes(key[w])',
                      ~(pc[w] = "build" /\ Decodes(key[w]))
               PROVE  \E v \in Workers : pc[v] = "write" /\ key[v] = key[w] /\ ProcOf[v] # ProcOf[w]
    OBVIOUS
  <2>1. pc[w] = "build" /\ key'[w] = key[w] /\ ~Decodes(key[w])
    <3>1. CASE pc[w] = "build" /\ key'[w] = key[w]
      BY <3>1
    <3>2. CASE pc[w] = "load" /\ ~Decodes(key[w]) /\ UNCHANGED <<key, path, data>>
      BY <3>2 DEF Decodes, Read
    <3>3. QED
      BY <3>1, <3>2, ToBuild
  <2>2. key[w] \in Keys /\ InFlight(w)
    BY <2>1, Held DEF IInv, InFlight
  <2>3. PICK v \in Workers : pc[v] = "write" /\ key[v] = key[w]
    <3>1. \A k \in Keys : Decodes(k)' /\ ~Decodes(k) =>
            \E v \in Workers : pc[v] = "write" /\ key[v] = k
      BY MadeWhole
    <3>2. QED
      BY <2>1, <2>2, <3>1
  <2>4. ProcOf[v] # ProcOf[w]
    BY <2>1, <2>2, <2>3, Alone DEF IInv, InFlight
  <2>5. QED
    BY <2>3, <2>4
<1>2. QED
  BY <1>1, Inductive, PTL DEF Spec, BlobSparesFetch

(* A goroutine that moves short of its answer changes nothing to be seen. *)
LEMMA Unseen ==
  ASSUME TypeOK, NEW w \in Workers, pc[w] # "done",
         NEW l \in ProgramPoints \ {"done"}, Goto(w, l), UNCHANGED <<mem, key>>,
         val' = val \/ \E v \in Values : Hold(w, v)
  PROVE  UNCHANGED <<Known, key, Answer>>
<1>1. Known' = Known
  BY DEF Known
<1>2. ASSUME NEW v \in Workers
      PROVE  (IF pc'[v] = "done" THEN val'[v] ELSE "none")
               = IF pc[v] = "done" THEN val[v] ELSE "none"
  BY DEF TypeOK, Goto, Hold
<1>3. Answer' = Answer
  BY <1>2 DEF Answer
<1>4. QED
  BY <1>1, <1>3

(* Every step is one of MemoService, or none. *)
LEMMA MemoStep ==
  ASSUME IInv, [Next]_vars
  PROVE  Memo!MemoNext \/ UNCHANGED <<Known, key, Answer>>
<1> USE ObjectCacheAssumption DEF ProgramPoints
<1>1. ASSUME NEW w \in Workers, NEW k \in Keys, Call(w, k)
      PROVE  Memo!MemoNext \/ UNCHANGED <<Known, key, Answer>>
  <2>1. Known' = Known /\ Answer' = Answer
    <3>1. ASSUME NEW v \in Workers
          PROVE  (IF pc'[v] = "done" THEN val'[v] ELSE "none")
                   = IF pc[v] = "done" THEN val[v] ELSE "none"
      BY <1>1 DEF Call, IInv, TypeOK, Goto
    <3>2. QED
      BY <1>1, <3>1 DEF Call, Known, Answer
  <2>2. Memo!Ask(w, k)
    BY <1>1, <2>1 DEF Call, Memo!Ask, IInv, KeysAreHeld
  <2>3. QED
    BY <2>2 DEF Memo!MemoNext
<1>2. ASSUME NEW w \in Workers, Look(w)
      PROVE  Memo!MemoNext \/ UNCHANGED <<Known, key, Answer>>
  <2>1. CASE InMem(w)
    <3>1. /\ pc[w] = "look" /\ pc' = [pc EXCEPT ![w] = "done"]
          /\ val' = [val EXCEPT ![w] = mem[ProcOf[w]][key[w]]]
          /\ UNCHANGED <<mem, key>>
      BY <1>2, <2>1 DEF Look, Goto, Hold
    <3>2. key[w] \in Keys /\ ProcOf[w] \in Procs
      BY <3>1, Held DEF IInv
    <3>3. mem[ProcOf[w]][key[w]] = "whole"
      BY <2>1, <3>2 DEF InMem, IInv, TypeOK, OnlyWholeKept
    <3>4. Answer' = [v \in Workers |-> IF v \in {w} THEN "whole" ELSE Answer[v]]
      BY <3>1, <3>3 DEF Answer, IInv, TypeOK
    <3>5. Answer[w] = "none" /\ key[w] \in Known[ProcOf[w]] /\ Known' = Known
      BY <3>1, <3>2, <3>3 DEF Answer, Known
    <3>6. Memo!AnswerAll({w}, ProcOf[w], key[w], "whole")
      BY <3>1, <3>4, <3>5 DEF Memo!AnswerAll, Memo!Waiting
    <3>7. QED
      BY <3>2, <3>6 DEF Memo!MemoNext
  <2>2. CASE ~InMem(w)
    <3>1. pc[w] = "look" /\ Goto(w, "do") /\ UNCHANGED <<mem, key, val>>
      BY <1>2, <2>2 DEF Look
    <3>2. QED
      BY <3>1, Unseen DEF IInv
  <2>3. QED
    BY <2>1, <2>2
<1>3. ASSUME NEW w \in Workers, Do(w)
      PROVE  Memo!MemoNext \/ UNCHANGED <<Known, key, Answer>>
  BY <1>3, Unseen DEF Do, IInv, fileVars, workerVars
<1>4. ASSUME NEW w \in Workers, Recheck(w)
      PROVE  Memo!MemoNext \/ UNCHANGED <<Known, key, Answer>>
  <2>1. InMem(w) => mem[ProcOf[w]][key[w]] \in Values
    BY <1>4, Held DEF Recheck, IInv, TypeOK
  <2>2. QED
    BY <1>4, <2>1, Unseen DEF Recheck, IInv
<1>5. ASSUME NEW w \in Workers, LoadDisk(w)
      PROVE  Memo!MemoNext \/ UNCHANGED <<Known, key, Answer>>
  <2>1. Read(key[w]) \in Values
    BY DEF Read
  <2>2. QED
    BY <1>5, <2>1, Unseen DEF LoadDisk, IInv
<1>6. ASSUME NEW w \in Workers, Build(w)
      PROVE  Memo!MemoNext \/ UNCHANGED <<Known, key, Answer>>
  BY <1>6, Unseen DEF Build, IInv, fileVars, workerVars
<1>7. ASSUME NEW w \in Workers, Store(w)
      PROVE  Memo!MemoNext \/ UNCHANGED <<Known, key, Answer>>
  <2>1. /\ pc[w] \in {"keep", "store"} /\ UNCHANGED <<key, val>>
        /\ pc' = [pc EXCEPT ![w] = IF pc[w] = "keep" THEN "return" ELSE "create"]
        /\ mem' = [mem EXCEPT ![ProcOf[w]][key[w]] = "whole"]
    BY <1>7 DEF Store, Goto, IInv, ValuesFit, ValueFits
  <2>2. key[w] \in Keys /\ ProcOf[w] \in Procs
    BY <2>1, Held DEF IInv
  <2>3. Answer' = Answer /\ Answer[w] = "none"
    BY <2>1 DEF Answer, IInv, TypeOK
  <2>4. Known' = [Known EXCEPT ![ProcOf[w]] = @ \cup {key[w]}]
    <3>1. ASSUME NEW p \in Procs
          PROVE  {k \in Keys : mem'[p][k] = "whole"} =
                   IF p = ProcOf[w] THEN {k \in Keys : mem[p][k] = "whole"} \cup {key[w]}
                   ELSE {k \in Keys : mem[p][k] = "whole"}
      BY <2>1, <2>2 DEF IInv, TypeOK
    <3>2. QED
      BY <2>2, <3>1 DEF Known
  <2>5. Memo!Learn(ProcOf[w], key[w])
    BY <2>1, <2>3, <2>4 DEF Memo!Learn, Memo!Waiting
  <2>6. QED
    BY <2>2, <2>5 DEF Memo!MemoNext
<1>8. ASSUME NEW w \in Workers, Create(w)
      PROVE  Memo!MemoNext \/ UNCHANGED <<Known, key, Answer>>
  BY <1>8, Unseen DEF Create, IInv, fileVars, workerVars
<1>9. ASSUME NEW w \in Workers, CreateFails(w)
      PROVE  Memo!MemoNext \/ UNCHANGED <<Known, key, Answer>>
  BY <1>9, Unseen DEF CreateFails, IInv, fileVars, workerVars
<1>10. ASSUME NEW w \in Workers, Write(w)
      PROVE  Memo!MemoNext \/ UNCHANGED <<Known, key, Answer>>
  BY <1>10 DEF Write, workerVars, Known, Answer
<1>11. ASSUME NEW w \in Workers, EncodeFails(w)
      PROVE  Memo!MemoNext \/ UNCHANGED <<Known, key, Answer>>
  BY <1>11, Unseen DEF EncodeFails, IInv, fileVars, workerVars
<1>12. ASSUME NEW w \in Workers, CloseAndRename(w)
      PROVE  Memo!MemoNext \/ UNCHANGED <<Known, key, Answer>>
  BY <1>12, Unseen DEF CloseAndRename, IInv, fileVars, workerVars
<1>13. ASSUME NEW w \in Workers, Return(w)
      PROVE  Memo!MemoNext \/ UNCHANGED <<Known, key, Answer>>
  <2>1. key[w] \in Keys /\ ProcOf[w] \in Procs
    BY <1>13, Held DEF Return, IInv
  <2>2. /\ pc[w] = "return" /\ UNCHANGED <<mem, key>>
        /\ pc' = [v \in Workers |-> IF v \in Joined(w) THEN "done" ELSE pc[v]]
        /\ val' = [v \in Workers |-> IF v \in Joined(w) THEN val[w] ELSE val[v]]
    BY <1>13 DEF Return
  <2>3. /\ w \in Joined(w) /\ Joined(w) \in SUBSET Workers
        /\ \A v \in Joined(w) : /\ pc[v] \in {"return", "wait"}
                                /\ ProcOf[v] = ProcOf[w] /\ key[v] = key[w]
    BY <2>2 DEF Joined
  <2>4. /\ val[w] \in {"whole", "error"}
        /\ val[w] = "whole" <=> mem[ProcOf[w]][key[w]] = "whole"
    BY <2>1, <2>2 DEF IInv, ValuesFit, ValueFits, InMem, OnlyWholeKept, TypeOK
  <2>5. Known' = Known /\ (key[w] \in Known[ProcOf[w]] <=> val[w] = "whole")
    BY <2>1, <2>2, <2>4 DEF Known
  <2>6. Answer' = [v \in Workers |-> IF v \in Joined(w) THEN val[w] ELSE Answer[v]]
    BY <2>2 DEF Answer
  <2>7. \A v \in Joined(w) : Memo!Waiting(v, ProcOf[w], key[w])
    BY <2>3 DEF Memo!Waiting, Answer
  <2>8. Memo!AnswerAll(Joined(w), ProcOf[w], key[w], val[w])
    BY <2>2, <2>3, <2>5, <2>6, <2>7 DEF Memo!AnswerAll
  <2>9. QED
    BY <2>1, <2>3, <2>4, <2>8 DEF Memo!MemoNext
<1>14. ASSUME NEW w \in Workers, Leave(w)
      PROVE  Memo!MemoNext \/ UNCHANGED <<Known, key, Answer>>
  <2>1. /\ pc[w] = "done" /\ UNCHANGED mem /\ pc' = [pc EXCEPT ![w] = "idle"]
        /\ key' = [key EXCEPT ![w] = None] /\ val' = [val EXCEPT ![w] = "none"]
    BY <1>14 DEF Leave, Goto, Hold
  <2>2. Answer[w] # "none" /\ Known' = Known
    BY <2>1 DEF Answer, Known, IInv, ValuesFit, ValueFits
  <2>3. Answer' = [Answer EXCEPT ![w] = "none"]
    BY <2>1 DEF Answer, IInv, TypeOK
  <2>4. Memo!Release(w)
    BY <2>1, <2>2, <2>3 DEF Memo!Release
  <2>5. QED
    BY <2>4 DEF Memo!MemoNext
<1>15. ASSUME NEW p \in Procs, Crash(p)
      PROVE  Memo!MemoNext \/ UNCHANGED <<Known, key, Answer>>
  <2>1. Known' = [Known EXCEPT ![p] = {}]
    BY <1>15 DEF Crash, Known, IInv, TypeOK
  <2>2. Answer' = [w \in Workers |-> IF ProcOf[w] = p THEN "none" ELSE Answer[w]]
    BY <1>15 DEF Crash, Answer
  <2>3. Memo!Restart(p)
    BY <1>15, <2>1, <2>2 DEF Crash, Memo!Restart
  <2>4. QED
    BY <2>3 DEF Memo!MemoNext
<1>16. CASE UNCHANGED vars
  BY <1>16 DEF vars, workerVars, Known, Answer
<1>17. QED
  BY <1>1, <1>2, <1>3, <1>4, <1>5, <1>6, <1>7, <1>8, <1>9, <1>10, <1>11,
     <1>12, <1>13, <1>14, <1>15, <1>16 DEF Next, Advance

(***************************************************************************)
(* The cache implements MemoService: only whole aggregations are handed    *)
(* out, everyone who shared a flight gets its result, and nobody is given  *)
(* an error for what the process knows.  (objcache.go:64-98, 103-143)      *)
(***************************************************************************)
THEOREM CacheImplementsMemo == Spec => ImplementsMemo
<1>1. Init => Memo!MemoInit
  <2> SUFFICES ASSUME Init PROVE Memo!MemoInit
    OBVIOUS
  <2>1. Known = [p \in Procs |-> {}] /\ Answer = [w \in Workers |-> "none"]
    BY DEF Init, Known, Answer
  <2>2. QED
    BY <2>1 DEF Init, Memo!MemoInit
<1>2. IInv /\ [Next]_vars => [Memo!MemoNext]_Memo!memoVars
  BY MemoStep DEF Memo!memoVars
<1>3. QED
  BY <1>1, <1>2, Inductive, PTL DEF Spec, ImplementsMemo, Memo!MemoSpec

=================================================================================
