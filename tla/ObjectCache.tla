------------------------------ MODULE ObjectCache ------------------------------
(***************************************************************************)
(* The per-object cache of parsed profiles (internal/cache/objcache.go) as *)
(* used by one or several server processes that share a -cache-dir: the    *)
(* memory map of each process, the singleflight group in front of it, and  *)
(* the blobs on disk, written to <key>.gob.tmp and renamed to <key>.gob.   *)
(*                                                                         *)
(* A blob is a gob stream of Chunks writes (type descriptions, then the    *)
(* value).  Files are inodes: os.Create of an existing tmp truncates the   *)
(* inode another process may still be writing at its own offset, a rename  *)
(* moves whatever the tmp name names, and a name that moved away makes the *)
(* rename fail, which the code ignores.  A process may crash at any point; *)
(* what it wrote stays (loss of the page cache is not modelled).           *)
(***************************************************************************)
EXTENDS Naturals, FiniteSets

CONSTANTS
  Procs,      \* server processes
  Workers,    \* goroutines calling GetOrBuild
  ProcOf,     \* ProcOf[w]: the process of goroutine w
  Keys,       \* ObjectKey values
  Chunks,     \* writes that make up one blob
  Inodes,     \* bound: files that exist at once
  MaxCrashes, \* bound: process crashes
  None

ASSUME ObjectCacheAssumption ==
  /\ ProcOf \in [Workers -> Procs]
  /\ Chunks \in Nat \ {0}
  /\ MaxCrashes \in Nat
  /\ None \notin Workers \cup Inodes \cup Keys
\* An inode is named by tmp, by path, or only by a descriptor.
ASSUME EnoughInodes ==
  /\ IsFiniteSet(Keys) /\ IsFiniteSet(Workers)
  /\ Cardinality(Inodes) > 2 * Cardinality(Keys) + Cardinality(Workers)

VARIABLES
  mem,     \* mem[p][k]: ObjectCache.mem of process p
  flight,  \* flight[p][k]: ObjectCache.sf, the leader of the call in flight
  tmp,     \* tmp[k]: the inode named <k>.gob.tmp, or None
  path,    \* path[k]: the inode named <k>.gob, or None
  data,    \* data[i]: the chunks of inode i that hold data (not a hole)
  pc, key, \* where each goroutine is, and the key it was called with
  val,     \* val[w]: the aggregation or error it holds
  fd, off, \* the file it writes and its offset
  crashes

workerVars == <<pc, key, val>>
fileVars == <<tmp, path, data, fd, off>>
vars == <<mem, flight, fileVars, workerVars, crashes>>

Whole == 1..Chunks
ProgramPoints == {"idle", "look", "do", "wait", "recheck", "load", "keep", "build",
           "store", "create", "write", "return", "done"}
Values == {"none", "whole", "torn", "error"}

Init ==
  /\ mem = [p \in Procs |-> [k \in Keys |-> "none"]]
  /\ flight = [p \in Procs |-> [k \in Keys |-> None]]
  /\ tmp = [k \in Keys |-> None]
  /\ path = [k \in Keys |-> None]
  /\ data = [i \in Inodes |-> {}]
  /\ pc = [w \in Workers |-> "idle"]
  /\ key = [w \in Workers |-> None]
  /\ val = [w \in Workers |-> "none"]
  /\ fd = [w \in Workers |-> None]
  /\ off = [w \in Workers |-> 0]
  /\ crashes = 0

-----------------------------------------------------------------------------
Goto(w, l) == pc' = [pc EXCEPT ![w] = l]
Hold(w, v) == val' = [val EXCEPT ![w] = v]
InMem(w) == mem[ProcOf[w]][key[w]] # "none"
Leader(w) == flight[ProcOf[w]][key[w]]

(* buildGroup calls GetOrBuild for one member. *)
Call(w, k) ==
  /\ pc[w] = "idle"
  /\ Goto(w, "look")
  /\ key' = [key EXCEPT ![w] = k]
  /\ UNCHANGED <<mem, flight, fileVars, val, crashes>>

(* The first look at the memory map, under the read lock. *)
Look(w) ==
  /\ pc[w] = "look"
  /\ \/ InMem(w) /\ Goto(w, "done") /\ Hold(w, mem[ProcOf[w]][key[w]])
     \/ ~InMem(w) /\ Goto(w, "do") /\ UNCHANGED val
  /\ UNCHANGED <<mem, flight, fileVars, key, crashes>>

(* sf.Do: lead a flight for the key or wait for the one in progress. *)
Do(w) ==
  /\ pc[w] = "do"
  /\ \/ /\ Leader(w) = None
        /\ flight' = [flight EXCEPT ![ProcOf[w]][key[w]] = w]
        /\ Goto(w, "recheck")
     \/ Leader(w) # None /\ Goto(w, "wait") /\ UNCHANGED flight
  /\ UNCHANGED <<mem, fileVars, key, val, crashes>>

(* Mutant of Recheck: the flight does not look at the map again. *)
RecheckSkipped(w) ==
  /\ pc[w] = "recheck"
  /\ Goto(w, "load")
  /\ UNCHANGED <<mem, flight, fileVars, key, val, crashes>>

(* The second look, inside the flight. *)
Recheck(w) ==
  /\ pc[w] = "recheck"
  /\ \/ InMem(w) /\ Goto(w, "return") /\ Hold(w, mem[ProcOf[w]][key[w]])
     \/ ~InMem(w) /\ Goto(w, "load") /\ UNCHANGED val
  /\ UNCHANGED <<mem, flight, fileVars, key, crashes>>

(***************************************************************************)
(* loadDisk: no file, or a stream that does not decode, is a miss.  The    *)
(* read is one step: a file that has the final name is only ever written   *)
(* to, never truncated, so a read spread over time sees no more than one   *)
(* at its end and no less than one at its start.                           *)
(***************************************************************************)
Read(k) == IF data[path[k]] = Whole THEN "whole" ELSE "torn"

(* Mutant of Decodes: the decoder's error is ignored. *)
OpensOnly(k) == path[k] # None

Decodes(k) == path[k] # None /\ Read(k) = "whole"

(* Mutant of LoadDisk: the disk is never consulted. *)
LoadNothing(w) ==
  /\ pc[w] = "load"
  /\ Goto(w, "build")
  /\ UNCHANGED <<mem, flight, fileVars, key, val, crashes>>

LoadDisk(w) ==
  /\ pc[w] = "load"
  /\ \/ Decodes(key[w]) /\ Goto(w, "keep") /\ Hold(w, Read(key[w]))
     \/ ~Decodes(key[w]) /\ Goto(w, "build") /\ UNCHANGED val
  /\ UNCHANGED <<mem, flight, fileVars, key, crashes>>

(* build(): download, parse, aggregate; an error ends the flight. *)
Build(w) ==
  /\ pc[w] = "build"
  /\ \/ Goto(w, "store") /\ Hold(w, "whole")
     \/ Goto(w, "return") /\ Hold(w, "error")
  /\ UNCHANGED <<mem, flight, fileVars, key, crashes>>

(* store: the memory map first, under the lock; a built value is then saved. *)
Store(w) ==
  /\ pc[w] \in {"keep", "store"}
  /\ mem' = [mem EXCEPT ![ProcOf[w]][key[w]] = val[w]]
  /\ Goto(w, IF pc[w] = "keep" THEN "return" ELSE "create")
  /\ UNCHANGED <<flight, fileVars, key, val, crashes>>

(* os.Create: truncate what has the tmp name, or make a new file. *)
Unused == Inodes \ ({tmp[k] : k \in Keys} \cup {path[k] : k \in Keys}
                      \cup {fd[w] : w \in Workers})

(* Mutant of Create: the blob is written in place, under its final name. *)
CreateInPlace(w) ==
  /\ pc[w] = "create"
  /\ LET i == IF path[key[w]] # None THEN path[key[w]] ELSE CHOOSE j \in Unused : TRUE
     IN /\ path' = [path EXCEPT ![key[w]] = i]
        /\ data' = [data EXCEPT ![i] = {}]
        /\ fd' = [fd EXCEPT ![w] = i]
  /\ off' = [off EXCEPT ![w] = 0]
  /\ Goto(w, "write")
  /\ UNCHANGED <<mem, flight, tmp, key, val, crashes>>

Create(w) ==
  /\ pc[w] = "create"
  /\ LET i == IF tmp[key[w]] # None THEN tmp[key[w]] ELSE CHOOSE j \in Unused : TRUE
     IN /\ tmp' = [tmp EXCEPT ![key[w]] = i]
        /\ data' = [data EXCEPT ![i] = {}]
        /\ fd' = [fd EXCEPT ![w] = i]
  /\ off' = [off EXCEPT ![w] = 0]
  /\ Goto(w, "write")
  /\ UNCHANGED <<mem, flight, path, key, val, crashes>>

(* os.Create fails: nothing is saved, the caller is not told. *)
CreateFails(w) ==
  /\ pc[w] = "create"
  /\ Goto(w, "return")
  /\ UNCHANGED <<mem, flight, fileVars, key, val, crashes>>

(* Encode writes the next chunk at the offset of this descriptor. *)
Write(w) ==
  /\ pc[w] = "write" /\ off[w] < Chunks
  /\ data' = [data EXCEPT ![fd[w]] = @ \cup {off[w] + 1}]
  /\ off' = [off EXCEPT ![w] = @ + 1]
  /\ UNCHANGED <<mem, flight, tmp, path, fd, workerVars, crashes>>

(* Encode fails: close the file and remove whatever has the tmp name. *)
EncodeFails(w) ==
  /\ pc[w] = "write" /\ off[w] < Chunks
  /\ tmp' = [tmp EXCEPT ![key[w]] = None]
  /\ fd' = [fd EXCEPT ![w] = None]
  /\ off' = [off EXCEPT ![w] = 0]
  /\ Goto(w, "return")
  /\ UNCHANGED <<mem, flight, path, data, key, val, crashes>>

(* Close; rename whatever has the tmp name; a missing tmp is ignored. *)
CloseAndRename(w) ==
  /\ pc[w] = "write" /\ off[w] = Chunks
  /\ path' = IF tmp[key[w]] = None THEN path
             ELSE [path EXCEPT ![key[w]] = tmp[key[w]]]
  /\ tmp' = [tmp EXCEPT ![key[w]] = None]
  /\ fd' = [fd EXCEPT ![w] = None]
  /\ off' = [off EXCEPT ![w] = 0]
  /\ Goto(w, "return")
  /\ UNCHANGED <<mem, flight, data, key, val, crashes>>

(* The flight ends, its key is forgotten, everyone has the leader's result. *)
Joined(w) == {w} \cup {v \in Workers : /\ pc[v] = "wait" /\ key[v] = key[w]
                                       /\ ProcOf[v] = ProcOf[w]}

(* Mutant of Return: a failed flight is not forgotten. *)
ReturnKeepsFailedFlight(w) ==
  /\ pc[w] = "return"
  /\ flight' = IF val[w] = "error" THEN flight
               ELSE [flight EXCEPT ![ProcOf[w]][key[w]] = None]
  /\ pc' = [v \in Workers |-> IF v \in Joined(w) THEN "done" ELSE pc[v]]
  /\ val' = [v \in Workers |-> IF v \in Joined(w) THEN val[w] ELSE val[v]]
  /\ UNCHANGED <<mem, fileVars, key, crashes>>

Return(w) ==
  /\ pc[w] = "return"
  /\ flight' = [flight EXCEPT ![ProcOf[w]][key[w]] = None]
  /\ pc' = [v \in Workers |-> IF v \in Joined(w) THEN "done" ELSE pc[v]]
  /\ val' = [v \in Workers |-> IF v \in Joined(w) THEN val[w] ELSE val[v]]
  /\ UNCHANGED <<mem, fileVars, key, crashes>>

(* GetOrBuild has returned; the goroutine goes on. *)
Leave(w) ==
  /\ pc[w] = "done"
  /\ Goto(w, "idle")
  /\ key' = [key EXCEPT ![w] = None]
  /\ Hold(w, "none")
  /\ UNCHANGED <<mem, flight, fileVars, crashes>>

(* Process p dies and is started again: files stay, the rest is gone. *)
Crash(p) ==
  /\ crashes < MaxCrashes
  /\ crashes' = crashes + 1
  /\ mem' = [mem EXCEPT ![p] = [k \in Keys |-> "none"]]
  /\ flight' = [flight EXCEPT ![p] = [k \in Keys |-> None]]
  /\ pc' = [w \in Workers |-> IF ProcOf[w] = p THEN "idle" ELSE pc[w]]
  /\ key' = [w \in Workers |-> IF ProcOf[w] = p THEN None ELSE key[w]]
  /\ val' = [w \in Workers |-> IF ProcOf[w] = p THEN "none" ELSE val[w]]
  /\ fd' = [w \in Workers |-> IF ProcOf[w] = p THEN None ELSE fd[w]]
  /\ off' = [w \in Workers |-> IF ProcOf[w] = p THEN 0 ELSE off[w]]
  /\ UNCHANGED <<tmp, path, data>>

Advance(w) ==
  \/ Look(w) \/ Do(w) \/ Recheck(w) \/ LoadDisk(w) \/ Build(w) \/ Store(w)
  \/ Create(w) \/ CreateFails(w) \/ Write(w) \/ EncodeFails(w)
  \/ CloseAndRename(w) \/ Return(w) \/ Leave(w)

Next ==
  \/ \E w \in Workers : Advance(w) \/ \E k \in Keys : Call(w, k)
  \/ \E p \in Procs : Crash(p)

Spec == Init /\ [][Next]_vars

(* Goroutines run and fetches end; callers and crashes are free. *)
FairSpec == Spec /\ \A w \in Workers : WF_vars(Advance(w))

-----------------------------------------------------------------------------
(* Type invariant of the object caches, their files and goroutines. *)
TypeOK ==
  /\ mem \in [Procs -> [Keys -> {"none", "whole", "torn"}]]
  /\ flight \in [Procs -> [Keys -> Workers \cup {None}]]
  /\ tmp \in [Keys -> Inodes \cup {None}]
  /\ path \in [Keys -> Inodes \cup {None}]
  /\ data \in [Inodes -> SUBSET Whole]
  /\ pc \in [Workers -> ProgramPoints]
  /\ key \in [Workers -> Keys \cup {None}]
  /\ val \in [Workers -> Values]
  /\ fd \in [Workers -> Inodes \cup {None}]
  /\ off \in [Workers -> 0..Chunks]
  /\ crashes \in 0..MaxCrashes

(***************************************************************************)
(* An object is fetched by at most one goroutine of a process at a time,   *)
(* and never once the process has it in memory, so a process fetches it    *)
(* successfully at most once.  (objcache.go:17-19, 64-98)                  *)
(***************************************************************************)
Fetching(w) == pc[w] \in {"build", "store"}

FetchedOnce ==
  \A w \in Workers : Fetching(w) =>
    /\ ~InMem(w)
    /\ \A v \in Workers \ {w} :
         ProcOf[v] = ProcOf[w] /\ key[v] = key[w] => ~Fetching(v)

(***************************************************************************)
(* Until a process crashes, a saved blob stays whole although all saves    *)
(* write through one tmp name: the process that truncates a tmp another is *)
(* about to rename goes on to fill it.  It takes a third process with the  *)
(* object to lose one: it may have begun a new tmp by the time the second  *)
(* renames.  (objcache.go:129-142)                                         *)
(***************************************************************************)
Owners(k) == {p \in Procs : mem[p][k] # "none"}

BlobStaysWhole ==
  [][crashes' = 0 =>
       \A k \in Keys : Decodes(k) /\ Cardinality(Owners(k)) <= 2 => Decodes(k)']_vars

(***************************************************************************)
(* An object whose whole blob is on disk is not fetched again, also after  *)
(* a restart: only another process can save it while this one fetches it.  *)
(* (objcache.go:17-20, 82-85)                                              *)
(***************************************************************************)
BlobSparesFetch ==
  [][\A w \in Workers :
       pc'[w] = "build" /\ Decodes(key[w])' =>
         \/ pc[w] = "build" /\ Decodes(key[w])
         \/ \E v \in Workers : pc[v] = "write" /\ key[v] = key[w] /\ ProcOf[v] # ProcOf[w]]_vars

(***************************************************************************)
(* Every call returns, unless its process crashes.  (objcache.go:66-98)    *)
(***************************************************************************)
EveryCallReturns ==
  \A w \in Workers : pc[w] = "look" ~> pc[w] \in {"done", "idle"}

-----------------------------------------------------------------------------
(* The inductive invariant of the proofs, in parts. *)
InFlight(w) == pc[w] \in {"recheck", "load", "keep", "build", "store", "create",
                          "write", "return"}

KeysAreHeld == \A w \in Workers : pc[w] = "idle" <=> key[w] = None

(* Flights and the goroutines inside one correspond one to one. *)
FlightsMatchLeaders ==
  \A p \in Procs, k \in Keys, w \in Workers :
    flight[p][k] = w <=> InFlight(w) /\ ProcOf[w] = p /\ key[w] = k

(* What a goroutine holds, and what its process has in memory then. *)
ValueFits(w) ==
  /\ pc[w] \in {"keep", "store", "create", "write"} => val[w] = "whole"
  /\ pc[w] \in {"return", "done"} => val[w] \in {"whole", "error"}
  /\ pc[w] \in {"load", "keep", "build", "store"} => ~InMem(w)
  /\ pc[w] \in {"create", "write"} => InMem(w)
  /\ pc[w] = "return" => (val[w] = "whole" <=> InMem(w))

ValuesFit == \A w \in Workers : ValueFits(w)

OnlyWholeKept == \A p \in Procs, k \in Keys : mem[p][k] # "torn"

(* A file belongs to one key, by a name or by a descriptor of a save. *)
Holds(k, i) == tmp[k] = i \/ path[k] = i \/ \E w \in Workers : key[w] = k /\ fd[w] = i

FilesApart ==
  /\ \A w \in Workers : fd[w] # None <=> pc[w] = "write"
  /\ \A j, k \in Keys, i \in Inodes : Holds(j, i) /\ Holds(k, i) => j = k

IInv == /\ TypeOK /\ KeysAreHeld /\ FlightsMatchLeaders /\ ValuesFit
        /\ OnlyWholeKept /\ FilesApart

-----------------------------------------------------------------------------
(***************************************************************************)
(* The cache implements MemoService: only whole aggregations are handed    *)
(* out or kept, and what a process knows is never answered by an error.    *)
(***************************************************************************)
Known == [p \in Procs |-> {k \in Keys : mem[p][k] = "whole"}]
Answer == [w \in Workers |-> IF pc[w] = "done" THEN val[w] ELSE "none"]

Memo == INSTANCE MemoService WITH known <- Known, asked <- key, answer <- Answer

ImplementsMemo == Memo!MemoSpec
=============================================================================
