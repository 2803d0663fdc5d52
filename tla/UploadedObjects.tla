---------------------------- MODULE UploadedObjects ----------------------------
(***************************************************************************)
(* Uploaded profiles behind the per-object cache.  A reader is a goroutine *)
(* that lists a group (engine.planGroup) and then fetches the members of   *)
(* that list one after the other (engine.buildGroup), with uploads in      *)
(* between; a fetch opens the member only when the per-object cache has    *)
(* nothing for its key, made of the Raw name and the size.                 *)
(*                                                                         *)
(* The cache directory outlives the process, the uploads do not.  What the *)
(* cache does inside is module ObjectCache; here it is what MemoService    *)
(* promises, a map that answers with what was first built for a key.       *)
(***************************************************************************)
EXTENDS UploadSource, SequencesExt

CONSTANTS
  Readers,     \* goroutines that aggregate a group
  MaxRestarts  \* bound: restarts of the process

ASSUME RestartAssumption == MaxRestarts \in Nat

VARIABLES
  listed,    \* the group a reader works on, or None
  snapshot,  \* the members it listed
  fetched,   \* what it has fetched so far, in the order of the snapshot
  cached,    \* the per-object cache: object key to content aggregated
  restarts,
  batched    \* history: some upload, before a restart too, had several files

readerVars == <<listed, snapshot, fetched>>
vars == <<storeVars, readerVars, cached, restarts, batched>>

Init ==
  /\ StoreInit
  /\ listed = [r \in Readers |-> None]
  /\ snapshot = [r \in Readers |-> <<>>]
  /\ fetched = [r \in Readers |-> <<>>]
  /\ cached = <<>>
  /\ restarts = 0
  /\ batched = FALSE

-----------------------------------------------------------------------------
Upload(g, batch) ==
  /\ Add(g, batch)
  /\ batched' = (batched \/ Len(batch) > 1)
  /\ UNCHANGED <<readerVars, cached, restarts>>

(* planGroup: the reader keeps the list it was handed. *)
List(r, g) ==
  /\ listed[r] = None
  /\ Listing(g) # <<>>
  /\ listed' = [listed EXCEPT ![r] = g]
  /\ snapshot' = [snapshot EXCEPT ![r] = Listing(g)]
  /\ UNCHANGED <<storeVars, fetched, cached, restarts, batched>>

(* The next member of its snapshot that reader r fetches. *)
Entry(r) == snapshot[r][Len(fetched[r]) + 1]
Reading(r) == listed[r] # None /\ Len(fetched[r]) < Len(snapshot[r])

(* cache.ObjectKey(m.Key.Raw, m.Size, ...). *)
ObjectKey(g, e) == <<g, e.raw, e.size>>

(* One member of buildGroup: the cached aggregation, or open and build it. *)
Fetch(r) ==
  /\ Reading(r)
  /\ LET k == ObjectKey(listed[r], Entry(r))
         c == IF k \in DOMAIN cached THEN cached[k]
              ELSE Content(listed[r], Entry(r).raw)
     IN /\ fetched' = [fetched EXCEPT ![r] = Append(@, c)]
        /\ cached' = IF c = None THEN cached
                     ELSE [j \in DOMAIN cached \cup {k} |->
                             IF j = k THEN c ELSE cached[j]]
  /\ UNCHANGED <<storeVars, listed, snapshot, restarts, batched>>

(* All members are merged; the goroutine is done. *)
Finish(r) ==
  /\ listed[r] # None /\ ~Reading(r)
  /\ listed' = [listed EXCEPT ![r] = None]
  /\ snapshot' = [snapshot EXCEPT ![r] = <<>>]
  /\ fetched' = [fetched EXCEPT ![r] = <<>>]
  /\ UNCHANGED <<storeVars, cached, restarts, batched>>

(* The server is restarted: uploads and readers are gone, the cache is not. *)
Restart ==
  /\ restarts < MaxRestarts
  /\ restarts' = restarts + 1
  /\ members' = [g \in Groups |-> <<>>]
  /\ order' = [g \in Groups |-> <<>>]
  /\ uploaded' = [g \in Groups |-> <<>>]
  /\ listed' = [r \in Readers |-> None]
  /\ snapshot' = [r \in Readers |-> <<>>]
  /\ fetched' = [r \in Readers |-> <<>>]
  /\ UNCHANGED <<cached, batched>>

Next ==
  \/ \E g \in Groups, batch \in Batches : Upload(g, batch)
  \/ \E r \in Readers : \/ \E g \in Groups : List(r, g)
                        \/ Fetch(r) \/ Finish(r)
  \/ Restart

Spec == Init /\ [][Next]_vars

-----------------------------------------------------------------------------
(* Type invariant of the store and its readers. *)
TypeOK ==
  /\ StoreTypeOK
  /\ listed \in [Readers -> Groups \cup {None}]
  /\ snapshot \in [Readers -> Seq(Listed)]
  /\ fetched \in [Readers -> Seq(Contents \cup {None})]
  /\ \A r \in Readers : /\ Len(fetched[r]) <= Len(snapshot[r])
                        /\ listed[r] = None => snapshot[r] = <<>>
  /\ DOMAIN cached \subseteq Groups \X Raw \X Nat
  /\ cached \in [DOMAIN cached -> Contents]
  /\ restarts \in 0..MaxRestarts
  /\ batched \in BOOLEAN

(***************************************************************************)
(* A list that was handed out stays a prefix of the list of its group, and *)
(* no member of it ever fails to open: uploads only add.                   *)
(* (upload.go:42-43, 79-83, 117-132)                                       *)
(***************************************************************************)
SnapshotsStayValid ==
  \A r \in Readers : listed[r] # None =>
    /\ IsPrefix(snapshot[r], Listing(listed[r]))
    /\ \A i \in 1..Len(fetched[r]) : fetched[r][i] # None

(* What was fetched for the members of r is what was uploaded as them. *)
FetchedAsUploaded(r) ==
  \A i \in 1..Len(fetched[r]) : fetched[r][i] = uploaded[listed[r]][i].content

(***************************************************************************)
(* What is aggregated for a member is the content that was uploaded as     *)
(* that member.  (objcache.go:17-20 "a given object name+size only ever    *)
(* needs to be downloaded and parsed once")                                *)
(***************************************************************************)
AggregatesWhatWasUploaded ==
  \A r \in Readers : listed[r] # None => FetchedAsUploaded(r)

(***************************************************************************)
(* The same, as far as it holds.  For a group filled file by file, until   *)
(* the process is restarted with a cache directory, a reader aggregates    *)
(* what was uploaded.  And if all files, before a restart too, are         *)
(* uploaded one by one, what it aggregates for a member has the size the   *)
(* member is listed with: the size in the object key tells such files      *)
(* apart (objcache.go:53-62).  Without a directory a restart begins a new  *)
(* behaviour.                                                              *)
(***************************************************************************)
AggregatesWhatThisRunUploaded ==
  \A r \in Readers : listed[r] # None =>
    /\ OneByOne(listed[r]) /\ restarts = 0 => FetchedAsUploaded(r)
    /\ ~batched => \A i \in 1..Len(fetched[r]) :
                     SizeOf[fetched[r][i]] = snapshot[r][i].size
-----------------------------------------------------------------------------
(* The inductive invariant of the proofs: what is cached was stored. *)
CachedAsStored ==
  restarts = 0 =>
    \A k \in DOMAIN cached :
      /\ k[2] \in DOMAIN members[k[1]]
      /\ OneByOne(k[1]) => cached[k] = members[k[1]][k[2]]

(* As long as no upload had several files, sizes are true. *)
SizesAreTrue ==
  ~batched => /\ \A g \in Groups : OneByOne(g)
              /\ \A k \in DOMAIN cached : SizeOf[cached[k]] = k[3]

IInv ==
  /\ TypeOK /\ StoreInv /\ CachedAsStored /\ SizesAreTrue
  /\ SnapshotsStayValid /\ AggregatesWhatThisRunUploaded
=============================================================================
