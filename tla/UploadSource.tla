------------------------------ MODULE UploadSource ------------------------------
(***************************************************************************)
(* The in-memory source of uploaded profiles (internal/store/upload.go).   *)
(* Add runs under the write lock, ListGroups and OpenMember under the read *)
(* lock, so an upload is one step and what a reader asks for is a function *)
(* of the state: Listing and Content.  Module UploadedObjects has the      *)
(* readers.                                                                *)
(*                                                                         *)
(* A Raw key is "<group>/<index>_<name>"; within a group it is the pair of *)
(* its index and name.  A group exists once it has members.                *)
(***************************************************************************)
EXTENDS Integers, Sequences

CONSTANTS
  Groups,    \* group ids
  Names,     \* file names
  Contents,  \* file contents
  SizeOf,    \* SizeOf[c]: length of content c
  MaxBatch,  \* bound: files in one upload
  MaxFiles,  \* bound: files uploaded to one group
  None       \* no group; nothing found

ASSUME UploadAssumption ==
  /\ SizeOf \in [Contents -> Nat]
  /\ MaxBatch \in Nat \ {0} /\ MaxFiles \in Nat
  /\ None \notin Groups \cup Contents

VARIABLES
  members,   \* uploadGroup.members: Raw to content
  order,     \* uploadGroup.order: the members as listed
  uploaded   \* history: the files uploaded to the group, in order, each
             \* with its position in its upload

storeVars == <<members, order, uploaded>>

File == [name : Names, content : Contents]
Batches == UNION {[1..n -> File] : n \in 1..MaxBatch}

StoreInit ==
  /\ members = [g \in Groups |-> <<>>]
  /\ order = [g \in Groups |-> <<>>]
  /\ uploaded = [g \in Groups |-> <<>>]

-----------------------------------------------------------------------------
(* Mutant of RawIndex: the key is made of the name alone. *)
RawIndexConstant(before, i) == 0

(***************************************************************************)
(* The index in the Raw key of the i-th file (from 1) of a batch: the code *)
(* adds the loop index to the length of a list that grows in the loop.     *)
(***************************************************************************)
RawIndex(before, i) == LET grown == before + (i - 1) IN grown + (i - 1)

(* The list entries a batch adds to a group that lists `before` members. *)
Entries(before, batch) ==
  [i \in 1..Len(batch) |->
     [raw |-> <<RawIndex(before, i), batch[i].name>>,
      size |-> SizeOf[batch[i].content]]]

KeysOf(entries) == {entries[i].raw : i \in DOMAIN entries}

(* What group contents m becomes when the batch is stored under these keys. *)
Stored(m, entries, batch) ==
  LET Newest(raw) == CHOOSE i \in DOMAIN entries :
                     /\ entries[i].raw = raw
                     /\ \A j \in DOMAIN entries : entries[j].raw = raw => j <= i
  IN [raw \in DOMAIN m \cup KeysOf(entries) |->
        IF raw \in KeysOf(entries) THEN batch[Newest(raw)].content ELSE m[raw]]

(* What the history keeps of a batch. *)
History(batch) ==
  [i \in 1..Len(batch) |-> [content |-> batch[i].content, position |-> i]]

(* Mutant of Add: an upload to a known group replaces its list. *)
AddReplaces(g, batch) ==
  /\ Len(uploaded[g]) + Len(batch) <= MaxFiles
  /\ LET new == Entries(0, batch) IN
       /\ order' = [order EXCEPT ![g] = new]
       /\ members' = [members EXCEPT ![g] = Stored(<<>>, new, batch)]
       /\ uploaded' = [uploaded EXCEPT ![g] = @ \o History(batch)]

(* Add: every file gets a Raw key, its content is kept, it joins the list. *)
Add(g, batch) ==
  /\ Len(uploaded[g]) + Len(batch) <= MaxFiles
  /\ LET new == Entries(Len(order[g]), batch) IN
       /\ order' = [order EXCEPT ![g] = @ \o new]
       /\ members' = [members EXCEPT ![g] = Stored(@, new, batch)]
       /\ uploaded' = [uploaded EXCEPT ![g] = @ \o History(batch)]

(* ListGroups hands out a copy of the list. *)
Listing(g) == order[g]

(* OpenMember: the content kept under the Raw key, or an error. *)
Content(g, raw) == IF raw \in DOMAIN members[g] THEN members[g][raw] ELSE None

-----------------------------------------------------------------------------
Raw == (0..(2 * MaxFiles)) \X Names

Listed == [raw : Raw, size : Nat]

(* Type invariant of the store: every listed file is accounted for. *)
StoreTypeOK ==
  /\ order \in [Groups -> Seq(Listed)]
  /\ uploaded \in [Groups -> Seq([content : Contents, position : 1..MaxFiles])]
  /\ members \in [Groups -> {members[g] : g \in Groups}]
  /\ \A g \in Groups :
       /\ DOMAIN members[g] \subseteq Raw /\ members[g] \in [DOMAIN members[g] -> Contents]
       /\ Len(order[g]) = Len(uploaded[g]) /\ Len(order[g]) <= MaxFiles

(* The i-th member of g still has the content it was uploaded with. *)
Kept(g, i) == Content(g, order[g][i].raw) = uploaded[g][i].content

(* All files of g so far were uploaded one by one. *)
OneByOne(g) == \A i \in 1..Len(uploaded[g]) : uploaded[g][i].position = 1

(* Two files of g came in one upload: their positions count on. *)
SameUpload(g, i, j) == uploaded[g][j].position - uploaded[g][i].position = j - i

(***************************************************************************)
(* Every uploaded file stays a member with the content it was uploaded     *)
(* with.  (upload.go:42-43 "Re-uploading into the same date+buildTag       *)
(* merges with existing members")                                          *)
(***************************************************************************)
UploadsAreKept == \A g \in Groups : \A i \in 1..Len(order[g]) : Kept(g, i)

(***************************************************************************)
(* What is lost is lost to a batch: as long as files are uploaded to a     *)
(* group one by one, also under equal names, all of them are kept; and no  *)
(* two files of one upload ever share a key.  (upload.go:62-73)            *)
(***************************************************************************)
SeparateUploadsAreKept ==
  \A g \in Groups :
    /\ OneByOne(g) => \A i \in 1..Len(order[g]) : Kept(g, i)
    /\ \A i, j \in 1..Len(order[g]) :
         i < j /\ SameUpload(g, i, j) => order[g][i].raw # order[g][j].raw
-----------------------------------------------------------------------------
(* The inductive invariant of the proofs, in parts. *)
(* A listed file's key has the index that its place and position give, and *)
(* the size of its content.                                                *)
ListedAsComputed(g) ==
  \A i \in 1..Len(order[g]) :
    /\ order[g][i].raw[1] = i + uploaded[g][i].position - 2
    /\ order[g][i].size = SizeOf[uploaded[g][i].content]

(* What is listed opens, and nothing else is stored. *)
StoresTheListed(g) == DOMAIN members[g] = KeysOf(order[g])

AllKept(g) == \A i \in 1..Len(order[g]) : Kept(g, i)

GroupInv(g) ==
  ListedAsComputed(g) /\ StoresTheListed(g) /\ (OneByOne(g) => AllKept(g))

StoreInv == StoreTypeOK /\ \A g \in Groups : GroupInv(g)
=============================================================================
