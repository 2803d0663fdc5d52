------------------------ MODULE UploadedObjects_proofs ------------------------
(***************************************************************************)
(* Proofs about UploadSource and UploadedObjects, for any groups, files,   *)
(* readers and sizes of uploads, and any number of restarts.               *)
(***************************************************************************)
EXTENDS UploadedObjects, TLAPS

-----------------------------------------------------------------------------
(* The store *)
LEMMA BatchIs ==
  ASSUME NEW batch \in Batches
  PROVE  /\ batch \in Seq(File) /\ Len(batch) \in Nat \ {0}
         /\ DOMAIN batch = 1..Len(batch)
         /\ \A i \in 1..Len(batch) : batch[i].name \in Names /\ batch[i].content \in Contents
<1>1. PICK n \in 1..MaxBatch : batch \in [1..n -> File]
  BY DEF Batches
<1>2. n \in Nat \ {0}
  BY <1>1, UploadAssumption
<1>3. batch \in Seq(File) /\ Len(batch) = n
  BY <1>1, <1>2
<1>4. QED
  BY <1>1, <1>2, <1>3 DEF File

(* The entries of a batch: keys of their own, two apart. *)
LEMMA EntriesAre ==
  ASSUME NEW n \in Nat, NEW batch \in Batches, n + Len(batch) <= MaxFiles
  PROVE  /\ Entries(n, batch) \in Seq(Listed) /\ Len(Entries(n, batch)) = Len(batch)
         /\ \A i \in 1..Len(batch) :
              /\ Entries(n, batch)[i].raw = <<n + 2 * (i - 1), batch[i].name>>
              /\ Entries(n, batch)[i].size = SizeOf[batch[i].content]
         /\ \A i, j \in 1..Len(batch) :
              Entries(n, batch)[i].raw = Entries(n, batch)[j].raw => i = j
<1> DEFINE b == Len(batch)
           E == Entries(n, batch)
<1>1. b \in Nat \ {0} /\ MaxFiles \in Nat
  BY BatchIs, UploadAssumption
<1>2. \A i \in 1..b : RawIndex(n, i) = n + 2 * (i - 1) /\ RawIndex(n, i) \in 0..(2 * MaxFiles)
  BY <1>1 DEF RawIndex
<1>3. E = [i \in 1..b |-> [raw |-> <<RawIndex(n, i), batch[i].name>>,
                           size |-> SizeOf[batch[i].content]]]
  BY DEF Entries
<1>4. \A i \in 1..b : SizeOf[batch[i].content] \in Nat /\ batch[i].name \in Names
  BY BatchIs, UploadAssumption
<1>5. \A i \in 1..b : E[i] \in Listed
  BY <1>2, <1>3, <1>4 DEF Listed, Raw
<1>6. E \in Seq(Listed) /\ Len(E) = b
  <2>1. E \in [1..b -> Listed]
    BY <1>3, <1>5
  <2>2. QED
    BY <1>1, <2>1
<1>7. \A i \in 1..b : E[i].raw = <<n + 2 * (i - 1), batch[i].name>>
                      /\ E[i].size = SizeOf[batch[i].content]
  BY <1>2, <1>3
<1>8. \A i, j \in 1..b : E[i].raw = E[j].raw => i = j
  <2>1. SUFFICES ASSUME NEW i \in 1..b, NEW j \in 1..b, E[i].raw = E[j].raw PROVE i = j
    OBVIOUS
  <2>2. n + 2 * (i - 1) = n + 2 * (j - 1)
    BY <1>7, <2>1
  <2>3. QED
    BY <1>1, <2>2
<1>9. QED
  BY <1>6, <1>7, <1>8

(* The two parts of a concatenation *)
LEMMA ConcatIs ==
  ASSUME NEW T, NEW s \in Seq(T), NEW t \in Seq(T)
  PROVE  /\ s \o t \in Seq(T) /\ Len(s \o t) = Len(s) + Len(t)
         /\ Len(s) \in Nat /\ Len(t) \in Nat
         /\ \A i \in 1..Len(s) : (s \o t)[i] = s[i]
         /\ \A i \in 1..Len(t) : (s \o t)[Len(s) + i] = t[i]
         /\ \A i \in 1..(Len(s) + Len(t)) : i \in 1..Len(s) \/ \E k \in 1..Len(t) : i = Len(s) + k
<1>1. Len(s) \in Nat /\ Len(t) \in Nat
  OBVIOUS
<1>2. ASSUME NEW i \in 1..(Len(s) + Len(t)), i \notin 1..Len(s)
      PROVE  \E k \in 1..Len(t) : i = Len(s) + k
  <2>1. i - Len(s) \in 1..Len(t) /\ i = Len(s) + (i - Len(s))
    BY <1>1, <1>2
  <2>2. QED
    BY <2>1
<1>3. \A i \in 1..Len(t) : (s \o t)[Len(s) + i] = t[i]
  OBVIOUS
<1>4. QED
  BY <1>1, <1>2, <1>3

(* What the store is after a batch with keys of its own. *)
Apart(e) == \A i, j \in DOMAIN e : e[i].raw = e[j].raw => i = j

Updated(S, m, e, batch) ==
  /\ DOMAIN S = DOMAIN m \cup KeysOf(e) /\ S \in [DOMAIN S -> Contents]
  /\ \A raw \in DOMAIN m \ KeysOf(e) : S[raw] = m[raw]
  /\ \A i \in DOMAIN e : S[e[i].raw] = batch[i].content

LEMMA StoredIs ==
  ASSUME NEW m, m \in [DOMAIN m -> Contents], NEW e \in Seq(Listed), NEW batch \in Batches,
         Len(e) = Len(batch), Apart(e)
  PROVE  Updated(Stored(m, e, batch), m, e, batch)
<1> DEFINE Raws == KeysOf(e)
           S == Stored(m, e, batch)
           Newest(raw) == CHOOSE i \in 1..Len(batch) :
                            /\ e[i].raw = raw
                            /\ \A j \in 1..Len(batch) : e[j].raw = raw => j <= i
<1>1. DOMAIN e = 1..Len(batch) /\ Len(batch) \in Nat
  BY BatchIs
<1>2. S = [raw \in DOMAIN m \cup Raws |->
             IF raw \in Raws THEN batch[Newest(raw)].content ELSE m[raw]]
  BY <1>1 DEF Stored
<1>r. /\ Raws = {e[i].raw : i \in 1..Len(batch)}
      /\ \A i, j \in 1..Len(batch) : e[i].raw = e[j].raw => i = j
  BY <1>1 DEF KeysOf, Apart
<1>3. \A i \in 1..Len(batch) : Newest(e[i].raw) = i
  <2>1. SUFFICES ASSUME NEW i \in 1..Len(batch) PROVE Newest(e[i].raw) = i
    OBVIOUS
  <2>2. \A j \in 1..Len(batch) : e[j].raw = e[i].raw => j <= i
    BY <1>1, <1>r
  <2>3. \E k \in 1..Len(batch) : /\ e[k].raw = e[i].raw
                                 /\ \A j \in 1..Len(batch) : e[j].raw = e[i].raw => j <= k
    BY <2>2
  <2>4. Newest(e[i].raw) \in 1..Len(batch) /\ e[Newest(e[i].raw)].raw = e[i].raw
    BY <2>3
  <2>5. QED
    BY <1>r, <2>4
<1> HIDE DEF Newest, S, Raws
<1>4. \A i \in 1..Len(batch) : S[e[i].raw] = batch[i].content
  BY <1>2, <1>3, <1>r
<1>5. \A raw \in DOMAIN m \ Raws : S[raw] = m[raw]
  BY <1>2
<1>6. DOMAIN S = DOMAIN m \cup Raws
  BY <1>2
<1>7. \A raw \in DOMAIN S : S[raw] \in Contents
  BY <1>4, <1>5, <1>6, <1>r, BatchIs
<1>8. S \in [DOMAIN S -> Contents]
  BY <1>2, <1>6, <1>7
<1>9. QED
  BY <1>1, <1>4, <1>5, <1>6, <1>8 DEF S, Raws, Updated

(***************************************************************************)
(* An upload keeps the store's invariant.  Its group's list grows at the   *)
(* end; and if all files of the group came one by one, the upload is of    *)
(* one file and nothing stored before changes.                             *)
(***************************************************************************)
LEMMA AddStore ==
  ASSUME StoreInv, NEW g \in Groups, NEW batch \in Batches, Add(g, batch)
  PROVE  /\ StoreInv'
         /\ \A h \in Groups :
              /\ Len(order[h]) <= Len(order'[h])
              /\ \A i \in 1..Len(order[h]) : order'[h][i] = order[h][i]
                                           /\ uploaded'[h][i] = uploaded[h][i]
         /\ \A h \in Groups \ {g} : /\ members'[h] = members[h] /\ order'[h] = order[h]
                                    /\ uploaded'[h] = uploaded[h]
         /\ DOMAIN members[g] \subseteq DOMAIN members'[g]
         /\ OneByOne(g)' => \A raw \in DOMAIN members[g] : members'[g][raw] = members[g][raw]
         /\ OneByOne(g)' => OneByOne(g)
         /\ Len(batch) = 1 /\ OneByOne(g) => OneByOne(g)'
<1> DEFINE n == Len(order[g])
           b == Len(batch)
           e == Entries(n, batch)
           f == History(batch)
           m == members[g]
           Files == [content : Contents, position : 1..MaxFiles]
           Raws == KeysOf(e)
<1>0. StoreTypeOK /\ ListedAsComputed(g) /\ StoresTheListed(g) /\ (OneByOne(g) => AllKept(g))
  BY DEF StoreInv, GroupInv
<1>1. /\ n \in Nat /\ n <= MaxFiles /\ Len(uploaded[g]) = n /\ b \in Nat \ {0} /\ n + b <= MaxFiles
      /\ MaxFiles \in Nat
      /\ order[g] \in Seq(Listed) /\ uploaded[g] \in Seq(Files)
      /\ m \in [DOMAIN m -> Contents] /\ Len(order[g]) = n /\ Len(batch) = b
  <2>1. /\ order[g] \in Seq(Listed) /\ uploaded[g] \in Seq(Files)
        /\ m \in [DOMAIN m -> Contents] /\ Len(uploaded[g]) = n /\ n <= MaxFiles
    BY <1>0 DEF StoreTypeOK
  <2>2. n + b <= MaxFiles
    BY <2>1 DEF Add
  <2>3. QED
    BY <2>1, <2>2, BatchIs, UploadAssumption
<1>2. /\ order' = [order EXCEPT ![g] = order[g] \o e]
      /\ members' = [members EXCEPT ![g] = Stored(m, e, batch)]
      /\ uploaded' = [uploaded EXCEPT ![g] = uploaded[g] \o f]
  BY DEF Add
<1>3. /\ e \in Seq(Listed) /\ Len(e) = b
      /\ \A i \in 1..b : e[i].raw = <<n + 2 * (i - 1), batch[i].name>>
                         /\ e[i].size = SizeOf[batch[i].content]
      /\ \A i, j \in 1..b : e[i].raw = e[j].raw => i = j
  BY <1>1, EntriesAre
<1>4. /\ f \in Seq(Files) /\ Len(f) = b
      /\ \A i \in 1..b : f[i].content = batch[i].content /\ f[i].position = i
  <2>1. f = [i \in 1..b |-> [content |-> batch[i].content, position |-> i]]
    BY DEF History
  <2>2. \A i \in 1..b : batch[i].content \in Contents /\ i \in 1..MaxFiles
    BY <1>1, BatchIs
  <2>3. f \in [1..b -> Files]
    BY <2>1, <2>2
  <2>4. QED
    BY <1>1, <2>1, <2>3
<1>r. Raws = {e[i].raw : i \in 1..b}
  BY <1>3 DEF KeysOf
<1> HIDE DEF e, f, m, n, b, Files, Raws
<1> DEFINE S == Stored(m, e, batch)
<1>5. /\ DOMAIN S = DOMAIN m \cup Raws /\ S \in [DOMAIN S -> Contents]
      /\ \A raw \in DOMAIN m \ Raws : S[raw] = m[raw]
      /\ \A i \in 1..b : S[e[i].raw] = batch[i].content
  <2>1. Len(e) = Len(batch) /\ Apart(e) /\ DOMAIN e = 1..b
    BY <1>1, <1>3 DEF Apart
  <2>2. Updated(S, m, e, batch)
    BY <1>1, <1>3, <2>1, StoredIs
  <2>3. QED
    BY <2>1, <2>2 DEF Updated, Raws
<1> HIDE DEF S
<1>6. /\ DOMAIN order = Groups /\ DOMAIN members = Groups /\ DOMAIN uploaded = Groups
  BY DEF StoreInv, StoreTypeOK
<1>7. /\ order'[g] = order[g] \o e /\ members'[g] = S /\ uploaded'[g] = uploaded[g] \o f
      /\ \A h \in Groups \ {g} : /\ members'[h] = members[h] /\ order'[h] = order[h]
                                 /\ uploaded'[h] = uploaded[h]
  BY <1>2, <1>6 DEF S, m
<1>8. /\ Len(order'[g]) = n + b /\ Len(uploaded'[g]) = n + b
      /\ \A i \in 1..n : order'[g][i] = order[g][i] /\ uploaded'[g][i] = uploaded[g][i]
      /\ \A i \in 1..b : order'[g][n + i] = e[i] /\ uploaded'[g][n + i] = f[i]
      /\ \A i \in 1..(n + b) : i \in 1..n \/ \E k \in 1..b : i = n + k
  <2>1. /\ Len(order[g] \o e) = n + b
        /\ \A i \in 1..n : (order[g] \o e)[i] = order[g][i]
        /\ \A i \in 1..b : (order[g] \o e)[n + i] = e[i]
        /\ \A i \in 1..(n + b) : i \in 1..n \/ \E k \in 1..b : i = n + k
    <3>1. /\ Len(order[g] \o e) = Len(order[g]) + Len(e)
          /\ \A i \in 1..Len(order[g]) : (order[g] \o e)[i] = order[g][i]
          /\ \A i \in 1..Len(e) : (order[g] \o e)[Len(order[g]) + i] = e[i]
          /\ \A i \in 1..(Len(order[g]) + Len(e)) :
               i \in 1..Len(order[g]) \/ \E k \in 1..Len(e) : i = Len(order[g]) + k
      <4>1. order[g] \in Seq(Listed) /\ e \in Seq(Listed)
        BY <1>1, <1>3
      <4>2. QED
        BY <4>1, ConcatIs
    <3>2. QED
      <4>1. Len(order[g]) = n /\ Len(e) = b
        BY <1>1, <1>3
      <4>2. QED
        BY <3>1, <4>1
  <2>2. /\ Len(uploaded[g] \o f) = n + b
        /\ \A i \in 1..n : (uploaded[g] \o f)[i] = uploaded[g][i]
        /\ \A i \in 1..b : (uploaded[g] \o f)[n + i] = f[i]
    <3>1. /\ Len(uploaded[g] \o f) = Len(uploaded[g]) + Len(f)
          /\ \A i \in 1..Len(uploaded[g]) : (uploaded[g] \o f)[i] = uploaded[g][i]
          /\ \A i \in 1..Len(f) : (uploaded[g] \o f)[Len(uploaded[g]) + i] = f[i]
      <4>1. uploaded[g] \in Seq(Files) /\ f \in Seq(Files)
        BY <1>1, <1>4
      <4>2. QED
        BY <4>1, ConcatIs
    <3>2. QED
      BY <1>1, <1>4, <3>1
  <2>3. QED
    BY <1>7, <2>1, <2>2
<1>9. \A i \in 1..(n + b) : i \in 1..n \/ \E k \in 1..b : i = n + k
  BY <1>8
<1>10. StoreTypeOK'
  <2>1. order' \in [Groups -> Seq(Listed)]
    <3>1. order[g] \o e \in Seq(Listed)
      BY <1>1, <1>3
    <3>2. QED
      BY <1>2, <3>1 DEF StoreInv, StoreTypeOK
  <2>2. uploaded' \in [Groups -> Seq(Files)]
    <3>1. uploaded[g] \o f \in Seq(Files)
      BY <1>1, <1>4
    <3>2. QED
      BY <1>2, <3>1 DEF StoreInv, StoreTypeOK, Files
  <2>3. members' \in [Groups -> {members'[h] : h \in Groups}]
    BY <1>2, <1>6 DEF StoreInv, StoreTypeOK
  <2>4. DOMAIN S \subseteq Raw
    <3>1. \A i \in 1..b : e[i] \in Listed
      BY <1>1, <1>3
    <3>2. DOMAIN m \subseteq Raw
      BY <1>0 DEF StoreTypeOK, m
    <3>4. \A i \in 1..b : e[i].raw \in Raw
      BY <3>1 DEF Listed
    <3>3. QED
      BY <1>5, <1>r, <3>2, <3>4
  <2>5. \A h \in Groups :
          /\ DOMAIN members'[h] \subseteq Raw /\ members'[h] \in [DOMAIN members'[h] -> Contents]
          /\ Len(order'[h]) = Len(uploaded'[h]) /\ Len(order'[h]) <= MaxFiles
    <3>1. SUFFICES ASSUME NEW h \in Groups
                   PROVE  /\ DOMAIN members'[h] \subseteq Raw
                          /\ members'[h] \in [DOMAIN members'[h] -> Contents]
                          /\ Len(order'[h]) = Len(uploaded'[h]) /\ Len(order'[h]) <= MaxFiles
      OBVIOUS
    <3>2. CASE h = g
      BY <1>1, <1>5, <1>7, <1>8, <2>4, <3>2
    <3>3. CASE h # g
      BY <1>7, <3>3 DEF StoreInv, StoreTypeOK
    <3>4. QED
      BY <3>2, <3>3
  <2>6. QED
    BY <2>1, <2>2, <2>3, <2>5 DEF StoreTypeOK, Files
<1>11. ListedAsComputed(g)'
  <2>1. \A i \in 1..n : /\ order'[g][i].raw[1] = i + uploaded'[g][i].position - 2
                        /\ order'[g][i].size = SizeOf[uploaded'[g][i].content]
    BY <1>0, <1>8 DEF ListedAsComputed, n
  <2>2. \A k \in 1..b : /\ order'[g][n + k].raw[1] = (n + k) + uploaded'[g][n + k].position - 2
                        /\ order'[g][n + k].size = SizeOf[uploaded'[g][n + k].content]
    <3>1. SUFFICES ASSUME NEW k \in 1..b
                   PROVE  /\ order'[g][n + k].raw[1] = (n + k) + uploaded'[g][n + k].position - 2
                          /\ order'[g][n + k].size = SizeOf[uploaded'[g][n + k].content]
      OBVIOUS
    <3>2. order'[g][n + k] = e[k] /\ uploaded'[g][n + k] = f[k]
      BY <1>8
    <3>3. /\ e[k].raw = <<n + 2 * (k - 1), batch[k].name>> /\ e[k].size = SizeOf[batch[k].content]
          /\ f[k].content = batch[k].content /\ f[k].position = k
      BY <1>3, <1>4
    <3>4. e[k].raw[1] = n + 2 * (k - 1)
      BY <3>3
    <3>5. n + 2 * (k - 1) = (n + k) + k - 2
      BY <1>1
    <3>6. QED
      BY <3>2, <3>3, <3>4, <3>5
  <2>3. QED
    BY <1>8, <1>9, <2>1, <2>2 DEF ListedAsComputed
<1>12. StoresTheListed(g)'
  <2>1. DOMAIN m = {order[g][i].raw : i \in 1..n}
    <3>1. DOMAIN order[g] = 1..n
      BY <1>1
    <3>2. QED
      BY <1>0, <3>1 DEF StoresTheListed, KeysOf, m
  <2>2. {order'[g][i].raw : i \in 1..(n + b)} = {order[g][i].raw : i \in 1..n} \cup Raws
    <3>1. \A i \in 1..n : i \in 1..(n + b)
      BY <1>1
    <3>2. \A k \in 1..b : n + k \in 1..(n + b)
      BY <1>1
    <3>3. ASSUME NEW i \in 1..(n + b)
          PROVE  order'[g][i].raw \in {order[g][j].raw : j \in 1..n} \cup Raws
      <4>1. CASE i \in 1..n
        BY <1>8, <4>1
      <4>2. CASE \E k \in 1..b : i = n + k
        BY <1>8, <1>r, <4>2
      <4>3. QED
        BY <1>9, <4>1, <4>2
    <3>4. ASSUME NEW i \in 1..n PROVE order[g][i].raw \in {order'[g][j].raw : j \in 1..(n + b)}
      BY <1>8, <3>1
    <3>5. ASSUME NEW k \in 1..b PROVE e[k].raw \in {order'[g][j].raw : j \in 1..(n + b)}
      <4>1. e[k].raw = order'[g][n + k].raw
        BY <1>8
      <4>2. QED
        BY <3>2, <4>1
    <3>6. QED
      BY <1>r, <3>3, <3>4, <3>5
  <2>3. QED
    <3>1. order'[g] \in Seq(Listed) /\ DOMAIN order'[g] = 1..(n + b)
      BY <1>8, <1>10 DEF StoreTypeOK
    <3>2. QED
      BY <1>5, <1>7, <2>1, <2>2, <3>1 DEF StoresTheListed, KeysOf
<1>13. OneByOne(g)' => OneByOne(g) /\ b = 1
  <2>1. ASSUME OneByOne(g)' PROVE \A i \in 1..n : uploaded[g][i].position = 1
    <3>1. \A i \in 1..n : i \in 1..(n + b)
      BY <1>1
    <3>2. QED
      BY <1>8, <2>1, <3>1 DEF OneByOne
  <2>2. ASSUME OneByOne(g)', b # 1 PROVE FALSE
    <3>1. 2 \in 1..b /\ n + 2 \in 1..(n + b) /\ b \in 1..b /\ n + b \in 1..(n + b)
      BY <1>1, <2>2
    <3>2. uploaded'[g][n + 2].position = 2 /\ uploaded'[g][n + 2].position = 1
      <4>1. uploaded'[g][n + 2].position = 1
        BY <1>8, <2>2, <3>1 DEF OneByOne
      <4>2. uploaded'[g][n + 2] = f[2] /\ f[2].position = 2
        BY <1>4, <1>8, <3>1
      <4>3. QED
        BY <4>1, <4>2
    <3>3. QED
      BY <3>2
  <2>3. QED
    BY <1>1, <2>1, <2>2 DEF OneByOne
<1>14. b = 1 /\ OneByOne(g) => OneByOne(g)'
  <2>1. SUFFICES ASSUME b = 1, OneByOne(g), NEW i \in 1..(n + b)
                 PROVE  uploaded'[g][i].position = 1
    BY <1>8 DEF OneByOne
  <2>2. CASE i \in 1..n
    BY <1>1, <1>8, <2>1, <2>2 DEF OneByOne
  <2>3. CASE i \notin 1..n
    <3>1. PICK k \in 1..b : i = n + k
      BY <1>9, <2>3
    <3>2. k = 1
      BY <2>1
    <3>3. QED
      BY <1>4, <1>8, <3>1, <3>2
  <2>4. QED
    BY <2>2, <2>3
<1>15. OneByOne(g)' => \A raw \in DOMAIN m : raw \notin Raws
  <2>1. SUFFICES ASSUME OneByOne(g), b = 1, NEW i \in 1..n, NEW k \in 1..b PROVE order[g][i].raw # e[k].raw
    <3>1. DOMAIN m = {order[g][i].raw : i \in 1..n}
      BY <1>0, <1>1 DEF StoresTheListed, KeysOf, n, m
    <3>2. QED
      BY <1>13, <1>r, <3>1
  <2>2. order[g][i].raw[1] = i + uploaded[g][i].position - 2
    BY <1>0 DEF ListedAsComputed, n
  <2>3. uploaded[g][i].position = 1
    BY <1>1, <2>1 DEF OneByOne
  <2>4. e[k].raw[1] = n
    <3>1. k = 1
      BY <2>1
    <3>2. e[k].raw = <<n + 2 * (k - 1), batch[k].name>>
      BY <1>3
    <3>3. n + 2 * (k - 1) = n
      BY <1>1, <3>1
    <3>4. QED
      BY <3>2, <3>3
  <2>5. i + 1 - 2 # n
    BY <1>1
  <2>6. QED
    BY <2>2, <2>3, <2>4, <2>5
<1>16. OneByOne(g)' => \A raw \in DOMAIN m : S[raw] = m[raw]
  BY <1>5, <1>15
<1>17. OneByOne(g)' => \A i \in 1..(n + b) : Kept(g, i)'
  <2>1. SUFFICES ASSUME OneByOne(g)', NEW i \in 1..(n + b)
                 PROVE  /\ order'[g][i].raw \in DOMAIN S
                        /\ S[order'[g][i].raw] = uploaded'[g][i].content
    BY <1>7 DEF Kept, Content
  <2>2. CASE i \in 1..n
    <3>1. Kept(g, i)
      BY <1>0, <1>1, <1>13, <2>1, <2>2 DEF AllKept
    <3>2. order[g][i].raw \in DOMAIN m
      BY <1>0, <1>1, <2>2 DEF StoresTheListed, KeysOf, n, m
    <3>3. m[order[g][i].raw] = uploaded[g][i].content
      BY <3>1, <3>2 DEF Kept, Content, m
    <3>4. QED
      BY <1>5, <1>8, <1>16, <2>1, <2>2, <3>2, <3>3
  <2>3. CASE i \notin 1..n
    <3>1. PICK k \in 1..b : i = n + k
      BY <1>9, <2>3
    <3>2. e[k].raw \in DOMAIN S /\ S[e[k].raw] = f[k].content
      BY <1>4, <1>5, <1>r
    <3>3. QED
      BY <1>8, <3>1, <3>2
  <2>4. QED
    BY <2>2, <2>3
<1>18. \A h \in Groups : GroupInv(h)'
  <2>1. SUFFICES ASSUME NEW h \in Groups PROVE GroupInv(h)'
    OBVIOUS
  <2>2. CASE h = g
    BY <1>8, <1>11, <1>12, <1>17, <2>2 DEF GroupInv, AllKept
  <2>3. CASE h # g
    <3>1. GroupInv(h)
      BY DEF StoreInv
    <3>2. order'[h] = order[h] /\ uploaded'[h] = uploaded[h] /\ members'[h] = members[h]
      BY <1>7, <2>3
    <3>3. QED
      BY <3>1, <3>2
         DEF GroupInv, AllKept, ListedAsComputed, StoresTheListed, OneByOne, Kept, Content
  <2>4. QED
    BY <2>2, <2>3
<1>19. StoreInv'
  BY <1>10, <1>18 DEF StoreInv
<1>20. DOMAIN members[g] \subseteq DOMAIN members'[g]
  BY <1>5, <1>7 DEF m
<1>21. OneByOne(g)' => \A raw \in DOMAIN members[g] : members'[g][raw] = members[g][raw]
  BY <1>7, <1>16 DEF m
<1>22. \A h \in Groups :
         /\ Len(order[h]) <= Len(order'[h])
         /\ \A i \in 1..Len(order[h]) : order'[h][i] = order[h][i]
                                      /\ uploaded'[h][i] = uploaded[h][i]
  <2>1. SUFFICES ASSUME NEW h \in Groups
                 PROVE  /\ Len(order[h]) <= Len(order'[h])
                        /\ \A i \in 1..Len(order[h]) : order'[h][i] = order[h][i]
                                                     /\ uploaded'[h][i] = uploaded[h][i]
    OBVIOUS
  <2>2. CASE h = g
    BY <1>1, <1>8, <2>2
  <2>3. CASE h # g
    <3>1. Len(order[h]) \in Nat
      BY <1>0 DEF StoreTypeOK
    <3>2. QED
      BY <1>7, <2>3, <3>1
  <2>4. QED
    BY <2>2, <2>3
<1>23. QED
  BY <1>7, <1>13, <1>14, <1>19, <1>20, <1>21, <1>22 DEF b

-----------------------------------------------------------------------------
(* The readers *)
LEMMA PrefixIs ==
  ASSUME NEW T, NEW s \in Seq(T), NEW t \in Seq(T)
  PROVE  IsPrefix(s, t) <=> Len(s) <= Len(t) /\ \A i \in 1..Len(s) : s[i] = t[i]
BY DEF IsPrefix

(* The files a reader works on: its snapshot is what the store listed first. *)
LEMMA SnapshotIs ==
  ASSUME IInv, NEW r \in Readers, listed[r] # None
  PROVE  /\ listed[r] \in Groups /\ snapshot[r] \in Seq(Listed)
         /\ fetched[r] \in Seq(Contents \cup {None})
         /\ Len(fetched[r]) \in Nat /\ Len(snapshot[r]) \in Nat
         /\ Len(fetched[r]) <= Len(snapshot[r]) /\ Len(snapshot[r]) <= Len(order[listed[r]])
         /\ Len(order[listed[r]]) = Len(uploaded[listed[r]]) /\ Len(order[listed[r]]) \in Nat
         /\ \A i \in 1..Len(snapshot[r]) : snapshot[r][i] = order[listed[r]][i]
<1>1. listed[r] \in Groups /\ snapshot[r] \in Seq(Listed) /\ fetched[r] \in Seq(Contents \cup {None})
      /\ Len(fetched[r]) <= Len(snapshot[r])
  BY DEF IInv, TypeOK
<1>2. order[listed[r]] \in Seq(Listed) /\ Len(order[listed[r]]) = Len(uploaded[listed[r]])
  BY <1>1 DEF IInv, TypeOK, StoreTypeOK
<1>3. IsPrefix(snapshot[r], order[listed[r]])
  BY DEF IInv, SnapshotsStayValid, Listing
<1>4. /\ Len(snapshot[r]) <= Len(order[listed[r]])
      /\ \A i \in 1..Len(snapshot[r]) : snapshot[r][i] = order[listed[r]][i]
  BY <1>1, <1>2, <1>3, PrefixIs
<1>5. QED
  BY <1>1, <1>2, <1>4

(* A reader whose list is still a part of its group's keeps what it has. *)
LEMMA ReaderKept ==
  ASSUME IInv, NEW r \in Readers, listed[r] # None, UNCHANGED readerVars,
         order'[listed[r]] \in Seq(Listed),
         Len(order[listed[r]]) <= Len(order'[listed[r]]),
         \A i \in 1..Len(order[listed[r]]) :
           /\ order'[listed[r]][i] = order[listed[r]][i]
           /\ uploaded'[listed[r]][i] = uploaded[listed[r]][i]
  PROVE  /\ IsPrefix(snapshot'[r], order'[listed'[r]])
         /\ \A i \in 1..Len(fetched'[r]) : fetched'[r][i] # None
         /\ FetchedAsUploaded(r) => FetchedAsUploaded(r)'
<1>1. snapshot' = snapshot /\ fetched' = fetched /\ listed' = listed
  BY DEF readerVars
<1>2. /\ snapshot[r] \in Seq(Listed) /\ Len(fetched[r]) \in Nat /\ Len(snapshot[r]) \in Nat
      /\ Len(fetched[r]) <= Len(snapshot[r]) /\ Len(snapshot[r]) <= Len(order[listed[r]])
      /\ Len(order[listed[r]]) \in Nat /\ Len(order'[listed[r]]) \in Nat
      /\ \A i \in 1..Len(snapshot[r]) : snapshot[r][i] = order[listed[r]][i]
  BY SnapshotIs
<1>3. /\ Len(snapshot[r]) <= Len(order'[listed[r]])
      /\ \A i \in 1..Len(snapshot[r]) : snapshot[r][i] = order'[listed[r]][i]
  BY <1>2
<1>4. IsPrefix(snapshot[r], order'[listed[r]])
  BY <1>2, <1>3, PrefixIs
<1>5. \A i \in 1..Len(fetched[r]) : fetched[r][i] # None
  BY DEF IInv, SnapshotsStayValid
<1>6. FetchedAsUploaded(r) => FetchedAsUploaded(r)'
  <2>1. \A i \in 1..Len(fetched[r]) : i \in 1..Len(order[listed[r]])
    BY <1>2
  <2>2. QED
    BY <1>1, <2>1 DEF FetchedAsUploaded
<1>7. QED
  BY <1>1, <1>4, <1>5, <1>6

LEMMA UploadStep ==
  ASSUME IInv, NEW g \in Groups, NEW batch \in Batches, Upload(g, batch)
  PROVE  IInv'
<1>0. TypeOK /\ StoreInv /\ Add(g, batch)
  BY DEF IInv, Upload
<1>1. /\ listed' = listed /\ snapshot' = snapshot /\ fetched' = fetched /\ cached' = cached
      /\ restarts' = restarts /\ batched' = (batched \/ Len(batch) > 1)
  BY DEF Upload, readerVars
<1>2. /\ StoreInv'
      /\ \A h \in Groups :
           /\ Len(order[h]) <= Len(order'[h])
           /\ \A i \in 1..Len(order[h]) : order'[h][i] = order[h][i]
                                        /\ uploaded'[h][i] = uploaded[h][i]
      /\ \A h \in Groups \ {g} : /\ members'[h] = members[h] /\ order'[h] = order[h]
                                 /\ uploaded'[h] = uploaded[h]
      /\ DOMAIN members[g] \subseteq DOMAIN members'[g]
      /\ OneByOne(g)' => \A raw \in DOMAIN members[g] : members'[g][raw] = members[g][raw]
      /\ OneByOne(g)' => OneByOne(g)
      /\ Len(batch) = 1 /\ OneByOne(g) => OneByOne(g)'
  BY <1>0, AddStore
<1>3. \A h \in Groups \ {g} : OneByOne(h)' <=> OneByOne(h)
  BY <1>2 DEF OneByOne
<1>4. TypeOK'
  <2>1. batched' \in BOOLEAN
    BY <1>1, Zenon
  <2>2. StoreTypeOK'
    BY <1>2 DEF StoreInv
  <2>3. QED
    BY <1>0, <1>1, <2>1, <2>2 DEF TypeOK
<1>5. \A h \in Groups : order'[h] \in Seq(Listed)
  BY <1>4 DEF TypeOK, StoreTypeOK
<1>6. ASSUME NEW r \in Readers, listed[r] # None
      PROVE  /\ IsPrefix(snapshot'[r], order'[listed'[r]])
             /\ \A i \in 1..Len(fetched'[r]) : fetched'[r][i] # None
             /\ FetchedAsUploaded(r) => FetchedAsUploaded(r)'
  <2>1. listed[r] \in Groups
    BY <1>6, SnapshotIs
  <2>2. QED
    BY <1>1, <1>2, <1>5, <1>6, <2>1, ReaderKept DEF readerVars
<1>7. SnapshotsStayValid'
  BY <1>1, <1>6 DEF SnapshotsStayValid, Listing
<1>8. ASSUME NEW h \in Groups PROVE OneByOne(h)' => OneByOne(h)
  BY <1>2, <1>3
<1>9. AggregatesWhatThisRunUploaded'
  <2>1. SUFFICES ASSUME NEW r \in Readers, NEW h \in Groups, h = listed[r], h # None
                 PROVE  /\ OneByOne(h)' /\ restarts = 0 => FetchedAsUploaded(r)'
                        /\ ~batched' => \A i \in 1..Len(fetched[r]) :
                                          SizeOf[fetched[r][i]] = snapshot[r][i].size
    <3>1. \A r \in Readers : listed[r] # None => listed[r] \in Groups
      BY <1>0 DEF TypeOK
    <3>2. QED
      BY <1>1, <3>1 DEF AggregatesWhatThisRunUploaded
  <2>3. /\ OneByOne(h) /\ restarts = 0 => FetchedAsUploaded(r)
        /\ ~batched => \A i \in 1..Len(fetched[r]) :
                         SizeOf[fetched[r][i]] = snapshot[r][i].size
    BY <2>1 DEF IInv, AggregatesWhatThisRunUploaded
  <2>4. OneByOne(h)' /\ restarts = 0 => FetchedAsUploaded(r)'
    BY <1>6, <1>8, <2>1, <2>3
  <2>5. ~batched' => ~batched
    BY <1>1, Zenon
  <2>6. QED
    BY <2>3, <2>4, <2>5
<1>10. CachedAsStored'
  <2>1. SUFFICES ASSUME restarts = 0, NEW k \in DOMAIN cached
                 PROVE  /\ k[2] \in DOMAIN members'[k[1]]
                        /\ OneByOne(k[1])' => cached[k] = members'[k[1]][k[2]]
    BY <1>1 DEF CachedAsStored
  <2>2. k[1] \in Groups
    BY <1>0 DEF TypeOK
  <2>3. /\ k[2] \in DOMAIN members[k[1]]
        /\ OneByOne(k[1]) => cached[k] = members[k[1]][k[2]]
    BY <2>1 DEF IInv, CachedAsStored
  <2>4. CASE k[1] = g
    BY <1>2, <2>3, <2>4
  <2>5. CASE k[1] # g
    BY <1>2, <1>3, <2>2, <2>3, <2>5
  <2>6. QED
    BY <2>4, <2>5
<1>11. SizesAreTrue'
  <2>1. SUFFICES ASSUME ~batched' PROVE /\ \A h \in Groups : OneByOne(h)'
                                        /\ \A k \in DOMAIN cached : SizeOf[cached[k]] = k[3]
    BY <1>1 DEF SizesAreTrue
  <2>2. ~batched /\ ~(Len(batch) > 1)
    BY <1>1, <2>1, Zenon
  <2>3. Len(batch) = 1
    <3>1. Len(batch) \in Nat \ {0}
      BY BatchIs
    <3>2. ~(Len(batch) > 1)
      BY <2>2, Zenon
    <3>3. ASSUME NEW n \in Nat \ {0}, ~(n > 1) PROVE n = 1
      BY <3>3
    <3>4. QED
      BY <3>1, <3>2, <3>3
  <2>4. \A h \in Groups : OneByOne(h)
    BY <2>2 DEF IInv, SizesAreTrue
  <2>5. \A h \in Groups : OneByOne(h)'
    BY <1>2, <1>3, <2>3, <2>4
  <2>6. QED
    BY <2>2, <2>5 DEF IInv, SizesAreTrue
<1>12. QED
  BY <1>2, <1>4, <1>7, <1>9, <1>10, <1>11 DEF IInv

(* A reader that starts or ends has fetched nothing. *)
LEMMA EmptyReader ==
  ASSUME IInv, NEW r \in Readers, NEW h \in Groups \cup {None},
         UNCHANGED <<storeVars, cached, restarts, batched>>, fetched' = [fetched EXCEPT ![r] = <<>>],
         listed' = [listed EXCEPT ![r] = h],
         snapshot' = [snapshot EXCEPT ![r] = IF h = None THEN <<>> ELSE order[h]]
  PROVE  IInv'
<1>0. TypeOK /\ StoreTypeOK /\ None \notin Groups
  BY UploadAssumption DEF IInv, TypeOK
<1>1. /\ members' = members /\ order' = order /\ uploaded' = uploaded /\ cached' = cached
      /\ restarts' = restarts /\ batched' = batched
  BY DEF storeVars
<1>2. snapshot'[r] \in Seq(Listed) /\ snapshot'[r] = (IF h = None THEN <<>> ELSE order[h])
  BY <1>0 DEF TypeOK, StoreTypeOK
<1>3. /\ listed'[r] = h /\ fetched'[r] = <<>>
      /\ \A s \in Readers \ {r} : /\ listed'[s] = listed[s] /\ snapshot'[s] = snapshot[s]
                                  /\ fetched'[s] = fetched[s]
  BY <1>0 DEF TypeOK
<1>4. TypeOK'
  <2>1. listed' \in [Readers -> Groups \cup {None}] /\ snapshot' \in [Readers -> Seq(Listed)]
        /\ fetched' \in [Readers -> Seq(Contents \cup {None})]
    BY <1>0, <1>2 DEF TypeOK
  <2>2. \A s \in Readers : /\ Len(fetched'[s]) <= Len(snapshot'[s])
                           /\ listed'[s] = None => snapshot'[s] = <<>>
    <3>1. Len(snapshot'[r]) \in Nat /\ Len(fetched'[r]) = 0
      BY <1>2, <1>3
    <3>2. QED
      BY <1>0, <1>2, <1>3, <3>1 DEF TypeOK
  <2>3. StoreTypeOK'
    BY <1>0, <1>1 DEF StoreTypeOK
  <2>4. QED
    BY <1>0, <1>1, <2>1, <2>2, <2>3 DEF TypeOK
<1>5. StoreInv'
  BY <1>1 DEF IInv, StoreInv, StoreTypeOK, GroupInv, ListedAsComputed, StoresTheListed,
              OneByOne, AllKept, Kept, Content
<1>6. CachedAsStored' /\ SizesAreTrue'
  BY <1>1 DEF IInv, CachedAsStored, SizesAreTrue, OneByOne
<1>7. SnapshotsStayValid'
  <2>1. SUFFICES ASSUME NEW s \in Readers, listed'[s] # None
                 PROVE  /\ IsPrefix(snapshot'[s], order'[listed'[s]])
                        /\ \A i \in 1..Len(fetched'[s]) : fetched'[s][i] # None
    BY DEF SnapshotsStayValid, Listing
  <2>2. CASE s = r
    <3>1. snapshot'[s] = order[listed'[s]] /\ order[listed'[s]] \in Seq(Listed)
      BY <1>0, <1>2, <1>3, <2>1, <2>2 DEF StoreTypeOK
    <3>2. Len(order[listed'[s]]) <= Len(order[listed'[s]])
      BY <3>1
    <3>3. IsPrefix(order[listed'[s]], order[listed'[s]])
      BY <3>1, <3>2, PrefixIs
    <3>4. QED
      BY <1>1, <1>3, <2>2, <3>1, <3>3
  <2>3. CASE s # r
    BY <1>1, <1>3, <2>1, <2>3 DEF IInv, SnapshotsStayValid, Listing
  <2>4. QED
    BY <2>2, <2>3
<1>8. AggregatesWhatThisRunUploaded'
  <2>1. SUFFICES ASSUME NEW s \in Readers, listed'[s] # None
                 PROVE  /\ OneByOne(listed[s])' /\ restarts' = 0 => FetchedAsUploaded(s)'
                        /\ ~batched' => \A i \in 1..Len(fetched'[s]) :
                                          SizeOf[fetched'[s][i]] = snapshot'[s][i].size
    BY DEF AggregatesWhatThisRunUploaded
  <2>2. CASE s = r
    BY <1>3, <2>2 DEF FetchedAsUploaded
  <2>3. CASE s # r
    <3>1. /\ OneByOne(listed[s]) /\ restarts = 0 => FetchedAsUploaded(s)
          /\ ~batched => \A i \in 1..Len(fetched[s]) :
                           SizeOf[fetched[s][i]] = snapshot[s][i].size
      BY <1>3, <2>1, <2>3 DEF IInv, AggregatesWhatThisRunUploaded
    <3>2. /\ OneByOne(listed[s])' <=> OneByOne(listed[s])
          /\ FetchedAsUploaded(s)' <=> FetchedAsUploaded(s)
      BY <1>1, <1>3, <2>3 DEF OneByOne, FetchedAsUploaded
    <3>3. QED
      BY <1>1, <1>3, <2>3, <3>1, <3>2
  <2>4. QED
    BY <2>2, <2>3
<1>9. QED
  BY <1>4, <1>5, <1>6, <1>7, <1>8 DEF IInv

LEMMA ListStep ==
  ASSUME IInv, NEW r \in Readers, NEW g \in Groups, List(r, g)
  PROVE  IInv'
<1>1. TypeOK /\ g # None /\ listed[r] = None
  BY UploadAssumption DEF IInv, List
<1>2. fetched[r] = <<>>
  <2>1. /\ fetched[r] \in Seq(Contents \cup {None}) /\ snapshot[r] = <<>>
        /\ Len(fetched[r]) <= Len(snapshot[r])
    BY <1>1 DEF TypeOK
  <2>2. Len(fetched[r]) = 0
    BY <2>1
  <2>3. QED
    BY <2>1, <2>2
<1>3. fetched' = [fetched EXCEPT ![r] = <<>>]
  BY <1>1, <1>2 DEF List, TypeOK
<1>4. QED
  BY <1>1, <1>3, EmptyReader DEF List, Listing

LEMMA FinishStep ==
  ASSUME IInv, NEW r \in Readers, Finish(r)
  PROVE  IInv'
BY EmptyReader DEF Finish

LEMMA ElementIs ==
  ASSUME NEW T, NEW s \in Seq(T), NEW i \in 1..Len(s)
  PROVE  s[i] \in T
OBVIOUS

KeyOf(r) == ObjectKey(listed[r], Entry(r))
Got(r) == IF KeyOf(r) \in DOMAIN cached THEN cached[KeyOf(r)]
          ELSE Content(listed[r], Entry(r).raw)

(* What is known of the member a reader fetches next, of its key and of    *)
(* what the fetch returns.                                                 *)
FetchKnown(r, g, i, e, k, c) ==
  /\ g \in Groups /\ i \in 1..Len(order[g]) /\ i \in 1..Len(snapshot[r])
  /\ e = order[g][i] /\ k \in Groups \X Raw \X Nat
  /\ k[1] = g /\ k[2] = e.raw /\ k[3] = e.size
  /\ c \in Contents /\ e.raw \in DOMAIN members[g]
  /\ OneByOne(g) => members[g][e.raw] = uploaded[g][i].content
  /\ OneByOne(g) /\ restarts = 0 => c = members[g][e.raw]
  /\ ~batched => SizeOf[c] = e.size

(* What a fetch returns for a member: its cached or its stored content. *)
LEMMA FetchedIs ==
  ASSUME IInv, NEW r \in Readers, Reading(r)
  PROVE  FetchKnown(r, listed[r], Len(fetched[r]) + 1, Entry(r), KeyOf(r), Got(r))
<1> DEFINE g == listed[r]
           i == Len(fetched[r]) + 1
           e == Entry(r)
           k == KeyOf(r)
           c == Got(r)
<1>1. /\ g \in Groups /\ i \in 1..Len(order[g]) /\ i \in 1..Len(snapshot[r])
      /\ e = order[g][i] /\ snapshot[r] \in Seq(Listed)
  <2>1. /\ g \in Groups /\ Len(fetched[r]) \in Nat /\ Len(snapshot[r]) \in Nat
        /\ Len(snapshot[r]) <= Len(order[g]) /\ Len(order[g]) \in Nat
        /\ \A j \in 1..Len(snapshot[r]) : snapshot[r][j] = order[g][j]
        /\ snapshot[r] \in Seq(Listed)
    BY SnapshotIs DEF Reading
  <2>2. Len(fetched[r]) < Len(snapshot[r])
    BY DEF Reading
  <2>3. QED
    BY <2>1, <2>2 DEF Entry
<1>a. k = ObjectKey(g, e)
      /\ c = IF k \in DOMAIN cached THEN cached[k] ELSE Content(g, e.raw)
  BY DEF KeyOf, Got
<1>b. e = snapshot[r][i]
  BY DEF Entry
<1> HIDE DEF g, i, e, k, c
<1>2. e \in Listed
  BY <1>1, <1>b, ElementIs
<1>3. k \in Groups \X Raw \X Nat /\ k[1] = g /\ k[2] = e.raw /\ k[3] = e.size
  BY <1>1, <1>2, <1>a DEF ObjectKey, Listed
<1>4. TypeOK /\ StoreTypeOK /\ GroupInv(g) /\ CachedAsStored /\ SizesAreTrue
  BY <1>1 DEF IInv, StoreInv
<1>5. e.raw \in DOMAIN members[g]
  <2>1. order[g] \in Seq(Listed)
    BY <1>1, <1>4 DEF StoreTypeOK
  <2>2. QED
    BY <1>1, <1>4, <2>1 DEF GroupInv, StoresTheListed, KeysOf
<1>6. Content(g, e.raw) = members[g][e.raw]
  BY <1>5 DEF Content
<1>7. members[g][e.raw] \in Contents
  BY <1>1, <1>4, <1>5 DEF StoreTypeOK
<1>8. c \in Contents
  BY <1>a, <1>4, <1>6, <1>7 DEF TypeOK
<1>9. OneByOne(g) => members[g][e.raw] = uploaded[g][i].content
  BY <1>1, <1>4, <1>6 DEF GroupInv, AllKept, Kept
<1>10. OneByOne(g) /\ restarts = 0 => c = members[g][e.raw]
  BY <1>a, <1>3, <1>4, <1>6 DEF CachedAsStored
<1>11. ~batched => SizeOf[c] = e.size
  <2>1. SUFFICES ASSUME ~batched PROVE SizeOf[c] = e.size
    OBVIOUS
  <2>2. OneByOne(g) /\ \A j \in DOMAIN cached : SizeOf[cached[j]] = j[3]
    BY <1>1, <1>4, <2>1 DEF SizesAreTrue
  <2>3. CASE k \in DOMAIN cached
    BY <1>a, <1>3, <2>2, <2>3
  <2>4. CASE k \notin DOMAIN cached
    BY <1>a, <1>1, <1>4, <1>6, <1>9, <2>2, <2>4 DEF GroupInv, ListedAsComputed
  <2>5. QED
    BY <2>3, <2>4
<1>12. QED
  BY <1>1, <1>3, <1>5, <1>8, <1>9, <1>10, <1>11 DEF FetchKnown, g, i, e, k, c

LEMMA FetchStep ==
  ASSUME IInv, NEW r \in Readers, Fetch(r)
  PROVE  IInv'
<1> DEFINE g == listed[r]
           i == Len(fetched[r]) + 1
           e == Entry(r)
           k == KeyOf(r)
           c == Got(r)
<1>1. /\ Reading(r) /\ UNCHANGED <<storeVars, listed, snapshot, restarts, batched>>
      /\ fetched' = [fetched EXCEPT ![r] = Append(@, c)]
      /\ cached' = IF c = None THEN cached
                   ELSE [j \in DOMAIN cached \cup {k} |-> IF j = k THEN c ELSE cached[j]]
  BY DEF Fetch, KeyOf, Got
<1>2. /\ g \in Groups /\ i \in 1..Len(order[g]) /\ i \in 1..Len(snapshot[r])
      /\ e = order[g][i] /\ k \in Groups \X Raw \X Nat
      /\ k[1] = g /\ k[2] = e.raw /\ k[3] = e.size
      /\ c \in Contents /\ e.raw \in DOMAIN members[g]
      /\ OneByOne(g) => members[g][e.raw] = uploaded[g][i].content
      /\ OneByOne(g) /\ restarts = 0 => c = members[g][e.raw]
      /\ ~batched => SizeOf[c] = e.size
  BY <1>1, FetchedIs DEF FetchKnown
<1>e. e = snapshot[r][i]
  BY DEF Entry
<1> HIDE DEF k, c, e
<1>3. TypeOK /\ g # None /\ c # None /\ fetched[r] \in Seq(Contents \cup {None})
      /\ Len(fetched[r]) \in Nat
  <2>1. TypeOK
    BY DEF IInv
  <2>2. g # None /\ c # None
    BY <1>2, UploadAssumption
  <2>3. fetched[r] \in Seq(Contents \cup {None})
    BY <2>1 DEF TypeOK
  <2>4. Len(fetched[r]) \in Nat
    BY <2>3
  <2>5. QED
    BY <2>1, <2>2, <2>3, <2>4
<1>4. /\ members' = members /\ order' = order /\ uploaded' = uploaded /\ listed' = listed
      /\ snapshot' = snapshot /\ restarts' = restarts /\ batched' = batched
      /\ cached' = [j \in DOMAIN cached \cup {k} |-> IF j = k THEN c ELSE cached[j]]
  BY <1>1, <1>3 DEF storeVars
<1>5. /\ \A s \in Readers \ {r} : fetched'[s] = fetched[s]
      /\ fetched'[r] = Append(fetched[r], c)
  BY <1>1, <1>3 DEF TypeOK
<1>6. /\ Len(fetched'[r]) = i /\ fetched'[r][i] = c
      /\ \A j \in 1..i : j # i => j \in 1..Len(fetched[r]) /\ fetched'[r][j] = fetched[r][j]
  BY <1>2, <1>3, <1>5
<1>7. StoreInv' /\ StoreTypeOK'
  BY <1>4 DEF IInv, StoreInv, StoreTypeOK, GroupInv, ListedAsComputed, StoresTheListed,
              OneByOne, AllKept, Kept, Content
<1>8. TypeOK'
  <2>1. fetched' \in [Readers -> Seq(Contents \cup {None})]
    BY <1>1, <1>2, <1>3 DEF TypeOK
  <2>2. \A s \in Readers : /\ Len(fetched'[s]) <= Len(snapshot[s])
                           /\ listed[s] = None => snapshot[s] = <<>>
    <3>1. Len(fetched'[r]) <= Len(snapshot[r])
      <4>1. snapshot[r] \in Seq(Listed)
        BY <1>3 DEF TypeOK
      <4>2. QED
        BY <1>2, <1>6, <4>1
    <3>2. QED
      BY <1>3, <1>5, <3>1 DEF TypeOK
  <2>3. DOMAIN cached' \subseteq Groups \X Raw \X Nat /\ cached' \in [DOMAIN cached' -> Contents]
    BY <1>2, <1>3, <1>4 DEF TypeOK
  <2>4. batched' \in BOOLEAN
    BY <1>3, <1>4, Zenon DEF TypeOK
  <2>5. /\ listed' \in [Readers -> Groups \cup {None}] /\ snapshot' \in [Readers -> Seq(Listed)]
        /\ restarts' \in 0..MaxRestarts
    BY <1>3, <1>4 DEF TypeOK
  <2>6. \A s \in Readers : /\ Len(fetched'[s]) <= Len(snapshot'[s])
                           /\ listed'[s] = None => snapshot'[s] = <<>>
    BY <1>4, <2>2
  <2>7. QED
    BY <1>7, <2>1, <2>3, <2>4, <2>5, <2>6 DEF TypeOK
<1>9. SnapshotsStayValid'
  <2>1. SUFFICES ASSUME NEW s \in Readers, listed[s] # None
                 PROVE  /\ IsPrefix(snapshot[s], order[listed[s]])
                        /\ \A j \in 1..Len(fetched'[s]) : fetched'[s][j] # None
    BY <1>4 DEF SnapshotsStayValid, Listing
  <2>2. /\ IsPrefix(snapshot[s], order[listed[s]])
        /\ \A j \in 1..Len(fetched[s]) : fetched[s][j] # None
    BY <2>1 DEF IInv, SnapshotsStayValid, Listing
  <2>3. CASE s = r
    BY <1>3, <1>6, <2>2, <2>3
  <2>4. CASE s # r
    BY <1>5, <2>2, <2>4
  <2>5. QED
    BY <2>3, <2>4
<1>10. AggregatesWhatThisRunUploaded'
  <2>1. SUFFICES ASSUME NEW s \in Readers, listed[s] # None
                 PROVE  /\ OneByOne(listed[s]) /\ restarts = 0 => FetchedAsUploaded(s)'
                        /\ ~batched => \A j \in 1..Len(fetched'[s]) :
                                         SizeOf[fetched'[s][j]] = snapshot[s][j].size
    BY <1>4 DEF AggregatesWhatThisRunUploaded, OneByOne
  <2>2. /\ OneByOne(listed[s]) /\ restarts = 0 => FetchedAsUploaded(s)
        /\ ~batched => \A j \in 1..Len(fetched[s]) :
                         SizeOf[fetched[s][j]] = snapshot[s][j].size
    BY <2>1 DEF IInv, AggregatesWhatThisRunUploaded
  <2>3. CASE s = r
    <3>1. OneByOne(g) /\ restarts = 0 => FetchedAsUploaded(s)'
      <4>1. SUFFICES ASSUME OneByOne(g), restarts = 0, NEW j \in 1..i
                     PROVE  fetched'[r][j] = uploaded[g][j].content
        BY <1>4, <1>6, <2>3 DEF FetchedAsUploaded
      <4>2. CASE j = i
        BY <1>2, <1>6, <4>1, <4>2
      <4>3. CASE j # i
        BY <1>6, <2>2, <2>3, <4>1, <4>3 DEF FetchedAsUploaded
      <4>4. QED
        BY <4>2, <4>3
    <3>2. ASSUME ~batched, NEW j \in 1..i
          PROVE  SizeOf[fetched'[r][j]] = snapshot[r][j].size
      <4>1. CASE j = i
        BY <1>2, <1>6, <1>e, <3>2, <4>1
      <4>2. CASE j # i
        BY <1>6, <2>2, <2>3, <3>2, <4>2
      <4>3. QED
        BY <4>1, <4>2
    <3>3. QED
      BY <1>6, <2>3, <3>1, <3>2
  <2>4. CASE s # r
    <3>1. fetched'[s] = fetched[s]
      BY <1>5, <2>4
    <3>2. FetchedAsUploaded(s)' <=> FetchedAsUploaded(s)
      BY <1>4, <3>1 DEF FetchedAsUploaded
    <3>3. QED
      BY <2>2, <3>1, <3>2
  <2>5. QED
    BY <2>3, <2>4
<1>11. CachedAsStored'
  <2>1. SUFFICES ASSUME restarts = 0, NEW j \in DOMAIN cached \cup {k}
                 PROVE  /\ j[2] \in DOMAIN members[j[1]]
                        /\ OneByOne(j[1]) => cached'[j] = members[j[1]][j[2]]
    BY <1>4 DEF CachedAsStored, OneByOne
  <2>2. CASE j = k
    BY <1>2, <1>4, <2>1, <2>2
  <2>3. CASE j # k
    BY <1>4, <2>1, <2>3 DEF IInv, CachedAsStored
  <2>4. QED
    BY <2>2, <2>3
<1>12. SizesAreTrue'
  <2>1. SUFFICES ASSUME ~batched
                 PROVE  /\ \A h \in Groups : OneByOne(h)
                        /\ \A j \in DOMAIN cached \cup {k} : SizeOf[cached'[j]] = j[3]
    BY <1>4 DEF SizesAreTrue, OneByOne
  <2>2. \A h \in Groups : OneByOne(h)
    BY <2>1 DEF IInv, SizesAreTrue
  <2>3. \A j \in DOMAIN cached : SizeOf[cached[j]] = j[3]
    BY <2>1 DEF IInv, SizesAreTrue
  <2>4. QED
    BY <1>2, <1>4, <2>1, <2>2, <2>3
<1>13. QED
  BY <1>7, <1>8, <1>9, <1>10, <1>11, <1>12 DEF IInv

(* Empty uploads and idle readers, as at the start and after a restart. *)
LEMMA EmptyStore == StoreInit => StoreInv /\ StoreTypeOK
<1> SUFFICES ASSUME StoreInit PROVE StoreInv /\ StoreTypeOK
  OBVIOUS
<1>1. MaxFiles \in Nat
  BY UploadAssumption
<1>2. \A g \in Groups : order[g] = <<>> /\ uploaded[g] = <<>> /\ members[g] = <<>>
  BY DEF StoreInit
<1>3. DOMAIN <<>> = {} /\ Len(<<>>) = 0 /\ 1..0 = {}
  OBVIOUS
<1>4. StoreTypeOK
  <2>1. order \in [Groups -> Seq(Listed)]
    BY DEF StoreInit
  <2>2. uploaded \in [Groups -> Seq([content : Contents, position : 1..MaxFiles])]
    BY DEF StoreInit
  <2>3. members \in [Groups -> {members[g] : g \in Groups}]
    BY DEF StoreInit
  <2>4. ASSUME NEW g \in Groups PROVE members[g] \in [DOMAIN members[g] -> Contents]
    <3>1. <<>> \in [{} -> Contents]
      OBVIOUS
    <3>2. QED
      BY <1>2, <1>3, <3>1
  <2>5. QED
    BY <1>1, <1>2, <1>3, <2>1, <2>2, <2>3, <2>4 DEF StoreTypeOK
<1>5. \A g \in Groups : KeysOf(order[g]) = {}
  BY <1>2, <1>3 DEF KeysOf
<1>6. ASSUME NEW g \in Groups PROVE GroupInv(g)
  <2>1. Len(order[g]) = 0 /\ 1..Len(order[g]) = {}
    BY <1>2, <1>3
  <2>2. ListedAsComputed(g) /\ AllKept(g)
    BY <2>1 DEF ListedAsComputed, AllKept
  <2>3. StoresTheListed(g)
    BY <1>2, <1>3, <1>5 DEF StoresTheListed
  <2>4. QED
    BY <2>2, <2>3 DEF GroupInv
<1>7. QED
  BY <1>4, <1>6 DEF StoreInv

NoReaders ==
  /\ listed = [r \in Readers |-> None]
  /\ snapshot = [r \in Readers |-> <<>>]
  /\ fetched = [r \in Readers |-> <<>>]

ReadersOK ==
  /\ SnapshotsStayValid /\ AggregatesWhatThisRunUploaded
  /\ listed \in [Readers -> Groups \cup {None}]
  /\ snapshot \in [Readers -> Seq(Listed)]
  /\ fetched \in [Readers -> Seq(Contents \cup {None})]
  /\ \A r \in Readers : /\ Len(fetched[r]) <= Len(snapshot[r])
                        /\ listed[r] = None => snapshot[r] = <<>>

LEMMA IdleReaders == NoReaders => ReadersOK
BY DEF NoReaders, ReadersOK, SnapshotsStayValid, AggregatesWhatThisRunUploaded

LEMMA OneByOneAtFirst ==
  ASSUME uploaded = [g \in Groups |-> <<>>]
  PROVE  \A g \in Groups : OneByOne(g)
BY DEF OneByOne

LEMMA InitInv == Init => IInv
<1> SUFFICES ASSUME Init PROVE IInv
  OBVIOUS
<1>1. StoreInv /\ StoreTypeOK
  BY EmptyStore DEF Init, StoreInit
<1>2. TypeOK
  <2>1. restarts \in 0..MaxRestarts
    BY RestartAssumption DEF Init
  <2>2. DOMAIN cached = {} /\ cached \in [DOMAIN cached -> Contents]
    BY DEF Init
  <2>3. QED
    BY <1>1, <2>1, <2>2, IdleReaders DEF Init, TypeOK, NoReaders, ReadersOK
<1>3. SnapshotsStayValid /\ AggregatesWhatThisRunUploaded
  BY IdleReaders DEF Init, NoReaders, ReadersOK
<1>4. DOMAIN cached = {}
  BY DEF Init
<1>5. \A g \in Groups : OneByOne(g)
  BY OneByOneAtFirst DEF Init, StoreInit
<1>6. QED
  BY <1>1, <1>2, <1>3, <1>4, <1>5 DEF IInv, CachedAsStored, SizesAreTrue

LEMMA RestartStep ==
  ASSUME IInv, Restart
  PROVE  IInv'
<1>1. TypeOK /\ restarts' \in 1..MaxRestarts /\ cached' = cached /\ batched' = batched
  BY RestartAssumption DEF IInv, TypeOK, Restart
<1>2. order' = [g \in Groups |-> <<>>] /\ members' = [g \in Groups |-> <<>>]
      /\ uploaded' = [g \in Groups |-> <<>>]
  BY DEF Restart
<1>3. StoreInv' /\ StoreTypeOK'
  <2>1. StoreInit'
    BY <1>2 DEF StoreInit
  <2>2. QED
    BY <2>1, EmptyStore, PTL
<1>4. listed' = [r \in Readers |-> None] /\ snapshot' = [r \in Readers |-> <<>>]
      /\ fetched' = [r \in Readers |-> <<>>]
  BY DEF Restart
<1>5. ReadersOK'
  <2>1. NoReaders'
    BY <1>4 DEF NoReaders
  <2>2. QED
    BY <2>1, IdleReaders, PTL
<1>6. TypeOK'
  BY <1>1, <1>3, <1>5 DEF TypeOK, ReadersOK
<1>7. CachedAsStored'
  BY <1>1 DEF CachedAsStored
<1>8. \A g \in Groups : OneByOne(g)'
  BY <1>2 DEF OneByOne
<1>9. SizesAreTrue'
  BY <1>1, <1>8 DEF IInv, SizesAreTrue
<1>10. QED
  BY <1>3, <1>5, <1>6, <1>7, <1>9 DEF IInv, ReadersOK

LEMMA NextInv == IInv /\ [Next]_vars => IInv'
<1> SUFFICES ASSUME IInv, [Next]_vars PROVE IInv'
  OBVIOUS
<1>1. ASSUME NEW g \in Groups, NEW batch \in Batches, Upload(g, batch) PROVE IInv'
  BY <1>1, UploadStep
<1>2. ASSUME NEW r \in Readers, NEW g \in Groups, List(r, g) PROVE IInv'
  BY <1>2, ListStep
<1>3. ASSUME NEW r \in Readers, Fetch(r) PROVE IInv'
  BY <1>3, FetchStep
<1>4. ASSUME NEW r \in Readers, Finish(r) PROVE IInv'
  BY <1>4, FinishStep
<1>5. CASE Restart
  BY <1>5, RestartStep
<1>6. CASE UNCHANGED vars
  <2>1. UNCHANGED storeVars /\ UNCHANGED readerVars
        /\ cached' = cached /\ restarts' = restarts /\ batched' = batched
    BY <1>6 DEF vars
  <2>2. StoreInv' /\ StoreTypeOK'
    BY <2>1 DEF IInv, storeVars, StoreInv, StoreTypeOK, GroupInv, ListedAsComputed,
                StoresTheListed, OneByOne, AllKept, Kept, Content
  <2>3. TypeOK'
    BY <2>1, <2>2 DEF IInv, TypeOK, readerVars
  <2>4. CachedAsStored' /\ SizesAreTrue'
    BY <2>1 DEF IInv, storeVars, CachedAsStored, SizesAreTrue, OneByOne
  <2>5. SnapshotsStayValid'
    BY <2>1 DEF IInv, storeVars, readerVars, SnapshotsStayValid, Listing
  <2>6. AggregatesWhatThisRunUploaded'
    BY <2>1 DEF IInv, storeVars, readerVars, AggregatesWhatThisRunUploaded,
                FetchedAsUploaded, OneByOne
  <2>7. QED
    BY <2>2, <2>3, <2>4, <2>5, <2>6 DEF IInv
<1>7. QED
  BY <1>1, <1>2, <1>3, <1>4, <1>5, <1>6 DEF Next

-----------------------------------------------------------------------------
(* The invariant of store, readers and cache holds in every state. *)
THEOREM Inductive == Spec => []IInv
BY InitInv, NextInv, PTL DEF Spec

(* Type invariant of the upload store and its readers (upload.go:13-37).   *)
THEOREM TypeCorrect == Spec => []TypeOK
<1>1. IInv => TypeOK
  BY DEF IInv
<1>2. QED
  BY <1>1, Inductive, PTL

(***************************************************************************)
(* However uploads and aggregations interleave, a list that was handed out *)
(* stays a prefix of its group's list and every member of it opens, since  *)
(* uploads only add.  (upload.go:42-43, 79-83, 117-132)                    *)
(***************************************************************************)
THEOREM HandedOutListsStayValid == Spec => []SnapshotsStayValid
<1>1. IInv => SnapshotsStayValid
  BY DEF IInv
<1>2. QED
  BY <1>1, Inductive, PTL

LEMMA PositionIs ==
  ASSUME StoreTypeOK, NEW g \in Groups, NEW i \in 1..Len(order[g])
  PROVE  uploaded[g][i].position \in Int
<1> DEFINE OneUpload == [content : Contents, position : 1..MaxFiles]
<1>1. uploaded[g] \in Seq(OneUpload) /\ i \in 1..Len(uploaded[g])
  BY DEF StoreTypeOK
<1>2. \A u \in OneUpload : u.position \in Int
  BY UploadAssumption
<1> HIDE DEF OneUpload
<1>3. uploaded[g][i] \in OneUpload
  BY <1>1
<1>4. QED
  BY <1>2, <1>3

(***************************************************************************)
(* Files uploaded to a group one by one are all kept, under equal names    *)
(* too, and the files of one upload never share a key.  (upload.go:62-73)  *)
(***************************************************************************)
THEOREM OneByOneIsKept == Spec => []SeparateUploadsAreKept
<1>1. ASSUME IInv PROVE SeparateUploadsAreKept
  <2>1. SUFFICES ASSUME NEW g \in Groups
                 PROVE  /\ OneByOne(g) => \A i \in 1..Len(order[g]) : Kept(g, i)
                        /\ \A i, j \in 1..Len(order[g]) :
                             i < j /\ SameUpload(g, i, j) => order[g][i].raw # order[g][j].raw
    BY DEF SeparateUploadsAreKept
  <2>2. GroupInv(g) /\ StoreTypeOK
    BY <1>1 DEF IInv, StoreInv
  <2>3. OneByOne(g) => \A i \in 1..Len(order[g]) : Kept(g, i)
    BY <2>2 DEF GroupInv, AllKept
  <2>4. ASSUME NEW i \in 1..Len(order[g]), NEW j \in 1..Len(order[g]), i < j, SameUpload(g, i, j)
        PROVE  order[g][i].raw # order[g][j].raw
    <3>1. /\ order[g][i].raw[1] = i + uploaded[g][i].position - 2
          /\ order[g][j].raw[1] = j + uploaded[g][j].position - 2
      BY <2>2 DEF GroupInv, ListedAsComputed
    <3>2. Len(order[g]) \in Nat
      <4>1. order[g] \in Seq(Listed)
        BY <2>2 DEF StoreTypeOK
      <4>2. QED
        BY <4>1
    <3>3. uploaded[g][i].position \in Int /\ uploaded[g][j].position \in Int
      BY <2>2, PositionIs
    <3>4. uploaded[g][j].position - uploaded[g][i].position = j - i
      BY <2>4 DEF SameUpload
    <3>5. ASSUME NEW p \in Int, NEW q \in Int, q - p = j - i
          PROVE  i + p - 2 # j + q - 2
      BY <2>4, <3>2, <3>5
    <3>6. QED
      BY <3>1, <3>3, <3>4, <3>5
  <2>5. QED
    BY <2>3, <2>4
<1>2. QED
  BY <1>1, Inductive, PTL

(***************************************************************************)
(* Until a restart, and in a group filled one by one, every aggregation    *)
(* is of the content that was uploaded; and without uploads of several     *)
(* files it is of content of the listed size, after restarts too.          *)
(* (objcache.go:17-20, 53-62)                                              *)
(***************************************************************************)
THEOREM AggregatedAsUploaded == Spec => []AggregatesWhatThisRunUploaded
<1>1. IInv => AggregatesWhatThisRunUploaded
  BY DEF IInv
<1>2. QED
  BY <1>1, Inductive, PTL
=============================================================================
