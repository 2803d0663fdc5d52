----------------------------- MODULE Engine_proofs -----------------------------
(***************************************************************************)
(* Proofs about Listings, what a request reads of a bucket that changes    *)
(* while it is listed, for any stores, requests, samples and uploads, and  *)
(* about CompareStream, the lines of one comparison, for any groups and    *)
(* pool.  IInv and StreamIInv are inductive.                               *)
(***************************************************************************)
EXTENDS Listings, CompareStream, SetLemmas

-----------------------------------------------------------------------------
(* Orders *)

(* Precedes orders tuples of integers of one length totally.               *)
LEMMA PrecedesIsTransitive ==
  ASSUME NEW n \in Nat, NEW a \in [1..n -> Int], NEW b \in [1..n -> Int],
         NEW c \in [1..n -> Int], Precedes(a, b), Precedes(b, c)
  PROVE  Precedes(a, c)
<1>1. PICK i \in 1..n : a[i] < b[i] /\ \A j \in 1..(i - 1) : a[j] = b[j]
  BY DEF Precedes
<1>2. PICK k \in 1..n : b[k] < c[k] /\ \A j \in 1..(k - 1) : b[j] = c[j]
  BY DEF Precedes
<1>3. CASE i <= k
  <2>1. a[i] < c[i]
    <3>1. b[i] <= c[i]
      BY <1>2, <1>3
    <3> QED
      BY <1>1, <3>1
  <2>2. \A j \in 1..(i - 1) : a[j] = c[j]
    <3> SUFFICES ASSUME NEW j \in 1..(i - 1) PROVE a[j] = c[j]
      OBVIOUS
    <3>1. j \in 1..(k - 1)
      BY <1>3
    <3> QED
      BY <1>1, <1>2, <3>1
  <2> QED
    BY <2>1, <2>2 DEF Precedes
<1>4. CASE k < i
  <2>1. a[k] < c[k]
    <3>1. k \in 1..(i - 1)
      BY <1>4
    <3> QED
      BY <1>1, <1>2, <3>1
  <2>2. \A j \in 1..(k - 1) : a[j] = c[j]
    <3> SUFFICES ASSUME NEW j \in 1..(k - 1) PROVE a[j] = c[j]
      OBVIOUS
    <3>1. j \in 1..(i - 1)
      BY <1>4
    <3> QED
      BY <1>1, <1>2, <3>1
  <2> QED
    BY <2>1, <2>2 DEF Precedes
<1> QED
  BY <1>3, <1>4

LEMMA PrecedesIsAsymmetric ==
  ASSUME NEW n \in Nat, NEW a \in [1..n -> Int], NEW b \in [1..n -> Int],
         Precedes(a, b), Precedes(b, a)
  PROVE  FALSE
<1>1. Precedes(a, a)
  BY PrecedesIsTransitive
<1> QED
  BY <1>1 DEF Precedes

LEMMA PrecedesIsTotal ==
  ASSUME NEW n \in Nat, NEW a \in [1..n -> Int], NEW b \in [1..n -> Int], a # b
  PROVE  Precedes(a, b) \/ Precedes(b, a)
<1> DEFINE D == {i \in 1..n : a[i] # b[i]}
<1>1. D # {} /\ D \subseteq Nat
  OBVIOUS
<1>2. Min(D) \in D /\ \A i \in D : Min(D) <= i
  <2> HIDE DEF D
  <2> QED
    BY <1>1, LeastOfNaturals
<1>3. PICK m \in 1..n : a[m] # b[m] /\ \A i \in D : m <= i
  BY <1>2
<1>4. \A j \in 1..(m - 1) : a[j] = b[j]
  BY <1>3
<1>5. a[m] < b[m] \/ b[m] < a[m]
  BY <1>3
<1> QED
  BY <1>3, <1>4, <1>5 DEF Precedes

-----------------------------------------------------------------------------
(* What a listing is made into: the newest build and the sample.           *)

LEMMA ObjectFacts ==
  ASSUME NEW o \in Objects
  PROVE  /\ o \in Nat \ {0} /\ Ts[o] \in Nat /\ Hash[o] \in Nat /\ Conforms[o] \in BOOLEAN
         /\ Path[o] \in Nat \X Nat \X Nat \X Nat
         /\ \A i \in 1..4 : Path[o][i] \in Nat /\ Path[o][i] # Empty
  BY ListingsAssumption DEF Empty

LEMMA SubsetsAreFinite ==
  ASSUME NEW os \in SUBSET Objects
  PROVE  IsFiniteSet(os)
  BY ListingsAssumption, FS_Subset

(* NewestTs is the greatest timestamp, 0 if there is none.                 *)
LEMMA NewestIsGreatest ==
  ASSUME NEW os \in SUBSET Objects
  PROVE  /\ NewestTs(os) \in Nat
         /\ \A o \in os : Ts[o] <= NewestTs(os)
         /\ NewestTs(os) = 0 \/ \E o \in os : Ts[o] = NewestTs(os)
<1> DEFINE T == {Ts[o] : o \in os} \cup {0}
<1>1. T \subseteq Nat /\ T # {}
  BY ObjectFacts
<1>2. IsFiniteSet(T)
  <2>1. IsFiniteSet({Ts[o] : o \in os})
    BY SubsetsAreFinite, FiniteImage
  <2> QED
    BY <2>1, FS_AddElement
<1>3. Max(T) \in T /\ \A x \in T : x <= Max(T)
  <2> HIDE DEF T
  <2> QED
    BY <1>1, <1>2, GreatestOfNaturals
<1>4. NewestTs(os) = Max(T)
  BY DEF NewestTs
<1> QED
  BY <1>1, <1>3, <1>4

(* The newest timestamp of more objects is no older.                       *)
LEMMA NewestGrows ==
  ASSUME NEW os \in SUBSET Objects, NEW more \in SUBSET Objects, os \subseteq more
  PROVE  NewestTs(os) <= NewestTs(more)
<1>1. NewestTs(os) \in Nat /\ NewestTs(more) \in Nat
  BY NewestIsGreatest
<1>2. CASE NewestTs(os) = 0
  BY <1>1, <1>2
<1>3. CASE NewestTs(os) # 0
  <2>1. PICK o \in os : Ts[o] = NewestTs(os)
    BY <1>3, NewestIsGreatest
  <2> QED
    BY <2>1, NewestIsGreatest
<1> QED
  BY <1>2, <1>3

(* Build g is newer than that of o, or as new and not of an earlier date.  *)
AsNew(os, g, o) ==
  \/ NewestTs(MembersOf(os, Path[o])) < NewestTs(MembersOf(os, g))
  \/ /\ NewestTs(MembersOf(os, Path[o])) = NewestTs(MembersOf(os, g))
     /\ Path[o][3] <= g[3]

(* pickNewestGroup picks a build among those listed that none of the       *)
(* others listed is newer than, or as new as and of a later date.          *)
LEMMA NewestBuildIsPicked ==
  ASSUME NEW os \in SUBSET Objects, os # {}
  PROVE  /\ \E o \in os : Path[o] = PickNewest(os)
         /\ \A o \in os : AsNew(os, PickNewest(os), o)
<1> DEFINE Key(g) == <<NewestTs(MembersOf(os, g)), g[3], g[4], -g[1], -g[2]>>
           Groups == {Path[o] : o \in os}
           R == {p \in Groups \X Groups : Precedes(Key(p[1]), Key(p[2]))}
<1>1. \A g \in Groups : g \in Nat \X Nat \X Nat \X Nat /\ Key(g) \in [1..5 -> Int]
  <2> SUFFICES ASSUME NEW o \in os
               PROVE  Path[o] \in Nat \X Nat \X Nat \X Nat /\ Key(Path[o]) \in [1..5 -> Int]
    OBVIOUS
  <2>1. Path[o] \in Nat \X Nat \X Nat \X Nat
    BY ObjectFacts
  <2>2. MembersOf(os, Path[o]) \in SUBSET Objects
    BY DEF MembersOf, ProfilesOf
  <2>3. NewestTs(MembersOf(os, Path[o])) \in Nat
    BY <2>2, NewestIsGreatest
  <2> QED
    BY <2>1, <2>3
<1>2. \A g, h \in Groups : Key(g) = Key(h) => g = h
  <2> SUFFICES ASSUME NEW g \in Groups, NEW h \in Groups, Key(g) = Key(h) PROVE g = h
    OBVIOUS
  <2>1. g \in Nat \X Nat \X Nat \X Nat /\ h \in Nat \X Nat \X Nat \X Nat
    BY <1>1
  <2>2. g[3] = h[3] /\ g[4] = h[4] /\ -g[1] = -h[1] /\ -g[2] = -h[2]
    OBVIOUS
  <2> QED
    BY <2>1, <2>2
<1>3. \A g, h \in Groups : <<g, h>> \in R <=> Precedes(Key(g), Key(h))
  OBVIOUS
<1>4. IsFiniteSet(Groups) /\ Groups # {}
  BY SubsetsAreFinite, FiniteImage
<1>5. PICK g \in Groups : \A h \in Groups \ {g} : <<h, g>> \in R
  <2> HIDE DEF Key, Groups, R
  <2>1. \A a, b \in Groups : a # b => <<a, b>> \in R \/ <<b, a>> \in R
    BY <1>1, <1>2, <1>3, PrecedesIsTotal
  <2>2. \A a, b, c \in Groups : <<a, b>> \in R /\ <<b, c>> \in R => <<a, c>> \in R
    <3> SUFFICES ASSUME NEW a \in Groups, NEW b \in Groups, NEW c \in Groups,
                        <<a, b>> \in R, <<b, c>> \in R
                 PROVE  <<a, c>> \in R
      OBVIOUS
    <3> QED
      BY <1>1, <1>3, PrecedesIsTransitive
  <2> QED
    BY <1>4, <2>1, <2>2, Greatest
<1>6. \A h \in Groups \ {g} : Precedes(Key(h), Key(g))
  <2> HIDE DEF Key, Groups, R
  <2> QED
    BY <1>3, <1>5
<1>7. PickNewest(os) = CHOOSE x \in Groups : \A h \in Groups \ {x} : Precedes(Key(h), Key(x))
  BY DEF PickNewest
<1> DEFINE b == PickNewest(os)
<1>8. b \in Groups /\ \A h \in Groups \ {b} : Precedes(Key(h), Key(b))
  <2> HIDE DEF Key, Groups
  <2> QED
    BY <1>6, <1>7
<1>9. ASSUME NEW o \in os
      PROVE  AsNew(os, b, o)
  <2> DEFINE h == Path[o]
  <2>1. h \in Groups /\ Key(h) \in [1..5 -> Int] /\ Key(b) \in [1..5 -> Int]
    BY <1>1, <1>8
  <2> HIDE DEF b
  <2>2. h[3] \in Nat /\ b[3] \in Nat
    <3>1. h \in Nat \X Nat \X Nat \X Nat /\ b \in Nat \X Nat \X Nat \X Nat
      BY <1>1, <1>8, <2>1
    <3> QED
      BY <3>1
  <2>3. CASE h = b
    BY <2>1, <2>2, <2>3 DEF AsNew
  <2>4. CASE h # b
    <3>1. PICK i \in 1..5 : /\ Key(h)[i] < Key(b)[i]
                            /\ \A j \in 1..(i - 1) : Key(h)[j] = Key(b)[j]
      <4>1. Precedes(Key(h), Key(b))
        BY <1>8, <2>1, <2>4
      <4> QED
        BY <4>1 DEF Precedes
    <3>2. CASE i = 1
      BY <3>1, <3>2 DEF AsNew
    <3>3. CASE i = 2
      <4>1. 1 \in 1..(i - 1)
        BY <3>3
      <4>2. Key(h)[1] = Key(b)[1] /\ Key(h)[2] < Key(b)[2]
        BY <3>1, <3>3, <4>1
      <4> QED
        BY <2>2, <4>2 DEF AsNew
    <3>4. CASE i > 2
      <4>1. 1 \in 1..(i - 1) /\ 2 \in 1..(i - 1)
        BY <3>4
      <4>2. Key(h)[1] = Key(b)[1] /\ Key(h)[2] = Key(b)[2]
        BY <3>1, <4>1
      <4> QED
        BY <2>2, <4>2 DEF AsNew
    <3> QED
      BY <3>2, <3>3, <3>4
  <2> QED
    BY <2>3, <2>4
<1>10. \E o \in os : Path[o] = b
  BY <1>8
<1> HIDE DEF Key, Groups, R
<1> QED
  BY <1>9, <1>10

(* The lowest n of a finite set under a total transitive relation.         *)
LEMMA LowestExist ==
  ASSUME NEW S, IsFiniteSet(S), NEW R,
         \A a, b \in S : a # b => <<a, b>> \in R \/ <<b, a>> \in R,
         \A a, b, c \in S : <<a, b>> \in R /\ <<b, c>> \in R => <<a, c>> \in R,
         NEW n \in 0..Cardinality(S)
  PROVE  \E s \in kSubset(n, S) : \A a \in s : \A b \in S \ s : <<a, b>> \in R
<1> DEFINE Lowest(k) == \E s \in SUBSET S : /\ Cardinality(s) = k
                                            /\ \A a \in s : \A b \in S \ s : <<a, b>> \in R
           D == {k \in 0..Cardinality(S) : ~Lowest(k)}
<1>1. Cardinality(S) \in Nat
  BY FS_CardinalityType
<1>2. D = {}
  <2> SUFFICES ASSUME D # {} PROVE FALSE
    OBVIOUS
  <2>1. D \subseteq Nat
    BY <1>1
  <2>2. Min(D) \in D /\ \A k \in D : Min(D) <= k
    <3> HIDE DEF D
    <3> QED
      BY <2>1, LeastOfNaturals
  <2>3. PICK m \in 0..Cardinality(S) : ~Lowest(m) /\ \A k \in D : m <= k
    BY <2>2
  <2>4. m # 0
    <3>1. Cardinality({}) = 0
      BY FS_EmptySet
    <3>2. Lowest(0)
      BY <3>1
    <3> QED
      BY <2>3, <3>2
  <2>5. Lowest(m - 1)
    BY <1>1, <2>3, <2>4
  <2>6. PICK s \in SUBSET S : /\ Cardinality(s) = m - 1
                             /\ \A a \in s : \A b \in S \ s : <<a, b>> \in R
    BY <2>5
  <2>7. IsFiniteSet(s) /\ IsFiniteSet(S \ s)
    BY FS_Subset
  <2>8. S \ s # {}
    <3>1. s # S
      BY <1>1, <2>3, <2>6
    <3> QED
      BY <3>1
  <2>9. PICK x \in S \ s : \A b \in (S \ s) \ {x} : <<x, b>> \in R
    <3> DEFINE Q == {p \in S \X S : <<p[2], p[1]>> \in R}
    <3>1. \A a, b \in S : <<a, b>> \in Q <=> <<b, a>> \in R
      OBVIOUS
    <3> HIDE DEF Q
    <3>2. \A a, b \in S \ s : a # b => <<a, b>> \in Q \/ <<b, a>> \in Q
      BY <3>1
    <3>3. \A a, b, c \in S \ s : <<a, b>> \in Q /\ <<b, c>> \in Q => <<a, c>> \in Q
      BY <3>1
    <3>4. \E g \in S \ s : \A h \in (S \ s) \ {g} : <<h, g>> \in Q
      <4> HIDE DEF D, Lowest
      <4> QED
        BY <2>7, <2>8, <3>2, <3>3, Greatest
    <3> QED
      BY <3>1, <3>4
  <2> DEFINE t == s \cup {x}
  <2>10. t \in SUBSET S /\ Cardinality(t) = m
    <3>1. x \notin s /\ x \in S
      BY <2>9
    <3>2. Cardinality(t) = Cardinality(s) + 1
      BY <2>7, <3>1, FS_AddElement
    <3>3. m \in Nat
      BY <1>1, <2>3
    <3> QED
      BY <2>6, <3>1, <3>2, <3>3
  <2>11. \A a \in t : \A b \in S \ t : <<a, b>> \in R
    BY <2>6, <2>9
  <2>12. Lowest(m)
    <3> HIDE DEF t
    <3> QED
      BY <2>10, <2>11
  <2> QED
    BY <2>3, <2>12
<1>3. Lowest(n)
  BY <1>2
<1> QED
  BY <1>3 DEF kSubset

(* A sample smaller than its group has the lowest ranks of it.             *)
LEMMA SampleIsLowest ==
  ASSUME NEW ms \in SUBSET Objects, NEW n \in Nat, n # 0, n < Cardinality(ms)
  PROVE  /\ Sample(ms, n) \in SUBSET ms /\ Cardinality(Sample(ms, n)) = n
         /\ \A a \in Sample(ms, n) : \A b \in ms \ Sample(ms, n) :
              Precedes(<<Hash[a], a>>, <<Hash[b], b>>)
<1> DEFINE Rank(o) == <<Hash[o], o>>
           R == {p \in ms \X ms : Precedes(Rank(p[1]), Rank(p[2]))}
           Low(s) == \A a \in s : \A b \in ms \ s : Precedes(Rank(a), Rank(b))
<1>1. IsFiniteSet(ms) /\ Cardinality(ms) \in Nat
  BY SubsetsAreFinite, FS_CardinalityType
<1>2. \A a \in ms : Rank(a) \in [1..2 -> Int]
  BY ObjectFacts
<1>3. \A a, b \in ms : Rank(a) = Rank(b) => a = b
  OBVIOUS
<1>4. \A a, b \in ms : <<a, b>> \in R <=> Precedes(Rank(a), Rank(b))
  OBVIOUS
<1>5. \E s \in kSubset(n, ms) : \A a \in s : \A b \in ms \ s : <<a, b>> \in R
  <2> HIDE DEF Rank, R, Low
  <2>1. \A a, b \in ms : a # b => <<a, b>> \in R \/ <<b, a>> \in R
    BY <1>2, <1>3, <1>4, PrecedesIsTotal
  <2>2. ASSUME NEW a \in ms, NEW b \in ms, NEW c \in ms, <<a, b>> \in R, <<b, c>> \in R
        PROVE  <<a, c>> \in R
    BY <1>2, <1>4, <2>2, PrecedesIsTransitive
  <2>3. n \in 0..Cardinality(ms)
    BY <1>1
  <2> QED
    BY <1>1, <2>1, <2>2, <2>3, LowestExist
<1>6. \E s \in kSubset(n, ms) : Low(s)
  <2> HIDE DEF Rank, R
  <2> QED
    BY <1>4, <1>5 DEF kSubset
<1>7. Sample(ms, n) = CHOOSE s \in kSubset(n, ms) : Low(s)
  <2>1. ~(n = 0 \/ n >= Cardinality(ms))
    BY <1>1
  <2> QED
    BY <2>1, Zenon DEF Sample
<1>8. Sample(ms, n) \in kSubset(n, ms) /\ Low(Sample(ms, n))
  <2> HIDE DEF Low
  <2> QED
    BY <1>6, <1>7
<1> QED
  BY <1>8 DEF kSubset

(* A sample is of its group, and as large as it may be.                    *)
LEMMA SampleFits ==
  ASSUME NEW ms \in SUBSET Objects, NEW n \in Nat
  PROVE  /\ Sample(ms, n) \in SUBSET ms
         /\ Cardinality(Sample(ms, n)) =
              IF n = 0 THEN Cardinality(ms) ELSE Min({n, Cardinality(ms)})
<1>1. Cardinality(ms) \in Nat
  BY SubsetsAreFinite, FS_CardinalityType
<1>2. CASE n = 0
  BY <1>2 DEF Sample
<1>3. CASE n # 0 /\ n >= Cardinality(ms)
  <2>1. Min({n, Cardinality(ms)}) = Cardinality(ms)
    BY <1>1, <1>3, LeastOfNaturals
  <2> QED
    BY <1>3, <2>1 DEF Sample
<1>4. CASE n # 0 /\ n < Cardinality(ms)
  <2>1. Min({n, Cardinality(ms)}) = n
    BY <1>1, <1>4, LeastOfNaturals
  <2> QED
    BY <1>4, <2>1, SampleIsLowest
<1> QED
  BY <1>1, <1>2, <1>3, <1>4

(* A profile of the sample of a longer list is in that of a shorter one.   *)
LEMMA SampleIsMonotone ==
  ASSUME NEW ms \in SUBSET Objects, NEW more \in SUBSET Objects, ms \subseteq more,
         NEW n \in Nat
  PROVE  Sample(more, n) \cap ms \subseteq Sample(ms, n)
<1>1. /\ IsFiniteSet(more) /\ Cardinality(ms) \in Nat /\ Cardinality(more) \in Nat
      /\ Cardinality(ms) <= Cardinality(more)
  BY SubsetsAreFinite, FS_CardinalityType, FS_Subset
<1>2. CASE n = 0 \/ n >= Cardinality(ms)
  BY <1>2 DEF Sample
<1>3. CASE n # 0 /\ n < Cardinality(ms)
  <2> SUFFICES ASSUME NEW o \in Sample(more, n) \cap ms, o \notin Sample(ms, n)
               PROVE  FALSE
    OBVIOUS
  <2> DEFINE s == Sample(ms, n)
             t == Sample(more, n)
  <2>1. s \in SUBSET ms /\ Cardinality(s) = n /\ t \in SUBSET more /\ Cardinality(t) = n
    BY <1>1, <1>3, SampleIsLowest
  <2>2. \A a \in s : Precedes(<<Hash[a], a>>, <<Hash[o], o>>)
    BY <1>3, SampleIsLowest
  <2>3. \A b \in more \ t : Precedes(<<Hash[o], o>>, <<Hash[b], b>>)
    BY <1>1, <1>3, SampleIsLowest
  <2>4. \A a \in Objects : <<Hash[a], a>> \in [1..2 -> Int]
    BY ObjectFacts
  <2>5. s \subseteq t
    <3> SUFFICES ASSUME NEW a \in s, a \notin t PROVE FALSE
      OBVIOUS
    <3>1. a \in Objects /\ a \in more /\ o \in Objects
      BY <2>1
    <3> HIDE DEF s, t
    <3> QED
      BY <2>2, <2>3, <2>4, <3>1, PrecedesIsAsymmetric
  <2>6. s \cup {o} \in SUBSET t
    BY <2>5
  <2>7. IsFiniteSet(s) /\ IsFiniteSet(t)
    BY <1>1, <2>1, SubsetsAreFinite
  <2>8. Cardinality(s \cup {o}) = n + 1
    BY <2>1, <2>7, FS_AddElement
  <2>9. Cardinality(s \cup {o}) <= n
    <3> HIDE DEF s, t
    <3> QED
      BY <2>1, <2>6, <2>7, FS_Subset
  <2> QED
    BY <2>8, <2>9
<1> QED
  BY <1>1, <1>2, <1>3

-----------------------------------------------------------------------------
(* What a listing has found when it is at its end.                         *)

LEMMA AskFacts ==
  ASSUME TypeOK
  PROVE  /\ ask.op \in {"view", "group", "browse"}
         /\ ask.asked \in Seq(Id) /\ Len(ask.asked) \in Nat \ {0} /\ ask.asked[1] \in Id
         /\ ask.op # "view" => Len(ask.asked) = 1
  BY ListingsAssumption DEF TypeOK

LEMMA TypedIds ==
  ASSUME TypeOK
  PROVE  /\ Resolving => AskedId \in Id /\ Len(ids) + 1 \in 1..Len(ask.asked)
         /\ Planning => Len(plans) + 1 \in 1..Len(ask.asked)
         /\ Planning /\ (ask.op = "view" => Len(plans) < Len(ids)) => PlannedId \in Id
<1>1. ids \in Seq(Id) /\ Len(ids) \in Nat /\ Len(plans) \in Nat
  BY DEF TypeOK
<1>2. ask.asked \in Seq(Id) /\ Len(ask.asked) \in Nat \ {0} /\ ask.asked[1] \in Id
  BY AskFacts
<1>3. ASSUME Resolving PROVE AskedId \in Id /\ Len(ids) + 1 \in 1..Len(ask.asked)
  BY <1>1, <1>2, <1>3 DEF Resolving, AskedId
<1>4. ASSUME Planning PROVE Len(plans) + 1 \in 1..Len(ask.asked)
  BY <1>1, <1>2, <1>4 DEF Planning
<1>5. ASSUME Planning, ask.op = "view" => Len(plans) < Len(ids) PROVE PlannedId \in Id
  BY <1>1, <1>2, <1>5 DEF PlannedId
<1> QED
  BY <1>3, <1>4, <1>5

(* Which filter is listed.                                                 *)
LEMMA FilterCases ==
  /\ Resolving => Filter = LatestScope(AskedId)
  /\ Planning => Filter = PlannedId
  /\ Listing => Filter = ask.asked[1]
  /\ Browsing => Filter = ask.asked[1]
  /\ Loading => Filter = NextLoaded
  BY DEF Filter, Resolving, Planning, Listing, Browsing, Loading

LEMMA FilterKept ==
  ASSUME UNCHANGED <<ask, ids, plans, segs>>
  PROVE  /\ Filter' = Filter /\ PlannedId' = PlannedId
         /\ Planning' = Planning /\ Resolving' = Resolving
  BY DEF Filter, Resolving, Planning, Listing, Browsing, Loading, AskedId, PlannedId,
         NextLoaded

LEMMA CursorIsNat ==
  ASSUME TypeOK
  PROVE  cursor \in Nat
<1>1. got \in SUBSET Objects /\ cursor = Max(got \cup {0})
  BY DEF TypeOK
<1>2. got \cup {0} \subseteq Nat /\ IsFiniteSet(got \cup {0}) /\ got \cup {0} # {}
  BY <1>1, ObjectFacts, SubsetsAreFinite, FS_AddElement
<1> QED
  BY <1>1, <1>2, GreatestOfNaturals

(* Only stored objects of the filter are found, and every one that was     *)
(* stored at first or that the listing has yet to miss.                    *)
LEMMA ListingSeesAll ==
  ASSUME TypeOK, ListingKeepsUp, out = "open", AtEnd(Filter)
  PROVE  /\ Found(Filter) \subseteq stored
         /\ Filter[1] # Upload =>
              /\ \A o \in Found(Filter) : InBucket(o, Filter)
              /\ \A o \in since : InBucket(o, Filter) => o \in Found(Filter)
              /\ \A o \in stored : InBucket(o, Filter) /\ Seen(o) => o \in Found(Filter)
<1>1. got \subseteq stored /\ since \subseteq stored /\ stored \subseteq Objects /\ cursor \in Nat
  BY CursorIsNat DEF TypeOK
<1>2. CASE Filter[1] = Upload
  BY <1>2 DEF Found
<1>3. CASE Filter[1] # Upload
  <2>1. Found(Filter) = got /\ Unread(Filter) = {}
    BY <1>3 DEF Found, AtEnd
  <2>2. \A o \in stored : InBucket(o, Filter) => o <= cursor
    BY <1>1, <2>1, ObjectFacts DEF Unread
  <2>3. \A o \in stored : InBucket(o, Filter) /\ Seen(o) => o \in got
    BY <1>1, <2>2, ObjectFacts DEF Seen, InBucket
  <2> QED
    BY <1>1, <2>1, <2>2, <2>3 DEF ListingKeepsUp
<1> QED
  BY <1>2, <1>3

(* A listing of one build finds its objects.                               *)
LEMMA BuildIsFound ==
  ASSUME TypeOK, ListingKeepsUp, out = "open", AtEnd(Filter)
  PROVE  \A o \in stored : Path[o] = Filter /\ (o \in since \/ Seen(o)) => o \in Found(Filter)
<1> SUFFICES ASSUME NEW o \in stored, Path[o] = Filter, o \in since \/ Seen(o)
             PROVE  o \in Found(Filter)
  OBVIOUS
<1>1. o \in Objects
  BY DEF TypeOK
<1>2. CASE Filter[1] = Upload
  <2>1. InUploads(Path[o], Filter)
    BY <1>2 DEF InUploads
  <2> QED
    BY <1>2, <2>1 DEF Found
<1>3. CASE Filter[1] # Upload
  <2>1. InBucket(o, Filter)
    BY <1>3 DEF InBucket, InPrefix
  <2> QED
    BY <1>3, <2>1, ListingSeesAll
<1> QED
  BY <1>2, <1>3

(* A search for the latest build finds the profiles in its scope, and if   *)
(* it names a service no others.                                           *)
LEMMA ScopeIsFound ==
  ASSUME TypeOK, ListingKeepsUp, out = "open", AtEnd(Filter), Resolving
  PROVE  /\ InScope(since, Len(ids) + 1) \subseteq ProfilesOf(Found(Filter))
         /\ NamesService(Len(ids) + 1) =>
              ProfilesOf(Found(Filter)) \subseteq InScope(stored, Len(ids) + 1)
<1> DEFINE id == ask.asked[Len(ids) + 1]
           f == <<id[1], id[2], IF id[3] = Latest THEN Empty ELSE id[3], Empty>>
<1>1. Filter = f
  BY FilterCases DEF LatestScope, AskedId
<1>2. since \subseteq stored /\ stored \subseteq Objects /\ id \in Id
  BY TypedIds DEF TypeOK, AskedId
<1>3. id[1] \in Segment /\ id[2] \in Segment /\ id[3] \in Segment
  BY <1>2 DEF Id
<1>4. ASSUME NEW o \in InScope(since, Len(ids) + 1)
      PROVE  o \in ProfilesOf(Found(Filter))
  <2>1. /\ o \in since /\ o \in stored /\ Conforms[o]
        /\ Path[o][1] = id[1] /\ Path[o][2] = id[2] /\ id[3] \in {Empty, Latest, Path[o][3]}
    BY <1>2, <1>4 DEF InScope, ProfilesOf
  <2>2. CASE id[1] = Upload
    <3>1. InUploads(Path[o], f)
      BY <2>1, <2>2 DEF InUploads, Empty, Latest
    <3> QED
      BY <1>1, <2>1, <2>2, <3>1 DEF Found, ProfilesOf
  <2>3. CASE id[1] # Upload
    <3>1. InPrefix(Path[o], f)
      <4> SUFFICES ASSUME NEW i \in 1..4, \A j \in 1..i : f[j] # Empty
                   PROVE  Path[o][i] = f[i]
        BY DEF InPrefix
      <4>1. f[i] # Empty
        OBVIOUS
      <4> QED
        BY <2>1, <4>1
    <3>2. InBucket(o, Filter)
      BY <1>1, <2>1, <2>3, <3>1 DEF InBucket
    <3> QED
      BY <1>1, <2>1, <2>3, <3>2, ListingSeesAll DEF ProfilesOf
  <2> QED
    BY <2>2, <2>3
<1>5. ASSUME NamesService(Len(ids) + 1), NEW o \in ProfilesOf(Found(Filter))
      PROVE  o \in InScope(stored, Len(ids) + 1)
  <2>1. o \in Found(Filter) /\ Conforms[o] /\ o \in stored
    BY <1>5, ListingSeesAll DEF ProfilesOf
  <2>2. id[1] # Empty /\ id[2] # Empty
    BY <1>5 DEF NamesService
  <2>3. /\ Path[o][1] = id[1] /\ Path[o][2] = id[2]
        /\ id[3] \in {Empty, Latest} \/ id[3] = Path[o][3]
    <3>1. CASE id[1] = Upload
      <4>1. InUploads(Path[o], f)
        BY <1>1, <2>1, <3>1 DEF Found
      <4> QED
        BY <2>2, <3>1, <4>1 DEF InUploads, Empty, Latest
    <3>2. CASE id[1] # Upload
      <4>1. InPrefix(Path[o], f)
        BY <1>1, <2>1, <3>2, ListingSeesAll DEF InBucket
      <4>2. Path[o][1] = f[1] /\ Path[o][2] = f[2]
        BY <2>2, <4>1 DEF InPrefix
      <4>3. f[3] = Empty \/ Path[o][3] = f[3]
        BY <2>2, <4>1 DEF InPrefix
      <4> QED
        BY <4>2, <4>3
    <3> QED
      BY <3>1, <3>2
  <2> QED
    BY <2>1, <2>3 DEF InScope, ProfilesOf
<1> QED
  BY <1>4, <1>5

-----------------------------------------------------------------------------
(* Types.                                                                  *)

LEMMA PathType ==
  ASSUME NEW o \in Objects
  PROVE  Path[o] \in Id
  BY ObjectFacts DEF Id, Segment

LEMMA OpenSegmentType ==
  ASSUME NEW f
  PROVE  OpenSegment(f) \in 1..5 /\ (OpenSegment(f) = 4 => f[4] = Empty)
<1> DEFINE S == {i \in 1..4 : f[i] = Empty} \cup {5}
<1>1. S \subseteq Nat /\ S # {}
  OBVIOUS
<1>2. Min(S) \in S
  <2> HIDE DEF S
  <2> QED
    BY <1>1, LeastOfNaturals
<1>3. OpenSegment(f) = Min(S)
  BY DEF OpenSegment
<1> QED
  BY <1>2, <1>3

LEMMA NextName ==
  ASSUME TypeOK, ~AtEnd(Filter)
  PROVE  /\ Min(Unread(Filter)) \in Unread(Filter) /\ Filter[1] # Upload
         /\ \A o \in Unread(Filter) : Min(Unread(Filter)) <= o
<1>1. Unread(Filter) \subseteq Nat /\ Unread(Filter) # {} /\ Filter[1] # Upload
  BY ListingsAssumption DEF AtEnd, Unread, TypeOK
<1> HIDE DEF Unread
<1> QED
  BY <1>1, LeastOfNaturals

LEMMA FreshCursor == Max({} \cup {0}) = 0
<1>1. {} \cup {0} \subseteq Nat /\ {} \cup {0} # {} /\ IsFiniteSet({} \cup {0})
  BY FS_Singleton
<1> QED
  BY <1>1, GreatestOfNaturals

LEMMA FoundIsStored ==
  ASSUME TypeOK
  PROVE  Found(Filter) \subseteq stored
  BY DEF TypeOK, Found

(* The parts of the type invariant. *)
RequestTyped ==
  /\ since \subseteq stored /\ stored \subseteq Objects
  /\ ask \in Requests /\ out \in Outcomes
CursorTyped == got \subseteq stored /\ cursor = Max(got \cup {0})
IdsTyped == ids \in Seq(Id) /\ Len(ids) <= Len(ask.asked)
PlanRecord == [id : Id, among : SUBSET Objects, sample : SUBSET Objects]
PlansTyped ==
  /\ plans \in Seq(PlanRecord) /\ Len(plans) <= Len(ask.asked)
  /\ \A i \in DOMAIN plans : plans[i].sample \subseteq plans[i].among
LevelTyped == members \subseteq stored /\ IsFiniteSet(segs) /\ segs \subseteq Nat

LEMMA TypeParts ==
  TypeOK <=> RequestTyped /\ CursorTyped /\ IdsTyped /\ PlansTyped /\ LevelTyped
  BY DEF TypeOK, RequestTyped, CursorTyped, IdsTyped, PlansTyped, PlanRecord, LevelTyped

LEMMA RequestTypeStep ==
  ASSUME RequestTyped, [Next]_vars
  PROVE  RequestTyped'
<1>1. stored' \subseteq Objects /\ stored \subseteq stored' /\ since' = since /\ ask' = ask
  BY DEF RequestTyped, Next, vars, Store, ReadName, ListingFails, Resolve, Plan,
         ListMembers, Browse, LoadGroup
<1>2. out' \in Outcomes
  BY DEF RequestTyped, Next, vars, Store, ReadName, ListingFails, Resolve, Plan,
         ListMembers, Browse, LoadGroup, Outcomes
<1> QED
  BY <1>1, <1>2 DEF RequestTyped

LEMMA CursorTypeStep ==
  ASSUME TypeOK, [Next]_vars
  PROVE  CursorTyped'
<1>1. CASE NewListing /\ stored' = stored
  BY <1>1, FreshCursor DEF NewListing, CursorTyped
<1>2. ASSUME NEW o \in Objects, Store(o) PROVE CursorTyped'
  BY <1>2 DEF Store, CursorTyped, TypeOK
<1>3. CASE ReadName
  <2>1. ~AtEnd(Filter) /\ cursor' = Min(Unread(Filter)) /\ got' = got \cup {cursor'}
        /\ stored' = stored
    BY <1>3 DEF ReadName
  <2>2. cursor' \in stored /\ cursor' > cursor /\ cursor' \in Nat
    BY <2>1, NextName, ListingsAssumption DEF Unread, TypeOK
  <2>3. /\ got \cup {0} \subseteq Nat /\ IsFiniteSet(got \cup {0}) /\ got \cup {0} # {}
        /\ got' \cup {0} \subseteq Nat /\ IsFiniteSet(got' \cup {0}) /\ got' \cup {0} # {}
    <3>1. got \in SUBSET Objects /\ got' \in SUBSET Objects
      BY <2>1, <2>2 DEF TypeOK
    <3> QED
      BY <3>1, ObjectFacts, SubsetsAreFinite, FS_AddElement
  <2>4. cursor = Max(got \cup {0}) /\ \A x \in got \cup {0} : x <= cursor
    BY <2>3, GreatestOfNaturals DEF TypeOK
  <2>5. \A x \in got' \cup {0} : x <= cursor'
    <3> SUFFICES ASSUME NEW x \in got' \cup {0} PROVE x <= cursor'
      OBVIOUS
    <3>1. x \in Nat /\ cursor \in Nat
      BY <2>3, <2>4, GreatestOfNaturals
    <3>2. x = cursor' \/ x <= cursor
      BY <2>1, <2>4
    <3> QED
      BY <2>2, <3>1, <3>2
  <2>6. Max(got' \cup {0}) \in got' \cup {0} /\ \A x \in got' \cup {0} : x <= Max(got' \cup {0})
    BY <2>3, GreatestOfNaturals
  <2>7. cursor' \in got' /\ got' \subseteq stored'
    BY <2>1, <2>2 DEF TypeOK
  <2>8. cursor' = Max(got' \cup {0})
    <3> DEFINE m == Max(got' \cup {0})
    <3>1. m \in Nat /\ m <= cursor' /\ cursor' <= m
      BY <2>3, <2>5, <2>6, <2>7
    <3> QED
      BY <2>2, <3>1
  <2> QED
    BY <2>7, <2>8 DEF CursorTyped
<1>4. CASE UNCHANGED vars
  BY <1>4 DEF vars, CursorTyped, TypeOK
<1> QED
  BY <1>1, <1>2, <1>3, <1>4 DEF Next, ListingFails, Resolve, Plan, ListMembers, Browse, LoadGroup

LEMMA IdsTypeStep ==
  ASSUME TypeOK, [Next]_vars
  PROVE  IdsTyped'
<1>1. CASE Resolve
  <2>1. CASE UNCHANGED ids
    BY <1>1, <2>1 DEF Resolve, TypeOK, IdsTyped
  <2>2. ASSUME NEW id \in Id, ids' = Append(ids, id) PROVE IdsTyped'
    <3>1. Resolving /\ ask' = ask /\ ids \in Seq(Id)
      BY <1>1 DEF Resolve, TypeOK
    <3>2. Len(ids) < Len(ask.asked) /\ Len(ask.asked) \in Nat /\ Len(ids) \in Nat
      BY <3>1, AskFacts DEF Resolving
    <3> QED
      BY <2>2, <3>1, <3>2 DEF IdsTyped
  <2>3. CASE AskedId[4] # Latest
    BY <1>1, <2>2, <2>3, TypedIds DEF Resolve
  <2>4. CASE AskedId[4] = Latest /\ ids' # ids
    <3> DEFINE profiles == ProfilesOf(Found(Filter))
    <3>1. profiles # {} /\ ids' = Append(ids, PickNewest(profiles))
      BY <1>1, <2>4 DEF Resolve
    <3>2. profiles \in SUBSET Objects
      BY FoundIsStored DEF TypeOK, ProfilesOf
    <3>3. \E o \in profiles : Path[o] = PickNewest(profiles)
      <4> HIDE DEF profiles
      <4> QED
        BY <3>1, <3>2, NewestBuildIsPicked
    <3>4. PickNewest(profiles) \in Id
      BY <3>2, <3>3, PathType
    <3> QED
      BY <2>2, <3>1, <3>4
  <2> QED
    BY <2>1, <2>3, <2>4
<1>2. CASE UNCHANGED <<ids, ask>>
  BY <1>2 DEF IdsTyped, TypeOK
<1> QED
  BY <1>1, <1>2 DEF Next, vars, Store, ReadName, ListingFails, Plan, ListMembers, Browse, LoadGroup

(* What a plan is made of, and what it makes.                              *)
Group == MembersOf(Found(Filter), PlannedId)
Among == {o \in Group : InWindow(o, ask.from, ask.to)}
Planned == [id |-> PlannedId, among |-> Among, sample |-> Sample(Among, SampleSize)]

LEMMA PlanSteps ==
  ASSUME Plan
  PROVE  /\ out = "open" /\ Planning /\ AtEnd(Filter) /\ NewListing
         /\ UNCHANGED <<stored, ask, ids, members, segs, level, since>>
         /\ \/ /\ Among = {} /\ plans' = plans
               /\ out' = IF Group = {} THEN "no profiles" ELSE "not in window"
            \/ /\ Among # {} /\ plans' = Append(plans, Planned)
               /\ out' = IF ask.op = "view" /\ Len(plans') = Len(ask.asked)
                         THEN "answered" ELSE "open"
  BY DEF Plan, Group, Among, Planned

LEMMA PlannedType ==
  ASSUME TypeOK, Planning
  PROVE  /\ PlannedId \in Id /\ Planned \in PlanRecord
         /\ Among \in SUBSET Objects /\ Among \subseteq MembersOf(stored, PlannedId)
         /\ ask.op = "view" => PlannedId = ids[Len(plans) + 1] /\ Len(plans) + 1 \in 1..Len(ids)
         /\ ask.op # "view" => PlannedId = ask.asked[1]
<1>1. ask.op = "view" => Len(plans) < Len(ids) /\ Len(plans) + 1 \in 1..Len(ids)
  <2>1. /\ ids \in Seq(Id) /\ Len(ids) \in Nat
        /\ plans \in Seq(PlanRecord) /\ Len(plans) \in Nat
    BY DEF TypeOK, PlanRecord
  <2>2. Len(ask.asked) \in Nat
    BY AskFacts
  <2> QED
    BY <2>1, <2>2 DEF Planning, Resolving
<1>2. PlannedId \in Id
  BY <1>1, TypedIds
<1>3. Among \in SUBSET Objects /\ Among \subseteq MembersOf(stored, PlannedId)
  BY FoundIsStored DEF Among, Group, MembersOf, ProfilesOf, TypeOK
<1>4. Sample(Among, SampleSize) \in SUBSET Among
  BY <1>3, SampleFits, ListingsAssumption
<1>5. Planned \in PlanRecord
  BY <1>2, <1>3, <1>4 DEF Planned, PlanRecord
<1> QED
  BY <1>1, <1>2, <1>3, <1>5 DEF PlannedId

(* An element of a longer sequence is one of the shorter, or the last.     *)
LEMMA AppendCases ==
  ASSUME NEW T, NEW s \in Seq(T), NEW x \in T
  PROVE  /\ Append(s, x) \in Seq(T) /\ Len(Append(s, x)) = Len(s) + 1
         /\ DOMAIN Append(s, x) = DOMAIN s \cup {Len(s) + 1}
         /\ \A i \in DOMAIN s : i <= Len(s) /\ i \in Nat \ {0} /\ Append(s, x)[i] = s[i]
         /\ Append(s, x)[Len(s) + 1] = x
  OBVIOUS

LEMMA PlansTypeStep ==
  ASSUME TypeOK, [Next]_vars
  PROVE  PlansTyped'
<1>1. plans \in Seq(PlanRecord) /\ PlansTyped
  BY TypeParts DEF PlansTyped
<1>2. CASE Plan /\ plans' # plans
  <2>1. /\ Planning /\ plans' = Append(plans, Planned) /\ ask' = ask
    BY <1>2, PlanSteps
  <2>2. Planned \in PlanRecord /\ Planned.sample \subseteq Planned.among
    BY <2>1, PlannedType, SampleFits, ListingsAssumption DEF Planned
  <2>3. Len(plans') <= Len(ask'.asked)
    <3>1. Len(plans) < Len(ask.asked) /\ Len(plans) \in Nat /\ Len(ask.asked) \in Nat
      BY <1>1, <2>1, AskFacts DEF Planning
    <3> QED
      BY <1>1, <2>1, <2>2, <3>1, AppendCases
  <2>4. plans' \in Seq(PlanRecord)
    BY <1>1, <2>1, <2>2, AppendCases
  <2>5. \A i \in DOMAIN plans' : plans'[i].sample \subseteq plans'[i].among
    BY <1>1, <2>1, <2>2, AppendCases DEF PlansTyped
  <2> QED
    BY <2>3, <2>4, <2>5 DEF PlansTyped
<1>3. CASE UNCHANGED <<plans, ask>>
  BY <1>1, <1>3 DEF PlansTyped
<1> QED
  BY <1>2, <1>3 DEF Next, vars, Store, ReadName, ListingFails, Resolve, Plan, ListMembers, Browse,
                    LoadGroup

(* The build tags that objects have.                                       *)
LEMMA BuildTagsAreFinite ==
  ASSUME NEW os \in SUBSET Objects
  PROVE  IsFiniteSet({Path[o][4] : o \in os}) /\ {Path[o][4] : o \in os} \subseteq Nat
<1> DEFINE f == [o \in os |-> Path[o][4]]
<1>1. {Path[o][4] : o \in os} = {f[o] : o \in os}
  OBVIOUS
<1>2. IsFiniteSet({f[o] : o \in os})
  <2> HIDE DEF f
  <2> QED
    BY SubsetsAreFinite, FiniteImage
<1> QED
  BY <1>1, <1>2, ObjectFacts

LEMMA LevelTypeStep ==
  ASSUME TypeOK, [Next]_vars
  PROVE  LevelTyped'
<1>1. LevelTyped /\ Found(Filter) \in SUBSET Objects
  BY TypeParts, FoundIsStored DEF TypeOK
<1>2. CASE Browse
  <2>1. CASE segs' = segs
    BY <1>1, <1>2, <2>1 DEF Browse, LevelTyped
  <2>2. CASE segs' # segs
    <3>1. OpenSegment(Filter) = 4 /\ segs' = {Path[o][4] : o \in Found(Filter)}
      BY <1>2, <2>2, OpenSegmentType DEF Browse
    <3>2. UNCHANGED <<stored, members>>
      BY <1>2 DEF Browse
    <3>3. IsFiniteSet(segs') /\ segs' \subseteq Nat
      BY <1>1, <3>1, BuildTagsAreFinite
    <3> QED
      BY <1>1, <3>2, <3>3 DEF LevelTyped
  <2> QED
    BY <2>1, <2>2
<1>3. CASE LoadGroup
  <2>1. segs' = segs \ {Min(segs)} /\ UNCHANGED <<stored, members>>
    BY <1>3 DEF LoadGroup
  <2> QED
    BY <1>1, <2>1, FS_RemoveElement DEF LevelTyped
<1>4. CASE ListMembers
  BY <1>1, <1>4, FoundIsStored DEF ListMembers, LevelTyped, MembersOf, ProfilesOf
<1>5. ASSUME NEW o \in Objects, Store(o) PROVE LevelTyped'
  BY <1>1, <1>5 DEF Store, LevelTyped
<1>6. CASE UNCHANGED <<stored, members, segs>>
  BY <1>1, <1>6 DEF LevelTyped
<1> QED
  BY <1>2, <1>3, <1>4, <1>5, <1>6 DEF Next, vars, ReadName, ListingFails, Resolve, Plan

LEMMA TypeStep ==
  ASSUME TypeOK, [Next]_vars
  PROVE  TypeOK'
<1>1. RequestTyped' /\ CursorTyped' /\ IdsTyped' /\ PlansTyped' /\ LevelTyped'
  BY TypeParts, RequestTypeStep, CursorTypeStep, IdsTypeStep, PlansTypeStep, LevelTypeStep
<1> QED
  BY <1>1 DEF TypeOK, RequestTyped, CursorTyped, IdsTyped, PlansTyped, PlanRecord, LevelTyped

-----------------------------------------------------------------------------
(* What a request of one kind leaves alone.                                *)
LEMMA FitsStep ==
  ASSUME TypeOK, StateFits, [Next]_vars
  PROVE  StateFits'
<1>0. /\ ids \in Seq(Id) /\ Len(ids) \in Nat /\ Len(ids) <= Len(ask.asked)
      /\ plans \in Seq(PlanRecord) /\ Len(plans) \in Nat /\ Len(plans) <= Len(ask.asked)
      /\ Len(ask.asked) \in Nat \ {0} /\ (ask.op # "view" => Len(ask.asked) = 1)
      /\ ask.op \in {"view", "group", "browse"}
  BY AskFacts DEF TypeOK, PlanRecord
<1>1. ASSUME NEW o \in Objects, Store(o) PROVE StateFits'
  BY <1>1 DEF Store, StateFits
<1>2. CASE ReadName
  BY <1>2 DEF ReadName, StateFits
<1>3. CASE ListingFails
  BY <1>3 DEF ListingFails, StateFits
<1>4. CASE Resolve
  <2>1. /\ Len(ids) < Len(ask.asked) /\ ask.op = "view" /\ plans = <<>>
    <3>1. Resolving
      BY <1>4 DEF Resolve
    <3>2. Len(ids) < Len(ask.asked) /\ ask.op = "view"
      BY <3>1 DEF Resolving
    <3>3. ask.op = "view" /\ plans # <<>> => Len(ids) = Len(ask.asked)
      BY DEF StateFits
    <3> QED
      BY <1>0, <3>2, <3>3
  <2>2. /\ UNCHANGED <<ask, plans, segs, level>> /\ out' \in {"open", "no builds"} /\ out = "open"
        /\ out' = "no builds" => ids' = ids
    BY <1>4 DEF Resolve
  <2> QED
    BY <1>0, <2>1, <2>2 DEF StateFits
<1>5. CASE Plan
  <2>1. /\ Len(plans) < Len(ask.asked) /\ ask.op # "browse" /\ UNCHANGED <<ask, ids, segs, level>>
        /\ ask.op = "view" => Len(ids) = Len(ask.asked)
        /\ Planned \in PlanRecord
    <3>1. Planning /\ UNCHANGED <<ask, ids, segs, level>>
      BY <1>5, PlanSteps
    <3>2. Len(plans) < Len(ask.asked) /\ ask.op # "browse" /\ ~Resolving
      BY <3>1 DEF Planning
    <3>3. ask.op = "view" => Len(ids) = Len(ask.asked)
      BY <1>0, <3>2 DEF Resolving
    <3> QED
      BY <3>1, <3>2, <3>3, PlannedType
  <2>2. CASE plans' = plans /\ out' \in {"no profiles", "not in window"}
    BY <1>0, <1>5, <2>1, <2>2 DEF StateFits, Plan
  <2>3. CASE plans' = Append(plans, Planned)
             /\ out' = IF ask.op = "view" /\ Len(plans') = Len(ask.asked)
                       THEN "answered" ELSE "open"
    <3>1. Len(plans') = Len(plans) + 1 /\ plans' # <<>>
      BY <1>0, <2>1, <2>3, AppendCases
    <3>2. /\ out' \in {"open", "answered"} /\ (out' = "answered" => ask.op = "view")
          /\ ask.op = "view" /\ out' = "open" => Len(plans') < Len(ask.asked)
      BY <1>0, <2>1, <2>3, <3>1
    <3> QED
      BY <1>0, <2>1, <3>1, <3>2 DEF StateFits
  <2> QED
    BY <1>5, <2>2, <2>3, PlanSteps
<1>6. CASE ListMembers
  <2>1. /\ ask.op = "group" /\ Len(plans) = 1 /\ UNCHANGED <<ask, ids, plans, segs, level>>
        /\ out' = "answered"
    BY <1>0, <1>6 DEF ListMembers, Listing, Planning, Resolving
  <2> QED
    BY <2>1 DEF StateFits
<1>7. CASE Browse \/ LoadGroup
  <2>1. /\ ask.op = "browse" /\ UNCHANGED <<ask, ids, plans>> /\ out' \in {"open", "answered"}
        /\ out = "open"
    BY <1>7 DEF Browse, Browsing, LoadGroup, Loading
  <2>2. out' = "open" /\ segs' = {} => level' = {}
    BY <1>7 DEF Browse, LoadGroup, Browsing, StateFits
  <2> QED
    BY <2>1, <2>2 DEF StateFits
<1>8. CASE UNCHANGED vars
  BY <1>8 DEF vars, StateFits
<1> QED
  BY <1>1, <1>2, <1>3, <1>4, <1>5, <1>6, <1>7, <1>8 DEF Next

(* A listing keeps up with the names it passes.                            *)
LEMMA KeepsUpStep ==
  ASSUME TypeOK, ListingKeepsUp, [Next]_vars
  PROVE  ListingKeepsUp'
<1>1. CASE NewListing /\ since' = since
  <2>1. \A o \in since' : ~(o <= cursor')
    BY <1>1, ObjectFacts DEF NewListing, TypeOK
  <2> QED
    BY <1>1, <2>1 DEF NewListing, ListingKeepsUp
<1>2. CASE UNCHANGED <<ask, out, cursor, got, ids, plans, segs, since>>
  <2>1. Filter' = Filter
    BY <1>2, FilterKept
  <2> QED
    BY <1>2, <2>1 DEF ListingKeepsUp, InBucket
<1>3. CASE ReadName
  <2>1. /\ UNCHANGED <<ask, ids, plans, segs, since, out>> /\ out = "open"
        /\ cursor' = Min(Unread(Filter)) /\ got' = got \cup {cursor'}
    BY <1>3 DEF ReadName
  <2>2. Filter' = Filter
    BY <2>1, FilterKept
  <2>3. /\ cursor' \in Unread(Filter) /\ \A o \in Unread(Filter) : cursor' <= o
    BY <1>3, <2>1, NextName DEF ReadName
  <2>4. cursor' \in Nat /\ cursor' > cursor /\ InBucket(cursor', Filter) /\ cursor \in Nat
    BY <2>3, CursorIsNat, ListingsAssumption DEF Unread, TypeOK
  <2>5. \A o \in got' : InBucket(o, Filter) /\ o <= cursor'
    <3> SUFFICES ASSUME NEW o \in got' PROVE InBucket(o, Filter) /\ o <= cursor'
      OBVIOUS
    <3>1. CASE o = cursor'
      BY <2>4, <3>1
    <3>2. CASE o \in got
      <4>1. InBucket(o, Filter) /\ o <= cursor /\ o \in Nat
        BY <2>1, <3>2, ListingsAssumption DEF ListingKeepsUp, TypeOK
      <4> QED
        BY <2>4, <4>1
    <3> QED
      BY <2>1, <3>1, <3>2
  <2>6. \A o \in since : InBucket(o, Filter) /\ o <= cursor' => o \in got'
    <3> SUFFICES ASSUME NEW o \in since, InBucket(o, Filter), o <= cursor' PROVE o \in got'
      OBVIOUS
    <3>1. o \in stored /\ o \in Nat
      BY ListingsAssumption DEF TypeOK
    <3>2. CASE o <= cursor
      BY <2>1, <3>2 DEF ListingKeepsUp
    <3>3. CASE o > cursor
      <4>1. o \in Unread(Filter)
        BY <3>1, <3>3 DEF Unread
      <4>2. o = cursor'
        BY <2>3, <2>4, <3>1, <4>1
      <4> QED
        BY <2>1, <4>2
    <3> QED
      BY <2>4, <3>1, <3>2, <3>3
  <2> QED
    BY <2>1, <2>2, <2>5, <2>6 DEF ListingKeepsUp, InBucket
<1> QED
  BY <1>1, <1>2, <1>3 DEF Next, vars, Store, ListingFails, Resolve, Plan, ListMembers, Browse,
                          LoadGroup

(* An object that the listing under way will have read stays one.          *)
LEMMA SeenStays ==
  ASSUME TypeOK, NEW o \in stored, Seen(o), Path[o] = Filter, ReadName
  PROVE  Seen(o)'
<1>1. /\ cursor' = Min(Unread(Filter)) /\ got' = got \cup {cursor'} /\ Filter[1] # Upload
      /\ \A x \in Unread(Filter) : cursor' <= x /\ cursor' \in Unread(Filter)
  BY NextName DEF ReadName
<1>2. CASE o \in got
  BY <1>1, <1>2 DEF Seen
<1>3. CASE o > cursor
  <2>1. o \in Unread(Filter)
    BY <1>1, <1>3 DEF Unread, InBucket, InPrefix
  <2>2. cursor' <= o /\ cursor' \in Nat /\ o \in Nat
    BY <1>1, <2>1, ListingsAssumption DEF Unread, TypeOK
  <2> QED
    BY <1>1, <2>2 DEF Seen
<1> QED
  BY <1>1, <1>2, <1>3 DEF Seen

LEMMA SeenAtFirst ==
  ASSUME TypeOK, NEW o \in stored, NewListing
  PROVE  Seen(o)'
  BY ObjectFacts DEF Seen, NewListing, TypeOK

-----------------------------------------------------------------------------
(* The latest build.                                                       *)

(* Resolve adds the id asked for, or the newest build it finds.            *)
LEMMA ResolveSteps ==
  ASSUME TypeOK, Resolve
  PROVE  /\ out = "open" /\ Resolving /\ NewListing
         /\ UNCHANGED <<stored, ask, plans, members, segs, level, since>>
         /\ \/ AskedId[4] # Latest /\ ids' = Append(ids, AskedId) /\ out' = out
            \/ /\ AskedId[4] = Latest /\ AtEnd(Filter)
               /\ ProfilesOf(Found(Filter)) = {} /\ out' = "no builds" /\ ids' = ids
            \/ /\ AskedId[4] = Latest /\ AtEnd(Filter)
               /\ ProfilesOf(Found(Filter)) # {} /\ out' = out
               /\ ids' = Append(ids, PickNewest(ProfilesOf(Found(Filter))))
               /\ PickNewest(ProfilesOf(Found(Filter))) \in Id
<1>1. ProfilesOf(Found(Filter)) \in SUBSET Objects
  BY FoundIsStored DEF ProfilesOf, TypeOK
<1>2. ProfilesOf(Found(Filter)) # {} => PickNewest(ProfilesOf(Found(Filter))) \in Id
  BY <1>1, NewestBuildIsPicked, PathType
<1> QED
  BY <1>2 DEF Resolve

(* What stays of the ids when one is added: their number and members.      *)
LEMMA MembersGrow ==
  ASSUME TypeOK, [Next]_vars
  PROVE  /\ stored \subseteq stored' /\ stored' \subseteq Objects
         /\ since' = since /\ ask' = ask /\ stored \subseteq Objects /\ since \subseteq stored
         /\ \A id : MembersOf(stored, id) \subseteq MembersOf(stored', id)
<1>1. stored \subseteq stored' /\ stored' \subseteq Objects /\ since' = since /\ ask' = ask
  BY TypeStep DEF TypeOK, Next, vars, Store, ReadName, ListingFails, Resolve, Plan, ListMembers,
     Browse, LoadGroup
<1> QED
  BY <1>1 DEF MembersOf, ProfilesOf, TypeOK

(* The build that is picked has members among what was found.              *)
LEMMA LatestIsThereStep ==
  ASSUME TypeOK, StateFits, ListingKeepsUp, LatestIsThere, [Next]_vars
  PROVE  LatestIsThere'
<1>0. /\ ids \in Seq(Id) /\ Len(ids) \in Nat /\ DOMAIN ids = 1..Len(ids)
      /\ plans \in Seq(PlanRecord) /\ Len(plans) \in Nat /\ ask' = ask
  BY MembersGrow DEF TypeOK, PlanRecord
<1>1. CASE NewListing /\ UNCHANGED <<ids, plans, stored>>
  <2>1. \A o \in stored : Seen(o)'
    BY <1>1, SeenAtFirst
  <2> QED
    BY <1>0, <1>1, <2>1 DEF LatestIsThere, WantsLatest, MembersOf, ProfilesOf
<1>2. ASSUME NEW x \in Objects, Store(x) PROVE LatestIsThere'
  <2>1. UNCHANGED <<ids, plans, out, ask, cursor, got, segs>>
    BY <1>2 DEF Store
  <2>2. Planning' = Planning /\ \A o : Seen(o)' = Seen(o)
    BY <2>1, FilterKept DEF Seen
  <2> QED
    BY <2>1, <2>2, MembersGrow DEF LatestIsThere, WantsLatest
<1>3. CASE ReadName
  <2>1. UNCHANGED <<ids, plans, stored, ask, out, segs>>
    BY <1>3 DEF ReadName
  <2>2. Planning' = Planning
    BY <2>1, FilterKept
  <2> SUFFICES ASSUME NEW i \in DOMAIN ids, WantsLatest(i), i > Len(plans)
               PROVE  \E o \in MembersOf(stored, ids[i]) :
                        out = "open" /\ Planning /\ i = Len(plans) + 1 => Seen(o)'
    BY <1>0, <2>1, <2>2 DEF LatestIsThere, WantsLatest, MembersOf, ProfilesOf
  <2>3. PICK o \in MembersOf(stored, ids[i]) :
          out = "open" /\ Planning /\ i = Len(plans) + 1 => Seen(o)
    BY DEF LatestIsThere
  <2>4. ASSUME Planning, i = Len(plans) + 1, Seen(o) PROVE Seen(o)'
    <3>1. o \in stored /\ Path[o] = ids[i]
      BY <2>3 DEF MembersOf, ProfilesOf
    <3>2. Path[o] = Filter
      BY <2>4, <3>1, FilterCases DEF PlannedId, WantsLatest
    <3> QED
      BY <1>3, <2>4, <3>1, <3>2, SeenStays
  <2> QED
    BY <2>3, <2>4
<1>4. CASE Resolve
  <2>1. NewListing /\ UNCHANGED <<stored, plans>> /\ Resolving
    BY <1>4, ResolveSteps
  <2>2. \A o \in stored : Seen(o)'
    BY <2>1, SeenAtFirst
  <2>3. CASE ids' = ids
    BY <1>1, <2>1, <2>3
  <2>4. ASSUME NEW id \in Id, ids' = Append(ids, id),
               WantsLatest(Len(ids) + 1) => MembersOf(stored, id) # {}
        PROVE  LatestIsThere'
    <3> SUFFICES ASSUME NEW i \in DOMAIN ids', WantsLatest(i), i > Len(plans)
                 PROVE  \E o \in MembersOf(stored, ids'[i]) : Seen(o)'
      BY <1>0, <2>1 DEF LatestIsThere, WantsLatest, MembersOf, ProfilesOf
    <3>1. CASE i \in DOMAIN ids
      <4>1. ids'[i] = ids[i]
        BY <1>0, <2>4, <3>1, AppendCases
      <4>2. PICK o \in MembersOf(stored, ids[i]) : TRUE
        BY <3>1 DEF LatestIsThere
      <4> QED
        BY <2>2, <4>1, <4>2 DEF MembersOf, ProfilesOf
    <3>2. CASE i = Len(ids) + 1
      <4>1. ids'[i] = id
        BY <1>0, <2>4, <3>2, AppendCases
      <4>2. PICK o \in MembersOf(stored, id) : TRUE
        BY <2>4, <3>2
      <4> QED
        BY <2>2, <4>1, <4>2 DEF MembersOf, ProfilesOf
    <3> QED
      BY <1>0, <2>4, <3>1, <3>2, AppendCases
  <2>5. CASE AskedId[4] # Latest /\ ids' = Append(ids, AskedId)
    <3>1. AskedId \in Id /\ ~WantsLatest(Len(ids) + 1)
      BY <2>1, <2>5, TypedIds DEF WantsLatest, AskedId
    <3> QED
      BY <2>4, <2>5, <3>1
  <2>6. ASSUME NEW os, os = ProfilesOf(Found(Filter)), os # {},
               ids' = Append(ids, PickNewest(os)), PickNewest(os) \in Id
        PROVE  LatestIsThere'
    <3>1. os \in SUBSET Objects
      BY <2>6, FoundIsStored DEF ProfilesOf, TypeOK
    <3>2. PICK o \in os : Path[o] = PickNewest(os)
      BY <2>6, <3>1, NewestBuildIsPicked
    <3>3. o \in MembersOf(stored, PickNewest(os))
      BY <2>6, <3>2, FoundIsStored DEF MembersOf, ProfilesOf
    <3> QED
      BY <2>4, <2>6, <3>3
  <2> QED
    BY <1>4, <2>3, <2>5, <2>6, ResolveSteps
<1>5. CASE Plan
  <2>1. NewListing /\ UNCHANGED <<stored, ids>> /\ Planning
    BY <1>5, PlanSteps
  <2>2. \A o \in stored : Seen(o)'
    BY <2>1, SeenAtFirst
  <2>3. Len(plans') \in Nat /\ Len(plans') >= Len(plans)
    <3>1. Planned \in PlanRecord /\ (plans' = plans \/ plans' = Append(plans, Planned))
      BY <1>5, <2>1, PlanSteps, PlannedType
    <3> QED
      BY <1>0, <3>1, AppendCases
  <2> SUFFICES ASSUME NEW i \in DOMAIN ids, WantsLatest(i), i > Len(plans)
               PROVE  \E o \in MembersOf(stored, ids[i]) : Seen(o)'
    BY <1>0, <2>1, <2>3 DEF LatestIsThere, WantsLatest, MembersOf, ProfilesOf
  <2> QED
    BY <2>2 DEF LatestIsThere, MembersOf, ProfilesOf
<1>6. CASE UNCHANGED vars
  <2>1. UNCHANGED <<ids, plans, stored, out, ask, cursor, got, segs>>
    BY <1>6 DEF vars
  <2>2. Planning' = Planning /\ \A o : Seen(o)' = Seen(o)
    BY <2>1, FilterKept DEF Seen
  <2> QED
    BY <2>1, <2>2 DEF LatestIsThere, WantsLatest, MembersOf, ProfilesOf
<1> QED
  BY <1>1, <1>2, <1>3, <1>4, <1>5, <1>6 DEF Next, ListingFails, ListMembers, Browse, LoadGroup

(* One id answers for one asked id: nothing in its scope at first is newer *)
(* than it.                                                                *)
NotOlder(os, i, id) ==
  /\ MembersOf(os, id) # {} /\ MembersOf(os, id) \subseteq InScope(os, i)
  /\ \A o \in InScope(since, i) :
       ~Precedes(<<NewestTs(MembersOf(os, id)), id[3]>>, <<Ts[o], Path[o][3]>>)

LEMMA NotOlderMeans ==
  LatestIsNotOlder <=>
    \A i \in DOMAIN ids : WantsLatest(i) /\ NamesService(i) => NotOlder(stored, i, ids[i])
  BY DEF LatestIsNotOlder, NotOlder

(* Pairs that do not precede, in numbers.                                  *)
LEMMA PairOrder ==
  ASSUME NEW a \in Int, NEW b \in Int, NEW c \in Int, NEW d \in Int
  PROVE  Precedes(<<a, b>>, <<c, d>>) <=> a < c \/ (a = c /\ b < d)
<1> DEFINE p == <<a, b>>
           q == <<c, d>>
<1>1. DOMAIN p = {1, 2} /\ 1..(1 - 1) = {} /\ 1..(2 - 1) = {1}
  OBVIOUS
<1>2. Precedes(p, q) <=> \E i \in {1, 2} : p[i] < q[i] /\ \A j \in 1..(i - 1) : p[j] = q[j]
  <2> HIDE DEF q
  <2> QED
    BY <1>1 DEF Precedes
<1> QED
  BY <1>1, <1>2

(* What holds of the id chosen goes on to hold when more is stored.        *)
LEMMA NotOlderStays ==
  ASSUME NEW os \in SUBSET Objects, NEW more \in SUBSET Objects, os \subseteq more,
         since \subseteq Objects, NEW i, NEW id, NotOlder(os, i, id)
  PROVE  NotOlder(more, i, id)
<1>1. MembersOf(os, id) \in SUBSET Objects /\ MembersOf(more, id) \in SUBSET Objects
      /\ MembersOf(os, id) \subseteq MembersOf(more, id)
  BY DEF MembersOf, ProfilesOf
<1>2. PICK m \in MembersOf(os, id) : TRUE
  BY DEF NotOlder
<1>3. m \in InScope(os, i) /\ Path[m] = id /\ m \in Objects
  BY <1>1, <1>2 DEF NotOlder, MembersOf
<1>4. MembersOf(more, id) \subseteq InScope(more, i)
  BY <1>3 DEF InScope, MembersOf
<1>5. NewestTs(MembersOf(os, id)) <= NewestTs(MembersOf(more, id))
  BY <1>1, NewestGrows
<1>6. /\ NewestTs(MembersOf(os, id)) \in Nat /\ NewestTs(MembersOf(more, id)) \in Nat
      /\ id[3] \in Nat
  <2>1. id[3] \in Nat
    BY <1>3, ObjectFacts
  <2> QED
    BY <1>1, <2>1, NewestIsGreatest
<1>7. ASSUME NEW o \in InScope(since, i)
      PROVE  ~Precedes(<<NewestTs(MembersOf(more, id)), id[3]>>, <<Ts[o], Path[o][3]>>)
  <2>1. Ts[o] \in Nat /\ Path[o][3] \in Nat
    <3>1. o \in Objects
      BY <1>7 DEF InScope, ProfilesOf
    <3> QED
      BY <3>1, ObjectFacts
  <2>2. ~Precedes(<<NewestTs(MembersOf(os, id)), id[3]>>, <<Ts[o], Path[o][3]>>)
    BY <1>7 DEF NotOlder
  <2>3. ~(NewestTs(MembersOf(os, id)) < Ts[o]
          \/ (NewestTs(MembersOf(os, id)) = Ts[o] /\ id[3] < Path[o][3]))
    BY <1>6, <2>1, <2>2, PairOrder
  <2>4. ~(NewestTs(MembersOf(more, id)) < Ts[o]
          \/ (NewestTs(MembersOf(more, id)) = Ts[o] /\ id[3] < Path[o][3]))
    BY <1>5, <1>6, <2>1, <2>3
  <2> QED
    BY <1>6, <2>1, <2>4, PairOrder
<1> QED
  BY <1>1, <1>2, <1>4, <1>7 DEF NotOlder

(* The newest build of what was found is not older than what was there.    *)
LEMMA PickIsNotOlder ==
  ASSUME TypeOK, ListingKeepsUp, out = "open", AtEnd(Filter), Resolving,
         ProfilesOf(Found(Filter)) # {}, NamesService(Len(ids) + 1)
  PROVE  NotOlder(stored, Len(ids) + 1, PickNewest(ProfilesOf(Found(Filter))))
<1> DEFINE i == Len(ids) + 1
           os == ProfilesOf(Found(Filter))
           id == PickNewest(os)
<1>1. /\ os \in SUBSET Objects /\ os \subseteq stored /\ stored \in SUBSET Objects
      /\ since \subseteq Objects /\ os # {}
  BY FoundIsStored DEF ProfilesOf, TypeOK
<1>2. InScope(since, i) \subseteq os /\ os \subseteq InScope(stored, i)
  BY ScopeIsFound
<1>3. (\E o \in os : Path[o] = id) /\ \A o \in os : AsNew(os, id, o)
  <2> HIDE DEF os
  <2> QED
    BY <1>1, NewestBuildIsPicked
<1>4. \A o \in os : Conforms[o]
  BY DEF ProfilesOf
<1> HIDE DEF os, id
<1>5. MembersOf(os, id) # {} /\ MembersOf(os, id) \subseteq InScope(os, i)
  <2>1. PICK m \in os : Path[m] = id
    BY <1>3
  <2>2. m \in MembersOf(os, id)
    BY <1>4, <2>1 DEF MembersOf, ProfilesOf
  <2>3. \A o \in os : o \in InScope(os, i)
    BY <1>2, <1>4 DEF InScope, ProfilesOf
  <2> QED
    BY <2>2, <2>3 DEF MembersOf, ProfilesOf
<1>6. ASSUME NEW o \in InScope(since, i)
      PROVE  ~Precedes(<<NewestTs(MembersOf(os, id)), id[3]>>, <<Ts[o], Path[o][3]>>)
  <2>1. o \in os /\ o \in Objects /\ o \in MembersOf(os, Path[o])
    BY <1>1, <1>2, <1>4, <1>6 DEF MembersOf, ProfilesOf
  <2>2. /\ MembersOf(os, id) \in SUBSET Objects /\ MembersOf(os, Path[o]) \in SUBSET Objects
    BY <1>1 DEF MembersOf, ProfilesOf
  <2>3. /\ NewestTs(MembersOf(os, id)) \in Nat /\ NewestTs(MembersOf(os, Path[o])) \in Nat
        /\ Ts[o] <= NewestTs(MembersOf(os, Path[o]))
    BY <2>1, <2>2, NewestIsGreatest
  <2>4. Ts[o] \in Nat /\ Path[o][3] \in Nat
    BY <2>1, ObjectFacts
  <2>5. id[3] \in Nat
    BY <1>1, <1>3, ObjectFacts
  <2>6. AsNew(os, id, o)
    BY <1>3, <2>1
  <2>7. ~(NewestTs(MembersOf(os, id)) < Ts[o]
          \/ (NewestTs(MembersOf(os, id)) = Ts[o] /\ id[3] < Path[o][3]))
    BY <2>3, <2>4, <2>5, <2>6 DEF AsNew
  <2> QED
    BY <2>3, <2>4, <2>5, <2>7, PairOrder
<1>7. NotOlder(os, i, id)
  BY <1>5, <1>6 DEF NotOlder
<1> QED
  BY <1>1, <1>7, NotOlderStays DEF os, id

LEMMA NotOlderStep ==
  ASSUME TypeOK, ListingKeepsUp, LatestIsNotOlder, [Next]_vars
  PROVE  LatestIsNotOlder'
<1>0. /\ ids \in Seq(Id) /\ Len(ids) \in Nat /\ DOMAIN ids = 1..Len(ids)
      /\ since' = since /\ ask' = ask
      /\ stored \in SUBSET Objects /\ stored' \in SUBSET Objects
      /\ stored \subseteq stored' /\ since \subseteq Objects
  BY MembersGrow DEF TypeOK
<1>1. ASSUME NEW i, WantsLatest(i), NamesService(i), NotOlder(stored, i, ids[i])
      PROVE  NotOlder(stored, i, ids[i])' \/ ids'[i] # ids[i]
  <2>1. NotOlder(stored', i, ids[i])
    BY <1>0, <1>1, NotOlderStays
  <2> QED
    BY <1>0, <2>1 DEF NotOlder, InScope
<1>2. CASE ids' = ids
  <2> SUFFICES ASSUME NEW i \in DOMAIN ids, WantsLatest(i), NamesService(i)
               PROVE  NotOlder(stored, i, ids[i])'
    BY <1>0, <1>2, NotOlderMeans DEF LatestIsNotOlder, NotOlder, WantsLatest, NamesService, InScope
  <2> QED
    BY <1>1, <1>2, NotOlderMeans
<1>3. ASSUME Resolve, NEW id \in Id, ids' = Append(ids, id),
             WantsLatest(Len(ids) + 1) /\ NamesService(Len(ids) + 1) =>
               NotOlder(stored, Len(ids) + 1, id)
      PROVE  LatestIsNotOlder'
  <2>0. stored' = stored
    BY <1>3 DEF Resolve
  <2> SUFFICES ASSUME NEW i \in DOMAIN ids', WantsLatest(i), NamesService(i)
               PROVE  NotOlder(stored, i, ids'[i])
    BY <1>0, <2>0 DEF LatestIsNotOlder, NotOlder, WantsLatest, NamesService, InScope
  <2>1. CASE i \in DOMAIN ids
    <3>1. ids'[i] = ids[i]
      BY <1>0, <1>3, <2>1, AppendCases
    <3> QED
      BY <2>1, <3>1, NotOlderMeans
  <2>2. CASE i = Len(ids) + 1
    <3>1. ids'[i] = id
      BY <1>0, <1>3, <2>2, AppendCases
    <3> QED
      BY <1>3, <2>2, <3>1
  <2> QED
    BY <1>0, <1>3, <2>1, <2>2, AppendCases
<1>4. CASE Resolve /\ ids' # ids
  <2>1. CASE AskedId[4] # Latest /\ ids' = Append(ids, AskedId)
    <3>1. AskedId \in Id /\ ~WantsLatest(Len(ids) + 1)
      BY <1>4, <2>1, ResolveSteps, TypedIds DEF WantsLatest, AskedId
    <3> QED
      BY <1>3, <1>4, <2>1, <3>1
  <2>2. ASSUME NEW id \in Id, id = PickNewest(ProfilesOf(Found(Filter))),
               ProfilesOf(Found(Filter)) # {}, AtEnd(Filter), ids' = Append(ids, id)
        PROVE  LatestIsNotOlder'
    <3>1. NamesService(Len(ids) + 1) => NotOlder(stored, Len(ids) + 1, id)
      BY <1>4, <2>2, ResolveSteps, PickIsNotOlder
    <3> QED
      BY <1>3, <1>4, <2>2, <3>1
  <2> QED
    BY <1>4, <2>1, <2>2, ResolveSteps
<1> QED
  BY <1>2, <1>4 DEF Next, vars, Store, ReadName, ListingFails, Plan, ListMembers, Browse, LoadGroup

-----------------------------------------------------------------------------
(* Plans and samples.                                                      *)
LEMMA PlansSoundStep ==
  ASSUME TypeOK, PlansSound, [Next]_vars
  PROVE  PlansSound'
<1>0. plans \in Seq(PlanRecord) /\ \A id : MembersOf(stored, id) \subseteq MembersOf(stored', id)
  BY MembersGrow DEF TypeOK, PlanRecord
<1>1. CASE plans' = plans
  BY <1>0, <1>1 DEF PlansSound, MembersOf, ProfilesOf
<1>2. CASE Plan /\ plans' # plans
  <2>1. Planned \in PlanRecord /\ plans' = Append(plans, Planned) /\ stored' = stored
        /\ Among \subseteq MembersOf(stored, PlannedId)
    BY <1>2, PlanSteps, PlannedType
  <2>2. /\ Planned.among \subseteq MembersOf(stored, Planned.id)
        /\ Planned.sample = Sample(Planned.among, SampleSize)
    BY <2>1 DEF Planned
  <2> SUFFICES ASSUME NEW i \in DOMAIN plans'
               PROVE  /\ plans'[i].among \subseteq MembersOf(stored, plans'[i].id)
                      /\ plans'[i].sample = Sample(plans'[i].among, SampleSize)
    BY <2>1 DEF PlansSound, MembersOf, ProfilesOf, Sample
  <2>3. CASE i \in DOMAIN plans
    BY <1>0, <2>1, <2>3, AppendCases DEF PlansSound
  <2>4. CASE i = Len(plans) + 1
    BY <1>0, <2>1, <2>2, <2>4, AppendCases
  <2> QED
    BY <1>0, <2>1, <2>3, <2>4, AppendCases
<1> QED
  BY <1>1, <1>2 DEF Next, vars, Store, ReadName, ListingFails, Resolve, ListMembers, Browse, LoadGroup

(* The profiles of the window that were stored at first.                   *)
Wanted(id) == {o \in MembersOf(since, id) : InWindow(o, ask.from, ask.to)}

LEMMA SeesMeans ==
  SeesWhatWasStored <=>
     /\ \A i \in DOMAIN plans : Wanted(plans[i].id) \subseteq plans[i].among
     /\ out = "no builds" => InScope(since, Len(ids) + 1) = {}
     /\ out = "no profiles" => /\ MembersOf(since, PlannedId) = {}
                               /\ ~WantsLatest(Len(plans) + 1)
     /\ out = "not in window" => Wanted(PlannedId) = {}
  BY DEF SeesWhatWasStored, Wanted

(* A plan finds what was stored at first, and a build that "latest" was    *)
(* resolved to.                                                            *)
LEMMA PlanFindsAll ==
  ASSUME TypeOK, StateFits, ListingKeepsUp, LatestIsThere, Plan
  PROVE  /\ MembersOf(since, PlannedId) \subseteq Group
         /\ Wanted(PlannedId) \subseteq Among
         /\ WantsLatest(Len(plans) + 1) => Group # {}
<1>1. out = "open" /\ Planning /\ AtEnd(Filter) /\ Filter = PlannedId
  BY PlanSteps, FilterCases
<1>2. \A o \in stored : Path[o] = PlannedId /\ (o \in since \/ Seen(o)) => o \in Found(Filter)
  BY <1>1, BuildIsFound
<1>3. MembersOf(since, PlannedId) \subseteq Group
  BY <1>2 DEF Group, MembersOf, ProfilesOf, TypeOK
<1>4. Wanted(PlannedId) \subseteq Among
  BY <1>3 DEF Wanted, Among
<1>5. ASSUME WantsLatest(Len(plans) + 1) PROVE Group # {}
  <2>1. PlannedId = ids[Len(plans) + 1] /\ Len(plans) + 1 \in 1..Len(ids)
    BY <1>1, <1>5, PlannedType DEF WantsLatest
  <2>2. Len(plans) + 1 > Len(plans) /\ Len(plans) + 1 \in DOMAIN ids
    BY <2>1 DEF TypeOK
  <2>3. PICK o \in MembersOf(stored, PlannedId) : Seen(o)
    BY <1>1, <1>5, <2>1, <2>2 DEF LatestIsThere
  <2>4. o \in Group
    BY <1>2, <2>3 DEF Group, MembersOf, ProfilesOf
  <2> QED
    BY <2>4
<1> QED
  BY <1>3, <1>4, <1>5

LEMMA SeesStep ==
  ASSUME TypeOK, StateFits, ListingKeepsUp, LatestIsThere, SeesWhatWasStored, [Next]_vars
  PROVE  SeesWhatWasStored'
<1>0. /\ plans \in Seq(PlanRecord) /\ since' = since /\ ask' = ask
      /\ \A id : Wanted(id)' = Wanted(id)
  BY MembersGrow DEF TypeOK, PlanRecord, Wanted, MembersOf, ProfilesOf, InWindow
<1>1. \A i \in DOMAIN plans : Wanted(plans[i].id) \subseteq plans[i].among
  BY SeesMeans
<1>2. CASE UNCHANGED <<ids, plans>> /\ out' \in {out, "answered", "answered without members", "failed"}
  <2>1. PlannedId' = PlannedId
    BY <1>0, <1>2 DEF PlannedId
  <2> QED
    BY <1>0, <1>2, <2>1 DEF SeesWhatWasStored, InScope, WantsLatest, MembersOf, ProfilesOf, InWindow
<1>3. CASE Resolve
  <2>1. /\ plans' = plans /\ out' \in {"open", "no builds"}
        /\ out' = "no builds" => InScope(since, Len(ids) + 1) = {} /\ ids' = ids
    <3>1. CASE out' = "no builds"
      <4>1. /\ out = "open" /\ Resolving /\ AtEnd(Filter) /\ ProfilesOf(Found(Filter)) = {}
            /\ ids' = ids /\ plans' = plans
        BY <1>3, <3>1, ResolveSteps
      <4> QED
        BY <3>1, <4>1, ScopeIsFound
    <3>2. CASE out' # "no builds"
      BY <1>3, <3>2 DEF Resolve
    <3> QED
      BY <3>1, <3>2
  <2> QED
    <3>1. InScope(since, Len(ids) + 1)' = InScope(since', Len(ids') + 1)
      BY <1>0 DEF InScope, ProfilesOf
    <3> QED
      BY <1>0, <1>1, <2>1, <3>1 DEF SeesWhatWasStored, Wanted
<1>4. CASE Plan
  <2>1. /\ MembersOf(since, PlannedId) \subseteq Group /\ Wanted(PlannedId) \subseteq Among
        /\ WantsLatest(Len(plans) + 1) => Group # {}
    BY <1>4, PlanFindsAll
  <2>2. CASE Among = {} /\ plans' = plans
             /\ out' = IF Group = {} THEN "no profiles" ELSE "not in window"
    <3>1. PlannedId' = PlannedId /\ ids' = ids
      BY <1>0, <1>4, <2>2, PlanSteps DEF PlannedId
    <3>2. /\ out' = "no profiles" => MembersOf(since, PlannedId) = {} /\ ~WantsLatest(Len(plans) + 1)
          /\ out' = "not in window" => Wanted(PlannedId) = {}
          /\ out' \in {"no profiles", "not in window"}
      BY <2>1, <2>2
    <3> QED
      BY <1>0, <1>1, <2>2, <3>1, <3>2
      DEF SeesWhatWasStored, Wanted, InScope, MembersOf, ProfilesOf, InWindow, WantsLatest
  <2>3. CASE plans' = Append(plans, Planned) /\ out' \in {"answered", "open"}
    <3>1. Planned \in PlanRecord
      BY <1>4, PlanSteps, PlannedType
    <3>2. Wanted(Planned.id) \subseteq Planned.among
      BY <2>1 DEF Planned
    <3>3. ASSUME NEW i \in DOMAIN plans'
          PROVE  Wanted(plans'[i].id) \subseteq plans'[i].among
      <4>1. CASE i \in DOMAIN plans
        BY <1>0, <1>1, <2>3, <3>1, <4>1, AppendCases
      <4>2. CASE i = Len(plans) + 1
        BY <1>0, <2>3, <3>1, <3>2, <4>2, AppendCases
      <4> QED
        BY <1>0, <2>3, <3>1, <3>3, <4>1, <4>2, AppendCases
    <3> QED
      BY <1>0, <2>3, <3>3 DEF SeesWhatWasStored, Wanted, MembersOf, ProfilesOf, InWindow
  <2> QED
    BY <1>4, <2>2, <2>3, PlanSteps
<1> QED
  BY <1>2, <1>3, <1>4
  DEF Next, vars, Store, ReadName, ListingFails, ListMembers, Browse, LoadGroup

-----------------------------------------------------------------------------
(* A group and its members.                                                *)
LEMMA NotEmpty ==
  ASSUME NEW T, NEW s \in Seq(T)
  PROVE  /\ Len(s) \in Nat /\ DOMAIN s = 1..Len(s)
         /\ s # <<>> <=> Len(s) >= 1
  OBVIOUS

LEMMA SampleOfGroup ==
  ASSUME TypeOK, PlansSound, MergedIsThere, ask.op = "group", plans # <<>>
  PROVE  /\ Len(plans) = 1 /\ plans[1].id = ask.asked[1]
         /\ plans[1].sample \subseteq MembersOf(stored, ask.asked[1])
<1>1. /\ plans \in Seq(PlanRecord) /\ Len(plans) <= 1
      /\ \A i \in DOMAIN plans : plans[i].sample \subseteq plans[i].among
  BY AskFacts DEF TypeOK, PlanRecord
<1>2. Len(plans) = 1 /\ 1 \in DOMAIN plans
  <2>1. Len(plans) \in Nat /\ DOMAIN plans = 1..Len(plans) /\ Len(plans) >= 1
    BY <1>1, NotEmpty
  <2> QED
    BY <1>1, <2>1
<1> QED
  BY <1>1, <1>2 DEF MergedIsThere, PlansSound

LEMMA MergedStep ==
  ASSUME TypeOK, PlansSound, MergedIsThere, [Next]_vars
  PROVE  MergedIsThere'
<1>0. plans \in Seq(PlanRecord) /\ ask' = ask /\ (ask.op = "group" => Len(ask.asked) = 1)
  BY MembersGrow, AskFacts DEF TypeOK, PlanRecord
<1>1. CASE NewListing /\ UNCHANGED <<plans, stored>>
  <2>1. \A o \in stored : Seen(o)'
    BY <1>1, SeenAtFirst
  <2> QED
    BY <1>0, <1>1, <2>1, SampleOfGroup DEF MergedIsThere, MembersOf, ProfilesOf
<1>2. CASE UNCHANGED <<plans, out, cursor, got>>
  <2>1. \A o : Seen(o)' = Seen(o)
    BY <1>2 DEF Seen
  <2> QED
    BY <1>0, <1>2, <2>1 DEF MergedIsThere
<1>3. CASE ReadName
  <2>1. UNCHANGED <<plans, out>>
    BY <1>3 DEF ReadName
  <2> SUFFICES ASSUME ask.op = "group", plans # <<>>, out = "open", NEW o \in plans[1].sample
               PROVE  Seen(o)'
    BY <1>0, <2>1 DEF MergedIsThere
  <2>2. Len(plans) = 1 /\ o \in MembersOf(stored, ask.asked[1]) /\ Seen(o)
    BY SampleOfGroup DEF MergedIsThere
  <2>3. Listing
    <3>1. Len(ask.asked) = 1
      BY <1>0
    <3> QED
      BY <2>2, <3>1 DEF Listing, Planning
  <2>4. o \in stored /\ Path[o] = Filter
    BY <2>2, <2>3, FilterCases DEF MembersOf, ProfilesOf
  <2> QED
    BY <1>3, <2>2, <2>4, SeenStays
<1>4. CASE Plan /\ plans' # plans
  <2>1. /\ Planning /\ NewListing /\ stored' = stored
        /\ Planned \in PlanRecord /\ plans' = Append(plans, Planned)
    BY <1>4, PlanSteps, PlannedType
  <2> SUFFICES ASSUME ask.op = "group"
               PROVE  plans'[1].id = ask.asked[1] /\ \A o \in plans'[1].sample : Seen(o)'
    BY <1>0 DEF MergedIsThere
  <2>2. Len(plans) = 0
    <3>1. Len(plans) < Len(ask.asked) /\ Len(ask.asked) = 1 /\ Len(plans) \in Nat
      BY <1>0, <2>1, NotEmpty DEF Planning
    <3> QED
      BY <3>1
  <2>3. plans'[1] = Planned
    BY <1>0, <2>1, <2>2, AppendCases
  <2>4. Planned.id = ask.asked[1] /\ Planned.sample \subseteq stored
    <3>1. Planned.id = PlannedId /\ Planned.sample = Sample(Among, SampleSize)
      BY DEF Planned
    <3>2. Sample(Among, SampleSize) \subseteq Among
      BY <2>1, PlannedType, SampleFits, ListingsAssumption
    <3> QED
      BY <2>1, <3>1, <3>2, PlannedType DEF MembersOf, ProfilesOf
  <2> QED
    BY <2>1, <2>3, <2>4, SeenAtFirst
<1> QED
  BY <1>1, <1>2, <1>3, <1>4
  DEF Next, vars, Store, ListingFails, Resolve, Plan, ListMembers, Browse, LoadGroup

LEMMA ListsStep ==
  ASSUME TypeOK, StateFits, ListingKeepsUp, PlansSound, MergedIsThere,
         ResponseListsWhatItMerged, [Next]_vars
  PROVE  ResponseListsWhatItMerged'
<1>0. ask' = ask
  BY MembersGrow
<1>1. CASE ListMembers
  <2>1. /\ out = "open" /\ Listing /\ AtEnd(Filter) /\ plans' = plans
        /\ members' = MembersOf(Found(Filter), ask.asked[1])
    BY <1>1 DEF ListMembers
  <2>2. Filter = ask.asked[1] /\ ask.op = "group" /\ plans # <<>>
    <3>1. Filter = ask.asked[1] /\ ask.op = "group" /\ ~Planning
      BY <2>1, FilterCases DEF Listing
    <3>2. plans \in Seq(PlanRecord) /\ Len(ask.asked) = 1
      BY <3>1, AskFacts DEF TypeOK, PlanRecord
    <3> QED
      BY <3>1, <3>2 DEF Planning, Resolving
  <2>3. \A o \in plans[1].sample : o \in MembersOf(stored, ask.asked[1]) /\ Seen(o)
    BY <2>1, <2>2, SampleOfGroup DEF MergedIsThere
  <2>4. \A o \in plans[1].sample : o \in members'
    BY <2>1, <2>2, <2>3, BuildIsFound DEF MembersOf, ProfilesOf
  <2> QED
    BY <2>1, <2>4 DEF ResponseListsWhatItMerged
<1>2. CASE ask.op = "group" /\ out' = "answered" => out = "answered" /\ UNCHANGED <<plans, members>>
  BY <1>0, <1>2 DEF ResponseListsWhatItMerged
<1>3. CASE Plan
  <2>1. ask.op = "group" => out' # "answered"
    BY <1>3, PlanSteps
  <2> QED
    BY <1>0, <2>1 DEF ResponseListsWhatItMerged
<1> QED
  BY <1>1, <1>2, <1>3
  DEF Next, vars, Store, ReadName, ListingFails, Resolve, Browse, LoadGroup, Browsing, Loading,
      Resolving

-----------------------------------------------------------------------------
(* A level of builds.                                                      *)
Build(f, s) == [f EXCEPT ![4] = s]

LEMMA DayPrefix ==
  ASSUME NEW f \in Id, OpenSegment(f) = 4, NEW o \in Objects
  PROVE  /\ f[1] # Empty /\ f[2] # Empty /\ f[3] # Empty /\ f[4] = Empty
         /\ InPrefix(Path[o], f) <=> Path[o] = Build(f, Path[o][4])
<1> DEFINE S == {i \in 1..4 : f[i] = Empty} \cup {5}
<1>1. S \subseteq Nat /\ S # {} /\ Min(S) = 4
  BY DEF OpenSegment
<1>2. 4 \in S /\ \A i \in S : 4 <= i
  <2> HIDE DEF S
  <2> QED
    BY <1>1, LeastOfNaturals
<1>3. f[1] # Empty /\ f[2] # Empty /\ f[3] # Empty /\ f[4] = Empty
  <2>1. 1 \notin S /\ 2 \notin S /\ 3 \notin S
    BY <1>2
  <2> QED
    BY <1>2, <2>1
<1>4. Path[o] \in Nat \X Nat \X Nat \X Nat
  BY ObjectFacts
<1>5. Build(f, Path[o][4]) = <<f[1], f[2], f[3], Path[o][4]>>
  BY DEF Build, Id
<1>6. Path[o] = <<Path[o][1], Path[o][2], Path[o][3], Path[o][4]>>
  BY <1>4
<1>7. Path[o] = Build(f, Path[o][4]) <=>
        Path[o][1] = f[1] /\ Path[o][2] = f[2] /\ Path[o][3] = f[3]
  BY <1>5, <1>6
<1>8. InPrefix(Path[o], f) <=>
        Path[o][1] = f[1] /\ Path[o][2] = f[2] /\ Path[o][3] = f[3]
  <2>1. /\ \A j \in 1..1 : f[j] # Empty
        /\ \A j \in 1..2 : f[j] # Empty
        /\ \A j \in 1..3 : f[j] # Empty
        /\ ~ \A j \in 1..4 : f[j] # Empty
    <3>1. 1..1 = {1} /\ 1..2 = {1, 2} /\ 1..3 = {1, 2, 3} /\ 4 \in 1..4
      OBVIOUS
    <3> QED
      BY <1>3, <3>1
  <2>2. 1..4 = {1, 2, 3, 4}
    OBVIOUS
  <2> QED
    BY <2>1, <2>2 DEF InPrefix
<1> QED
  BY <1>3, <1>7, <1>8

LEMMA BuildsMeans ==
  BuildsToCome <=>
    (ask.op = "browse" /\ out = "open" /\ segs # {} =>
       /\ ask.asked[1][1] # Upload /\ OpenSegment(ask.asked[1]) = 4
       /\ \A o \in ProfilesOf(since) : InBucket(o, ask.asked[1]) =>
            Path[o][4] \in segs \/ (\E g \in level : g.id = Path[o] /\ o \in g.ms)
       /\ \A s \in segs : \E o \in stored :
            Path[o] = Build(ask.asked[1], s) /\ (s = Min(segs) => Seen(o))
       /\ \A g \in level : g.ms = {} => \E o \in stored : Path[o] = g.id /\ ~Conforms[o])
  BY DEF BuildsToCome, Build

LEMMA ToComeStep ==
  ASSUME TypeOK, StateFits, ListingKeepsUp, BuildsToCome, [Next]_vars
  PROVE  BuildsToCome'
<1> DEFINE f == ask.asked[1]
<1>0. /\ ask' = ask /\ since' = since /\ stored \subseteq stored' /\ f \in Id
      /\ since \subseteq stored /\ stored \subseteq Objects
  BY MembersGrow, AskFacts
<1>1. CASE out' # "open" \/ ask.op # "browse"
  BY <1>0, <1>1 DEF BuildsToCome
<1>2. CASE UNCHANGED <<out, cursor, got, segs, level>>
  <2>1. \A o : Seen(o)' = Seen(o)
    BY <1>2 DEF Seen
  <2> QED
    BY <1>0, <1>2, <2>1 DEF BuildsToCome, ProfilesOf, InBucket
<1>3. CASE ReadName
  <2>1. UNCHANGED <<out, stored, segs, level>>
    BY <1>3 DEF ReadName
  <2> SUFFICES ASSUME ask.op = "browse", out = "open", segs # {}, NEW s \in segs
               PROVE  \E o \in stored : Path[o] = Build(f, s) /\ (s = Min(segs) => Seen(o)')
    BY <1>0, <2>1 DEF BuildsToCome, ProfilesOf, InBucket, Build
  <2>2. PICK o \in stored : Path[o] = Build(f, s) /\ (s = Min(segs) => Seen(o))
    BY BuildsMeans
  <2>3. ASSUME s = Min(segs) PROVE Seen(o)'
    <3>1. Path[o] = Filter
      BY <2>2, <2>3, FilterCases DEF Loading, NextLoaded, Build
    <3> QED
      BY <1>3, <2>2, <2>3, <3>1, SeenStays
  <2> QED
    BY <2>2, <2>3
<1>4. CASE Browse /\ out' = "open"
  <2>1. /\ Browsing /\ out = "open" /\ AtEnd(Filter) /\ NewListing /\ stored' = stored
        /\ Filter = f
    BY <1>4, FilterCases DEF Browse
  <2>2. /\ OpenSegment(f) = 4 /\ f[1] # Upload /\ level' = level
        /\ segs' = {Path[o][4] : o \in Found(f)}
    BY <1>4, <2>1, OpenSegmentType DEF Browse
  <2>3. level' = {}
    BY <2>1, <2>2 DEF StateFits, Browsing
  <2>4. \A o \in ProfilesOf(since) : InBucket(o, f) => Path[o][4] \in segs'
    BY <1>0, <2>1, <2>2, ListingSeesAll DEF ProfilesOf
  <2>5. ASSUME NEW s \in segs'
        PROVE  \E o \in stored : Path[o] = Build(f, s) /\ Seen(o)'
    <3>1. PICK o \in Found(f) : Path[o][4] = s
      BY <2>2, <2>5
    <3>2. o \in stored /\ InBucket(o, f)
      BY <2>1, <2>2, ListingSeesAll
    <3>3. Path[o] = Build(f, s)
      BY <1>0, <2>2, <3>1, <3>2, DayPrefix DEF InBucket
    <3> QED
      BY <2>1, <3>2, <3>3, SeenAtFirst
  <2> QED
    BY <1>0, <2>1, <2>2, <2>3, <2>4, <2>5 DEF BuildsToCome, ProfilesOf, InBucket, Build
<1>5. CASE LoadGroup /\ out' = "open"
  <2> DEFINE b == Build(f, Min(segs))
             ms == MembersOf(Found(Filter), b)
  <2>1. /\ Loading /\ out = "open" /\ AtEnd(Filter) /\ NewListing /\ stored' = stored
        /\ Filter = b /\ NextLoaded = b
        /\ segs' = segs \ {Min(segs)} /\ level' = level \cup {[id |-> b, ms |-> ms]}
    BY <1>5, FilterCases DEF LoadGroup, NextLoaded, Build
  <2>2. /\ f[1] # Upload /\ OpenSegment(f) = 4 /\ segs # {} /\ ask.op = "browse"
    BY <2>1 DEF Loading, BuildsToCome
  <2>3. Min(segs) \in segs
    BY <2>2, LeastOfNaturals DEF TypeOK
  <2>4. \A o \in ProfilesOf(since) : InBucket(o, f) =>
          Path[o][4] \in segs' \/ (\E g \in level' : g.id = Path[o] /\ o \in g.ms)
    <3> SUFFICES ASSUME NEW o \in ProfilesOf(since), InBucket(o, f), Path[o][4] = Min(segs)
                 PROVE  \E g \in level' : g.id = Path[o] /\ o \in g.ms
      BY <2>1, <2>2, BuildsMeans
    <3>1. o \in since /\ o \in stored /\ o \in Objects /\ Conforms[o]
      BY <1>0 DEF ProfilesOf
    <3>2. Path[o] = b
      BY <1>0, <2>2, <3>1, DayPrefix DEF InBucket
    <3>3. o \in ms
      BY <2>1, <3>1, <3>2, BuildIsFound DEF MembersOf, ProfilesOf
    <3>4. [id |-> b, ms |-> ms] \in level'
      BY <2>1
    <3> HIDE DEF ms, b
    <3> QED
      BY <3>2, <3>3, <3>4
  <2>5. ASSUME NEW s \in segs'
        PROVE  \E o \in stored : Path[o] = Build(f, s) /\ Seen(o)'
    <3>1. PICK o \in stored : Path[o] = Build(f, s)
      BY <2>1, <2>2, BuildsMeans
    <3> QED
      BY <2>1, <3>1, SeenAtFirst
  <2>6. ASSUME NEW g \in level', g.ms = {}
        PROVE  \E o \in stored : Path[o] = g.id /\ ~Conforms[o]
    <3>1. CASE g \in level
      BY <2>1, <2>2, <2>6, <3>1, BuildsMeans
    <3>2. CASE g = [id |-> b, ms |-> ms]
      <4>1. PICK o \in stored : Path[o] = b /\ Seen(o)
        BY <2>1, <2>2, <2>3, BuildsMeans
      <4>2. o \in Found(Filter) /\ o \notin ms
        BY <2>1, <2>6, <3>2, <4>1, BuildIsFound
      <4>3. ~Conforms[o]
        BY <4>1, <4>2 DEF MembersOf, ProfilesOf
      <4> QED
        BY <3>2, <4>1, <4>3
    <3> QED
      BY <2>1, <2>6, <3>1, <3>2
  <2> HIDE DEF b, ms
  <2> QED
    BY <1>0, <2>1, <2>2, <2>4, <2>5, <2>6 DEF BuildsToCome, ProfilesOf, InBucket, Build
<1> QED
  BY <1>1, <1>2, <1>3, <1>4, <1>5
  DEF Next, vars, Store, ListingFails, Resolve, Plan, ListMembers, Resolving, Planning, Listing

LEMMA BrowseStep ==
  ASSUME TypeOK, StateFits, ListingKeepsUp, BuildsToCome, BrowseShowsEveryBuild, [Next]_vars
  PROVE  BrowseShowsEveryBuild'
<1> DEFINE f == ask.asked[1]
           day == {o \in since : Path[o][1] = f[1] /\ InPrefix(Path[o], f)}
           Shown(lv) == \A o \in ProfilesOf(day) : \E g \in lv : g.id = Path[o] /\ o \in g.ms
           Told(lv) == \A g \in lv : g.ms = {} => \E o \in stored : Path[o] = g.id /\ ~Conforms[o]
<1>0. /\ ask' = ask /\ since' = since /\ stored \subseteq stored' /\ f \in Id
      /\ since \subseteq stored /\ stored \subseteq Objects
  BY MembersGrow, AskFacts
<1>1. CASE out' = "answered" /\ ask.op = "browse" => out = "answered" /\ level' = level
  BY <1>0, <1>1 DEF BrowseShowsEveryBuild, ProfilesOf
<1>2. CASE /\ OpenSegment(f) = 4 /\ stored' = stored
           /\ Shown(level') /\ Told(level')
  BY <1>0, <1>2 DEF BrowseShowsEveryBuild, ProfilesOf
<1>3. CASE OpenSegment(f) # 4
  BY <1>0, <1>3 DEF BrowseShowsEveryBuild, OpenSegment
<1>4. CASE Browse /\ out' = "answered" /\ OpenSegment(f) = 4
  <2>1. /\ Browsing /\ out = "open" /\ AtEnd(Filter) /\ stored' = stored /\ Filter = f
    BY <1>4, FilterCases DEF Browse
  <2>2. CASE f[1] = Upload
    <3>1. level' = {[id |-> g, ms |-> MembersOf(Found(f), g)] :
                      g \in {Path[o] : o \in ProfilesOf(Found(f))}}
      BY <1>4, <2>1, <2>2 DEF Browse
    <3>2. \A o \in ProfilesOf(day) : o \in ProfilesOf(Found(f))
      <4> SUFFICES ASSUME NEW o \in ProfilesOf(day) PROVE o \in ProfilesOf(Found(f))
        OBVIOUS
      <4>1. o \in since /\ o \in Objects /\ o \in stored /\ Conforms[o] /\ InPrefix(Path[o], f)
        BY <1>0 DEF ProfilesOf
      <4>2. Path[o] = Build(f, Path[o][4]) /\ f[4] = Empty
        BY <1>0, <1>4, <4>1, DayPrefix
      <4>3. InUploads(Path[o], f)
        BY <1>0, <2>2, <4>2 DEF InUploads, Build, Id
      <4> QED
        BY <2>2, <4>1, <4>3 DEF Found, ProfilesOf
    <3>3. Shown(level')
      <4> SUFFICES ASSUME NEW o \in ProfilesOf(day)
                   PROVE  \E g \in level' : g.id = Path[o] /\ o \in g.ms
        OBVIOUS
      <4>1. [id |-> Path[o], ms |-> MembersOf(Found(f), Path[o])] \in level'
        BY <3>1, <3>2
      <4>2. o \in MembersOf(Found(f), Path[o])
        BY <3>2 DEF MembersOf, ProfilesOf
      <4> QED
        BY <4>1, <4>2
    <3>4. Told(level')
      <4> SUFFICES ASSUME NEW o \in ProfilesOf(Found(f)), MembersOf(Found(f), Path[o]) = {}
                   PROVE  FALSE
        BY <3>1
      <4> QED
        BY DEF MembersOf, ProfilesOf
    <3> QED
      BY <1>2, <1>4, <2>1, <3>3, <3>4
  <2>3. CASE f[1] # Upload
    <3>1. Found(f) = {} /\ level' = {}
      <4>1. {Path[o][4] : o \in Found(f)} = {} /\ level' = level
        BY <1>4, <2>1, <2>3 DEF Browse
      <4>2. level = {}
        BY <2>1 DEF StateFits, Browsing
      <4> QED
        BY <4>1, <4>2
    <3>2. ProfilesOf(day) = {}
      <4> SUFFICES ASSUME NEW o \in ProfilesOf(day) PROVE FALSE
        OBVIOUS
      <4>1. o \in since /\ InBucket(o, f)
        BY <2>3 DEF ProfilesOf, InBucket
      <4> QED
        BY <2>1, <2>3, <3>1, <4>1, ListingSeesAll
    <3> QED
      BY <1>2, <1>4, <2>1, <3>1, <3>2
  <2> QED
    BY <2>2, <2>3
<1>5. CASE LoadGroup /\ out' = "answered" /\ OpenSegment(f) = 4
  <2> DEFINE b == Build(f, Min(segs))
             ms == MembersOf(Found(Filter), b)
  <2>1. /\ Loading /\ out = "open" /\ AtEnd(Filter) /\ stored' = stored
        /\ Filter = b /\ segs \ {Min(segs)} = {}
        /\ level' = level \cup {[id |-> b, ms |-> ms]}
    BY <1>5, FilterCases DEF LoadGroup, NextLoaded, Build
  <2>2. /\ f[1] # Upload /\ segs # {} /\ ask.op = "browse"
    BY <2>1 DEF Loading, BuildsToCome
  <2>3. Min(segs) \in segs
    BY <2>2, LeastOfNaturals DEF TypeOK
  <2>4. Shown(level')
    <3> SUFFICES ASSUME NEW o \in ProfilesOf(day)
                 PROVE  \E g \in level' : g.id = Path[o] /\ o \in g.ms
      OBVIOUS
    <3>1. /\ o \in since /\ o \in stored /\ o \in Objects /\ Conforms[o] /\ o \in ProfilesOf(since)
          /\ InBucket(o, f)
      BY <1>0, <2>2 DEF ProfilesOf, InBucket
    <3>2. CASE Path[o][4] \in segs
      <4>1. Path[o] = b
        BY <1>0, <1>5, <2>1, <3>1, <3>2, DayPrefix DEF InBucket
      <4>2. o \in ms
        BY <2>1, <3>1, <4>1, BuildIsFound DEF MembersOf, ProfilesOf
      <4>3. [id |-> b, ms |-> ms] \in level'
        BY <2>1
      <4> HIDE DEF ms, b
      <4> QED
        BY <4>1, <4>2, <4>3
    <3>3. CASE \E g \in level : g.id = Path[o] /\ o \in g.ms
      BY <2>1, <3>3
    <3> QED
      BY <2>1, <2>2, <3>1, <3>2, <3>3, BuildsMeans
  <2>5. Told(level')
    <3> SUFFICES ASSUME NEW g \in level', g.ms = {}
                 PROVE  \E o \in stored : Path[o] = g.id /\ ~Conforms[o]
      OBVIOUS
    <3>1. CASE g \in level
      BY <2>1, <2>2, <3>1, BuildsMeans
    <3>2. CASE g = [id |-> b, ms |-> ms]
      <4>1. PICK o \in stored : Path[o] = b /\ Seen(o)
        BY <2>1, <2>2, <2>3, BuildsMeans
      <4>2. o \in Found(Filter) /\ o \notin ms
        BY <2>1, <3>2, <4>1, BuildIsFound
      <4>3. ~Conforms[o]
        BY <4>1, <4>2 DEF MembersOf, ProfilesOf
      <4> QED
        BY <3>2, <4>1, <4>3
    <3> QED
      BY <2>1, <3>1, <3>2
  <2> HIDE DEF Shown, Told
  <2> QED
    BY <1>2, <1>5, <2>1, <2>4, <2>5
<1> QED
  BY <1>1, <1>3, <1>4, <1>5
  DEF Next, vars, Store, ReadName, ListingFails, Resolve, Plan, ListMembers, Resolving, Planning,
      Listing

-----------------------------------------------------------------------------
LEMMA InitInv ==
  ASSUME Init
  PROVE  IInv
<1>1. /\ ask \in Requests /\ ask.asked # <<>> /\ ask.asked \in Seq(Id) /\ out = "open"
      /\ Len(ask.asked) \in Nat \ {0}
  BY ListingsAssumption DEF Init
<1>2. TypeOK
  <2>1. RequestTyped
    BY DEF Init, RequestTyped, Outcomes
  <2>2. CursorTyped
    BY FreshCursor DEF Init, CursorTyped
  <2>3. IdsTyped /\ PlansTyped
    BY <1>1 DEF Init, IdsTyped, PlansTyped
  <2>4. LevelTyped
    BY FS_EmptySet DEF Init, LevelTyped
  <2> QED
    BY <2>1, <2>2, <2>3, <2>4, TypeParts
<1>3. StateFits
  BY <1>1 DEF Init, StateFits
<1>4. ListingKeepsUp
  BY <1>2, ObjectFacts DEF Init, ListingKeepsUp, TypeOK
<1>5. LatestIsThere /\ LatestIsNotOlder /\ PlansSound
  BY DEF Init, LatestIsThere, LatestIsNotOlder, PlansSound
<1>6. SeesWhatWasStored /\ MergedIsThere /\ ResponseListsWhatItMerged
  BY DEF Init, SeesWhatWasStored, MergedIsThere, ResponseListsWhatItMerged
<1>7. BuildsToCome /\ BrowseShowsEveryBuild
  BY DEF Init, BuildsToCome, BrowseShowsEveryBuild
<1> QED
  BY <1>2, <1>3, <1>4, <1>5, <1>6, <1>7 DEF IInv

LEMMA NextInv ==
  ASSUME IInv, [Next]_vars
  PROVE  IInv'
<1>1. TypeOK' /\ StateFits' /\ ListingKeepsUp'
  BY TypeStep, FitsStep, KeepsUpStep DEF IInv
<1>2. LatestIsThere' /\ LatestIsNotOlder' /\ PlansSound' /\ SeesWhatWasStored'
  BY LatestIsThereStep, NotOlderStep, PlansSoundStep, SeesStep DEF IInv
<1>3. MergedIsThere' /\ ResponseListsWhatItMerged'
  BY MergedStep, ListsStep DEF IInv
<1>4. BuildsToCome' /\ BrowseShowsEveryBuild'
  BY ToComeStep, BrowseStep DEF IInv
<1> QED
  BY <1>1, <1>2, <1>3, <1>4 DEF IInv

-----------------------------------------------------------------------------
(* The inductive invariant holds: what a listing has read, passed and has  *)
(* yet to read fits together with what the request made of earlier ones.   *)
THEOREM ListingsInductive == Spec => []IInv
<1>1. Init => IInv
  BY InitInv
<1>2. IInv /\ [Next]_vars => IInv'
  BY NextInv
<1> QED
  BY <1>1, <1>2, PTL DEF Spec

(* What is read and answered is of what is stored, whatever is asked for   *)
(* and whatever is stored while it is served.                              *)
THEOREM ListingsTypeCorrect == Spec => []TypeOK
<1>1. IInv => TypeOK
  BY DEF IInv
<1> QED
  BY <1>1, ListingsInductive, PTL

(* ResolveLatest never answers with a build that was superseded when the   *)
(* request came, for any bucket, however it changes while it is listed.    *)
THEOREM LatestIsNotSuperseded == Spec => []LatestIsNotOlder
<1>1. IInv => LatestIsNotOlder
  BY DEF IInv
<1> QED
  BY <1>1, ListingsInductive, PTL

(* Every listing sees what was stored when the request came; nothing is    *)
(* reported empty that was not; "latest" is never planned in vain.         *)
THEOREM ListingsSeeWhatWasStored == Spec => []SeesWhatWasStored
<1>1. IInv => SeesWhatWasStored
  BY DEF IInv
<1> QED
  BY <1>1, ListingsInductive, PTL

(* The sample of a longer list takes no profile of a shorter one that the  *)
(* sample of that had not taken, and each is as large as it may be.        *)
THEOREM SamplesAreStable == Spec => []SampleIsStable
<1>1. IInv => SampleIsStable
  <2> SUFFICES ASSUME IInv PROVE SampleIsStable
    OBVIOUS
  <2>1. \A i \in DOMAIN plans : /\ plans[i].among \in SUBSET Objects
                                /\ plans[i].sample = Sample(plans[i].among, SampleSize)
    BY DEF IInv, PlansSound, TypeOK, MembersOf, ProfilesOf
  <2>2. SampleSize \in Nat
    BY ListingsAssumption
  <2>3. ASSUME NEW i \in DOMAIN plans, NEW j \in DOMAIN plans,
               plans[i].among \subseteq plans[j].among
        PROVE  plans[j].sample \cap plans[i].among \subseteq plans[i].sample
    BY <2>1, <2>2, <2>3, SampleIsMonotone
  <2>4. ASSUME NEW i \in DOMAIN plans
        PROVE  Cardinality(plans[i].sample) =
                 IF SampleSize = 0 THEN Cardinality(plans[i].among)
                 ELSE Min({SampleSize, Cardinality(plans[i].among)})
    BY <2>1, <2>2, SampleFits
  <2> QED
    BY <2>3, <2>4 DEF SampleIsStable
<1> QED
  BY <1>1, ListingsInductive, PTL

(* The members that handleGroup answers with include all it has merged.    *)
THEOREM MergedAreListed == Spec => []ResponseListsWhatItMerged
<1>1. IInv => ResponseListsWhatItMerged
  BY DEF IInv
<1> QED
  BY <1>1, ListingsInductive, PTL

(* A level of builds shows each build that had profiles, with all of them, *)
(* and one without members only where something else is stored.            *)
THEOREM EveryBuildIsShown == Spec => []BrowseShowsEveryBuild
<1>1. IInv => BrowseShowsEveryBuild
  BY DEF IInv
<1> QED
  BY <1>1, ListingsInductive, PTL

-----------------------------------------------------------------------------
(* The lines of a comparison *)
LEMMA StreamSizes ==
  /\ Len(Sizes) \in Nat \ {0} /\ 1 \in Turns /\ Len(Sizes) \in Turns
  /\ \A g \in Turns : Sizes[g] \in Nat \ {0} /\ g \in Nat \ {0}
  /\ FetchConcurrency \in Int
<1>1. Len(Sizes) \in Nat /\ Sizes \in [1..Len(Sizes) -> Nat \ {0}] /\ Len(Sizes) # 0
  BY StreamAssumption
<1> QED
  BY <1>1, StreamAssumption DEF Turns

(* Through adds up the sizes of the groups.                                *)
LEMMA ThroughAdds ==
  /\ Through(0) = 0
  /\ \A n \in 0..Len(Sizes) : Through(n) \in Nat /\ Through(n) <= Through(Len(Sizes))
  /\ \A g \in Turns : Through(g) = Through(g - 1) + Sizes[g] /\ g - 1 \in 0..Len(Sizes)
<1>1. Through(0) = 0
  <2>1. 1..0 = {}
    OBVIOUS
  <2> QED
    BY <2>1, SumEmpty DEF Through
<1>2. ASSUME NEW n \in 0..Len(Sizes)
      PROVE  /\ IsFiniteSet(1..n) /\ 1..n \subseteq 1..Len(Sizes)
             /\ \A x \in 1..n : Sizes[x] \in Nat
  <2>1. n \in Int /\ 1..n \subseteq 1..Len(Sizes)
    BY StreamSizes
  <2>2. IsFiniteSet(1..n)
    BY <2>1, FS_Interval
  <2> QED
    BY <2>1, <2>2, StreamSizes DEF Turns
<1>3. ASSUME NEW n \in 0..Len(Sizes)
      PROVE  Through(n) \in Nat /\ Through(n) <= Through(Len(Sizes))
  <2>1. Len(Sizes) \in 0..Len(Sizes)
    BY StreamSizes
  <2>2. IsFiniteSet(1..Len(Sizes)) /\ \A x \in 1..Len(Sizes) : Sizes[x] \in Nat
    BY <1>2, <2>1
  <2> QED
    BY <1>2, <2>2, SumNat, SumGrows DEF Through
<1>4. ASSUME NEW g \in Turns
      PROVE  Through(g) = Through(g - 1) + Sizes[g] /\ g - 1 \in 0..Len(Sizes)
  <2>1. /\ g - 1 \in 0..Len(Sizes) /\ g \notin 1..(g - 1) /\ 1..g = (1..(g - 1)) \cup {g}
        /\ g \in 0..Len(Sizes)
    BY StreamSizes DEF Turns
  <2>2. IsFiniteSet(1..(g - 1)) /\ \A x \in (1..(g - 1)) \cup {g} : Sizes[x] \in Int
    BY <1>2, <2>1
  <2> QED
    BY <2>1, <2>2, SumAdd DEF Through
<1> QED
  BY <1>1, <1>3, <1>4

LEMMA MembersAre ==
  \E n \in Nat \ {0} :
    /\ Members = 1..n /\ Max(Members) = n /\ IsFiniteSet(Members)
    /\ \A g \in Turns : Sizes[g] <= n
<1> DEFINE S == {Sizes[g] : g \in Turns}
<1>1. S \subseteq Nat \ {0} /\ S # {} /\ IsFiniteSet(S)
  <2>1. IsFiniteSet(Turns)
    BY StreamSizes, FS_Interval DEF Turns
  <2> QED
    BY <2>1, StreamSizes, FiniteImage
<1>2. Max(S) \in S /\ \A x \in S : x <= Max(S)
  BY <1>1, GreatestOfNaturals
<1>3. \A g \in Turns : Sizes[g] <= Max(S)
  BY <1>2
<1> DEFINE n == Max(S)
<1> HIDE DEF n
<1>4. n \in Nat \ {0}
  BY <1>1, <1>2 DEF n
<1>5. Members = 1..n
  BY DEF Members, n
<1>6. IsFiniteSet(1..n) /\ 1..n \subseteq Nat /\ n \in 1..n
  BY <1>4, FS_Interval
<1>7. Max(1..n) \in 1..n /\ n <= Max(1..n)
  BY <1>6, GreatestOfNaturals
<1>8. Max(1..n) = n
  BY <1>4, <1>7
<1> QED
  BY <1>3, <1>4, <1>5, <1>6, <1>8 DEF n

LEMMA LimitIs == Limit \in Nat /\ Limit >= 2 /\ Limit = Max({2, FetchConcurrency})
<1>1. \E x \in {2, FetchConcurrency} : \A y \in {2, FetchConcurrency} : x >= y
  <2>1. CASE FetchConcurrency >= 2
    BY <2>1, StreamSizes
  <2>2. CASE FetchConcurrency < 2
    BY <2>2, StreamSizes
  <2> QED
    BY <2>1, <2>2, StreamSizes
<1>2. /\ Max({2, FetchConcurrency}) \in {2, FetchConcurrency}
      /\ \A y \in {2, FetchConcurrency} : Max({2, FetchConcurrency}) >= y
  BY <1>1 DEF Max
<1>3. Max({2, FetchConcurrency}) \in Int /\ Max({2, FetchConcurrency}) >= 2
  BY <1>2, StreamSizes
<1> QED
  BY <1>3 DEF Limit

(* A line is added to the others. *)
LEMMA Sent ==
  ASSUME lines \in Seq(StreamLines), NEW line \in StreamLines, Send(line)
  PROVE  /\ lines' \in Seq(StreamLines) /\ Len(lines) \in Nat
         /\ Len(lines') = Len(lines) + 1 /\ lines'[Len(lines) + 1] = line
         /\ \A i \in 1..Len(lines) : lines'[i] = lines[i]
BY DEF Send

LEMMA ShownAreNat ==
  ASSUME lines \in Seq(StreamLines)
  PROVE  CountsShown \subseteq Nat
<1> SUFFICES ASSUME NEW i \in ProgressLines PROVE lines[i].done \in Nat
  BY DEF CountsShown
<1>1. lines[i] \in StreamLines
  BY DEF ProgressLines
<1>2. lines[i].done \in 0..Through(Len(Sizes))
  BY <1>1 DEF StreamLines
<1> QED
  BY <1>2

(* A count that was not shown is sent. *)
LEMMA ProgressSent ==
  ASSUME lines \in Seq(StreamLines), BarCountsEveryProfile,
         ProgressLines = 1..Len(lines), NEW d \in 0..Through(Len(Sizes)),
         d \notin CountsShown, Send(Progress(d))
  PROVE  /\ lines' \in Seq(StreamLines)
         /\ ProgressLines' = 1..Len(lines')
         /\ CountsShown' = CountsShown \cup {d}
         /\ BarCountsEveryProfile'
<1>1. Progress(d) \in StreamLines /\ Progress(d).type = "progress" /\ Progress(d).done = d
  BY DEF Progress, StreamLines
<1> DEFINE n == Len(lines)
<1>2. /\ lines' \in Seq(StreamLines) /\ n \in Nat /\ Len(lines') = n + 1
      /\ lines'[n + 1].type = "progress" /\ lines'[n + 1].done = d
      /\ \A i \in 1..n : lines'[i] = lines[i]
  BY <1>1, Sent
<1> HIDE DEF n
<1>3. \A i \in 1..n : lines[i].type = "progress"
  BY DEF ProgressLines, n
<1>4. \A i \in 1..(n + 1) : i \in 1..n \/ i = n + 1
  BY <1>2
<1>5. \A i \in 1..(n + 1) : lines'[i].type = "progress"
  BY <1>2, <1>3, <1>4
<1>6. ProgressLines' = 1..Len(lines')
  BY <1>2, <1>5 DEF ProgressLines
<1>7. CountsShown = {lines[i].done : i \in 1..n}
  BY DEF CountsShown, n
<1>8. CountsShown' = {lines'[i].done : i \in 1..(n + 1)}
  BY <1>2, <1>6 DEF CountsShown
<1>9. n + 1 \in 1..(n + 1) /\ \A i \in 1..n : i \in 1..(n + 1)
  BY <1>2
<1>10. CountsShown' = CountsShown \cup {d}
  <2>1. ASSUME NEW x \in CountsShown' PROVE x \in CountsShown \cup {d}
    BY <1>2, <1>4, <1>7, <1>8
  <2>2. CountsShown \subseteq CountsShown'
    BY <1>2, <1>7, <1>8, <1>9
  <2>3. d \in CountsShown'
    BY <1>2, <1>8, <1>9
  <2> QED
    BY <2>1, <2>2, <2>3
<1>11. \A i, j \in 1..(n + 1) : i # j => lines'[i].done # lines'[j].done
  <2>1. \A i, j \in 1..n : i # j => lines[i].done # lines[j].done
    BY DEF BarCountsEveryProfile, n
  <2>2. \A i \in 1..n : lines[i].done # d
    BY <1>7
  <2> QED
    BY <1>2, <1>4, <2>1, <2>2
<1>12. BarCountsEveryProfile'
  <2>1. \A i \in 1..Len(lines') : lines'[i].type # "result"
    BY <1>2, <1>5
  <2> QED
    BY <1>2, <1>6, <1>11, <2>1 DEF BarCountsEveryProfile
<1> QED
  BY <1>2, <1>6, <1>10, <1>12

(* The stream is closed: a result is only sent when the bar was full.      *)
LEMMA StreamClosed ==
  ASSUME lines \in Seq(StreamLines), BarCountsEveryProfile,
         ProgressLines = 1..Len(lines), done \in 0..Through(Len(Sizes)),
         NEW type \in {"result", "error"}, Finish(type),
         type = "result" => Through(Len(Sizes)) \in CountsShown
  PROVE  lines' \in Seq(StreamLines) /\ CountsShown' = CountsShown /\ BarCountsEveryProfile'
<1> DEFINE line == [type |-> type, done |-> done]
           n == Len(lines)
<1>1. line \in StreamLines /\ line.type = type /\ Send(line)
  BY DEF StreamLines, Finish
<1>2. /\ lines' \in Seq(StreamLines) /\ n \in Nat /\ Len(lines') = n + 1
      /\ lines'[n + 1].type = type
      /\ \A i \in 1..n : lines'[i] = lines[i]
  <2> HIDE DEF line
  <2> QED
    BY <1>1, Sent
<1> HIDE DEF n, line
<1>3. \A i \in 1..n : lines[i].type = "progress"
  BY DEF ProgressLines, n
<1>4. \A i \in 1..(n + 1) : i \in 1..n \/ i = n + 1
  BY <1>2
<1>5. ProgressLines' = 1..n
  <2>1. ProgressLines' = {i \in 1..(n + 1) : lines'[i].type = "progress"}
    BY <1>2 DEF ProgressLines
  <2>2. \A i \in 1..n : i \in 1..(n + 1) /\ lines'[i].type = "progress"
    BY <1>2, <1>3
  <2> QED
    BY <1>2, <1>4, <2>1, <2>2
<1>6. CountsShown' = CountsShown
  <2>1. CountsShown = {lines[i].done : i \in 1..n} /\ CountsShown' = {lines'[i].done : i \in 1..n}
    BY <1>5 DEF CountsShown, n
  <2> QED
    BY <1>2, <2>1
<1>7. ASSUME NEW i \in 1..Len(lines'), lines'[i].type = "result"
      PROVE  \E j \in ProgressLines' : j < i /\ lines'[j].done = Through(Len(Sizes))
  <2>1. i = n + 1
    BY <1>2, <1>3, <1>4, <1>7
  <2>2. PICK j \in 1..n : lines[j].done = Through(Len(Sizes))
    BY <1>2, <1>7, <2>1 DEF CountsShown, n
  <2>3. j < i
    BY <1>2, <2>1
  <2> QED
    BY <1>2, <1>5, <2>2, <2>3
<1>8. \A i, j \in 1..n : i # j => lines'[i].done # lines'[j].done
  BY <1>2 DEF BarCountsEveryProfile, n
<1> QED
  BY <1>2, <1>5, <1>6, <1>7, <1>8 DEF BarCountsEveryProfile

(* What is not a step of the counter leaves its lines alone. *)
LEMMA LinesKept ==
  ASSUME BarCountsEveryProfile, UNCHANGED lines
  PROVE  /\ BarCountsEveryProfile' /\ ProgressLines' = ProgressLines
         /\ CountsShown' = CountsShown
BY DEF BarCountsEveryProfile, ProgressLines, CountsShown

LEMMA PoolKept ==
  ASSUME UNCHANGED <<member, held>>
  PROVE  Active' = Active /\ Emitting' = Emitting /\ Counted' = Counted
BY DEF Active, Emitting, Counted

LEMMA EmittingIsActive == Emitting \subseteq Active
BY DEF Emitting, Active

LEMMA PlanGroupStep ==
  ASSUME StreamIInv, PlanGroup
  PROVE  StreamIInv'
<1> USE DEF StreamIInv
<1>1. nth' \in Turns
  BY StreamSizes DEF PlanGroup, StreamTypeOK, Turns
<1>2. StreamTypeOK'
  BY <1>1, PoolKept DEF PlanGroup, StreamTypeOK, poolVars
<1>3. PoolFits' /\ DoneAddsUp'
  BY PoolKept DEF PlanGroup, PoolFits, DoneAddsUp, poolVars
<1>4. Emitting' = {} /\ CountsAreApart'
  <2>1. Emitting = {}
    BY EmittingIsActive DEF PlanGroup, PoolFits
  <2>2. Emitting' = {} /\ CountsShown' = CountsShown /\ ProgressLines' = ProgressLines
    BY <2>1, PoolKept, LinesKept DEF PlanGroup, poolVars
  <2> QED
    BY <2>2 DEF PlanGroup, CountsAreApart
<1> QED
  BY <1>2, <1>3, <1>4, LinesKept DEF PlanGroup

(* The stream is closed by PlanFails, Wait and Advance.                    *)
LEMMA FinishStep ==
  ASSUME StreamIInv, NEW type \in {"result", "error"}, Finish(type),
         phase # "over", Active = {}, UNCHANGED <<nth, done, total, poolVars>>,
         type = "result" => Through(Len(Sizes)) \in CountsShown
  PROVE  StreamIInv'
<1> USE DEF StreamIInv
<1>1. ProgressLines = 1..Len(lines)
  BY DEF CountsAreApart
<1>2. lines' \in Seq(StreamLines) /\ CountsShown' = CountsShown /\ BarCountsEveryProfile'
  BY <1>1, StreamClosed DEF StreamTypeOK
<1>3. phase' = "over"
  BY DEF Finish
<1>4. Active' = {} /\ Emitting' = {} /\ Active' = Active
  BY PoolKept, EmittingIsActive DEF poolVars
<1>5. StreamTypeOK'
  BY <1>2, <1>3, <1>4 DEF StreamTypeOK, poolVars
<1> QED
  BY <1>2, <1>3, <1>4, <1>5 DEF PoolFits, DoneAddsUp, CountsAreApart

LEMMA AnnounceStep ==
  ASSUME StreamIInv, Announce
  PROVE  StreamIInv'
<1> USE DEF StreamIInv
<1>1. phase = "announce" /\ phase' = "lookup" /\ done = 0 /\ lines = <<>> /\ nth = 1
      /\ Active = {} /\ total' = Through(Len(Sizes))
      /\ UNCHANGED <<nth, done, spawned, member, held, failed>>
  BY DEF Announce, DoneAddsUp, PoolFits, poolVars
<1>2. Emitting' = {} /\ Active' = Active
  BY <1>1, PoolKept, EmittingIsActive
<1>3. ProgressLines = {} /\ CountsShown = {} /\ 1..Len(lines) = {}
  BY <1>1 DEF ProgressLines, CountsShown
<1>4. /\ lines' \in Seq(StreamLines)
      /\ ProgressLines' = 1..Len(lines') /\ CountsShown' = {done} /\ BarCountsEveryProfile'
  <2>1. Send(Progress(done)) /\ done \in 0..Through(Len(Sizes)) /\ done \notin CountsShown
    BY <1>3 DEF Announce, StreamTypeOK
  <2> QED
    BY <1>3, <2>1, ProgressSent DEF StreamTypeOK
<1>5. StreamTypeOK'
  BY <1>1, <1>2, <1>4 DEF StreamTypeOK
<1>6. done' = Through(nth' - 1)
  BY <1>1, ThroughAdds
<1>7. CountsAreApart'
  BY <1>1, <1>2, <1>4 DEF CountsAreApart
<1> QED
  BY <1>1, <1>2, <1>4, <1>5, <1>6, <1>7 DEF PoolFits, DoneAddsUp

LEMMA HitStep ==
  ASSUME StreamIInv, Hit
  PROVE  /\ StreamIInv'
         /\ done' > Through(nth - 1) /\ done' <= Through(nth)
<1> USE DEF StreamIInv
<1>1. phase = "lookup" /\ phase' = "next" /\ done' = done + Sizes[nth]
      /\ done = Through(nth - 1) /\ Active = {} /\ nth \in Turns
      /\ UNCHANGED <<nth, total, spawned, member, held, failed>>
  BY DEF Hit, DoneAddsUp, PoolFits, poolVars, StreamTypeOK
<1>2. Emitting' = {} /\ Active' = Active
  BY <1>1, PoolKept, EmittingIsActive
<1>3. /\ done' = Through(nth) /\ done' > done /\ done' \in 0..Through(Len(Sizes))
      /\ done \in Nat /\ done' \in Nat
  <2>1. /\ Through(nth) = Through(nth - 1) + Sizes[nth] /\ Sizes[nth] \in Nat \ {0}
        /\ Through(nth - 1) \in Nat /\ Through(nth) \in Nat
        /\ Through(nth) <= Through(Len(Sizes)) /\ Through(Len(Sizes)) \in Nat
    BY <1>1, ThroughAdds, StreamSizes DEF Turns
  <2> QED
    BY <1>1, <2>1
<1>4. \A n \in CountsShown : n \in Nat /\ n <= done
  BY ShownAreNat DEF CountsAreApart, StreamTypeOK
<1>5. /\ lines' \in Seq(StreamLines)
      /\ ProgressLines' = 1..Len(lines') /\ CountsShown' = CountsShown \cup {done'}
      /\ BarCountsEveryProfile'
  <2>1. Send(Progress(done')) /\ done' \notin CountsShown
    BY <1>3, <1>4 DEF Hit
  <2>2. ProgressLines = 1..Len(lines)
    BY <1>1 DEF CountsAreApart
  <2> QED
    BY <1>3, <2>1, <2>2, ProgressSent DEF StreamTypeOK
<1>6. StreamTypeOK'
  BY <1>1, <1>2, <1>3, <1>5 DEF StreamTypeOK
<1>7. \A n \in CountsShown' : n <= done'
  BY <1>3, <1>4, <1>5
<1>8. CountsAreApart'
  BY <1>1, <1>2, <1>5, <1>7 DEF CountsAreApart
<1>9. PoolFits' /\ DoneAddsUp'
  BY <1>1, <1>2, <1>3 DEF PoolFits, DoneAddsUp
<1>10. done' > Through(nth - 1) /\ done' <= Through(nth)
  BY <1>1, <1>3
<1> QED
  BY <1>5, <1>6, <1>8, <1>9, <1>10

LEMMA MissStep ==
  ASSUME StreamIInv, Miss
  PROVE  StreamIInv'
<1> USE DEF StreamIInv
<1>1. /\ phase = "lookup" /\ phase' = "fetch" /\ spawned' = 0 /\ failed' = FALSE
      /\ \A m \in Members : member'[m] = "idle"
      /\ member' = [m \in Members |-> "idle"] /\ held' = [m \in Members |-> 0]
      /\ UNCHANGED <<nth, done, total, lines>>
  BY DEF Miss
<1>2. Emitting' = {} /\ Active' = {} /\ Counted' = {}
  BY <1>1 DEF Emitting, Active, Counted
<1>3. Cardinality(Active') = 0 /\ Cardinality(Counted') = 0
  BY <1>2, FS_EmptySet
<1>4. 0 \in 0..Max(Members) /\ 0 \in 0..Through(Len(Sizes)) /\ 0 <= Limit
      /\ Through(Len(Sizes)) \in Nat
  BY MembersAre, ThroughAdds, LimitIs, StreamSizes
<1>5. StreamTypeOK'
  BY <1>1, <1>3, <1>4, LimitIs DEF StreamTypeOK
<1>6. \A m \in Members : m > 0
  BY MembersAre
<1>7. PoolFits'
  <2>1. 0 <= Sizes[nth]
    BY StreamSizes DEF StreamTypeOK
  <2> QED
    BY <1>1, <1>6, <2>1 DEF PoolFits
<1>8. Through(nth - 1) \in Nat
  BY ThroughAdds DEF StreamTypeOK
<1>9. DoneAddsUp'
  <2>1. done = Through(nth - 1) /\ Through(nth - 1) = Through(nth - 1) + 0
    BY <1>1, <1>8 DEF DoneAddsUp
  <2> QED
    BY <1>1, <1>3, <2>1 DEF DoneAddsUp
<1>10. CountsAreApart'
  <2>1. Emitting = {}
    BY <1>1, EmittingIsActive DEF PoolFits
  <2> QED
    BY <1>1, <1>2, <2>1, LinesKept DEF CountsAreApart
<1> QED
  BY <1>1, <1>5, <1>7, <1>9, <1>10, LinesKept
LEMMA FiniteMembers ==
  ASSUME NEW S, S \subseteq Members
  PROVE  IsFiniteSet(S) /\ Cardinality(S) \in Nat
BY MembersAre, FS_Subset, FS_CardinalityType

LEMMA SpawnStep ==
  ASSUME StreamIInv, Spawn
  PROVE  StreamIInv'
<1> USE DEF StreamIInv
<1> DEFINE m == spawned + 1
<1>1. /\ phase = "fetch" /\ spawned < Sizes[nth] /\ Cardinality(Active) < Limit
      /\ spawned' = m /\ member' = [member EXCEPT ![m] = "fetch"]
      /\ UNCHANGED <<phase, nth, done, total, held, failed, lines>>
  BY DEF Spawn
<1>2. PICK n \in Nat \ {0} : /\ Members = 1..n /\ Max(Members) = n
                             /\ \A g \in Turns : Sizes[g] <= n
  BY MembersAre
<1>3. spawned \in Nat /\ m \in Members /\ m <= Sizes[nth] /\ Sizes[nth] \in Nat
      /\ m \in 0..Max(Members) /\ m \in Nat
  BY <1>1, <1>2, StreamSizes DEF StreamTypeOK
<1>4. member[m] = "idle"
  BY <1>1, <1>3 DEF PoolFits
<1> HIDE DEF m
<1>5. /\ \A k \in Members \ {m} : member'[k] = member[k]
      /\ member'[m] = "fetch"
      /\ member' \in [Members -> {"idle", "fetch", "count", "emit", "done", "failed"}]
  BY <1>1, <1>3 DEF StreamTypeOK
<1>6. Active' = Active \cup {m} /\ Emitting' = Emitting /\ Counted' = Counted
  BY <1>3, <1>4, <1>5 DEF Active, Emitting, Counted
<1>7. Cardinality(Active') <= Limit
  <2>1. IsFiniteSet(Active) /\ Cardinality(Active) \in Nat
    BY FiniteMembers DEF Active
  <2>2. m \notin Active
    BY <1>4 DEF Active
  <2>3. Cardinality(Active') = Cardinality(Active) + 1
    BY <1>6, <2>1, <2>2, FS_AddElement
  <2> QED
    BY <1>1, <2>1, <2>3, LimitIs
<1>8. StreamTypeOK'
  BY <1>1, <1>3, <1>5, <1>7, LimitIs DEF StreamTypeOK
<1>9. PoolFits'
  <2>1. ASSUME NEW k \in Members PROVE (member'[k] = "idle") <=> k > m
    <3>1. (member[k] = "idle") <=> k > spawned
      BY <1>1 DEF PoolFits
    <3>2. k \in Nat
      BY <1>2
    <3>3. CASE k = m
      BY <1>3, <1>5, <3>3
    <3>4. CASE k # m
      <4>1. k > spawned <=> k > m
        BY <1>3, <3>2, <3>4 DEF m
      <4> QED
        BY <1>5, <3>1, <3>4, <4>1
    <3> QED
      BY <3>3, <3>4
  <2>2. \A k \in Members : member'[k] = "failed" => failed'
    BY <1>1, <1>5 DEF PoolFits
  <2> QED
    BY <1>1, <1>3, <2>1, <2>2 DEF PoolFits
<1>10. DoneAddsUp' /\ CountsAreApart'
  BY <1>1, <1>6, LinesKept DEF DoneAddsUp, CountsAreApart
<1> QED
  BY <1>1, <1>8, <1>9, <1>10, LinesKept

LEMMA WaitStep ==
  ASSUME StreamIInv, Wait
  PROVE  StreamIInv'
<1> USE DEF StreamIInv
<1>1. /\ phase = "fetch" /\ spawned = Sizes[nth] /\ Active = {}
      /\ UNCHANGED <<nth, done, total, poolVars>>
  BY DEF Wait
<1>2. CASE failed
  BY <1>1, <1>2, FinishStep DEF Wait
<1>3. CASE ~failed
  <2>1. phase' = "next" /\ UNCHANGED lines
    BY <1>3 DEF Wait
  <2>2. Emitting' = {} /\ Emitting = {} /\ Active' = {} /\ Active' = Active
    BY <1>1, PoolKept, EmittingIsActive DEF poolVars
  <2>3. Sizes[nth] \in Nat /\ \E n \in Nat : Members = 1..n /\ Sizes[nth] <= n
    BY MembersAre, StreamSizes DEF StreamTypeOK
  <2>4. Counted = 1..Sizes[nth]
    <3>1. ASSUME NEW m \in Counted PROVE m \in 1..Sizes[nth]
      <4>1. m \in Members /\ member[m] # "idle"
        BY DEF Counted
      <4>2. ~(m > Sizes[nth])
        BY <1>1, <4>1 DEF PoolFits
      <4> QED
        BY <2>3, <4>1, <4>2
    <3>2. ASSUME NEW m \in 1..Sizes[nth] PROVE m \in Counted
      <4>1. m \in Members /\ ~(m > Sizes[nth])
        BY <2>3
      <4>2. member[m] # "idle" /\ member[m] # "failed"
        BY <1>1, <1>3, <4>1 DEF PoolFits
      <4>3. member[m] \notin {"fetch", "count", "emit"}
        BY <1>1, <4>1 DEF Active
      <4>4. member[m] \in {"idle", "fetch", "count", "emit", "done", "failed"}
        BY <4>1 DEF StreamTypeOK
      <4> QED
        BY <4>1, <4>2, <4>3, <4>4 DEF Counted
    <3> QED
      BY <3>1, <3>2
  <2>5. Cardinality(Counted) = Sizes[nth]
    <3>1. Sizes[nth] \in Nat
      BY <2>3
    <3> QED
      BY <2>4, <3>1, FS_Interval
  <2>6. done' = Through(nth')
    BY <1>1, <2>5, ThroughAdds DEF DoneAddsUp, StreamTypeOK
  <2>7. StreamTypeOK'
    BY <1>1, <2>1, <2>2 DEF StreamTypeOK, poolVars
  <2>8. PoolFits' /\ DoneAddsUp'
    BY <2>1, <2>2, <2>6 DEF PoolFits, DoneAddsUp
  <2>9. CountsAreApart'
    BY <1>1, <2>1, <2>2, LinesKept DEF CountsAreApart
  <2> QED
    BY <2>1, <2>7, <2>8, <2>9, LinesKept
<1> QED
  BY <1>2, <1>3

LEMMA AdvanceStep ==
  ASSUME StreamIInv, Advance
  PROVE  StreamIInv'
<1> USE DEF StreamIInv
<1>1. /\ phase = "next" /\ Active = {} /\ nth \in Turns /\ done = Through(nth)
      /\ UNCHANGED <<done, total, poolVars>>
  BY DEF Advance, PoolFits, DoneAddsUp, StreamTypeOK
<1>2. Emitting' = {} /\ Emitting = {} /\ Active' = {} /\ Active' = Active
  BY <1>1, PoolKept, EmittingIsActive DEF poolVars
<1>3. done \in CountsShown
  BY <1>1, <1>2 DEF CountsAreApart
<1>4. nth \in Nat /\ Len(Sizes) \in Nat /\ nth <= Len(Sizes)
  BY <1>1, StreamSizes DEF Turns
<1>5. CASE nth < Len(Sizes)
  <2>1. nth' = nth + 1 /\ phase' = "lookup" /\ UNCHANGED lines
    BY <1>5 DEF Advance
  <2>2. nth' \in Turns /\ nth' - 1 = nth
    BY <1>1, <1>4, <1>5, <2>1 DEF Turns
  <2>3. StreamTypeOK'
    BY <1>1, <1>2, <2>1, <2>2 DEF StreamTypeOK, poolVars
  <2>4. PoolFits' /\ DoneAddsUp'
    BY <1>1, <1>2, <2>1, <2>2 DEF PoolFits, DoneAddsUp
  <2>5. CountsAreApart'
    BY <1>1, <1>2, <1>3, <2>1, LinesKept DEF CountsAreApart
  <2> QED
    BY <2>1, <2>3, <2>4, <2>5, LinesKept
<1>6. CASE ~(nth < Len(Sizes))
  <2>1. Finish("result") /\ UNCHANGED nth
    BY <1>6 DEF Advance
  <2>2. nth = Len(Sizes)
    BY <1>4, <1>6
  <2> QED
    BY <1>1, <1>3, <2>1, <2>2, FinishStep
<1> QED
  BY <1>5, <1>6

(* What moving one goroutine does to the sets of them. *)
LEMMA GoroutineMoves ==
  ASSUME StreamTypeOK, NEW m \in Members,
         member[m] \in {"fetch", "count", "emit"},
         NEW to \in {"count", "emit", "done", "failed"},
         member' = [member EXCEPT ![m] = to]
  PROVE  /\ member' \in [Members -> {"idle", "fetch", "count", "emit", "done", "failed"}]
         /\ member'[m] = to /\ \A k \in Members \ {m} : member'[k] = member[k]
         /\ Active' = (IF to \in {"count", "emit"} THEN Active ELSE Active \ {m})
         /\ Emitting' = (IF to = "emit" THEN Emitting \cup {m} ELSE Emitting \ {m})
         /\ Cardinality(Active') <= Max({2, FetchConcurrency})
<1>1. /\ member' \in [Members -> {"idle", "fetch", "count", "emit", "done", "failed"}]
      /\ member'[m] = to /\ \A k \in Members \ {m} : member'[k] = member[k]
  BY DEF StreamTypeOK
<1>2. Active' = (IF to \in {"count", "emit"} THEN Active ELSE Active \ {m})
  BY <1>1 DEF Active
<1>3. Emitting' = (IF to = "emit" THEN Emitting \cup {m} ELSE Emitting \ {m})
  BY <1>1 DEF Emitting
<1>4. Cardinality(Active') <= Max({2, FetchConcurrency})
  <2>1. Active' \subseteq Active /\ IsFiniteSet(Active) /\ Active \subseteq Members
    BY <1>2, FiniteMembers DEF Active
  <2>2. Cardinality(Active') <= Cardinality(Active)
    BY <2>1, FS_Subset
  <2>3. Cardinality(Active) \in Nat /\ Cardinality(Active') \in Nat
    BY <2>1, FiniteMembers
  <2> QED
    BY <2>2, <2>3, LimitIs DEF StreamTypeOK
<1> QED
  BY <1>1, <1>2, <1>3, <1>4

LEMMA PoolStillFits ==
  ASSUME StreamTypeOK, PoolFits, NEW m \in Members,
         member[m] \in {"fetch", "count", "emit"},
         NEW to \in {"count", "emit", "done", "failed"},
         member' = [member EXCEPT ![m] = to],
         UNCHANGED <<phase, nth, spawned>>, failed => failed',
         to = "failed" => failed'
  PROVE  phase = "fetch" /\ PoolFits'
<1>1. phase = "fetch"
  BY DEF PoolFits, Active
<1>2. member'[m] = to /\ \A k \in Members \ {m} : member'[k] = member[k]
  BY GoroutineMoves
<1>3. \A k \in Members : (member'[k] = "idle") <=> k > spawned
  BY <1>1, <1>2 DEF PoolFits
<1>4. \A k \in Members : member'[k] = "failed" => failed'
  BY <1>1, <1>2 DEF PoolFits
<1> QED
  BY <1>1, <1>3, <1>4 DEF PoolFits
LEMMA FetchStep ==
  ASSUME StreamIInv, NEW m \in Members, Fetch(m) \/ FetchFails(m)
  PROVE  StreamIInv'
<1> USE DEF StreamIInv
<1>1. PICK to \in {"count", "failed"} :
        /\ member[m] = "fetch" /\ member' = [member EXCEPT ![m] = to]
        /\ (failed => failed') /\ (to = "failed" => failed') /\ failed' \in BOOLEAN
        /\ UNCHANGED <<phase, nth, done, total, spawned, held, lines>>
  BY DEF Fetch, FetchFails, StreamTypeOK
<1>2. phase = "fetch" /\ PoolFits'
  BY <1>1, PoolStillFits
<1>3. /\ member' \in [Members -> {"idle", "fetch", "count", "emit", "done", "failed"}]
      /\ member'[m] = to /\ \A k \in Members \ {m} : member'[k] = member[k]
      /\ Emitting' = Emitting \ {m} /\ Cardinality(Active') <= Max({2, FetchConcurrency})
  BY <1>1, GoroutineMoves
<1>4. Emitting' = Emitting /\ Counted' = Counted
  BY <1>1, <1>3 DEF Emitting, Counted
<1>5. StreamTypeOK'
  BY <1>1, <1>3 DEF StreamTypeOK
<1>6. DoneAddsUp' /\ CountsAreApart'
  BY <1>1, <1>4, LinesKept DEF DoneAddsUp, CountsAreApart
<1> QED
  BY <1>1, <1>2, <1>5, <1>6, LinesKept

LEMMA CountStep ==
  ASSUME StreamIInv, NEW m \in Members, Count(m)
  PROVE  StreamIInv'
<1> USE DEF StreamIInv
<1>1. /\ member[m] = "count" /\ member' = [member EXCEPT ![m] = "emit"]
      /\ done' = done + 1 /\ held' = [held EXCEPT ![m] = done']
      /\ UNCHANGED <<phase, nth, total, spawned, failed, lines>>
  BY DEF Count
<1>2. phase = "fetch" /\ PoolFits'
  BY <1>1, PoolStillFits
<1>3. /\ member' \in [Members -> {"idle", "fetch", "count", "emit", "done", "failed"}]
      /\ member'[m] = "emit" /\ \A k \in Members \ {m} : member'[k] = member[k]
      /\ Emitting' = Emitting \cup {m} /\ Cardinality(Active') <= Max({2, FetchConcurrency})
  BY <1>1, GoroutineMoves
<1>4. m \notin Emitting /\ m \notin Counted /\ Counted' = Counted \cup {m}
  BY <1>1, <1>3 DEF Emitting, Counted
<1> DEFINE b == Through(nth - 1)
           c == Cardinality(Counted)
           t == Through(Len(Sizes))
<1>5. IsFiniteSet(Counted) /\ c \in Nat /\ Cardinality(Counted') = c + 1
  BY <1>4, FiniteMembers, FS_AddElement DEF Counted
<1>6. /\ b \in Nat /\ t \in Nat /\ Sizes[nth] \in Nat /\ b + Sizes[nth] = Through(nth)
      /\ Through(nth) <= t /\ done = b + c
  <2>1. nth \in Turns /\ nth \in 0..Len(Sizes)
    BY StreamSizes DEF StreamTypeOK, Turns
  <2> QED
    BY <1>2, <2>1, ThroughAdds, StreamSizes DEF DoneAddsUp
<1>7. c + 1 <= Sizes[nth]
  <2>1. Counted' \subseteq 1..Sizes[nth]
    <3> SUFFICES ASSUME NEW k \in Counted' PROVE k \in 1..Sizes[nth]
      OBVIOUS
    <3>1. k \in Members /\ member'[k] # "idle"
      BY DEF Counted
    <3>2. ~(k > spawned') /\ spawned' <= Sizes[nth]
      BY <1>1, <1>2, <3>1 DEF PoolFits
    <3>3. spawned' \in Int /\ k \in Nat \ {0}
      <4>1. PICK n \in Nat \ {0} : Members = 1..n /\ Max(Members) = n
        BY MembersAre
      <4> QED
        BY <1>1, <3>1, <4>1 DEF StreamTypeOK
    <3> QED
      BY <1>6, <3>2, <3>3
  <2>2. IsFiniteSet(1..Sizes[nth]) /\ Cardinality(1..Sizes[nth]) = Sizes[nth]
    <3>1. Sizes[nth] \in Nat
      BY <1>6
    <3> QED
      BY <3>1, FS_Interval
  <2>3. Cardinality(Counted') <= Cardinality(1..Sizes[nth])
    BY <2>1, <2>2, FS_Subset
  <2> QED
    BY <1>5, <2>2, <2>3
<1> HIDE DEF b, c, t
<1>8. /\ done \in Nat /\ done' \in 0..t /\ done' = b + (c + 1) /\ done' > b
      /\ done' > done /\ done' \in Nat
  BY <1>1, <1>5, <1>6, <1>7
<1>9. held' \in [Members -> 0..t] /\ held'[m] = done' /\ \A k \in Members \ {m} : held'[k] = held[k]
  BY <1>1, <1>8 DEF StreamTypeOK, t
<1>10. StreamTypeOK'
  BY <1>1, <1>3, <1>8, <1>9 DEF StreamTypeOK, t
<1>11. DoneAddsUp'
  BY <1>1, <1>2, <1>5, <1>8 DEF DoneAddsUp, b
<1>12. CountsShown' = CountsShown /\ ProgressLines' = ProgressLines /\ BarCountsEveryProfile'
  BY <1>1, LinesKept
<1>13. \A n \in CountsShown : n \in Nat /\ n <= done
  BY ShownAreNat DEF CountsAreApart, StreamTypeOK
<1>14. \A k \in Emitting : /\ k \in Members \ {m} /\ held[k] \in Nat
                           /\ held[k] > b /\ held[k] <= done /\ held[k] \notin CountsShown
                           /\ \A j \in Emitting \ {k} : held[j] # held[k]
  BY <1>4 DEF CountsAreApart, StreamTypeOK, Emitting, b
<1>15. CountsAreApart'
  <2>1. \A n \in CountsShown' : n <= done'
    BY <1>8, <1>12, <1>13
  <2>2. ASSUME NEW k \in Emitting'
        PROVE  /\ held'[k] > b /\ held'[k] <= done' /\ held'[k] \notin CountsShown'
               /\ \A j \in Emitting' \ {k} : held'[j] # held'[k]
    <3>1. CASE k = m
      <4>1. done' \notin CountsShown'
        BY <1>8, <1>12, <1>13
      <4>2. \A j \in Emitting : held'[j] # done'
        BY <1>8, <1>9, <1>14
      <4> QED
        BY <1>3, <1>8, <1>9, <3>1, <4>1, <4>2
    <3>2. CASE k # m
      <4>1. k \in Emitting /\ held'[k] = held[k] /\ held[k] < done'
        BY <1>3, <1>8, <1>9, <1>14, <3>2
      <4>2. \A j \in Emitting' \ {k} : held'[j] # held'[k]
        BY <1>3, <1>8, <1>9, <1>14, <4>1
      <4> QED
        BY <1>8, <1>12, <1>14, <4>1, <4>2
    <3> QED
      BY <3>1, <3>2
  <2>3. done' \in {held'[k] : k \in Emitting'}
    BY <1>3, <1>9
  <2> QED
    BY <1>1, <1>2, <1>12, <2>1, <2>2, <2>3 DEF CountsAreApart, b
<1> QED
  BY <1>2, <1>10, <1>11, <1>12, <1>15

(* While a group is fetched the counter is not beyond it. *)
LEMMA FetchedInTurn ==
  ASSUME StreamIInv, phase = "fetch"
  PROVE  done <= Through(nth)
<1> USE DEF StreamIInv
<1>1. Counted \subseteq 1..Sizes[nth]
  <2> SUFFICES ASSUME NEW k \in Counted PROVE k \in 1..Sizes[nth]
    OBVIOUS
  <2>1. k \in Members /\ member[k] # "idle"
    BY DEF Counted
  <2>2. ~(k > spawned) /\ spawned <= Sizes[nth] /\ Sizes[nth] \in Nat
    BY <2>1, StreamSizes DEF PoolFits, StreamTypeOK
  <2>3. spawned \in Int /\ k \in Nat \ {0}
    <3>1. PICK n \in Nat \ {0} : Members = 1..n /\ Max(Members) = n
      BY MembersAre
    <3> QED
      BY <2>1, <3>1 DEF StreamTypeOK
  <2> QED
    BY <2>2, <2>3
<1>2. Sizes[nth] \in Nat /\ Through(nth - 1) \in Nat
      /\ Through(nth) = Through(nth - 1) + Sizes[nth]
  BY ThroughAdds, StreamSizes DEF StreamTypeOK
<1>3. IsFiniteSet(1..Sizes[nth]) /\ Cardinality(1..Sizes[nth]) = Sizes[nth]
  <2>1. Sizes[nth] \in Nat
    BY <1>2
  <2> QED
    BY <2>1, FS_Interval
<1>4. Cardinality(Counted) <= Sizes[nth] /\ Cardinality(Counted) \in Nat
  BY <1>1, <1>3, FS_Subset, FiniteMembers DEF Counted
<1>5. done = Through(nth - 1) + Cardinality(Counted)
  BY DEF DoneAddsUp
<1> QED
  BY <1>2, <1>4, <1>5

LEMMA EmitStep ==
  ASSUME StreamIInv, NEW m \in Members, Emit(m)
  PROVE  /\ StreamIInv'
         /\ held[m] > Through(nth - 1) /\ held[m] <= Through(nth)
<1> USE DEF StreamIInv
<1>1. /\ member[m] = "emit" /\ member' = [member EXCEPT ![m] = "done"]
      /\ Send(Progress(held[m])) /\ UNCHANGED <<phase, nth, done, total, spawned, held, failed>>
  BY DEF Emit
<1>2. phase = "fetch" /\ PoolFits'
  BY <1>1, PoolStillFits
<1>3. /\ member' \in [Members -> {"idle", "fetch", "count", "emit", "done", "failed"}]
      /\ member'[m] = "done" /\ \A k \in Members \ {m} : member'[k] = member[k]
      /\ Emitting' = Emitting \ {m} /\ Cardinality(Active') <= Max({2, FetchConcurrency})
  BY <1>1, GoroutineMoves
<1>4. m \in Emitting /\ Counted' = Counted
  BY <1>1, <1>3 DEF Emitting, Counted
<1>5. /\ held[m] \in 0..Through(Len(Sizes)) /\ held[m] \notin CountsShown /\ held[m] <= done
      /\ held[m] > Through(nth - 1)
      /\ ProgressLines = 1..Len(lines)
  BY <1>2, <1>4 DEF CountsAreApart, StreamTypeOK
<1>6. /\ lines' \in Seq(StreamLines)
      /\ ProgressLines' = 1..Len(lines')
      /\ CountsShown' = CountsShown \cup {held[m]}
      /\ BarCountsEveryProfile'
  BY <1>1, <1>5, ProgressSent DEF StreamTypeOK
<1>7. StreamTypeOK'
  BY <1>1, <1>3, <1>6 DEF StreamTypeOK
<1>8. DoneAddsUp'
  BY <1>1, <1>2, <1>4 DEF DoneAddsUp
<1>9. CountsAreApart'
  <2>1. \A n \in CountsShown' : n <= done'
    BY <1>1, <1>5, <1>6 DEF CountsAreApart
  <2>2. \A k \in Emitting' :
          /\ held'[k] > Through(nth' - 1) /\ held'[k] <= done' /\ held'[k] \notin CountsShown'
          /\ \A j \in Emitting' \ {k} : held'[j] # held'[k]
    BY <1>1, <1>3, <1>4, <1>6 DEF CountsAreApart
  <2>3. done' \in CountsShown' \cup {held'[k] : k \in Emitting'}
    <3>1. done \in CountsShown \cup {held[k] : k \in Emitting}
      BY <1>2 DEF CountsAreApart
    <3>2. \A k \in Emitting : k = m \/ k \in Emitting'
      BY <1>3
    <3> QED
      BY <1>1, <1>6, <3>1, <3>2
  <2> QED
    BY <1>6, <2>1, <2>2, <2>3 DEF CountsAreApart
<1>10. done <= Through(nth)
  BY <1>2, FetchedInTurn
<1>11. held[m] <= Through(nth)
  <2>1. held[m] \in Int /\ done \in Int /\ Through(nth) \in Int
    <3>1. nth \in 0..Len(Sizes)
      BY StreamSizes DEF StreamTypeOK, Turns
    <3> QED
      BY <1>5, <3>1, ThroughAdds DEF StreamTypeOK
  <2> QED
    BY <1>5, <1>10, <2>1
<1> QED
  BY <1>2, <1>5, <1>6, <1>7, <1>8, <1>9, <1>11

(***************************************************************************)
(* StreamIInv holds at the start and after every step.                     *)
(***************************************************************************)
LEMMA StreamStep ==
  StreamIInv /\ [StreamNext]_streamVars => StreamIInv'
<1> SUFFICES ASSUME StreamIInv, [StreamNext]_streamVars PROVE StreamIInv'
  OBVIOUS
<1>1. CASE PlanFails
  <2>1. phase # "over" /\ Active = {} /\ Finish("error")
        /\ UNCHANGED <<nth, done, total, poolVars>>
    BY <1>1 DEF PlanFails, StreamIInv, PoolFits
  <2> QED
    BY <2>1, FinishStep
<1>2. CASE UNCHANGED streamVars
  <2>1. UNCHANGED <<phase, nth, done, total, spawned, member, held, failed, lines>>
    BY <1>2 DEF streamVars, poolVars
  <2>2. Active' = Active /\ Emitting' = Emitting /\ Counted' = Counted
        /\ BarCountsEveryProfile' /\ ProgressLines' = ProgressLines
        /\ CountsShown' = CountsShown
    BY <2>1, PoolKept, LinesKept DEF StreamIInv
  <2> QED
    BY <2>1, <2>2 DEF StreamIInv, StreamTypeOK, PoolFits, DoneAddsUp, CountsAreApart
<1> QED
  BY <1>1, <1>2, PlanGroupStep, AnnounceStep, HitStep, MissStep, SpawnStep, WaitStep,
     AdvanceStep, FetchStep, CountStep, EmitStep DEF StreamNext

THEOREM StreamInductive == StreamSpec => []StreamIInv
<1>1. StreamInit => StreamIInv
  <2> SUFFICES ASSUME StreamInit PROVE StreamIInv
    OBVIOUS
  <2>1. /\ phase = "plan" /\ nth = 1 /\ done = 0 /\ total = 0 /\ spawned = 0
        /\ failed = FALSE /\ lines = <<>> /\ Len(lines) = 0 /\ 1..Len(lines) = {}
        /\ member = [m \in Members |-> "idle"] /\ held = [m \in Members |-> 0]
    BY DEF StreamInit
  <2>2. Active = {} /\ Emitting = {} /\ ProgressLines = {} /\ CountsShown = {}
    BY <2>1 DEF Active, Emitting, ProgressLines, CountsShown
  <2>3. 0 \in 0..Through(Len(Sizes)) /\ 0 \in 0..Max(Members)
    BY MembersAre, ThroughAdds, StreamSizes
  <2>4. Cardinality(Active) <= Max({2, FetchConcurrency})
    BY <2>2, FS_EmptySet, LimitIs
  <2>5. StreamTypeOK
    <3>1. /\ member \in [Members -> {"idle", "fetch", "count", "emit", "done", "failed"}]
          /\ held \in [Members -> 0..Through(Len(Sizes))]
      BY <2>1, <2>3
    <3>2. lines \in Seq(StreamLines)
      BY <2>1
    <3>3. nth \in Turns /\ failed \in BOOLEAN /\ done \in 0..Through(Len(Sizes))
          /\ total \in {0, Through(Len(Sizes))} /\ spawned \in 0..Max(Members)
      BY <2>1, <2>3, StreamSizes
    <3> QED
      BY <2>1, <2>4, <3>1, <3>2, <3>3 DEF StreamTypeOK
  <2>6. PoolFits /\ DoneAddsUp /\ CountsAreApart /\ BarCountsEveryProfile
    BY <2>1, <2>2 DEF PoolFits, DoneAddsUp, CountsAreApart, BarCountsEveryProfile
  <2> QED
    BY <2>5, <2>6 DEF StreamIInv
<1> QED
  BY <1>1, StreamStep, PTL DEF StreamSpec

(***************************************************************************)
(* The variables keep their types: no line counts more than was planned,   *)
(* and no more goroutines fetch than -fetch-concurrency allows.            *)
(* (engine.go:39-50, 447-481)                                              *)
(***************************************************************************)
THEOREM StreamTypeCorrect == StreamSpec => []StreamTypeOK
<1>1. StreamIInv => StreamTypeOK
  BY DEF StreamIInv
<1> QED
  BY <1>1, StreamInductive, PTL

(***************************************************************************)
(* Whatever the order in which goroutines count and emit, no two lines     *)
(* show the same count, and a result comes after a full bar.               *)
(* (engine.go:39-50, handlers.go:201-206)                                  *)
(***************************************************************************)
THEOREM BarIsComplete == StreamSpec => []BarCountsEveryProfile
<1>1. StreamIInv => BarCountsEveryProfile
  BY DEF StreamIInv
<1> QED
  BY <1>1, StreamInductive, PTL

(***************************************************************************)
(* The lines of a group come while it is the turn of that group, and none  *)
(* comes after the final line.  (engine.go:319-334, handlers.go:201-206)   *)
(***************************************************************************)
THEOREM LinesAreInTurn == StreamSpec => LinesComeInTurn
<1> DEFINE InTurn ==
      /\ \A i \in {Len(lines')} \ {Len(lines)} :
           phase \in {"lookup", "fetch"} =>
             /\ lines'[i].done > Through(nth - 1) \/ lines'[i].type = "error"
             /\ lines'[i].done <= Through(nth)
      /\ (\E i \in 1..Len(lines) : lines[i].type # "progress") => UNCHANGED lines
<1>1. StreamIInv /\ [StreamNext]_streamVars => InTurn \/ UNCHANGED streamVars
  <2> SUFFICES ASSUME StreamIInv, StreamNext PROVE InTurn
    BY DEF streamVars
  <2>1. ASSUME NEW line \in StreamLines, Send(line), phase # "over",
               phase \in {"lookup", "fetch"} =>
                 /\ line.done > Through(nth - 1) \/ line.type = "error"
                 /\ line.done <= Through(nth)
        PROVE  InTurn
    <3>1. lines \in Seq(StreamLines)
      BY DEF StreamIInv, StreamTypeOK
    <3>2. Len(lines') = Len(lines) + 1 /\ lines'[Len(lines) + 1] = line
      BY <2>1, <3>1, Sent
    <3>3. ~ \E i \in 1..Len(lines) : lines[i].type # "progress"
      BY <2>1 DEF StreamIInv, CountsAreApart, ProgressLines
    <3> QED
      BY <2>1, <3>2, <3>3
  <2>2. CASE UNCHANGED lines
    BY <2>2
  <2>3. /\ done \in 0..Through(Len(Sizes)) /\ Through(Len(Sizes)) \in Nat
        /\ \A t \in {"progress", "result", "error"}, d \in 0..Through(Len(Sizes)) :
             [type |-> t, done |-> d] \in StreamLines
    BY ThroughAdds, StreamSizes DEF StreamIInv, StreamTypeOK, StreamLines
  <2>4. CASE PlanFails
    <3>1. phase = "plan" /\ Send([type |-> "error", done |-> done])
      BY <2>4 DEF PlanFails, Finish
    <3> QED
      BY <2>1, <2>3, <3>1
  <2>5. CASE Announce
    <3>1. phase = "announce" /\ Send([type |-> "progress", done |-> done])
      BY <2>5 DEF Announce, Progress
    <3> QED
      BY <2>1, <2>3, <3>1
  <2>6. CASE Hit
    <3>1. phase = "lookup" /\ Send([type |-> "progress", done |-> done'])
      BY <2>6 DEF Hit, Progress
    <3>2. StreamIInv' /\ done' > Through(nth - 1) /\ done' <= Through(nth)
      BY <2>6, HitStep
    <3>3. done' \in 0..Through(Len(Sizes))
      BY <3>2 DEF StreamIInv, StreamTypeOK
    <3> QED
      BY <2>1, <2>3, <3>1, <3>2, <3>3
  <2>7. CASE Advance
    <3>1. phase = "next" /\ (UNCHANGED lines \/ Send([type |-> "result", done |-> done]))
      BY <2>7 DEF Advance, Finish
    <3> QED
      BY <2>1, <2>2, <2>3, <3>1
  <2>8. CASE Wait
    <3>1. phase = "fetch" /\ (UNCHANGED lines \/ Send([type |-> "error", done |-> done]))
      BY <2>8 DEF Wait, Finish
    <3>2. done <= Through(nth)
      BY <3>1, FetchedInTurn
    <3> QED
      BY <2>1, <2>2, <2>3, <3>1, <3>2
  <2>9. ASSUME NEW m \in Members, Emit(m) PROVE InTurn
    <3>1. Send([type |-> "progress", done |-> held[m]]) /\ phase # "over"
      <4>1. m \in Active
        BY <2>9 DEF Emit, Active
      <4> QED
        BY <2>9, <4>1 DEF Emit, Progress, StreamIInv, PoolFits
    <3>2. held[m] > Through(nth - 1) /\ held[m] <= Through(nth)
      BY <2>9, EmitStep
    <3>3. held[m] \in 0..Through(Len(Sizes))
      BY DEF StreamIInv, StreamTypeOK
    <3> QED
      BY <2>1, <2>3, <3>1, <3>2, <3>3
  <2> QED
    BY <2>2, <2>4, <2>5, <2>6, <2>7, <2>8, <2>9
       DEF StreamNext, PlanGroup, Miss, Spawn, Fetch, FetchFails, Count
<1>2. StreamIInv /\ [StreamNext]_streamVars => [InTurn]_streamVars
  BY <1>1
<1> QED
  BY <1>2, StreamInductive, PTL DEF StreamSpec, LinesComeInTurn
==============================================================================
