------------------------------- MODULE SetLemmas -------------------------------
(***************************************************************************)
(* Lemmas about finite sets, sums over them, paths in forests and sums     *)
(* over their trees, for the proofs of the other modules.  Sums are those  *)
(* of the community modules: they take the elements in the order of a      *)
(* CHOOSE, which the lemmas show not to matter.                            *)
(***************************************************************************)
EXTENDS Integers, FiniteSetsExt, FiniteSetTheorems, TLAPS

-----------------------------------------------------------------------------
(* Finite sets *)
(* Induction on finite sets, for the sets in a family: a set is in it as   *)
(* soon as all its proper subsets are.                                     *)
LEMMA FiniteFamilyStrong ==
  ASSUME NEW S, IsFiniteSet(S), NEW F,
         \A T \in SUBSET S : (\A U \in SUBSET T : U # T => U \in F) => T \in F
  PROVE  S \in F
<1> DEFINE C == {T \in SUBSET S : T \notin F}
           R == StrictSubsetOrdering(S)
<1> SUFFICES ASSUME S \notin F PROVE FALSE
  OBVIOUS
<1>1. C # {} /\ C \subseteq FiniteSubsetsOf(S)
  BY FS_FiniteSubsetsOfFinite
<1>2. PICK m \in C : \A T \in C : ~(<<T, m>> \in R)
  <2> HIDE DEF C
  <2> QED
    BY <1>1, FS_StrictSubsetOrderingWellFounded, WFMin
<1>3. ASSUME NEW U \in SUBSET m, U # m PROVE U \in F
  <2>1. <<U, m>> \in R
    BY <1>2, <1>3 DEF StrictSubsetOrdering
  <2>2. U \notin C
    <3> HIDE DEF C, R
    <3> QED
      BY <1>2, <2>1
  <2> QED
    BY <2>2
<1> QED
  BY <1>2, <1>3

(* Induction on finite sets, adding one element at a time.                 *)
LEMMA FiniteFamily ==
  ASSUME NEW S, IsFiniteSet(S), NEW F, {} \in F,
         \A T \in SUBSET S : \A x \in S \ T : T \in F => T \cup {x} \in F
  PROVE  S \in F
<1>1. ASSUME NEW T \in SUBSET S, \A U \in SUBSET T : U # T => U \in F PROVE T \in F
  <2>1. CASE T = {}
    BY <2>1
  <2>2. CASE T # {}
    <3>1. PICK x \in T : TRUE
      BY <2>2
    <3>2. T \ {x} \in F
      BY <1>1, <3>1
    <3>3. x \in S \ (T \ {x}) /\ T \ {x} \in SUBSET S /\ (T \ {x}) \cup {x} = T
      BY <3>1
    <3> QED
      BY <3>2, <3>3
  <2> QED
    BY <2>1, <2>2
<1> QED
  BY <1>1, FiniteFamilyStrong

(* A set of naturals has a least element, which is its Min.                *)
LEMMA LeastOfNaturals ==
  ASSUME NEW S, S \subseteq Nat, S # {}
  PROVE  Min(S) \in S /\ \A x \in S : Min(S) <= x
<1>1. PICK m \in S : \A k \in S : ~(<<k, m>> \in OpToRel(<, Nat))
  BY NatLessThanWellFounded, WFMin
<1>2. \A k \in S : ~(k < m)
  BY <1>1 DEF OpToRel
<1>3. \A k \in S : m <= k
  <2> SUFFICES ASSUME NEW k \in S PROVE m <= k
    OBVIOUS
  <2>1. k \in Nat /\ m \in Nat
    OBVIOUS
  <2> QED
    BY <1>2, <2>1
<1> QED
  BY <1>1, <1>3 DEF Min

(* The greatest element of a finite set under a total transitive relation. *)
LEMMA Greatest ==
  ASSUME NEW S, IsFiniteSet(S), S # {}, NEW R,
         \A a, b \in S : a # b => <<a, b>> \in R \/ <<b, a>> \in R,
         \A a, b, c \in S : <<a, b>> \in R /\ <<b, c>> \in R => <<a, c>> \in R
  PROVE  \E g \in S : \A h \in S \ {g} : <<h, g>> \in R
<1> DEFINE Top(T) == \E g \in T : \A h \in T \ {g} : <<h, g>> \in R
           F == {T \in SUBSET S : T = {} \/ Top(T)}
<1>1. ASSUME NEW T \in SUBSET S, NEW x \in S \ T, T \in F
      PROVE  T \cup {x} \in F
  <2>1. CASE T = {}
    BY <2>1
  <2>2. CASE Top(T)
    <3>1. PICK g \in T : \A h \in T \ {g} : <<h, g>> \in R
      BY <2>2
    <3>2. CASE <<x, g>> \in R
      <4>1. \A h \in (T \cup {x}) \ {g} : <<h, g>> \in R
        BY <3>1, <3>2
      <4> QED
        BY <4>1
    <3>3. CASE <<g, x>> \in R
      <4>1. \A h \in (T \cup {x}) \ {x} : <<h, x>> \in R
        BY <3>1, <3>3
      <4> QED
        BY <4>1
    <3> QED
      BY <3>1, <3>2, <3>3
  <2> QED
    BY <1>1, <2>1, <2>2
<1>2. S \in F
  <2> HIDE DEF F
  <2>1. {} \in F
    BY DEF F
  <2> QED
    BY <1>1, <2>1, FiniteFamily
<1> QED
  BY <1>2

(* A finite set of naturals has a greatest element, which is its Max.      *)
LEMMA GreatestOfNaturals ==
  ASSUME NEW S, S \subseteq Nat, IsFiniteSet(S), S # {}
  PROVE  Max(S) \in S /\ \A x \in S : x <= Max(S)
<1> DEFINE R == {p \in Nat \X Nat : p[1] <= p[2]}
<1>1. \A a, b \in S : a # b => <<a, b>> \in R \/ <<b, a>> \in R
  OBVIOUS
<1>2. \A a, b, c \in S : <<a, b>> \in R /\ <<b, c>> \in R => <<a, c>> \in R
  OBVIOUS
<1>3. \A a, b \in S : <<a, b>> \in R <=> a <= b
  OBVIOUS
<1> HIDE DEF R
<1>4. PICK g \in S : \A h \in S \ {g} : <<h, g>> \in R
  BY <1>1, <1>2, Greatest
<1>5. \A h \in S : h <= g
  <2> SUFFICES ASSUME NEW h \in S PROVE h <= g
    OBVIOUS
  <2>1. h \in Nat /\ g \in Nat
    OBVIOUS
  <2>2. h = g \/ <<h, g>> \in R
    BY <1>4
  <2> QED
    BY <1>3, <2>1, <2>2
<1> QED
  BY <1>5 DEF Max

(* The image of a finite set is finite. *)
LEMMA FiniteImage ==
  ASSUME NEW S, IsFiniteSet(S), NEW f
  PROVE  IsFiniteSet({f[x] : x \in S})
<1> DEFINE T == {f[x] : x \in S}
           g == [x \in S |-> f[x]]
<1>1. g \in [S -> T] /\ \A y \in T : \E x \in S : g[x] = y
  OBVIOUS
<1>2. g \in Surjection(S, T)
  BY <1>1 DEF Surjection
<1> QED
  BY <1>2, FS_Surjection

-----------------------------------------------------------------------------
(* Sums                                                                    *)
(* The element that a sum over s takes first.                              *)
Pick(s) == CHOOSE x \in s : TRUE

(* g sums f over the subsets of S, in the order of SumFunctionOnSet.       *)
Summing(f, S, g) ==
  g = [s \in SUBSET S |-> IF s = {} THEN 0 ELSE f[Pick(s)] + g[s \ {Pick(s)}]]

LEMMA PickIn ==
  ASSUME NEW s, s # {}
  PROVE  Pick(s) \in s
BY DEF Pick

LEMMA SumIs ==
  ASSUME NEW f, NEW S
  PROVE  SumFunctionOnSet(f, S) = (CHOOSE g : Summing(f, S, g))[S]
BY DEF SumFunctionOnSet, FoldFunctionOnSet, MapThenFoldSet, Summing, Pick

LEMMA SummingIs ==
  ASSUME NEW f, NEW S, NEW g, Summing(f, S, g), NEW s \in SUBSET S
  PROVE  /\ s = {} => g[s] = 0
         /\ s # {} => g[s] = f[Pick(s)] + g[s \ {Pick(s)}]
<1>1. g = [t \in SUBSET S |-> IF t = {} THEN 0 ELSE f[Pick(t)] + g[t \ {Pick(t)}]]
  BY DEF Summing
<1> QED
  BY <1>1

(* Two such functions agree where both are defined.                        *)
LEMMA SummingAgree ==
  ASSUME NEW f, NEW S, NEW T, NEW g, NEW h, Summing(f, S, g), Summing(f, T, h),
         NEW s, s \subseteq S, s \subseteq T, IsFiniteSet(s)
  PROVE  g[s] = h[s]
<1> DEFINE F == {t \in SUBSET s : g[t] = h[t]}
<1>1. ASSUME NEW t \in SUBSET s, \A u \in SUBSET t : u # t => u \in F PROVE t \in F
  <2>1. CASE t = {}
    BY <2>1, SummingIs
  <2>2. CASE t # {}
    <3>1. Pick(t) \in t
      BY <2>2, PickIn
    <3>2. t \ {Pick(t)} \in F
      <4>1. t \ {Pick(t)} \in SUBSET t /\ t \ {Pick(t)} # t
        BY <3>1
      <4> QED
        BY <1>1, <4>1
    <3>3. g[t] = f[Pick(t)] + g[t \ {Pick(t)}]
      <4>1. t \in SUBSET S
        OBVIOUS
      <4> QED
        BY <2>2, <4>1, SummingIs
    <3>4. h[t] = f[Pick(t)] + h[t \ {Pick(t)}]
      <4>1. t \in SUBSET T
        OBVIOUS
      <4> QED
        BY <2>2, <4>1, SummingIs
    <3> QED
      BY <3>2, <3>3, <3>4
  <2> QED
    BY <2>1, <2>2
<1>2. s \in F
  <2> HIDE DEF F
  <2> QED
    BY <1>1, FiniteFamilyStrong
<1> QED
  BY <1>2

LEMMA SummingExists ==
  ASSUME NEW f, NEW S, IsFiniteSet(S)
  PROVE  \E g : Summing(f, S, g)
<1> DEFINE F == {T \in SUBSET S : \E g : Summing(f, T, g)}
<1>1. ASSUME NEW T \in SUBSET S, \A U \in SUBSET T : U # T => U \in F PROVE T \in F
  <2> DEFINE V(u) == (CHOOSE g : Summing(f, u, g))[u]
             G == [s \in SUBSET T |-> IF s = {} THEN 0 ELSE f[Pick(s)] + V(s \ {Pick(s)})]
  <2>1. ASSUME NEW u \in SUBSET T, u # T
        PROVE  /\ Summing(f, u, CHOOSE g : Summing(f, u, g))
               /\ IsFiniteSet(u)
    <3>1. \E g : Summing(f, u, g)
      BY <1>1, <2>1
    <3>2. IsFiniteSet(u)
      BY FS_Subset
    <3> QED
      BY <3>1, <3>2
  <2>2. ASSUME NEW s \in SUBSET T, s # T PROVE G[s] = V(s)
    <3> DEFINE h == CHOOSE g : Summing(f, s, g)
    <3>1. Summing(f, s, h)
      BY <2>1, <2>2
    <3>2. CASE s = {}
      BY <3>1, <3>2, SummingIs
    <3>3. CASE s # {}
      <4> DEFINE r == s \ {Pick(s)}
                 k == CHOOSE g : Summing(f, r, g)
      <4>1. r \in SUBSET T /\ r # T /\ r \subseteq s
        BY <2>2
      <4>2. Summing(f, r, k) /\ IsFiniteSet(r)
        BY <4>1, <2>1
      <4>3. h[r] = k[r]
        <5> HIDE DEF h, k, r
        <5> QED
          BY <3>1, <4>1, <4>2, SummingAgree
      <4>4. h[s] = f[Pick(s)] + h[r]
        <5> HIDE DEF h
        <5> QED
          BY <3>1, <3>3, SummingIs
      <4>5. G[s] = f[Pick(s)] + k[r]
        BY <3>3
      <4> QED
        BY <4>3, <4>4, <4>5
    <3> QED
      BY <3>2, <3>3
  <2>3. ASSUME NEW s \in SUBSET T, s # {} PROVE V(s \ {Pick(s)}) = G[s \ {Pick(s)}]
    <3>1. s \ {Pick(s)} \in SUBSET T /\ s \ {Pick(s)} # T
      BY <2>3, PickIn
    <3> HIDE DEF V, G
    <3> QED
      BY <2>2, <3>1
  <2>4. G = [s \in SUBSET T |-> IF s = {} THEN 0 ELSE f[Pick(s)] + G[s \ {Pick(s)}]]
    <3> HIDE DEF V
    <3>1. G = [s \in SUBSET T |-> IF s = {} THEN 0 ELSE f[Pick(s)] + V(s \ {Pick(s)})]
      OBVIOUS
    <3> HIDE DEF G
    <3> QED
      BY <2>3, <3>1
  <2>5. Summing(f, T, G)
    <3> HIDE DEF G
    <3> QED
      BY <2>4 DEF Summing
  <2> HIDE DEF G
  <2> QED
    BY <2>5
<1>2. S \in F
  <2> HIDE DEF F
  <2> QED
    BY <1>1, FiniteFamilyStrong
<1> QED
  BY <1>2

-----------------------------------------------------------------------------
LEMMA SumEmpty ==
  ASSUME NEW f
  PROVE  SumFunctionOnSet(f, {}) = 0
<1> DEFINE g == CHOOSE g : Summing(f, {}, g)
<1>1. Summing(f, {}, g)
  BY SummingExists, FS_EmptySet
<1>2. g[{}] = 0
  <2> HIDE DEF g
  <2> QED
    BY <1>1, SummingIs
<1> QED
  BY <1>2, SumIs

LEMMA SumFirst ==
  ASSUME NEW f, NEW S, IsFiniteSet(S), S # {}
  PROVE  SumFunctionOnSet(f, S) = f[Pick(S)] + SumFunctionOnSet(f, S \ {Pick(S)})
<1> DEFINE R == S \ {Pick(S)}
           g == CHOOSE g : Summing(f, S, g)
           h == CHOOSE h : Summing(f, R, h)
<1>1. IsFiniteSet(R) /\ R \subseteq S
  BY FS_Subset
<1>2. Summing(f, S, g)
  BY SummingExists
<1>3. Summing(f, R, h)
  BY SummingExists, <1>1
<1>4. g[R] = h[R]
  <2> HIDE DEF g, h, R
  <2> QED
    BY <1>1, <1>2, <1>3, SummingAgree
<1>5. g[S] = f[Pick(S)] + g[R]
  <2> HIDE DEF g
  <2> QED
    BY <1>2, SummingIs
<1>6. SumFunctionOnSet(f, S) = g[S] /\ SumFunctionOnSet(f, R) = h[R]
  BY SumIs
<1> QED
  BY <1>4, <1>5, <1>6

(* The sum of integers is one, and any element can be taken out first.     *)
LEMMA SumInt ==
  ASSUME NEW f, NEW S, IsFiniteSet(S), \A x \in S : f[x] \in Int
  PROVE  SumFunctionOnSet(f, S) \in Int
<1> DEFINE F == {T \in SUBSET S : SumFunctionOnSet(f, T) \in Int}
<1>1. ASSUME NEW T \in SUBSET S, \A U \in SUBSET T : U # T => U \in F PROVE T \in F
  <2>1. CASE T = {}
    BY <2>1, SumEmpty
  <2>2. CASE T # {}
    <3>1. Pick(T) \in T /\ IsFiniteSet(T)
      BY <2>2, PickIn, FS_Subset
    <3>2. SumFunctionOnSet(f, T \ {Pick(T)}) \in Int
      BY <1>1, <3>1
    <3>3. SumFunctionOnSet(f, T) = f[Pick(T)] + SumFunctionOnSet(f, T \ {Pick(T)})
      BY <2>2, <3>1, SumFirst
    <3>4. f[Pick(T)] \in Int
      BY <3>1
    <3> QED
      BY <3>2, <3>3, <3>4
  <2> QED
    BY <2>1, <2>2
<1>2. S \in F
  <2> HIDE DEF F
  <2> QED
    BY <1>1, FiniteFamilyStrong
<1> QED
  BY <1>2

LEMMA SumTake ==
  ASSUME NEW f, NEW S, IsFiniteSet(S), \A x \in S : f[x] \in Int, NEW y \in S
  PROVE  SumFunctionOnSet(f, S) = f[y] + SumFunctionOnSet(f, S \ {y})
<1> DEFINE Sum(T) == SumFunctionOnSet(f, T)
           F == {T \in SUBSET S : \A x \in T : Sum(T) = f[x] + Sum(T \ {x})}
<1>1. ASSUME NEW T \in SUBSET S, \A U \in SUBSET T : U # T => U \in F, NEW x \in T
      PROVE  Sum(T) = f[x] + Sum(T \ {x})
  <2> DEFINE c == Pick(T)
  <2>1. c \in T /\ IsFiniteSet(T)
    BY PickIn, FS_Subset
  <2>2. Sum(T) = f[c] + Sum(T \ {c})
    BY <2>1, SumFirst
  <2>3. CASE x = c
    BY <2>2, <2>3
  <2>4. CASE x # c
    <3> HIDE DEF c
    <3> DEFINE R == (T \ {c}) \ {x}
    <3>1. Sum(T \ {c}) = f[x] + Sum(R)
      BY <1>1, <2>1, <2>4
    <3>2. (T \ {x}) \ {c} = R
      OBVIOUS
    <3>3. Sum(T \ {x}) = f[c] + Sum((T \ {x}) \ {c})
      BY <1>1, <2>1, <2>4
    <3>4. Sum(R) \in Int
      <4>1. IsFiniteSet(R) /\ \A z \in R : f[z] \in Int
        BY <2>1, FS_Subset
      <4> HIDE DEF R
      <4> QED
        BY <4>1, SumInt
    <3>5. f[x] \in Int /\ f[c] \in Int
      BY <2>1
    <3>6. Sum(T \ {x}) = f[c] + Sum(R)
      BY <3>2, <3>3
    <3>7. Sum(T) = f[c] + (f[x] + Sum(R))
      BY <2>2, <3>1
    <3>8. f[c] + (f[x] + Sum(R)) = f[x] + (f[c] + Sum(R))
      <4> HIDE DEF R, Sum
      <4> QED
        BY <3>4, <3>5
    <3> HIDE DEF R, Sum
    <3> QED
      BY <3>6, <3>7, <3>8
  <2> QED
    BY <2>3, <2>4
<1>2. S \in F
  <2>1. \A T \in SUBSET S : (\A U \in SUBSET T : U # T => U \in F) => T \in F
    <3> TAKE T \in SUBSET S
    <3> HAVE \A U \in SUBSET T : U # T => U \in F
    <3>1. \A x \in T : Sum(T) = f[x] + Sum(T \ {x})
      <4> HIDE DEF F, Sum
      <4> QED
        BY <1>1
    <3> QED
      BY <3>1
  <2> HIDE DEF F
  <2> QED
    BY <2>1, FiniteFamilyStrong
<1> QED
  BY <1>2

LEMMA SumAdd ==
  ASSUME NEW f, NEW S, IsFiniteSet(S), NEW y, y \notin S,
         \A x \in S \cup {y} : f[x] \in Int
  PROVE  SumFunctionOnSet(f, S \cup {y}) = SumFunctionOnSet(f, S) + f[y]
<1>1. IsFiniteSet(S \cup {y})
  BY FS_AddElement
<1>2. (S \cup {y}) \ {y} = S
  OBVIOUS
<1>3. SumFunctionOnSet(f, S \cup {y}) = f[y] + SumFunctionOnSet(f, (S \cup {y}) \ {y})
  BY <1>1, SumTake
<1> DEFINE b == SumFunctionOnSet(f, S)
<1>4. b \in Int /\ f[y] \in Int
  BY SumInt
<1>5. SumFunctionOnSet(f, S \cup {y}) = f[y] + b
  BY <1>2, <1>3
<1> HIDE DEF b
<1>6. f[y] + b = b + f[y]
  BY <1>4
<1>7. SumFunctionOnSet(f, S \cup {y}) = b + f[y]
  BY <1>5, <1>6
<1> QED
  BY <1>7 DEF b

(* Sums of three functions of which the last adds the other two.           *)
LEMMA SumPlus ==
  ASSUME NEW S, IsFiniteSet(S), NEW f, NEW g, NEW h,
         \A x \in S : f[x] \in Int /\ g[x] \in Int /\ h[x] = f[x] + g[x]
  PROVE  SumFunctionOnSet(h, S) = SumFunctionOnSet(f, S) + SumFunctionOnSet(g, S)
<1> DEFINE Sf(T) == SumFunctionOnSet(f, T)
           Sg(T) == SumFunctionOnSet(g, T)
           Sh(T) == SumFunctionOnSet(h, T)
           F == {T \in SUBSET S : Sh(T) = Sf(T) + Sg(T)}
<1>1. {} \in F
  BY SumEmpty
<1>2. ASSUME NEW T \in SUBSET S, NEW x \in S \ T, T \in F PROVE T \cup {x} \in F
  <2>1. IsFiniteSet(T) /\ T \cup {x} \in SUBSET S
    BY FS_Subset
  <2>2. f[x] \in Int /\ g[x] \in Int /\ h[x] = f[x] + g[x] /\ h[x] \in Int
    OBVIOUS
  <2>3. \A z \in T \cup {x} : f[z] \in Int /\ g[z] \in Int /\ h[z] \in Int
    OBVIOUS
  <2>4. Sf(T \cup {x}) = Sf(T) + f[x] /\ Sg(T \cup {x}) = Sg(T) + g[x]
        /\ Sh(T \cup {x}) = Sh(T) + h[x]
    BY <2>1, <2>3, SumAdd
  <2>5. Sf(T) \in Int /\ Sg(T) \in Int
    BY <2>1, <2>3, SumInt
  <2>6. Sh(T) = Sf(T) + Sg(T)
    BY <1>2
  <2>7. Sh(T \cup {x}) = Sf(T \cup {x}) + Sg(T \cup {x})
    <3> HIDE DEF Sf, Sg, Sh
    <3> QED
      BY <2>2, <2>4, <2>5, <2>6
  <2> QED
    BY <2>1, <2>7
<1>3. S \in F
  <2> HIDE DEF F
  <2> QED
    BY <1>1, <1>2, FiniteFamily
<1> QED
  BY <1>3

LEMMA SumSame ==
  ASSUME NEW S, IsFiniteSet(S), NEW f, NEW g,
         \A x \in S : f[x] \in Int /\ g[x] = f[x]
  PROVE  SumFunctionOnSet(g, S) = SumFunctionOnSet(f, S)
<1> DEFINE Sf(T) == SumFunctionOnSet(f, T)
           Sg(T) == SumFunctionOnSet(g, T)
           F == {T \in SUBSET S : Sg(T) = Sf(T)}
<1>1. {} \in F
  BY SumEmpty
<1>2. ASSUME NEW T \in SUBSET S, NEW x \in S \ T, T \in F PROVE T \cup {x} \in F
  <2>1. IsFiniteSet(T) /\ T \cup {x} \in SUBSET S
    BY FS_Subset
  <2>2. \A z \in T \cup {x} : f[z] \in Int /\ g[z] \in Int
    OBVIOUS
  <2>3. Sf(T \cup {x}) = Sf(T) + f[x] /\ Sg(T \cup {x}) = Sg(T) + g[x]
    BY <2>1, <2>2, SumAdd
  <2>4. Sg(T) = Sf(T) /\ g[x] = f[x]
    BY <1>2
  <2>5. Sg(T \cup {x}) = Sf(T \cup {x})
    <3> HIDE DEF Sf, Sg
    <3> QED
      BY <2>3, <2>4
  <2> QED
    BY <2>1, <2>5
<1>3. S \in F
  <2> HIDE DEF F
  <2> QED
    BY <1>1, <1>2, FiniteFamily
<1> QED
  BY <1>3

(* Elements that count nothing can be left out.                            *)
LEMMA SumZeros ==
  ASSUME NEW S, IsFiniteSet(S), NEW T, T \subseteq S, NEW f,
         \A x \in T : f[x] \in Int, \A x \in S \ T : f[x] = 0
  PROVE  SumFunctionOnSet(f, S) = SumFunctionOnSet(f, T)
<1> DEFINE Sum(U) == SumFunctionOnSet(f, U)
           F == {U \in SUBSET (S \ T) : Sum(T \cup U) = Sum(T)}
<1>1. IsFiniteSet(T) /\ IsFiniteSet(S \ T) /\ Sum(T) \in Int
  BY FS_Subset, SumInt
<1>2. {} \in F
  <2>1. T \cup {} = T
    OBVIOUS
  <2> QED
    BY <2>1
<1>3. ASSUME NEW U \in SUBSET (S \ T), NEW x \in (S \ T) \ U, U \in F PROVE U \cup {x} \in F
  <2>1. IsFiniteSet(T \cup U) /\ x \notin T \cup U /\ T \cup (U \cup {x}) = (T \cup U) \cup {x}
    BY FS_Subset
  <2>2. \A z \in (T \cup U) \cup {x} : f[z] \in Int
    OBVIOUS
  <2>3. Sum((T \cup U) \cup {x}) = Sum(T \cup U) + f[x] /\ f[x] = 0
    BY <2>1, <2>2, SumAdd
  <2>4. Sum(T \cup U) = Sum(T)
    BY <1>3
  <2>5. Sum(T \cup (U \cup {x})) = Sum(T)
    <3>1. Sum(T \cup (U \cup {x})) = Sum(T) + 0
      <4> HIDE DEF Sum
      <4> QED
        BY <2>1, <2>3, <2>4
    <3> DEFINE b == Sum(T)
    <3>2. b \in Int
      BY <1>1
    <3> HIDE DEF b
    <3>3. b + 0 = b
      BY <3>2
    <3> QED
      BY <3>1, <3>3 DEF b
  <2> QED
    BY <2>5
<1>4. S \ T \in F
  <2> HIDE DEF F
  <2> QED
    BY <1>1, <1>2, <1>3, FiniteFamily
<1>5. T \cup (S \ T) = S
  OBVIOUS
<1> QED
  BY <1>4, <1>5

(* The sum of naturals is one, and more of them make no less.              *)
LEMMA SumNat ==
  ASSUME NEW f, NEW S, IsFiniteSet(S), \A x \in S : f[x] \in Nat
  PROVE  SumFunctionOnSet(f, S) \in Nat
<1> DEFINE Sum(T) == SumFunctionOnSet(f, T)
           F == {T \in SUBSET S : Sum(T) \in Nat}
<1>1. {} \in F
  BY SumEmpty
<1>2. ASSUME NEW T \in SUBSET S, NEW x \in S \ T, T \in F PROVE T \cup {x} \in F
  <2>1. IsFiniteSet(T) /\ T \cup {x} \in SUBSET S
    BY FS_Subset
  <2>2. f[x] \in Nat /\ \A z \in T \cup {x} : f[z] \in Int
    OBVIOUS
  <2>3. Sum(T \cup {x}) = Sum(T) + f[x]
    BY <2>1, <2>2, SumAdd
  <2>4. Sum(T) \in Nat
    BY <1>2
  <2>5. Sum(T \cup {x}) \in Nat
    <3> HIDE DEF Sum
    <3> QED
      BY <2>2, <2>3, <2>4
  <2> QED
    BY <2>1, <2>5
<1>3. S \in F
  <2> HIDE DEF F
  <2> QED
    BY <1>1, <1>2, FiniteFamily
<1> QED
  BY <1>3

LEMMA SumGrows ==
  ASSUME NEW f, NEW S, IsFiniteSet(S), \A x \in S : f[x] \in Nat, NEW T, T \subseteq S
  PROVE  SumFunctionOnSet(f, T) <= SumFunctionOnSet(f, S)
<1> DEFINE Sum(U) == SumFunctionOnSet(f, U)
           F == {U \in SUBSET (S \ T) : Sum(T) <= Sum(T \cup U)}
<1>1. IsFiniteSet(T) /\ IsFiniteSet(S \ T) /\ Sum(T) \in Nat
  BY FS_Subset, SumNat
<1>2. {} \in F
  <2>1. T \cup {} = T
    OBVIOUS
  <2>2. \A n \in Nat : n <= n
    OBVIOUS
  <2> QED
    BY <1>1, <2>1, <2>2
<1>3. ASSUME NEW U \in SUBSET (S \ T), NEW x \in (S \ T) \ U, U \in F PROVE U \cup {x} \in F
  <2>1. IsFiniteSet(T \cup U) /\ x \notin T \cup U /\ T \cup (U \cup {x}) = (T \cup U) \cup {x}
    BY FS_Subset
  <2>2. f[x] \in Nat /\ \A z \in (T \cup U) \cup {x} : f[z] \in Int
    OBVIOUS
  <2>3. Sum((T \cup U) \cup {x}) = Sum(T \cup U) + f[x]
    BY <2>1, <2>2, SumAdd
  <2>4. Sum(T) <= Sum(T \cup U)
    BY <1>3
  <2>5. Sum(T \cup U) \in Nat
    <3>1. \A z \in T \cup U : f[z] \in Nat
      OBVIOUS
    <3> QED
      BY <2>1, <3>1, SumNat
  <2>6. \A a, b, c \in Nat : a <= b => a <= b + c
    OBVIOUS
  <2>7. Sum(T) <= Sum(T \cup (U \cup {x}))
    <3> HIDE DEF Sum
    <3> QED
      BY <1>1, <2>1, <2>2, <2>3, <2>4, <2>5, <2>6
  <2> QED
    BY <2>7
<1>4. S \ T \in F
  <2> HIDE DEF F
  <2> QED
    BY <1>1, <1>2, <1>3, FiniteFamily
<1>5. T \cup (S \ T) = S
  BY DEF F
<1> QED
  BY <1>4, <1>5

(* The sum over two sets that share nothing. *)
LEMMA SumUnion ==
  ASSUME NEW f, NEW S, NEW T, IsFiniteSet(S), IsFiniteSet(T), S \cap T = {},
         \A x \in S \cup T : f[x] \in Int
  PROVE  SumFunctionOnSet(f, S \cup T) = SumFunctionOnSet(f, S) + SumFunctionOnSet(f, T)
<1> DEFINE Sum(U) == SumFunctionOnSet(f, U)
           F == {U \in SUBSET T : Sum(S \cup U) = Sum(S) + Sum(U)}
<1>1. Sum(S) \in Int
  BY SumInt
<1>2. {} \in F
  <2>1. S \cup {} = S /\ Sum({}) = 0
    BY SumEmpty
  <2>2. \A n \in Int : n = n + 0
    OBVIOUS
  <2>3. Sum(S \cup {}) = Sum(S) + Sum({})
    <3> HIDE DEF Sum
    <3> QED
      BY <1>1, <2>1, <2>2
  <2> QED
    BY <2>3
<1>3. ASSUME NEW U \in SUBSET T, NEW x \in T \ U, U \in F PROVE U \cup {x} \in F
  <2>1. IsFiniteSet(U) /\ IsFiniteSet(S \cup U)
    BY FS_Subset, FS_Union
  <2>2. x \notin S \cup U /\ S \cup (U \cup {x}) = (S \cup U) \cup {x}
    OBVIOUS
  <2>3. Sum((S \cup U) \cup {x}) = Sum(S \cup U) + f[x]
    BY <2>1, <2>2, SumAdd
  <2>4. Sum(U \cup {x}) = Sum(U) + f[x]
    BY <2>1, <2>2, SumAdd
  <2>5. Sum(S \cup U) = Sum(S) + Sum(U)
    BY <1>3
  <2>6. Sum(U) \in Int /\ f[x] \in Int
    BY <2>1, SumInt
  <2>7. \A a, b, c \in Int : (a + b) + c = a + (b + c)
    OBVIOUS
  <2>8. Sum(S \cup (U \cup {x})) = (Sum(S) + Sum(U)) + f[x]
    BY <2>2, <2>3, <2>5
  <2>9. Sum(S \cup (U \cup {x})) = Sum(S) + Sum(U \cup {x})
    <3> HIDE DEF Sum
    <3> QED
      BY <1>1, <2>4, <2>6, <2>7, <2>8
  <2> QED
    BY <2>9
<1>4. T \in F
  <2> HIDE DEF F
  <2> QED
    BY <1>2, <1>3, FiniteFamily
<1> QED
  BY <1>4

(* The sum of two functions' values, where one of them may have none. *)
LEMMA SumMerge ==
  ASSUME NEW f, NEW g, NEW h, IsFiniteSet(DOMAIN f), IsFiniteSet(DOMAIN g),
         \A x \in DOMAIN f : f[x] \in Int, \A x \in DOMAIN g : g[x] \in Int,
         DOMAIN h = DOMAIN f \cup DOMAIN g,
         \A x \in DOMAIN h : h[x] = (IF x \in DOMAIN f THEN f[x] ELSE 0)
                                    + (IF x \in DOMAIN g THEN g[x] ELSE 0)
  PROVE  SumFunction(h) = SumFunction(f) + SumFunction(g)
<1> DEFINE D == DOMAIN h
           ff == [x \in D |-> IF x \in DOMAIN f THEN f[x] ELSE 0]
           gg == [x \in D |-> IF x \in DOMAIN g THEN g[x] ELSE 0]
<1>1. IsFiniteSet(D)
  BY FS_Union
<1>2. \A x \in D : ff[x] \in Int /\ gg[x] \in Int /\ h[x] = ff[x] + gg[x]
  OBVIOUS
<1>3. SumFunctionOnSet(h, D) = SumFunctionOnSet(ff, D) + SumFunctionOnSet(gg, D)
  <2> HIDE DEF D, ff, gg
  <2> QED
    BY <1>1, <1>2, SumPlus
<1>4. SumFunctionOnSet(ff, D) = SumFunctionOnSet(f, DOMAIN f)
  <2>1. DOMAIN f \subseteq D /\ (\A x \in DOMAIN f : ff[x] \in Int /\ ff[x] = f[x])
        /\ \A x \in D \ DOMAIN f : ff[x] = 0
    OBVIOUS
  <2> HIDE DEF D, ff
  <2>2. SumFunctionOnSet(ff, D) = SumFunctionOnSet(ff, DOMAIN f)
    BY <1>1, <2>1, SumZeros
  <2>3. SumFunctionOnSet(ff, DOMAIN f) = SumFunctionOnSet(f, DOMAIN f)
    BY <2>1, SumSame
  <2> QED
    BY <2>2, <2>3
<1>5. SumFunctionOnSet(gg, D) = SumFunctionOnSet(g, DOMAIN g)
  <2>1. DOMAIN g \subseteq D /\ (\A x \in DOMAIN g : gg[x] \in Int /\ gg[x] = g[x])
        /\ \A x \in D \ DOMAIN g : gg[x] = 0
    OBVIOUS
  <2> HIDE DEF D, gg
  <2>2. SumFunctionOnSet(gg, D) = SumFunctionOnSet(gg, DOMAIN g)
    BY <1>1, <2>1, SumZeros
  <2>3. SumFunctionOnSet(gg, DOMAIN g) = SumFunctionOnSet(g, DOMAIN g)
    BY <2>1, SumSame
  <2> QED
    BY <2>2, <2>3
<1> QED
  BY <1>3, <1>4, <1>5 DEF SumFunction

(* The sum of a function with one more argument. *)
LEMMA SumExtend ==
  ASSUME NEW f, NEW g, NEW y, IsFiniteSet(DOMAIN f), y \notin DOMAIN f,
         DOMAIN g = DOMAIN f \cup {y}, \A x \in DOMAIN g : g[x] \in Int,
         \A x \in DOMAIN f : g[x] = f[x]
  PROVE  SumFunction(g) = SumFunction(f) + g[y]
<1> DEFINE D == DOMAIN f
<1>1. IsFiniteSet(D) /\ y \notin D /\ DOMAIN g = D \cup {y}
      /\ (\A x \in D : f[x] \in Int /\ g[x] = f[x]) /\ \A x \in D \cup {y} : g[x] \in Int
  OBVIOUS
<1> HIDE DEF D
<1>2. SumFunctionOnSet(g, D \cup {y}) = SumFunctionOnSet(g, D) + g[y]
  BY <1>1, SumAdd
<1>3. SumFunctionOnSet(g, D) = SumFunctionOnSet(f, D)
  BY <1>1, SumSame
<1> QED
  BY <1>1, <1>2, <1>3 DEF SumFunction, D

(* The sum of a sequence of integers with one more at its end. *)
LEMMA SumAppend ==
  ASSUME NEW n \in Nat, NEW f, NEW g, DOMAIN f = 1..n, DOMAIN g = 1..(n + 1),
         \A i \in 1..(n + 1) : g[i] \in Int, \A i \in 1..n : g[i] = f[i]
  PROVE  SumFunction(g) = SumFunction(f) + g[n + 1]
<1>1. 1 \in Int /\ n \in Int
  OBVIOUS
<1>2. IsFiniteSet(1..n)
  BY <1>1, FS_Interval
<1>3. n + 1 \notin 1..n /\ 1..(n + 1) = 1..n \cup {n + 1}
  OBVIOUS
<1>4. PICK y : y = n + 1
  OBVIOUS
<1>5. IsFiniteSet(DOMAIN f) /\ y \notin DOMAIN f /\ DOMAIN g = DOMAIN f \cup {y}
  BY <1>2, <1>3, <1>4
<1>6. \A x \in DOMAIN g : g[x] \in Int
  OBVIOUS
<1>7. \A x \in DOMAIN f : g[x] = f[x]
  OBVIOUS
<1>8. SumFunction(g) = SumFunction(f) + g[y]
  BY <1>5, <1>6, <1>7, SumExtend
<1> QED
  BY <1>4, <1>8

(* The sum of the values of a function of one argument. *)
LEMMA SumSingleton ==
  ASSUME NEW f, NEW y, f[y] \in Int
  PROVE  SumFunctionOnSet(f, {y}) = f[y]
<1>1. {} \cup {y} = {y} /\ y \notin {} /\ IsFiniteSet({})
  BY FS_EmptySet
<1>2. SumFunctionOnSet(f, {} \cup {y}) = SumFunctionOnSet(f, {}) + f[y]
  BY <1>1, SumAdd
<1>3. SumFunctionOnSet(f, {}) = 0
  BY SumEmpty
<1> QED
  BY <1>1, <1>2, <1>3

-----------------------------------------------------------------------------
(* Averages *)
LEMMA TimesMonotone ==
  ASSUME NEW a \in Int, NEW b \in Int, a <= b, NEW n \in Nat
  PROVE  a * n <= b * n
OBVIOUS

(* Terms between two bounds. *)
LEMMA SumBounds ==
  ASSUME NEW S, IsFiniteSet(S), NEW f, NEW m \in Int, \A x \in S : f[x] \in Int
  PROVE  /\ (\A x \in S : f[x] >= m) => SumFunctionOnSet(f, S) >= m * Cardinality(S)
         /\ (\A x \in S : f[x] <= m) => SumFunctionOnSet(f, S) <= m * Cardinality(S)
<1> DEFINE Sum(T) == SumFunctionOnSet(f, T)
           F == {T \in SUBSET S :
                   /\ (\A x \in S : f[x] >= m) => Sum(T) >= m * Cardinality(T)
                   /\ (\A x \in S : f[x] <= m) => Sum(T) <= m * Cardinality(T)}
<1>1. {} \in F
  <2>1. Sum({}) = 0 /\ Cardinality({}) = 0 /\ m * 0 = 0
    BY SumEmpty, FS_EmptySet
  <2> HIDE DEF Sum
  <2> QED
    BY <2>1
<1>2. ASSUME NEW T \in SUBSET S, NEW x \in S \ T, T \in F PROVE T \cup {x} \in F
  <2>1. IsFiniteSet(T)
    BY FS_Subset
  <2>2. Sum(T \cup {x}) = Sum(T) + f[x]
    BY <2>1, SumAdd
  <2>3. Sum(T) \in Int
    BY <2>1, SumInt
  <2>4. Cardinality(T) \in Nat /\ Cardinality(T \cup {x}) = Cardinality(T) + 1
    BY <2>1, FS_AddElement, FS_CardinalityType
  <2>5. m * (Cardinality(T) + 1) = m * Cardinality(T) + m /\ m * Cardinality(T) \in Int
    BY <2>4
  <2>6. /\ (\A y \in S : f[y] >= m) => Sum(T) >= m * Cardinality(T)
        /\ (\A y \in S : f[y] <= m) => Sum(T) <= m * Cardinality(T)
    BY <1>2
  <2>7. f[x] \in Int
    OBVIOUS
  <2> DEFINE p == m * Cardinality(T)
  <2>8. m * Cardinality(T \cup {x}) = p + m /\ p \in Int
    BY <2>4, <2>5
  <2> HIDE DEF Sum, p
  <2>9. /\ (\A y \in S : f[y] >= m) => Sum(T \cup {x}) >= m * Cardinality(T \cup {x})
        /\ (\A y \in S : f[y] <= m) => Sum(T \cup {x}) <= m * Cardinality(T \cup {x})
    BY <2>2, <2>3, <2>6, <2>7, <2>8 DEF p
  <2> QED
    BY <2>9
<1>3. S \in F
  <2> HIDE DEF F
  <2> QED
    BY <1>1, <1>2, FiniteFamily
<1> QED
  BY <1>3

(* An integer between what is chosen and what is not. *)
LEMMA Separator ==
  ASSUME NEW S, IsFiniteSet(S), NEW f, \A x \in S : f[x] \in Int,
         NEW K, K \subseteq S, K # S, \A k \in K, j \in S \ K : f[k] >= f[j]
  PROVE  \E m \in Int : /\ \A k \in K : f[k] >= m
                        /\ \A j \in S \ K : f[j] <= m
<1> DEFINE L == S \ K
           R == {p \in L \X L : f[p[1]] <= f[p[2]]}
<1>1. IsFiniteSet(L) /\ L # {}
  BY FS_Subset
<1>2. \A x \in L : f[x] \in Int
  OBVIOUS
<1>3. \A a, b \in L : <<a, b>> \in R <=> f[a] <= f[b]
  OBVIOUS
<1>4. (\A k \in K, j \in L : f[k] >= f[j]) /\ (\A k \in K : f[k] \in Int)
  OBVIOUS
<1> HIDE DEF L, R
<1>5. \A a, b \in L : a # b => <<a, b>> \in R \/ <<b, a>> \in R
  BY <1>2, <1>3
<1>6. \A a, b, c \in L : <<a, b>> \in R /\ <<b, c>> \in R => <<a, c>> \in R
  BY <1>2, <1>3
<1>7. PICK g \in L : \A h \in L \ {g} : <<h, g>> \in R
  BY <1>1, <1>5, <1>6, Greatest
<1>8. \A j \in L : f[j] <= f[g]
  <2> SUFFICES ASSUME NEW j \in L PROVE f[j] <= f[g]
    OBVIOUS
  <2>1. j = g \/ <<j, g>> \in R
    BY <1>7
  <2>2. f[j] \in Int /\ f[g] \in Int
    BY <1>2
  <2> QED
    BY <1>3, <2>1, <2>2
<1>9. f[g] \in Int
  BY <1>2
<1> QED
  BY <1>4, <1>8, <1>9 DEF L

(* What is chosen first has at least its part by number of the whole. *)
LEMMA TopAverage ==
  ASSUME NEW S, IsFiniteSet(S), NEW f, \A x \in S : f[x] \in Int,
         NEW K, K \subseteq S, \A k \in K, j \in S \ K : f[k] >= f[j]
  PROVE  SumFunctionOnSet(f, K) * Cardinality(S)
           >= SumFunctionOnSet(f, S) * Cardinality(K)
<1> DEFINE sk == SumFunctionOnSet(f, K)
           sl == SumFunctionOnSet(f, S \ K)
           ck == Cardinality(K)
           cl == Cardinality(S \ K)
<1>1. IsFiniteSet(K) /\ IsFiniteSet(S \ K)
  BY FS_Subset
<1>2. ck \in Nat /\ cl \in Nat /\ sk \in Int /\ sl \in Int
  BY <1>1, SumInt, FS_CardinalityType
<1>3. SumFunctionOnSet(f, S) = sk + sl
  <2>1. K \cup (S \ K) = S /\ K \cap (S \ K) = {}
    OBVIOUS
  <2> QED
    BY <1>1, <2>1, SumUnion
<1>4. Cardinality(S) = ck + cl
  <2>1. S \cap K = K
    OBVIOUS
  <2>2. cl = Cardinality(S) - Cardinality(S \cap K)
    BY FS_Difference
  <2>3. cl = Cardinality(S) - ck
    BY <2>1, <2>2
  <2>4. Cardinality(S) \in Nat
    BY FS_CardinalityType
  <2> HIDE DEF ck, cl
  <2> QED
    BY <1>2, <2>3, <2>4
<1>5. CASE K = S
  <2>1. SumFunctionOnSet(f, S) = sk /\ Cardinality(S) = ck
    BY <1>5
  <2> HIDE DEF sk, ck
  <2>2. sk * ck >= sk * ck
    BY <1>2
  <2> QED
    BY <2>1, <2>2 DEF sk, ck
<1>6. CASE K # S
  <2>1. PICK m \in Int : /\ \A k \in K : f[k] >= m
                         /\ \A j \in S \ K : f[j] <= m
    BY <1>6, Separator
  <2>2. sk >= m * ck
    BY <1>1, <2>1, SumBounds
  <2>3. sl <= m * cl
    BY <1>1, <2>1, SumBounds
  <2>4. (m * ck) * cl <= sk * cl
    <3>1. m * ck \in Int
      BY <1>2
    <3> HIDE DEF sk, ck, cl
    <3> QED
      BY <1>2, <2>2, <3>1, TimesMonotone
  <2>5. sl * ck <= (m * cl) * ck
    <3>1. m * cl \in Int
      BY <1>2
    <3> HIDE DEF sl, ck, cl
    <3> QED
      BY <1>2, <2>3, <3>1, TimesMonotone
  <2>6. (m * ck) * cl = (m * cl) * ck
    BY <1>2
  <2>7. sl * ck <= sk * cl
    <3>1. (m * ck) * cl \in Int /\ sl * ck \in Int /\ sk * cl \in Int
      BY <1>2
    <3> QED
      BY <2>4, <2>5, <2>6, <3>1
  <2>8. sk * (ck + cl) = sk * ck + sk * cl /\ (sk + sl) * ck = sk * ck + sl * ck
    BY <1>2
  <2>9. sk * ck \in Int /\ sk * cl \in Int /\ sl * ck \in Int
    BY <1>2
  <2>10. sk * (ck + cl) >= (sk + sl) * ck
    BY <2>7, <2>8, <2>9
  <2> QED
    BY <1>3, <1>4, <2>10
<1> QED
  BY <1>5, <1>6

-----------------------------------------------------------------------------
(* Forests                                                                 *)
(* par gives the parents of the members of D: of any of them one has none  *)
(* of the others for parent.                                               *)
IsForestOf(D, par) ==
  /\ par \in [D -> SUBSET D]
  /\ \A S \in SUBSET D : S # {} => \E n \in S : par[n] \cap S = {}

(* path gives each member with what is above it. *)
ArePaths(D, par, path) == path = [n \in D |-> {n} \cup UNION {path[m] : m \in par[n]}]

(* There are paths: what is in every set with n that has the parents of all *)
(* its members.                                                            *)
LEMMA PathsExist ==
  ASSUME NEW D, NEW par \in [D -> SUBSET D]
  PROVE  \E path : ArePaths(D, par, path)
<1> DEFINE Closed(S) == \A x \in S : par[x] \subseteq S
           P(n) == {x \in D : \A S \in SUBSET D : n \in S /\ Closed(S) => x \in S}
           path == [n \in D |-> P(n)]
<1>1. ASSUME NEW n \in D PROVE Closed(P(n)) /\ n \in P(n)
  <2>1. ASSUME NEW x \in P(n), NEW y \in par[x] PROVE y \in P(n)
    <3>1. x \in D /\ y \in D
      OBVIOUS
    <3>2. ASSUME NEW S \in SUBSET D, n \in S, Closed(S) PROVE y \in S
      <4>1. x \in S
        BY <3>2
      <4> QED
        BY <4>1, <3>2
    <3> QED
      BY <3>1, <3>2
  <2> QED
    BY <2>1
<1>2. ASSUME NEW n \in D PROVE P(n) = {n} \cup UNION {path[m] : m \in par[n]}
  <2> DEFINE R == {n} \cup UNION {path[m] : m \in par[n]}
  <2>1. \A m \in par[n] : m \in D /\ path[m] = P(m)
    OBVIOUS
  <2>2. R \in SUBSET D
    BY <2>1
  <2>3. ASSUME NEW x \in R PROVE par[x] \subseteq R
    <3>1. CASE x = n
      <4>1. \A m \in par[n] : m \in P(m)
        BY <1>1, <2>1
      <4> HIDE DEF P
      <4> QED
        BY <3>1, <4>1, <2>1
    <3>2. CASE x # n
      <4>1. PICK m \in par[n] : x \in path[m]
        BY <3>2
      <4>2. par[x] \subseteq P(m)
        BY <4>1, <2>1, <1>1
      <4> HIDE DEF P
      <4> QED
        BY <4>1, <4>2, <2>1
    <3> QED
      BY <3>1, <3>2
  <2>4. P(n) \subseteq R
    <3>1. Closed(R) /\ n \in R
      BY <2>3
    <3> HIDE DEF R
    <3> QED
      BY <3>1, <2>2
  <2>5. ASSUME NEW x \in R PROVE x \in P(n)
    <3>1. CASE x = n
      BY <3>1, <1>1
    <3>2. CASE x # n
      <4>1. PICK m \in par[n] : x \in P(m)
        BY <3>2, <2>1
      <4>2. m \in P(n)
        BY <4>1, <1>1
      <4>3. ASSUME NEW S \in SUBSET D, n \in S, Closed(S) PROVE x \in S
        BY <4>1, <4>2, <4>3
      <4> QED
        BY <4>1, <4>3, <2>1
    <3> QED
      BY <3>1, <3>2
  <2> HIDE DEF R, P
  <2> QED
    BY <2>4, <2>5 DEF R
<1>3. path = [n \in D |-> {n} \cup UNION {path[m] : m \in par[n]}]
  <2> HIDE DEF P
  <2> QED
    BY <1>2
<1> HIDE DEF path
<1> QED
  BY <1>3 DEF ArePaths

LEMMA PathIs ==
  ASSUME NEW D, NEW par \in [D -> SUBSET D], NEW path, ArePaths(D, par, path), NEW n \in D
  PROVE  /\ path[n] = {n} \cup UNION {path[m] : m \in par[n]}
         /\ n \in path[n]
         /\ \A m \in par[n] : path[m] \subseteq path[n] /\ m \in D
         /\ \A x \in path[n] : x = n \/ \E m \in par[n] : x \in path[m]
<1>1. path = [k \in D |-> {k} \cup UNION {path[m] : m \in par[k]}]
  BY DEF ArePaths
<1>2. path[n] = {n} \cup UNION {path[m] : m \in par[n]}
  BY <1>1
<1> QED
  BY <1>2

(* Induction on forests, from the roots down. *)
LEMMA ForestInduction ==
  ASSUME NEW D, NEW par, IsForestOf(D, par), NEW F,
         \A n \in D : par[n] \subseteq F => n \in F
  PROVE  D \subseteq F
<1> DEFINE S == {n \in D : n \notin F}
<1> SUFFICES ASSUME S # {} PROVE FALSE
  OBVIOUS
<1>1. PICK n \in S : par[n] \cap S = {}
  BY DEF IsForestOf
<1>2. par[n] \subseteq D
  BY DEF IsForestOf
<1> QED
  BY <1>1, <1>2

LEMMA PathInside ==
  ASSUME NEW D, NEW par, IsForestOf(D, par), NEW path, ArePaths(D, par, path), NEW n \in D
  PROVE  path[n] \subseteq D
<1> DEFINE F == {k \in D : path[k] \subseteq D}
<1>1. par \in [D -> SUBSET D]
  BY DEF IsForestOf
<1>2. ASSUME NEW k \in D, par[k] \subseteq F PROVE k \in F
  BY <1>1, <1>2, PathIs
<1>3. D \subseteq F
  <2> HIDE DEF F
  <2> QED
    BY <1>2, ForestInduction
<1> QED
  BY <1>3

(* What is above something on a path is on the path. *)
LEMMA PathsNest ==
  ASSUME NEW D, NEW par, IsForestOf(D, par), NEW path, ArePaths(D, par, path),
         NEW n \in D, NEW x \in path[n]
  PROVE  path[x] \subseteq path[n]
<1> DEFINE F == {k \in D : \A y \in path[k] : path[y] \subseteq path[k]}
<1>1. par \in [D -> SUBSET D]
  BY DEF IsForestOf
<1>2. ASSUME NEW k \in D, par[k] \subseteq F PROVE k \in F
  <2>1. ASSUME NEW y \in path[k] PROVE path[y] \subseteq path[k]
    <3>1. y = k \/ \E m \in par[k] : y \in path[m]
      BY <1>1, PathIs
    <3>2. ASSUME NEW m \in par[k], y \in path[m] PROVE path[y] \subseteq path[k]
      <4>1. path[y] \subseteq path[m]
        BY <1>2, <3>2
      <4>2. path[m] \subseteq path[k]
        BY <1>1, PathIs
      <4> QED
        BY <4>1, <4>2
    <3> QED
      BY <3>1, <3>2
  <2> QED
    BY <2>1
<1>3. D \subseteq F
  <2> HIDE DEF F
  <2> QED
    BY <1>2, ForestInduction
<1> QED
  BY <1>3

(* Nothing is above its parents. *)
LEMMA PathsEnd ==
  ASSUME NEW D, NEW par, IsForestOf(D, par), NEW path, ArePaths(D, par, path),
         NEW n \in D, NEW m \in par[n]
  PROVE  n \notin path[m]
<1> SUFFICES ASSUME n \in path[m] PROVE FALSE
  OBVIOUS
<1>1. par \in [D -> SUBSET D] /\ m \in D /\ path[m] \subseteq D
  BY PathInside DEF IsForestOf
<1> DEFINE S == {x \in path[m] : n \in path[x]}
<1>2. m \in S /\ S \in SUBSET D
  BY <1>1, PathIs
<1>3. PICK x \in S : par[x] \cap S = {}
  BY <1>2 DEF IsForestOf
<1>4. x \in D /\ x \in path[m] /\ n \in path[x] /\ path[x] \subseteq path[m]
  BY <1>1, PathsNest
<1>5. CASE x = n
  BY <1>2, <1>3, <1>5
<1>6. CASE x # n
  <2>1. PICK y \in par[x] : n \in path[y]
    BY <1>1, <1>4, <1>6, PathIs
  <2>2. y \in D /\ y \in path[y] /\ path[y] \subseteq path[x]
    BY <1>1, <1>4, PathIs
  <2>3. y \in S
    BY <1>4, <2>1, <2>2
  <2> QED
    BY <1>3, <2>1, <2>3
<1> QED
  BY <1>5, <1>6

(* What is on a path, but at its end, has a child on it. *)
LEMMA PathGoesOn ==
  ASSUME NEW D, NEW par, IsForestOf(D, par), NEW path, ArePaths(D, par, path),
         NEW n \in D, NEW x \in path[n], x # n
  PROVE  \E c \in path[n] : x \in par[c]
<1> DEFINE F == {k \in D : \A y \in path[k] \ {k} : \E c \in path[k] : y \in par[c]}
<1>1. par \in [D -> SUBSET D]
  BY DEF IsForestOf
<1>2. ASSUME NEW k \in D, par[k] \subseteq F PROVE k \in F
  <2>1. ASSUME NEW y \in path[k] \ {k} PROVE \E c \in path[k] : y \in par[c]
    <3>1. PICK m \in par[k] : y \in path[m]
      BY <1>1, PathIs
    <3>2. k \in path[k] /\ path[m] \subseteq path[k]
      BY <1>1, PathIs
    <3>3. CASE y = m
      BY <3>2, <3>3
    <3>4. CASE y # m
      BY <3>1, <3>2, <3>4, <1>2
    <3> QED
      BY <3>3, <3>4
  <2> QED
    BY <2>1
<1>3. D \subseteq F
  <2> HIDE DEF F
  <2> QED
    BY <1>2, ForestInduction
<1> QED
  BY <1>3

(* Every path has a root. *)
LEMMA PathHasRoot ==
  ASSUME NEW D, NEW par, IsForestOf(D, par), NEW path, ArePaths(D, par, path), NEW n \in D
  PROVE  \E r \in path[n] : par[r] = {}
<1>1. par \in [D -> SUBSET D] /\ path[n] \in SUBSET D /\ n \in path[n]
  BY PathInside, PathIs DEF IsForestOf
<1>2. PICK r \in path[n] : par[r] \cap path[n] = {}
  BY <1>1 DEF IsForestOf
<1>3. \A m \in par[r] : m \in path[r] /\ path[r] \subseteq path[n]
  <2>1. r \in D /\ path[r] \subseteq path[n]
    BY <1>1, PathsNest
  <2>2. \A m \in par[r] : m \in D /\ path[m] \subseteq path[r]
    BY <1>1, <2>1, PathIs
  <2>3. \A m \in par[r] : m \in path[m]
    BY <1>1, <2>2, PathIs
  <2> QED
    BY <2>1, <2>2, <2>3
<1> QED
  BY <1>2, <1>3

(* With one parent at most, of two on a path one is above the other. *)
LEMMA PathIsLine ==
  ASSUME NEW D, NEW par, IsForestOf(D, par), NEW path, ArePaths(D, par, path),
         \A k \in D : \A a, b \in par[k] : a = b,
         NEW n \in D, NEW x \in path[n], NEW y \in path[n]
  PROVE  x \in path[y] \/ y \in path[x]
<1> DEFINE F == {k \in D : \A a, b \in path[k] : a \in path[b] \/ b \in path[a]}
<1>1. par \in [D -> SUBSET D]
  BY DEF IsForestOf
<1>2. ASSUME NEW k \in D, par[k] \subseteq F PROVE k \in F
  <2>1. ASSUME NEW a \in path[k], NEW b \in path[k] PROVE a \in path[b] \/ b \in path[a]
    <3>1. CASE a = k \/ b = k
      BY <3>1
    <3>2. CASE a # k /\ b # k
      <4>1. PICK m \in par[k] : a \in path[m]
        BY <1>1, <3>2, PathIs
      <4>2. PICK q \in par[k] : b \in path[q]
        BY <1>1, <3>2, PathIs
      <4>3. q = m /\ m \in F
        BY <1>2
      <4> QED
        BY <4>1, <4>2, <4>3
    <3> QED
      BY <3>1, <3>2
  <2> QED
    BY <2>1
<1>3. D \subseteq F
  <2> HIDE DEF F
  <2> QED
    BY <1>2, ForestInduction
<1> QED
  BY <1>3

-----------------------------------------------------------------------------
(* Sums of sums *)
(* The members of S that belong to k. *)
Fibre(S, key, k) == {x \in S : key[x] = k}

SumsBy(g, K, f, S, key) == \A k \in K : g[k] = SumFunctionOnSet(f, Fibre(S, key, k))

(* What one more member adds to the sums by key. *)
LEMMA SumOfFibresMore ==
  ASSUME NEW T, IsFiniteSet(T), NEW y, y \notin T, NEW f,
         NEW U, U = T \cup {y}, \A x \in U : f[x] \in Int,
         NEW key, NEW K, IsFiniteSet(K), key[y] \in K,
         NEW g, SumsBy(g, K, f, T, key), NEW h, SumsBy(h, K, f, U, key)
  PROVE  SumFunctionOnSet(h, K) = SumFunctionOnSet(g, K) + f[y]
<1> USE DEF SumsBy
<1> DEFINE one == [k \in K |-> IF k = key[y] THEN f[y] ELSE 0]
<1>1. ASSUME NEW k \in K PROVE g[k] \in Int /\ one[k] \in Int /\ h[k] = g[k] + one[k]
  <2>1. IsFiniteSet(Fibre(T, key, k)) /\ \A x \in Fibre(T, key, k) : f[x] \in Int
    BY FS_Subset DEF Fibre
  <2>2. g[k] \in Int
    BY <2>1, SumInt
  <2>3. CASE k = key[y]
    <3>1. Fibre(T \cup {y}, key, k) = Fibre(T, key, k) \cup {y} /\ y \notin Fibre(T, key, k)
      BY <2>3 DEF Fibre
    <3>2. \A x \in Fibre(T, key, k) \cup {y} : f[x] \in Int
      BY <2>1
    <3>3. PICK P : P = Fibre(T, key, k)
      OBVIOUS
    <3>4. IsFiniteSet(P) /\ y \notin P /\ \A x \in P \cup {y} : f[x] \in Int
      BY <2>1, <3>1, <3>2, <3>3
    <3>5. SumFunctionOnSet(f, P \cup {y}) = SumFunctionOnSet(f, P) + f[y]
      BY <3>4, SumAdd
    <3>6. h[k] = g[k] + f[y]
      BY <3>1, <3>3, <3>5
    <3> QED
      BY <2>2, <2>3, <3>6
  <2>4. CASE k # key[y]
    <3>1. Fibre(T \cup {y}, key, k) = Fibre(T, key, k)
      BY <2>4 DEF Fibre
    <3> QED
      BY <2>2, <2>4, <3>1
  <2> QED
    BY <2>3, <2>4
<1>2. one[key[y]] = f[y] /\ \A k \in K \ {key[y]} : one[k] = 0
  OBVIOUS
<1> HIDE DEF one
<1>3. SumFunctionOnSet(h, K) = SumFunctionOnSet(g, K) + SumFunctionOnSet(one, K)
  BY <1>1, SumPlus
<1>4. SumFunctionOnSet(one, K) = SumFunctionOnSet(one, {key[y]})
  <2>1. {key[y]} \subseteq K /\ (\A x \in {key[y]} : one[x] \in Int)
        /\ \A x \in K \ {key[y]} : one[x] = 0
    BY <1>1, <1>2
  <2> QED
    BY <2>1, SumZeros
<1>5. SumFunctionOnSet(one, {key[y]}) = one[key[y]]
  BY <1>1, SumSingleton
<1> QED
  BY <1>2, <1>3, <1>4, <1>5

(* A sum by keys, of the sums of what belongs to each. *)
LEMMA SumOfFibres ==
  ASSUME NEW S, IsFiniteSet(S), NEW f, \A x \in S : f[x] \in Int,
         NEW key, NEW K, IsFiniteSet(K), \A x \in S : key[x] \in K, NEW g, SumsBy(g, K, f, S, key)
  PROVE  SumFunctionOnSet(g, K) = SumFunctionOnSet(f, S)
<1> DEFINE by(T) == [k \in K |-> SumFunctionOnSet(f, Fibre(T, key, k))]
           F == {T \in SUBSET S : SumFunctionOnSet(by(T), K) = SumFunctionOnSet(f, T)}
<1>1. {} \in F
  <2>1. \A k \in K : by({})[k] = 0
    <3>1. \A k \in K : Fibre({}, key, k) = {}
      BY DEF Fibre
    <3> QED
      BY <3>1, SumEmpty
  <2> DEFINE b == by({})
  <2>2. \A k \in K : b[k] = 0
    BY <2>1
  <2> HIDE DEF b
  <2>3. SumFunctionOnSet(b, K) = SumFunctionOnSet(b, {})
    BY <2>2, SumZeros
  <2> QED
    BY <2>3, SumEmpty DEF b
<1>2. ASSUME NEW T \in SUBSET S, NEW y \in S \ T, T \in F
      PROVE  T \cup {y} \in F
  <2> DEFINE b == by(T)
             h == by(T \cup {y})
  <2>1. SumsBy(b, K, f, T, key) /\ SumsBy(h, K, f, T \cup {y}, key)
    BY DEF SumsBy
  <2>2. IsFiniteSet(T) /\ y \notin T /\ key[y] \in K /\ \A x \in T \cup {y} : f[x] \in Int
    BY FS_Subset
  <2>3. SumFunctionOnSet(b, K) = SumFunctionOnSet(f, T)
    BY <1>2
  <2> HIDE DEF b, h, F
  <2>4. SumFunctionOnSet(h, K) = SumFunctionOnSet(b, K) + f[y]
    <3>1. PICK U : U = T \cup {y}
      OBVIOUS
    <3>2. IsFiniteSet(T) /\ IsFiniteSet(K) /\ y \notin T /\ key[y] \in K /\ U = T \cup {y}
          /\ (\A x \in U : f[x] \in Int) /\ SumsBy(b, K, f, T, key) /\ SumsBy(h, K, f, U, key)
      BY <2>1, <2>2, <3>1
    <3> QED
      BY <3>2, SumOfFibresMore
  <2>5. SumFunctionOnSet(f, T \cup {y}) = SumFunctionOnSet(f, T) + f[y]
    BY <2>2, SumAdd
  <2> QED
    BY <2>3, <2>4, <2>5 DEF h, F
<1> HIDE DEF F
<1>3. S \in F
  BY <1>1, <1>2, FiniteFamily
<1> DEFINE b == by(S)
<1>4. (\A k \in K : b[k] = g[k]) /\ SumFunctionOnSet(b, K) = SumFunctionOnSet(f, S)
  BY <1>3 DEF F, SumsBy
<1>5. \A k \in K : g[k] \in Int
  <2>1. ASSUME NEW k \in K PROVE g[k] \in Int
    <3>1. Fibre(S, key, k) \subseteq S
      BY DEF Fibre
    <3>2. IsFiniteSet(Fibre(S, key, k)) /\ \A x \in Fibre(S, key, k) : f[x] \in Int
      BY <3>1, FS_Subset
    <3> QED
      BY <3>2, SumInt DEF SumsBy
  <2> QED
    BY <2>1
<1> HIDE DEF b
<1>6. SumFunctionOnSet(b, K) = SumFunctionOnSet(g, K)
  BY <1>4, <1>5, SumSame
<1> QED
  BY <1>4, <1>6

(* And by some of the keys. *)
LEMMA SumOfSomeFibres ==
  ASSUME NEW S, IsFiniteSet(S), NEW f, \A x \in S : f[x] \in Int,
         NEW key, NEW K, IsFiniteSet(K), NEW g, SumsBy(g, K, f, S, key),
         NEW T, T = {x \in S : key[x] \in K}
  PROVE  SumFunctionOnSet(g, K) = SumFunctionOnSet(f, T)
<1>1. IsFiniteSet(T) /\ (\A x \in T : f[x] \in Int) /\ \A x \in T : key[x] \in K
  BY FS_Subset
<1>2. \A k \in K : Fibre(T, key, k) = Fibre(S, key, k)
  BY DEF Fibre
<1>3. SumsBy(g, K, f, T, key)
  BY <1>2 DEF SumsBy
<1> QED
  BY <1>1, <1>3, SumOfFibres

(* A sum of the same numbers under other names. *)
LEMMA SumRenamed ==
  ASSUME NEW S, IsFiniteSet(S), NEW f, \A x \in S : f[x] \in Int,
         NEW h, \A x, y \in S : h[x] = h[y] => x = y,
         NEW K, K = {h[x] : x \in S}, NEW g, \A x \in S : g[h[x]] = f[x]
  PROVE  SumFunctionOnSet(g, K) = SumFunctionOnSet(f, S)
<1>1. IsFiniteSet(K) /\ \A x \in S : h[x] \in K
  BY FiniteImage
<1>2. ASSUME NEW k \in K PROVE g[k] = SumFunctionOnSet(f, Fibre(S, h, k))
  <2>1. PICK x \in S : k = h[x]
    OBVIOUS
  <2>2. Fibre(S, h, k) = {x}
    BY <2>1 DEF Fibre
  <2> QED
    <3>1. SumFunctionOnSet(f, {x}) = f[x]
      BY SumSingleton
    <3> QED
      BY <2>1, <2>2, <3>1
<1>3. SumsBy(g, K, f, S, h)
  BY <1>2 DEF SumsBy
<1> QED
  BY <1>1, <1>3, SumOfFibres

-----------------------------------------------------------------------------
(* Sums over trees                                                         *)
(* A finite forest where everything has one parent at most.                *)
IsTrees(D, par, path) ==
  /\ IsFiniteSet(D) /\ par \in [D -> SUBSET D] /\ IsForestOf(D, par)
  /\ ArePaths(D, par, path) /\ \A k \in D : \A a, b \in par[k] : a = b

(* What is below n, or below some of K, each being below itself. *)
Below(D, path, n) == {d \in D : n \in path[d]}
Under(D, path, K) == {d \in D : path[d] \cap K # {}}

(* Members of which none is below another, and children of such. *)
Apart(path, K) == \A c \in K : path[c] \cap K = {c}
ChildrenOf(D, par, N) == {c \in D : par[c] \cap N # {}}

SumsBelow(g, f, D, path, K) ==
  \A c \in K : g[c] = SumFunctionOnSet(f, Below(D, path, c))

(* Sums over what is below each of them are one over what is below any. *)
LEMMA SumsUnder ==
  ASSUME NEW D, NEW par, NEW path, IsTrees(D, par, path), NEW K, K \subseteq D, Apart(path, K),
         NEW f, \A x \in D : f[x] \in Int, NEW g, SumsBelow(g, f, D, path, K)
  PROVE  SumFunctionOnSet(g, K) = SumFunctionOnSet(f, Under(D, path, K))
<1> DEFINE U == Under(D, path, K)
           own == [d \in U |-> CHOOSE c \in K : c \in path[d]]
<1>0. IsFiniteSet(D) /\ par \in [D -> SUBSET D] /\ IsForestOf(D, par)
      /\ ArePaths(D, par, path) /\ \A k \in D : \A a, b \in par[k] : a = b
  BY DEF IsTrees
<1>1. IsFiniteSet(U) /\ IsFiniteSet(K) /\ U \subseteq D
  BY <1>0, FS_Subset DEF Under
<1>2. ASSUME NEW d \in U PROVE own[d] \in K /\ own[d] \in path[d]
  BY DEF Under
<1>3. ASSUME NEW d \in D, NEW c \in K, NEW e \in K, c \in path[d], e \in path[d] PROVE c = e
  <2>1. c \in path[e] \/ e \in path[c]
    BY <1>0, <1>3, PathIsLine
  <2>2. path[c] \cap K = {c} /\ path[e] \cap K = {e}
    BY DEF Apart
  <2> QED
    BY <2>1, <2>2
<1>4. ASSUME NEW c \in K PROVE Below(D, path, c) = Fibre(U, own, c)
  <2> HIDE DEF own
  <2>1. ASSUME NEW d PROVE d \in Below(D, path, c) <=> d \in Fibre(U, own, c)
    <3>1. ASSUME d \in D, c \in path[d] PROVE d \in U /\ own[d] = c
      <4>1. d \in U
        BY <3>1 DEF Under
      <4>2. own[d] \in K /\ own[d] \in path[d]
        BY <1>2, <4>1
      <4> QED
        BY <1>3, <3>1, <4>1, <4>2
    <3>2. ASSUME d \in U, own[d] = c PROVE d \in D /\ c \in path[d]
      BY <1>1, <1>2, <3>2
    <3> QED
      BY <3>1, <3>2 DEF Below, Fibre
  <2> QED
    BY <2>1
<1> HIDE DEF own
<1>5. SumsBy(g, K, f, U, own)
  BY <1>4 DEF SumsBy, SumsBelow
<1> HIDE DEF U
<1>6. \A x \in U : f[x] \in Int /\ own[x] \in K
  BY <1>1, <1>2
<1> QED
  BY <1>1, <1>5, <1>6, SumOfFibres DEF U

(* What is below some is they themselves and what is below their children. *)
AreChildren(D, par, path, N, C) ==
  IsTrees(D, par, path) /\ N \subseteq D /\ Apart(path, N) /\ C = ChildrenOf(D, par, N)

ChildrenUnder(D, path, N, C) ==
  /\ C \subseteq D /\ Apart(path, C) /\ N \subseteq Under(D, path, N)
  /\ Under(D, path, C) = Under(D, path, N) \ N

LEMMA UnderChildren ==
  ASSUME NEW D, NEW par, NEW path, NEW N, NEW C, AreChildren(D, par, path, N, C)
  PROVE  ChildrenUnder(D, path, N, C)
<1>a. IsTrees(D, par, path) /\ N \subseteq D /\ Apart(path, N) /\ C = ChildrenOf(D, par, N)
  BY DEF AreChildren
<1>0. IsFiniteSet(D) /\ par \in [D -> SUBSET D] /\ IsForestOf(D, par)
      /\ ArePaths(D, par, path) /\ \A k \in D : \A a, b \in par[k] : a = b
  BY <1>a DEF IsTrees
<1>1. \A c \in C : c \in D /\ \E m \in N : m \in par[c]
  BY <1>a DEF ChildrenOf
<1>2. \A n \in D : n \in path[n]
  BY <1>0, PathIs
<1>3. ASSUME NEW c \in C, NEW m \in N, m \in par[c] PROVE path[c] \cap N = {m} /\ c \notin N
  <2>1. path[c] = {c} \cup UNION {path[o] : o \in par[c]}
    BY <1>0, <1>1, PathIs
  <2>2. par[c] = {m}
    BY <1>0, <1>1, <1>3
  <2>3. path[c] = {c} \cup path[m]
    BY <2>1, <2>2
  <2>4. c \notin path[m]
    BY <1>0, <1>1, <1>3, PathsEnd
  <2>5. path[m] \cap N = {m}
    BY <1>a DEF Apart
  <2>6. c \notin N
    <3> SUFFICES ASSUME c \in N PROVE FALSE
      OBVIOUS
    <3>1. path[c] \cap N = {c}
      BY <1>a DEF Apart
    <3>2. m \in path[c]
      BY <2>3, <2>5
    <3>3. m = c
      BY <3>1, <3>2
    <3>4. m \in path[m]
      BY <1>a, <1>2
    <3> QED
      BY <2>4, <3>3, <3>4
  <2> QED
    BY <2>3, <2>5, <2>6
<1>4. ASSUME NEW c \in C PROVE path[c] \cap C = {c}
  <2>1. PICK m \in N : m \in par[c]
    BY <1>1
  <2>2. path[c] = {c} \cup path[m]
    <3>1. path[c] = {c} \cup UNION {path[o] : o \in par[c]}
      BY <1>0, <1>1, PathIs
    <3>2. par[c] = {m}
      BY <1>0, <1>1, <2>1
    <3> QED
      BY <3>1, <3>2
  <2>3. ASSUME NEW e \in C, e \in path[m] PROVE FALSE
    <3>1. PICK o \in N : o \in par[e]
      BY <1>1
    <3>2. o \in path[e] /\ path[e] \subseteq path[m]
      <4>1. e \in D /\ m \in D
        BY <1>a, <1>1
      <4>2. path[o] \subseteq path[e] /\ o \in path[o]
        BY <1>0, <1>2, <3>1, <4>1, PathIs
      <4>3. path[e] \subseteq path[m]
        BY <1>0, <2>3, <4>1, PathsNest
      <4> QED
        BY <4>2, <4>3
    <3>3. o = m
      <4>1. path[m] \cap N = {m}
        BY <1>a DEF Apart
      <4> QED
        BY <3>2, <4>1
    <3>4. e \notin path[o]
      BY <1>0, <1>1, <3>1, PathsEnd
    <3> QED
      BY <2>3, <3>3, <3>4
  <2> QED
    BY <2>2, <2>3
<1>5. N \subseteq Under(D, path, N)
  BY <1>a, <1>2 DEF Under
<1>6. ASSUME NEW d \in D PROVE path[d] \cap C # {} <=> path[d] \cap N # {} /\ d \notin N
  <2>1. ASSUME NEW c \in C, c \in path[d] PROVE path[d] \cap N # {} /\ d \notin N
    <3>1. PICK m \in N : m \in par[c]
      BY <1>1
    <3>2. path[c] \subseteq path[d]
      BY <1>0, <2>1, PathsNest
    <3>3. m \in path[d]
      <4>1. path[c] \cap N = {m}
        BY <1>3, <3>1
      <4> QED
        BY <3>2, <4>1
    <3>4. d \notin N
      <4> SUFFICES ASSUME d \in N PROVE FALSE
        OBVIOUS
      <4>1. path[d] \cap N = {d}
        BY <1>a DEF Apart
      <4>2. d = m
        BY <3>3, <4>1
      <4>3. c \notin path[m]
        BY <1>0, <1>1, <3>1, PathsEnd
      <4> QED
        BY <2>1, <4>2, <4>3
    <3> QED
      BY <3>3, <3>4
  <2>2. ASSUME NEW n \in N, n \in path[d], d \notin N PROVE path[d] \cap C # {}
    <3>1. PICK c \in path[d] : n \in par[c]
      BY <1>0, <2>2, PathGoesOn
    <3>2. c \in D
      BY <1>0, <3>1, PathInside
    <3> QED
      BY <1>a, <3>1, <3>2 DEF ChildrenOf
  <2> QED
    BY <2>1, <2>2
<1>7. Under(D, path, C) = Under(D, path, N) \ N
  BY <1>6 DEF Under
<1> QED
  BY <1>1, <1>4, <1>5, <1>7 DEF Apart, ChildrenUnder

(* Of any members one has none of the others for a child. *)
LEMMA ForestLeaf ==
  ASSUME NEW D, NEW par, IsForestOf(D, par), NEW S, S \subseteq D, IsFiniteSet(S), S # {}
  PROVE  \E n \in S : \A m \in S : n \notin par[m]
<1> DEFINE Leaf(T) == \E n \in T : \A m \in T : n \notin par[m]
           F == {T \in SUBSET S : T = {} \/ Leaf(T)}
<1>1. ASSUME NEW T \in SUBSET S, \A U \in SUBSET T : U # T => U \in F PROVE T \in F
  <2>1. CASE T = {}
    BY <2>1
  <2>2. CASE T # {}
    <3>1. PICK r \in T : par[r] \cap T = {}
      BY <2>2 DEF IsForestOf
    <3>2. T \ {r} \in SUBSET T /\ T \ {r} # T
      OBVIOUS
    <3>3. CASE T = {r}
      BY <3>1, <3>3
    <3>4. CASE T # {r}
      <4>1. Leaf(T \ {r})
        <5>1. T \ {r} \in F
          BY <1>1, <3>2
        <5> QED
          BY <3>4, <5>1
      <4>2. PICK n \in T \ {r} : \A m \in T \ {r} : n \notin par[m]
        BY <4>1
      <4>3. n \notin par[r]
        BY <3>1
      <4>4. Leaf(T)
        BY <4>2, <4>3
      <4> QED
        BY <4>4
    <3> QED
      BY <3>3, <3>4
  <2> QED
    BY <2>1, <2>2
<1> HIDE DEF F
<1>2. S \in F
  BY <1>1, FiniteFamilyStrong
<1> QED
  BY <1>2 DEF F

(* A sum over what is below n from those of its children. *)
HasSums(D, par, path, f, n, C, g) ==
  /\ IsTrees(D, par, path) /\ (\A x \in D : f[x] \in Int) /\ n \in D
  /\ C = ChildrenOf(D, par, {n}) /\ SumsBelow(g, f, D, path, C)

LEMMA SumBelow ==
  ASSUME NEW D, NEW par, NEW path, NEW f, NEW n, NEW C, NEW g, HasSums(D, par, path, f, n, C, g)
  PROVE  SumFunctionOnSet(f, Below(D, path, n)) = f[n] + SumFunctionOnSet(g, C)
<1> USE DEF HasSums
<1>1. n \in path[n]
  BY PathIs DEF IsTrees
<1>2. Apart(path, {n}) /\ {n} \subseteq D
  BY <1>1 DEF Apart
<1>3. C \subseteq D /\ Apart(path, C) /\ Under(D, path, C) = Under(D, path, {n}) \ {n}
  <2>1. PICK N : N = {n}
    OBVIOUS
  <2>2. AreChildren(D, par, path, N, C)
    BY <1>2, <2>1 DEF AreChildren
  <2>3. ChildrenUnder(D, path, N, C)
    BY <2>2, UnderChildren
  <2> QED
    BY <2>1, <2>3 DEF ChildrenUnder
<1>4. Under(D, path, {n}) = Below(D, path, n)
  BY DEF Under, Below
<1>5. SumFunctionOnSet(g, C) = SumFunctionOnSet(f, Under(D, path, C))
  <2>1. IsTrees(D, par, path) /\ (\A x \in D : f[x] \in Int) /\ SumsBelow(g, f, D, path, C)
    OBVIOUS
  <2> HIDE DEF HasSums
  <2> QED
    BY <1>3, <2>1, SumsUnder
<1>6. n \in Below(D, path, n) /\ IsFiniteSet(Below(D, path, n))
      /\ \A x \in Below(D, path, n) : f[x] \in Int
  BY <1>1, FS_Subset DEF Below, IsTrees
<1>7. SumFunctionOnSet(f, Below(D, path, n)) = f[n] + SumFunctionOnSet(f, Below(D, path, n) \ {n})
  BY <1>6, SumTake
<1> QED
  BY <1>3, <1>4, <1>5, <1>7

(* The sum from the leaves up is that over what is below. *)
SumsUp(g, f, D, par) ==
  \A n \in D : g[n] = f[n] + SumFunctionOnSet(g, ChildrenOf(D, par, {n}))

LEMMA SumsUpAreBelow ==
  ASSUME NEW D, NEW par, NEW path, IsTrees(D, par, path), NEW f, \A x \in D : f[x] \in Int
  PROVE  /\ SumsUp([n \in D |-> SumFunctionOnSet(f, Below(D, path, n))], f, D, par)
         /\ \A g : SumsUp(g, f, D, par) => SumsBelow(g, f, D, path, D)
<1> DEFINE h == [n \in D |-> SumFunctionOnSet(f, Below(D, path, n))]
<1>1. SumsUp(h, f, D, par)
  <2>1. ASSUME NEW n \in D PROVE h[n] = f[n] + SumFunctionOnSet(h, ChildrenOf(D, par, {n}))
    <3>1. SumsBelow(h, f, D, path, ChildrenOf(D, par, {n}))
      BY DEF SumsBelow, ChildrenOf
    <3>2. h[n] = SumFunctionOnSet(f, Below(D, path, n))
      OBVIOUS
    <3> HIDE DEF h
    <3>3. HasSums(D, par, path, f, n, ChildrenOf(D, par, {n}), h)
      BY <3>1 DEF HasSums
    <3> QED
      BY <3>2, <3>3, SumBelow
  <2> HIDE DEF h
  <2> QED
    BY <2>1 DEF SumsUp
<1>2. ASSUME NEW g, SumsUp(g, f, D, par) PROVE SumsBelow(g, f, D, path, D)
  <2> DEFINE B == {n \in D : g[n] # SumFunctionOnSet(f, Below(D, path, n))}
  <2>1. B = {}
    <3> SUFFICES ASSUME B # {} PROVE FALSE
      OBVIOUS
    <3>1. IsForestOf(D, par) /\ B \subseteq D /\ IsFiniteSet(B)
      BY FS_Subset DEF IsTrees
    <3>2. PICK n \in B : \A m \in B : n \notin par[m]
      <4> HIDE DEF B
      <4> QED
        BY <3>1, ForestLeaf
    <3>3. SumsBelow(g, f, D, path, ChildrenOf(D, par, {n}))
      BY <3>2 DEF SumsBelow, ChildrenOf
    <3>4. g[n] = f[n] + SumFunctionOnSet(g, ChildrenOf(D, par, {n}))
      BY <1>2 DEF SumsUp
    <3>5. n \in D /\ g[n] # SumFunctionOnSet(f, Below(D, path, n))
      OBVIOUS
    <3>6. PICK C : C = ChildrenOf(D, par, {n})
      OBVIOUS
    <3>7. SumFunctionOnSet(f, Below(D, path, n)) = f[n] + SumFunctionOnSet(g, C)
      <4> HIDE DEF B
      <4>1. HasSums(D, par, path, f, n, C, g)
        BY <3>3, <3>5, <3>6 DEF HasSums
      <4> QED
        BY <4>1, SumBelow
    <3> QED
      BY <3>4, <3>5, <3>6, <3>7
  <2> QED
    BY <2>1 DEF SumsBelow
<1> QED
  BY <1>1, <1>2
==============================================================================
