---------------------------- MODULE Blocking_proofs ----------------------------
(***************************************************************************)
(* Theorems about Blocking, for any profiles and limits: the types of what *)
(* is detected, and the order of the lists of stalls.                      *)
(***************************************************************************)
EXTENDS Blocking, SetLemmas, SequenceTheorems, WellFoundedInduction

-----------------------------------------------------------------------------
(* sort.Search has a place for every stall: the first before a shorter one. *)
LEMMA PlaceExists ==
  ASSUME NEW top \in Seq(Stall), NEW d \in Int
  PROVE  /\ StallsBefore(top, d) \in 0..Len(top)
         /\ \A i \in 1..StallsBefore(top, d) : top[i].duration >= d
         /\ StallsBefore(top, d) < Len(top) =>
              top[StallsBefore(top, d) + 1].duration < d
<1> DEFINE T == {k \in 0..Len(top) : k < Len(top) => top[k + 1].duration < d}
<1>1. Len(top) \in T /\ T \subseteq Nat /\ T \subseteq 0..Len(top)
  OBVIOUS
<1>2. PICK m \in T : \A k \in T : ~(<<k, m>> \in OpToRel(<, Nat))
  BY <1>1, NatLessThanWellFounded, WFMin
<1>3. \A k \in T : ~(k < m)
  BY <1>1, <1>2 DEF OpToRel
<1>a. m \in 0..Len(top) /\ Len(top) \in Nat
  <2> HIDE DEF T
  <2> QED
    BY <1>1, <1>2
<1>4. \A i \in 1..m : top[i].duration >= d
  <2> SUFFICES ASSUME NEW i \in 1..m, ~(top[i].duration >= d)
               PROVE  FALSE
    OBVIOUS
  <2>1. i \in 1..Len(top) /\ top[i] \in Stall
    <3> HIDE DEF T
    <3> QED
      BY <1>a
  <2>2. top[i].duration \in Nat
    BY <2>1 DEF Stall
  <2>3. i - 1 \in T
    BY <2>1, <2>2
  <2>4. i - 1 < m
    <3> HIDE DEF T
    <3> QED
      BY <1>a
  <2> HIDE DEF T
  <2> QED
    BY <2>3, <2>4, <1>3
<1> QED
  BY <1>2, <1>4 DEF StallsBefore

-----------------------------------------------------------------------------
(* insertStall returns a list of stalls, longest first and within the limit, *)
(* when it is given one.                                                      *)
LEMMA InsertKeepsOrder ==
  ASSUME NEW top \in Seq(Stall), InOrder(top), NEW s \in Stall
  PROVE  InsertStall(top, s) \in Seq(Stall) /\ InOrder(InsertStall(top, s))
<1> DEFINE n == IF Len(top) < TopLimit THEN Len(top) + 1 ELSE TopLimit
           k == StallsBefore(top, s.duration)
           new == [i \in 1..n |-> IF i <= k THEN top[i]
                                  ELSE IF i = k + 1 THEN s ELSE top[i - 1]]
<1>0. TopLimit \in Nat \ {0}
  BY BlockingAssumption
<1>1. CASE Len(top) >= TopLimit /\ s.duration <= top[Len(top)].duration
  BY <1>1 DEF InsertStall
<1>2. CASE ~(Len(top) >= TopLimit /\ s.duration <= top[Len(top)].duration)
  <2>1. s.duration \in Nat /\ \A i \in 1..Len(top) : top[i].duration \in Nat
    <3>1. \A x \in Stall : x.duration \in Nat
      BY DEF Stall
    <3>2. \A i \in 1..Len(top) : top[i] \in Stall
      OBVIOUS
    <3> QED
      BY <3>1, <3>2
  <2>2. /\ k \in 0..Len(top)
        /\ \A i \in 1..k : top[i].duration >= s.duration
        /\ k < Len(top) => top[k + 1].duration < s.duration
    <3>1. s.duration \in Int
      BY <2>1
    <3> QED
      BY <3>1, PlaceExists
  <2>3. \A i, j \in 1..Len(top) : i < j => top[i].duration >= top[j].duration
    BY DEF InOrder
  <2>4. n \in Nat /\ n <= TopLimit /\ n <= Len(top) + 1
    BY <1>0 DEF InOrder
  <2>a. Len(top) \in Nat /\ \A i \in 1..Len(top) : top[i] \in Stall
    OBVIOUS
  <2> HIDE DEF k, n
  <2>5. \A i \in 1..n : new[i] \in Stall
    BY <2>2, <2>4, <2>a
  <2>6. new \in Seq(Stall) /\ Len(new) = n
    BY <2>4, <2>5
  <2>7. \A i \in (k + 1)..Len(top) : top[i].duration <= s.duration
    BY <2>1, <2>2, <2>3
  <2>8. \A i, j \in 1..n : i < j => new[i].duration >= new[j].duration
    <3> SUFFICES ASSUME NEW i \in 1..n, NEW j \in 1..n, i < j
                 PROVE  new[i].duration >= new[j].duration
      OBVIOUS
    <3>1. CASE j <= k
      BY <3>1, <2>2, <2>3, <2>4
    <3>2. CASE j = k + 1
      BY <3>2, <2>2, <2>4
    <3>3. CASE j > k + 1 /\ i <= k
      BY <3>3, <2>2, <2>3, <2>4
    <3>4. CASE j > k + 1 /\ i = k + 1
      BY <3>4, <2>2, <2>4, <2>7
    <3>5. CASE j > k + 1 /\ i > k + 1
      BY <3>5, <2>2, <2>3, <2>4
    <3> QED
      BY <3>1, <3>2, <3>3, <3>4, <3>5, <2>2
  <2>9. InsertStall(top, s) = new
    BY <1>2 DEF InsertStall, k, n
  <2> QED
    BY <2>4, <2>6, <2>8, <2>9 DEF InOrder
<1> QED
  BY <1>1, <1>2

(* The place that sort.Search finds is the number of stalls of that length *)
(* or longer.                                                              *)
LEMMA PlaceNat ==
  ASSUME NEW top \in Seq(Stall), NEW d \in Int
  PROVE  StallsBefore(top, d) \in Nat
<1>1. StallsBefore(top, d) \in 0..Len(top) /\ Len(top) \in Nat
  BY PlaceExists
<1> QED
  BY <1>1

LEMMA EmptyPlace ==
  ASSUME NEW d \in Int
  PROVE  StallsBefore(<<>>, d) = 0
<1>1. <<>> \in Seq(Stall) /\ Len(<<>>) = 0
  OBVIOUS
<1>2. StallsBefore(<<>>, d) \in 0..0
  <2>1. \A top \in Seq(Stall) : StallsBefore(top, d) \in 0..Len(top)
    BY PlaceExists
  <2> QED
    BY <1>1, <2>1
<1> QED
  BY <1>2

LEMMA PlaceIs ==
  ASSUME NEW top \in Seq(Stall), NEW d \in Int, NEW k \in 0..Len(top),
         \A i \in 1..k : top[i].duration >= d,
         k < Len(top) => top[k + 1].duration < d
  PROVE  StallsBefore(top, d) = k
<1> DEFINE j == StallsBefore(top, d)
<1>1. /\ j \in 0..Len(top)
      /\ \A i \in 1..j : top[i].duration >= d
      /\ j < Len(top) => top[j + 1].duration < d
  BY PlaceExists
<1>2. \A i \in 1..Len(top) : top[i].duration \in Int
  <2>1. \A x \in Stall : x.duration \in Int
    BY DEF Stall
  <2> QED
    BY <2>1
<1>3. Len(top) \in Nat
  OBVIOUS
<1> HIDE DEF j
<1>4. ~(j < k)
  <2> SUFFICES ASSUME j < k PROVE FALSE
    OBVIOUS
  <2>1. j + 1 \in 1..k /\ j + 1 \in 1..Len(top) /\ j < Len(top)
    BY <1>1, <1>3
  <2> QED
    BY <1>1, <1>2, <2>1
<1>5. ~(k < j)
  <2> SUFFICES ASSUME k < j PROVE FALSE
    OBVIOUS
  <2>1. k + 1 \in 1..j /\ k + 1 \in 1..Len(top) /\ k < Len(top)
    BY <1>1, <1>3
  <2> QED
    BY <1>1, <1>2, <2>1
<1>6. j = k
  BY <1>1, <1>3, <1>4, <1>5
<1> QED
  BY <1>6 DEF j

LEMMA PlaceCounts ==
  ASSUME NEW top \in Seq(Stall), InOrder(top), NEW d \in Int
  PROVE  Cardinality({i \in 1..Len(top) : top[i].duration >= d}) = StallsBefore(top, d)
<1> DEFINE k == StallsBefore(top, d)
<1>1. /\ k \in 0..Len(top)
      /\ \A i \in 1..k : top[i].duration >= d
      /\ k < Len(top) => top[k + 1].duration < d
  BY PlaceExists
<1>2. \A i \in 1..Len(top) : top[i].duration \in Int
  <2>1. \A x \in Stall : x.duration \in Int
    BY DEF Stall
  <2> QED
    BY <2>1
<1>3. \A i, j \in 1..Len(top) : i < j => top[i].duration >= top[j].duration
  BY DEF InOrder
<1>4. Len(top) \in Nat
  OBVIOUS
<1> HIDE DEF k
<1>5. {i \in 1..Len(top) : top[i].duration >= d} = 1..k
  <2>1. ASSUME NEW i \in 1..Len(top), i > k PROVE ~(top[i].duration >= d)
    <3>1. k + 1 \in 1..Len(top) /\ k < Len(top)
      BY <1>1, <1>4, <2>1
    <3>2. i = k + 1 \/ top[k + 1].duration >= top[i].duration
      BY <1>1, <1>3, <1>4, <2>1, <3>1
    <3> QED
      BY <1>1, <1>2, <3>1, <3>2
  <2>2. \A i \in 1..Len(top) : i > k => ~(top[i].duration >= d)
    BY <2>1
  <2>3. 1..k \subseteq 1..Len(top) /\ \A i \in 1..Len(top) : i \in 1..k \/ i > k
    BY <1>1, <1>4
  <2>4. \A i \in 1..Len(top) : i \in 1..k => ~(i > k)
    BY <1>1, <1>4
  <2> QED
    BY <1>1, <2>2, <2>3, <2>4
<1>6. Cardinality(1..k) = k
  <2>1. 1 \in Int /\ k \in Int /\ k >= 0
    BY <1>1, <1>4
  <2>2. Cardinality(1..k) = IF 1 > k THEN 0 ELSE k - 1 + 1
    BY <2>1, FS_Interval
  <2> QED
    BY <2>1, <2>2
<1> QED
  BY <1>5, <1>6 DEF k

(* A stall more: of any length or longer, one more if it is and if it fits. *)
LEMMA InsertCounts ==
  ASSUME NEW top \in Seq(Stall), InOrder(top), NEW s \in Stall, NEW d \in Int
  PROVE  StallsBefore(InsertStall(top, s), d)
           = Smaller(TopLimit, StallsBefore(top, d) + (IF s.duration >= d THEN 1 ELSE 0))
<1> DEFINE n == IF Len(top) < TopLimit THEN Len(top) + 1 ELSE TopLimit
           k == StallsBefore(top, s.duration)
           a == StallsBefore(top, d)
           new == [i \in 1..n |-> IF i <= k THEN top[i]
                                  ELSE IF i = k + 1 THEN s ELSE top[i - 1]]
<1>0. TopLimit \in Nat \ {0} /\ Len(top) \in Nat /\ Len(top) <= TopLimit
  BY BlockingAssumption DEF InOrder
<1>1. s.duration \in Int /\ \A i \in 1..Len(top) : top[i].duration \in Int
  <2>1. \A x \in Stall : x.duration \in Int
    BY DEF Stall
  <2> QED
    BY <2>1
<1>2. /\ a \in 0..Len(top)
      /\ \A i \in 1..a : top[i].duration >= d
      /\ a < Len(top) => top[a + 1].duration < d
  BY PlaceExists
<1>3. /\ k \in 0..Len(top)
      /\ \A i \in 1..k : top[i].duration >= s.duration
      /\ k < Len(top) => top[k + 1].duration < s.duration
  BY <1>1, PlaceExists
<1>4. InsertStall(top, s) \in Seq(Stall)
  BY InsertKeepsOrder
<1>5. CASE Len(top) >= TopLimit /\ s.duration <= top[Len(top)].duration
  <2>1. InsertStall(top, s) = top
    BY <1>5 DEF InsertStall
  <2>2. s.duration >= d => a = Len(top)
    <3> SUFFICES ASSUME s.duration >= d, a < Len(top) PROVE FALSE
      BY <1>0, <1>2
    <3>1. Len(top) \in 1..Len(top) /\ a + 1 \in 1..Len(top)
      BY <1>0, <1>2
    <3>2. top[Len(top)].duration <= top[a + 1].duration
      BY <1>0, <1>1, <1>2, <3>1 DEF InOrder
    <3> HIDE DEF a
    <3> QED
      BY <1>1, <1>2, <1>5, <3>1, <3>2
  <2> HIDE DEF a
  <2> QED
    BY <1>0, <1>2, <1>5, <2>1, <2>2 DEF Smaller, a
<1>6. CASE ~(Len(top) >= TopLimit /\ s.duration <= top[Len(top)].duration)
  <2>1. InsertStall(top, s) = new
    BY <1>6 DEF InsertStall
  <2>2. n \in Nat /\ n <= Len(top) + 1 /\ n >= Len(top) /\ n <= TopLimit /\ n >= 1
        /\ (n = Len(top) + 1 \/ n = TopLimit)
    BY <1>0
  <2> DEFINE m == IF s.duration >= d THEN Smaller(n, a + 1) ELSE a
  <2> HIDE DEF n, k, a
  <2>3. new \in Seq(Stall) /\ Len(new) = n
    <3>1. new \in Seq(Stall)
      BY <1>4, <2>1
    <3> QED
      BY <2>2, <3>1
  <2>4. s.duration >= d => k <= a
    <3> SUFFICES ASSUME s.duration >= d, a < k PROVE FALSE
      BY <1>0, <1>2, <1>3
    <3>1. a + 1 \in 1..k /\ a + 1 \in 1..Len(top) /\ a < Len(top)
      BY <1>0, <1>2, <1>3
    <3> QED
      BY <1>1, <1>2, <1>3, <3>1
  <2>5. ~(s.duration >= d) => a <= k
    <3> SUFFICES ASSUME ~(s.duration >= d), k < a PROVE FALSE
      BY <1>0, <1>2, <1>3
    <3>1. k + 1 \in 1..a /\ k + 1 \in 1..Len(top) /\ k < Len(top)
      BY <1>0, <1>2, <1>3
    <3> QED
      BY <1>1, <1>2, <1>3, <3>1
  <2>6. m \in 0..n
    BY <1>0, <1>2, <2>2 DEF Smaller
  <2>7. ASSUME NEW i \in 1..m PROVE new[i].duration >= d
    <3>1. i \in 1..n
      BY <2>2, <2>6
    <3>2. CASE s.duration >= d
      <4>1. i <= a + 1
        BY <1>2, <2>2, <3>1, <3>2 DEF Smaller
      <4>2. CASE i <= k
        BY <1>1, <1>2, <1>3, <2>4, <3>1, <3>2, <4>2
      <4>3. CASE i = k + 1
        BY <1>3, <3>1, <3>2, <4>3
      <4>4. CASE i > k + 1
        BY <1>2, <1>3, <3>1, <4>1, <4>4
      <4> QED
        BY <1>3, <3>1, <4>2, <4>3, <4>4
    <3>3. CASE ~(s.duration >= d)
      BY <1>2, <1>3, <2>5, <3>1, <3>3
    <3> QED
      BY <3>2, <3>3
  <2>8. ASSUME m < n PROVE new[m + 1].duration < d
    <3>1. m + 1 \in 1..n /\ m \in Nat
      BY <2>2, <2>6, <2>8
    <3>2. CASE s.duration >= d
      <4>1. m = a + 1
        BY <1>2, <2>2, <2>8, <3>2 DEF Smaller
      <4>2. a < Len(top) /\ m + 1 > k + 1 /\ (m + 1) - 1 = a + 1
        BY <1>0, <1>2, <1>3, <2>2, <2>4, <2>8, <3>2, <4>1
      <4>3. new[m + 1] = top[a + 1]
        BY <1>3, <3>1, <4>2
      <4> QED
        BY <1>2, <4>2, <4>3
    <3>3. CASE ~(s.duration >= d)
      <4>1. m = a
        BY <3>3
      <4>2. CASE a < k
        BY <1>0, <1>2, <1>3, <3>1, <4>1, <4>2
      <4>3. CASE a = k
        <5>1. new[m + 1] = s
          BY <1>3, <3>1, <4>1, <4>3
        <5> QED
          BY <1>1, <3>3, <5>1
      <4> QED
        BY <1>2, <1>3, <2>5, <3>3, <4>2, <4>3
    <3> QED
      BY <3>2, <3>3
  <2>9. StallsBefore(new, d) = m
    <3> HIDE DEF new, m
    <3> QED
      BY <2>3, <2>6, <2>7, <2>8, PlaceIs
  <2>10. m = Smaller(TopLimit, a + (IF s.duration >= d THEN 1 ELSE 0))
    BY <1>0, <1>2, <2>2 DEF Smaller
  <2> QED
    BY <2>1, <2>9, <2>10 DEF a
<1> QED
  BY <1>5, <1>6

(* A list has the stalls it had and the new one, and no other. *)
LEMMA InsertMembers ==
  ASSUME NEW top \in Seq(Stall), InOrder(top), NEW s \in Stall
  PROVE  Range(InsertStall(top, s)) \subseteq Range(top) \cup {s}
<1> DEFINE n == IF Len(top) < TopLimit THEN Len(top) + 1 ELSE TopLimit
           k == StallsBefore(top, s.duration)
           new == [i \in 1..n |-> IF i <= k THEN top[i]
                                  ELSE IF i = k + 1 THEN s ELSE top[i - 1]]
<1>0. TopLimit \in Nat \ {0} /\ Len(top) \in Nat /\ Len(top) <= TopLimit
  BY BlockingAssumption DEF InOrder
<1>1. k \in 0..Len(top)
  <2>1. s.duration \in Int
    BY DEF Stall
  <2> QED
    BY <2>1, PlaceExists
<1>2. InsertStall(top, s) \in {top, new}
  BY DEF InsertStall
<1>3. n \in Nat /\ n <= Len(top) + 1
  BY <1>0
<1> HIDE DEF n, k
<1>4. ASSUME NEW i \in 1..n PROVE new[i] \in Range(top) \cup {s}
  <2>1. CASE i <= k
    BY <1>0, <1>1, <1>3, <2>1 DEF Range
  <2>2. CASE i = k + 1
    BY <1>1, <2>2
  <2>3. CASE i > k + 1
    <3>1. i - 1 \in 1..Len(top) /\ new[i] = top[i - 1]
      BY <1>0, <1>1, <1>3, <2>3
    <3> QED
      BY <3>1 DEF Range
  <2> QED
    BY <1>1, <1>3, <2>1, <2>2, <2>3
<1>5. Range(new) \subseteq Range(top) \cup {s}
  <2>1. DOMAIN new = 1..n
    OBVIOUS
  <2> HIDE DEF new
  <2> QED
    BY <1>4, <2>1 DEF Range
<1> QED
  BY <1>2, <1>5

(* The first stall of a queue taken off it. *)
LEMMA TailCounts ==
  ASSUME NEW q \in Seq(Stall), InOrder(q), q # <<>>, NEW d \in Int
  PROVE  /\ InOrder(Tail(q))
         /\ StallsBefore(q, d)
              = StallsBefore(Tail(q), d) + (IF Head(q).duration >= d THEN 1 ELSE 0)
<1> DEFINE n == Len(q)
           t == Tail(q)
           a == StallsBefore(q, d)
           m == IF Head(q).duration >= d THEN a - 1 ELSE 0
<1>1. /\ t \in Seq(Stall) /\ n \in Nat /\ n >= 1 /\ Len(t) = n - 1
      /\ (\A i \in 1..(n - 1) : t[i] = q[i + 1]) /\ Head(q) = q[1]
  OBVIOUS
<1>2. \A i \in 1..n : q[i].duration \in Int
  <2>1. \A x \in Stall : x.duration \in Int
    BY DEF Stall
  <2> QED
    BY <2>1
<1>3. \A i, j \in 1..n : i < j => q[i].duration >= q[j].duration
  BY DEF InOrder
<1>4. TopLimit \in Nat /\ n <= TopLimit
  BY BlockingAssumption DEF InOrder
<1>5. /\ a \in 0..n
      /\ \A i \in 1..a : q[i].duration >= d
      /\ a < n => q[a + 1].duration < d
  BY PlaceExists
<1> HIDE DEF n, t, a
<1>6. InOrder(t)
  <2>1. \A i, j \in 1..(n - 1) : i < j => t[i].duration >= t[j].duration
    <3> SUFFICES ASSUME NEW i \in 1..(n - 1), NEW j \in 1..(n - 1), i < j
                 PROVE  t[i].duration >= t[j].duration
      OBVIOUS
    <3>1. i + 1 \in 1..n /\ j + 1 \in 1..n /\ i + 1 < j + 1
      BY <1>1
    <3> QED
      BY <1>1, <1>3, <3>1
  <2>2. Len(t) <= TopLimit
    BY <1>1, <1>4
  <2> QED
    BY <1>1, <2>1, <2>2 DEF InOrder
<1>7. q[1].duration >= d <=> a >= 1
  <2>1. 1 \in 1..n
    BY <1>1
  <2>2. a = 0 => ~(q[1].duration >= d)
    BY <1>1, <1>2, <1>5, <2>1
  <2>3. a >= 1 => q[1].duration >= d
    BY <1>1, <1>5
  <2> QED
    BY <1>1, <1>5, <2>2, <2>3
<1>8. m \in 0..Len(t) /\ a = m + (IF Head(q).duration >= d THEN 1 ELSE 0)
  BY <1>1, <1>5, <1>7
<1>9. \A i \in 1..m : t[i].duration >= d
  <2> SUFFICES ASSUME NEW i \in 1..m PROVE t[i].duration >= d
    OBVIOUS
  <2>1. i + 1 \in 1..a /\ i \in 1..(n - 1)
    BY <1>1, <1>5, <1>7, <1>8
  <2> QED
    BY <1>1, <1>5, <2>1
<1>10. m < Len(t) => t[m + 1].duration < d
  <2> SUFFICES ASSUME m < Len(t) PROVE t[m + 1].duration < d
    OBVIOUS
  <2>1. m + 1 \in 1..(n - 1) /\ t[m + 1] = q[(m + 1) + 1]
    BY <1>1, <1>8
  <2>2. CASE a >= 1
    <3>1. m + 1 = a /\ a < n /\ (m + 1) + 1 = a + 1
      BY <1>1, <1>5, <1>7, <2>1, <2>2
    <3> HIDE DEF m
    <3> QED
      BY <1>5, <2>1, <3>1
  <2>3. CASE a = 0
    <3>1. m = 0 /\ (m + 1) + 1 = 2 /\ 2 \in 1..n /\ 1 \in 1..n
      BY <1>1, <1>5, <1>7, <2>1, <2>3
    <3>2. q[1].duration >= q[2].duration /\ ~(q[1].duration >= d)
      BY <1>3, <1>5, <1>7, <2>3, <3>1
    <3> HIDE DEF m
    <3>3. t[m + 1] = q[2]
      BY <2>1, <3>1
    <3> QED
      BY <1>2, <3>1, <3>2, <3>3
  <2> QED
    BY <1>5, <2>2, <2>3
<1>11. StallsBefore(t, d) = m
  <2> HIDE DEF m
  <2> QED
    BY <1>1, <1>8, <1>9, <1>10, PlaceIs
<1> QED
  BY <1>6, <1>8, <1>11 DEF t, a

-----------------------------------------------------------------------------
(* The maps keep their keys and the types of their values. *)
LEMMA WiderMap ==
  ASSUME NEW f, NEW K, NEW V, IsMap(f, K, V), NEW L, K \subseteq L
  PROVE  IsMap(f, L, V)
<1>1. DOMAIN f \subseteq L
  BY DEF IsMap
<1>2. f \in [DOMAIN f -> V]
  BY DEF IsMap
<1> QED
  BY <1>1, <1>2 DEF IsMap

LEMMA CreditIsMap ==
  ASSUME NEW times, NEW K, IsMap(times, K, Int), NEW key \in K, NEW d \in Int
  PROVE  IsMap(Credit(times, key, d), K, Int)
<1>1. \A k \in DOMAIN times : times[k] \in Int
  BY DEF IsMap
<1>2. \A k \in DOMAIN times \cup {key} : Credit(times, key, d)[k] \in Int
  BY <1>1 DEF Credit
<1>3. DOMAIN Credit(times, key, d) = DOMAIN times \cup {key}
  BY DEF Credit
<1>4. Credit(times, key, d) \in [DOMAIN times \cup {key} -> Int]
  BY <1>1 DEF Credit
<1> QED
  BY <1>3, <1>4 DEF IsMap

LEMMA StatsAdd ==
  ASSUME NEW a \in Stat, NEW b \in Stat
  PROVE  AddStat(a, b) \in Stat
BY DEF Stat, AddStat, Larger

LEMMA MergeIsMap ==
  ASSUME NEW dst, NEW src, NEW K, IsMap(dst, K, Stat), IsMap(src, K, Stat)
  PROVE  IsMap(MergeStats(dst, src), K, Stat)
<1> DEFINE M == MergeStats(dst, src)
<1>1. DOMAIN M = DOMAIN dst \cup DOMAIN src
  BY DEF MergeStats
<1>2. \A k : StatOf(dst, k) \in Stat /\ StatOf(src, k) \in Stat
  BY DEF StatOf, IsMap, NoStat, Stat
<1>3. \A k : AddStat(StatOf(dst, k), StatOf(src, k)) \in Stat
  BY <1>2, StatsAdd
<1>4. M \in [DOMAIN dst \cup DOMAIN src -> Stat]
  BY <1>3 DEF MergeStats
<1> QED
  BY <1>1, <1>4 DEF IsMap

LEMMA BlameIsMap ==
  ASSUME NEW times, NEW K, IsMap(times, K, Int), NEW dom, NEW micros \in Nat
  PROVE  IsMap(Blame(times, dom, micros), K, Stat)
<1>1. \A k \in DOMAIN times : times[k] \in Int
  BY DEF IsMap
<1>2. Blame(times, dom, micros) \in [DOMAIN times -> Stat]
  BY <1>1 DEF Blame, Stat
<1> QED
  BY <1>2 DEF IsMap

-----------------------------------------------------------------------------
(* Closing an episode leaves a rollup whose stalls are in order. *)
LEMMA ClosedIsRollup ==
  ASSUME TypeOK, TopInOrder, NEW b \in Closed
  PROVE  IsRollup(b) /\ InOrder(b.top)
<1>0. Threshold \in Nat \ {0}
  BY BlockingAssumption
<1>1. IsRollup(rollup) /\ InOrder(rollup.top) /\ IsEpisode(ep)
  BY DEF TypeOK, TopInOrder
<1>2. CASE ~LongEnough(ep)
  BY <1>1, <1>2 DEF Closed
<1>3. CASE LongEnough(ep)
  <2>1. PICK lbl \in Dominant(ep.ctx) : b = Recorded(rollup, ep, lbl)
    BY <1>3 DEF Closed
  <2>2. lbl \in Labels \cup {NoLabel}
    BY <1>1 DEF Dominant, IsEpisode, IsMap
  <2>3. ep.micros \in Nat /\ ep.samples \in Nat /\ ep.samples # 0
    BY <1>0, <1>1, <1>3 DEF LongEnough, IsEpisode, TypeOK
  <2>4. samples[ep.maxIdx].id \in Nodes
    BY <2>3 DEF TypeOK
  <2> DEFINE stall == [duration |-> ep.micros, samples |-> ep.samples,
                       context |-> lbl, stack |-> Stack(samples[ep.maxIdx].id)]
  <2>5. stall \in Stall
    BY <2>2, <2>3, <2>4 DEF Stall
  <2>6. InsertStall(rollup.top, stall) \in Seq(Stall)
        /\ InOrder(InsertStall(rollup.top, stall))
    BY <1>1, <2>5, InsertKeepsOrder DEF IsRollup
  <2>7. IsMap(MergeStats(rollup.functions, Blame(ep.leaf, ep.domKey, ep.micros)),
              Fns, Stat)
    BY <1>1, <2>3, BlameIsMap, MergeIsMap DEF IsRollup, IsEpisode
  <2>8. IsMap(Credit(ep.ctx, lbl, 0), Labels \cup {NoLabel}, Int)
    <3>1. IsMap(ep.ctx, Labels, Int)
      BY <1>1 DEF IsEpisode
    <3>2. IsMap(ep.ctx, Labels \cup {NoLabel}, Int)
      BY <3>1, WiderMap
    <3> DEFINE K == Labels \cup {NoLabel}
    <3>3. IsMap(ep.ctx, K, Int) /\ lbl \in K /\ 0 \in Int
      BY <3>2, <2>2
    <3> HIDE DEF K
    <3>4. IsMap(Credit(ep.ctx, lbl, 0), K, Int)
      BY <3>3, CreditIsMap
    <3> QED
      BY <3>4 DEF K
  <2>9. IsMap(MergeStats(rollup.contexts,
                         Blame(Credit(ep.ctx, lbl, 0), lbl, ep.micros)),
              Labels \cup {NoLabel}, Stat)
    BY <1>1, <2>3, <2>8, BlameIsMap, MergeIsMap DEF IsRollup
  <2>10. /\ rollup.episodes + 1 \in Nat
         /\ rollup.blocked + ep.micros \in Nat
         /\ Larger(rollup.max, ep.micros) \in Nat
    BY <1>1, <2>3 DEF IsRollup, Larger
  <2>11. IsMap(rollup.contexts, Labels \cup {NoLabel}, Stat)
    BY <1>1 DEF IsRollup
  <2> QED
    BY <2>1, <2>6, <2>7, <2>9, <2>10, <2>11 DEF Recorded, IsRollup
<1> QED
  BY <1>2, <1>3

(* A busy sample is of a node of the profile and extends the episode. *)
LEMMA ExtendIsEpisode ==
  ASSUME NEW e, IsEpisode(e), NEW s \in Sample, s.id \in Nodes, NEW i \in Nat
  PROVE  /\ IsEpisode(Extend(e, s, i))
         /\ Extend(e, s, i).samples # 0
         /\ \/ Extend(e, s, i).maxIdx = i
            \/ e.samples # 0 /\ Extend(e, s, i).maxIdx = e.maxIdx
<1> DEFINE leaf == Credit(e.leaf, FnOf[s.id], s.delta)
           ctx == IF s.label = NoLabel THEN e.ctx ELSE Credit(e.ctx, s.label, s.delta)
<1>1. s.delta \in Int /\ s.label \in Labels \cup {NoLabel}
  BY DEF Sample
<1>2. FnOf[s.id] \in Fns
  BY DEF Fns
<1>3. IsMap(e.leaf, Fns, Int) /\ IsMap(e.ctx, Labels, Int)
  BY DEF IsEpisode
<1>4. IsMap(leaf, Fns, Int)
  BY <1>1, <1>2, <1>3, CreditIsMap
<1>5. leaf[FnOf[s.id]] \in Int
  BY <1>4, <1>2 DEF IsMap, Credit
<1>6. IsMap(ctx, Labels, Int)
  <2>1. CASE s.label = NoLabel
    BY <2>1, <1>3
  <2>2. CASE s.label # NoLabel
    <3>1. IsMap(Credit(e.ctx, s.label, s.delta), Labels, Int)
      BY <2>2, <1>1, <1>3, CreditIsMap
    <3> QED
      BY <3>1, <2>2
  <2> QED
    BY <2>1, <2>2
<1>7. /\ e.micros \in Int /\ e.samples \in Nat /\ e.domKey \in Fns \cup {None}
      /\ e.domMic \in Nat /\ e.maxDelta \in Int /\ e.maxIdx \in Nat
  BY DEF IsEpisode
<1>8. Extend(e, s, i) =
        [micros |-> e.micros + s.delta,
         samples |-> e.samples + 1,
         leaf |-> leaf,
         domKey |-> IF leaf[FnOf[s.id]] > e.domMic THEN FnOf[s.id] ELSE e.domKey,
         domMic |-> IF leaf[FnOf[s.id]] > e.domMic THEN leaf[FnOf[s.id]] ELSE e.domMic,
         ctx |-> ctx,
         maxDelta |-> Larger(s.delta, e.maxDelta),
         maxIdx |-> LargestAt(e, s, i)]
  BY DEF Extend
<1> HIDE DEF leaf, ctx
<1> QED
  BY <1>1, <1>2, <1>4, <1>5, <1>6, <1>7, <1>8 DEF IsEpisode, Larger, LargestAt

-----------------------------------------------------------------------------
(* A map keeps the type of its values. *)
LEMMA MapValues ==
  ASSUME NEW f, NEW K, NEW V, IsMap(f, K, V), NEW k \in DOMAIN f
  PROVE  f[k] \in V
BY DEF IsMap

(* mergeBlockStats adds the times and the episodes of two maps. *)
LEMMA MergeAdds ==
  ASSUME NEW dst, NEW src, NEW K, IsMap(dst, K, Stat), IsMap(src, K, Stat),
         IsFiniteSet(DOMAIN dst), IsFiniteSet(DOMAIN src)
  PROVE  /\ IsFiniteSet(DOMAIN MergeStats(dst, src))
         /\ SumFunction(BlockedOf(MergeStats(dst, src)))
              = SumFunction(BlockedOf(dst)) + SumFunction(BlockedOf(src))
         /\ SumFunction(EpisodesOf(MergeStats(dst, src)))
              = SumFunction(EpisodesOf(dst)) + SumFunction(EpisodesOf(src))
<1> DEFINE M == MergeStats(dst, src)
<1>1. DOMAIN M = DOMAIN dst \cup DOMAIN src
  BY DEF MergeStats
<1>2. /\ \A k \in DOMAIN dst : dst[k].blocked \in Int /\ dst[k].episodes \in Int
      /\ \A k \in DOMAIN src : src[k].blocked \in Int /\ src[k].episodes \in Int
  <2>1. \A v \in Stat : v.blocked \in Int /\ v.episodes \in Int
    BY DEF Stat
  <2> QED
    BY <2>1, MapValues
<1>3. \A k \in DOMAIN M :
        /\ M[k].blocked = (IF k \in DOMAIN dst THEN dst[k].blocked ELSE 0)
                          + (IF k \in DOMAIN src THEN src[k].blocked ELSE 0)
        /\ M[k].episodes = (IF k \in DOMAIN dst THEN dst[k].episodes ELSE 0)
                           + (IF k \in DOMAIN src THEN src[k].episodes ELSE 0)
  BY DEF MergeStats, AddStat, StatOf, NoStat
<1> HIDE DEF M
<1>4. SumFunction(BlockedOf(M)) = SumFunction(BlockedOf(dst)) + SumFunction(BlockedOf(src))
  <2> DEFINE f == BlockedOf(dst)
             g == BlockedOf(src)
             h == BlockedOf(M)
  <2>1. /\ DOMAIN f = DOMAIN dst /\ DOMAIN g = DOMAIN src /\ DOMAIN h = DOMAIN M
        /\ \A x \in DOMAIN f : f[x] = dst[x].blocked
        /\ \A x \in DOMAIN g : g[x] = src[x].blocked
        /\ \A x \in DOMAIN h : h[x] = M[x].blocked
    BY DEF BlockedOf
  <2> HIDE DEF f, g, h
  <2>2. IsFiniteSet(DOMAIN f) /\ IsFiniteSet(DOMAIN g) /\ DOMAIN h = DOMAIN f \cup DOMAIN g
    BY <1>1, <2>1
  <2>3. (\A x \in DOMAIN f : f[x] \in Int) /\ \A x \in DOMAIN g : g[x] \in Int
    BY <1>2, <2>1
  <2>4. \A x \in DOMAIN h : h[x] = (IF x \in DOMAIN f THEN f[x] ELSE 0)
                                   + (IF x \in DOMAIN g THEN g[x] ELSE 0)
    BY <1>3, <2>1
  <2>5. SumFunction(h) = SumFunction(f) + SumFunction(g)
    BY <2>2, <2>3, <2>4, SumMerge
  <2> QED
    BY <2>5 DEF f, g, h
<1>5. SumFunction(EpisodesOf(M)) = SumFunction(EpisodesOf(dst)) + SumFunction(EpisodesOf(src))
  <2> DEFINE f == EpisodesOf(dst)
             g == EpisodesOf(src)
             h == EpisodesOf(M)
  <2>1. /\ DOMAIN f = DOMAIN dst /\ DOMAIN g = DOMAIN src /\ DOMAIN h = DOMAIN M
        /\ \A x \in DOMAIN f : f[x] = dst[x].episodes
        /\ \A x \in DOMAIN g : g[x] = src[x].episodes
        /\ \A x \in DOMAIN h : h[x] = M[x].episodes
    BY DEF EpisodesOf
  <2> HIDE DEF f, g, h
  <2>2. IsFiniteSet(DOMAIN f) /\ IsFiniteSet(DOMAIN g) /\ DOMAIN h = DOMAIN f \cup DOMAIN g
    BY <1>1, <2>1
  <2>3. (\A x \in DOMAIN f : f[x] \in Int) /\ \A x \in DOMAIN g : g[x] \in Int
    BY <1>2, <2>1
  <2>4. \A x \in DOMAIN h : h[x] = (IF x \in DOMAIN f THEN f[x] ELSE 0)
                                   + (IF x \in DOMAIN g THEN g[x] ELSE 0)
    BY <1>3, <2>1
  <2>5. SumFunction(h) = SumFunction(f) + SumFunction(g)
    BY <2>2, <2>3, <2>4, SumMerge
  <2> QED
    BY <2>5 DEF f, g, h
<1> QED
  BY <1>1, <1>4, <1>5, FS_Union DEF M

(* It keeps the larger of two maxima. *)
LEMMA MergeKeepsGreatest ==
  ASSUME NEW dst, NEW src, NEW K, IsMap(dst, K, Stat), IsMap(src, K, Stat),
         NEW m \in Nat, IsGreatest(m, {0} \cup MaximaOf(dst)),
         NEW n \in Nat, IsGreatest(n, {0} \cup MaximaOf(src))
  PROVE  IsGreatest(Larger(m, n), {0} \cup MaximaOf(MergeStats(dst, src)))
<1> DEFINE M == MergeStats(dst, src)
<1>1. DOMAIN M = DOMAIN dst \cup DOMAIN src
  BY DEF MergeStats
<1>2. /\ \A k \in DOMAIN dst : dst[k].max \in Nat /\ dst[k].max <= m
      /\ \A k \in DOMAIN src : src[k].max \in Nat /\ src[k].max <= n
  <2>1. \A v \in Stat : v.max \in Nat
    BY DEF Stat
  <2> QED
    BY <2>1, MapValues DEF IsGreatest, MaximaOf
<1>3. /\ m = 0 \/ \E k \in DOMAIN dst : dst[k].max = m
      /\ n = 0 \/ \E k \in DOMAIN src : src[k].max = n
  BY DEF IsGreatest, MaximaOf
<1>4. \A k \in DOMAIN M :
        M[k].max = Larger(IF k \in DOMAIN dst THEN dst[k].max ELSE 0,
                          IF k \in DOMAIN src THEN src[k].max ELSE 0)
  BY DEF MergeStats, AddStat, StatOf, NoStat
<1> HIDE DEF M
<1>5. \A k \in DOMAIN M : M[k].max <= Larger(m, n)
  BY <1>1, <1>2, <1>4 DEF Larger
<1>6. Larger(m, n) = 0 \/ \E k \in DOMAIN M : M[k].max = Larger(m, n)
  <2>1. CASE m > n
    <3>1. PICK k \in DOMAIN dst : dst[k].max = m
      BY <1>3, <2>1
    <3>2. M[k].max = Larger(m, n)
      BY <1>1, <1>2, <1>4, <2>1, <3>1 DEF Larger
    <3> QED
      BY <1>1, <3>2
  <2>2. CASE ~(m > n) /\ n # 0
    <3>1. PICK k \in DOMAIN src : src[k].max = n
      BY <1>3, <2>2
    <3>2. M[k].max = Larger(m, n)
      BY <1>1, <1>2, <1>4, <2>2, <3>1 DEF Larger
    <3> QED
      BY <1>1, <3>2
  <2>3. CASE ~(m > n) /\ n = 0
    BY <2>3 DEF Larger
  <2> QED
    BY <2>1, <2>2, <2>3
<1> QED
  <2>1. 0 <= Larger(m, n)
    BY DEF Larger
  <2>2. IsGreatest(Larger(m, n), {0} \cup MaximaOf(M))
    BY <1>5, <1>6, <2>1 DEF IsGreatest, MaximaOf
  <2> QED
    BY <2>2 DEF M

(***************************************************************************)
(* One detection added to another: what mergeBlocking does, and record for *)
(* the detection of one episode.  record leaves the contexts alone when    *)
(* the episode has none.                                                   *)
(***************************************************************************)
LEMMA SharesMerge ==
  ASSUME NEW a, IsRollup(a), IsFiniteRollup(a), SharesAddUp(a),
         NEW c, IsRollup(c), IsFiniteRollup(c), SharesAddUp(c),
         NEW b,
         b.episodes = a.episodes + c.episodes, b.blocked = a.blocked + c.blocked,
         b.max = Larger(a.max, c.max),
         b.functions = MergeStats(a.functions, c.functions),
         b.contexts \in {a.contexts, MergeStats(a.contexts, c.contexts)}
  PROVE  IsFiniteRollup(b) /\ SharesAddUp(b)
<1>1. /\ IsMap(a.functions, Fns, Stat) /\ IsMap(a.contexts, Labels \cup {NoLabel}, Stat)
      /\ a.episodes \in Nat /\ a.blocked \in Nat /\ a.max \in Nat
  BY DEF IsRollup
<1>2. /\ IsMap(c.functions, Fns, Stat) /\ IsMap(c.contexts, Labels \cup {NoLabel}, Stat)
      /\ c.episodes \in Nat /\ c.blocked \in Nat /\ c.max \in Nat
  BY DEF IsRollup
<1>3. /\ IsFiniteSet(DOMAIN a.functions) /\ IsFiniteSet(DOMAIN a.contexts)
      /\ IsFiniteSet(DOMAIN c.functions) /\ IsFiniteSet(DOMAIN c.contexts)
  BY DEF IsFiniteRollup
<1>4. /\ IsFiniteSet(DOMAIN b.functions)
      /\ SumFunction(BlockedOf(b.functions))
           = SumFunction(BlockedOf(a.functions)) + SumFunction(BlockedOf(c.functions))
      /\ SumFunction(EpisodesOf(b.functions))
           = SumFunction(EpisodesOf(a.functions)) + SumFunction(EpisodesOf(c.functions))
  BY <1>1, <1>2, <1>3, MergeAdds
<1>5. IsGreatest(b.max, {0} \cup MaximaOf(b.functions))
  <2> DEFINE M == MergeStats(a.functions, c.functions)
  <2>1. IsGreatest(a.max, {0} \cup MaximaOf(a.functions))
    BY DEF SharesAddUp
  <2>2. IsGreatest(c.max, {0} \cup MaximaOf(c.functions))
    BY DEF SharesAddUp
  <2>3. IsGreatest(Larger(a.max, c.max), {0} \cup MaximaOf(M))
    BY <1>1, <1>2, <2>1, <2>2, MergeKeepsGreatest
  <2>4. b.functions = M /\ b.max = Larger(a.max, c.max)
    OBVIOUS
  <2> HIDE DEF M
  <2> QED
    BY <2>3, <2>4
<1>6. SumFunction(EpisodesOf(a.contexts)) \in Nat /\ SumFunction(EpisodesOf(c.contexts)) \in Nat
  <2>1. ASSUME NEW s, IsMap(s, Labels \cup {NoLabel}, Stat), IsFiniteSet(DOMAIN s)
        PROVE  SumFunction(EpisodesOf(s)) \in Nat
    <3> DEFINE f == EpisodesOf(s)
    <3>1. \A v \in Stat : v.episodes \in Nat
      BY DEF Stat
    <3>2. DOMAIN f = DOMAIN s /\ \A k \in DOMAIN s : f[k] = s[k].episodes
      BY DEF EpisodesOf
    <3>3. \A k \in DOMAIN f : f[k] \in Nat
      BY <2>1, <3>1, <3>2, MapValues
    <3> HIDE DEF f
    <3>4. SumFunctionOnSet(f, DOMAIN f) \in Nat
      BY <2>1, <3>2, <3>3, SumNat
    <3> QED
      BY <3>4 DEF SumFunction, f
  <2> QED
    BY <1>1, <1>2, <1>3, <2>1
<1>7. /\ IsFiniteSet(DOMAIN b.contexts)
      /\ SumFunction(EpisodesOf(b.contexts))
           \in {SumFunction(EpisodesOf(a.contexts)),
                SumFunction(EpisodesOf(a.contexts)) + SumFunction(EpisodesOf(c.contexts))}
  <2>1. CASE b.contexts = a.contexts
    BY <2>1, <1>3
  <2>2. CASE b.contexts = MergeStats(a.contexts, c.contexts)
    <3> DEFINE K == Labels \cup {NoLabel}
    <3>1. IsMap(a.contexts, K, Stat) /\ IsMap(c.contexts, K, Stat)
      BY <1>1, <1>2
    <3> HIDE DEF K
    <3>2. /\ IsFiniteSet(DOMAIN MergeStats(a.contexts, c.contexts))
          /\ SumFunction(EpisodesOf(MergeStats(a.contexts, c.contexts)))
               = SumFunction(EpisodesOf(a.contexts)) + SumFunction(EpisodesOf(c.contexts))
      BY <1>3, <3>1, MergeAdds
    <3> QED
      BY <2>2, <3>2
  <2> QED
    BY <2>1, <2>2
<1>8. /\ SumFunction(BlockedOf(a.functions)) = a.blocked
      /\ SumFunction(BlockedOf(c.functions)) = c.blocked
      /\ SumFunction(EpisodesOf(a.functions)) = a.episodes
      /\ SumFunction(EpisodesOf(c.functions)) = c.episodes
      /\ SumFunction(EpisodesOf(a.contexts)) <= a.episodes
      /\ SumFunction(EpisodesOf(c.contexts)) <= c.episodes
  BY DEF SharesAddUp
<1>9. SumFunction(EpisodesOf(b.contexts)) <= a.episodes + c.episodes
  BY <1>1, <1>2, <1>6, <1>7, <1>8
<1>10. IsFiniteRollup(b)
  BY <1>4, <1>7 DEF IsFiniteRollup
<1>11. /\ SumFunction(BlockedOf(b.functions)) = b.blocked
       /\ SumFunction(EpisodesOf(b.functions)) = b.episodes
       /\ SumFunction(EpisodesOf(b.contexts)) <= b.episodes
  BY <1>4, <1>8, <1>9
<1> QED
  BY <1>5, <1>10, <1>11 DEF SharesAddUp

(* The shares of one episode: its time, and one episode for the dominant.  *)
LEMMA BlameAdds ==
  ASSUME NEW times, NEW K, IsMap(times, K, Int), IsFiniteSet(DOMAIN times),
         NEW dom \in DOMAIN times, NEW micros \in Nat
  PROVE  /\ SumFunction(BlockedOf(Blame(times, dom, micros))) = SumFunction(times)
         /\ SumFunction(EpisodesOf(Blame(times, dom, micros))) = 1
         /\ IsGreatest(micros, {0} \cup MaximaOf(Blame(times, dom, micros)))
<1> DEFINE B == Blame(times, dom, micros)
           D == DOMAIN times
<1>1. /\ DOMAIN B = D
      /\ \A k \in D : /\ B[k].blocked = times[k]
                      /\ B[k].episodes = IF k = dom THEN 1 ELSE 0
                      /\ B[k].max = IF k = dom THEN micros ELSE 0
  BY DEF Blame
<1>2. \A k \in D : times[k] \in Int
  BY MapValues
<1> HIDE DEF B
<1>3. SumFunction(BlockedOf(B)) = SumFunction(times)
  <2> DEFINE f == BlockedOf(B)
  <2>1. DOMAIN f = D /\ \A k \in D : f[k] = times[k]
    BY <1>1 DEF BlockedOf
  <2> HIDE DEF f
  <2>2. SumFunctionOnSet(f, D) = SumFunctionOnSet(times, D)
    BY <1>2, <2>1, SumSame
  <2>3. SumFunction(f) = SumFunction(times)
    BY <2>1, <2>2 DEF SumFunction
  <2> QED
    BY <2>3 DEF f
<1>4. SumFunction(EpisodesOf(B)) = 1
  <2> DEFINE f == EpisodesOf(B)
  <2>1. DOMAIN f = D /\ \A k \in D : f[k] = IF k = dom THEN 1 ELSE 0
    BY <1>1 DEF EpisodesOf
  <2> HIDE DEF f
  <2>2. {dom} \subseteq D /\ f[dom] = 1 /\ (\A k \in {dom} : f[k] \in Int)
        /\ \A k \in D \ {dom} : f[k] = 0
    BY <2>1
  <2>3. SumFunctionOnSet(f, D) = SumFunctionOnSet(f, {dom})
    BY <2>2, SumZeros
  <2>4. SumFunctionOnSet(f, {dom}) = f[dom]
    BY <2>2, SumSingleton
  <2>5. SumFunction(f) = 1
    BY <2>1, <2>2, <2>3, <2>4 DEF SumFunction
  <2> QED
    BY <2>5 DEF f
<1>5. IsGreatest(micros, {0} \cup MaximaOf(B))
  BY <1>1 DEF IsGreatest, MaximaOf
<1> QED
  BY <1>3, <1>4, <1>5 DEF B

(* A sample's time goes to one key.                                        *)
LEMMA CreditAdds ==
  ASSUME NEW times, NEW K, IsMap(times, K, Int), IsFiniteSet(DOMAIN times),
         NEW key, NEW d \in Int
  PROVE  /\ IsFiniteSet(DOMAIN Credit(times, key, d))
         /\ SumFunction(Credit(times, key, d)) = SumFunction(times) + d
<1> DEFINE g == [k \in {key} |-> d]
           h == Credit(times, key, d)
<1>1. DOMAIN g = {key} /\ g[key] = d /\ DOMAIN h = DOMAIN times \cup DOMAIN g
  BY DEF Credit
<1>a. \A k \in DOMAIN h : h[k] = (IF k \in DOMAIN times THEN times[k] ELSE 0)
                                 + (IF k \in DOMAIN g THEN g[k] ELSE 0)
  BY DEF Credit
<1>2. (\A k \in DOMAIN times : times[k] \in Int) /\ \A k \in DOMAIN g : g[k] \in Int
  BY MapValues
<1>3. IsFiniteSet(DOMAIN g)
  BY FS_Singleton
<1> HIDE DEF g, h
<1>4. SumFunction(h) = SumFunction(times) + SumFunction(g)
  <2>1. /\ \A k \in DOMAIN times : times[k] \in Int
        /\ \A k \in DOMAIN g : g[k] \in Int
    BY <1>2
  <2>2. DOMAIN h = DOMAIN times \cup DOMAIN g
    BY <1>1
  <2> QED
    BY <1>3, <1>a, <2>1, <2>2, SumMerge
<1>5. SumFunction(g) = d
  <2>1. SumFunctionOnSet(g, {key}) = d
    BY <1>1, SumSingleton
  <2> QED
    BY <1>1, <2>1 DEF SumFunction
<1>6. IsFiniteSet(DOMAIN h)
  BY <1>1, <1>3, FS_Union
<1> QED
  BY <1>4, <1>5, <1>6 DEF h

-----------------------------------------------------------------------------
(* The detection that record makes of one episode.                         *)
OfEpisode(e, lbl) ==
  [episodes |-> 1, blocked |-> e.micros, max |-> e.micros,
   functions |-> Blame(e.leaf, e.domKey, e.micros),
   contexts |-> Blame(Credit(e.ctx, lbl, 0), lbl, e.micros), top |-> <<>>]

LEMMA SharesOfEpisode ==
  ASSUME IsEpisode(ep), EpisodeAddsUp, LongEnough(ep), NEW lbl \in Labels \cup {NoLabel}
  PROVE  /\ IsRollup(OfEpisode(ep, lbl))
         /\ IsFiniteRollup(OfEpisode(ep, lbl))
         /\ SharesAddUp(OfEpisode(ep, lbl))
<1>1. IsMap(ep.leaf, Fns, Int) /\ IsMap(ep.ctx, Labels, Int) /\ ep.micros \in Int
      /\ ep.domMic \in Nat
  BY DEF IsEpisode
<1>2. Threshold \in Nat \ {0} /\ ep.micros >= Threshold /\ ep.micros \in Nat
  BY <1>1, BlockingAssumption DEF LongEnough
<1>3. IsFiniteSet(DOMAIN ep.leaf) /\ IsFiniteSet(DOMAIN ep.ctx)
  BY DEF EpisodeAddsUp
<1>4. ep.domKey \in DOMAIN ep.leaf
  <2> SUFFICES ASSUME ep.domMic = 0 PROVE FALSE
    BY DEF EpisodeAddsUp
  <2> DEFINE f == ep.leaf
             D == DOMAIN ep.leaf
  <2>1. \A k \in D : f[k] \in Int
    BY <1>1, MapValues
  <2>2. \A k \in D : f[k] <= 0
    BY DEF EpisodeAddsUp
  <2>3. SumFunctionOnSet(f, D) = ep.micros /\ IsFiniteSet(D)
    BY <1>3 DEF EpisodeAddsUp, SumFunction
  <2> HIDE DEF f, D
  <2>4. SumFunctionOnSet(f, D) <= 0 * Cardinality(D)
    BY <2>1, <2>2, <2>3, SumBounds
  <2>5. Cardinality(D) \in Nat
    BY <2>3, FS_CardinalityType
  <2>6. 0 * Cardinality(D) = 0
    BY <2>5
  <2> QED
    BY <1>2, <2>3, <2>4, <2>6
<1> DEFINE K == Labels \cup {NoLabel}
           ctx == Credit(ep.ctx, lbl, 0)
           B == Blame(ep.leaf, ep.domKey, ep.micros)
           C == Blame(ctx, lbl, ep.micros)
<1>5. IsMap(ctx, K, Int) /\ IsFiniteSet(DOMAIN ctx) /\ lbl \in DOMAIN ctx
  <2>1. IsMap(ep.ctx, K, Int)
    BY <1>1, WiderMap
  <2>2. lbl \in K /\ 0 \in Int
    OBVIOUS
  <2>3. lbl \in DOMAIN ctx
    BY DEF Credit
  <2> HIDE DEF K
  <2>4. IsMap(Credit(ep.ctx, lbl, 0), K, Int)
    BY <2>1, <2>2, CreditIsMap
  <2>5. IsFiniteSet(DOMAIN Credit(ep.ctx, lbl, 0))
    BY <1>3, <2>1, <2>2, CreditAdds
  <2> QED
    BY <2>3, <2>4, <2>5
<1>6. IsMap(B, Fns, Stat) /\ IsFiniteSet(DOMAIN B)
  <2>1. DOMAIN B = DOMAIN ep.leaf
    BY DEF Blame
  <2> QED
    BY <1>1, <1>2, <1>3, <2>1, BlameIsMap
<1>7. IsMap(C, K, Stat) /\ IsFiniteSet(DOMAIN C)
  <2>1. DOMAIN C = DOMAIN ctx
    BY DEF Blame
  <2> HIDE DEF K, ctx
  <2>2. IsMap(C, K, Stat)
    BY <1>2, <1>5, BlameIsMap
  <2>3. IsFiniteSet(DOMAIN C)
    BY <1>5, <2>1
  <2> QED
    BY <2>2, <2>3
<1>8. /\ SumFunction(BlockedOf(B)) = ep.micros
      /\ SumFunction(EpisodesOf(B)) = 1
      /\ IsGreatest(ep.micros, {0} \cup MaximaOf(B))
  <2>1. SumFunction(ep.leaf) = ep.micros
    BY DEF EpisodeAddsUp
  <2> QED
    BY <1>1, <1>2, <1>3, <1>4, <2>1, BlameAdds
<1>9. SumFunction(EpisodesOf(C)) <= 1
  <2> HIDE DEF K, ctx
  <2>1. SumFunction(EpisodesOf(C)) = 1
    BY <1>2, <1>5, BlameAdds
  <2> QED
    BY <2>1
<1>10. OfEpisode(ep, lbl) =
         [episodes |-> 1, blocked |-> ep.micros, max |-> ep.micros,
          functions |-> B, contexts |-> C, top |-> <<>>]
  BY DEF OfEpisode
<1> HIDE DEF B, C
<1>11. IsRollup(OfEpisode(ep, lbl))
  BY <1>2, <1>6, <1>7, <1>10 DEF IsRollup
<1>12. IsFiniteRollup(OfEpisode(ep, lbl))
  BY <1>6, <1>7, <1>10 DEF IsFiniteRollup
<1>13. SharesAddUp(OfEpisode(ep, lbl))
  BY <1>8, <1>9, <1>10 DEF SharesAddUp
<1> QED
  BY <1>11, <1>12, <1>13

(* Closing an episode keeps what adds up.                                  *)
LEMMA ClosedAddsUp ==
  ASSUME TypeOK, EpisodeAddsUp, IsFiniteRollup(rollup), SharesAddUp(rollup),
         NEW b \in Closed
  PROVE  IsFiniteRollup(b) /\ SharesAddUp(b)
<1>1. IsRollup(rollup) /\ IsEpisode(ep)
  BY DEF TypeOK
<1>2. CASE ~LongEnough(ep)
  BY <1>2 DEF Closed
<1>3. CASE LongEnough(ep)
  <2>1. PICK lbl \in Dominant(ep.ctx) : b = Recorded(rollup, ep, lbl)
    BY <1>3 DEF Closed
  <2>2. lbl \in Labels \cup {NoLabel}
    BY <1>1 DEF Dominant, IsEpisode, IsMap
  <2> DEFINE c == OfEpisode(ep, lbl)
  <2>3. IsRollup(c) /\ IsFiniteRollup(c) /\ SharesAddUp(c)
    BY <1>1, <1>3, <2>2, SharesOfEpisode
  <2>4. /\ b.episodes = rollup.episodes + c.episodes
        /\ b.blocked = rollup.blocked + c.blocked
        /\ b.max = Larger(rollup.max, c.max)
        /\ b.functions = MergeStats(rollup.functions, c.functions)
        /\ b.contexts \in {rollup.contexts, MergeStats(rollup.contexts, c.contexts)}
    BY <2>1 DEF Recorded, OfEpisode
  <2> HIDE DEF c
  <2> QED
    BY <1>1, <2>3, <2>4, SharesMerge
<1> QED
  BY <1>2, <1>3

(* A busy sample adds its time to the episode and to its function.         *)
LEMMA ExtendAddsUp ==
  ASSUME IsEpisode(ep), EpisodeAddsUp, NEW s \in Sample, s.id \in Nodes, NEW i,
         ep' = Extend(ep, s, i)
  PROVE  EpisodeAddsUp'
<1> DEFINE fn == FnOf[s.id]
           leaf == Credit(ep.leaf, fn, s.delta)
           ctx == IF s.label = NoLabel THEN ep.ctx ELSE Credit(ep.ctx, s.label, s.delta)
           ahead == leaf[fn] > ep.domMic
<1>1. s.delta \in Int /\ IsMap(ep.leaf, Fns, Int) /\ IsMap(ep.ctx, Labels, Int)
      /\ ep.domMic \in Nat
  BY DEF Sample, IsEpisode
<1>2. IsFiniteSet(DOMAIN ep.leaf) /\ IsFiniteSet(DOMAIN ep.ctx)
      /\ SumFunction(ep.leaf) = ep.micros
      /\ (\A k \in DOMAIN ep.leaf : ep.leaf[k] <= ep.domMic)
      /\ (ep.domMic = 0 \/ ep.domKey \in DOMAIN ep.leaf)
  BY DEF EpisodeAddsUp
<1>3. IsFiniteSet(DOMAIN leaf) /\ SumFunction(leaf) = ep.micros + s.delta
  BY <1>1, <1>2, CreditAdds
<1>4. IsFiniteSet(DOMAIN ctx)
  <2>1. IsFiniteSet(DOMAIN Credit(ep.ctx, s.label, s.delta))
    BY <1>1, <1>2, CreditAdds
  <2> QED
    BY <1>2, <2>1
<1>5. /\ ep'.leaf = leaf /\ ep'.ctx = ctx /\ ep'.micros = ep.micros + s.delta
      /\ ep'.domKey = (IF ahead THEN fn ELSE ep.domKey)
      /\ ep'.domMic = (IF ahead THEN leaf[fn] ELSE ep.domMic)
  BY DEF Extend
<1>6. DOMAIN leaf = DOMAIN ep.leaf \cup {fn}
      /\ (\A k \in DOMAIN ep.leaf : ep.leaf[k] \in Int)
      /\ (\A k \in DOMAIN ep.leaf \ {fn} : leaf[k] = ep.leaf[k])
      /\ leaf[fn] \in Int
  <2>1. \A k \in DOMAIN ep.leaf : ep.leaf[k] \in Int
    BY <1>1, MapValues
  <2> QED
    BY <1>1, <2>1 DEF Credit
<1> HIDE DEF leaf, ctx, fn
<1>7. \A k \in DOMAIN leaf : leaf[k] <= ep'.domMic
  BY <1>1, <1>2, <1>5, <1>6
<1>8. ep'.domMic = 0 \/ ep'.domKey \in DOMAIN leaf
  BY <1>2, <1>5, <1>6
<1> QED
  BY <1>3, <1>4, <1>5, <1>7, <1>8 DEF EpisodeAddsUp

(* The functions of a cut list have at least their part by number of the time. *)
LEMMA TopRowsExplain ==
  ASSUME NEW b, IsRollup(b), IsFiniteRollup(b), SharesAddUp(b), NEW topN,
         NEW K \in TopRows(b.functions, topN)
  PROVE  SumFunctionOnSet(BlockedOf(b.functions), K)
           * Cardinality(DOMAIN BlockedOf(b.functions)) >= b.blocked * Cardinality(K)
<1> DEFINE f == BlockedOf(b.functions)
           D == DOMAIN b.functions
<1>1. DOMAIN f = D /\ \A k \in D : f[k] = b.functions[k].blocked
  BY DEF BlockedOf
<1>2. \A k \in D : f[k] \in Int
  <2>1. \A v \in Stat : v.blocked \in Int
    BY DEF Stat
  <2>2. IsMap(b.functions, Fns, Stat)
    BY DEF IsRollup
  <2>3. \A k \in D : b.functions[k] \in Stat
    BY <2>2, MapValues
  <2> QED
    BY <1>1, <2>1, <2>3
<1>3. K \subseteq D /\ \A k \in K, j \in D \ K : f[k] >= f[j]
  BY <1>1 DEF TopRows
<1>4. IsFiniteSet(D) /\ SumFunctionOnSet(f, D) = b.blocked
  BY <1>1 DEF IsFiniteRollup, SharesAddUp, SumFunction
<1> HIDE DEF f, D
<1>5. SumFunctionOnSet(f, K) * Cardinality(D) >= SumFunctionOnSet(f, D) * Cardinality(K)
  BY <1>2, <1>3, <1>4, TopAverage
<1> QED
  BY <1>1, <1>4, <1>5 DEF f

-----------------------------------------------------------------------------
(* The scan                                                                *)
(* tt has the samples of ss and perhaps more.                              *)
Extends(tt, ss) ==
  /\ tt \in Seq(Sample) /\ ss \in Seq(Sample)
  /\ Len(ss) <= Len(tt) /\ \A k \in 1..Len(ss) : tt[k] = ss[k]

LEMMA DurationInt ==
  ASSUME NEW ss \in Seq(Sample), NEW i \in 1..Len(ss), NEW j \in 0..Len(ss)
  PROVE  Duration(ss, i, j) \in Int
<1> DEFINE f == [k \in DOMAIN ss |-> ss[k].delta]
<1>1. \A k \in 1..Len(ss) : f[k] \in Int
  <2>1. \A s \in Sample : s.delta \in Int
    BY DEF Sample
  <2> QED
    BY <2>1
<1>2. i..j \subseteq 1..Len(ss) /\ i \in Int /\ j \in Int
  OBVIOUS
<1>3. IsFiniteSet(i..j)
  BY <1>2, FS_Interval
<1> HIDE DEF f
<1>4. \A k \in i..j : f[k] \in Int
  BY <1>1, <1>2
<1>5. SumFunctionOnSet(f, i..j) \in Int
  BY <1>3, <1>4, SumInt
<1> QED
  BY <1>5 DEF Duration, f

LEMMA DurationSame ==
  ASSUME NEW ss, NEW tt, Extends(tt, ss), NEW i \in 1..Len(ss), NEW j \in 0..Len(ss)
  PROVE  Duration(tt, i, j) = Duration(ss, i, j)
<1> DEFINE f == [k \in DOMAIN ss |-> ss[k].delta]
           g == [k \in DOMAIN tt |-> tt[k].delta]
<1>1. \A k \in 1..Len(ss) : f[k] \in Int /\ g[k] = f[k]
  <2>1. \A s \in Sample : s.delta \in Int
    BY DEF Sample
  <2> QED
    BY <2>1 DEF Extends
<1>2. Len(ss) \in Nat
  BY DEF Extends
<1>3. i..j \subseteq 1..Len(ss) /\ i \in Int /\ j \in Int
  BY <1>2
<1>4. IsFiniteSet(i..j)
  BY <1>3, FS_Interval
<1> HIDE DEF f, g
<1>5. \A k \in i..j : f[k] \in Int /\ g[k] = f[k]
  BY <1>1, <1>3
<1>6. SumFunctionOnSet(g, i..j) = SumFunctionOnSet(f, i..j)
  BY <1>4, <1>5, SumSame
<1> QED
  BY <1>6 DEF Duration, f, g

LEMMA TasksFinite ==
  ASSUME NEW ss \in Seq(Sample)
  PROVE  /\ IsFiniteSet(TasksIn(ss))
         /\ \A r \in TasksIn(ss) : Durations(ss)[r] \in Int
<1>1. Len(ss) \in Nat
  OBVIOUS
<1> DEFINE P == (1..Len(ss)) \X (1..Len(ss))
<1>2. IsFiniteSet(1..Len(ss))
  BY <1>1, FS_Interval
<1>3. IsFiniteSet(P)
  BY <1>2, FS_Product
<1>4. TasksIn(ss) \in SUBSET P
  BY DEF TasksIn
<1>5. IsFiniteSet(TasksIn(ss))
  BY <1>3, <1>4, FS_Subset
<1>6. ASSUME NEW r \in TasksIn(ss) PROVE Durations(ss)[r] \in Int
  <2>1. r[1] \in 1..Len(ss) /\ r[2] \in 0..Len(ss)
    BY <1>1, <1>4
  <2>2. Durations(ss)[r] = Duration(ss, r[1], r[2])
    BY DEF Durations
  <2> QED
    BY <2>1, <2>2, DurationInt
<1> QED
  BY <1>5, <1>6

(* A run that ends before a boundary is one however the profile goes on.   *)
LEMMA TasksBeforeBoundary ==
  ASSUME NEW ss, NEW tt, Extends(tt, ss), NEW cut \in 0..Len(ss),
         cut = 0 \/ ~IsBusy(ss[cut])
  PROVE  /\ {r \in TasksIn(tt) : r[2] <= cut} = {r \in TasksIn(ss) : r[2] <= cut}
         /\ \A r \in TasksIn(ss) : r[2] <= cut => Durations(tt)[r] = Durations(ss)[r]
<1>1. Len(ss) \in Nat /\ Len(tt) \in Nat /\ Len(ss) <= Len(tt)
      /\ \A k \in 1..Len(ss) : tt[k] = ss[k]
  BY DEF Extends
<1>2. ASSUME NEW i \in 1..Len(tt), NEW j \in 1..Len(tt), j <= cut
      PROVE  /\ IsRun(tt, i, j) <=> IsRun(ss, i, j)
             /\ IsRun(tt, i, j) => i \in 1..Len(ss) /\ j \in 1..Len(ss)
  <2>1. j \in 1..Len(ss) /\ cut # 0 /\ ~IsBusy(ss[cut]) /\ tt[cut] = ss[cut]
    BY <1>1, <1>2
  <2>2. CASE j = cut
    <3>1. ~IsBusy(ss[j]) /\ ~IsBusy(tt[j])
      BY <2>1, <2>2
    <3>2. \A k : ~(i <= j) \/ j \in i..j
      BY <2>1
    <3> QED
      BY <3>1, <3>2, <2>1, <1>1 DEF IsRun
  <2>3. CASE j < cut /\ ~(i <= j)
    BY <2>3 DEF IsRun
  <2>4. CASE j < cut /\ i <= j
    <3>1. /\ i \in 1..Len(ss) /\ j + 1 \in 1..Len(ss) /\ j # Len(ss) /\ j # Len(tt)
          /\ tt[j + 1] = ss[j + 1] /\ (i # 1 => tt[i - 1] = ss[i - 1])
          /\ \A k \in i..j : tt[k] = ss[k]
      <4>1. cut \in Nat /\ cut <= Len(ss) /\ i \in Nat /\ i >= 1 /\ j \in Nat
        BY <1>1
      <4>2. /\ i \in 1..Len(ss) /\ j + 1 \in 1..Len(ss) /\ j # Len(ss) /\ j # Len(tt)
            /\ (i # 1 => i - 1 \in 1..Len(ss)) /\ i..j \subseteq 1..Len(ss)
        BY <1>1, <2>4, <4>1
      <4> QED
        BY <1>1, <4>2
    <3>2. (\A k \in i..j : IsBusy(tt[k])) <=> (\A k \in i..j : IsBusy(ss[k]))
      BY <3>1
    <3> QED
      BY <2>1, <3>1, <3>2 DEF IsRun
  <2> QED
    BY <1>2, <2>2, <2>3, <2>4
<1>3. \A i \in 1..Len(ss), j \in 1..Len(ss) : Duration(tt, i, j) = Duration(ss, i, j)
  <2>1. 1..Len(ss) \subseteq 0..Len(ss)
    BY <1>1
  <2> QED
    BY <2>1, DurationSame
<1>4. \A r : r \in TasksIn(tt) /\ r[2] <= cut <=> r \in TasksIn(ss) /\ r[2] <= cut
  <2>1. ASSUME NEW r, r \in TasksIn(tt), r[2] <= cut PROVE r \in TasksIn(ss)
    <3>1. /\ r = <<r[1], r[2]>> /\ r[1] \in 1..Len(tt) /\ r[2] \in 1..Len(tt)
          /\ IsRun(tt, r[1], r[2]) /\ Duration(tt, r[1], r[2]) >= Threshold
      BY <2>1 DEF TasksIn
    <3>2. r[1] \in 1..Len(ss) /\ r[2] \in 1..Len(ss) /\ IsRun(ss, r[1], r[2])
      BY <1>2, <2>1, <3>1
    <3>3. Duration(ss, r[1], r[2]) >= Threshold
      BY <1>3, <3>1, <3>2
    <3> QED
      BY <3>1, <3>2, <3>3 DEF TasksIn
  <2>2. ASSUME NEW r, r \in TasksIn(ss), r[2] <= cut PROVE r \in TasksIn(tt)
    <3>1. /\ r = <<r[1], r[2]>> /\ r[1] \in 1..Len(ss) /\ r[2] \in 1..Len(ss)
          /\ IsRun(ss, r[1], r[2]) /\ Duration(ss, r[1], r[2]) >= Threshold
      BY <2>2 DEF TasksIn
    <3>2. r[1] \in 1..Len(tt) /\ r[2] \in 1..Len(tt)
      BY <1>1, <3>1
    <3>3. IsRun(tt, r[1], r[2])
      BY <1>2, <2>2, <3>1, <3>2
    <3>4. Duration(tt, r[1], r[2]) >= Threshold
      BY <1>3, <3>1
    <3> QED
      BY <3>1, <3>2, <3>3, <3>4 DEF TasksIn
  <2> QED
    BY <2>1, <2>2
<1>5. ASSUME NEW r \in TasksIn(ss), r[2] <= cut
      PROVE  Durations(tt)[r] = Durations(ss)[r]
  <2>1. r \in TasksIn(tt)
    BY <1>4, <1>5
  <2>2. r[1] \in 1..Len(ss) /\ r[2] \in 1..Len(ss)
    BY DEF TasksIn
  <2> QED
    BY <1>3, <2>1, <2>2 DEF Durations
<1> QED
  BY <1>4, <1>5

(* What follows the last boundary is one run, which may be long enough.    *)
LEMMA LastRun ==
  ASSUME NEW ss, NEW tt, Extends(tt, ss), NEW cut \in 0..Len(ss),
         cut = 0 \/ ~IsBusy(ss[cut]), \A k \in (cut + 1)..Len(ss) : IsBusy(ss[k]),
         Len(tt) = Len(ss) \/ (Len(tt) = Len(ss) + 1 /\ ~IsBusy(tt[Len(tt)]))
  PROVE  /\ \A r \in TasksIn(tt) :
              r[2] <= cut \/ (cut < Len(ss) /\ r = <<cut + 1, Len(ss)>>)
         /\ cut < Len(ss) =>
              /\ <<cut + 1, Len(ss)>> \in TasksIn(tt)
                   <=> Duration(ss, cut + 1, Len(ss)) >= Threshold
              /\ <<cut + 1, Len(ss)>> \in TasksIn(tt) =>
                   Durations(tt)[<<cut + 1, Len(ss)>>] = Duration(ss, cut + 1, Len(ss))
<1> DEFINE n == Len(ss)
<1>1. n \in Nat /\ Len(tt) \in Nat /\ n <= Len(tt) /\ cut \in Nat /\ cut <= n
      /\ (\A k \in 1..n : tt[k] = ss[k])
      /\ (\A k \in (cut + 1)..n : IsBusy(tt[k]))
      /\ (cut = 0 \/ ~IsBusy(tt[cut]))
      /\ (Len(tt) = n \/ (Len(tt) = n + 1 /\ ~IsBusy(tt[n + 1])))
  <2>1. n \in Nat /\ Len(tt) \in Nat /\ n <= Len(tt) /\ \A k \in 1..n : tt[k] = ss[k]
    BY DEF Extends
  <2>2. cut \in Nat /\ cut <= n /\ (cut + 1)..n \subseteq 1..n /\ (cut # 0 => cut \in 1..n)
    BY <2>1
  <2>3. \A k \in (cut + 1)..n : IsBusy(tt[k])
    BY <2>1, <2>2
  <2>4. cut = 0 \/ ~IsBusy(tt[cut])
    BY <2>1, <2>2
  <2>a. Len(tt) = n \/ (Len(tt) = n + 1 /\ ~IsBusy(tt[Len(tt)]))
    OBVIOUS
  <2>5. Len(tt) = n \/ (Len(tt) = n + 1 /\ ~IsBusy(tt[n + 1]))
    <3> HIDE DEF n
    <3> QED
      BY <2>a
  <2> QED
    BY <2>1, <2>2, <2>3, <2>4, <2>5
<1>2. ASSUME NEW r \in TasksIn(tt), ~(r[2] <= cut)
      PROVE  cut < n /\ r = <<cut + 1, n>>
  <2>1. /\ r = <<r[1], r[2]>> /\ r[1] \in 1..Len(tt) /\ r[2] \in 1..Len(tt)
        /\ r[1] <= r[2] /\ (\A k \in r[1]..r[2] : IsBusy(tt[k]))
        /\ (r[1] = 1 \/ ~IsBusy(tt[r[1] - 1]))
        /\ (r[2] = Len(tt) \/ ~IsBusy(tt[r[2] + 1]))
    BY DEF TasksIn, IsRun
  <2>2. PICK i, j : i = r[1] /\ j = r[2]
    OBVIOUS
  <2> HIDE DEF n
  <2>3. i \in Nat /\ j \in Nat /\ i <= j /\ i >= 1 /\ j > cut
    BY <1>1, <1>2, <2>1, <2>2
  <2>4. j <= n
    <3>1. IsBusy(tt[j])
      BY <2>1, <2>2, <2>3
    <3> QED
      BY <1>1, <2>1, <2>2, <2>3, <3>1
  <2>5. i >= cut + 1
    <3> SUFFICES ASSUME i <= cut PROVE FALSE
      BY <1>1, <2>3
    <3>1. cut \in i..j /\ cut # 0
      BY <1>1, <2>3
    <3> QED
      BY <1>1, <2>1, <2>2, <3>1
  <2>6. i = cut + 1
    <3> SUFFICES ASSUME i > cut + 1 PROVE FALSE
      BY <1>1, <2>3, <2>5
    <3>1. i - 1 \in (cut + 1)..n /\ i # 1
      BY <1>1, <2>3, <2>4
    <3> QED
      BY <1>1, <2>1, <2>2, <3>1
  <2>7. j = n
    <3> SUFFICES ASSUME j < n PROVE FALSE
      BY <1>1, <2>3, <2>4
    <3>1. j + 1 \in (cut + 1)..n /\ j # Len(tt)
      BY <1>1, <2>3
    <3> QED
      BY <1>1, <2>1, <2>2, <3>1
  <2> QED
    BY <1>1, <2>1, <2>2, <2>3, <2>6, <2>7
<1>3. ASSUME cut < n
      PROVE  /\ <<cut + 1, n>> \in TasksIn(tt) <=> Duration(ss, cut + 1, n) >= Threshold
             /\ <<cut + 1, n>> \in TasksIn(tt) =>
                  Durations(tt)[<<cut + 1, n>>] = Duration(ss, cut + 1, n)
  <2>1. cut + 1 \in 1..n /\ n \in 1..n /\ n \in 0..n
    BY <1>1, <1>3
  <2>2. cut + 1 \in 1..Len(tt) /\ n \in 1..Len(tt)
    BY <1>1, <1>3
  <2>3. IsRun(tt, cut + 1, n)
    <3>1. cut + 1 <= n /\ (cut + 1) - 1 = cut /\ (cut = 0 => cut + 1 = 1)
      BY <1>1, <1>3
    <3> HIDE DEF n
    <3> QED
      BY <1>1, <3>1 DEF IsRun
  <2>4. Duration(tt, cut + 1, n) = Duration(ss, cut + 1, n)
    BY <2>1, DurationSame
  <2>5. <<cut + 1, n>> \in TasksIn(tt) <=> Duration(tt, cut + 1, n) >= Threshold
    <3> HIDE DEF n
    <3> QED
      BY <2>2, <2>3 DEF TasksIn
  <2>6. <<cut + 1, n>> \in TasksIn(tt) =>
          Durations(tt)[<<cut + 1, n>>] = Duration(tt, cut + 1, n)
    BY DEF Durations
  <2> QED
    BY <2>4, <2>5, <2>6
<1>4. \A r \in TasksIn(tt) : r[2] <= cut \/ (cut < n /\ r = <<cut + 1, n>>)
  BY <1>2
<1>5. cut < n =>
        /\ <<cut + 1, n>> \in TasksIn(tt) <=> Duration(ss, cut + 1, n) >= Threshold
        /\ <<cut + 1, n>> \in TasksIn(tt) =>
             Durations(tt)[<<cut + 1, n>>] = Duration(ss, cut + 1, n)
  BY <1>3
<1> QED
  BY <1>4, <1>5

(* The tasks of all that was scanned are those before the episode, and the *)
(* episode if it is long enough.                                            *)
LEMMA ScanSplits ==
  ASSUME TypeOK, EpisodeIsLastRun, NEW tt, Extends(tt, samples),
         \/ Len(tt) = Len(samples)
         \/ Len(tt) = Len(samples) + 1 /\ ~IsBusy(tt[Len(tt)])
  PROVE  /\ IsFiniteSet(TasksScanned)
         /\ \A r \in TasksIn(tt) : Durations(tt)[r] \in Int
         /\ \A r \in TasksScanned : /\ r \in TasksIn(samples) /\ r \in TasksIn(tt)
                                    /\ Durations(tt)[r] = Durations(samples)[r]
         /\ ~LongEnough(ep) => TasksIn(tt) = TasksScanned
         /\ LongEnough(ep) =>
              /\ Scanned < Len(samples)
              /\ TasksIn(tt) = TasksScanned \cup {<<Scanned + 1, Len(samples)>>}
              /\ <<Scanned + 1, Len(samples)>> \notin TasksScanned
              /\ Durations(tt)[<<Scanned + 1, Len(samples)>>] = ep.micros
<1> DEFINE cut == Scanned
           n == Len(samples)
           T == {r \in TasksIn(tt) : r[2] <= cut}
           last == <<cut + 1, n>>
<1>1. /\ samples \in Seq(Sample) /\ tt \in Seq(Sample) /\ n \in Nat
      /\ IsEpisode(ep)
  BY DEF TypeOK, Extends
<1>2. /\ cut \in 0..n /\ (cut = 0 \/ ~IsBusy(samples[cut]))
      /\ (\A k \in (cut + 1)..n : IsBusy(samples[k]))
      /\ ep.micros = Duration(samples, cut + 1, n)
      /\ (cut < n <=> ep.samples # 0)
  <2>1. ep.samples \in Nat
    BY <1>1 DEF IsEpisode
  <2> QED
    BY <1>1, <2>1 DEF EpisodeIsLastRun, Scanned
<1>3. /\ T = TasksScanned
      /\ \A r \in T : Durations(tt)[r] = Durations(samples)[r]
  <2>1. /\ {r \in TasksIn(tt) : r[2] <= cut} = {r \in TasksIn(samples) : r[2] <= cut}
        /\ \A r \in TasksIn(samples) : r[2] <= cut =>
             Durations(tt)[r] = Durations(samples)[r]
    <3> HIDE DEF cut
    <3> QED
      BY <1>2, TasksBeforeBoundary
  <2> QED
    BY <2>1 DEF TasksScanned
<1>4. /\ \A r \in TasksIn(tt) : r[2] <= cut \/ (cut < n /\ r = last)
      /\ cut < n =>
           /\ last \in TasksIn(tt) <=> ep.micros >= Threshold
           /\ last \in TasksIn(tt) => Durations(tt)[last] = ep.micros
  <2> HIDE DEF cut
  <2> QED
    BY <1>2, LastRun
<1>5. IsFiniteSet(T) /\ \A r \in TasksIn(tt) : Durations(tt)[r] \in Int
  <2>1. T \in SUBSET TasksIn(tt)
    OBVIOUS
  <2>2. IsFiniteSet(TasksIn(tt)) /\ \A r \in TasksIn(tt) : Durations(tt)[r] \in Int
    BY <1>1, TasksFinite
  <2> QED
    BY <2>1, <2>2, FS_Subset
<1>6. \A r \in T : r \in TasksIn(samples) /\ r \in TasksIn(tt)
  BY <1>3 DEF TasksScanned
<1>7. ~LongEnough(ep) => TasksIn(tt) = T
  <2> SUFFICES ASSUME ~(ep.micros >= Threshold) PROVE TasksIn(tt) = T
    BY DEF LongEnough
  <2> HIDE DEF cut, last, n
  <2> QED
    BY <1>4
<1>8. LongEnough(ep) =>
        /\ cut < n /\ TasksIn(tt) = T \cup {last} /\ last \notin T
        /\ Durations(tt)[last] = ep.micros
  <2> SUFFICES ASSUME LongEnough(ep)
               PROVE  /\ cut < n /\ TasksIn(tt) = T \cup {last} /\ last \notin T
                      /\ Durations(tt)[last] = ep.micros
    OBVIOUS
  <2>1. Threshold \in Nat \ {0} /\ ep.micros \in Int /\ ep.micros >= Threshold
    BY <1>1, BlockingAssumption DEF LongEnough, IsEpisode
  <2>2. cut < n
    <3>1. ep.samples # 0
      BY <2>1 DEF TypeOK
    <3> QED
      BY <1>2, <3>1
  <2>3. last \in TasksIn(tt) /\ Durations(tt)[last] = ep.micros
    BY <1>4, <2>1, <2>2
  <2>4. last \notin T
    <3>1. last[2] = n /\ ~(n <= cut)
      BY <1>1, <1>2, <2>2
    <3> HIDE DEF last, cut, n
    <3> QED
      BY <3>1
  <2>5. TasksIn(tt) = T \cup {last}
    <3> HIDE DEF cut, last, n
    <3> QED
      BY <1>4, <2>3
  <2> QED
    BY <2>2, <2>3, <2>4, <2>5
<1> HIDE DEF T
<1> QED
  BY <1>3, <1>5, <1>6, <1>7, <1>8

(* Closing the last episode of ss, or at a boundary, completes the totals. *)
LEMMA ClosedHasTasks ==
  ASSUME TypeOK, EpisodeIsLastRun, RollupMatchesScan, NEW b \in Closed,
         NEW tt, Extends(tt, samples),
         \/ Len(tt) = Len(samples)
         \/ Len(tt) = Len(samples) + 1 /\ ~IsBusy(tt[Len(tt)])
  PROVE  HasTasks(b, tt, TasksIn(tt))
<1> DEFINE T == TasksScanned
           last == <<Scanned + 1, Len(samples)>>
<1>1. IsFiniteSet(T) /\ \A r \in TasksIn(tt) : Durations(tt)[r] \in Int
  BY ScanSplits
<1>2. \A r \in T : r \in TasksIn(tt) /\ Durations(tt)[r] = Durations(samples)[r]
  BY ScanSplits
<1>3. ~LongEnough(ep) => TasksIn(tt) = T
  BY ScanSplits
<1>4. LongEnough(ep) => /\ TasksIn(tt) = T \cup {last} /\ last \notin T
                        /\ Durations(tt)[last] = ep.micros
  BY ScanSplits
<1>5. rollup.max \in Nat /\ ep.micros \in Int
  BY DEF TypeOK, IsRollup, IsEpisode
<1>6. HasTasks(rollup, tt, T)
  <2> DEFINE f == Durations(samples)
             g == Durations(tt)
  <2>1. \A r \in T : f[r] \in Int /\ g[r] = f[r]
    BY <1>1, <1>2
  <2>2. HasTasks(rollup, samples, T)
    BY DEF RollupMatchesScan
  <2> HIDE DEF T, f, g
  <2>3. SumFunctionOnSet(g, T) = SumFunctionOnSet(f, T)
    BY <1>1, <2>1, SumSame
  <2>4. {g[r] : r \in T} = {f[r] : r \in T}
    BY <2>1
  <2> QED
    BY <2>2, <2>3, <2>4 DEF HasTasks, f, g
<1>7. CASE ~LongEnough(ep)
  BY <1>3, <1>6, <1>7 DEF Closed
<1>8. CASE LongEnough(ep)
  <2>1. /\ b.episodes = rollup.episodes + 1
        /\ b.blocked = rollup.blocked + ep.micros
        /\ b.max = Larger(rollup.max, ep.micros)
    <3>1. PICK lbl \in Dominant(ep.ctx) : b = Recorded(rollup, ep, lbl)
      BY <1>8 DEF Closed
    <3> QED
      BY <3>1 DEF Recorded
  <2>2. /\ rollup.episodes = Cardinality(T)
        /\ rollup.blocked = SumFunctionOnSet(Durations(tt), T)
        /\ IsGreatest(rollup.max, {0} \cup {Durations(tt)[r] : r \in T})
    BY <1>6 DEF HasTasks
  <2>3. /\ TasksIn(tt) = T \cup {last} /\ last \notin T
        /\ Durations(tt)[last] = ep.micros
    BY <1>4, <1>8
  <2> HIDE DEF T, last
  <2>4. b.episodes = Cardinality(T \cup {last})
    <3>1. Cardinality(T \cup {last}) = Cardinality(T) + 1
      BY <1>1, <2>3, FS_AddElement
    <3> QED
      BY <2>1, <2>2, <3>1
  <2>5. b.blocked = SumFunctionOnSet(Durations(tt), T \cup {last})
    <3>1. \A r \in T \cup {last} : Durations(tt)[r] \in Int
      BY <1>1, <2>3
    <3>2. SumFunctionOnSet(Durations(tt), T \cup {last})
            = SumFunctionOnSet(Durations(tt), T) + Durations(tt)[last]
      BY <1>1, <2>3, <3>1, SumAdd
    <3> QED
      BY <2>1, <2>2, <2>3, <3>2
  <2>6. IsGreatest(b.max, {0} \cup {Durations(tt)[r] : r \in T \cup {last}})
    <3>1. /\ \A r \in T : Durations(tt)[r] \in Int /\ Durations(tt)[r] <= rollup.max
          /\ rollup.max = 0 \/ \E r \in T : Durations(tt)[r] = rollup.max
      BY <1>1, <2>2, <2>3 DEF IsGreatest
    <3>2. \A r \in T \cup {last} : Durations(tt)[r] <= b.max
      BY <1>5, <2>1, <2>3, <3>1 DEF Larger
    <3>3. 0 <= b.max
      BY <1>5, <2>1 DEF Larger
    <3>4. b.max = 0 \/ \E r \in T \cup {last} : Durations(tt)[r] = b.max
      BY <2>1, <2>3, <3>1 DEF Larger
    <3> QED
      BY <3>2, <3>3, <3>4 DEF IsGreatest
  <2> QED
    BY <2>3, <2>4, <2>5, <2>6 DEF HasTasks
<1> QED
  BY <1>7, <1>8

(* A busy sample changes nothing of what is before the episode.            *)
LEMMA BusyScans ==
  ASSUME TypeOK, EpisodeIsLastRun, RollupMatchesScan, NEW s \in Sample, IsBusy(s),
         samples' = Append(samples, s), ep'.samples = ep.samples + 1,
         ep'.micros = ep.micros + s.delta, rollup' = rollup
  PROVE  EpisodeIsLastRun' /\ RollupMatchesScan'
<1> DEFINE n == Len(samples)
           cut == Scanned
<1>1. samples \in Seq(Sample) /\ n \in Nat /\ ep.samples \in Nat
  BY DEF TypeOK, IsEpisode
<1>2. /\ samples' \in Seq(Sample) /\ Len(samples') = n + 1 /\ samples'[n + 1] = s
      /\ \A k \in 1..n : samples'[k] = samples[k]
  BY <1>1
<1>3. Extends(samples', samples)
  BY <1>1, <1>2 DEF Extends
<1>4. cut \in 0..n /\ Scanned' = cut
  BY <1>1, <1>2 DEF EpisodeIsLastRun, Scanned
<1>5. /\ (cut = 0 \/ ~IsBusy(samples[cut]))
      /\ (\A k \in (cut + 1)..n : IsBusy(samples[k]))
      /\ ep.micros = Duration(samples, cut + 1, n)
  BY DEF EpisodeIsLastRun
<1>6. EpisodeIsLastRun'
  <2> HIDE DEF cut
  <2>1. cut = 0 \/ ~IsBusy(samples'[cut])
    BY <1>2, <1>4, <1>5
  <2>2. \A k \in (cut + 1)..(n + 1) : IsBusy(samples'[k])
    <3> SUFFICES ASSUME NEW k \in (cut + 1)..(n + 1) PROVE IsBusy(samples'[k])
      OBVIOUS
    <3>1. CASE k = n + 1
      BY <1>2, <3>1
    <3>2. CASE k # n + 1
      <4>1. k \in (cut + 1)..n /\ k \in 1..n
        BY <1>1, <1>4, <3>2
      <4> QED
        BY <1>2, <1>5, <4>1
    <3> QED
      BY <3>1, <3>2
  <2>3. ep.micros + s.delta = Duration(samples', cut + 1, n + 1)
    <3> DEFINE f == [k \in DOMAIN samples |-> samples[k].delta]
               g == [k \in DOMAIN samples' |-> samples'[k].delta]
               I == (cut + 1)..n
    <3>1. \A x \in Sample : x.delta \in Int
      BY DEF Sample
    <3>2. \A k \in 1..(n + 1) : g[k] = samples'[k].delta
      BY <1>2
    <3>3. \A k \in 1..n : f[k] = samples[k].delta /\ f[k] \in Int
      BY <1>1, <3>1
    <3>4. I \subseteq 1..n /\ n + 1 \notin I /\ (cut + 1)..(n + 1) = I \cup {n + 1}
      BY <1>1, <1>4
    <3>5. IsFiniteSet(I)
      <4>1. cut + 1 \in Int /\ n \in Int
        BY <1>1, <1>4
      <4> QED
        BY <4>1, FS_Interval
    <3>6. g[n + 1] = s.delta /\ s.delta \in Int
      <4>1. n + 1 \in 1..(n + 1)
        BY <1>1
      <4> QED
        BY <1>2, <3>1, <3>2, <4>1
    <3>7. \A k \in I : f[k] \in Int /\ g[k] = f[k]
      <4> SUFFICES ASSUME NEW k \in I PROVE f[k] \in Int /\ g[k] = f[k]
        OBVIOUS
      <4>1. k \in 1..n /\ k \in 1..(n + 1)
        BY <1>1, <3>4
      <4> HIDE DEF f, g, I
      <4> QED
        BY <1>2, <3>2, <3>3, <4>1
    <3>8. ep.micros = SumFunctionOnSet(f, I)
      BY <1>5 DEF Duration
    <3>9. Duration(samples', cut + 1, n + 1) = SumFunctionOnSet(g, I \cup {n + 1})
      BY <3>4 DEF Duration
    <3> HIDE DEF f, g, I
    <3>10. \A k \in I \cup {n + 1} : g[k] \in Int
      BY <3>6, <3>7
    <3>11. SumFunctionOnSet(g, I \cup {n + 1}) = SumFunctionOnSet(g, I) + g[n + 1]
      BY <3>4, <3>5, <3>10, SumAdd
    <3>12. SumFunctionOnSet(g, I) = SumFunctionOnSet(f, I)
      BY <3>5, <3>7, SumSame
    <3> QED
      BY <3>6, <3>8, <3>9, <3>11, <3>12
  <2>4. cut >= 0
    BY <1>1, <1>4
  <2> QED
    BY <1>2, <1>4, <2>1, <2>2, <2>3, <2>4 DEF EpisodeIsLastRun
<1>7. /\ {r \in TasksIn(samples') : r[2] <= cut} = {r \in TasksIn(samples) : r[2] <= cut}
      /\ \A r \in TasksIn(samples) : r[2] <= cut =>
           Durations(samples')[r] = Durations(samples)[r]
  <2> HIDE DEF cut
  <2> QED
    BY <1>3, <1>4, <1>5, TasksBeforeBoundary
<1>8. RollupMatchesScan'
  <2> DEFINE T == TasksScanned
             f == Durations(samples)
             g == Durations(samples')
  <2>1. TasksScanned' = T
    BY <1>4, <1>7 DEF TasksScanned
  <2>2. IsFiniteSet(T) /\ \A r \in T : f[r] \in Int /\ g[r] = f[r]
    <3>1. T \in SUBSET TasksIn(samples) /\ \A r \in T : r[2] <= cut
      BY DEF TasksScanned
    <3>2. IsFiniteSet(TasksIn(samples)) /\ \A r \in TasksIn(samples) : f[r] \in Int
      BY <1>1, TasksFinite
    <3>3. IsFiniteSet(T)
      BY <3>1, <3>2, FS_Subset
    <3> QED
      BY <1>7, <3>1, <3>2, <3>3
  <2>3. HasTasks(rollup, samples, T)
    BY DEF RollupMatchesScan
  <2> HIDE DEF T, f, g
  <2>4. SumFunctionOnSet(g, T) = SumFunctionOnSet(f, T)
    BY <2>2, SumSame
  <2>5. {g[r] : r \in T} = {f[r] : r \in T}
    BY <2>2
  <2>6. HasTasks(rollup, samples', T)
    BY <2>3, <2>4, <2>5 DEF HasTasks, f, g
  <2> QED
    BY <2>1, <2>6 DEF RollupMatchesScan
<1> QED
  BY <1>6, <1>8

-----------------------------------------------------------------------------
(* The stalls of the scan                                                  *)
LEMMA ShowsSame ==
  ASSUME NEW ss, NEW tt, Extends(tt, ss), NEW r \in TasksIn(ss),
         Durations(tt)[r] = Durations(ss)[r], NEW s, Shows(s, ss, r)
  PROVE  Shows(s, tt, r)
<1>1. r[1] \in 1..Len(ss) /\ r[2] \in 1..Len(ss) /\ Len(ss) \in Nat
  BY DEF TasksIn, Extends
<1>2. \A k \in r[1]..r[2] : tt[k] = ss[k]
  <2>1. r[1]..r[2] \subseteq 1..Len(ss)
    BY <1>1
  <2> QED
    BY <2>1 DEF Extends
<1>3. PICK k \in r[1]..r[2] : /\ \A m \in r[1]..r[2] : ss[m].delta <= ss[k].delta
                              /\ \A m \in r[1]..(k - 1) : ss[m].delta < ss[k].delta
                              /\ s.stack = Stack(ss[k].id)
  BY DEF Shows
<1>4. PICK m \in r[1]..r[2] : s.context \in {ss[m].label, NoLabel}
  BY DEF Shows
<1>5. r[1]..(k - 1) \subseteq r[1]..r[2]
  BY <1>1
<1>6. /\ \A i \in r[1]..r[2] : tt[i].delta <= tt[k].delta
      /\ \A i \in r[1]..(k - 1) : tt[i].delta < tt[k].delta
      /\ s.stack = Stack(tt[k].id)
  BY <1>2, <1>3, <1>5
<1>7. s.context \in {tt[m].label, NoLabel}
  BY <1>2, <1>4
<1>8. s.duration = Durations(tt)[r] /\ s.samples = r[2] - r[1] + 1
  BY DEF Shows
<1> QED
  BY <1>6, <1>7, <1>8 DEF Shows

LEMMA KeepsWorstSame ==
  ASSUME NEW ss, NEW tt, Extends(tt, ss), NEW T, T \subseteq TasksIn(ss),
         \A r \in T : Durations(tt)[r] = Durations(ss)[r],
         NEW top, KeepsWorst(top, ss, T, Int)
  PROVE  KeepsWorst(top, tt, T, Int)
<1>1. ASSUME NEW x \in 1..Len(top) PROVE \E r \in T : Shows(top[x], tt, r)
  <2>1. PICK r \in T : Shows(top[x], ss, r)
    BY DEF KeepsWorst
  <2>2. Shows(top[x], tt, r)
    BY <2>1, ShowsSame
  <2> QED
    BY <2>2
<1>2. ASSUME NEW d \in Int
      PROVE  StallsBefore(top, d)
               = Smaller(TopLimit, Cardinality({r \in T : Durations(tt)[r] >= d}))
  <2>1. {r \in T : Durations(tt)[r] >= d} = {r \in T : Durations(ss)[r] >= d}
    OBVIOUS
  <2> QED
    BY <2>1 DEF KeepsWorst
<1> QED
  BY <1>1, <1>2 DEF KeepsWorst

(* A long task more, and its stall.                                        *)
LEMMA StallAdded ==
  ASSUME NEW top \in Seq(Stall), InOrder(top), NEW s \in Stall, NEW ss, NEW T,
         IsFiniteSet(T), KeepsWorst(top, ss, T, Int), NEW r, r \notin T, Shows(s, ss, r)
  PROVE  KeepsWorst(InsertStall(top, s), ss, T \cup {r}, Int)
<1> DEFINE new == InsertStall(top, s)
<1>1. new \in Seq(Stall) /\ Range(new) \subseteq Range(top) \cup {s}
  BY InsertKeepsOrder, InsertMembers
<1>2. ASSUME NEW x \in 1..Len(new) PROVE \E q \in T \cup {r} : Shows(new[x], ss, q)
  <2>1. new[x] \in Range(top) \cup {s}
    <3>1. x \in DOMAIN new
      BY <1>1
    <3>2. new[x] \in Range(new)
      BY <3>1 DEF Range
    <3> QED
      BY <1>1, <3>2
  <2>2. CASE new[x] = s
    BY <2>2
  <2>3. CASE new[x] \in Range(top)
    <3>1. PICK y \in 1..Len(top) : new[x] = top[y]
      BY <2>3 DEF Range
    <3>2. PICK q \in T : Shows(top[y], ss, q)
      BY DEF KeepsWorst
    <3> QED
      BY <3>1, <3>2
  <2> QED
    BY <2>1, <2>2, <2>3
<1>3. ASSUME NEW d \in Int
      PROVE  StallsBefore(new, d)
               = Smaller(TopLimit, Cardinality({q \in T \cup {r} : Durations(ss)[q] >= d}))
  <2> DEFINE A == {q \in T : Durations(ss)[q] >= d}
             B == {q \in T \cup {r} : Durations(ss)[q] >= d}
             a == Cardinality(A)
  <2>1. IsFiniteSet(A) /\ a \in Nat /\ r \notin A
    <3>1. A \in SUBSET T
      OBVIOUS
    <3>2. IsFiniteSet(A)
      BY <3>1, FS_Subset
    <3> QED
      BY <3>2, FS_CardinalityType
  <2>2. s.duration = Durations(ss)[r] /\ s.duration \in Int
    BY DEF Shows, Stall
  <2>3. Cardinality(B) = a + (IF s.duration >= d THEN 1 ELSE 0)
    <3>1. CASE s.duration >= d
      <4>1. B = A \cup {r}
        BY <2>2, <3>1
      <4>2. Cardinality(A \cup {r}) = a + 1
        BY <2>1, FS_AddElement
      <4> QED
        BY <3>1, <4>1, <4>2
    <3>2. CASE ~(s.duration >= d)
      <4>1. B = A
        BY <2>2, <3>2
      <4>2. a + 0 = a
        BY <2>1
      <4> QED
        BY <3>2, <4>1, <4>2
    <3> QED
      BY <3>1, <3>2
  <2>4. StallsBefore(top, d) = Smaller(TopLimit, a)
    BY DEF KeepsWorst
  <2>5. StallsBefore(new, d)
          = Smaller(TopLimit, StallsBefore(top, d) + (IF s.duration >= d THEN 1 ELSE 0))
    BY InsertCounts
  <2>6. TopLimit \in Nat
    BY BlockingAssumption
  <2> HIDE DEF new, A, B, a
  <2>7. StallsBefore(new, d) = Smaller(TopLimit, Cardinality(B))
    BY <2>1, <2>3, <2>4, <2>5, <2>6 DEF Smaller
  <2> QED
    BY <2>7 DEF B
<1> QED
  BY <1>2, <1>3 DEF KeepsWorst

(* A sample of time is in a long episode, so its largest is known.         *)
LEMMA EpisodeHasLargest ==
  ASSUME TypeOK, EpisodeIsLastRun, EpisodeShowsRun, LongEnough(ep)
  PROVE  /\ ep.maxIdx \in (Scanned + 1)..Len(samples)
         /\ samples[ep.maxIdx].delta = ep.maxDelta
         /\ \A m \in (Scanned + 1)..(ep.maxIdx - 1) : samples[m].delta < ep.maxDelta
<1> DEFINE run == (Scanned + 1)..Len(samples)
           f == [k \in DOMAIN samples |-> samples[k].delta]
<1>1. /\ samples \in Seq(Sample) /\ Len(samples) \in Nat /\ IsEpisode(ep)
      /\ ep.samples \in Nat
  BY DEF TypeOK, IsEpisode
<1>2. Scanned \in Nat /\ Threshold \in Nat \ {0}
  BY <1>1, BlockingAssumption DEF EpisodeIsLastRun, Scanned
<1>3. IsFiniteSet(run) /\ run \subseteq 1..Len(samples)
  <2>1. Scanned + 1 \in Int /\ Len(samples) \in Int
    BY <1>1, <1>2
  <2>2. run \subseteq 1..Len(samples)
    BY <1>1, <1>2
  <2> HIDE DEF run
  <2> QED
    BY <2>1, <2>2, FS_Interval DEF run
<1>4. SUFFICES ASSUME ep.maxDelta = -1 PROVE FALSE
  BY DEF EpisodeShowsRun
<1>5. \A m \in run : f[m] \in Int /\ f[m] <= 0
  <2> SUFFICES ASSUME NEW m \in run PROVE f[m] \in Int /\ f[m] <= 0
    OBVIOUS
  <2>1. m \in 1..Len(samples)
    BY <1>3
  <2>2. f[m] = samples[m].delta /\ samples[m] \in Sample
    BY <1>1, <2>1
  <2>3. samples[m].delta <= -1
    BY <1>4 DEF EpisodeShowsRun
  <2>4. samples[m].delta \in Int
    BY <2>2 DEF Sample
  <2> HIDE DEF f
  <2> QED
    BY <2>2, <2>3, <2>4
<1> HIDE DEF run, f
<1>6. SumFunctionOnSet(f, run) <= 0 * Cardinality(run)
  <2>1. 0 \in Int /\ \A m \in run : f[m] \in Int
    BY <1>5
  <2>2. \A m \in run : f[m] <= 0
    BY <1>5
  <2> QED
    BY <1>3, <2>1, <2>2, SumBounds
<1>7. Cardinality(run) \in Nat
  BY <1>3, FS_CardinalityType
<1>8. 0 * Cardinality(run) = 0
  BY <1>7
<1>9. ep.micros = SumFunctionOnSet(f, run)
  BY DEF EpisodeIsLastRun, Duration, f, run
<1>10. ep.micros >= Threshold /\ ep.micros \in Int
  BY <1>1 DEF LongEnough, IsEpisode
<1> QED
  BY <1>2, <1>6, <1>8, <1>9, <1>10

(* What record keeps of a long episode shows it.                           *)
LEMMA EpisodeStallShows ==
  ASSUME TypeOK, EpisodeIsLastRun, EpisodeShowsRun, LongEnough(ep),
         NEW lbl \in Dominant(ep.ctx), NEW tt, Extends(tt, samples),
         Durations(tt)[<<Scanned + 1, Len(samples)>>] = ep.micros
  PROVE  Shows([duration |-> ep.micros, samples |-> ep.samples, context |-> lbl,
                stack |-> Stack(samples[ep.maxIdx].id)],
               tt, <<Scanned + 1, Len(samples)>>)
<1> DEFINE cut == Scanned
           n == Len(samples)
           k == ep.maxIdx
           r == <<cut + 1, n>>
           s == [duration |-> ep.micros, samples |-> ep.samples, context |-> lbl,
                 stack |-> Stack(samples[k].id)]
<1>1. /\ k \in (cut + 1)..n /\ samples[k].delta = ep.maxDelta
      /\ \A m \in (cut + 1)..(k - 1) : samples[m].delta < ep.maxDelta
  BY EpisodeHasLargest
<1>2. \A m \in (cut + 1)..n : samples[m].delta <= ep.maxDelta
  BY DEF EpisodeShowsRun
<1>3. n \in Nat /\ ep.samples \in Nat /\ cut \in Nat /\ n - (cut + 1) + 1 = ep.samples
      /\ samples \in Seq(Sample)
  <2>1. n \in Nat /\ ep.samples \in Nat /\ samples \in Seq(Sample)
    BY DEF TypeOK, IsEpisode
  <2> QED
    BY <2>1 DEF EpisodeIsLastRun, Scanned
<1> HIDE DEF cut, n, k
<1>4. \A m \in (cut + 1)..n : tt[m] = samples[m]
  <2>1. \A m \in 1..n : tt[m] = samples[m]
    BY DEF Extends, n
  <2>2. (cut + 1)..n \subseteq 1..n
    BY <1>3
  <2> QED
    BY <2>1, <2>2
<1>5. (cut + 1)..(k - 1) \subseteq (cut + 1)..n
  BY <1>1, <1>3
<1>6. /\ \A m \in (cut + 1)..n : tt[m].delta <= tt[k].delta
      /\ \A m \in (cut + 1)..(k - 1) : tt[m].delta < tt[k].delta
      /\ Stack(samples[k].id) = Stack(tt[k].id)
  BY <1>1, <1>2, <1>4, <1>5
<1>7. \E m \in (cut + 1)..n : lbl \in {tt[m].label, NoLabel}
  <2>1. CASE lbl = NoLabel
    BY <1>1, <2>1
  <2>2. CASE lbl # NoLabel
    <3>1. lbl \in DOMAIN ep.ctx
      BY <2>2 DEF Dominant
    <3>2. PICK m \in (cut + 1)..n : samples[m].label = lbl
      BY <3>1 DEF EpisodeShowsRun, cut, n
    <3> QED
      BY <1>4, <3>2
  <2> QED
    BY <2>1, <2>2
<1>8. r[1] = cut + 1 /\ r[2] = n
  OBVIOUS
<1>9. s.duration = ep.micros /\ s.samples = ep.samples /\ s.context = lbl
      /\ s.stack = Stack(samples[k].id)
  OBVIOUS
<1>10. s.duration = Durations(tt)[r]
  BY <1>9 DEF cut, n
<1> HIDE DEF r, s
<1>11. Shows(s, tt, r)
  BY <1>1, <1>3, <1>6, <1>7, <1>8, <1>9, <1>10 DEF Shows
<1> QED
  BY <1>11 DEF s, r, cut, n, k

(* Closing the last episode of tt, or at a boundary, completes the list.   *)
LEMMA ClosedKeepsWorst ==
  ASSUME TypeOK, TopInOrder, EpisodeIsLastRun, EpisodeShowsRun,
         KeepsWorst(rollup.top, samples, TasksScanned, Int), NEW b \in Closed,
         NEW tt, Extends(tt, samples),
         \/ Len(tt) = Len(samples)
         \/ Len(tt) = Len(samples) + 1 /\ ~IsBusy(tt[Len(tt)])
  PROVE  KeepsWorst(b.top, tt, TasksIn(tt), Int)
<1> DEFINE T == TasksScanned
           last == <<Scanned + 1, Len(samples)>>
<1>1. IsFiniteSet(T)
  BY ScanSplits
<1>2. T \subseteq TasksIn(samples) /\ \A r \in T : Durations(tt)[r] = Durations(samples)[r]
  BY ScanSplits
<1>3. ~LongEnough(ep) => TasksIn(tt) = T
  BY ScanSplits
<1>4. LongEnough(ep) => /\ TasksIn(tt) = T \cup {last} /\ last \notin T
                        /\ Durations(tt)[last] = ep.micros
  BY ScanSplits
<1>5. KeepsWorst(rollup.top, tt, T, Int)
  BY <1>2, KeepsWorstSame
<1>6. CASE ~LongEnough(ep)
  BY <1>3, <1>5, <1>6 DEF Closed
<1>7. CASE LongEnough(ep)
  <2>1. PICK lbl \in Dominant(ep.ctx) : b = Recorded(rollup, ep, lbl)
    BY <1>7 DEF Closed
  <2> DEFINE s == [duration |-> ep.micros, samples |-> ep.samples, context |-> lbl,
                   stack |-> Stack(samples[ep.maxIdx].id)]
  <2>2. b.top = InsertStall(rollup.top, s)
    BY <2>1 DEF Recorded
  <2>3. s \in Stall
    <3>1. IsEpisode(ep) /\ Threshold \in Nat \ {0}
      BY BlockingAssumption DEF TypeOK
    <3>2. ep.micros \in Nat /\ ep.samples \in Nat
      BY <1>7, <3>1 DEF LongEnough, IsEpisode
    <3>3. samples[ep.maxIdx].id \in Nodes
      BY <1>7, <3>1, <3>2 DEF LongEnough, TypeOK
    <3>4. lbl \in Labels \cup {NoLabel}
      BY <3>1 DEF Dominant, IsEpisode, IsMap
    <3> QED
      BY <3>2, <3>3, <3>4 DEF Stall
  <2>4. Shows(s, tt, last)
    BY <1>4, <1>7, EpisodeStallShows
  <2>5. rollup.top \in Seq(Stall) /\ InOrder(rollup.top)
    BY DEF TypeOK, IsRollup, TopInOrder
  <2>6. TasksIn(tt) = T \cup {last} /\ last \notin T
    BY <1>4, <1>7
  <2> HIDE DEF s, last, T
  <2>7. KeepsWorst(InsertStall(rollup.top, s), tt, T \cup {last}, Int)
    BY <1>1, <1>5, <2>3, <2>4, <2>5, <2>6, StallAdded
  <2> QED
    BY <2>2, <2>6, <2>7
<1> QED
  BY <1>6, <1>7

(* A busy sample: the largest so far and its label.                        *)
LEMMA BusyShows ==
  ASSUME TypeOK, EpisodeIsLastRun, EpisodeShowsRun, NEW s \in Sample, s.id \in Nodes,
         samples' = Append(samples, s), ep' = Extend(ep, s, Len(samples) + 1)
  PROVE  EpisodeShowsRun'
<1> DEFINE n == Len(samples)
           cut == Scanned
           run == (cut + 1)..n
<1>1. samples \in Seq(Sample) /\ n \in Nat /\ ep.samples \in Nat /\ ep.maxDelta \in Int
      /\ ep.maxIdx \in Nat
  BY DEF TypeOK, IsEpisode
<1>2. /\ samples' \in Seq(Sample) /\ Len(samples') = n + 1 /\ samples'[n + 1] = s
      /\ \A k \in 1..n : samples'[k] = samples[k]
  BY <1>1
<1>3. cut \in Nat /\ cut <= n /\ (ep.samples = 0 <=> cut = n)
  BY <1>1 DEF EpisodeIsLastRun, Scanned
<1>4. /\ ep'.samples = ep.samples + 1
      /\ ep'.maxDelta = Larger(s.delta, ep.maxDelta)
      /\ ep'.maxIdx = IF s.delta > ep.maxDelta \/ ep.samples = 0 THEN n + 1 ELSE ep.maxIdx
      /\ ep'.ctx = IF s.label = NoLabel THEN ep.ctx ELSE Credit(ep.ctx, s.label, s.delta)
  BY DEF Extend, LargestAt
<1>5. Scanned' = cut
  <2>1. Scanned' = (n + 1) - (ep.samples + 1) /\ cut = n - ep.samples
    BY <1>2, <1>4 DEF Scanned
  <2> HIDE DEF n, cut
  <2> QED
    BY <1>1, <2>1
<1>6. /\ ep.maxDelta >= -1
      /\ \A m \in run : samples[m].delta <= ep.maxDelta
      /\ \/ ep.maxDelta = -1
         \/ /\ ep.maxIdx \in run /\ samples[ep.maxIdx].delta = ep.maxDelta
            /\ \A m \in (cut + 1)..(ep.maxIdx - 1) : samples[m].delta < ep.maxDelta
      /\ \A l \in DOMAIN ep.ctx : \E m \in run : samples[m].label = l
  BY DEF EpisodeShowsRun
<1>7. s.delta \in Int
  BY DEF Sample
<1> HIDE DEF cut, n
<1>8. /\ (cut + 1)..(n + 1) = run \cup {n + 1} /\ n + 1 \notin run
      /\ \A m \in run : samples'[m] = samples[m] /\ samples[m].delta \in Int
  <2>1. run \subseteq 1..n /\ (cut + 1)..(n + 1) = run \cup {n + 1} /\ n + 1 \notin run
    BY <1>1, <1>3
  <2>2. \A m \in 1..n : samples[m] \in Sample
    BY <1>1 DEF n
  <2>3. \A x \in Sample : x.delta \in Int
    BY DEF Sample
  <2> QED
    BY <1>2, <2>1, <2>2, <2>3
<1>9. ep'.maxDelta >= -1 /\ ep'.maxDelta \in Int
  BY <1>1, <1>4, <1>6, <1>7 DEF Larger
<1>10. \A m \in run \cup {n + 1} : samples'[m].delta <= ep'.maxDelta
  <2> HIDE DEF run
  <2>1. s.delta <= ep'.maxDelta /\ ep.maxDelta <= ep'.maxDelta
    BY <1>1, <1>4, <1>7 DEF Larger
  <2>2. \A m \in run : samples'[m].delta <= ep'.maxDelta
    <3> SUFFICES ASSUME NEW m \in run PROVE samples'[m].delta <= ep'.maxDelta
      OBVIOUS
    <3> DEFINE x == samples'[m].delta
               y == ep.maxDelta
               z == ep'.maxDelta
    <3>1. x \in Int /\ y \in Int /\ z \in Int /\ x <= y /\ y <= z
      BY <1>1, <1>6, <1>8, <1>9, <2>1
    <3> HIDE DEF x, y, z
    <3>2. x <= z
      BY <3>1
    <3> QED
      BY <3>2 DEF x, z
  <2> QED
    BY <1>2, <2>1, <2>2
<1>11. \/ ep'.maxDelta = -1
       \/ /\ ep'.maxIdx \in run \cup {n + 1} /\ samples'[ep'.maxIdx].delta = ep'.maxDelta
          /\ \A m \in (cut + 1)..(ep'.maxIdx - 1) : samples'[m].delta < ep'.maxDelta
  <2>1. CASE s.delta > ep.maxDelta
    <3>1. ep'.maxIdx = n + 1 /\ ep'.maxDelta = s.delta
      BY <1>4, <2>1 DEF Larger
    <3>2. (n + 1) - 1 = n
      BY <1>1
    <3>3. \A m \in run : samples'[m].delta < s.delta
      <4> SUFFICES ASSUME NEW m \in run PROVE samples'[m].delta < s.delta
        OBVIOUS
      <4>1. samples'[m].delta <= ep.maxDelta
        BY <1>6, <1>8
      <4> DEFINE x == samples'[m].delta
                 y == s.delta
                 z == ep.maxDelta
      <4>2. x \in Int /\ y \in Int /\ z \in Int /\ x <= z /\ y > z
        BY <1>1, <1>7, <1>8, <2>1, <4>1
      <4> HIDE DEF x, y, z
      <4>3. x < y
        BY <4>2
      <4> QED
        BY <4>3 DEF x, y
    <3> QED
      BY <1>2, <3>1, <3>2, <3>3
  <2>2. CASE ~(s.delta > ep.maxDelta) /\ ep.maxDelta = -1
    BY <1>1, <1>4, <1>7, <2>2 DEF Larger
  <2>3. CASE ~(s.delta > ep.maxDelta) /\ ep.maxDelta # -1
    <3>1. ep'.maxDelta = ep.maxDelta
      BY <1>1, <1>4, <1>7, <2>3 DEF Larger
    <3>2. ep.maxIdx \in run /\ ep.samples # 0
      BY <1>1, <1>3, <1>6, <2>3
    <3>3. ep'.maxIdx = ep.maxIdx
      BY <1>4, <2>3, <3>2
    <3>4. (cut + 1)..(ep.maxIdx - 1) \subseteq run
      BY <1>1, <1>3, <3>2
    <3> HIDE DEF run
    <3> QED
      BY <1>6, <1>8, <2>3, <3>1, <3>2, <3>3, <3>4
  <2> QED
    BY <2>1, <2>2, <2>3
<1>12. \A l \in DOMAIN ep'.ctx : \E m \in run \cup {n + 1} : samples'[m].label = l
  <2> SUFFICES ASSUME NEW l \in DOMAIN ep'.ctx
               PROVE  \E m \in run \cup {n + 1} : samples'[m].label = l
    OBVIOUS
  <2>1. l \in DOMAIN ep.ctx \/ l = s.label
    BY <1>4 DEF Credit
  <2>2. CASE l = s.label
    BY <1>2, <2>2
  <2>3. CASE l \in DOMAIN ep.ctx
    <3>1. PICK m \in run : samples[m].label = l
      BY <1>6, <2>3
    <3>2. samples'[m].label = l
      BY <1>8, <3>1
    <3> QED
      BY <3>1, <3>2
  <2> QED
    BY <2>1, <2>2, <2>3
<1> QED
  BY <1>2, <1>5, <1>8, <1>9, <1>10, <1>11, <1>12 DEF EpisodeShowsRun

(* It leaves the list alone.                                               *)
LEMMA BusyKeepsWorst ==
  ASSUME TypeOK, EpisodeIsLastRun, KeepsWorst(rollup.top, samples, TasksScanned, Int),
         NEW s \in Sample, samples' = Append(samples, s),
         ep'.samples = ep.samples + 1, rollup' = rollup
  PROVE  KeepsWorst(rollup.top, samples, TasksScanned, Int)'
<1> DEFINE n == Len(samples)
           cut == Scanned
           T == TasksScanned
<1>1. samples \in Seq(Sample) /\ n \in Nat /\ ep.samples \in Nat
  BY DEF TypeOK, IsEpisode
<1>2. /\ samples' \in Seq(Sample) /\ Len(samples') = n + 1
      /\ \A k \in 1..n : samples'[k] = samples[k]
  BY <1>1
<1>3. Extends(samples', samples)
  BY <1>1, <1>2 DEF Extends
<1>4. cut \in 0..n /\ Scanned' = cut /\ (cut = 0 \/ ~IsBusy(samples[cut]))
  BY <1>1, <1>2 DEF EpisodeIsLastRun, Scanned
<1>5. /\ {r \in TasksIn(samples') : r[2] <= cut} = {r \in TasksIn(samples) : r[2] <= cut}
      /\ \A r \in TasksIn(samples) : r[2] <= cut =>
           Durations(samples')[r] = Durations(samples)[r]
  <2> HIDE DEF cut
  <2> QED
    BY <1>3, <1>4, TasksBeforeBoundary
<1>6. /\ T \subseteq TasksIn(samples) /\ TasksScanned' = T
      /\ \A r \in T : Durations(samples')[r] = Durations(samples)[r]
  BY <1>4, <1>5 DEF TasksScanned
<1> HIDE DEF T
<1>7. KeepsWorst(rollup.top, samples', T, Int)
  <2>1. KeepsWorst(rollup.top, samples, T, Int)
    BY DEF T
  <2> QED
    BY <1>3, <1>6, <2>1, KeepsWorstSame
<1>8. KeepsWorst(rollup'.top, samples', TasksScanned', Int)
  BY <1>6, <1>7
<1> QED
  BY <1>8

(* A profile more in the group.                                            *)
LEMMA ProfileJoins ==
  ASSUME past \in Seq(Seq(Sample)), samples \in Seq(Sample), RollupMatchesRuns,
         IsRollup(group), past' = Append(past, samples),
         NEW closed, IsRollup(closed), HasTasks(closed, samples, TasksIn(samples)),
         group'.episodes = group.episodes + closed.episodes,
         group'.blocked = group.blocked + closed.blocked,
         group'.max = Larger(group.max, closed.max)
  PROVE  RollupMatchesRuns'
<1> DEFINE n == Len(past)
           E == [p \in DOMAIN past |-> Cardinality(TasksIn(past[p]))]
           F == [p \in DOMAIN past' |-> Cardinality(TasksIn(past'[p]))]
           B == [p \in DOMAIN past |-> SumFunction(Durations(past[p]))]
           C == [p \in DOMAIN past' |-> SumFunction(Durations(past'[p]))]
           R == UNION {Range(Durations(past[p])) : p \in DOMAIN past}
           S == UNION {Range(Durations(past'[p])) : p \in DOMAIN past'}
<1>1. /\ n \in Nat /\ DOMAIN past = 1..n /\ DOMAIN past' = 1..(n + 1)
      /\ past'[n + 1] = samples /\ past' \in Seq(Seq(Sample))
      /\ \A p \in 1..n : past'[p] = past[p]
  OBVIOUS
<1>2. /\ 1..(n + 1) = 1..n \cup {n + 1} /\ n + 1 \notin 1..n /\ n + 1 \in 1..(n + 1)
      /\ 1..n \subseteq 1..(n + 1) /\ IsFiniteSet(1..n)
  <2>1. 1 \in Int /\ n \in Int
    BY <1>1
  <2>2. IsFiniteSet(1..n)
    BY <2>1, FS_Interval
  <2> HIDE DEF n
  <2> QED
    BY <1>1, <2>2
<1>3. ASSUME NEW ss \in Seq(Sample)
      PROVE  /\ Cardinality(TasksIn(ss)) \in Int
             /\ SumFunction(Durations(ss)) = SumFunctionOnSet(Durations(ss), TasksIn(ss))
             /\ SumFunction(Durations(ss)) \in Int
             /\ Range(Durations(ss)) = {Durations(ss)[r] : r \in TasksIn(ss)}
             /\ \A x \in Range(Durations(ss)) : x \in Int
  <2> DEFINE D == Durations(ss)
             T == TasksIn(ss)
  <2>1. IsFiniteSet(T) /\ \A r \in T : D[r] \in Int
    BY TasksFinite
  <2>2. DOMAIN D = T
    BY DEF Durations
  <2> HIDE DEF D, T
  <2>3. SumFunction(D) = SumFunctionOnSet(D, T)
    BY <2>2 DEF SumFunction
  <2>4. SumFunctionOnSet(D, T) \in Int
    BY <2>1, SumInt
  <2>5. Range(D) = {D[r] : r \in T}
    BY <2>2 DEF Range
  <2>6. Cardinality(T) \in Int
    BY <2>1, FS_CardinalityType
  <2>7. \A x \in Range(D) : x \in Int
    BY <2>1, <2>5
  <2> QED
    BY <2>3, <2>4, <2>5, <2>6, <2>7 DEF D, T
<1>4. \A p \in 1..(n + 1) : past'[p] \in Seq(Sample)
  BY <1>1
<1>5. /\ group.episodes = SumFunction(E) /\ group.blocked = SumFunction(B)
      /\ IsGreatest(group.max, {0} \cup R)
  BY DEF RollupMatchesRuns
<1>6. /\ closed.episodes = Cardinality(TasksIn(samples))
      /\ closed.blocked = SumFunction(Durations(samples))
      /\ IsGreatest(closed.max, {0} \cup Range(Durations(samples)))
  BY <1>3 DEF HasTasks
<1>7. group'.episodes = SumFunction(F)
  <2>1. /\ DOMAIN E = 1..n /\ DOMAIN F = 1..n \cup {n + 1}
        /\ (\A p \in 1..(n + 1) : F[p] \in Int) /\ (\A p \in 1..n : F[p] = E[p])
        /\ F[n + 1] = closed.episodes
    BY <1>1, <1>2, <1>3, <1>4, <1>6
  <2> HIDE DEF E, F
  <2>2. SumFunction(F) = SumFunction(E) + F[n + 1]
    <3>1. DOMAIN F = 1..(n + 1)
      BY <1>2, <2>1
    <3> HIDE DEF n
    <3> QED
      BY <1>1, <2>1, <3>1, SumAppend
  <2> QED
    BY <1>5, <2>1, <2>2
<1>8. group'.blocked = SumFunction(C)
  <2>1. /\ DOMAIN B = 1..n /\ DOMAIN C = 1..n \cup {n + 1}
        /\ (\A p \in 1..(n + 1) : C[p] \in Int) /\ (\A p \in 1..n : C[p] = B[p])
        /\ C[n + 1] = closed.blocked
    BY <1>1, <1>2, <1>3, <1>4, <1>6
  <2> HIDE DEF B, C
  <2>2. SumFunction(C) = SumFunction(B) + C[n + 1]
    <3>1. DOMAIN C = 1..(n + 1)
      BY <1>2, <2>1
    <3> HIDE DEF n
    <3> QED
      BY <1>1, <2>1, <3>1, SumAppend
  <2> QED
    BY <1>5, <2>1, <2>2
<1>9. IsGreatest(group'.max, {0} \cup S)
  <2>1. S = R \cup Range(Durations(samples))
    BY <1>1, <1>2
  <2>2. group.max \in Nat /\ closed.max \in Nat
    BY DEF IsRollup
  <2>3. \A x \in S : x \in Int
    BY <1>1, <1>3, <1>4
  <2> HIDE DEF R, S
  <2>4. /\ \A x \in R : x \in Int /\ x <= group.max
        /\ \A x \in Range(Durations(samples)) : x \in Int /\ x <= closed.max
        /\ group.max = 0 \/ group.max \in R
        /\ closed.max = 0 \/ closed.max \in Range(Durations(samples))
    BY <1>5, <1>6, <2>1, <2>3 DEF IsGreatest
  <2>5. \A x \in S : x <= group'.max
    BY <2>1, <2>2, <2>4 DEF Larger
  <2>6. group'.max = 0 \/ group'.max \in S
    BY <2>1, <2>2, <2>4 DEF Larger
  <2>7. 0 <= group'.max
    BY <2>2 DEF Larger
  <2> QED
    BY <2>5, <2>6, <2>7 DEF IsGreatest
<1> QED
  BY <1>7, <1>8, <1>9 DEF RollupMatchesRuns

-----------------------------------------------------------------------------
(* Nothing is there at the start of a profile.                              *)
LEMMA NothingAddsUp == IsFiniteRollup(NoBlocking) /\ SharesAddUp(NoBlocking)
<1>1. IsFiniteRollup(NoBlocking)
  BY FS_EmptySet DEF IsFiniteRollup, NoBlocking
<1>2. SumFunction(BlockedOf(<<>>)) = 0 /\ SumFunction(EpisodesOf(<<>>)) = 0
  BY SumEmpty DEF SumFunction, BlockedOf, EpisodesOf
<1>3. MaximaOf(<<>>) = {}
  BY DEF MaximaOf
<1>4. IsGreatest(0, {0} \cup MaximaOf(<<>>))
  BY <1>3 DEF IsGreatest
<1> QED
  BY <1>1, <1>2, <1>4 DEF SharesAddUp, NoBlocking

(* No episode is in progress. *)
AtBoundary ==
  /\ samples \in Seq(Sample) /\ ep = Fresh
  /\ samples # <<>> => ~IsBusy(samples[Len(samples)])

LEMMA FreshIsLastRun == AtBoundary => EpisodeAddsUp /\ EpisodeIsLastRun
<1> SUFFICES ASSUME samples \in Seq(Sample), ep = Fresh,
                    samples # <<>> => ~IsBusy(samples[Len(samples)])
             PROVE  EpisodeAddsUp /\ EpisodeIsLastRun
  BY DEF AtBoundary
<1>1. EpisodeAddsUp
  <2>1. SumFunction(<<>>) = 0
    BY SumEmpty DEF SumFunction
  <2> QED
    BY <2>1, FS_EmptySet DEF EpisodeAddsUp, Fresh
<1>2. EpisodeIsLastRun
  <2> DEFINE n == Len(samples)
  <2>1. n \in Nat /\ Scanned = n /\ (n # 0 => samples # <<>>)
    BY DEF Scanned, Fresh
  <2>2. (n + 1)..n = {} /\ n >= 0
    BY <2>1
  <2>3. Duration(samples, n + 1, n) = 0
    BY <2>2, SumEmpty DEF Duration
  <2>4. n = 0 \/ ~IsBusy(samples[n])
    BY <2>1
  <2>5. ep.micros = 0
    BY DEF Fresh
  <2> QED
    BY <2>1, <2>2, <2>3, <2>4, <2>5 DEF EpisodeIsLastRun
<1> QED
  BY <1>1, <1>2

LEMMA NothingScanned ==
  samples = <<>> /\ rollup = NoBlocking => RollupMatchesScan
<1> SUFFICES ASSUME samples = <<>>, rollup = NoBlocking PROVE RollupMatchesScan
  OBVIOUS
<1>1. TasksIn(samples) = {} /\ TasksScanned = {}
  BY DEF TasksIn, TasksScanned
<1>2. Cardinality({}) = 0 /\ SumFunctionOnSet(Durations(samples), {}) = 0
  BY SumEmpty, FS_EmptySet
<1>3. IsGreatest(0, {0} \cup {Durations(samples)[r] : r \in {}})
  BY DEF IsGreatest
<1> QED
  BY <1>1, <1>2, <1>3 DEF RollupMatchesScan, HasTasks, NoBlocking

LEMMA InitHolds == Init => IInv
<1> SUFFICES ASSUME Init PROVE IInv
  OBVIOUS
<1>1. IsRollup(NoBlocking) /\ InOrder(NoBlocking.top)
  BY BlockingAssumption DEF NoBlocking, IsRollup, IsMap, InOrder
<1>2. IsEpisode(Fresh) /\ Fresh.samples = 0 /\ Fresh.micros = 0
  BY DEF Fresh, IsEpisode, IsMap
<1>3. TypeOK /\ TopInOrder
  BY <1>1, <1>2 DEF Init, TypeOK, TopInOrder
<1>4. past \in Seq(Seq(Sample)) /\ samples = <<>> /\ ep = Fresh
      /\ rollup = NoBlocking /\ group = NoBlocking
  BY DEF Init
<1>5. EpisodeAddsUp /\ EpisodeIsLastRun
  BY <1>4, FreshIsLastRun DEF AtBoundary
<1>6. IsFiniteRollup(NoBlocking) /\ SharesAddUp(NoBlocking)
  BY NothingAddsUp
<1>7. RollupMatchesScan
  BY <1>4, NothingScanned
<1>8. RollupMatchesRuns
  <2>1. DOMAIN past = {}
    BY DEF Init
  <2>2. /\ SumFunction([p \in DOMAIN past |-> Cardinality(TasksIn(past[p]))]) = 0
        /\ SumFunction([p \in DOMAIN past |-> SumFunction(Durations(past[p]))]) = 0
    BY <2>1, SumEmpty DEF SumFunction
  <2>3. UNION {Range(Durations(past[p])) : p \in DOMAIN past} = {}
    BY <2>1
  <2>4. IsGreatest(0, {0} \cup {})
    BY DEF IsGreatest
  <2> QED
    BY <1>4, <2>2, <2>3, <2>4 DEF RollupMatchesRuns, NoBlocking
<1> QED
  BY <1>3, <1>4, <1>5, <1>6, <1>7, <1>8 DEF IInv

(* Types and the order of the stalls. *)
LEMMA TypesKept == TypeOK /\ TopInOrder /\ [Next]_vars => (TypeOK /\ TopInOrder)'
<1> SUFFICES ASSUME TypeOK, TopInOrder, [Next]_vars PROVE (TypeOK /\ TopInOrder)'
  OBVIOUS
<1>0. IsEpisode(Fresh) /\ Fresh.samples = 0 /\ Fresh.micros = 0
  BY DEF Fresh, IsEpisode, IsMap
<1>00. IsRollup(NoBlocking) /\ InOrder(NoBlocking.top)
  BY BlockingAssumption DEF NoBlocking, IsRollup, IsMap, InOrder
<1>1. CASE Boundary
  <2>1. PICK n \in IdleNodes \cup {Foreign} :
          samples' = Append(samples, [id |-> n, delta |-> 0, label |-> NoLabel])
    BY <1>1 DEF Boundary
  <2>2. samples' \in Seq(Sample)
    BY <2>1, BlockingAssumption DEF TypeOK, Sample
  <2>3. IsRollup(rollup') /\ InOrder(rollup'.top)
    BY <1>1, ClosedIsRollup DEF Boundary
  <2>4. ep' = Fresh /\ group' = group /\ queue' = queue
    BY <1>1 DEF Boundary
  <2> QED
    BY <1>0, <2>2, <2>3, <2>4 DEF TypeOK, TopInOrder
<1>2. CASE Busy
  <2>1. PICK s \in BusySamples : /\ samples' = Append(samples, s)
                                 /\ ep' = Extend(ep, s, Len(samples) + 1)
    BY <1>2 DEF Busy
  <2>2. s \in Sample /\ s.id \in Nodes
    BY BlockingAssumption
  <2>3. samples \in Seq(Sample) /\ IsEpisode(ep)
    BY DEF TypeOK
  <2>4. /\ samples' \in Seq(Sample) /\ Len(samples') = Len(samples) + 1
        /\ samples'[Len(samples) + 1] = s
        /\ \A i \in 1..Len(samples) : samples'[i] = samples[i]
    BY <2>1, <2>2, <2>3
  <2>5. /\ IsEpisode(ep') /\ ep'.samples # 0
        /\ \/ ep'.maxIdx = Len(samples) + 1
           \/ ep.samples # 0 /\ ep'.maxIdx = ep.maxIdx
    BY <2>1, <2>2, <2>3, ExtendIsEpisode
  <2>6. ep'.maxIdx \in 1..Len(samples') /\ samples'[ep'.maxIdx].id \in Nodes
    BY <2>2, <2>3, <2>4, <2>5 DEF TypeOK
  <2>7. rollup' = rollup /\ group' = group /\ queue' = queue
    BY <1>2 DEF Busy
  <2> QED
    BY <2>4, <2>5, <2>6, <2>7 DEF TypeOK, TopInOrder
<1>3. CASE EndProfile
  <2>1. PICK closed \in Closed :
          /\ group' = [episodes |-> group.episodes + closed.episodes,
                       blocked |-> group.blocked + closed.blocked,
                       max |-> Larger(group.max, closed.max),
                       functions |-> MergeStats(group.functions, closed.functions),
                       contexts |-> MergeStats(group.contexts, closed.contexts),
                       top |-> group.top]
          /\ queue' = closed.top
    BY <1>3 DEF EndProfile
  <2>2. IsRollup(closed) /\ IsRollup(group)
    BY ClosedIsRollup DEF TypeOK
  <2>3. IsMap(group'.functions, Fns, Stat)
        /\ IsMap(group'.contexts, Labels \cup {NoLabel}, Stat)
    BY <2>1, <2>2, MergeIsMap DEF IsRollup
  <2>4. IsRollup(group') /\ group'.top = group.top /\ queue' \in Seq(Stall)
    BY <2>1, <2>2, <2>3 DEF IsRollup, Larger
  <2>5. samples' = <<>> /\ ep' = Fresh /\ rollup' = NoBlocking
    BY <1>3 DEF EndProfile
  <2> QED
    BY <1>0, <1>00, <2>4, <2>5 DEF TypeOK, TopInOrder
<1>4. CASE MergeStall
  <2>1. /\ group' = [group EXCEPT !.top = InsertStall(@, Head(queue))]
        /\ queue # <<>> /\ queue' = Tail(queue)
        /\ samples' = samples /\ ep' = ep /\ rollup' = rollup
    BY <1>4 DEF MergeStall
  <2>2. queue \in Seq(Stall) /\ IsRollup(group) /\ InOrder(group.top)
    BY DEF TypeOK, TopInOrder
  <2>3. Head(queue) \in Stall /\ queue' \in Seq(Stall)
    BY <2>1, <2>2
  <2>4. /\ InsertStall(group.top, Head(queue)) \in Seq(Stall)
        /\ InOrder(InsertStall(group.top, Head(queue)))
    BY <2>2, <2>3, InsertKeepsOrder DEF IsRollup
  <2>5. group' = [episodes |-> group.episodes, blocked |-> group.blocked,
                  max |-> group.max, functions |-> group.functions,
                  contexts |-> group.contexts,
                  top |-> InsertStall(group.top, Head(queue))]
    BY <2>1, <2>2 DEF IsRollup
  <2>6. IsRollup(group') /\ InOrder(group'.top)
    BY <2>2, <2>4, <2>5 DEF IsRollup
  <2> QED
    BY <2>1, <2>3, <2>6 DEF TypeOK, TopInOrder
<1>5. CASE UNCHANGED vars
  BY <1>5 DEF vars, TypeOK, TopInOrder
<1> QED
  BY <1>1, <1>2, <1>3, <1>4, <1>5 DEF Next

LEMMA StepHolds == IInv /\ [Next]_vars => IInv'
<1> SUFFICES ASSUME IInv, [Next]_vars PROVE IInv'
  OBVIOUS
<1>1. /\ TypeOK /\ TopInOrder /\ past \in Seq(Seq(Sample)) /\ EpisodeAddsUp
      /\ IsFiniteRollup(rollup) /\ IsFiniteRollup(group)
      /\ SharesAddUp(rollup) /\ SharesAddUp(group)
      /\ EpisodeIsLastRun /\ RollupMatchesScan /\ RollupMatchesRuns
  BY DEF IInv
<1>2. /\ samples \in Seq(Sample) /\ IsEpisode(ep) /\ IsRollup(rollup) /\ IsRollup(group)
  BY <1>1 DEF TypeOK
<1>3. TypeOK' /\ TopInOrder'
  BY <1>1, TypesKept
<1>4. CASE Boundary
  <2>1. PICK n \in IdleNodes \cup {Foreign} :
          samples' = Append(samples, [id |-> n, delta |-> 0, label |-> NoLabel])
    BY <1>4 DEF Boundary
  <2>2. /\ rollup' \in Closed /\ ep' = Fresh /\ group' = group /\ past' = past
    BY <1>4 DEF Boundary
  <2> DEFINE s == [id |-> n, delta |-> 0, label |-> NoLabel]
  <2>3. s \in Sample /\ ~IsBusy(s)
    BY BlockingAssumption DEF Sample, IsBusy
  <2> HIDE DEF s
  <2>4. /\ samples' \in Seq(Sample) /\ Len(samples') = Len(samples) + 1
        /\ samples'[Len(samples')] = s
        /\ \A k \in 1..Len(samples) : samples'[k] = samples[k]
    BY <1>2, <2>1, <2>3 DEF s
  <2>5. EpisodeAddsUp' /\ EpisodeIsLastRun'
    <3>1. ~IsBusy(samples'[Len(samples')])
      BY <2>3, <2>4
    <3>2. (AtBoundary => EpisodeAddsUp /\ EpisodeIsLastRun)'
      BY FreshIsLastRun, PTL
    <3> QED
      BY <2>2, <2>4, <3>1, <3>2 DEF AtBoundary
  <2>6. IsFiniteRollup(rollup') /\ SharesAddUp(rollup')
    BY <1>1, <2>2, ClosedAddsUp
  <2>7. RollupMatchesScan'
    <3>1. Len(samples) \in Nat
      BY <1>2
    <3>2. Extends(samples', samples)
      BY <1>2, <2>4, <3>1 DEF Extends
    <3>3. HasTasks(rollup', samples', TasksIn(samples'))
      BY <1>1, <2>2, <2>3, <2>4, <3>2, ClosedHasTasks
    <3>4. Scanned' = Len(samples')
      BY <2>2, <2>4, <3>1 DEF Scanned, Fresh
    <3>5. TasksScanned' = TasksIn(samples')
      <4>1. \A r \in TasksIn(samples') : r[2] \in 1..Len(samples')
        BY DEF TasksIn
      <4>2. \A r \in TasksIn(samples') : r[2] <= Len(samples')
        BY <2>4, <4>1, <3>1
      <4> QED
        BY <3>4, <4>2 DEF TasksScanned
    <3> QED
      BY <3>3, <3>5 DEF RollupMatchesScan
  <2>8. RollupMatchesRuns'
    BY <1>1, <2>2 DEF RollupMatchesRuns
  <2> QED
    BY <1>1, <1>3, <2>2, <2>5, <2>6, <2>7, <2>8 DEF IInv
<1>5. CASE Busy
  <2>1. PICK s \in BusySamples : /\ samples' = Append(samples, s)
                                 /\ ep' = Extend(ep, s, Len(samples) + 1)
    BY <1>5 DEF Busy
  <2>2. rollup' = rollup /\ group' = group /\ past' = past
    BY <1>5 DEF Busy
  <2>3. s \in Sample /\ s.id \in Nodes /\ IsBusy(s)
    BY BlockingAssumption DEF IsBusy
  <2>4. EpisodeAddsUp'
    BY <1>1, <1>2, <2>1, <2>3, ExtendAddsUp
  <2>5. ep'.samples = ep.samples + 1 /\ ep'.micros = ep.micros + s.delta
    BY <2>1 DEF Extend
  <2>6. EpisodeIsLastRun' /\ RollupMatchesScan'
    BY <1>1, <2>1, <2>2, <2>3, <2>5, BusyScans
  <2>7. RollupMatchesRuns'
    BY <1>1, <2>2 DEF RollupMatchesRuns
  <2> QED
    BY <1>1, <1>3, <2>2, <2>4, <2>6, <2>7 DEF IInv
<1>6. CASE EndProfile
  <2>1. PICK closed \in Closed :
          group' = [episodes |-> group.episodes + closed.episodes,
                    blocked |-> group.blocked + closed.blocked,
                    max |-> Larger(group.max, closed.max),
                    functions |-> MergeStats(group.functions, closed.functions),
                    contexts |-> MergeStats(group.contexts, closed.contexts),
                    top |-> group.top]
    BY <1>6 DEF EndProfile
  <2>2. /\ past' = Append(past, samples) /\ samples' = <<>> /\ ep' = Fresh
        /\ rollup' = NoBlocking
    BY <1>6 DEF EndProfile
  <2>3. IsRollup(closed) /\ IsFiniteRollup(closed) /\ SharesAddUp(closed)
    BY <1>1, ClosedIsRollup, ClosedAddsUp
  <2>4. IsFiniteRollup(group') /\ SharesAddUp(group')
    BY <1>1, <1>2, <2>1, <2>3, SharesMerge
  <2>5. HasTasks(closed, samples, TasksIn(samples))
    <3>1. Len(samples) \in Nat
      BY <1>2
    <3>2. Extends(samples, samples)
      BY <1>2, <3>1 DEF Extends
    <3> QED
      BY <1>1, <3>2, ClosedHasTasks
  <2>6. RollupMatchesRuns'
    BY <1>1, <1>2, <2>1, <2>2, <2>3, <2>5, ProfileJoins
  <2>7. past' \in Seq(Seq(Sample))
    BY <1>1, <1>2, <2>2
  <2>8. samples' \in Seq(Sample) /\ (samples' # <<>> => ~IsBusy(samples'[Len(samples')]))
    BY <2>2
  <2>9. EpisodeAddsUp' /\ EpisodeIsLastRun'
    <3>1. (AtBoundary => EpisodeAddsUp /\ EpisodeIsLastRun)'
      BY FreshIsLastRun, PTL
    <3> QED
      BY <2>2, <2>8, <3>1 DEF AtBoundary
  <2>10. RollupMatchesScan'
    <3>1. (samples = <<>> /\ rollup = NoBlocking => RollupMatchesScan)'
      BY NothingScanned, PTL
    <3> QED
      BY <2>2, <3>1
  <2>11. IsFiniteRollup(rollup') /\ SharesAddUp(rollup')
    BY <2>2, NothingAddsUp
  <2> QED
    BY <1>3, <2>4, <2>6, <2>7, <2>9, <2>10, <2>11 DEF IInv
<1>7. CASE MergeStall
  <2>1. group' = [group EXCEPT !.top = InsertStall(@, Head(queue))]
    BY <1>7 DEF MergeStall
  <2>2. /\ group'.episodes = group.episodes /\ group'.blocked = group.blocked
        /\ group'.max = group.max /\ group'.functions = group.functions
        /\ group'.contexts = group.contexts
    BY <1>2, <2>1 DEF IsRollup
  <2>3. samples' = samples /\ ep' = ep /\ rollup' = rollup /\ past' = past
    BY <1>7 DEF MergeStall
  <2>4. IsFiniteRollup(group') /\ SharesAddUp(group')
    BY <1>1, <2>2 DEF IsFiniteRollup, SharesAddUp
  <2>5. RollupMatchesRuns'
    BY <1>1, <2>2, <2>3 DEF RollupMatchesRuns
  <2>6. EpisodeAddsUp' /\ EpisodeIsLastRun' /\ RollupMatchesScan'
    BY <1>1, <2>3 DEF EpisodeAddsUp, EpisodeIsLastRun, RollupMatchesScan, TasksScanned, Scanned
  <2> QED
    BY <1>1, <1>3, <2>3, <2>4, <2>5, <2>6 DEF IInv
<1>8. CASE UNCHANGED vars
  <2>1. samples' = samples /\ ep' = ep /\ rollup' = rollup /\ group' = group
        /\ queue' = queue /\ past' = past
    BY <1>8 DEF vars
  <2>2. RollupMatchesRuns'
    BY <1>1, <2>1 DEF RollupMatchesRuns
  <2>3. EpisodeAddsUp' /\ EpisodeIsLastRun' /\ RollupMatchesScan'
    BY <1>1, <2>1 DEF EpisodeAddsUp, EpisodeIsLastRun, RollupMatchesScan, TasksScanned, Scanned
  <2> QED
    BY <1>1, <1>3, <2>1, <2>2, <2>3 DEF IInv
<1> QED
  BY <1>4, <1>5, <1>6, <1>7, <1>8 DEF Next

LEMMA Inductive == Spec => []IInv
BY InitHolds, StepHolds, PTL DEF Spec

-----------------------------------------------------------------------------
(* The stalls of the group                                                 *)

(* Merging the first of the queue keeps how many there are, up to a limit. *)
LEMMA MergeCounts ==
  ASSUME NEW top \in Seq(Stall), InOrder(top), NEW q \in Seq(Stall), InOrder(q),
         q # <<>>, NEW d \in Int
  PROVE  Smaller(TopLimit, StallsBefore(InsertStall(top, Head(q)), d)
                             + StallsBefore(Tail(q), d))
           = Smaller(TopLimit, StallsBefore(top, d) + StallsBefore(q, d))
<1> DEFINE x == IF Head(q).duration >= d THEN 1 ELSE 0
           a == StallsBefore(top, d)
           b == StallsBefore(Tail(q), d)
           c == StallsBefore(InsertStall(top, Head(q)), d)
           e == StallsBefore(q, d)
<1>1. Head(q) \in Stall /\ Tail(q) \in Seq(Stall)
  OBVIOUS
<1>2. c = Smaller(TopLimit, a + x)
  BY <1>1, InsertCounts
<1>3. e = b + x
  <2>1. StallsBefore(q, d)
          = StallsBefore(Tail(q), d) + (IF Head(q).duration >= d THEN 1 ELSE 0)
    BY TailCounts
  <2> QED
    BY <2>1
<1>4. a \in Nat /\ b \in Nat
  BY <1>1, PlaceNat
<1>5. x \in Nat /\ TopLimit \in Nat
  BY BlockingAssumption
<1> HIDE DEF x, a, b, c, e
<1>6. Smaller(TopLimit, c + b) = Smaller(TopLimit, a + e)
  BY <1>2, <1>3, <1>4, <1>5 DEF Smaller
<1> QED
  BY <1>6 DEF a, b, c, e

LEMMA AtLeastFinite ==
  ASSUME NEW ss \in Seq(Sample), NEW d
  PROVE  IsFiniteSet(AtLeast(ss, d)) /\ Cardinality(AtLeast(ss, d)) \in Nat
<1>1. AtLeast(ss, d) \in SUBSET TasksIn(ss)
  BY DEF AtLeast
<1>2. IsFiniteSet(AtLeast(ss, d))
  BY <1>1, TasksFinite, FS_Subset
<1> QED
  BY <1>2, FS_CardinalityType

(* A profile more has its long tasks counted.                              *)
LEMMA TasksJoin ==
  ASSUME past \in Seq(Seq(Sample)), samples \in Seq(Sample),
         past' = Append(past, samples), NEW d \in Int
  PROVE  /\ TasksAtLeast(d) \in Int
         /\ TasksAtLeast(d)' = TasksAtLeast(d) + Cardinality(AtLeast(samples, d))
<1> DEFINE n == Len(past)
           E == [p \in DOMAIN past |-> Cardinality(AtLeast(past[p], d))]
           F == [p \in DOMAIN past' |-> Cardinality(AtLeast(past'[p], d))]
<1>1. /\ n \in Nat /\ DOMAIN past = 1..n /\ DOMAIN past' = 1..(n + 1)
      /\ past'[n + 1] = samples
      /\ \A p \in 1..n : past'[p] = past[p] /\ past[p] \in Seq(Sample)
  OBVIOUS
<1>2. /\ 1..(n + 1) = 1..n \cup {n + 1} /\ n + 1 \in 1..(n + 1)
      /\ 1..n \subseteq 1..(n + 1) /\ IsFiniteSet(1..n)
  <2>1. 1 \in Int /\ n \in Int
    BY <1>1
  <2>2. IsFiniteSet(1..n)
    BY <2>1, FS_Interval
  <2> HIDE DEF n
  <2> QED
    BY <1>1, <2>2
<1>3. \A p \in 1..(n + 1) : past'[p] \in Seq(Sample)
  BY <1>1, <1>2
<1>4. /\ DOMAIN E = 1..n /\ DOMAIN F = 1..(n + 1)
      /\ (\A p \in 1..(n + 1) : F[p] \in Int) /\ (\A p \in 1..n : F[p] = E[p])
      /\ F[n + 1] = Cardinality(AtLeast(samples, d))
  BY <1>1, <1>2, <1>3, AtLeastFinite
<1>5. TasksAtLeast(d) = SumFunction(E) /\ TasksAtLeast(d)' = SumFunction(F)
  BY DEF TasksAtLeast
<1> HIDE DEF n, E, F
<1>6. SumFunction(F) = SumFunction(E) + F[n + 1]
  BY <1>1, <1>4, SumAppend
<1>7. SumFunction(E) \in Int
  <2>1. \A p \in 1..n : E[p] \in Int
    BY <1>2, <1>4
  <2> QED
    BY <1>2, <1>4, <2>1, SumInt DEF SumFunction
<1> QED
  BY <1>4, <1>5, <1>6, <1>7

(* The stalls of a profile, not yet merged, stand for its tasks.           *)
LEMMA ProfileStalls ==
  ASSUME past \in Seq(Seq(Sample)), samples \in Seq(Sample),
         past' = Append(past, samples), IsRollup(group), InOrder(group.top),
         GroupKeepsWorst(Int), queue = <<>>, group'.top = group.top,
         queue' \in Seq(Stall), InOrder(queue'),
         KeepsWorst(queue', samples, TasksIn(samples), Int)
  PROVE  GroupKeepsWorst(Int)'
<1> DEFINE n == Len(past)
<1>1. /\ n \in Nat /\ DOMAIN past = 1..n /\ DOMAIN past' = 1..(n + 1)
      /\ past'[n + 1] = samples /\ (\A p \in 1..n : past'[p] = past[p])
  OBVIOUS
<1>2. group.top \in Seq(Stall) /\ TopLimit \in Nat
  BY BlockingAssumption DEF IsRollup
<1>3. ASSUME NEW s \in Range(group'.top) \cup Range(queue')
      PROVE  \E p \in DOMAIN past' : \E r \in TasksIn(past'[p]) : Shows(s, past'[p], r)
  <2>1. CASE s \in Range(group.top)
    <3>1. PICK p \in DOMAIN past : \E r \in TasksIn(past[p]) : Shows(s, past[p], r)
      BY <2>1 DEF GroupKeepsWorst
    <3>2. p \in DOMAIN past' /\ past'[p] = past[p]
      BY <1>1
    <3> QED
      BY <3>1, <3>2
  <2>2. CASE s \in Range(queue')
    <3>1. PICK x \in 1..Len(queue') : s = queue'[x]
      BY <2>2 DEF Range
    <3>2. \E r \in TasksIn(samples) : Shows(s, samples, r)
      BY <3>1 DEF KeepsWorst
    <3>3. n + 1 \in DOMAIN past'
      BY <1>1
    <3> HIDE DEF n
    <3> QED
      BY <1>1, <3>2, <3>3
  <2> QED
    BY <2>1, <2>2
<1>4. ASSUME NEW d \in Int
      PROVE  Smaller(TopLimit, StallsBefore(group'.top, d) + StallsBefore(queue', d))
               = Smaller(TopLimit, TasksAtLeast(d)')
  <2> DEFINE a == StallsBefore(group.top, d)
             b == StallsBefore(queue', d)
             c == Cardinality(AtLeast(samples, d))
             t == TasksAtLeast(d)
  <2>1. b = Smaller(TopLimit, c)
    <3>1. AtLeast(samples, d) = {r \in TasksIn(samples) : Durations(samples)[r] >= d}
      BY DEF AtLeast
    <3> QED
      BY <3>1 DEF KeepsWorst
  <2>2. Smaller(TopLimit, a + 0) = Smaller(TopLimit, t)
    <3>1. StallsBefore(queue, d) = 0
      BY EmptyPlace
    <3>2. Smaller(TopLimit, StallsBefore(group.top, d) + StallsBefore(queue, d))
            = Smaller(TopLimit, TasksAtLeast(d))
      BY DEF GroupKeepsWorst
    <3> QED
      BY <3>1, <3>2
  <2>3. a \in Nat
    BY <1>2, PlaceNat
  <2>4. t \in Int /\ TasksAtLeast(d)' = t + c
    BY TasksJoin
  <2>5. c \in Nat
    BY AtLeastFinite
  <2> HIDE DEF a, b, c, t
  <2>6. Smaller(TopLimit, a + b) = Smaller(TopLimit, t + c)
    BY <1>2, <2>1, <2>2, <2>3, <2>4, <2>5 DEF Smaller
  <2> QED
    BY <2>4, <2>6 DEF a, b
<1> QED
  BY <1>3, <1>4 DEF GroupKeepsWorst

LEMMA StallMerges ==
  ASSUME IsRollup(group), InOrder(group.top), queue \in Seq(Stall), queue # <<>>,
         GroupKeepsWorst(Int), group'.top = InsertStall(group.top, Head(queue)),
         queue' = Tail(queue), past' = past
  PROVE  GroupKeepsWorst(Int)'
<1>1. group.top \in Seq(Stall) /\ InOrder(queue) /\ Head(queue) \in Stall
  BY DEF IsRollup, GroupKeepsWorst
<1>2. InOrder(queue')
  <2>1. 0 \in Int
    OBVIOUS
  <2> QED
    BY <1>1, <2>1, TailCounts
<1>3. Range(group'.top) \cup Range(queue') \subseteq Range(group.top) \cup Range(queue)
  <2>1. Range(group'.top) \subseteq Range(group.top) \cup {Head(queue)}
    BY <1>1, InsertMembers
  <2>2. Head(queue) = queue[1] /\ 1 \in 1..Len(queue)
    OBVIOUS
  <2>3. Head(queue) \in Range(queue)
    BY <2>2 DEF Range
  <2>4. \A x \in DOMAIN Tail(queue) : /\ x + 1 \in DOMAIN queue
                                      /\ Tail(queue)[x] = queue[x + 1]
    OBVIOUS
  <2>5. Range(Tail(queue)) \subseteq Range(queue)
    BY <2>4 DEF Range
  <2> QED
    BY <2>1, <2>3, <2>5
<1>4. \A s \in Range(group'.top) \cup Range(queue') : \E p \in DOMAIN past' :
        \E r \in TasksIn(past'[p]) : Shows(s, past'[p], r)
  BY <1>3 DEF GroupKeepsWorst
<1>5. ASSUME NEW d \in Int
      PROVE  Smaller(TopLimit, StallsBefore(group'.top, d) + StallsBefore(queue', d))
               = Smaller(TopLimit, TasksAtLeast(d)')
  <2>1. Smaller(TopLimit, StallsBefore(group'.top, d) + StallsBefore(queue', d))
          = Smaller(TopLimit, StallsBefore(group.top, d) + StallsBefore(queue, d))
    BY <1>1, MergeCounts
  <2>2. TasksAtLeast(d)' = TasksAtLeast(d)
    BY DEF TasksAtLeast
  <2> QED
    BY <2>1, <2>2 DEF GroupKeepsWorst
<1> QED
  BY <1>2, <1>4, <1>5 DEF GroupKeepsWorst

(* At a boundary there is nothing to show of an episode, and at the start  *)
(* of a profile nothing of a task.                                         *)
LEMMA NothingToShow ==
  AtBoundary => EpisodeShowsRun /\ TasksScanned = TasksIn(samples)
<1> SUFFICES ASSUME AtBoundary PROVE EpisodeShowsRun /\ TasksScanned = TasksIn(samples)
  OBVIOUS
<1>1. Len(samples) \in Nat /\ Scanned = Len(samples) /\ ep = Fresh
  BY DEF AtBoundary, Scanned, Fresh
<1>2. (Scanned + 1)..Len(samples) = {}
  BY <1>1
<1>3. ep.maxDelta = -1 /\ DOMAIN ep.ctx = {}
  BY <1>1 DEF Fresh
<1>4. EpisodeShowsRun
  BY <1>2, <1>3 DEF EpisodeShowsRun
<1>5. \A r \in TasksIn(samples) : r[2] <= Scanned
  BY <1>1 DEF TasksIn
<1> QED
  BY <1>4, <1>5 DEF TasksScanned

LEMMA NothingKept ==
  samples = <<>> /\ rollup = NoBlocking => KeepsWorst(rollup.top, samples, TasksScanned, Int)
<1> SUFFICES ASSUME samples = <<>>, rollup = NoBlocking
             PROVE  KeepsWorst(rollup.top, samples, TasksScanned, Int)
  OBVIOUS
<1>1. TasksScanned = {} /\ rollup.top = <<>>
  BY DEF TasksIn, TasksScanned, NoBlocking
<1>2. ASSUME NEW d \in Int
      PROVE  StallsBefore(<<>>, d)
               = Smaller(TopLimit, Cardinality({r \in {} : Durations(samples)[r] >= d}))
  <2>2. {r \in {} : Durations(samples)[r] >= d} = {} /\ Cardinality({}) = 0
    BY FS_EmptySet
  <2>3. StallsBefore(<<>>, d) = 0
    BY EmptyPlace
  <2> QED
    BY <2>2, <2>3, BlockingAssumption DEF Smaller
<1>3. \A x \in 1..Len(<<>>) : FALSE
  OBVIOUS
<1> QED
  BY <1>1, <1>2, <1>3 DEF KeepsWorst

LEMMA StallsInit == Init => StallsIInv(Int)
<1> SUFFICES ASSUME Init PROVE StallsIInv(Int)
  OBVIOUS
<1>1. /\ samples = <<>> /\ ep = Fresh /\ rollup = NoBlocking
      /\ group = NoBlocking /\ queue = <<>> /\ past = <<>>
  BY DEF Init
<1>2. EpisodeShowsRun
  BY <1>1, NothingToShow DEF AtBoundary
<1>3. InOrder(queue)
  BY <1>1, BlockingAssumption DEF InOrder
<1>4. Range(group.top) \cup Range(queue) = {}
  BY <1>1 DEF Range, NoBlocking
<1>5. ASSUME NEW d \in Int
      PROVE  Smaller(TopLimit, StallsBefore(group.top, d) + StallsBefore(queue, d))
               = Smaller(TopLimit, TasksAtLeast(d))
  <2>2. StallsBefore(<<>>, d) = 0
    BY EmptyPlace
  <2>3. group.top = <<>>
    BY <1>1 DEF NoBlocking
  <2>4. TasksAtLeast(d) = 0
    <3>1. DOMAIN past = {}
      BY <1>1
    <3> QED
      BY <3>1, SumEmpty DEF TasksAtLeast, SumFunction
  <2> QED
    BY <1>1, <2>2, <2>3, <2>4
<1>6. GroupKeepsWorst(Int)
  BY <1>3, <1>4, <1>5 DEF GroupKeepsWorst
<1> QED
  BY <1>1, <1>2, <1>6, InitHolds, NothingKept DEF StallsIInv

LEMMA StallsStep == StallsIInv(Int) /\ [Next]_vars => StallsIInv(Int)'
<1> SUFFICES ASSUME StallsIInv(Int), [Next]_vars PROVE StallsIInv(Int)'
  OBVIOUS
<1>1. /\ IInv /\ EpisodeShowsRun /\ GroupKeepsWorst(Int)
      /\ KeepsWorst(rollup.top, samples, TasksScanned, Int)
  BY DEF StallsIInv
<1>2. /\ TypeOK /\ TopInOrder /\ past \in Seq(Seq(Sample)) /\ EpisodeIsLastRun
      /\ samples \in Seq(Sample) /\ Len(samples) \in Nat /\ queue \in Seq(Stall)
      /\ IsRollup(group) /\ InOrder(group.top)
  BY <1>1 DEF IInv, TypeOK, TopInOrder
<1>3. IInv'
  BY <1>1, StepHolds
<1>4. (AtBoundary => EpisodeShowsRun /\ TasksScanned = TasksIn(samples))'
  BY NothingToShow, PTL
<1>5. (group' = group /\ queue' = queue /\ past' = past) => GroupKeepsWorst(Int)'
  BY <1>1 DEF GroupKeepsWorst, TasksAtLeast
<1>6. CASE Boundary
  <2>1. PICK n \in IdleNodes \cup {Foreign} :
          samples' = Append(samples, [id |-> n, delta |-> 0, label |-> NoLabel])
    BY <1>6 DEF Boundary
  <2>2. /\ rollup' \in Closed /\ ep' = Fresh
        /\ group' = group /\ queue' = queue /\ past' = past
    BY <1>6 DEF Boundary
  <2> DEFINE s == [id |-> n, delta |-> 0, label |-> NoLabel]
  <2>3. s \in Sample /\ ~IsBusy(s)
    BY BlockingAssumption DEF Sample, IsBusy
  <2> HIDE DEF s
  <2>4. /\ samples' \in Seq(Sample) /\ Len(samples') = Len(samples) + 1
        /\ samples'[Len(samples')] = s
        /\ \A k \in 1..Len(samples) : samples'[k] = samples[k]
    BY <1>2, <2>1, <2>3 DEF s
  <2>5. Extends(samples', samples)
    BY <1>2, <2>4 DEF Extends
  <2>6. KeepsWorst(rollup'.top, samples', TasksIn(samples'), Int)
    BY <1>1, <1>2, <2>2, <2>3, <2>4, <2>5, ClosedKeepsWorst
  <2>7. EpisodeShowsRun' /\ TasksScanned' = TasksIn(samples')
    BY <1>4, <2>2, <2>3, <2>4 DEF AtBoundary
  <2> QED
    BY <1>3, <1>5, <2>2, <2>6, <2>7 DEF StallsIInv
<1>7. CASE Busy
  <2>1. PICK s \in BusySamples : /\ samples' = Append(samples, s)
                                 /\ ep' = Extend(ep, s, Len(samples) + 1)
    BY <1>7 DEF Busy
  <2>2. rollup' = rollup /\ group' = group /\ queue' = queue /\ past' = past
    BY <1>7 DEF Busy
  <2>3. s \in Sample /\ s.id \in Nodes /\ ep'.samples = ep.samples + 1
    BY <2>1, BlockingAssumption DEF Extend
  <2>4. EpisodeShowsRun'
    BY <1>1, <1>2, <2>1, <2>3, BusyShows
  <2>5. KeepsWorst(rollup.top, samples, TasksScanned, Int)'
    BY <1>1, <1>2, <2>1, <2>2, <2>3, BusyKeepsWorst
  <2> QED
    BY <1>3, <1>5, <2>2, <2>4, <2>5 DEF StallsIInv
<1>8. CASE EndProfile
  <2>1. PICK closed \in Closed : queue' = closed.top /\ group'.top = group.top
    BY <1>8 DEF EndProfile
  <2>2. /\ queue = <<>> /\ past' = Append(past, samples) /\ samples' = <<>>
        /\ ep' = Fresh /\ rollup' = NoBlocking
    BY <1>8 DEF EndProfile
  <2>3. IsRollup(closed) /\ InOrder(closed.top)
    BY <1>2, ClosedIsRollup
  <2>4. KeepsWorst(queue', samples, TasksIn(samples), Int)
    <3>1. Extends(samples, samples)
      BY <1>2 DEF Extends
    <3> QED
      BY <1>1, <1>2, <2>1, <3>1, ClosedKeepsWorst
  <2>5. queue' \in Seq(Stall) /\ InOrder(queue')
    BY <2>1, <2>3 DEF IsRollup
  <2>6. GroupKeepsWorst(Int)'
    BY <1>1, <1>2, <2>1, <2>2, <2>4, <2>5, ProfileStalls
  <2>7. EpisodeShowsRun'
    BY <1>4, <2>2 DEF AtBoundary
  <2>8. KeepsWorst(rollup.top, samples, TasksScanned, Int)'
    <3>1. (samples = <<>> /\ rollup = NoBlocking
             => KeepsWorst(rollup.top, samples, TasksScanned, Int))'
      BY NothingKept, PTL
    <3> QED
      BY <2>2, <3>1
  <2> QED
    BY <1>3, <2>6, <2>7, <2>8 DEF StallsIInv
<1>9. CASE MergeStall
  <2>1. /\ group' = [group EXCEPT !.top = InsertStall(@, Head(queue))]
        /\ queue # <<>> /\ queue' = Tail(queue)
        /\ samples' = samples /\ ep' = ep /\ rollup' = rollup /\ past' = past
    BY <1>9 DEF MergeStall
  <2>2. group'.top = InsertStall(group.top, Head(queue))
    BY <1>2, <2>1 DEF IsRollup
  <2>3. GroupKeepsWorst(Int)'
    BY <1>1, <1>2, <2>1, <2>2, StallMerges
  <2>4. EpisodeShowsRun' /\ KeepsWorst(rollup.top, samples, TasksScanned, Int)'
    BY <1>1, <2>1 DEF EpisodeShowsRun, TasksScanned, Scanned
  <2> QED
    BY <1>3, <2>3, <2>4 DEF StallsIInv
<1>10. CASE UNCHANGED vars
  <2>1. samples' = samples /\ ep' = ep /\ rollup' = rollup /\ group' = group
        /\ queue' = queue /\ past' = past
    BY <1>10 DEF vars
  <2>2. EpisodeShowsRun' /\ KeepsWorst(rollup.top, samples, TasksScanned, Int)'
    BY <1>1, <2>1 DEF EpisodeShowsRun, TasksScanned, Scanned
  <2> QED
    BY <1>3, <1>5, <2>1, <2>2 DEF StallsIInv
<1> QED
  BY <1>6, <1>7, <1>8, <1>9, <1>10 DEF Next

(* Once all is merged, the list alone has the longest.                     *)
LEMMA TopHas ==
  ASSUME StallsIInv(Int), queue = <<>>, NEW d \in Int
  PROVE  StallsBefore(group.top, d) = Smaller(TopLimit, TasksAtLeast(d))
<1> DEFINE a == StallsBefore(group.top, d)
<1>1. GroupKeepsWorst(Int) /\ group.top \in Seq(Stall) /\ InOrder(group.top)
  BY DEF StallsIInv, IInv, TypeOK, TopInOrder, IsRollup
<1>2. Len(group.top) \in Nat /\ Len(group.top) <= TopLimit /\ TopLimit \in Nat
  BY <1>1, BlockingAssumption DEF InOrder
<1>3. a \in 0..Len(group.top)
  BY <1>1, PlaceExists
<1>4. StallsBefore(queue, d) = 0
  BY EmptyPlace
<1>5. Smaller(TopLimit, StallsBefore(group.top, d) + StallsBefore(queue, d))
        = Smaller(TopLimit, TasksAtLeast(d))
  BY <1>1 DEF GroupKeepsWorst
<1> HIDE DEF a
<1>6. Smaller(TopLimit, a + 0) = a
  BY <1>2, <1>3 DEF Smaller
<1> QED
  BY <1>4, <1>5, <1>6 DEF a

(* A task of the length is counted.                                        *)
LEMMA TaskCounts ==
  ASSUME past \in Seq(Seq(Sample)), NEW p \in DOMAIN past, NEW r \in TasksIn(past[p])
  PROVE  TasksAtLeast(Durations(past[p])[r]) >= 1
<1> DEFINE d == Durations(past[p])[r]
           f == [q \in DOMAIN past |-> Cardinality(AtLeast(past[q], d))]
           D == DOMAIN past
<1>1. D = 1..Len(past) /\ Len(past) \in Nat /\ \A q \in D : past[q] \in Seq(Sample)
  OBVIOUS
<1>2. d \in Int
  BY <1>1, TasksFinite
<1>3. IsFiniteSet(D)
  <2>1. 1 \in Int /\ Len(past) \in Int
    BY <1>1
  <2> QED
    BY <1>1, <2>1, FS_Interval
<1> HIDE DEF d
<1>4. \A q \in D : f[q] = Cardinality(AtLeast(past[q], d)) /\ f[q] \in Nat
  BY <1>1, AtLeastFinite
<1>5. f[p] # 0
  <2>1. r \in AtLeast(past[p], d)
    <3>1. d >= d
      BY <1>2
    <3> QED
      BY <3>1 DEF AtLeast, d
  <2>2. IsFiniteSet(AtLeast(past[p], d))
    BY <1>1, AtLeastFinite
  <2>3. Cardinality(AtLeast(past[p], d)) # 0
    BY <2>1, <2>2, FS_EmptySet
  <2> QED
    BY <1>4, <2>3
<1>6. TasksAtLeast(d) = SumFunctionOnSet(f, D)
  BY DEF TasksAtLeast, SumFunction
<1> HIDE DEF f, D
<1>7. IsFiniteSet(D \ {p}) /\ p \in D
  BY <1>3, FS_Subset DEF D
<1>8. SumFunctionOnSet(f, D) = f[p] + SumFunctionOnSet(f, D \ {p})
  <2>1. \A q \in D : f[q] \in Int
    <3>1. \A z \in Nat : z \in Int
      OBVIOUS
    <3> QED
      BY <1>4, <3>1
  <2>2. \A y \in D : SumFunctionOnSet(f, D) = f[y] + SumFunctionOnSet(f, D \ {y})
    BY <1>3, <2>1, SumTake
  <2> QED
    BY <1>7, <2>2
<1>9. SumFunctionOnSet(f, D \ {p}) \in Nat
  <2>1. \A q \in D \ {p} : f[q] \in Nat
    BY <1>4
  <2> QED
    BY <1>7, <2>1, SumNat
<1>10. f[p] \in Nat
  BY <1>4, <1>7
<1>11. TasksAtLeast(d) >= 1
  BY <1>5, <1>6, <1>8, <1>9, <1>10
<1> QED
  BY <1>11 DEF d

(* The longest of all heads the list, which is empty only without tasks.   *)
LEMMA HeadIsLongest ==
  ASSUME StallsIInv(Int), queue = <<>>
  PROVE  IF group.episodes = 0 THEN group.top = <<>>
         ELSE group.top # <<>> /\ group.top[1].duration = group.max
<1> DEFINE top == group.top
           D(p) == Durations(past[p])
           S == UNION {Range(D(p)) : p \in DOMAIN past}
<1>1. /\ GroupKeepsWorst(Int) /\ top \in Seq(Stall) /\ InOrder(top)
      /\ RollupMatchesRuns /\ past \in Seq(Seq(Sample)) /\ IsRollup(group)
  BY DEF StallsIInv, IInv, TypeOK, TopInOrder, IsRollup
<1>2. /\ Threshold \in Nat \ {0} /\ TopLimit \in Nat \ {0} /\ Len(top) \in Nat
      /\ \A i \in 1..Len(top) : top[i].duration \in Int
  <2>1. \A x \in Stall : x.duration \in Int
    BY DEF Stall
  <2> QED
    BY <1>1, <2>1, BlockingAssumption
<1>3. \A p \in DOMAIN past : past[p] \in Seq(Sample)
  BY <1>1
<1>4. ASSUME NEW i \in 1..Len(top)
      PROVE  top[i].duration \in S /\ top[i].duration >= Threshold
  <2>1. top[i] \in Range(top)
    BY <1>1 DEF Range
  <2>2. PICK p \in DOMAIN past : \E r \in TasksIn(past[p]) : Shows(top[i], past[p], r)
    BY <1>1, <2>1 DEF GroupKeepsWorst
  <2>3. PICK r \in TasksIn(past[p]) : Shows(top[i], past[p], r)
    BY <2>2
  <2>4. top[i].duration = D(p)[r]
    BY <2>3 DEF Shows
  <2>5. D(p)[r] \in Range(D(p)) /\ D(p)[r] >= Threshold
    BY <2>3 DEF Durations, Range, TasksIn
  <2> HIDE DEF D
  <2> QED
    BY <2>4, <2>5
<1>5. TasksAtLeast(Threshold) = group.episodes
  <2>1. ASSUME NEW p \in DOMAIN past
        PROVE  AtLeast(past[p], Threshold) = TasksIn(past[p])
    <3>1. \A r \in TasksIn(past[p]) : Durations(past[p])[r] >= Threshold
      BY DEF Durations, TasksIn
    <3> QED
      BY <3>1 DEF AtLeast
  <2>2. [p \in DOMAIN past |-> Cardinality(AtLeast(past[p], Threshold))]
          = [p \in DOMAIN past |-> Cardinality(TasksIn(past[p]))]
    BY <2>1
  <2> QED
    BY <1>1, <2>2 DEF TasksAtLeast, RollupMatchesRuns
<1>6. StallsBefore(top, Threshold) = Smaller(TopLimit, group.episodes)
  BY <1>2, <1>5, TopHas
<1>7. group.episodes \in Nat /\ group.max \in Nat
  BY <1>1 DEF IsRollup
<1>8. IsGreatest(group.max, {0} \cup S)
  BY <1>1 DEF RollupMatchesRuns
<1> HIDE DEF S, D
<1>9. ASSUME NEW d \in Int
      PROVE  /\ StallsBefore(top, d) \in 0..Len(top)
             /\ \A i \in 1..StallsBefore(top, d) : top[i].duration >= d
             /\ StallsBefore(top, d) < Len(top) =>
                  top[StallsBefore(top, d) + 1].duration < d
  BY <1>1, PlaceExists
<1> HIDE DEF top
<1>10. CASE group.episodes = 0
  <2>1. StallsBefore(top, Threshold) = 0
    BY <1>2, <1>6, <1>10 DEF Smaller
  <2>2. Len(top) # 0 => top[1].duration < Threshold
    <3>1. Threshold \in Int /\ 0 + 1 = 1
      BY <1>2
    <3>2. StallsBefore(top, Threshold) < Len(top) =>
            top[StallsBefore(top, Threshold) + 1].duration < Threshold
      BY <1>9, <3>1
    <3>3. Len(top) # 0 => 0 < Len(top)
      BY <1>2
    <3> QED
      BY <2>1, <3>1, <3>2, <3>3
  <2>3. ~(Len(top) # 0)
    <3> SUFFICES ASSUME Len(top) # 0 PROVE FALSE
      OBVIOUS
    <3>1. 1 \in 1..Len(top)
      BY <1>2
    <3>2. top[1].duration >= Threshold /\ top[1].duration \in Int
      BY <1>2, <1>4, <3>1
    <3> QED
      BY <1>2, <2>2, <3>2
  <2>4. top = <<>>
    BY <1>1, <2>3
  <2> QED
    BY <1>10, <2>4 DEF top
<1>11. CASE group.episodes # 0
  <2>1. StallsBefore(top, Threshold) >= 1
    BY <1>2, <1>6, <1>7, <1>11 DEF Smaller
  <2>2. 1 \in 1..Len(top)
    <3>1. Threshold \in Int
      BY <1>2
    <3>2. StallsBefore(top, Threshold) \in 0..Len(top)
      BY <1>9, <3>1
    <3> QED
      BY <1>2, <2>1, <3>2
  <2>3. top[1].duration \in S /\ top[1].duration >= Threshold /\ top[1].duration \in Int
    BY <1>2, <1>4, <2>2
  <2>4. top[1].duration <= group.max
    BY <1>8, <2>3 DEF IsGreatest
  <2>5. group.max # 0
    BY <1>2, <1>7, <2>3, <2>4
  <2>6. group.max \in S
    BY <1>8, <2>5 DEF IsGreatest
  <2>7. PICK p \in DOMAIN past : group.max \in Range(D(p))
    BY <2>6 DEF S
  <2>8. PICK r \in TasksIn(past[p]) : group.max = Durations(past[p])[r]
    BY <2>7 DEF D, Durations, Range
  <2>9. TasksAtLeast(group.max) >= 1
    BY <1>1, <2>8, TaskCounts
  <2>10. StallsBefore(top, group.max) = Smaller(TopLimit, TasksAtLeast(group.max))
    BY <1>7, TopHas DEF top
  <2>11. StallsBefore(top, group.max) >= 1
    BY <1>2, <2>9, <2>10 DEF Smaller
  <2>12. top[1].duration >= group.max
    <3>1. group.max \in Int
      BY <1>7
    <3>2. /\ StallsBefore(top, group.max) \in 0..Len(top)
          /\ \A i \in 1..StallsBefore(top, group.max) : top[i].duration >= group.max
      BY <1>9, <3>1
    <3>3. 1 \in 1..StallsBefore(top, group.max)
      BY <1>2, <2>11, <3>2
    <3> QED
      BY <3>2, <3>3
  <2>13. top[1].duration = group.max
    BY <1>7, <2>3, <2>4, <2>12
  <2>14. top # <<>>
    BY <2>2
  <2> QED
    BY <1>11, <2>13, <2>14 DEF top
<1> QED
  BY <1>10, <1>11

LEMMA StallsAreWorst == StallsIInv(Int) => WorstStallsKept
<1> SUFFICES ASSUME StallsIInv(Int) PROVE WorstStallsKept
  OBVIOUS
<1>1. /\ TopInOrder /\ GroupKeepsWorst(Int) /\ past \in Seq(Seq(Sample))
      /\ group.top \in Seq(Stall) /\ InOrder(group.top)
  BY DEF StallsIInv, IInv, TypeOK, TopInOrder, IsRollup
<1>2. SUFFICES ASSUME queue = <<>>
      PROVE /\ \A x \in 1..Len(group.top) : \E p \in DOMAIN past :
                 \E r \in TasksIn(past[p]) : Shows(group.top[x], past[p], r)
            /\ \A p \in DOMAIN past : \A r \in TasksIn(past[p]) :
                 Cardinality({i \in 1..Len(group.top) :
                                group.top[i].duration >= Durations(past[p])[r]})
                   = Smaller(TopLimit, TasksAtLeast(Durations(past[p])[r]))
            /\ \A topN \in 0..TopLimit :
                 IF group.episodes = 0 THEN ShownStalls(topN) = <<>>
                 ELSE /\ ShownStalls(topN) # <<>>
                      /\ ShownStalls(topN)[1].duration = group.max
  BY <1>1 DEF WorstStallsKept, Merged
<1>3. ASSUME NEW x \in 1..Len(group.top)
      PROVE  \E p \in DOMAIN past : \E r \in TasksIn(past[p]) : Shows(group.top[x], past[p], r)
  <2>1. group.top[x] \in Range(group.top)
    BY <1>1 DEF Range
  <2> QED
    BY <1>1, <2>1 DEF GroupKeepsWorst
<1>4. ASSUME NEW p \in DOMAIN past, NEW r \in TasksIn(past[p])
      PROVE  Cardinality({i \in 1..Len(group.top) :
                            group.top[i].duration >= Durations(past[p])[r]})
               = Smaller(TopLimit, TasksAtLeast(Durations(past[p])[r]))
  <2>1. Durations(past[p])[r] \in Int
    <3>1. past[p] \in Seq(Sample)
      BY <1>1
    <3> QED
      BY <3>1, TasksFinite
  <2>2. ASSUME NEW d \in Int
        PROVE  Cardinality({i \in 1..Len(group.top) : group.top[i].duration >= d})
                 = Smaller(TopLimit, TasksAtLeast(d))
    <3>1. Cardinality({i \in 1..Len(group.top) : group.top[i].duration >= d})
            = StallsBefore(group.top, d)
      BY <1>1, PlaceCounts
    <3> QED
      BY <1>2, <3>1, TopHas
  <2> QED
    BY <2>1, <2>2
<1>5. ASSUME NEW topN \in 0..TopLimit
      PROVE  IF group.episodes = 0 THEN ShownStalls(topN) = <<>>
             ELSE /\ ShownStalls(topN) # <<>>
                  /\ ShownStalls(topN)[1].duration = group.max
  <2> DEFINE top == group.top
             m == Cut(Len(top), topN)
  <2>1. topN \in Nat /\ Len(top) \in Nat
    BY <1>1, BlockingAssumption
  <2>2. m \in 0..Len(top) /\ (Len(top) # 0 => m >= 1)
    BY <2>1 DEF Cut
  <2>3. ShownStalls(topN) = SubSeq(top, 1, m)
    BY DEF ShownStalls
  <2>4. IF group.episodes = 0 THEN top = <<>>
        ELSE top # <<>> /\ top[1].duration = group.max
    BY <1>2, HeadIsLongest
  <2> HIDE DEF top, m
  <2>5. CASE top = <<>>
    <3>1. m = 0
      BY <2>2, <2>5
    <3>2. SubSeq(<<>>, 1, 0) = <<>>
      OBVIOUS
    <3> QED
      BY <2>3, <2>4, <2>5, <3>1, <3>2
  <2>6. CASE top # <<>>
    <3>1. top \in Seq(Stall) /\ Len(top) # 0
      BY <1>1, <2>6 DEF top
    <3>2. Len(SubSeq(top, 1, m)) = m /\ m >= 1 /\ SubSeq(top, 1, m)[1] = top[1]
      BY <2>1, <2>2, <3>1
    <3>3. SubSeq(top, 1, m) # <<>>
      BY <2>2, <3>2
    <3> QED
      BY <2>3, <2>4, <2>6, <3>2, <3>3
  <2> QED
    BY <2>5, <2>6
<1> QED
  BY <1>3, <1>4, <1>5

(***************************************************************************)
(* The detector and the merge keep the types of what they build: a stall   *)
(* always has the stack of a node of its profile (detectBlocking).         *)
(***************************************************************************)
THEOREM TypeCorrect == Spec => []TypeOK
<1>1. IInv => TypeOK
  BY DEF IInv
<1> QED
  BY Inductive, <1>1, PTL

(***************************************************************************)
(* Whatever the episodes and the order of the profiles, insertStall keeps  *)
(* every list of stalls longest first and within topStallsLimit.           *)
(***************************************************************************)
THEOREM StallsInOrder == Spec => []TopInOrder
<1>1. IInv => TopInOrder
  BY DEF IInv
<1> QED
  BY Inductive, <1>1, PTL

(***************************************************************************)
(* For any profiles, the totals of a group are those of the maximal runs   *)
(* of busy samples that last thresholdMicros or longer, each counted once: *)
(* the scan closes an episode exactly where a run ends, at the last sample *)
(* too (detectBlocking, mergeBlocking).                                    *)
(***************************************************************************)
THEOREM TotalsMatchRuns == Spec => []RollupMatchesRuns
<1>1. IInv => RollupMatchesRuns
  BY DEF IInv
<1> QED
  BY Inductive, <1>1, PTL

(***************************************************************************)
(* For any samples, also of no or negative time, an episode that is long   *)
(* enough has a dominant function among those it blames, so that functions *)
(* share out all blocked time and every episode (record, mergeBlockStats); *)
(* and a list cut anywhere explains at least its part (topBlockingRows).   *)
(***************************************************************************)
THEOREM BlameIsComplete == Spec => []BlameAddsUp
<1>1. IInv => BlameAddsUp
  <2> SUFFICES ASSUME IInv PROVE BlameAddsUp
    OBVIOUS
  <2>1. SharesAddUp(rollup) /\ SharesAddUp(group) /\ IsFiniteRollup(group) /\ IsRollup(group)
    BY DEF IInv, TypeOK
  <2> QED
    BY <2>1, TopRowsExplain DEF BlameAddsUp
<1> QED
  BY Inductive, <1>1, PTL

(***************************************************************************)
(* The globally worst stalls of a group survive every cut of a profile's   *)
(* list and of the group's, in any order of the profiles and for any       *)
(* topStallsLimit, and the first of a view is its headline's longest       *)
(* (insertStall, mergeBlocking, buildBlockingView).                        *)
(***************************************************************************)
THEOREM GroupKeepsTheWorst == Spec => []WorstStallsKept
<1>1. StallsIInv(Int) => WorstStallsKept
  BY StallsAreWorst
<1> QED
  BY StallsInit, StallsStep, <1>1, PTL DEF Spec
=============================================================================
