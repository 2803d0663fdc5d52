---------------------------- MODULE Aggregate_proofs ----------------------------
(***************************************************************************)
(* Theorems about Aggregate, for any profiles: the reference counts of the *)
(* walk are those of the path; every key gets the self time of its nodes,  *)
(* and the inclusive time of those below them, once; merges neither lose   *)
(* nor double any of it; edges carry the totals they are shown beside.     *)
(*                                                                         *)
(* The walk enters each node once: what it has still to enter is read off  *)
(* its roots and stack (Ahead), and each turn of the loop moves that, or   *)
(* enters the top, whose path are the frames below it.  What is counted of *)
(* the nodes that were entered is then one step of induction (CountsOf).   *)
(* A merge is a series of aggregations, each of which adds the nodes of    *)
(* one more profile (MergeTo).  An edge is the sum below its callees.      *)
(***************************************************************************)
EXTENDS Aggregate, SetLemmas

(* Only the top of the stack may not have been entered, what was is a node of *)
(* the profile, and a frame is the first with its key if none below has it.   *)
StackOK ==
  /\ profile = NoProfile => stack = <<>>
  /\ \A i \in 1..Len(stack) :
       /\ i < Len(stack) => stack[i].entered
       /\ stack[i].entered => Known(stack[i].id)
  /\ \A i \in Entered, l \in Levels :
       stack[i].first[l] <=> \A j \in 1..(i - 1) : KeyOn(j, l) # KeyOn(i, l)

IInv == TypeOK /\ StackOK /\ ActiveIsPath

LEMMA InitHolds == Init => IInv
<1> SUFFICES ASSUME Init PROVE IInv
  OBVIOUS
<1> USE DEF Init
<1>1. Entered = {}
  BY DEF Entered
<1>2. TypeOK
  BY DEF TypeOK, NoSums, ToSet
<1>3. StackOK
  BY <1>1 DEF StackOK
<1>4. ActiveIsPath
  BY <1>1 DEF ActiveIsPath, NoSums
<1> QED
  BY <1>2, <1>3, <1>4 DEF IInv

-----------------------------------------------------------------------------
(* What the assumption says of the profile in work. *)
LEMMA ProfileTypes ==
  ASSUME TypeOK, profile # NoProfile
  PROVE  /\ DOMAIN profile.frame \subseteq Int
         /\ profile.children \in [DOMAIN profile.frame -> Seq(Int)]
BY BatchAssumption DEF TypeOK

Frames == [id : Int, next : Nat \ {0}, entered : BOOLEAN, first : [Levels -> BOOLEAN]]

(* A frame that is pushed has its type and was not entered. *)
LEMMA NewFrame ==
  ASSUME NEW n \in Int
  PROVE  Frame(n) \in Frames /\ Frame(n).id = n /\ ~Frame(n).entered /\ Frame(n).next = 1
BY DEF Frame, Frames

(* What popping a stack and changing its top leave. *)
LEMMA Popped ==
  ASSUME NEW s \in Seq(Frames), s # <<>>
  PROVE  /\ Len(s) \in Nat \ {0} /\ s[Len(s)] \in Frames
         /\ Front(s) \in Seq(Frames) /\ Len(Front(s)) = Len(s) - 1
         /\ \A i \in 1..(Len(s) - 1) : Front(s)[i] = s[i]
<1>1. Len(s) \in Nat \ {0}
  OBVIOUS
<1> QED
  BY <1>1 DEF Front

LEMMA TopChanged ==
  ASSUME NEW s \in Seq(Frames), s # <<>>, NEW f \in Frames
  PROVE  LET t == [s EXCEPT ![Len(s)] = f]
         IN /\ t \in Seq(Frames) /\ Len(t) = Len(s) /\ t[Len(s)] = f
            /\ \A i \in 1..(Len(s) - 1) : t[i] = s[i]
OBVIOUS

(* What each action does to the stack. *)
LEMMA EnterTop ==
  ASSUME TypeOK, Enter
  PROVE  /\ stack \in Seq(Frames) /\ stack' \in Seq(Frames)
         /\ Len(stack) \in Nat \ {0} /\ Len(stack') = Len(stack)
         /\ \A i \in 1..(Len(stack) - 1) : stack'[i] = stack[i]
         /\ ~Top.entered /\ stack'[Len(stack)].entered
         /\ stack'[Len(stack)].id = Top.id /\ stack'[Len(stack)].next = Top.next
         /\ \A l \in Levels :
              stack'[Len(stack)].first[l] = (CountOf(active[l], TopKey(l)) = 0)
<1> DEFINE f == [Top EXCEPT !.entered = TRUE,
                            !.first = [l \in Levels |-> CountOf(active[l], TopKey(l)) = 0]]
<1>1. stack \in Seq(Frames) /\ stack # <<>>
  BY DEF TypeOK, Enter, Frames
<1>2. Top \in Frames /\ ~Top.entered
  BY <1>1, Popped DEF Top, Enter
<1>3. f \in Frames /\ f.entered /\ f.id = Top.id /\ f.next = Top.next
  BY <1>2 DEF Frames
<1>4. stack' = [stack EXCEPT ![Len(stack)] = f]
  BY DEF Enter, Top
<1>5. \A l \in Levels : f.first[l] = (CountOf(active[l], TopKey(l)) = 0)
  BY <1>2 DEF Frames
<1> HIDE DEF f
<1> QED
  BY <1>1, <1>2, <1>3, <1>4, <1>5, Popped, TopChanged

LEMMA DescendPushes ==
  ASSUME TypeOK, StackOK, Descend
  PROVE  /\ stack \in Seq(Frames) /\ stack' \in Seq(Frames)
         /\ Len(stack) \in Nat \ {0} /\ Len(stack') = Len(stack) + 1
         /\ \A i \in 1..(Len(stack) - 1) : stack'[i] = stack[i]
         /\ stack'[Len(stack)].entered /\ Top.entered
         /\ stack'[Len(stack)].id = Top.id
         /\ stack'[Len(stack)].first = Top.first
         /\ ~stack'[Len(stack) + 1].entered /\ stack'[Len(stack) + 1].next = 1
         /\ stack'[Len(stack)].next = Top.next + 1
         /\ profile.children[Top.id] \in Seq(Int)
         /\ Top.next \in 1..Len(profile.children[Top.id])
         /\ stack'[Len(stack) + 1].id = profile.children[Top.id][Top.next]
<1> DEFINE f == [Top EXCEPT !.next = @ + 1]
           child == profile.children[Top.id][Top.next]
           t == [stack EXCEPT ![Len(stack)] = f]
<1>1. stack \in Seq(Frames) /\ stack # <<>>
  BY DEF TypeOK, Descend, Frames
<1>2. Top \in Frames /\ Top.entered
  BY <1>1, Popped DEF Top, Descend
<1>3. f \in Frames /\ f.entered /\ f.id = Top.id /\ f.first = Top.first
      /\ f.next = Top.next + 1
  BY <1>2 DEF Frames
<1>4. /\ child \in Int /\ profile.children[Top.id] \in Seq(Int)
      /\ Top.next \in 1..Len(profile.children[Top.id])
  <2>1. profile # NoProfile
    BY <1>1 DEF StackOK
  <2>2. profile.children[Top.id] \in Seq(Int)
    BY <2>1, ProfileTypes DEF Descend, Known
  <2>3. Top.next \in 1..Len(profile.children[Top.id])
    BY <1>2, <2>2 DEF Descend, Frames
  <2> QED
    BY <2>2, <2>3
<1>5. stack' = Append(t, Frame(child))
  BY DEF Descend, Top
<1>6. t \in Seq(Frames) /\ Len(t) = Len(stack) /\ t[Len(stack)] = f
      /\ \A i \in 1..(Len(stack) - 1) : t[i] = stack[i]
  <2> HIDE DEF f
  <2> QED
    BY <1>1, <1>3, TopChanged
<1>7. /\ Frame(child) \in Frames /\ ~Frame(child).entered
      /\ Frame(child).id = child /\ Frame(child).next = 1
  BY <1>4, NewFrame
<1>8. child = profile.children[Top.id][Top.next]
  OBVIOUS
<1> HIDE DEF f, child, t
<1>9. /\ stack' \in Seq(Frames) /\ Len(stack') = Len(stack) + 1
      /\ stack'[Len(stack) + 1] = Frame(child) /\ stack'[Len(stack)] = f
      /\ Len(stack) \in Nat \ {0}
      /\ \A i \in 1..(Len(stack) - 1) : stack'[i] = stack[i]
  BY <1>1, <1>3, <1>5, <1>6, <1>7, Popped
<1> QED
  BY <1>1, <1>2, <1>3, <1>4, <1>7, <1>8, <1>9

LEMMA ExitPops ==
  ASSUME TypeOK, Exit
  PROVE  /\ stack \in Seq(Frames) /\ stack' \in Seq(Frames)
         /\ Len(stack) \in Nat \ {0} /\ Len(stack') = Len(stack) - 1
         /\ \A i \in 1..(Len(stack) - 1) : stack'[i] = stack[i]
         /\ Top.entered /\ Top \in Frames
<1>1. stack \in Seq(Frames) /\ stack # <<>>
  BY DEF TypeOK, Exit, Frames
<1> QED
  BY <1>1, Popped DEF Exit, Top

LEMMA SkipPops ==
  ASSUME TypeOK, Skip
  PROVE  /\ stack \in Seq(Frames) /\ stack' \in Seq(Frames)
         /\ Len(stack) \in Nat \ {0} /\ Len(stack') = Len(stack) - 1
         /\ \A i \in 1..(Len(stack) - 1) : stack'[i] = stack[i]
<1>1. stack \in Seq(Frames) /\ stack # <<>>
  BY DEF TypeOK, Skip, Frames
<1> QED
  BY <1>1, Popped DEF Skip

LEMMA WalkRootPushes ==
  ASSUME TypeOK, WalkRoot
  PROVE  /\ stack' \in Seq(Frames) /\ Len(stack') = 1 /\ ~stack'[1].entered
         /\ stack'[1].id \in roots /\ stack'[1].next = 1
         /\ roots' = roots \ {stack'[1].id}
<1>1. PICK root \in roots : stack' = <<Frame(root)>> /\ roots' = roots \ {root}
  BY DEF WalkRoot
<1>2. root \in Int
  BY <1>1, ProfileTypes DEF WalkRoot, TypeOK
<1> QED
  BY <1>1, <1>2, NewFrame

(* The counts stay right when neither they nor what was entered change. *)
LEMMA PathKept ==
  ASSUME ActiveIsPath, active' = active, Entered' = Entered,
         \A i \in Entered, l \in Levels : KeyOn(i, l)' = KeyOn(i, l)
  PROVE  ActiveIsPath'
<1> SUFFICES ASSUME NEW l \in Levels
             PROVE  /\ DOMAIN active'[l] = {KeyOn(i, l)' : i \in Entered'}
                    /\ \A k \in DOMAIN active'[l] : active'[l][k] = Cardinality(On(l, k)')
  BY DEF ActiveIsPath
<1>1. \A k : On(l, k)' = On(l, k)
  BY DEF On
<1>2. {KeyOn(i, l)' : i \in Entered'} = {KeyOn(i, l) : i \in Entered}
  OBVIOUS
<1> QED
  BY <1>1, <1>2 DEF ActiveIsPath

(* Sets of places on a stack are finite; a place that is added or taken away *)
(* counts for one.                                                             *)
LEMMA Places ==
  ASSUME NEW n \in Nat, NEW S \in SUBSET (1..n)
  PROVE  /\ IsFiniteSet(S) /\ Cardinality(S) \in Nat
         /\ Cardinality(S) = 0 <=> S = {}
         /\ \A i : i \notin S => Cardinality(S \cup {i}) = Cardinality(S) + 1
         /\ \A i \in S : Cardinality(S \ {i}) = Cardinality(S) - 1
<1>1. IsFiniteSet(1..n)
  BY FS_Interval
<1>2. IsFiniteSet(S)
  BY <1>1, FS_Subset
<1> QED
  BY <1>2, FS_CardinalityType, FS_EmptySet, FS_AddElement, FS_RemoveElement

(* Keys that are counted are those that frames on the path have. *)
LEMMA CountOfKey ==
  ASSUME TypeOK, ActiveIsPath, NEW l \in Levels, NEW k
  PROVE  /\ k \in DOMAIN active[l] <=> On(l, k) # {}
         /\ CountOf(active[l], k) = Cardinality(On(l, k))
         /\ On(l, k) \in SUBSET (1..Len(stack))
<1>1. k \in DOMAIN active[l] <=> On(l, k) # {}
  BY DEF ActiveIsPath, On
<1>2. On(l, k) \in SUBSET (1..Len(stack))
  BY DEF On, Entered
<1>3. On(l, k) = {} => Cardinality(On(l, k)) = 0
  BY FS_EmptySet
<1> QED
  BY <1>1, <1>2, <1>3 DEF ActiveIsPath, CountOf

-----------------------------------------------------------------------------
(* A frame that is entered counts for its keys from now on. *)
LEMMA EnterCounts ==
  ASSUME TypeOK, StackOK, ActiveIsPath, Enter
  PROVE  /\ Entered' = Entered \cup {Len(stack)} /\ Len(stack) \notin Entered
         /\ \A i \in Entered', l \in Levels : KeyOn(i, l)' = KeyOn(i, l)
         /\ ActiveIsPath'
<1> DEFINE n == Len(stack)
<1>1. Entered' = Entered \cup {n} /\ n \notin Entered
  BY EnterTop DEF Entered, Top
<1>2. \A i \in Entered', l \in Levels : KeyOn(i, l)' = KeyOn(i, l)
  <2>1. \A i \in 1..n : stack'[i].id = stack[i].id
    BY EnterTop DEF Top
  <2>2. profile' = profile /\ Entered' \subseteq 1..n
    BY EnterTop DEF Enter, Entered
  <2> QED
    BY <2>1, <2>2 DEF KeyOn
<1>3. ASSUME NEW l \in Levels
      PROVE  /\ DOMAIN active'[l] = {KeyOn(i, l)' : i \in Entered'}
             /\ \A k \in DOMAIN active'[l] : active'[l][k] = Cardinality(On(l, k)')
  <2>1. active'[l] = Credit(active[l], KeyOn(n, l), 1)
    BY <1>3 DEF Enter, TopKey, KeyOn, Top
  <2>3. \A k : n \notin On(l, k)
    BY <1>1 DEF On
  <2>4. {KeyOn(i, l)' : i \in Entered'} = {KeyOn(i, l) : i \in Entered} \cup {KeyOn(n, l)}
    BY <1>1, <1>2
  <2>5. DOMAIN active'[l] = {KeyOn(i, l)' : i \in Entered'}
    BY <2>1, <2>4 DEF Credit, ActiveIsPath
  <2>6. ASSUME NEW k \in DOMAIN active'[l]
        PROVE  active'[l][k] = Cardinality(On(l, k)')
    <3>1. active'[l][k] = CountOf(active[l], k) + (IF k = KeyOn(n, l) THEN 1 ELSE 0)
      BY <2>1 DEF Credit
    <3>2. /\ Cardinality(On(l, k)) \in Nat /\ CountOf(active[l], k) = Cardinality(On(l, k))
          /\ Cardinality(On(l, k) \cup {n}) = Cardinality(On(l, k)) + 1
      BY <2>3, CountOfKey, Places, EnterTop
    <3>3. On(l, k)' = IF k = KeyOn(n, l) THEN On(l, k) \cup {n} ELSE On(l, k)
      BY <1>1, <1>2 DEF On
    <3> QED
      BY <3>1, <3>2, <3>3
  <2> QED
    BY <2>5, <2>6
<1> QED
  BY <1>1, <1>2, <1>3 DEF ActiveIsPath

(* A frame that is left takes its key along if it was the first, and counts *)
(* it down if it was not: then a frame below still has it.                  *)
LEMMA ExitCounts ==
  ASSUME TypeOK, StackOK, ActiveIsPath, Exit
  PROVE  /\ Entered' = Entered \ {Len(stack)}
         /\ \A i \in Entered', l \in Levels : KeyOn(i, l)' = KeyOn(i, l)
         /\ ActiveIsPath'
<1> DEFINE n == Len(stack)
<1>1. Entered' = Entered \ {n} /\ n \in Entered
  BY ExitPops DEF Entered, Top
<1>2. \A i \in Entered', l \in Levels : KeyOn(i, l)' = KeyOn(i, l)
  <2>1. profile' = profile /\ Entered' \subseteq 1..(n - 1)
    BY ExitPops DEF Exit, Entered
  <2> QED
    BY <2>1, ExitPops DEF KeyOn
<1>3. ASSUME NEW l \in Levels
      PROVE  /\ DOMAIN active'[l] = {KeyOn(i, l)' : i \in Entered'}
             /\ \A k \in DOMAIN active'[l] : active'[l][k] = Cardinality(On(l, k)')
  <2> DEFINE top == KeyOn(n, l)
  <2>1. active'[l] = Deactivated(active[l], top, Top.first[l])
    BY <1>3 DEF Exit, TopKey, KeyOn, Top
  <2>3. \A k : n \in On(l, k) <=> k = top
    BY <1>1 DEF On
  <2>4. DOMAIN active[l] = {KeyOn(i, l) : i \in Entered}
    BY DEF ActiveIsPath
  <2>5. {KeyOn(i, l)' : i \in Entered'} = {KeyOn(i, l) : i \in Entered \ {n}}
    BY <1>1, <1>2
  <2>6. Top.first[l] <=> \A j \in Entered \ {n} : KeyOn(j, l) # top
    <3>1. Top.first[l] <=> \A j \in 1..(n - 1) : KeyOn(j, l) # top
      BY <1>1, <1>3 DEF StackOK, Top
    <3>2. Entered \ {n} = 1..(n - 1)
      BY <1>1, ExitPops DEF StackOK, Entered
    <3> QED
      BY <3>1, <3>2
  <2>7. \A k : /\ Cardinality(On(l, k)) \in Nat
               /\ CountOf(active[l], k) = Cardinality(On(l, k))
               /\ Cardinality(On(l, top) \ {n}) = Cardinality(On(l, top)) - 1
    BY <2>3, CountOfKey, Places, ExitPops
  <2>8. CASE Top.first[l]
    <3>1. active'[l] = [k \in DOMAIN active[l] \ {top} |-> active[l][k]]
      BY <2>1, <2>8 DEF Deactivated
    <3>2. {KeyOn(i, l) : i \in Entered \ {n}} = {KeyOn(i, l) : i \in Entered} \ {top}
      BY <1>1, <2>6, <2>8
    <3>3. ASSUME NEW k \in DOMAIN active'[l]
          PROVE  active'[l][k] = Cardinality(On(l, k)')
      <4>1. k # top /\ k \in DOMAIN active[l] /\ active'[l][k] = active[l][k]
        BY <3>1
      <4>2. On(l, k)' = On(l, k) \ {n}
        BY <1>1, <1>2 DEF On
      <4>3. On(l, k) \ {n} = On(l, k)
        BY <4>1, <2>3
      <4> QED
        BY <4>1, <4>2, <4>3 DEF ActiveIsPath
    <3> QED
      BY <3>1, <3>2, <3>3, <2>4, <2>5
  <2>9. CASE ~Top.first[l]
    <3>1. active'[l] = Credit(active[l], top, -1)
      BY <2>1, <2>9 DEF Deactivated
    <3>2. {KeyOn(i, l) : i \in Entered \ {n}} = {KeyOn(i, l) : i \in Entered}
      BY <1>1, <2>6, <2>9
    <3>3. top \in DOMAIN active[l]
      BY <1>1, <2>4
    <3>4. DOMAIN active'[l] = DOMAIN active[l]
      BY <3>1, <3>3 DEF Credit
    <3>5. ASSUME NEW k \in DOMAIN active'[l]
          PROVE  active'[l][k] = Cardinality(On(l, k)')
      <4>1. active'[l][k] = CountOf(active[l], k) + (IF k = top THEN -1 ELSE 0)
        BY <3>1 DEF Credit
      <4>2. On(l, k)' = On(l, k) \ {n}
        BY <1>1, <1>2 DEF On
      <4>3. CASE k = top
        BY <4>1, <4>2, <4>3, <2>7
      <4>4. CASE k # top
        <5>1. On(l, k) \ {n} = On(l, k)
          BY <4>4, <2>3
        <5>2. active'[l][k] = Cardinality(On(l, k))
          BY <4>1, <4>4, <2>7
        <5> QED
          BY <4>2, <5>1, <5>2
      <4> HIDE DEF top
      <4> QED
        BY <4>3, <4>4
    <3> QED
      BY <3>2, <3>4, <3>5, <2>4, <2>5
  <2> QED
    BY <2>8, <2>9
<1> QED
  BY <1>1, <1>2, <1>3 DEF ActiveIsPath

(* The other actions leave the path and the counts alone. *)
LEMMA OthersKeepCounts ==
  ASSUME IInv, Begin \/ WalkRoot \/ Skip \/ Descend \/ Finish \/ UNCHANGED vars
  PROVE  /\ Entered' = Entered
         /\ \A i \in Entered, l \in Levels : KeyOn(i, l)' = KeyOn(i, l)
         /\ ActiveIsPath'
<1> USE DEF IInv
<1>0. active' = active
  BY DEF Begin, WalkRoot, Skip, Descend, Finish, vars
<1>1. Entered' = Entered /\ \A i \in Entered, l \in Levels : KeyOn(i, l)' = KeyOn(i, l)
  <2>1. CASE Begin
    <3>1. stack = <<>> /\ stack' = stack
      BY <2>1 DEF Begin, StackOK
    <3> QED
      BY <3>1 DEF Entered
  <2>2. CASE WalkRoot
    <3>1. stack = <<>> /\ Len(stack') = 1 /\ ~stack'[1].entered
      BY <2>2, WalkRootPushes DEF WalkRoot
    <3> QED
      BY <3>1 DEF Entered
  <2>3. CASE Skip
    <3>1. ~stack[Len(stack)].entered
      BY <2>3, SkipPops DEF Skip, StackOK, Top
    <3>2. Entered' = Entered /\ Entered \subseteq 1..(Len(stack) - 1)
      BY <2>3, <3>1, SkipPops DEF Entered
    <3> QED
      BY <2>3, <3>2, SkipPops DEF Skip, KeyOn
  <2>4. CASE Descend
    <3>0. /\ Len(stack) \in Nat \ {0} /\ Len(stack') = Len(stack) + 1
          /\ \A i \in 1..(Len(stack) - 1) : stack'[i] = stack[i]
          /\ stack'[Len(stack)].entered /\ stack[Len(stack)].entered
          /\ stack'[Len(stack)].id = stack[Len(stack)].id
          /\ ~stack'[Len(stack) + 1].entered
      BY <2>4, DescendPushes DEF Top
    <3>1. Entered' = Entered /\ Entered \subseteq 1..Len(stack)
      BY <3>0 DEF Entered
    <3>2. \A i \in 1..Len(stack) : stack'[i].id = stack[i].id
      BY <3>0
    <3> QED
      BY <2>4, <3>1, <3>2 DEF Descend, KeyOn
  <2>5. CASE Finish
    <3>1. stack = <<>> /\ stack' = stack
      BY <2>5 DEF Finish
    <3> QED
      BY <3>1 DEF Entered
  <2>6. CASE UNCHANGED vars
    BY <2>6 DEF vars, Entered, KeyOn
  <2> QED
    BY <2>1, <2>2, <2>3, <2>4, <2>5, <2>6
<1> QED
  BY <1>0, <1>1, PathKept

-----------------------------------------------------------------------------
(* ActiveIsPath is kept by each of them. *)
LEMMA CountsStep ==
  ASSUME IInv, [Next]_vars
  PROVE  ActiveIsPath'
BY EnterCounts, ExitCounts, OthersKeepCounts DEF IInv, Next

(* So are the types: what is counted is a number of frames that are there. *)
LEMMA TypeStep ==
  ASSUME IInv, [Next]_vars
  PROVE  TypeOK'
<1> USE DEF IInv
<1>1. stack' \in Seq(Frames)
  <2>1. CASE Begin \/ Finish \/ UNCHANGED vars
    BY <2>1 DEF Begin, Finish, vars, TypeOK, Frames
  <2> QED
    BY <2>1, WalkRootPushes, SkipPops, EnterTop, DescendPushes, ExitPops DEF Next
<1>2. ASSUME NEW l \in Levels, NEW k \in DOMAIN active'[l]
      PROVE  active'[l][k] \in Nat \ {0}
  <2>1. active'[l][k] = Cardinality(On(l, k)') /\ On(l, k)' # {}
    BY <1>2, CountsStep DEF ActiveIsPath, On
  <2>2. On(l, k)' \in SUBSET (1..Len(stack')) /\ Len(stack') \in Nat
    BY <1>1 DEF On, Entered
  <2> QED
    BY <2>1, <2>2, Places
<1>3. /\ batch' \in Batches /\ at' \in 0..Len(batch')
      /\ profile' \in ToSet(batch') \cup {NoProfile}
      /\ roots' \subseteq (IF profile' = NoProfile THEN {} ELSE DOMAIN profile'.frame)
  <2>1. CASE Begin
    <3>1. at' = at + 1 /\ batch' = batch /\ at + 1 \in 1..Len(batch) /\ profile' = batch[at + 1]
      BY <2>1, BatchAssumption DEF Begin, TypeOK
    <3>2. profile' \in ToSet(batch) /\ profile' # NoProfile
      BY <3>1, BatchAssumption DEF ToSet, TypeOK
    <3>3. roots' \subseteq DOMAIN profile'.frame
      BY <2>1 DEF Begin, RootsOf
    <3> QED
      BY <3>1, <3>2, <3>3 DEF TypeOK
  <2>2. CASE WalkRoot
    BY <2>2, WalkRootPushes DEF WalkRoot, TypeOK
  <2>3. CASE Finish
    BY <2>3 DEF Finish, TypeOK
  <2>4. CASE Skip \/ Enter \/ Descend \/ Exit \/ UNCHANGED vars
    BY <2>4 DEF Skip, Enter, Descend, Exit, vars, TypeOK
  <2> QED
    BY <2>1, <2>2, <2>3, <2>4 DEF Next
<1>4. /\ aggs' \in Seq(ToSet(aggs'))
      /\ Len(aggs') = at' - (IF profile' = NoProfile THEN 0 ELSE 1)
  <2>1. aggs \in Seq(ToSet(aggs)) /\ at \in Nat
        /\ Len(aggs) = at - (IF profile = NoProfile THEN 0 ELSE 1)
    BY BatchAssumption DEF TypeOK
  <2>2. CASE Begin
    <3>1. at + 1 \in 1..Len(batch) /\ profile' = batch[at + 1]
      BY <2>2, BatchAssumption DEF Begin, TypeOK
    <3>2. profile' # NoProfile
      BY <3>1, BatchAssumption DEF ToSet, TypeOK
    <3> QED
      BY <2>1, <2>2, <3>2 DEF Begin
  <2>3. CASE Finish
    <3>1. PICK a : aggs' = Append(aggs, a)
      BY <2>3 DEF Finish
    <3>2. Len(aggs') = Len(aggs) + 1 /\ aggs' \in Seq(ToSet(aggs'))
      BY <2>1, <3>1 DEF ToSet
    <3> QED
      BY <2>1, <2>3, <3>2 DEF Finish
  <2>4. CASE WalkRoot \/ Skip \/ Enter \/ Descend \/ Exit \/ UNCHANGED vars
    BY <2>1, <2>4 DEF WalkRoot, Skip, Enter, Descend, Exit, vars
  <2> QED
    BY <2>2, <2>3, <2>4 DEF Next
<1> QED
  BY <1>1, <1>2, <1>3, <1>4 DEF TypeOK, Frames

(* And the shape of the stack. *)
LEMMA StackStep ==
  ASSUME IInv, [Next]_vars
  PROVE  StackOK'
<1> USE DEF IInv
<1>1. CASE Begin \/ Finish \/ UNCHANGED vars
  <2>1. CASE UNCHANGED vars
    BY <2>1 DEF vars, StackOK, Entered, KeyOn, Known
  <2>2. CASE Begin \/ Finish
    <3>1. stack' = <<>>
      BY <2>2 DEF Begin, Finish, StackOK
    <3> QED
      BY <3>1 DEF StackOK, Entered
  <2> QED
    BY <1>1, <2>1, <2>2
<1>2. CASE WalkRoot
  <2>1. Len(stack') = 1 /\ ~stack'[1].entered /\ profile' # NoProfile
    BY <1>2, WalkRootPushes DEF WalkRoot
  <2> QED
    BY <2>1 DEF StackOK, Entered
<1>3. CASE Skip
  <2>1. \A i \in Entered', l \in Levels : KeyOn(i, l)' = KeyOn(i, l)
    BY <1>3, OthersKeepCounts
  <2> QED
    BY <1>3, <2>1, SkipPops DEF Skip, StackOK, Entered, KeyOn, Known
<1>4. CASE Exit
  <2>1. profile' = profile /\ \A i \in 1..Len(stack') : stack'[i] = stack[i] /\ stack[i].entered
    BY <1>4, ExitPops DEF Exit, StackOK
  <2>2. \A i \in 1..Len(stack'), l \in Levels : KeyOn(i, l)' = KeyOn(i, l)
    BY <2>1 DEF KeyOn
  <2>3. Entered' \subseteq Entered
    BY <1>4, <2>1, ExitPops DEF Entered
  <2>4. ASSUME NEW i \in Entered', NEW l \in Levels
        PROVE  stack'[i].first[l] <=> \A j \in 1..(i - 1) : KeyOn(j, l)' # KeyOn(i, l)'
    <3>1. i \in 1..Len(stack') /\ stack'[i] = stack[i] /\ i \in Entered
      BY <2>1, <2>3 DEF Entered
    <3>2. 1..(i - 1) \subseteq 1..Len(stack')
      BY <3>1, <1>4, ExitPops
    <3> QED
      BY <2>2, <3>1, <3>2 DEF StackOK
  <2>5. Len(stack') \in Nat /\ Len(stack') < Len(stack)
    BY <1>4, ExitPops
  <2>6. \A i \in 1..Len(stack') : stack'[i].entered /\ Known(stack[i].id)
    BY <2>1, <2>5 DEF StackOK
  <2>7. \A i \in 1..Len(stack') : stack'[i].entered => stack'[i].id \in DOMAIN profile'.frame
    BY <2>1, <2>6 DEF Known
  <2>8. profile' # NoProfile
    BY <1>4, <2>1 DEF StackOK, Exit
  <2> QED
    BY <2>4, <2>6, <2>7, <2>8 DEF StackOK, Known
<1>5. CASE Descend
  <2>1. /\ profile' = profile
        /\ \A i \in 1..Len(stack) :
             /\ stack'[i].id = stack[i].id /\ stack'[i].first = stack[i].first
             /\ stack'[i].entered /\ stack[i].entered
    <3> DEFINE n == Len(stack)
    <3>1. /\ profile' = profile /\ n \in Nat \ {0}
          /\ stack'[n].id = stack[n].id /\ stack'[n].first = stack[n].first
          /\ stack'[n].entered /\ stack[n].entered
          /\ \A i \in 1..(n - 1) : stack'[i] = stack[i]
      BY <1>5, DescendPushes DEF Descend, Top
    <3>2. \A i \in 1..(n - 1) : stack[i].entered
      BY <3>1 DEF StackOK
    <3>3. \A i \in 1..n : i = n \/ i \in 1..(n - 1)
      BY <3>1
    <3>4. \A i \in 1..n :
            /\ stack'[i].id = stack[i].id /\ stack'[i].first = stack[i].first
            /\ stack'[i].entered /\ stack[i].entered
      <4> HIDE DEF n
      <4> QED
        BY <3>1, <3>2, <3>3
    <3> QED
      BY <3>1, <3>4
  <2>2. \A i \in 1..Len(stack), l \in Levels : KeyOn(i, l)' = KeyOn(i, l)
    BY <2>1 DEF KeyOn
  <2>3. Entered' = 1..Len(stack) /\ Entered = 1..Len(stack)
    BY <1>5, <2>1, DescendPushes DEF Entered
  <2>4. ASSUME NEW i \in Entered', NEW l \in Levels
        PROVE  stack'[i].first[l] <=> \A j \in 1..(i - 1) : KeyOn(j, l)' # KeyOn(i, l)'
    <3>1. i \in 1..Len(stack) /\ stack'[i].first = stack[i].first /\ i \in Entered
      BY <2>1, <2>3
    <3>2. 1..(i - 1) \subseteq 1..Len(stack)
      BY <3>1, <1>5, DescendPushes
    <3> QED
      BY <2>2, <3>1, <3>2 DEF StackOK
  <2>5. Len(stack) \in Nat \ {0} /\ Len(stack') = Len(stack) + 1
        /\ ~stack'[Len(stack')].entered
    BY <1>5, DescendPushes
  <2>6. profile' # NoProfile
    BY <1>5, <2>1 DEF StackOK, Descend
  <2>7. \A i \in 1..Len(stack') : i < Len(stack') => stack'[i].entered
    BY <2>1, <2>5
  <2>8. \A i \in 1..Len(stack') : stack'[i].entered => stack'[i].id \in DOMAIN profile'.frame
    BY <2>1, <2>5 DEF StackOK, Known
  <2> QED
    BY <2>4, <2>6, <2>7, <2>8 DEF StackOK, Known
<1>6. CASE Enter
  <2> DEFINE n == Len(stack)
  <2>1. /\ profile' = profile /\ n \in Nat \ {0} /\ Len(stack') = n
        /\ \A i \in 1..n : stack'[i].id = stack[i].id
        /\ \A i \in 1..(n - 1) : stack'[i] = stack[i] /\ stack[i].entered
    <3>1. /\ profile' = profile /\ n \in Nat \ {0} /\ Len(stack') = n
          /\ stack'[n].id = stack[n].id
          /\ \A i \in 1..(n - 1) : stack'[i] = stack[i]
      BY <1>6, EnterTop DEF Enter, Top
    <3>2. \A i \in 1..(n - 1) : stack[i].entered
      BY <3>1 DEF StackOK
    <3>3. \A i \in 1..n : i = n \/ i \in 1..(n - 1)
      BY <3>1
    <3> HIDE DEF n
    <3> QED
      BY <3>1, <3>2, <3>3
  <2>2. Entered = 1..(n - 1) /\ Entered' = 1..n
    BY <1>6, <2>1, EnterTop DEF Entered, Top
  <2>3. \A i \in 1..n, l \in Levels : KeyOn(i, l)' = KeyOn(i, l)
    BY <2>1 DEF KeyOn
  <2>4. ASSUME NEW i \in Entered', NEW l \in Levels
        PROVE  stack'[i].first[l] <=> \A j \in 1..(i - 1) : KeyOn(j, l)' # KeyOn(i, l)'
    <3>1. i \in 1..n /\ 1..(i - 1) \subseteq 1..n
      BY <2>1, <2>2
    <3>2. CASE i = n
      <4>1. stack'[n].first[l] <=> CountOf(active[l], KeyOn(n, l)) = 0
        BY <1>6, EnterTop DEF TopKey, KeyOn, Top
      <4>2. CountOf(active[l], KeyOn(n, l)) = 0 <=> On(l, KeyOn(n, l)) = {}
        BY <2>1, CountOfKey, Places
      <4>3. On(l, KeyOn(n, l)) = {} <=> \A j \in 1..(n - 1) : KeyOn(j, l) # KeyOn(n, l)
        BY <2>2 DEF On
      <4> QED
        BY <2>3, <3>1, <3>2, <4>1, <4>2, <4>3
    <3>3. CASE i # n
      <4>1. i \in Entered /\ stack'[i] = stack[i]
        BY <2>1, <2>2, <3>1, <3>3
      <4> QED
        BY <2>3, <3>1, <4>1 DEF StackOK
    <3> QED
      BY <3>2, <3>3
  <2>5. \A i \in 1..n : Known(stack[i].id)
    <3>1. Known(stack[n].id)
      BY <1>6 DEF Enter, Top
    <3>2. \A i \in 1..(n - 1) : Known(stack[i].id)
      BY <2>1 DEF StackOK
    <3>3. \A i \in 1..n : i = n \/ i \in 1..(n - 1)
      BY <2>1
    <3> HIDE DEF n
    <3> QED
      BY <3>1, <3>2, <3>3
  <2>6. profile' # NoProfile
    BY <1>6, <2>1 DEF StackOK, Enter
  <2>7. \A i \in 1..n : stack'[i].entered
    BY <2>2 DEF Entered
  <2>8. \A i \in 1..Len(stack') : stack'[i].id \in DOMAIN profile'.frame
    BY <2>1, <2>5 DEF Known
  <2> QED
    BY <2>1, <2>4, <2>6, <2>7, <2>8 DEF StackOK, Known
<1> QED
  BY <1>1, <1>2, <1>3, <1>4, <1>5, <1>6 DEF Next

-----------------------------------------------------------------------------
(* IInv is an invariant of aggregation, whatever is aggregated. *)
THEOREM Inductive == Spec => []IInv
<1>1. IInv /\ [Next]_vars => IInv'
  BY TypeStep, StackStep, CountsStep DEF IInv
<1> QED
  BY InitHolds, <1>1, PTL DEF Spec

(* Aggregation keeps its types (aggregateTree, MergeAggregations). *)
THEOREM TypeCorrect == Spec => []TypeOK
BY Inductive, PTL DEF IInv

(* The reference counts of the walk are those of the path, however deep the *)
(* recursion and whatever children are missing (aggregate.go:403-518).      *)
THEOREM CountsAreThePath == Spec => []ActiveIsPath
BY Inductive, PTL DEF IInv

-----------------------------------------------------------------------------
(* The call tree of a profile as a forest *)
Nodes(p) == DOMAIN p.frame
ParentsOf(p) == [n \in Nodes(p) |-> {x \in Nodes(p) : n \in ToSet(p.children[x])}]

(* p is a profile that is aggregated. *)
IsProfile(p) == \E b \in Batches : p \in ToSet(b)

LEMMA ProfileIs ==
  ASSUME NEW p, IsProfile(p)
  PROVE  /\ IsFiniteSet(Nodes(p)) /\ Nodes(p) \subseteq Int
         /\ p.children \in [Nodes(p) -> Seq(Int)]
         /\ p.hits \in [Nodes(p) -> Int] /\ p.duration \in Int
         /\ p.samples \in Seq([id : Int, delta : Int, label : STRING])
         /\ IsForest(p)
BY BatchAssumption, ForestAssumption DEF IsProfile, Nodes

LEMMA PathToIs ==
  ASSUME NEW p
  PROVE  ArePaths(Nodes(p), ParentsOf(p), PathTo(p))
<1> DEFINE D == Nodes(p)
           Eq(f) == f = [n \in DOMAIN p.frame |->
                         {n} \cup UNION {f[m] : m \in {x \in DOMAIN p.frame :
                                                      n \in ToSet(p.children[x])}}]
<1>1. ParentsOf(p) \in [D -> SUBSET D]
  BY DEF ParentsOf
<1>2. \A f : ArePaths(D, ParentsOf(p), f) <=> Eq(f)
  BY DEF ParentsOf, Nodes, ArePaths
<1>3. PICK path : ArePaths(D, ParentsOf(p), path)
  <2> HIDE DEF D
  <2> QED
    BY <1>1, PathsExist
<1>4. PathTo(p) = CHOOSE f : Eq(f)
  BY DEF PathTo
<1> HIDE DEF Eq, D
<1>5. Eq(CHOOSE f : Eq(f))
  BY <1>2, <1>3
<1> QED
  BY <1>2, <1>4, <1>5 DEF D

LEMMA SeqHas ==
  ASSUME NEW s \in Seq(Int), NEW x
  PROVE  x \in ToSet(s) <=> \E i \in 1..Len(s) : s[i] = x
BY DEF ToSet

LEMMA ProfileForest ==
  ASSUME NEW p, IsProfile(p)
  PROVE  /\ IsForestOf(Nodes(p), ParentsOf(p))
         /\ ParentsOf(p) \in [Nodes(p) -> SUBSET Nodes(p)]
         /\ \A k \in Nodes(p) : \A a, b \in ParentsOf(p)[k] : a = b
<1>1. ParentsOf(p) \in [Nodes(p) -> SUBSET Nodes(p)]
  BY DEF ParentsOf
<1>2. ASSUME NEW S \in SUBSET Nodes(p), S # {}
      PROVE  \E n \in S : ParentsOf(p)[n] \cap S = {}
  <2>1. PICK n \in S : \A m \in S : n \notin ToSet(p.children[m])
    BY <1>2, ProfileIs DEF IsForest, Nodes
  <2> QED
    BY <2>1 DEF ParentsOf
<1>3. ASSUME NEW k \in Nodes(p), NEW a \in ParentsOf(p)[k], NEW b \in ParentsOf(p)[k]
      PROVE  a = b
  <2>1. a \in Nodes(p) /\ b \in Nodes(p) /\ k \in ToSet(p.children[a]) /\ k \in ToSet(p.children[b])
    BY DEF ParentsOf
  <2>2. p.children[a] \in Seq(Int) /\ p.children[b] \in Seq(Int)
    BY <2>1, ProfileIs
  <2> DEFINE s == p.children[a]
             t == p.children[b]
  <2>3. \A i \in 1..Len(s), j \in 1..Len(t) : s[i] = t[j] /\ s[i] \in Nodes(p) => a = b
    BY <2>1, ProfileIs DEF IsForest, Nodes
  <2>4. s \in Seq(Int) /\ t \in Seq(Int) /\ k \in ToSet(s) /\ k \in ToSet(t)
    BY <2>1, <2>2
  <2> HIDE DEF s, t
  <2>5. PICK i \in 1..Len(s) : s[i] = k
    BY <2>4, SeqHas
  <2>6. PICK j \in 1..Len(t) : t[j] = k
    BY <2>4, SeqHas
  <2> QED
    BY <2>3, <2>5, <2>6
<1> QED
  BY <1>1, <1>2, <1>3 DEF IsForestOf

(* The lemmas about forests, said of a profile's nodes. *)
LEMMA PathFacts ==
  ASSUME NEW p, IsProfile(p), NEW n \in Nodes(p)
  PROVE  /\ PathTo(p)[n] \subseteq Nodes(p) /\ n \in PathTo(p)[n]
         /\ PathTo(p)[n] = {n} \cup UNION {PathTo(p)[m] : m \in ParentsOf(p)[n]}
         /\ \A m \in ParentsOf(p)[n] : n \notin PathTo(p)[m]
         /\ \A x \in PathTo(p)[n] : PathTo(p)[x] \subseteq PathTo(p)[n]
         /\ \A x \in PathTo(p)[n] \ {n} : \E c \in PathTo(p)[n] : x \in ParentsOf(p)[c]
         /\ \E r \in PathTo(p)[n] : r \in RootsOf(p)
<1> DEFINE D == Nodes(p)
           par == ParentsOf(p)
           path == PathTo(p)
<1>1. IsForestOf(D, par) /\ par \in [D -> SUBSET D] /\ ArePaths(D, par, path) /\ n \in D
  BY PathToIs, ProfileForest
<1>2. \A r \in D : par[r] = {} => r \in RootsOf(p)
  BY DEF ParentsOf, RootsOf, Nodes
<1> HIDE DEF D, par, path
<1>3. path[n] \subseteq D /\ n \in path[n] /\ path[n] = {n} \cup UNION {path[m] : m \in par[n]}
  BY <1>1, PathIs, PathInside
<1>4. \A m \in par[n] : n \notin path[m]
  BY <1>1, PathsEnd
<1>5. \A x \in path[n] : path[x] \subseteq path[n]
  BY <1>1, PathsNest
<1>6. \A x \in path[n] \ {n} : \E c \in path[n] : x \in par[c]
  BY <1>1, PathGoesOn
<1>7. \E r \in path[n] : par[r] = {}
  BY <1>1, PathHasRoot
<1> QED
  BY <1>2, <1>3, <1>4, <1>5, <1>6, <1>7 DEF D, par, path

-----------------------------------------------------------------------------
(* The walk: its stack is a path, and what lies ahead of it.               *)
Paths == PathTo(profile)

FrameOnPath(i) ==
  /\ ~stack[i].entered => stack[i].next = 1
  /\ Known(stack[i].id) => Paths[stack[i].id] = {stack[j].id : j \in 1..i}
  /\ \A j \in 1..(i - 1) : stack[j].id # stack[i].id
  /\ i = 1 => stack[1].id \in RootsOf(profile) \ roots
  /\ i # 1 => /\ stack[i - 1].next - 1 \in 1..Len(profile.children[stack[i - 1].id])
              /\ stack[i].id = profile.children[stack[i - 1].id][stack[i - 1].next - 1]

OnPath ==
  profile # NoProfile =>
    /\ roots \subseteq RootsOf(profile)
    /\ \A i \in 1..Len(stack) : FrameOnPath(i)

LEMMA ProfileInWork ==
  ASSUME TypeOK, profile # NoProfile
  PROVE  IsProfile(profile)
BY DEF TypeOK, IsProfile

LEMMA KeptOnPath ==
  ASSUME profile' = profile, roots' = roots, NEW i \in Nat \ {0}, FrameOnPath(i),
         \A j \in 1..i : stack'[j].id = stack[j].id,
         i # 1 => stack'[i - 1].next = stack[i - 1].next,
         ~stack'[i].entered => stack'[i].next = 1
  PROVE  FrameOnPath(i)'
<1>1. stack'[i].id = stack[i].id /\ (i # 1 => stack'[i - 1].id = stack[i - 1].id)
      /\ stack'[1].id = stack[1].id
  OBVIOUS
<1>2. \A j \in 1..(i - 1) : stack'[j].id = stack[j].id
  OBVIOUS
<1>3. {stack'[j].id : j \in 1..i} = {stack[j].id : j \in 1..i}
  OBVIOUS
<1> QED
  BY <1>1, <1>2, <1>3 DEF FrameOnPath, Paths, Known

(* A frame that is pushed for a child continues the path. *)
LEMMA ChildOnPath ==
  ASSUME IInv, OnPath, Descend
  PROVE  OnPath'
<1> DEFINE n == Len(stack)
           c == profile.children[Top.id][Top.next]
<1>1. /\ n \in Nat \ {0} /\ Len(stack') = n + 1
      /\ \A i \in 1..(n - 1) : stack'[i] = stack[i]
      /\ stack'[n].id = stack[n].id /\ stack'[n].entered /\ stack'[n].next - 1 = stack[n].next
      /\ stack'[n + 1].id = c /\ ~stack'[n + 1].entered /\ stack'[n + 1].next = 1
      /\ stack[n].next \in 1..Len(profile.children[stack[n].id])
      /\ profile.children[stack[n].id] \in Seq(Int)
  <2>1. stack[n] \in Frames
    BY DescendPushes, Popped DEF IInv, Descend
  <2>2. stack[n].next \in Nat
    BY <2>1 DEF Frames
  <2>3. Top.next = stack[n].next
    BY DEF Top
  <2> QED
    BY <2>2, <2>3, DescendPushes DEF IInv, Top
<1>2. /\ profile' = profile /\ roots' = roots /\ profile # NoProfile
      /\ stack[n].id \in Nodes(profile)
  BY <1>1 DEF Descend, IInv, StackOK, Known, Top, Nodes
<1>3. IsProfile(profile) /\ roots \subseteq RootsOf(profile)
      /\ \A i \in 1..n : FrameOnPath(i)
  BY <1>2, ProfileInWork DEF IInv, OnPath
<1>a. \A i \in 1..n : /\ i = n \/ i \in 1..(n - 1)
                      /\ i # 1 => i - 1 \in 1..(n - 1)
                      /\ 1..i \subseteq 1..n /\ i \in Nat \ {0} /\ i \in 1..i
  BY <1>1
<1>b. \A j \in 1..n : stack'[j].id = stack[j].id
  <2> HIDE DEF n, c
  <2> QED
    BY <1>1, <1>a
<1>4. ASSUME NEW i \in 1..n PROVE FrameOnPath(i)'
  <2>1. \A j \in 1..i : stack'[j].id = stack[j].id
    BY <1>a, <1>b
  <2>2. i # 1 => stack'[i - 1].next = stack[i - 1].next
    <3> HIDE DEF n, c
    <3> QED
      BY <1>1, <1>a
  <2>3. ~stack'[i].entered => stack'[i].next = 1
    <3>1. CASE i = n
      BY <3>1, <1>1
    <3>2. CASE i # n
      <4>1. stack'[i] = stack[i] /\ FrameOnPath(i)
        BY <3>2, <1>1, <1>3, <1>a
      <4> QED
        BY <4>1 DEF FrameOnPath
    <3> QED
      BY <3>1, <3>2
  <2> QED
    BY <1>a, <1>2, <1>3, <2>1, <2>2, <2>3, KeptOnPath
<1>p. PICK m : m = n + 1
  OBVIOUS
<1>5. FrameOnPath(m)'
  <2>1. Paths[stack[n].id] = {stack[j].id : j \in 1..n}
    <3>1. n \in 1..n
      BY <1>1
    <3>2. FrameOnPath(n)
      BY <1>3, <3>1
    <3> HIDE DEF n, c
    <3> QED
      BY <1>2, <3>2 DEF FrameOnPath, Known, Nodes
  <2>2. c \in Nodes(profile) => stack[n].id \in ParentsOf(profile)[c]
    <3>1. c \in ToSet(profile.children[stack[n].id])
      BY <1>1, SeqHas DEF Top
    <3> QED
      BY <3>1, <1>2 DEF ParentsOf
  <2>3. \A j \in 1..n : stack'[j].id = stack[j].id
    BY <1>b
  <2>4. ASSUME NEW j \in 1..n PROVE stack'[j].id # c
    <3>1. stack[j].id \in Paths[stack[n].id]
      BY <2>1
    <3>2. stack[j].id \in Nodes(profile)
      BY <1>2, <1>3, <3>1, PathFacts DEF Paths
    <3>3. c \in Nodes(profile) => c \notin Paths[stack[n].id]
      BY <1>3, <2>2, PathFacts DEF Paths
    <3> QED
      BY <3>1, <3>2, <3>3, <2>3
  <2>5. ASSUME c \in Nodes(profile)
        PROVE  Paths[c] = {stack'[j].id : j \in 1..(n + 1)}
    <3>1. ParentsOf(profile)[c] = {stack[n].id}
      BY <1>3, <2>2, <2>5, ProfileForest
    <3>2. Paths[c] = {c} \cup Paths[stack[n].id]
      BY <1>3, <2>5, <3>1, PathFacts DEF Paths
    <3>3. {stack'[j].id : j \in 1..(n + 1)} = {c} \cup {stack'[j].id : j \in 1..n}
      <4>1. \A j \in 1..(n + 1) : j = n + 1 \/ j \in 1..n
        BY <1>1
      <4>2. n + 1 \in 1..(n + 1) /\ 1..n \subseteq 1..(n + 1)
        BY <1>1
      <4> HIDE DEF c, n
      <4> QED
        BY <1>1, <4>1, <4>2
    <3>4. {stack'[j].id : j \in 1..n} = {stack[j].id : j \in 1..n}
      BY <2>3
    <3> QED
      BY <3>2, <3>3, <3>4, <2>1
  <2>6. \A j \in 1..((n + 1) - 1) : stack'[j].id # stack'[n + 1].id
    BY <1>1, <2>4
  <2>7. /\ n + 1 # 1 /\ (n + 1) - 1 = n
        /\ stack'[n].next - 1 \in 1..Len(profile'.children[stack'[n].id])
        /\ stack'[n + 1].id = profile'.children[stack'[n].id][stack'[n].next - 1]
    BY <1>1, <1>2 DEF Top
  <2> HIDE DEF c, n
  <2>8. stack'[n + 1].id \in DOMAIN profile'.frame
          => Paths'[stack'[n + 1].id] = {stack'[j].id : j \in 1..(n + 1)}
    BY <1>1, <1>2, <2>5 DEF Nodes, Paths
  <2>9. m # 1 /\ ~stack'[m].entered /\ stack'[m].next = 1
        /\ \A j \in 1..(m - 1) : stack'[j].id # stack'[m].id
        /\ m - 1 = n
    BY <1>1, <1>p, <2>6, <2>7
  <2>10. stack'[m].id \in DOMAIN profile'.frame
          => Paths'[stack'[m].id] = {stack'[j].id : j \in 1..m}
    BY <1>p, <2>8
  <2>11. /\ stack'[m - 1].next - 1 \in 1..Len(profile'.children[stack'[m - 1].id])
         /\ stack'[m].id = profile'.children[stack'[m - 1].id][stack'[m - 1].next - 1]
    BY <1>p, <2>7, <2>9
  <2> QED
    BY <2>9, <2>10, <2>11 DEF FrameOnPath, Known
<1>6. \A i \in 1..(n + 1) : i = n + 1 \/ i \in 1..n
  BY <1>1
<1> HIDE DEF n
<1>7. \A i \in 1..Len(stack') : FrameOnPath(i)'
  <2>1. Len(stack') = n + 1
    BY <1>1
  <2>2. ASSUME NEW i \in 1..Len(stack') PROVE FrameOnPath(i)'
    <3>1. i = n + 1 \/ i \in 1..n
      BY <2>1, <1>6
    <3> QED
      BY <3>1, <1>4, <1>5, <1>p
  <2> QED
    BY <2>2
<1> QED
  BY <1>2, <1>3, <1>7 DEF OnPath

LEMMA OnPathStep ==
  ASSUME IInv, OnPath, [Next]_vars
  PROVE  OnPath'
<1> USE DEF IInv
<1>1. CASE UNCHANGED vars
  <2>1. profile' = profile /\ stack' = stack /\ roots' = roots
    BY <1>1 DEF vars
  <2>2. ASSUME NEW i PROVE FrameOnPath(i)' = FrameOnPath(i)
    BY <2>1 DEF FrameOnPath, Paths, Known
  <2> QED
    BY <2>1, <2>2 DEF OnPath
<1>2. CASE Begin
  <2>1. stack' = <<>> /\ roots' = RootsOf(profile')
    BY <1>2 DEF Begin, StackOK
  <2> QED
    BY <2>1 DEF OnPath
<1>3. CASE Finish
  BY <1>3 DEF Finish, OnPath
<1>4. CASE Descend
  BY <1>4, ChildOnPath
<1>5. CASE WalkRoot
  <2>1. /\ profile' = profile /\ profile # NoProfile
        /\ Len(stack') = 1 /\ stack'[1].id \in roots /\ stack'[1].next = 1
        /\ roots' = roots \ {stack'[1].id} /\ roots \subseteq RootsOf(profile)
    BY <1>5, WalkRootPushes DEF WalkRoot, OnPath
  <2> DEFINE r == stack'[1].id
  <2>2. r \in Nodes(profile) /\ ParentsOf(profile)[r] = {} /\ IsProfile(profile)
    BY <2>1, ProfileInWork DEF RootsOf, ParentsOf, Nodes
  <2>3. PathTo(profile)[r] = {r}
    BY <2>2, PathFacts
  <2>4. {stack'[j].id : j \in 1..1} = {r}
    OBVIOUS
  <2>5. FrameOnPath(1)'
    BY <2>1, <2>3, <2>4 DEF FrameOnPath, Paths
  <2> QED
    BY <2>1, <2>5 DEF OnPath
<1>6. CASE Skip \/ Exit
  <2>1. /\ profile' = profile /\ roots' = roots /\ stack # <<>>
        /\ Len(stack) \in Nat \ {0} /\ Len(stack') = Len(stack) - 1
        /\ \A i \in 1..(Len(stack) - 1) : stack'[i] = stack[i]
    BY <1>6, SkipPops, ExitPops DEF Skip, Exit
  <2>2. profile # NoProfile
    BY <2>1 DEF StackOK
  <2>3. ASSUME NEW i \in 1..Len(stack') PROVE FrameOnPath(i)'
    <3>1. i \in Nat \ {0} /\ i \in 1..Len(stack) /\ \A j \in 1..i : stack'[j] = stack[j]
      BY <2>1
    <3>2. FrameOnPath(i) /\ stack'[i] = stack[i] /\ (i # 1 => stack'[i - 1] = stack[i - 1])
      BY <2>2, <3>1 DEF OnPath
    <3>3. ~stack[i].entered => stack[i].next = 1
      BY <3>2 DEF FrameOnPath
    <3> QED
      BY <2>1, <3>1, <3>2, <3>3, KeptOnPath
  <2> QED
    BY <2>1, <2>2, <2>3 DEF OnPath
<1>7. CASE Enter
  <2> DEFINE n == Len(stack)
  <2>1. /\ profile' = profile /\ roots' = roots /\ stack # <<>>
        /\ n \in Nat \ {0} /\ Len(stack') = n
        /\ \A i \in 1..(n - 1) : stack'[i] = stack[i]
        /\ stack'[n].id = stack[n].id /\ stack'[n].next = stack[n].next
        /\ stack'[n].entered
    BY <1>7, EnterTop DEF Enter, Top
  <2>2. profile # NoProfile
    BY <2>1 DEF StackOK
  <2>3. ASSUME NEW i \in 1..n PROVE FrameOnPath(i)'
    <3>1. i \in Nat \ {0} /\ \A j \in 1..i : stack'[j].id = stack[j].id
      BY <2>1
    <3>2. FrameOnPath(i) /\ (i # 1 => stack'[i - 1] = stack[i - 1])
      BY <2>1, <2>2 DEF OnPath
    <3>3. ~stack'[i].entered => stack'[i].next = 1
      <4>1. CASE i = n
        BY <2>1, <4>1
      <4>2. CASE i # n
        BY <2>1, <3>2, <4>2 DEF FrameOnPath
      <4> QED
        BY <4>1, <4>2
    <3> QED
      BY <2>1, <3>1, <3>2, <3>3, KeptOnPath
  <2> QED
    BY <2>1, <2>2, <2>3 DEF OnPath
<1> QED
  BY <1>1, <1>2, <1>3, <1>4, <1>5, <1>6, <1>7 DEF Next

-----------------------------------------------------------------------------
(* Nodes that a frame will still push, or enter itself; those that the     *)
(* first n frames of a stack will.                                         *)
Coming(p, frame) ==
  IF frame.entered
  THEN {p.children[frame.id][j] : j \in frame.next..Len(p.children[frame.id])}
  ELSE {frame.id}

ComingOf(p, s, n) == UNION {Coming(p, s[i]) : i \in 1..n}

Ahead == roots \cup ComingOf(profile, stack, Len(stack))

(* Nodes that were entered: those with nothing ahead on their path.        *)
Walked == {n \in Nodes(profile) : Paths[n] \cap Ahead = {}}

LEMMA ComingSplits ==
  ASSUME NEW p, NEW s, NEW n \in Nat \ {0}
  PROVE  ComingOf(p, s, n) = ComingOf(p, s, n - 1) \cup Coming(p, s[n])
<1>1. \A i : i \in 1..n <=> i \in 1..(n - 1) \/ i = n
  OBVIOUS
<1> QED
  BY <1>1 DEF ComingOf

LEMMA ComingSame ==
  ASSUME NEW p, NEW s, NEW t, NEW n \in Nat, \A i \in 1..n : s[i] = t[i]
  PROVE  ComingOf(p, s, n) = ComingOf(p, t, n)
BY DEF ComingOf

LEMMA ComingNone ==
  ASSUME NEW p, NEW s
  PROVE  ComingOf(p, s, 0) = {}
<1>1. 1..0 = {}
  OBVIOUS
<1> QED
  BY <1>1 DEF ComingOf

(* What lies ahead at the start of a walk, and at its end. *)
LEMMA WalkBegins ==
  ASSUME IInv, Begin
  PROVE  Walked' = {}
<1>1. /\ stack' = <<>> /\ roots' = RootsOf(profile') /\ profile' = batch[at + 1]
      /\ at + 1 \in 1..Len(batch) /\ batch \in Batches
  BY BatchAssumption DEF Begin, IInv, TypeOK, StackOK
<1>2. batch[at + 1] \in ToSet(batch)
  BY <1>1, BatchAssumption DEF ToSet
<1>3. IsProfile(profile')
  BY <1>1, <1>2 DEF IsProfile
<1>4. \A n \in Nodes(profile') : \E r \in PathTo(profile')[n] : r \in RootsOf(profile')
  BY <1>3, PathFacts
<1> QED
  BY <1>1, <1>4 DEF Walked, Ahead, Paths

LEMMA WalkEnds ==
  ASSUME IInv, Finish
  PROVE  Walked = Nodes(profile)
<1>1. Ahead = {}
  BY ComingNone DEF Finish, Ahead
<1> QED
  BY <1>1 DEF Walked

(* Every action but these two and Enter moves nodes within what is ahead.  *)
LEMMA WalkGoesOn ==
  ASSUME IInv, OnPath, WalkRoot \/ Skip \/ Descend \/ Exit
  PROVE  Walked' = Walked
<1> DEFINE n == Len(stack)
<1> USE DEF IInv
<1>0. profile' = profile /\ profile # NoProfile
  <2>1. stack # <<>> => profile # NoProfile
    BY DEF StackOK
  <2> QED
    BY <2>1 DEF WalkRoot, Skip, Descend, Exit
<1>1. CASE WalkRoot
  <2>1. stack = <<>> /\ Len(stack') = 1 /\ stack'[1].id \in roots /\ ~stack'[1].entered
        /\ roots' = roots \ {stack'[1].id}
    BY <1>1, WalkRootPushes DEF WalkRoot
  <2>2. ComingOf(profile, stack', 1) = {stack'[1].id}
    BY <2>1 DEF ComingOf, Coming
  <2>3. Ahead = roots
    BY <2>1, ComingNone DEF Ahead
  <2> QED
    BY <1>0, <2>1, <2>2, <2>3 DEF Ahead, Walked, Paths
<1>2. CASE Skip \/ Exit
  <2>1. /\ stack # <<>> /\ n \in Nat \ {0} /\ Len(stack') = n - 1 /\ roots' = roots
        /\ \A i \in 1..(n - 1) : stack'[i] = stack[i]
    BY <1>2, SkipPops, ExitPops DEF Skip, Exit
  <2>2. Ahead = Ahead' \cup Coming(profile, stack[n])
    <3> HIDE DEF n
    <3>1. ComingOf(profile, stack', n - 1) = ComingOf(profile, stack, n - 1)
      BY <2>1, ComingSame
    <3>2. ComingOf(profile, stack, n) = ComingOf(profile, stack, n - 1) \cup Coming(profile, stack[n])
      BY <2>1, ComingSplits
    <3>3. Ahead' = roots \cup ComingOf(profile, stack', n - 1)
      BY <1>0, <2>1 DEF Ahead
    <3> QED
      BY <3>1, <3>2, <3>3 DEF Ahead, n
  <2>3. Coming(profile, stack[n]) \cap Nodes(profile) = {}
    <3>1. CASE Exit
      <4>1. stack[n].entered /\ stack[n].next > Len(profile.children[stack[n].id])
            /\ stack[n].next \in Nat /\ stack[n].id \in Nodes(profile)
        BY <3>1, ExitPops DEF Exit, Top, Frames, Known, Nodes
      <4>2. Len(profile.children[stack[n].id]) \in Nat
        BY <1>0, <4>1, ProfileTypes DEF Nodes
      <4> HIDE DEF n
      <4>3. stack[n].next..Len(profile.children[stack[n].id]) = {}
        BY <4>1, <4>2
      <4> QED
        BY <4>1, <4>3 DEF Coming
    <3>2. CASE Skip
      <4>1. ~stack[n].entered /\ stack[n].id \notin Nodes(profile)
        BY <2>1, <3>2 DEF Skip, Top, StackOK, Known, Nodes
      <4> QED
        BY <4>1 DEF Coming
    <3> QED
      BY <1>2, <3>1, <3>2
  <2>4. \A x \in Nodes(profile) : Paths[x] \subseteq Nodes(profile)
    BY <1>0, ProfileInWork, PathFacts DEF Paths
  <2>5. \A x \in Nodes(profile) : Paths[x] \cap Ahead = Paths[x] \cap Ahead'
    BY <2>2, <2>3, <2>4
  <2> QED
    BY <1>0, <2>5 DEF Walked, Paths
<1>3. CASE Descend
  <2> DEFINE kids == profile.children[stack[n].id]
             k == stack[n].next
  <2>1. /\ n \in Nat \ {0} /\ Len(stack') = n + 1 /\ roots' = roots
        /\ \A i \in 1..(n - 1) : stack'[i] = stack[i]
        /\ stack'[n].entered /\ stack[n].entered /\ stack'[n].id = stack[n].id
        /\ stack'[n].next = k + 1 /\ ~stack'[n + 1].entered /\ stack'[n + 1].id = kids[k]
        /\ k \in 1..Len(kids) /\ Len(kids) \in Nat
    <3>1. kids \in Seq(Int) /\ k \in 1..Len(kids)
      BY <1>3, DescendPushes DEF Top
    <3>2. /\ n \in Nat \ {0} /\ Len(stack') = n + 1
          /\ \A i \in 1..(n - 1) : stack'[i] = stack[i]
          /\ stack'[n].entered /\ stack[n].entered /\ stack'[n].id = stack[n].id
          /\ stack'[n].next = k + 1 /\ ~stack'[n + 1].entered
      BY <1>3, DescendPushes DEF Top
    <3>3. stack'[n + 1].id = kids[k]
      BY <1>3, DescendPushes DEF Top
    <3>4. roots' = roots
      BY <1>3 DEF Descend
    <3> QED
      BY <3>1, <3>2, <3>3, <3>4
  <2>2. Coming(profile, stack'[n]) \cup Coming(profile, stack'[n + 1]) = Coming(profile, stack[n])
    <3>1. \A j : j \in k..Len(kids) <=> j = k \/ j \in (k + 1)..Len(kids)
      BY <2>1
    <3> DEFINE L == Len(kids)
               kn == k + 1
               m == n + 1
    <3>2. Coming(profile, stack'[n]) = {kids[j] : j \in kn..L}
          /\ Coming(profile, stack[n]) = {kids[j] : j \in k..L}
          /\ Coming(profile, stack'[m]) = {kids[k]}
      <4> HIDE DEF m, kn
      <4>1. stack'[n].entered /\ stack[n].entered /\ stack'[n].id = stack[n].id
            /\ stack'[n].next = kn /\ ~stack'[m].entered /\ stack'[m].id = kids[k]
        BY <2>1 DEF m, kn
      <4> HIDE DEF n
      <4> QED
        BY <4>1 DEF Coming
    <3>3. \A j : j \in k..L <=> j = k \/ j \in kn..L
      BY <3>1
    <3> HIDE DEF L, kn, m, k, kids
    <3>4. {kids[j] : j \in kn..L} \cup {kids[k]} = {kids[j] : j \in k..L}
      BY <3>3
    <3> QED
      BY <3>2, <3>4 DEF m
  <2> HIDE DEF n, kids, k
  <2>3. ComingOf(profile, stack', n + 1)
          = ComingOf(profile, stack', n) \cup Coming(profile, stack'[n + 1])
    <3>1. n + 1 \in Nat \ {0} /\ (n + 1) - 1 = n
      BY <2>1
    <3> QED
      BY <3>1, ComingSplits
  <2>4. /\ ComingOf(profile, stack', n) = ComingOf(profile, stack', n - 1) \cup Coming(profile, stack'[n])
        /\ ComingOf(profile, stack, n) = ComingOf(profile, stack, n - 1) \cup Coming(profile, stack[n])
    BY <2>1, ComingSplits
  <2>5. ComingOf(profile, stack', n - 1) = ComingOf(profile, stack, n - 1)
    BY <2>1, ComingSame
  <2>6. Ahead' = Ahead
    <3>1. Ahead' = roots \cup ComingOf(profile, stack', n + 1)
      BY <1>0, <2>1 DEF Ahead
    <3>2. Ahead = roots \cup ComingOf(profile, stack, n)
      BY DEF Ahead, n
    <3> QED
      BY <2>2, <2>3, <2>4, <2>5, <3>1, <3>2
  <2> QED
    BY <1>0, <2>6 DEF Walked, Paths
<1> QED
  BY <1>1, <1>2, <1>3

(* What is above a node that was entered was entered. *)
LEMMA WalkedFromRoots ==
  ASSUME IInv, profile # NoProfile, NEW n \in Walked, NEW x \in Paths[n]
  PROVE  x \in Walked
<1>1. Paths[x] \subseteq Paths[n] /\ x \in Nodes(profile)
  BY ProfileInWork, PathFacts DEF IInv, Walked, Paths
<1> QED
  BY <1>1 DEF Walked

(* A frame that is entered adds its node; the frames are the node's path.  *)
LEMMA WalkEnters ==
  ASSUME IInv, OnPath, Enter
  PROVE  /\ Walked' = Walked \cup {Top.id} /\ Top.id \notin Walked
         /\ Top.id \in Nodes(profile)
         /\ Paths[Top.id] = {stack[j].id : j \in 1..Len(stack)}
<1> DEFINE n == Len(stack)
           t == Top.id
           kids == profile.children[t]
           below == roots \cup ComingOf(profile, stack, n - 1)
<1> USE DEF IInv
<1>1. /\ profile' = profile /\ roots' = roots /\ stack # <<>>
      /\ n \in Nat \ {0} /\ Len(stack') = n
      /\ \A i \in 1..(n - 1) : stack'[i] = stack[i]
      /\ stack'[n].id = t /\ stack'[n].next = stack[n].next /\ stack[n].id = t
      /\ stack'[n].entered /\ ~stack[n].entered /\ t \in Nodes(profile)
  BY EnterTop DEF Enter, Top, Known, Nodes
<1>2. profile # NoProfile /\ IsProfile(profile)
  BY <1>1, ProfileInWork DEF StackOK
<1>3. \A i \in 1..n : FrameOnPath(i)
  BY <1>2 DEF OnPath
<1>4. /\ Paths[t] = {stack[j].id : j \in 1..n} /\ stack[n].next = 1
  <2>1. n \in 1..n
    BY <1>1
  <2>2. FrameOnPath(n)
    BY <1>3, <2>1
  <2> HIDE DEF n, t
  <2> QED
    BY <1>1, <2>2 DEF FrameOnPath, Known, Nodes
<1>5. kids \in Seq(Int) /\ ToSet(kids) = {kids[j] : j \in 1..Len(kids)}
  BY <1>1, <1>2, ProfileIs DEF ToSet
<1>6. Ahead = below \cup {t} /\ Ahead' = below \cup ToSet(kids)
  <2>1. Coming(profile, stack[n]) = {t} /\ Coming(profile, stack'[n]) = ToSet(kids)
    <3> HIDE DEF n
    <3> QED
      BY <1>1, <1>4, <1>5 DEF Coming
  <2> HIDE DEF n, t, kids
  <2>2. ComingOf(profile, stack', n - 1) = ComingOf(profile, stack, n - 1)
    BY <1>1, ComingSame
  <2>3. /\ ComingOf(profile, stack', n) = ComingOf(profile, stack', n - 1) \cup Coming(profile, stack'[n])
        /\ ComingOf(profile, stack, n) = ComingOf(profile, stack, n - 1) \cup Coming(profile, stack[n])
    BY <1>1, ComingSplits
  <2>4. Ahead = roots \cup ComingOf(profile, stack, n)
    BY DEF Ahead, n
  <2>5. Ahead' = roots \cup ComingOf(profile, stack', n)
    BY <1>1 DEF Ahead
  <2> QED
    BY <2>1, <2>2, <2>3, <2>4, <2>5
<1>7. t \in Paths[t] /\ Paths[t] \subseteq Nodes(profile)
  BY <1>1, <1>2, PathFacts DEF Paths
<1>8. \A c \in ToSet(kids) \cap Nodes(profile) : t \in ParentsOf(profile)[c]
  BY <1>1 DEF ParentsOf
<1>9. ASSUME NEW j \in 1..n PROVE stack[j].id \notin Ahead'
  <2> DEFINE x == stack[j].id
  <2>1. x \in Nodes(profile) /\ x \in Paths[t] /\ FrameOnPath(j)
    BY <1>3, <1>4, <1>7
  <2>2. x \notin ToSet(kids)
    <3>1. \A m \in ParentsOf(profile)[x] : x \notin Paths[m]
      BY <1>2, <2>1, PathFacts DEF Paths
    <3> QED
      BY <1>8, <2>1, <3>1
  <2>3. j = 1 => x \in RootsOf(profile) \ roots
    BY <2>1 DEF FrameOnPath
  <2>4. ASSUME NEW i \in 1..(n - 1), NEW q \in stack[i].next..Len(profile.children[stack[i].id]),
               x = profile.children[stack[i].id][q]
        PROVE  FALSE
    <3>1. stack[i].id \in Nodes(profile) /\ stack[i] \in Frames
      BY <1>1, EnterTop DEF StackOK, Known, Nodes
    <3>2. profile.children[stack[i].id] \in Seq(Int) /\ q \in 1..Len(profile.children[stack[i].id])
      BY <1>2, <3>1, ProfileIs DEF Frames
    <3>3. x \notin RootsOf(profile)
      <4>1. x \in ToSet(profile.children[stack[i].id])
        BY <2>4, <3>2, SeqHas
      <4> QED
        BY <4>1, <3>1 DEF RootsOf, Nodes
    <3>4. j # 1
      BY <2>3, <3>3
    <3> DEFINE h == j - 1
    <3>5. h \in 1..n /\ h \in 1..(n - 1) /\ i \in 1..n
      BY <1>1, <3>4
    <3>6. stack[h].next - 1 \in 1..Len(profile.children[stack[h].id])
          /\ x = profile.children[stack[h].id][stack[h].next - 1]
      BY <2>1, <3>4 DEF FrameOnPath
    <3>7. stack[h].id \in Nodes(profile)
      BY <1>1, <3>5 DEF StackOK, Known, Nodes
    <3> HIDE DEF h, x
    <3>8. stack[i].id = stack[h].id /\ q = stack[h].next - 1
      <4> DEFINE si == profile.children[stack[i].id]
                 sh == profile.children[stack[h].id]
                 k == stack[h].next - 1
      <4>1. \A u \in 1..Len(si), v \in 1..Len(sh) :
              si[u] = sh[v] /\ si[u] \in Nodes(profile) => stack[i].id = stack[h].id /\ u = v
        BY <1>2, <3>1, <3>7, ProfileIs DEF IsForest, Nodes
      <4>2. k \in 1..Len(sh) /\ x = sh[k] /\ x = si[q] /\ q \in 1..Len(si)
        BY <2>4, <3>2, <3>6
      <4>3. x \in Nodes(profile)
        BY <2>1 DEF x
      <4> HIDE DEF si, sh, k
      <4>4. stack[i].id = stack[h].id /\ q = k
        BY <4>1, <4>2, <4>3
      <4> QED
        BY <4>4 DEF k
    <3>9. i = h
      <4>1. h \in 1..(i - 1) \/ i \in 1..(h - 1) \/ i = h
        BY <1>1, <3>5
      <4>2. FrameOnPath(i) /\ FrameOnPath(h)
        BY <1>3, <3>5
      <4> QED
        BY <3>8, <4>1, <4>2 DEF FrameOnPath
    <3> QED
      BY <2>4, <3>1, <3>8, <3>9 DEF Frames
  <2>5. x \notin roots
    <3>1. CASE j = 1
      BY <2>3, <3>1
    <3>2. CASE j # 1
      <4> DEFINE h == j - 1
      <4>1. h \in 1..(n - 1)
        BY <1>1, <3>2
      <4>2. stack[h].next - 1 \in 1..Len(profile.children[stack[h].id])
            /\ x = profile.children[stack[h].id][stack[h].next - 1]
        BY <2>1, <3>2 DEF FrameOnPath
      <4>3. stack[h].id \in Nodes(profile)
        BY <1>1, <4>1 DEF StackOK, Known, Nodes
      <4> HIDE DEF h, x
      <4>4. profile.children[stack[h].id] \in Seq(Int)
        BY <1>2, <4>3, ProfileIs
      <4>5. x \in ToSet(profile.children[stack[h].id])
        BY <4>2, <4>4, SeqHas
      <4>6. x \notin RootsOf(profile)
        BY <4>3, <4>5 DEF RootsOf, Nodes
      <4> QED
        BY <1>2, <4>6 DEF OnPath
    <3> QED
      BY <3>1, <3>2
  <2>6. x \notin ComingOf(profile, stack, n - 1)
    <3>1. ASSUME NEW i \in 1..(n - 1), x \in Coming(profile, stack[i]) PROVE FALSE
      <4>1. stack[i].entered
        BY <1>1 DEF StackOK
      <4> HIDE DEF x
      <4> QED
        BY <2>4, <3>1, <4>1 DEF Coming
    <3> HIDE DEF x, n
    <3> QED
      BY <3>1 DEF ComingOf
  <2> QED
    BY <1>6, <2>2, <2>5, <2>6
<1>10. t \notin Walked /\ Walked' = {x \in Nodes(profile) : Paths[x] \cap Ahead' = {}}
  BY <1>1, <1>6, <1>7 DEF Walked, Paths
<1>11. Paths[t] \cap Ahead' = {}
  BY <1>4, <1>9
<1>12. ASSUME NEW m \in Walked PROVE Paths[m] \cap Ahead' = {}
  <2>1. m \in Nodes(profile) /\ Paths[m] \cap below = {} /\ t \notin Paths[m]
    BY <1>6 DEF Walked
  <2>2. ASSUME NEW c \in ToSet(kids), c \in Paths[m] PROVE FALSE
    <3>1. c \in Nodes(profile) /\ Paths[c] \subseteq Paths[m]
      BY <1>2, <2>1, <2>2, PathFacts DEF Paths
    <3>2. t \in Paths[c]
      <4>1. t \in PathTo(profile)[t] /\ t \in ParentsOf(profile)[c]
        BY <1>7, <1>8, <3>1 DEF Paths
      <4>2. Paths[c] = {c} \cup UNION {PathTo(profile)[z] : z \in ParentsOf(profile)[c]}
        BY <1>2, <3>1, PathFacts DEF Paths
      <4> QED
        BY <4>1, <4>2
    <3> QED
      BY <2>1, <3>1, <3>2
  <2> QED
    BY <1>6, <2>1, <2>2
<1>13. ASSUME NEW m \in Nodes(profile), Paths[m] \cap Ahead' = {}, m # t
       PROVE  m \in Walked
  <2>1. t \notin Paths[m]
    <3> SUFFICES ASSUME t \in Paths[m] PROVE FALSE
      OBVIOUS
    <3>1. PICK c \in Paths[m] : t \in ParentsOf(profile)[c]
      BY <1>2, <1>13, PathFacts DEF Paths
    <3>2. c \in Nodes(profile)
      BY <1>2, <3>1, PathFacts DEF Paths
    <3>3. c \in ToSet(kids)
      BY <3>1, <3>2 DEF ParentsOf
    <3> QED
      BY <1>6, <1>13, <3>1, <3>3
  <2> QED
    BY <1>6, <1>13, <2>1 DEF Walked
<1>14. \A m \in Walked : m \in Nodes(profile)
  BY DEF Walked
<1> HIDE DEF t
<1>15. Walked' = Walked \cup {t}
  BY <1>1, <1>10, <1>11, <1>12, <1>13, <1>14
<1> QED
  BY <1>1, <1>4, <1>10, <1>15 DEF t

-----------------------------------------------------------------------------
(* Sums *)
LEMMA SumOfNone ==
  ASSUME NEW sums
  PROVE  SumOf(sums, {}) = 0
BY SumEmpty DEF SumOf

LEMMA SumOfAdd ==
  ASSUME NEW sums, NEW S, IsFiniteSet(S), NEW y, y \notin S,
         \A x \in S \cup {y} : CountOf(sums, x) \in Int
  PROVE  SumOf(sums, S \cup {y}) = SumOf(sums, S) + CountOf(sums, y)
<1> DEFINE f == [k \in S \cup {y} |-> CountOf(sums, k)]
           g == [k \in S |-> CountOf(sums, k)]
<1>1. \A x \in S \cup {y} : f[x] \in Int
  OBVIOUS
<1>2. \A x \in S : f[x] \in Int /\ g[x] = f[x]
  OBVIOUS
<1>3. f[y] = CountOf(sums, y)
  OBVIOUS
<1>4. SumOf(sums, S \cup {y}) = SumFunctionOnSet(f, S \cup {y})
      /\ SumOf(sums, S) = SumFunctionOnSet(g, S)
  BY DEF SumOf
<1> HIDE DEF f, g
<1>5. SumFunctionOnSet(f, S \cup {y}) = SumFunctionOnSet(f, S) + f[y]
  BY <1>1, SumAdd
<1>6. SumFunctionOnSet(g, S) = SumFunctionOnSet(f, S)
  BY <1>2, SumSame
<1> QED
  BY <1>3, <1>4, <1>5, <1>6

LEMMA SumOfInt ==
  ASSUME NEW sums, NEW S, IsFiniteSet(S), \A x \in S : CountOf(sums, x) \in Int
  PROVE  SumOf(sums, S) \in Int
<1> DEFINE g == [k \in S |-> CountOf(sums, k)]
<1>1. \A x \in S : g[x] \in Int
  OBVIOUS
<1>2. SumOf(sums, S) = SumFunctionOnSet(g, S)
  BY DEF SumOf
<1> HIDE DEF g
<1> QED
  BY <1>1, <1>2, SumInt

LEMMA CountOfSum ==
  ASSUME NEW a, NEW b, NEW k
  PROVE  CountOf(AddSums(a, b), k) = CountOf(a, k) + CountOf(b, k)
BY DEF CountOf, AddSums

(* Time of a profile is counted in whole microseconds. *)
LEMMA SampleSets ==
  ASSUME NEW p, IsProfile(p), NEW S, S \subseteq 1..Len(p.samples)
  PROVE  IsFiniteSet(S) /\ SumOf(Deltas(p), S) \in Int
<1>1. p.samples \in Seq([id : Int, delta : Int, label : STRING])
  BY ProfileIs
<1>2. Len(p.samples) \in Nat /\ \A i \in 1..Len(p.samples) : p.samples[i].delta \in Int
  <2> DEFINE s == p.samples
             R == [id : Int, delta : Int, label : STRING]
  <2>1. s \in Seq(R) /\ \A r \in R : r.delta \in Int
    BY <1>1
  <2> HIDE DEF s, R
  <2>2. Len(s) \in Nat /\ \A i \in 1..Len(s) : s[i] \in R
    BY <2>1
  <2> QED
    BY <2>1, <2>2 DEF s
<1>3. 1 \in Int /\ Len(p.samples) \in Int
  BY <1>2
<1>4. IsFiniteSet(1..Len(p.samples))
  BY <1>3, FS_Interval
<1>5. IsFiniteSet(S)
  BY <1>4, FS_Subset
<1>6. \A i \in S : CountOf(Deltas(p), i) \in Int
  BY <1>2 DEF CountOf, Deltas
<1> QED
  BY <1>5, <1>6, SumOfInt

LEMMA SelfIsInt ==
  ASSUME NEW p, IsProfile(p)
  PROVE  SelfOf(p) \in [Nodes(p) -> Int]
<1> DEFINE hits == Whole(p.hits)
<1>1. hits \in Int
  <2>1. \A n \in DOMAIN p.hits : CountOf(p.hits, n) \in Int
    BY ProfileIs DEF CountOf
  <2>2. IsFiniteSet(DOMAIN p.hits)
    BY ProfileIs
  <2> QED
    BY <2>1, <2>2, SumOfInt DEF Whole
<1>2. ASSUME NEW n \in Nodes(p)
      PROVE  SumOf(Deltas(p), {i \in 1..Len(p.samples) : p.samples[i].id = n}) \in Int
  BY SampleSets
<1>3. ASSUME NEW n \in Nodes(p), hits > 0 PROVE (p.hits[n] * p.duration) \div hits \in Int
  <2>1. p.hits[n] \in Int /\ p.duration \in Int
    BY ProfileIs
  <2> HIDE DEF hits
  <2>2. p.hits[n] * p.duration \in Int
    BY <2>1
  <2> QED
    BY <1>1, <1>3, <2>2
<1> HIDE DEF hits
<1>4. SelfOf(p) = [n \in Nodes(p) |->
        IF p.samples # <<>>
        THEN SumOf(Deltas(p), {i \in 1..Len(p.samples) : p.samples[i].id = n})
        ELSE IF hits > 0 /\ p.duration > 0 THEN (p.hits[n] * p.duration) \div hits
        ELSE 0]
  BY DEF SelfOf, Nodes, hits
<1> QED
  BY <1>2, <1>3, <1>4

LEMMA LabelIsInt ==
  ASSUME NEW p, IsProfile(p), NEW n \in Nodes(p), NEW c
  PROVE  /\ CountOf(ContextSelf(p, n), c) \in Int
         /\ CountOf(OfLabel(p, c), n) = CountOf(ContextSelf(p, n), c)
<1> DEFINE labelled == {i \in 1..Len(p.samples) : p.samples[i].id = n /\ p.samples[i].label # ""}
<1>1. SumOf(Deltas(p), {i \in labelled : p.samples[i].label = c}) \in Int
  BY SampleSets
<1>2. ContextSelf(p, n) = [l \in {p.samples[i].label : i \in labelled} |->
                             SumOf(Deltas(p), {i \in labelled : p.samples[i].label = l})]
  BY DEF ContextSelf
<1> HIDE DEF labelled
<1>3. CountOf(ContextSelf(p, n), c) \in Int
  BY <1>1, <1>2 DEF CountOf
<1>4. n \in DOMAIN OfLabel(p, c) /\ OfLabel(p, c)[n] = CountOf(ContextSelf(p, n), c)
  BY DEF OfLabel, Nodes
<1> QED
  BY <1>3, <1>4 DEF CountOf

(* Sums over nodes of a profile. *)
LEMMA NodeSets ==
  ASSUME NEW p, IsProfile(p), NEW S, S \subseteq Nodes(p)
  PROVE  /\ IsFiniteSet(S)
         /\ SumOf(SelfOf(p), S) \in Int
         /\ \A c : SumOf(OfLabel(p, c), S) \in Int
         /\ \A t \in Nodes(p) : t \notin S =>
              /\ SumOf(SelfOf(p), S \cup {t}) = SumOf(SelfOf(p), S) + SelfOf(p)[t]
              /\ \A c : SumOf(OfLabel(p, c), S \cup {t})
                          = SumOf(OfLabel(p, c), S) + CountOf(ContextSelf(p, t), c)
<1>1. IsFiniteSet(S)
  BY ProfileIs, FS_Subset
<1>2. \A n \in Nodes(p) : CountOf(SelfOf(p), n) \in Int /\ CountOf(SelfOf(p), n) = SelfOf(p)[n]
  BY SelfIsInt DEF CountOf
<1>3. \A c : \A n \in Nodes(p) : CountOf(OfLabel(p, c), n) \in Int
              /\ CountOf(OfLabel(p, c), n) = CountOf(ContextSelf(p, n), c)
  BY LabelIsInt
<1>4. SumOf(SelfOf(p), S) \in Int
  BY <1>1, <1>2, SumOfInt
<1>5. ASSUME NEW c PROVE SumOf(OfLabel(p, c), S) \in Int
  BY <1>1, <1>3, SumOfInt
<1>6. ASSUME NEW t \in Nodes(p), t \notin S
      PROVE  SumOf(SelfOf(p), S \cup {t}) = SumOf(SelfOf(p), S) + SelfOf(p)[t]
  <2>1. \A x \in S \cup {t} : CountOf(SelfOf(p), x) \in Int
    BY <1>2
  <2> QED
    BY <1>1, <1>2, <1>6, <2>1, SumOfAdd
<1>7. ASSUME NEW t \in Nodes(p), t \notin S, NEW c
      PROVE  SumOf(OfLabel(p, c), S \cup {t})
               = SumOf(OfLabel(p, c), S) + CountOf(ContextSelf(p, t), c)
  <2>1. \A x \in S \cup {t} : CountOf(OfLabel(p, c), x) \in Int
    BY <1>3
  <2>2. SumOf(OfLabel(p, c), S \cup {t}) = SumOf(OfLabel(p, c), S) + CountOf(OfLabel(p, c), t)
    BY <1>1, <1>7, <2>1, SumOfAdd
  <2> QED
    BY <1>3, <2>2
<1> QED
  BY <1>1, <1>4, <1>5, <1>6, <1>7

-----------------------------------------------------------------------------
(* What an aggregation says once some nodes are counted *)
IsEntity(e) ==
  e = [self |-> e.self, total |-> e.total, package |-> e.package,
       category |-> e.category, file |-> e.file]

IsAggregation(a) ==
  a = [entities |-> a.entities, edges |-> a.edges, contexts |-> a.contexts,
       fnContexts |-> a.fnContexts, ctxPackages |-> a.ctxPackages,
       ctxFiles |-> a.ctxFiles, overall |-> a.overall, profiles |-> a.profiles]

(* Entities of level l say of themselves what frames of theirs say.        *)
EntitiesOf(entities, p, l, nodes) ==
  /\ DOMAIN entities = {KeyAt(p.frame[n], l) : n \in nodes}
  /\ \A k \in DOMAIN entities :
       LET with == NodesWith(p, l, k) \cap nodes
       IN /\ IsEntity(entities[k])
          /\ \E n \in with : /\ entities[k].package = Package(p.frame[n])
                             /\ entities[k].category = Category(p.frame[n])
          /\ \E n \in with : entities[k].file = FileKey(p.frame[n])
          /\ entities[k].self = SumOf(SelfOf(p), with)
          /\ entities[k].total = SumOf(SelfOf(p), NodesUnder(p, l, k) \cap nodes)

(* Each context has under each key the time of its nodes. *)
ContextsBy(sums, p, l, nodes) ==
  /\ DOMAIN sums \subseteq {<<c, KeyAt(p.frame[n], l)>> : c \in DOMAIN Begun(p).contexts, n \in nodes}
  /\ \A k, c : CountOf(sums, <<c, k>>) = SumOf(OfLabel(p, c), NodesWith(p, l, k) \cap nodes)

(* And functions have it inclusive of what is below them. *)
InclusiveContexts(sums, p, nodes) ==
  \A k, c : CountOf(sums, <<k, c>>) = SumOf(OfLabel(p, c), NodesUnder(p, "function", k) \cap nodes)

CountsOf(a, p, nodes) ==
  /\ IsAggregation(a)
  /\ \A l \in Levels : EntitiesOf(a.entities[l], p, l, nodes)
  /\ a.contexts = Begun(p).contexts /\ a.overall = Whole(SelfOf(p)) /\ a.profiles = 1
  /\ ContextsBy(a.ctxPackages, p, "package", nodes)
  /\ ContextsBy(a.ctxFiles, p, "file", nodes)
  /\ InclusiveContexts(a.fnContexts, p, nodes)

(* Changing an entity's time or file leaves the rest of it. *)
LEMMA EntityMoved ==
  ASSUME NEW e, IsEntity(e), NEW s, NEW f, NEW x,
         x = Joined(e, s, f)
  PROVE  /\ IsEntity(x) /\ x.self = e.self + s /\ x.file = f /\ x.total = e.total
         /\ x.package = e.package /\ x.category = e.category
<1>1. DOMAIN e = {"self", "total", "package", "category", "file"}
  BY DEF IsEntity
<1>2. x = [k \in DOMAIN e |-> IF k = "file" THEN f
                              ELSE IF k = "self" THEN e.self + s ELSE e[k]]
  BY <1>1 DEF Joined
<1>3. x.self = e.self + s /\ x.file = f /\ x.total = e.total
      /\ x.package = e.package /\ x.category = e.category
  BY <1>1, <1>2
<1>4. x = [self |-> x.self, total |-> x.total, package |-> x.package,
           category |-> x.category, file |-> x.file]
  BY <1>1, <1>2
<1> QED
  BY <1>3, <1>4 DEF IsEntity

LEMMA EntityTotalled ==
  ASSUME NEW e, IsEntity(e), NEW s, NEW x, x = [e EXCEPT !.total = @ + s]
  PROVE  /\ IsEntity(x) /\ x.self = e.self /\ x.file = e.file /\ x.total = e.total + s
         /\ x.package = e.package /\ x.category = e.category
<1>1. DOMAIN e = {"self", "total", "package", "category", "file"}
  BY DEF IsEntity
<1>2. x = [k \in DOMAIN e |-> IF k = "total" THEN e.total + s ELSE e[k]]
  BY <1>1
<1>3. x.self = e.self /\ x.file = e.file /\ x.total = e.total + s
      /\ x.package = e.package /\ x.category = e.category
  BY <1>1, <1>2
<1>4. x = [self |-> x.self, total |-> x.total, package |-> x.package,
           category |-> x.category, file |-> x.file]
  BY <1>1, <1>2
<1> QED
  BY <1>3, <1>4 DEF IsEntity

LEMMA EntityBegun ==
  ASSUME NEW e, IsEntity(e), NEW s, NEW x, x = [e EXCEPT !.self = s]
  PROVE  /\ IsEntity(x) /\ x.self = s /\ x.file = e.file /\ x.total = e.total
         /\ x.package = e.package /\ x.category = e.category
<1>1. DOMAIN e = {"self", "total", "package", "category", "file"}
  BY DEF IsEntity
<1>2. x = [k \in DOMAIN e |-> IF k = "self" THEN s ELSE e[k]]
  BY <1>1
<1>3. x.self = s /\ x.file = e.file /\ x.total = e.total
      /\ x.package = e.package /\ x.category = e.category
  BY <1>1, <1>2
<1>4. x = [self |-> x.self, total |-> x.total, package |-> x.package,
           category |-> x.category, file |-> x.file]
  BY <1>1, <1>2
<1> QED
  BY <1>3, <1>4 DEF IsEntity

(* An entity that a node counts for, and the others. *)
EntityFollows(new, ents, key, e0, onPath, s) ==
  /\ DOMAIN new = DOMAIN ents \cup {key}
  /\ \A k \in DOMAIN ents :
       /\ IsEntity(new[k])
       /\ new[k].package = ents[k].package /\ new[k].category = ents[k].category
       /\ new[k].file = IF k = key THEN e0.file ELSE ents[k].file
       /\ new[k].self = IF k = key THEN ents[k].self + s ELSE ents[k].self
       /\ new[k].total = IF k \in onPath THEN ents[k].total + s ELSE ents[k].total
  /\ key \notin DOMAIN ents =>
       /\ IsEntity(new[key]) /\ new[key].self = s /\ new[key].total = 0 + s
       /\ new[key].package = e0.package /\ new[key].category = e0.category
       /\ new[key].file = e0.file

LEMMA EntityCounted ==
  ASSUME NEW ents, \A k \in DOMAIN ents : IsEntity(ents[k]),
         NEW e0, IsEntity(e0), e0.total = 0, NEW s, NEW key, NEW onPath, key \in onPath,
         NEW new, new = WithTotals(WithSelf(ents, key, e0, s), onPath, s)
  PROVE  EntityFollows(new, ents, key, e0, onPath, s)
<1> DEFINE mid == WithSelf(ents, key, e0, s)
<1>1. /\ DOMAIN mid = DOMAIN ents \cup {key}
      /\ \A k \in DOMAIN ents : k # key => mid[k] = ents[k]
      /\ key \in DOMAIN ents
           => mid[key] = Joined(ents[key], s, e0.file)
      /\ key \notin DOMAIN ents => mid[key] = [e0 EXCEPT !.self = s]
  <2>1. CASE key \in DOMAIN ents
    <3> DEFINE x == Joined(ents[key], s, e0.file)
    <3>1. mid = [ents EXCEPT ![key] = x]
      BY <2>1 DEF WithSelf
    <3> HIDE DEF mid, x
    <3>2. DOMAIN mid = DOMAIN ents /\ mid[key] = x
          /\ \A k \in DOMAIN ents : k # key => mid[k] = ents[k]
      BY <2>1, <3>1
    <3> QED
      BY <2>1, <3>2 DEF x
  <2>2. CASE key \notin DOMAIN ents
    BY <2>2 DEF WithSelf
  <2> QED
    BY <2>1, <2>2
<1>2. /\ DOMAIN new = DOMAIN mid
      /\ \A k \in DOMAIN mid :
           /\ k \in onPath => new[k] = [mid[k] EXCEPT !.total = @ + s]
           /\ k \notin onPath => new[k] = mid[k]
  BY DEF WithTotals
<1> HIDE DEF mid
<1>4. ASSUME NEW k \in DOMAIN ents, k # key
      PROVE  /\ IsEntity(new[k])
             /\ new[k].package = ents[k].package /\ new[k].category = ents[k].category
             /\ new[k].file = ents[k].file /\ new[k].self = ents[k].self
             /\ new[k].total = IF k \in onPath THEN ents[k].total + s ELSE ents[k].total
  <2>1. mid[k] = ents[k] /\ k \in DOMAIN mid /\ IsEntity(ents[k])
    BY <1>1, <1>4
  <2>2. CASE k \in onPath
    <3>1. new[k] = [ents[k] EXCEPT !.total = @ + s]
      BY <1>2, <2>1, <2>2
    <3> QED
      BY EntityTotalled, <2>1, <2>2, <3>1
  <2>3. CASE k \notin onPath
    BY <1>2, <2>1, <2>3
  <2> QED
    BY <2>2, <2>3
<1>5. ASSUME key \in DOMAIN ents
      PROVE  /\ IsEntity(new[key])
             /\ new[key].package = ents[key].package /\ new[key].category = ents[key].category
             /\ new[key].file = e0.file /\ new[key].self = ents[key].self + s
             /\ new[key].total = ents[key].total + s
  <2> DEFINE x == Joined(ents[key], s, e0.file)
  <2>1. mid[key] = x /\ key \in DOMAIN mid /\ IsEntity(ents[key])
    BY <1>1, <1>5
  <2>2. /\ IsEntity(x) /\ x.self = ents[key].self + s /\ x.file = e0.file
        /\ x.total = ents[key].total
        /\ x.package = ents[key].package /\ x.category = ents[key].category
    <3>1. x = Joined(ents[key], s, e0.file)
      OBVIOUS
    <3> HIDE DEF x
    <3> QED
      BY EntityMoved, <2>1, <3>1
  <2> HIDE DEF x
  <2>3. new[key] = [x EXCEPT !.total = @ + s]
    BY <1>2, <2>1
  <2> QED
    BY EntityTotalled, <2>2, <2>3
<1>6. ASSUME key \notin DOMAIN ents
      PROVE  /\ IsEntity(new[key]) /\ new[key].self = s /\ new[key].total = 0 + s
             /\ new[key].package = e0.package /\ new[key].category = e0.category
             /\ new[key].file = e0.file
  <2> DEFINE x == [e0 EXCEPT !.self = s]
  <2>1. mid[key] = x /\ key \in DOMAIN mid
    BY <1>1, <1>6
  <2>2. /\ IsEntity(x) /\ x.self = s /\ x.file = e0.file /\ x.total = 0
        /\ x.package = e0.package /\ x.category = e0.category
    BY EntityBegun
  <2> HIDE DEF x
  <2>3. new[key] = [x EXCEPT !.total = @ + s]
    BY <1>2, <2>1
  <2> QED
    BY EntityTotalled, <2>2, <2>3
<1>7. DOMAIN new = DOMAIN ents \cup {key}
  BY <1>1, <1>2
<1>8. ASSUME NEW k \in DOMAIN ents
      PROVE   /\ IsEntity(new[k])
              /\ new[k].package = ents[k].package /\ new[k].category = ents[k].category
              /\ new[k].file = IF k = key THEN e0.file ELSE ents[k].file
              /\ new[k].self = IF k = key THEN ents[k].self + s ELSE ents[k].self
              /\ new[k].total = IF k \in onPath THEN ents[k].total + s ELSE ents[k].total
  <2>1. CASE k = key
    BY <1>5, <2>1
  <2>2. CASE k # key
    BY <1>4, <2>2
  <2> QED
    BY <2>1, <2>2
<1> QED
  BY <1>6, <1>7, <1>8 DEF EntityFollows

(* Keys of nodes, and nodes with a key or below one, when one more is counted. *)
KeysOf(p, l, nodes) == {KeyAt(p.frame[n], l) : n \in nodes}

IsNext(p, nodes, t) ==
  /\ IsProfile(p) /\ nodes \subseteq Nodes(p) /\ \A n \in nodes : PathTo(p)[n] \subseteq nodes
  /\ t \in Nodes(p) \ nodes

NodesFollow(p, nodes, t, l, k) ==
  /\ k = KeyAt(p.frame[t], l) =>
       /\ NodesWith(p, l, k) \cap (nodes \cup {t}) = (NodesWith(p, l, k) \cap nodes) \cup {t}
       /\ k \in KeysOf(p, l, PathTo(p)[t])
  /\ k # KeyAt(p.frame[t], l) =>
       NodesWith(p, l, k) \cap (nodes \cup {t}) = NodesWith(p, l, k) \cap nodes
  /\ k \in KeysOf(p, l, PathTo(p)[t]) =>
       NodesUnder(p, l, k) \cap (nodes \cup {t}) = (NodesUnder(p, l, k) \cap nodes) \cup {t}
  /\ k \notin KeysOf(p, l, PathTo(p)[t]) =>
       NodesUnder(p, l, k) \cap (nodes \cup {t}) = NodesUnder(p, l, k) \cap nodes
  /\ k \notin KeysOf(p, l, nodes) =>
       NodesWith(p, l, k) \cap nodes = {} /\ NodesUnder(p, l, k) \cap nodes = {}

LEMMA NodesCounted ==
  ASSUME NEW p, NEW nodes, NEW t, IsNext(p, nodes, t), NEW l, NEW k
  PROVE  NodesFollow(p, nodes, t, l, k)
<1> DEFINE with == NodesWith(p, l, k)
           under == NodesUnder(p, l, k)
           key == KeyAt(p.frame[t], l)
           onPath == KeysOf(p, l, PathTo(p)[t])
<1>a. IsProfile(p) /\ nodes \subseteq Nodes(p) /\ t \in Nodes(p) /\ t \notin nodes
      /\ \A n \in nodes : PathTo(p)[n] \subseteq nodes
  BY DEF IsNext
<1>1. \A n \in Nodes(p) : n \in with <=> KeyAt(p.frame[n], l) = k
  BY DEF NodesWith, Nodes
<1>2. \A n \in Nodes(p) : n \in under <=> PathTo(p)[n] \cap with # {}
  BY DEF NodesUnder, Nodes
<1>3. PathTo(p)[t] \subseteq Nodes(p) /\ t \in PathTo(p)[t]
  BY <1>a, PathFacts
<1>4. k \in onPath <=> t \in under
  BY <1>a, <1>1, <1>2, <1>3 DEF KeysOf
<1>5. k = key <=> t \in with
  BY <1>a, <1>1
<1>6. key \in onPath
  BY <1>3 DEF KeysOf
<1>7. ASSUME k \notin KeysOf(p, l, nodes)
      PROVE  with \cap nodes = {} /\ under \cap nodes = {}
  <2>1. with \cap nodes = {}
    BY <1>a, <1>1, <1>7 DEF KeysOf
  <2> QED
    BY <1>a, <1>2, <2>1
<1> HIDE DEF with, under, key, onPath
<1>8. /\ k = key => with \cap (nodes \cup {t}) = (with \cap nodes) \cup {t}
      /\ k # key => with \cap (nodes \cup {t}) = with \cap nodes
      /\ k \in onPath => under \cap (nodes \cup {t}) = (under \cap nodes) \cup {t}
      /\ k \notin onPath => under \cap (nodes \cup {t}) = under \cap nodes
  BY <1>a, <1>4, <1>5
<1> QED
  BY <1>6, <1>7, <1>8 DEF NodesFollow, with, under, key, onPath

(* So the sums over them. *)
SumsFollow(p, nodes, t, l, k, sums) ==
  /\ k = KeyAt(p.frame[t], l) =>
       SumOf(sums, NodesWith(p, l, k) \cap (nodes \cup {t}))
         = SumOf(sums, NodesWith(p, l, k) \cap nodes) + CountOf(sums, t)
  /\ k # KeyAt(p.frame[t], l) =>
       SumOf(sums, NodesWith(p, l, k) \cap (nodes \cup {t}))
         = SumOf(sums, NodesWith(p, l, k) \cap nodes)
  /\ k \in KeysOf(p, l, PathTo(p)[t]) =>
       SumOf(sums, NodesUnder(p, l, k) \cap (nodes \cup {t}))
         = SumOf(sums, NodesUnder(p, l, k) \cap nodes) + CountOf(sums, t)
  /\ k \notin KeysOf(p, l, PathTo(p)[t]) =>
       SumOf(sums, NodesUnder(p, l, k) \cap (nodes \cup {t}))
         = SumOf(sums, NodesUnder(p, l, k) \cap nodes)
  /\ k \notin KeysOf(p, l, nodes) =>
       /\ SumOf(sums, NodesWith(p, l, k) \cap nodes) = 0
       /\ SumOf(sums, NodesUnder(p, l, k) \cap nodes) = 0

LEMMA SumsCounted ==
  ASSUME NEW p, NEW nodes, NEW t, IsNext(p, nodes, t), NEW l, NEW k, NEW sums,
         \A n \in Nodes(p) : CountOf(sums, n) \in Int
  PROVE  SumsFollow(p, nodes, t, l, k, sums)
<1> DEFINE with == NodesWith(p, l, k) \cap nodes
           under == NodesUnder(p, l, k) \cap nodes
<1>a. IsProfile(p) /\ nodes \subseteq Nodes(p) /\ t \in Nodes(p) /\ t \notin nodes
      /\ \A n \in nodes : PathTo(p)[n] \subseteq nodes
  BY DEF IsNext
<1>1. ASSUME NEW S, S \subseteq nodes
      PROVE  SumOf(sums, S \cup {t}) = SumOf(sums, S) + CountOf(sums, t)
  <2>1. IsFiniteSet(S) /\ t \notin S /\ \A x \in S \cup {t} : CountOf(sums, x) \in Int
    BY <1>a, <1>1, NodeSets
  <2> QED
    BY <2>1, SumOfAdd
<1>2. /\ SumOf(sums, with \cup {t}) = SumOf(sums, with) + CountOf(sums, t)
      /\ SumOf(sums, under \cup {t}) = SumOf(sums, under) + CountOf(sums, t)
  <2>1. with \subseteq nodes /\ under \subseteq nodes
    OBVIOUS
  <2> HIDE DEF with, under
  <2> QED
    BY <1>1, <2>1
<1>3. SumOf(sums, {}) = 0
  BY SumOfNone
<1>4. /\ k = KeyAt(p.frame[t], l) => NodesWith(p, l, k) \cap (nodes \cup {t}) = with \cup {t}
      /\ k # KeyAt(p.frame[t], l) => NodesWith(p, l, k) \cap (nodes \cup {t}) = with
      /\ k \in KeysOf(p, l, PathTo(p)[t]) => NodesUnder(p, l, k) \cap (nodes \cup {t}) = under \cup {t}
      /\ k \notin KeysOf(p, l, PathTo(p)[t]) => NodesUnder(p, l, k) \cap (nodes \cup {t}) = under
      /\ k \notin KeysOf(p, l, nodes) => with = {} /\ under = {}
  BY NodesCounted DEF NodesFollow
<1> HIDE DEF with, under
<1>5. /\ k = KeyAt(p.frame[t], l) =>
           SumOf(sums, NodesWith(p, l, k) \cap (nodes \cup {t})) = SumOf(sums, with) + CountOf(sums, t)
      /\ k # KeyAt(p.frame[t], l) =>
           SumOf(sums, NodesWith(p, l, k) \cap (nodes \cup {t})) = SumOf(sums, with)
      /\ k \in KeysOf(p, l, PathTo(p)[t]) =>
           SumOf(sums, NodesUnder(p, l, k) \cap (nodes \cup {t})) = SumOf(sums, under) + CountOf(sums, t)
      /\ k \notin KeysOf(p, l, PathTo(p)[t]) =>
           SumOf(sums, NodesUnder(p, l, k) \cap (nodes \cup {t})) = SumOf(sums, under)
      /\ k \notin KeysOf(p, l, nodes) => SumOf(sums, with) = 0 /\ SumOf(sums, under) = 0
  BY <1>2, <1>3, <1>4
<1> QED
  BY <1>5 DEF SumsFollow, with, under

LEMMA EntitiesCounted ==
  ASSUME NEW p, NEW nodes, NEW t, IsNext(p, nodes, t), NEW l, NEW ents, EntitiesOf(ents, p, l, nodes),
         NEW e0, IsEntity(e0), e0.total = 0, e0.package = Package(p.frame[t]),
         e0.category = Category(p.frame[t]), e0.file = FileKey(p.frame[t]),
         NEW onPath, onPath = KeysOf(p, l, PathTo(p)[t]),
         NEW key, key = KeyAt(p.frame[t], l), NEW s, s = SelfOf(p)[t],
         NEW new, new = WithTotals(WithSelf(ents, key, e0, s), onPath, s)
  PROVE  EntitiesOf(new, p, l, nodes \cup {t})
<1> DEFINE all == nodes \cup {t}
           Old(k) == SumOf(SelfOf(p), NodesWith(p, l, k) \cap nodes)
           OldBelow(k) == SumOf(SelfOf(p), NodesUnder(p, l, k) \cap nodes)
           Now(k) == SumOf(SelfOf(p), NodesWith(p, l, k) \cap all)
           NowBelow(k) == SumOf(SelfOf(p), NodesUnder(p, l, k) \cap all)
           Described(e, k, m) ==
             /\ \E n \in NodesWith(p, l, k) \cap m : /\ e.package = Package(p.frame[n])
                                                     /\ e.category = Category(p.frame[n])
             /\ \E n \in NodesWith(p, l, k) \cap m : e.file = FileKey(p.frame[n])
<1>a. IsProfile(p) /\ nodes \subseteq Nodes(p) /\ t \in Nodes(p) /\ t \notin nodes
      /\ \A n \in nodes : PathTo(p)[n] \subseteq nodes
  BY DEF IsNext
<1>1. \A n \in Nodes(p) : CountOf(SelfOf(p), n) \in Int
  BY <1>a, SelfIsInt DEF CountOf
<1>2. CountOf(SelfOf(p), t) = s /\ s \in Int
  BY <1>a, SelfIsInt DEF CountOf
<1>3. ASSUME NEW k
      PROVE  /\ k = key => Now(k) = Old(k) + s
             /\ k # key => Now(k) = Old(k)
             /\ k \in onPath => NowBelow(k) = OldBelow(k) + s
             /\ k \notin onPath => NowBelow(k) = OldBelow(k)
             /\ k \notin KeysOf(p, l, nodes) => Old(k) = 0 /\ OldBelow(k) = 0
  <2>1. SumsFollow(p, nodes, t, l, k, SelfOf(p))
    BY <1>1, SumsCounted
  <2> QED
    BY <1>2, <2>1 DEF SumsFollow
<1>4. key \in onPath
  BY <1>a, PathFacts DEF KeysOf
<1>5. /\ DOMAIN new = DOMAIN ents \cup {key}
      /\ \A k \in DOMAIN ents :
              /\ IsEntity(new[k])
              /\ new[k].package = ents[k].package /\ new[k].category = ents[k].category
              /\ new[k].file = IF k = key THEN e0.file ELSE ents[k].file
              /\ new[k].self = IF k = key THEN ents[k].self + s ELSE ents[k].self
              /\ new[k].total = IF k \in onPath THEN ents[k].total + s ELSE ents[k].total
      /\ key \notin DOMAIN ents =>
              /\ IsEntity(new[key]) /\ new[key].self = s /\ new[key].total = 0 + s
              /\ new[key].package = e0.package /\ new[key].category = e0.category
              /\ new[key].file = e0.file
  <2>1. \A k \in DOMAIN ents : IsEntity(ents[k])
    BY DEF EntitiesOf
  <2>2. EntityFollows(new, ents, key, e0, onPath, s)
    BY <1>4, <2>1, EntityCounted
  <2> QED
    BY <2>2 DEF EntityFollows
<1>6. /\ DOMAIN ents = KeysOf(p, l, nodes)
      /\ \A k \in DOMAIN ents :
           /\ Described(ents[k], k, nodes)
           /\ ents[k].self = Old(k) /\ ents[k].total = OldBelow(k)
  BY DEF EntitiesOf, KeysOf
<1>7. DOMAIN new = KeysOf(p, l, all)
  <2>1. KeysOf(p, l, all) = KeysOf(p, l, nodes) \cup {key}
    BY DEF KeysOf
  <2> QED
    BY <1>5, <1>6, <2>1
<1>8. t \in NodesWith(p, l, key) \cap all
  BY <1>a DEF NodesWith, Nodes
<1>9. ASSUME NEW k \in DOMAIN new
      PROVE  IsEntity(new[k]) /\ new[k].self = Now(k) /\ new[k].total = NowBelow(k)
  <2> HIDE DEF Old, Now, OldBelow, NowBelow, Described, all
  <2>1. CASE k \in DOMAIN ents
    BY <1>3, <1>5, <1>6, <2>1
  <2>2. CASE k \notin DOMAIN ents
    BY <1>2, <1>3, <1>4, <1>5, <1>6, <2>2
  <2> QED
    BY <2>1, <2>2
<1>10. ASSUME NEW k \in DOMAIN new PROVE Described(new[k], k, all)
  <2>1. \A n \in NodesWith(p, l, k) \cap nodes : n \in NodesWith(p, l, k) \cap all
    OBVIOUS
  <2> HIDE DEF all
  <2>2. CASE k \in DOMAIN ents
    <3>1. PICK n \in NodesWith(p, l, k) \cap nodes :
            ents[k].package = Package(p.frame[n]) /\ ents[k].category = Category(p.frame[n])
      BY <1>6, <2>2
    <3>2. PICK m \in NodesWith(p, l, k) \cap nodes : ents[k].file = FileKey(p.frame[m])
      BY <1>6, <2>2
    <3>3. /\ new[k].package = ents[k].package /\ new[k].category = ents[k].category
          /\ k # key => new[k].file = ents[k].file
          /\ k = key => new[k].file = e0.file
      BY <1>5, <2>2
    <3>4. \E i \in NodesWith(p, l, k) \cap all : /\ new[k].package = Package(p.frame[i])
                                                 /\ new[k].category = Category(p.frame[i])
      BY <2>1, <3>1, <3>3
    <3>5. \E i \in NodesWith(p, l, k) \cap all : new[k].file = FileKey(p.frame[i])
      <4>1. CASE k = key
        BY <1>8, <3>3, <4>1
      <4>2. CASE k # key
        BY <2>1, <3>2, <3>3, <4>2
      <4> QED
        BY <4>1, <4>2
    <3> QED
      BY <3>4, <3>5
  <2>3. CASE k \notin DOMAIN ents
    <3>1. k = key
      BY <1>5, <2>3
    <3>2. new[k].package = Package(p.frame[t]) /\ new[k].category = Category(p.frame[t])
          /\ new[k].file = FileKey(p.frame[t])
      BY <1>5, <2>3, <3>1
    <3> QED
      BY <1>8, <3>1, <3>2
  <2> QED
    BY <2>2, <2>3
<1> HIDE DEF all
<1> QED
  BY <1>7, <1>9, <1>10 DEF EntitiesOf, KeysOf, all

(* Contexts of a key, and those inclusive of what is below it. *)
ByFunction(labels, onPath) == [x \in onPath \X (DOMAIN labels) |-> labels[x[2]]]
ByKey(labels, key) == [x \in {<<c, key>> : c \in DOMAIN labels} |-> labels[x[1]]]

LEMMA LabelsBegun ==
  ASSUME NEW p, NEW t \in Nodes(p)
  PROVE  DOMAIN ContextSelf(p, t) \subseteq DOMAIN Begun(p).contexts
<1> DEFINE labels == UNION {DOMAIN ContextSelf(p, n) : n \in DOMAIN p.frame}
<1>1. DOMAIN Begun(p).contexts = labels
  BY DEF Begun
<1> QED
  BY <1>1 DEF Nodes

LabelFollows(p, nodes, t, l, c, k) ==
  /\ SumsFollow(p, nodes, t, l, k, OfLabel(p, c))
  /\ CountOf(OfLabel(p, c), t) = CountOf(ContextSelf(p, t), c)
  /\ CountOf(ContextSelf(p, t), c) \in Int
  /\ SumOf(OfLabel(p, c), NodesWith(p, l, k) \cap nodes) \in Int
  /\ SumOf(OfLabel(p, c), NodesUnder(p, l, k) \cap nodes) \in Int

LEMMA LabelSums ==
  ASSUME NEW p, NEW nodes, NEW t, IsNext(p, nodes, t), NEW l, NEW c, NEW k
  PROVE  LabelFollows(p, nodes, t, l, c, k)
<1>1. IsProfile(p) /\ nodes \subseteq Nodes(p) /\ t \in Nodes(p)
  BY DEF IsNext
<1>2. \A n \in Nodes(p) : CountOf(OfLabel(p, c), n) \in Int
  BY <1>1, LabelIsInt
<1>3. SumsFollow(p, nodes, t, l, k, OfLabel(p, c))
  BY <1>2, SumsCounted
<1>4. NodesWith(p, l, k) \cap nodes \subseteq Nodes(p) /\ NodesUnder(p, l, k) \cap nodes \subseteq Nodes(p)
  BY <1>1
<1>5. /\ SumOf(OfLabel(p, c), NodesWith(p, l, k) \cap nodes) \in Int
      /\ SumOf(OfLabel(p, c), NodesUnder(p, l, k) \cap nodes) \in Int
  BY <1>1, <1>4, NodeSets
<1> QED
  BY <1>1, <1>3, <1>5, LabelIsInt DEF LabelFollows

LEMMA ContextsCounted ==
  ASSUME NEW p, NEW nodes, NEW t, IsNext(p, nodes, t), NEW l,
         NEW sums, ContextsBy(sums, p, l, nodes)
  PROVE  ContextsBy(AddSums(sums, ByKey(ContextSelf(p, t), KeyAt(p.frame[t], l))), p, l, nodes \cup {t})
<1>d. PICK key : key = KeyAt(p.frame[t], l)
  OBVIOUS
<1>b. PICK labels : labels = ContextSelf(p, t)
  OBVIOUS
<1>c. PICK more : more = ByKey(labels, key)
  OBVIOUS
<1>1. t \in Nodes(p)
  BY DEF IsNext
<1>a. more = [x \in {<<c, key>> : c \in DOMAIN labels} |-> labels[x[1]]]
  BY <1>c DEF ByKey
<1>2. DOMAIN AddSums(sums, more)
        \subseteq {<<c, KeyAt(p.frame[n], l)>> : c \in DOMAIN Begun(p).contexts, n \in nodes \cup {t}}
  <2>1. DOMAIN labels \subseteq DOMAIN Begun(p).contexts
    BY <1>b, <1>1, LabelsBegun
  <2>2. DOMAIN AddSums(sums, more) = DOMAIN sums \cup DOMAIN more
    BY DEF AddSums
  <2>3. ASSUME NEW x \in DOMAIN sums
        PROVE  x \in {<<c, KeyAt(p.frame[n], l)>> : c \in DOMAIN Begun(p).contexts, n \in nodes \cup {t}}
    BY DEF ContextsBy
  <2>4. ASSUME NEW x \in DOMAIN more
        PROVE  x \in {<<c, KeyAt(p.frame[n], l)>> : c \in DOMAIN Begun(p).contexts, n \in nodes \cup {t}}
    BY <1>a, <1>d, <2>1
  <2> QED
    BY <2>2, <2>3, <2>4
<1>3. ASSUME NEW k, NEW c
      PROVE  CountOf(AddSums(sums, more), <<c, k>>)
               = SumOf(OfLabel(p, c), NodesWith(p, l, k) \cap (nodes \cup {t}))
  <2>1. CountOf(more, <<c, k>>) = IF k = key THEN CountOf(labels, c) ELSE 0
    <3>1. <<c, k>> \in DOMAIN more <=> k = key /\ c \in DOMAIN labels
      BY <1>a
    <3>2. <<c, k>> \in DOMAIN more => more[<<c, k>>] = labels[c]
      BY <1>a
    <3> QED
      BY <3>1, <3>2 DEF CountOf
  <2>2. CountOf(AddSums(sums, more), <<c, k>>) = CountOf(sums, <<c, k>>) + CountOf(more, <<c, k>>)
    BY CountOfSum
  <2>3. CountOf(sums, <<c, k>>) = SumOf(OfLabel(p, c), NodesWith(p, l, k) \cap nodes)
    BY DEF ContextsBy
  <2>4. /\ SumsFollow(p, nodes, t, l, k, OfLabel(p, c))
        /\ CountOf(OfLabel(p, c), t) = CountOf(labels, c)
        /\ SumOf(OfLabel(p, c), NodesWith(p, l, k) \cap nodes) \in Int
    <3>1. LabelFollows(p, nodes, t, l, c, k)
      BY LabelSums
    <3> QED
      BY <1>b, <3>1 DEF LabelFollows
  <2>5. /\ k = key => SumOf(OfLabel(p, c), NodesWith(p, l, k) \cap (nodes \cup {t}))
                        = SumOf(OfLabel(p, c), NodesWith(p, l, k) \cap nodes) + CountOf(labels, c)
        /\ k # key => SumOf(OfLabel(p, c), NodesWith(p, l, k) \cap (nodes \cup {t}))
                        = SumOf(OfLabel(p, c), NodesWith(p, l, k) \cap nodes)
    BY <1>d, <2>4 DEF SumsFollow
  <2> QED
    BY <2>1, <2>2, <2>3, <2>4, <2>5
<1> QED
  BY <1>b, <1>c, <1>d, <1>2, <1>3 DEF ContextsBy

LEMMA InclusiveCounted ==
  ASSUME NEW p, NEW nodes, NEW t, IsNext(p, nodes, t),
         NEW sums, InclusiveContexts(sums, p, nodes),
         NEW onPath, onPath = KeysOf(p, "function", PathTo(p)[t])
  PROVE  InclusiveContexts(AddSums(sums, ByFunction(ContextSelf(p, t), onPath)), p, nodes \cup {t})
<1>b. PICK labels : labels = ContextSelf(p, t)
  OBVIOUS
<1>c. PICK more : more = ByFunction(labels, onPath)
  OBVIOUS
<1>a. more = [x \in onPath \X (DOMAIN labels) |-> labels[x[2]]]
  BY <1>c DEF ByFunction
<1>1. ASSUME NEW k, NEW c
      PROVE  CountOf(AddSums(sums, more), <<k, c>>)
               = SumOf(OfLabel(p, c), NodesUnder(p, "function", k) \cap (nodes \cup {t}))
  <2>1. CountOf(more, <<k, c>>) = IF k \in onPath THEN CountOf(labels, c) ELSE 0
    <3>1. <<k, c>> \in DOMAIN more <=> k \in onPath /\ c \in DOMAIN labels
      BY <1>a
    <3>2. <<k, c>> \in DOMAIN more => more[<<k, c>>] = labels[c]
      BY <1>a
    <3> QED
      BY <3>1, <3>2 DEF CountOf
  <2>2. CountOf(AddSums(sums, more), <<k, c>>) = CountOf(sums, <<k, c>>) + CountOf(more, <<k, c>>)
    BY CountOfSum
  <2>3. CountOf(sums, <<k, c>>) = SumOf(OfLabel(p, c), NodesUnder(p, "function", k) \cap nodes)
    BY DEF InclusiveContexts
  <2>4. /\ SumsFollow(p, nodes, t, "function", k, OfLabel(p, c))
        /\ CountOf(OfLabel(p, c), t) = CountOf(labels, c)
        /\ SumOf(OfLabel(p, c), NodesUnder(p, "function", k) \cap nodes) \in Int
    <3>1. LabelFollows(p, nodes, t, "function", c, k)
      BY LabelSums
    <3> QED
      BY <1>b, <3>1 DEF LabelFollows
  <2>5. /\ k \in onPath => SumOf(OfLabel(p, c), NodesUnder(p, "function", k) \cap (nodes \cup {t}))
                        = SumOf(OfLabel(p, c), NodesUnder(p, "function", k) \cap nodes) + CountOf(labels, c)
        /\ k \notin onPath => SumOf(OfLabel(p, c), NodesUnder(p, "function", k) \cap (nodes \cup {t}))
                        = SumOf(OfLabel(p, c), NodesUnder(p, "function", k) \cap nodes)
    BY <2>4 DEF SumsFollow
  <2> QED
    BY <2>1, <2>2, <2>3, <2>4, <2>5
<1> QED
  BY <1>b, <1>c, <1>1 DEF InclusiveContexts

-----------------------------------------------------------------------------
(* A node in the aggregation, when act are the keys on its path. *)
EntityFor(f) == [self |-> 0, total |-> 0, package |-> Package(f),
                 category |-> Category(f), file |-> FileKey(f)]
WithNode(entities, p, n, l, onPath) ==
  WithTotals(WithSelf(entities, KeyAt(p.frame[n], l), EntityFor(p.frame[n]), SelfOf(p)[n]),
             onPath, SelfOf(p)[n])

LEMMA CountedIs ==
  ASSUME NEW a, IsAggregation(a), NEW p, NEW n, NEW act, NEW b, b = Counted(a, p, n, act)
  PROVE  /\ IsAggregation(b)
         /\ b.entities = [l \in Levels |-> WithNode(a.entities[l], p, n, l, DOMAIN act[l])]
         /\ b.fnContexts = AddSums(a.fnContexts, ByFunction(ContextSelf(p, n), DOMAIN act["function"]))
         /\ b.ctxPackages = AddSums(a.ctxPackages, ByKey(ContextSelf(p, n), Package(p.frame[n])))
         /\ b.ctxFiles = AddSums(a.ctxFiles, ByKey(ContextSelf(p, n), FileKey(p.frame[n])))
         /\ b.edges = a.edges /\ b.contexts = a.contexts /\ b.overall = a.overall
         /\ b.profiles = a.profiles
<1> DEFINE E == [l \in Levels |-> WithNode(a.entities[l], p, n, l, DOMAIN act[l])]
           F == AddSums(a.fnContexts, ByFunction(ContextSelf(p, n), DOMAIN act["function"]))
           C == AddSums(a.ctxPackages, ByKey(ContextSelf(p, n), Package(p.frame[n])))
           D == AddSums(a.ctxFiles, ByKey(ContextSelf(p, n), FileKey(p.frame[n])))
<1>1. DOMAIN a = {"entities", "edges", "contexts", "fnContexts", "ctxPackages", "ctxFiles",
                  "overall", "profiles"}
  BY DEF IsAggregation
<1>2. b = [a EXCEPT !.entities = E, !.fnContexts = F, !.ctxPackages = C, !.ctxFiles = D]
  BY DEF Counted, WithNode, EntityFor, ByFunction, ByKey
<1> HIDE DEF E, F, C, D
<1>3. b = [k \in DOMAIN a |-> IF k = "ctxFiles" THEN D ELSE IF k = "ctxPackages" THEN C
                              ELSE IF k = "fnContexts" THEN F
                              ELSE IF k = "entities" THEN E ELSE a[k]]
  BY <1>1, <1>2
<1>4. /\ b.entities = E /\ b.fnContexts = F /\ b.ctxPackages = C /\ b.ctxFiles = D
      /\ b.edges = a.edges /\ b.contexts = a.contexts /\ b.overall = a.overall
      /\ b.profiles = a.profiles
  BY <1>1, <1>3
<1>5. IsAggregation(b)
  BY <1>1, <1>3 DEF IsAggregation
<1> QED
  BY <1>4, <1>5 DEF E, F, C, D

LEMMA CountsCounted ==
  ASSUME NEW p, NEW nodes, NEW t, IsNext(p, nodes, t), NEW a, CountsOf(a, p, nodes),
         NEW act, \A l \in Levels : DOMAIN act[l] = KeysOf(p, l, PathTo(p)[t]),
         NEW b, b = Counted(a, p, t, act)
  PROVE  CountsOf(b, p, nodes \cup {t}) /\ b.edges = a.edges
<1> DEFINE labels == ContextSelf(p, t)
<1>1. IsAggregation(a)
  BY DEF CountsOf
<1>2. /\ IsAggregation(b)
      /\ b.entities = [l \in Levels |-> WithNode(a.entities[l], p, t, l, DOMAIN act[l])]
      /\ b.fnContexts = AddSums(a.fnContexts, ByFunction(labels, DOMAIN act["function"]))
      /\ b.ctxPackages = AddSums(a.ctxPackages, ByKey(labels, Package(p.frame[t])))
      /\ b.ctxFiles = AddSums(a.ctxFiles, ByKey(labels, FileKey(p.frame[t])))
      /\ b.edges = a.edges /\ b.contexts = a.contexts /\ b.overall = a.overall
      /\ b.profiles = a.profiles
  BY <1>1, CountedIs
<1>3. "function" \in Levels
      /\ KeyAt(p.frame[t], "package") = Package(p.frame[t])
      /\ KeyAt(p.frame[t], "file") = FileKey(p.frame[t])
  BY DEF Levels, KeyAt
<1>4. ASSUME NEW l \in Levels PROVE EntitiesOf(b.entities[l], p, l, nodes \cup {t})
  <2> DEFINE e0 == EntityFor(p.frame[t])
  <2>1. IsEntity(e0) /\ e0.total = 0 /\ e0.package = Package(p.frame[t])
        /\ e0.category = Category(p.frame[t]) /\ e0.file = FileKey(p.frame[t])
    BY DEF IsEntity, EntityFor
  <2> HIDE DEF e0
  <2>2. EntitiesOf(a.entities[l], p, l, nodes)
    BY DEF CountsOf
  <2>3. b.entities[l] = WithTotals(WithSelf(a.entities[l], KeyAt(p.frame[t], l), e0, SelfOf(p)[t]),
                                   DOMAIN act[l], SelfOf(p)[t])
    BY <1>2 DEF WithNode, e0
  <2>4. DOMAIN act[l] = KeysOf(p, l, PathTo(p)[t])
    OBVIOUS
  <2> QED
    BY <2>1, <2>2, <2>3, <2>4, EntitiesCounted
<1>5. ContextsBy(b.ctxPackages, p, "package", nodes \cup {t})
  <2>1. ContextsBy(a.ctxPackages, p, "package", nodes)
    BY DEF CountsOf
  <2>2. ContextsBy(AddSums(a.ctxPackages, ByKey(ContextSelf(p, t), KeyAt(p.frame[t], "package"))),
                   p, "package", nodes \cup {t})
    BY <2>1, ContextsCounted
  <2> QED
    BY <1>2, <1>3, <2>2
<1>6. ContextsBy(b.ctxFiles, p, "file", nodes \cup {t})
  <2>1. ContextsBy(a.ctxFiles, p, "file", nodes)
    BY DEF CountsOf
  <2>2. ContextsBy(AddSums(a.ctxFiles, ByKey(ContextSelf(p, t), KeyAt(p.frame[t], "file"))),
                   p, "file", nodes \cup {t})
    BY <2>1, ContextsCounted
  <2> QED
    BY <1>2, <1>3, <2>2
<1>7. InclusiveContexts(b.fnContexts, p, nodes \cup {t})
  <2>1. InclusiveContexts(a.fnContexts, p, nodes)
    BY DEF CountsOf
  <2>2. DOMAIN act["function"] = KeysOf(p, "function", PathTo(p)[t])
    BY <1>3
  <2> DEFINE onPath == DOMAIN act["function"]
  <2>3. onPath = KeysOf(p, "function", PathTo(p)[t])
    BY <2>2
  <2>4. b.fnContexts = AddSums(a.fnContexts, ByFunction(ContextSelf(p, t), onPath))
    BY <1>2
  <2> HIDE DEF onPath
  <2>5. InclusiveContexts(AddSums(a.fnContexts, ByFunction(ContextSelf(p, t), onPath)), p, nodes \cup {t})
    BY <2>1, <2>3, InclusiveCounted
  <2> QED
    BY <2>4, <2>5
<1>8. /\ b.contexts = Begun(p).contexts /\ b.overall = Whole(SelfOf(p)) /\ b.profiles = 1
  BY <1>2 DEF CountsOf
<1> QED
  BY <1>2, <1>4, <1>5, <1>6, <1>7, <1>8 DEF CountsOf

(* Nothing is counted at first. *)
LEMMA NothingCounted ==
  ASSUME NEW p
  PROVE  CountsOf(Begun(p), p, {}) /\ Begun(p).edges = NoSums
<1> DEFINE labels == UNION {DOMAIN ContextSelf(p, n) : n \in DOMAIN p.frame}
           b == Begun(p)
<1>1. b = [entities |-> [l \in Levels |-> NoSums], edges |-> NoSums,
           contexts |-> [c \in labels |-> SumOf(OfLabel(p, c), DOMAIN p.frame)],
           fnContexts |-> NoSums, ctxPackages |-> NoSums, ctxFiles |-> NoSums,
           overall |-> Whole(SelfOf(p)), profiles |-> 1]
  BY DEF Begun
<1>2. DOMAIN NoSums = {} /\ \A k : CountOf(NoSums, k) = 0
  BY DEF NoSums, CountOf
<1>3. IsAggregation(b)
  <2> DEFINE c == [x \in labels |-> SumOf(OfLabel(p, x), DOMAIN p.frame)]
  <2> HIDE DEF labels, c
  <2> QED
    BY <1>1 DEF IsAggregation, labels, c
<1>4. \A l \in Levels : EntitiesOf(b.entities[l], p, l, {})
  BY <1>1, <1>2 DEF EntitiesOf
<1>5. b.fnContexts = NoSums /\ b.ctxPackages = NoSums /\ b.ctxFiles = NoSums
      /\ b.edges = NoSums /\ b.overall = Whole(SelfOf(p)) /\ b.profiles = 1
  BY <1>1
<1> HIDE DEF b
<1>6. \A l : ContextsBy(NoSums, p, l, {})
  BY <1>2, SumOfNone DEF ContextsBy
<1>7. InclusiveContexts(NoSums, p, {})
  BY <1>2, SumOfNone DEF InclusiveContexts
<1> QED
  BY <1>3, <1>4, <1>5, <1>6, <1>7 DEF CountsOf, b

-----------------------------------------------------------------------------
(* Of the profile in work the nodes that were entered are counted, of those *)
(* before it all.                                                           *)
SoFar ==
  /\ profile # NoProfile =>
       /\ profile = batch[at] /\ CountsOf(agg, profile, Walked) /\ agg.edges = NoSums
  /\ \A i \in 1..Len(aggs) : /\ CountsOf(aggs[i], batch[i], Nodes(batch[i]))
                             /\ aggs[i].edges = EdgesOf(batch[i])

(* The keys that are active when a node is entered are those on its path. *)
LEMMA KeysEntered ==
  ASSUME IInv, OnPath, Enter, NEW l \in Levels
  PROVE  DOMAIN active'[l] = KeysOf(profile, l, PathTo(profile)[Top.id])
<1> DEFINE n == Len(stack)
<1>1. /\ n \in Nat \ {0} /\ Len(stack') = n
      /\ \A i \in 1..(n - 1) : stack'[i] = stack[i]
      /\ stack'[n].entered /\ stack'[n].id = stack[n].id /\ profile' = profile
      /\ stack # <<>>
  BY EnterTop DEF IInv, Enter, Top
<1>2. \A i \in 1..(n - 1) : stack[i].entered
  BY <1>1 DEF IInv, StackOK
<1>3. \A i \in 1..n : stack'[i].entered /\ stack'[i].id = stack[i].id
  <2>1. \A i \in 1..n : i = n \/ i \in 1..(n - 1)
    BY <1>1
  <2> HIDE DEF n
  <2> QED
    BY <1>1, <1>2, <2>1
<1>4. Entered' = 1..n
  BY <1>1, <1>3 DEF Entered
<1>5. ActiveIsPath'
  BY CountsStep DEF Next
<1>6. DOMAIN active'[l] = {KeyAt(profile.frame[stack[i].id], l) : i \in 1..n}
  <2>1. DOMAIN active'[l] = {KeyOn(i, l)' : i \in Entered'}
    BY <1>5 DEF ActiveIsPath
  <2>2. \A i \in 1..n : KeyOn(i, l)' = KeyAt(profile.frame[stack[i].id], l)
    BY <1>1, <1>3 DEF KeyOn
  <2> HIDE DEF n
  <2> QED
    BY <1>4, <2>1, <2>2
<1>7. PathTo(profile)[Top.id] = {stack[j].id : j \in 1..n}
  BY WalkEnters DEF Paths
<1> QED
  BY <1>6, <1>7 DEF KeysOf

(* An aggregation that is done, with its edges. *)
LEMMA EdgesSet ==
  ASSUME NEW a, NEW p, NEW nodes, CountsOf(a, p, nodes), NEW edges,
         NEW b, b = [a EXCEPT !.edges = edges]
  PROVE  CountsOf(b, p, nodes) /\ b.edges = edges
<1>1. DOMAIN a = {"entities", "edges", "contexts", "fnContexts", "ctxPackages", "ctxFiles",
                  "overall", "profiles"}
  BY DEF CountsOf, IsAggregation
<1>2. b = [k \in DOMAIN a |-> IF k = "edges" THEN edges ELSE a[k]]
  BY <1>1
<1>3. /\ b.edges = edges /\ b.entities = a.entities /\ b.contexts = a.contexts
      /\ b.fnContexts = a.fnContexts /\ b.ctxPackages = a.ctxPackages
      /\ b.ctxFiles = a.ctxFiles /\ b.overall = a.overall /\ b.profiles = a.profiles
  BY <1>1, <1>2
<1>4. IsAggregation(b)
  BY <1>1, <1>2 DEF IsAggregation
<1> QED
  BY <1>3, <1>4 DEF CountsOf

(* A node that is entered is counted. *)
LEMMA CountsEntered ==
  ASSUME IInv, OnPath, SoFar, Enter
  PROVE  /\ profile' # NoProfile /\ profile' = batch'[at']
         /\ CountsOf(agg', profile', Walked') /\ agg'.edges = NoSums
<1>1. /\ profile' = profile /\ batch' = batch /\ at' = at /\ stack # <<>>
      /\ agg' = Counted(agg, profile, Top.id, active')
  BY DEF Enter
<1>2. profile # NoProfile /\ IsProfile(profile)
  BY <1>1, ProfileInWork DEF IInv, StackOK
<1>3. /\ Walked' = Walked \cup {Top.id} /\ Top.id \notin Walked /\ Top.id \in Nodes(profile)
  BY WalkEnters
<1>4. IsNext(profile, Walked, Top.id)
  <2>1. \A n \in Walked : PathTo(profile)[n] \subseteq Walked
    BY <1>2, WalkedFromRoots DEF Paths
  <2>2. Walked \subseteq Nodes(profile)
    BY DEF Walked
  <2> QED
    BY <1>2, <1>3, <2>1, <2>2 DEF IsNext
<1>5. CountsOf(agg, profile, Walked) /\ agg.edges = NoSums
  BY <1>2 DEF SoFar
<1>6. PICK act : act = active'
  OBVIOUS
<1>7. \A l \in Levels : DOMAIN act[l] = KeysOf(profile, l, PathTo(profile)[Top.id])
  BY <1>6, KeysEntered
<1>8. PICK t : t = Top.id
  OBVIOUS
<1>9. PICK w : w = Walked
  OBVIOUS
<1>10. PICK b : b = Counted(agg, profile, t, act)
  OBVIOUS
<1>11. CountsOf(b, profile, w \cup {t}) /\ b.edges = agg.edges
  BY <1>4, <1>5, <1>7, <1>8, <1>9, <1>10, CountsCounted
<1>12. agg' = b
  BY <1>1, <1>6, <1>8, <1>10
<1> QED
  BY <1>1, <1>2, <1>3, <1>5, <1>8, <1>9, <1>11, <1>12 DEF SoFar

LEMMA SoFarStep ==
  ASSUME IInv, OnPath, SoFar, [Next]_vars
  PROVE  SoFar'
<1> USE DEF IInv
<1>1. CASE UNCHANGED vars
  <2>1. Walked' = Walked
    BY <1>1 DEF vars, Walked, Paths, Ahead
  <2> QED
    BY <1>1, <2>1 DEF vars, SoFar
<1>2. CASE Begin
  <2>1. /\ batch' = batch /\ aggs' = aggs /\ at' = at + 1 /\ profile' = batch[at + 1]
        /\ agg' = Begun(profile')
    BY <1>2 DEF Begin
  <2>2. Walked' = {}
    BY <1>2, WalkBegins
  <2>3. CountsOf(agg', profile', Walked') /\ agg'.edges = NoSums
    BY <2>1, <2>2, NothingCounted
  <2> QED
    BY <2>1, <2>3 DEF SoFar
<1>3. CASE WalkRoot \/ Skip \/ Descend \/ Exit
  <2>1. Walked' = Walked
    BY <1>3, WalkGoesOn
  <2>2. profile' = profile /\ batch' = batch /\ at' = at /\ agg' = agg /\ aggs' = aggs
    BY <1>3 DEF WalkRoot, Skip, Descend, Exit
  <2> QED
    BY <2>1, <2>2 DEF SoFar
<1>4. CASE Enter
  <2>1. batch' = batch /\ aggs' = aggs
    BY <1>4 DEF Enter
  <2> QED
    BY <1>4, <2>1, CountsEntered DEF SoFar
<1>5. CASE Finish
  <2> DEFINE new == [agg EXCEPT !.edges = EdgesOf(profile)]
             n == Len(aggs)
  <2>1. /\ batch' = batch /\ profile' = NoProfile /\ aggs' = Append(aggs, new)
        /\ profile # NoProfile
    BY <1>5 DEF Finish
  <2>2. Walked = Nodes(profile)
    BY <1>5, WalkEnds
  <2>3. /\ profile = batch[at] /\ CountsOf(agg, profile, Nodes(profile))
    BY <2>1, <2>2 DEF SoFar
  <2>4. CountsOf(new, profile, Nodes(profile)) /\ new.edges = EdgesOf(profile)
    BY <2>3, EdgesSet
  <2> HIDE DEF new
  <2>5. aggs \in Seq(ToSet(aggs)) /\ n = at - 1 /\ at \in Nat
    BY <2>1, BatchAssumption DEF TypeOK
  <2>6. n \in Nat /\ Len(aggs') = n + 1 /\ aggs'[n + 1] = new
        /\ \A i \in 1..n : aggs'[i] = aggs[i]
    BY <2>1, <2>5
  <2> HIDE DEF n
  <2>7. batch[n + 1] = profile
    <3>1. n + 1 = at
      BY <2>5
    <3> QED
      BY <2>3, <3>1
  <2>8. ASSUME NEW i \in 1..Len(aggs')
        PROVE  /\ CountsOf(aggs'[i], batch[i], Nodes(batch[i]))
               /\ aggs'[i].edges = EdgesOf(batch[i])
    <3>1. CASE i = n + 1
      BY <2>4, <2>6, <2>7, <3>1
    <3>2. CASE i # n + 1
      <4>1. i \in 1..n
        BY <2>6, <3>2
      <4> QED
        BY <2>6, <4>1 DEF SoFar, n
    <3> QED
      BY <3>1, <3>2
  <2> QED
    BY <2>1, <2>8 DEF SoFar
<1> QED
  BY <1>1, <1>2, <1>3, <1>4, <1>5 DEF Next

(* What is counted is the time of the nodes. *)
LEMMA CountsAreTimes ==
  ASSUME NEW a, NEW p, NEW nodes, CountsOf(a, p, nodes)
  PROVE  TimesOf(a, p, nodes)
<1>1. ASSUME NEW l \in Levels
      PROVE  /\ DOMAIN a.entities[l] = {KeyAt(p.frame[n], l) : n \in nodes}
             /\ \A k \in DOMAIN a.entities[l] :
                  /\ a.entities[l][k].self = SumOf(SelfOf(p), NodesWith(p, l, k) \cap nodes)
                  /\ a.entities[l][k].total = SumOf(SelfOf(p), NodesUnder(p, l, k) \cap nodes)
  BY DEF CountsOf, EntitiesOf
<1>2. \A k, c : CountOf(a.fnContexts, <<k, c>>)
                  = SumOf(OfLabel(p, c), NodesUnder(p, "function", k) \cap nodes)
  BY DEF CountsOf, InclusiveContexts
<1> QED
  BY <1>1, <1>2 DEF TimesOf

(* The invariant of the walk: where it is, and what it has counted. *)
TimesInv == IInv /\ OnPath /\ SoFar

(* The walk is at the nodes it has not counted, and has counted the others *)
(* (aggregateTree), whatever is aggregated.                                *)
THEOREM TimesInductive == Spec => []TimesInv
<1>1. Init => OnPath /\ SoFar
  <2> SUFFICES ASSUME Init PROVE OnPath /\ SoFar
    OBVIOUS
  <2>1. profile = NoProfile /\ aggs = <<>>
    BY DEF Init
  <2> QED
    BY <2>1 DEF OnPath, SoFar
<1>2. TimesInv /\ [Next]_vars => TimesInv'
  BY TypeStep, StackStep, CountsStep, OnPathStep, SoFarStep DEF TimesInv, IInv
<1> QED
  BY InitHolds, <1>1, <1>2, PTL DEF Spec, TimesInv

(* In every profile each key has the self time of its nodes, and the        *)
(* inclusive time of the nodes below them once however deep the recursion; *)
(* and functions have it by context (aggregate.go:403-406).                *)
THEOREM TimeIsCountedOnce == Spec => []InclusiveTimeOnce
<1>1. TimesInv => InclusiveTimeOnce
  BY CountsAreTimes DEF TimesInv, SoFar, InclusiveTimeOnce, Nodes
<1> QED
  BY TimesInductive, <1>1, PTL

-----------------------------------------------------------------------------
(* The merge of aggregations, one after the other                          *)
(* g merges those of s at the places in each subset of S, the last one last.*)
Merging(s, S, g) ==
  g = [T \in SUBSET S |-> IF T = {} THEN NoAggregation
                          ELSE Merge2(g[T \ {Max(T)}], s[Max(T)])]

LEMMA MergeIs ==
  ASSUME NEW s
  PROVE  MergeAggregations(s) = (CHOOSE g : Merging(s, DOMAIN s, g))[DOMAIN s]
BY DEF MergeAggregations, FoldLeft, MapThenFoldSet, Merging

MergedAt(s, S, g) ==
  /\ g[{}] = NoAggregation
  /\ \A T : T \subseteq S /\ T # {} => g[T] = Merge2(g[T \ {Max(T)}], s[Max(T)])

LEMMA MergingIs ==
  ASSUME NEW s, NEW S, NEW g, Merging(s, S, g)
  PROVE  MergedAt(s, S, g)
BY DEF Merging, MergedAt

(* Those of a part of the places, and of that part alone. *)
Meet(s, S, T, g, h) ==
  /\ S \subseteq Nat /\ T \subseteq S /\ IsFiniteSet(T)
  /\ Merging(s, S, g) /\ Merging(s, T, h)

LEMMA MergingMeet ==
  ASSUME NEW s, NEW S, NEW T, NEW g, NEW h, Meet(s, S, T, g, h)
  PROVE  g[T] = h[T]
<1> S \subseteq Nat /\ T \subseteq S /\ IsFiniteSet(T)
    /\ Merging(s, S, g) /\ Merging(s, T, h)
  BY DEF Meet
<1> DEFINE F == {V \in SUBSET T : g[V] = h[V]}
<1>1. ASSUME NEW V \in SUBSET T, \A W \in SUBSET V : W # V => W \in F PROVE V \in F
  <2>1. CASE V = {}
    BY <2>1, MergingIs DEF MergedAt
  <2>2. CASE V # {}
    <3>1. Max(V) \in V
      BY <2>2, GreatestOfNaturals, FS_Subset
    <3> DEFINE W == V \ {Max(V)}
    <3>2. W \in SUBSET V /\ W # V
      BY <3>1
    <3>3. g[W] = h[W]
      BY <1>1, <3>2
    <3>4. g[V] = Merge2(g[W], s[Max(V)]) /\ h[V] = Merge2(h[W], s[Max(V)])
      <4>1. V \subseteq S /\ V \subseteq T
        OBVIOUS
      <4>2. MergedAt(s, S, g) /\ MergedAt(s, T, h)
        BY MergingIs
      <4> QED
        BY <2>2, <4>1, <4>2 DEF MergedAt
    <3> QED
      BY <3>3, <3>4
  <2> QED
    BY <2>1, <2>2
<1>2. T \in F
  <2> HIDE DEF F
  <2> QED
    BY <1>1, FiniteFamilyStrong
<1> QED
  BY <1>2

LEMMA MergingExists ==
  ASSUME NEW s, NEW S, IsFiniteSet(S), S \subseteq Nat
  PROVE  \E g : Merging(s, S, g)
<1> DEFINE F == {T \in SUBSET S : \E g : Merging(s, T, g)}
<1>1. ASSUME NEW T \in SUBSET S, \A U \in SUBSET T : U # T => U \in F PROVE T \in F
  <2> DEFINE V(u) == (CHOOSE g : Merging(s, u, g))[u]
             G == [u \in SUBSET T |-> IF u = {} THEN NoAggregation
                                      ELSE Merge2(V(u \ {Max(u)}), s[Max(u)])]
  <2>1. ASSUME NEW u \in SUBSET T, u # T
        PROVE  /\ Merging(s, u, CHOOSE g : Merging(s, u, g))
               /\ IsFiniteSet(u)
    <3>1. \E g : Merging(s, u, g)
      BY <1>1, <2>1
    <3>2. IsFiniteSet(u)
      BY FS_Subset
    <3> QED
      BY <3>1, <3>2
  <2>a. ASSUME NEW u \in SUBSET T, u # {}
        PROVE  Max(u) \in u /\ u \ {Max(u)} \in SUBSET T /\ u \ {Max(u)} # T
    <3>1. IsFiniteSet(u) /\ u \subseteq Nat
      BY FS_Subset
    <3>2. Max(u) \in u
      BY <2>a, <3>1, GreatestOfNaturals
    <3> QED
      BY <3>2
  <2>2. ASSUME NEW u \in SUBSET T, u # T PROVE G[u] = V(u)
    <3>1. PICK h : h = CHOOSE g : Merging(s, u, g)
      OBVIOUS
    <3>2. PICK r : r = u \ {Max(u)}
      OBVIOUS
    <3>3. PICK k : k = CHOOSE g : Merging(s, r, g)
      OBVIOUS
    <3>4. MergedAt(s, u, h)
      BY <2>1, <2>2, <3>1, MergingIs
    <3>5. CASE u = {}
      BY <3>1, <3>4, <3>5 DEF MergedAt
    <3>6. CASE u # {}
      <4>1. r \in SUBSET T /\ r # T /\ r \subseteq u
        BY <2>2, <2>a, <3>2, <3>6
      <4>2. Merging(s, r, k) /\ Merging(s, u, h) /\ IsFiniteSet(r) /\ u \subseteq Nat
        BY <2>1, <2>2, <3>1, <3>3, <4>1
      <4>3. h[r] = k[r]
        <5> HIDE DEF G, V, F
        <5>1. Meet(s, u, r, h, k)
          BY <4>1, <4>2 DEF Meet
        <5> QED
          BY <5>1, MergingMeet
      <4>4. h[u] = Merge2(h[r], s[Max(u)])
        BY <3>2, <3>4, <3>6 DEF MergedAt
      <4>5. G[u] = Merge2(k[r], s[Max(u)])
        BY <3>2, <3>3, <3>6
      <4> QED
        BY <3>1, <4>3, <4>4, <4>5
    <3> QED
      BY <3>5, <3>6
  <2>3. ASSUME NEW u \in SUBSET T, u # {} PROVE V(u \ {Max(u)}) = G[u \ {Max(u)}]
    <3>1. u \ {Max(u)} \in SUBSET T /\ u \ {Max(u)} # T
      BY <2>3, <2>a
    <3> HIDE DEF V, G
    <3> QED
      BY <2>2, <3>1
  <2>4. G = [u \in SUBSET T |-> IF u = {} THEN NoAggregation
                                ELSE Merge2(G[u \ {Max(u)}], s[Max(u)])]
    <3> HIDE DEF V
    <3>1. G = [u \in SUBSET T |-> IF u = {} THEN NoAggregation
                                  ELSE Merge2(V(u \ {Max(u)}), s[Max(u)])]
      OBVIOUS
    <3> HIDE DEF G
    <3> QED
      BY <2>3, <3>1
  <2>5. Merging(s, T, G)
    <3> HIDE DEF G
    <3> QED
      BY <2>4 DEF Merging
  <2> HIDE DEF G
  <2> QED
    BY <2>5
<1>2. S \in F
  <2> HIDE DEF F
  <2> QED
    BY <1>1, FiniteFamilyStrong
<1> QED
  BY <1>2

(* The merge is the last of a series that starts with nothing and takes one *)
(* aggregation at a time.                                                  *)
IsMergeOf(m, s) ==
  /\ m[0] = NoAggregation
  /\ \A j \in 1..Len(s) : m[j] = Merge2(m[j - 1], s[j])

LEMMA MergedInTurn ==
  ASSUME NEW s, Len(s) \in Nat, DOMAIN s = 1..Len(s)
  PROVE  \E m : IsMergeOf(m, s) /\ MergeAggregations(s) = m[Len(s)]
<1> DEFINE n == Len(s)
           g == CHOOSE g : Merging(s, DOMAIN s, g)
           m == [j \in 0..n |-> g[1..j]]
<1>1. IsFiniteSet(1..n) /\ 1..n \subseteq Nat
  BY FS_Interval
<1>2. Merging(s, 1..n, g)
  BY <1>1, MergingExists
<1>3. MergeAggregations(s) = g[1..n]
  BY MergeIs
<1> HIDE DEF g
<1>4. m[0] = NoAggregation
  <2>1. 1..0 = {}
    OBVIOUS
  <2>2. m[0] = g[{}]
    BY <2>1
  <2>3. {} \in SUBSET (1..n)
    OBVIOUS
  <2>4. g[{}] = NoAggregation
    BY <1>2, MergingIs DEF MergedAt
  <2> QED
    BY <2>2, <2>4
<1>5. ASSUME NEW j \in 1..n PROVE m[j] = Merge2(m[j - 1], s[j])
  <2> DEFINE J == 1..j
  <2>1. J \in SUBSET (1..n) /\ J # {} /\ J \subseteq Nat /\ j \in J
    OBVIOUS
  <2>2. IsFiniteSet(J)
    BY <1>1, <2>1, FS_Subset
  <2>3. Max(J) \in J /\ \A x \in J : x <= Max(J)
    <3> HIDE DEF J
    <3> QED
      BY <2>1, <2>2, GreatestOfNaturals
  <2>4. Max(J) = j
    <3> DEFINE x == Max(J)
    <3>1. x \in 1..j /\ j <= x
      BY <2>1, <2>3
    <3> HIDE DEF x
    <3>2. x = j
      BY <3>1
    <3> QED
      BY <3>2 DEF x
  <2>5. J \ {j} = 1..(j - 1)
    OBVIOUS
  <2>6. g[J] = Merge2(g[J \ {Max(J)}], s[Max(J)])
    <3>1. MergedAt(s, 1..n, g)
      BY <1>2, MergingIs
    <3> HIDE DEF J
    <3> QED
      BY <2>1, <3>1 DEF MergedAt
  <2>7. m[j] = g[J] /\ m[j - 1] = g[1..(j - 1)]
    OBVIOUS
  <2> QED
    BY <2>4, <2>5, <2>6, <2>7
<1>6. m[n] = g[1..n]
  OBVIOUS
<1>7. IsMergeOf(m, s)
  BY <1>4, <1>5 DEF IsMergeOf
<1> HIDE DEF m
<1> QED
  BY <1>3, <1>6, <1>7

-----------------------------------------------------------------------------
(* The nodes of all profiles of a batch                                    *)
(* Node n of profile i is at place <<i, n>>.                               *)
NodesAt(b, i) == {i} \X Nodes(b[i])
PlacesTo(b, j) == UNION {NodesAt(b, i) : i \in 1..j}
FrameOf(b, x) == b[x[1]].frame[x[2]]

(* The key, the time, and the time under a label, of each.                 *)
KeysAt(b, l) == [x \in PlacesTo(b, Len(b)) |-> KeyAt(FrameOf(b, x), l)]
TimeAt(b) == [x \in PlacesTo(b, Len(b)) |-> SelfOf(b[x[1]])[x[2]]]
LabelAt(b, c) == [x \in PlacesTo(b, Len(b)) |-> CountOf(ContextSelf(b[x[1]], x[2]), c)]

PlacesWith(b, j, l, k) == Fibre(PlacesTo(b, j), KeysAt(b, l), k)

IsBatch(b) == Len(b) \in Nat /\ \A i \in 1..Len(b) : IsProfile(b[i])

LEMMA PlaceIn ==
  ASSUME NEW b, NEW j, NEW x
  PROVE  x \in PlacesTo(b, j) <=> \E i \in 1..j : x \in NodesAt(b, i)
BY DEF PlacesTo

LEMMA NodeAt ==
  ASSUME NEW b, NEW i, NEW x
  PROVE  /\ x \in NodesAt(b, i) => x = <<x[1], x[2]>> /\ x[1] = i /\ x[2] \in Nodes(b[i])
         /\ \A n \in Nodes(b[i]) : <<i, n>> \in NodesAt(b, i)
BY DEF NodesAt

LEMMA PlacesAre ==
  ASSUME NEW b, IsBatch(b), NEW j \in 0..Len(b)
  PROVE  /\ IsFiniteSet(PlacesTo(b, j))
         /\ PlacesTo(b, j) \subseteq PlacesTo(b, Len(b))
         /\ \A x \in PlacesTo(b, j) : x = <<x[1], x[2]>> /\ x[1] \in 1..j /\ x[2] \in Nodes(b[x[1]])
         /\ \A i \in 1..j : \A n \in Nodes(b[i]) : <<i, n>> \in PlacesTo(b, j)
<1> DEFINE part == [i \in 1..j |-> NodesAt(b, i)]
           S == {part[i] : i \in 1..j}
<1>1. Len(b) \in Nat /\ 1..j \subseteq 1..Len(b) /\ j \in Nat
  BY DEF IsBatch
<1>2. PlacesTo(b, j) = UNION S
  BY DEF PlacesTo
<1>3. IsFiniteSet(1..j)
  <2>1. 1 \in Int /\ j \in Int
    BY <1>1
  <2> QED
    BY <2>1, FS_Interval
<1>4. ASSUME NEW i \in 1..j PROVE IsFiniteSet(part[i])
  <2>1. IsFiniteSet(Nodes(b[i]))
    BY <1>1, ProfileIs DEF IsBatch
  <2>2. IsFiniteSet({i})
    BY FS_Singleton
  <2>3. part[i] = {i} \X Nodes(b[i])
    BY DEF NodesAt
  <2> QED
    BY <2>1, <2>2, <2>3, FS_Product
<1>5. PlacesTo(b, j) \subseteq PlacesTo(b, Len(b))
  BY <1>1 DEF PlacesTo
<1>6. \A x \in PlacesTo(b, j) : x = <<x[1], x[2]>> /\ x[1] \in 1..j /\ x[2] \in Nodes(b[x[1]])
  <2> SUFFICES ASSUME NEW x \in PlacesTo(b, j)
               PROVE  x = <<x[1], x[2]>> /\ x[1] \in 1..j /\ x[2] \in Nodes(b[x[1]])
    OBVIOUS
  <2>1. PICK i \in 1..j : x \in NodesAt(b, i)
    BY PlaceIn
  <2> QED
    BY <2>1, NodeAt
<1>7. \A i \in 1..j : \A n \in Nodes(b[i]) : <<i, n>> \in PlacesTo(b, j)
  BY PlaceIn, NodeAt
<1> HIDE DEF part
<1>8. IsFiniteSet(S)
  BY <1>3, FiniteImage
<1>9. \A T \in S : IsFiniteSet(T)
  BY <1>4
<1>10. IsFiniteSet(UNION S)
  <2> HIDE DEF S
  <2> QED
    BY <1>8, <1>9, FS_UNION
<1> QED
  BY <1>2, <1>5, <1>6, <1>7, <1>10

LEMMA TimesAre ==
  ASSUME NEW b, IsBatch(b), NEW x \in PlacesTo(b, Len(b))
  PROVE  TimeAt(b)[x] \in Int /\ \A c : LabelAt(b, c)[x] \in Int
<1>1. Len(b) \in 0..Len(b)
  BY DEF IsBatch
<1>2. x[1] \in 1..Len(b) /\ x[2] \in Nodes(b[x[1]])
  BY <1>1, PlacesAre
<1>3. IsProfile(b[x[1]])
  BY <1>2 DEF IsBatch
<1>4. SelfOf(b[x[1]])[x[2]] \in Int
  BY <1>2, <1>3, SelfIsInt
<1>5. \A c : CountOf(ContextSelf(b[x[1]], x[2]), c) \in Int
  BY <1>2, <1>3, LabelIsInt
<1> QED
  BY <1>4, <1>5 DEF TimeAt, LabelAt

LEMMA PlacesMore ==
  ASSUME NEW b, IsBatch(b), NEW j \in 1..Len(b)
  PROVE  /\ PlacesTo(b, j) = PlacesTo(b, j - 1) \cup NodesAt(b, j)
         /\ \A x \in PlacesTo(b, j - 1) : x[1] # j
<1>1. j - 1 \in 0..Len(b) /\ j \in Nat
  BY DEF IsBatch
<1>2. \A x \in PlacesTo(b, j - 1) : x[1] \in 1..(j - 1)
  BY <1>1, PlacesAre
<1>3. 1..j = (1..(j - 1)) \cup {j}
  BY <1>1
<1>4. PlacesTo(b, j) = PlacesTo(b, j - 1) \cup NodesAt(b, j)
  BY <1>3 DEF PlacesTo
<1> QED
  BY <1>1, <1>2, <1>4

(* A sum over places, and the nodes of one profile more. *)
MorePlaces(A, j, N, U, f, g) ==
  /\ IsFiniteSet(A) /\ (\A x \in A : x[1] # j) /\ IsFiniteSet(N)
  /\ U = A \cup ({j} \X N) /\ (\A x \in U : f[x] \in Int)
  /\ \A n \in N : CountOf(g, n) = f[<<j, n>>]

LEMMA SumOfMorePlaces ==
  ASSUME NEW A, NEW j, NEW N, NEW U, NEW f, NEW g, MorePlaces(A, j, N, U, f, g)
  PROVE  SumFunctionOnSet(f, U) = SumFunctionOnSet(f, A) + SumOf(g, N)
<1> USE DEF MorePlaces
<1> DEFINE place == [n \in N |-> <<j, n>>]
           B == {j} \X N
           h == [n \in N |-> CountOf(g, n)]
<1>1. B = {place[n] : n \in N}
  OBVIOUS
<1>2. \A n, o \in N : place[n] = place[o] => n = o
  OBVIOUS
<1>3. \A n \in N : h[n] \in Int /\ f[place[n]] = h[n]
  OBVIOUS
<1>4. A \cap B = {}
  OBVIOUS
<1>5. SumOf(g, N) = SumFunctionOnSet(h, N)
  BY DEF SumOf
<1>6. U = A \cup B
  OBVIOUS
<1> HIDE DEF h, place, B
<1>7. IsFiniteSet(B)
  BY <1>1, FiniteImage
<1>8. SumFunctionOnSet(f, B) = SumFunctionOnSet(h, N)
  BY <1>1, <1>2, <1>3, SumRenamed
<1>9. SumFunctionOnSet(f, A \cup B) = SumFunctionOnSet(f, A) + SumFunctionOnSet(f, B)
  <2>1. \A x \in A \cup B : f[x] \in Int
    BY <1>6
  <2> QED
    BY <1>4, <1>7, <2>1, SumUnion
<1> QED
  BY <1>5, <1>6, <1>8, <1>9

(* What f says of places is, of those of profile j, what g says of its nodes. *)
SameAt(b, j, f, g) ==
  /\ \A x \in PlacesTo(b, Len(b)) : f[x] \in Int
  /\ \A n \in Nodes(b[j]) : CountOf(g, n) = f[<<j, n>>]

LEMMA SumMoreWith ==
  ASSUME NEW b, IsBatch(b), NEW j \in 1..Len(b), NEW f, NEW g, SameAt(b, j, f, g)
  PROVE  /\ SumFunctionOnSet(f, PlacesTo(b, j))
              = SumFunctionOnSet(f, PlacesTo(b, j - 1)) + SumOf(g, Nodes(b[j]))
         /\ \A l, k : SumFunctionOnSet(f, PlacesWith(b, j, l, k))
                       = SumFunctionOnSet(f, PlacesWith(b, j - 1, l, k))
                         + SumOf(g, NodesWith(b[j], l, k) \cap Nodes(b[j]))
<1>1. j \in 0..Len(b) /\ j - 1 \in 0..Len(b)
  BY DEF IsBatch
<1>2. /\ PlacesTo(b, j) = PlacesTo(b, j - 1) \cup NodesAt(b, j)
      /\ \A x \in PlacesTo(b, j - 1) : x[1] # j
  BY PlacesMore
<1>3. IsFiniteSet(PlacesTo(b, j - 1)) /\ PlacesTo(b, j) \subseteq PlacesTo(b, Len(b))
  BY <1>1, PlacesAre
<1>4. \A x \in PlacesTo(b, j) : f[x] \in Int
  BY <1>3 DEF SameAt
<1>5. IsFiniteSet(Nodes(b[j]))
  BY ProfileIs DEF IsBatch
<1>6. \A n \in Nodes(b[j]) : CountOf(g, n) = f[<<j, n>>]
  BY DEF SameAt
<1>7. SumFunctionOnSet(f, PlacesTo(b, j))
        = SumFunctionOnSet(f, PlacesTo(b, j - 1)) + SumOf(g, Nodes(b[j]))
  <2>1. PICK A : A = PlacesTo(b, j - 1)
    OBVIOUS
  <2>2. PICK U : U = PlacesTo(b, j)
    OBVIOUS
  <2>3. PICK N : N = Nodes(b[j])
    OBVIOUS
  <2>4. U = A \cup ({j} \X N)
    BY <1>2, <2>1, <2>2, <2>3 DEF NodesAt
  <2>5. IsFiniteSet(A) /\ (\A x \in A : x[1] # j) /\ IsFiniteSet(N) /\ (\A x \in U : f[x] \in Int)
        /\ \A n \in N : CountOf(g, n) = f[<<j, n>>]
    BY <1>2, <1>3, <1>4, <1>5, <1>6, <2>1, <2>2, <2>3
  <2>6. SumFunctionOnSet(f, U) = SumFunctionOnSet(f, A) + SumOf(g, N)
    <3>1. MorePlaces(A, j, N, U, f, g)
      BY <2>4, <2>5 DEF MorePlaces
    <3> QED
      BY <3>1, SumOfMorePlaces
  <2> QED
    BY <2>1, <2>2, <2>3, <2>6
<1>8. ASSUME NEW l, NEW k
      PROVE  SumFunctionOnSet(f, PlacesWith(b, j, l, k))
               = SumFunctionOnSet(f, PlacesWith(b, j - 1, l, k))
                 + SumOf(g, NodesWith(b[j], l, k) \cap Nodes(b[j]))
  <2> DEFINE A == PlacesWith(b, j - 1, l, k)
             N == NodesWith(b[j], l, k) \cap Nodes(b[j])
             U == PlacesWith(b, j, l, k)
  <2>1. IsFiniteSet(A) /\ (\A x \in A : x[1] # j)
    <3>1. A \subseteq PlacesTo(b, j - 1)
      BY DEF PlacesWith, Fibre
    <3> HIDE DEF A
    <3> QED
      BY <1>2, <1>3, <3>1, FS_Subset
  <2>2. IsFiniteSet(N)
    BY <1>5, FS_Subset
  <2>3. \A n \in Nodes(b[j]) : KeysAt(b, l)[<<j, n>>] = KeyAt(b[j].frame[n], l)
    <3>1. \A n \in Nodes(b[j]) : <<j, n>> \in PlacesTo(b, Len(b))
      BY <1>2, <1>3, NodeAt
    <3> QED
      BY <3>1 DEF KeysAt, FrameOf
  <2>4. N = {n \in Nodes(b[j]) : KeysAt(b, l)[<<j, n>>] = k}
    BY <2>3 DEF NodesWith, Nodes
  <2>5. U = A \cup ({j} \X N)
    <3> HIDE DEF N
    <3>1. ASSUME NEW x PROVE x \in U <=> x \in A \/ x \in {j} \X N
      <4>1. x \in U <=> x \in PlacesTo(b, j) /\ KeysAt(b, l)[x] = k
        BY DEF PlacesWith, Fibre
      <4>2. x \in A <=> x \in PlacesTo(b, j - 1) /\ KeysAt(b, l)[x] = k
        BY DEF PlacesWith, Fibre
      <4>3. x \in {j} \X N <=> x \in NodesAt(b, j) /\ KeysAt(b, l)[x] = k
        <5>1. CASE x \in NodesAt(b, j)
          <6>1. PICK n \in Nodes(b[j]) : x = <<j, n>>
            BY <5>1 DEF NodesAt
          <6>2. <<j, n>> \in {j} \X N <=> n \in N
            OBVIOUS
          <6>3. n \in N <=> KeysAt(b, l)[<<j, n>>] = k
            BY <2>4
          <6> QED
            BY <5>1, <6>1, <6>2, <6>3
        <5>2. CASE x \notin NodesAt(b, j)
          BY <2>4, <5>2 DEF NodesAt
        <5> QED
          BY <5>1, <5>2
      <4> QED
        BY <1>2, <4>1, <4>2, <4>3
    <3> HIDE DEF U, A
    <3> QED
      BY <3>1
  <2>6. \A x \in U : f[x] \in Int
    BY <1>4 DEF PlacesWith, Fibre
  <2>7. \A n \in N : CountOf(g, n) = f[<<j, n>>]
    BY <1>6
  <2> HIDE DEF A, N, U
  <2>8. SumFunctionOnSet(f, U) = SumFunctionOnSet(f, A) + SumOf(g, N)
    <3>1. PICK a : a = A
      OBVIOUS
    <3>2. IsFiniteSet(a) /\ (\A x \in a : x[1] # j) /\ IsFiniteSet(N) /\ U = a \cup ({j} \X N)
          /\ (\A x \in U : f[x] \in Int) /\ \A n \in N : CountOf(g, n) = f[<<j, n>>]
      BY <2>1, <2>2, <2>5, <2>6, <2>7, <3>1
    <3>3. MorePlaces(a, j, N, U, f, g)
      BY <3>2 DEF MorePlaces
    <3> QED
      BY <3>1, <3>3, SumOfMorePlaces
  <2> QED
    BY <2>8 DEF A, N, U
<1> QED
  BY <1>7, <1>8

-----------------------------------------------------------------------------
(* What the merge of the first j profiles says *)
LEMMA NoneTo ==
  ASSUME NEW b
  PROVE  PlacesTo(b, 0) = {} /\ \A l, k : PlacesWith(b, 0, l, k) = {}
<1>1. 1..0 = {}
  OBVIOUS
<1>2. \A x : x \notin PlacesTo(b, 0)
  BY <1>1, PlaceIn
<1> QED
  BY <1>2 DEF PlacesWith, Fibre

LEMMA SameTimes ==
  ASSUME NEW b, IsBatch(b), NEW j \in 1..Len(b)
  PROVE  /\ SameAt(b, j, TimeAt(b), SelfOf(b[j]))
         /\ \A c : SameAt(b, j, LabelAt(b, c), OfLabel(b[j], c))
<1>1. IsProfile(b[j]) /\ Len(b) \in Nat /\ Len(b) \in 0..Len(b)
  BY DEF IsBatch
<1>2. \A n \in Nodes(b[j]) : <<j, n>> \in PlacesTo(b, Len(b))
  BY <1>1, PlacesAre
<1>3. \A n \in Nodes(b[j]) : CountOf(SelfOf(b[j]), n) = TimeAt(b)[<<j, n>>]
  <2>1. \A n \in Nodes(b[j]) : CountOf(SelfOf(b[j]), n) = SelfOf(b[j])[n]
    BY <1>1, SelfIsInt DEF CountOf
  <2>2. \A n \in Nodes(b[j]) : TimeAt(b)[<<j, n>>] = SelfOf(b[j])[n]
    BY <1>2 DEF TimeAt
  <2> QED
    BY <2>1, <2>2
<1>4. \A c : \A n \in Nodes(b[j]) : CountOf(OfLabel(b[j], c), n) = LabelAt(b, c)[<<j, n>>]
  <2>1. \A c : \A n \in Nodes(b[j]) : CountOf(OfLabel(b[j], c), n) = CountOf(ContextSelf(b[j], n), c)
    BY <1>1, LabelIsInt
  <2>2. \A c : \A n \in Nodes(b[j]) : LabelAt(b, c)[<<j, n>>] = CountOf(ContextSelf(b[j], n), c)
    BY <1>2 DEF LabelAt
  <2> QED
    BY <2>1, <2>2
<1> QED
  BY <1>3, <1>4, TimesAre DEF SameAt

(* Keys at the nodes of profile j. *)
LEMMA KeysMore ==
  ASSUME NEW b, IsBatch(b), NEW j \in 1..Len(b), NEW l
  PROVE  /\ \A n \in Nodes(b[j]) : /\ <<j, n>> \in PlacesTo(b, j)
                                   /\ KeysAt(b, l)[<<j, n>>] = KeyAt(b[j].frame[n], l)
                                   /\ FrameOf(b, <<j, n>>) = b[j].frame[n]
         /\ \A x \in PlacesTo(b, j) :
              x \in PlacesTo(b, j - 1) \/ \E n \in Nodes(b[j]) : x = <<j, n>>
         /\ PlacesTo(b, j - 1) \subseteq PlacesTo(b, j)
         /\ \A k : PlacesWith(b, j - 1, l, k) \subseteq PlacesWith(b, j, l, k)
<1>1. j \in 1..j /\ j \in 0..Len(b)
  BY DEF IsBatch
<1>2. \A n \in Nodes(b[j]) : <<j, n>> \in PlacesTo(b, j) /\ <<j, n>> \in PlacesTo(b, Len(b))
  BY <1>1, PlacesAre
<1>3. \A n \in Nodes(b[j]) : /\ KeysAt(b, l)[<<j, n>>] = KeyAt(b[j].frame[n], l)
                             /\ FrameOf(b, <<j, n>>) = b[j].frame[n]
  BY <1>2 DEF KeysAt, FrameOf
<1>4. PlacesTo(b, j) = PlacesTo(b, j - 1) \cup NodesAt(b, j)
  BY PlacesMore
<1>5. \A x \in NodesAt(b, j) : \E n \in Nodes(b[j]) : x = <<j, n>>
  BY DEF NodesAt
<1> QED
  BY <1>2, <1>3, <1>4, <1>5 DEF PlacesWith, Fibre

EntitiesTo(entities, b, j, l) ==
  /\ DOMAIN entities = {KeysAt(b, l)[x] : x \in PlacesTo(b, j)}
  /\ \A k \in DOMAIN entities :
       /\ IsEntity(entities[k])
       /\ entities[k].self = SumFunctionOnSet(TimeAt(b), PlacesWith(b, j, l, k))
       /\ \E x \in PlacesWith(b, j, l, k) : entities[k].package = Package(FrameOf(b, x))
       /\ \E x \in PlacesWith(b, j, l, k) : entities[k].file = FileKey(FrameOf(b, x))

(* An entity that is in both is in the merge with both times. *)
Increased(e, s, t) == [e EXCEPT !.self = @ + s, !.total = @ + t]

LEMMA EntityIncreased ==
  ASSUME NEW e, IsEntity(e), NEW s, NEW t, NEW x, x = Increased(e, s, t)
  PROVE  IsEntity(x) /\ x.self = e.self + s /\ x.package = e.package /\ x.file = e.file
<1>1. DOMAIN e = {"self", "total", "package", "category", "file"}
  BY DEF IsEntity
<1> DEFINE u == e.self + s
           v == e.total + t
<1>2. x = [e EXCEPT !.self = u, !.total = v]
  BY DEF Increased
<1> HIDE DEF u, v
<1>3. x = [k \in DOMAIN e |-> IF k = "total" THEN v ELSE IF k = "self" THEN u ELSE e[k]]
  BY <1>1, <1>2
<1>4. x.self = u /\ x.package = e.package /\ x.file = e.file
  BY <1>1, <1>3
<1>5. IsEntity(x)
  BY <1>1, <1>3 DEF IsEntity
<1> QED
  BY <1>4, <1>5 DEF u

AreMerged(r, d, e) ==
  /\ DOMAIN r = DOMAIN d \cup DOMAIN e
  /\ \A k \in DOMAIN r :
       /\ k \notin DOMAIN d => r[k] = e[k]
       /\ k \in DOMAIN d /\ k \notin DOMAIN e => r[k] = d[k]
       /\ k \in DOMAIN d /\ k \in DOMAIN e => r[k] = Increased(d[k], e[k].self, e[k].total)

LEMMA MergeEntitiesIs ==
  ASSUME NEW d, NEW e
  PROVE  AreMerged(MergeEntities(d, e), d, e)
BY DEF MergeEntities, Increased, AreMerged

LEMMA EntitiesMerged ==
  ASSUME NEW b, IsBatch(b), NEW j \in 1..Len(b), NEW l, NEW d, EntitiesTo(d, b, j - 1, l),
         NEW e, EntitiesOf(e, b[j], l, Nodes(b[j])), NEW r, r = MergeEntities(d, e)
  PROVE  EntitiesTo(r, b, j, l)
<1> DEFINE p == b[j]
<1>1. IsProfile(p)
  BY DEF IsBatch
<1>2. /\ \A n \in Nodes(p) : /\ <<j, n>> \in PlacesTo(b, j)
                             /\ KeysAt(b, l)[<<j, n>>] = KeyAt(p.frame[n], l)
                             /\ FrameOf(b, <<j, n>>) = p.frame[n]
      /\ \A x \in PlacesTo(b, j) : x \in PlacesTo(b, j - 1) \/ \E n \in Nodes(p) : x = <<j, n>>
      /\ PlacesTo(b, j - 1) \subseteq PlacesTo(b, j)
      /\ \A k : PlacesWith(b, j - 1, l, k) \subseteq PlacesWith(b, j, l, k)
  BY KeysMore
<1> HIDE DEF p
<1>3. /\ DOMAIN d = {KeysAt(b, l)[x] : x \in PlacesTo(b, j - 1)}
      /\ DOMAIN e = {KeyAt(p.frame[n], l) : n \in Nodes(p)}
  BY DEF EntitiesTo, EntitiesOf, p
<1>4. /\ DOMAIN r = DOMAIN d \cup DOMAIN e
      /\ \A k \in DOMAIN r :
           /\ k \notin DOMAIN d => r[k] = e[k]
           /\ k \in DOMAIN d /\ k \notin DOMAIN e => r[k] = d[k]
           /\ k \in DOMAIN d /\ k \in DOMAIN e => r[k] = Increased(d[k], e[k].self, e[k].total)
  <2>1. AreMerged(r, d, e)
    BY MergeEntitiesIs
  <2> QED
    BY <2>1 DEF AreMerged
<1>5. DOMAIN r = {KeysAt(b, l)[x] : x \in PlacesTo(b, j)}
  <2>1. ASSUME NEW k PROVE k \in DOMAIN r <=> \E x \in PlacesTo(b, j) : k = KeysAt(b, l)[x]
    <3>1. CASE k \in DOMAIN r
      BY <1>2, <1>3, <1>4, <3>1
    <3>2. ASSUME NEW x \in PlacesTo(b, j), k = KeysAt(b, l)[x] PROVE k \in DOMAIN r
      <4>1. CASE x \in PlacesTo(b, j - 1)
        BY <1>3, <1>4, <3>2, <4>1
      <4>2. CASE \E n \in Nodes(p) : x = <<j, n>>
        BY <1>2, <1>3, <1>4, <3>2, <4>2
      <4> QED
        BY <1>2, <4>1, <4>2
    <3> QED
      BY <3>1, <3>2
  <2> QED
    BY <2>1
<1>6. ASSUME NEW k
      PROVE  /\ SumFunctionOnSet(TimeAt(b), PlacesWith(b, j, l, k))
                  = SumFunctionOnSet(TimeAt(b), PlacesWith(b, j - 1, l, k))
                    + SumOf(SelfOf(p), NodesWith(p, l, k) \cap Nodes(p))
             /\ SumFunctionOnSet(TimeAt(b), PlacesWith(b, j - 1, l, k)) \in Int
             /\ SumOf(SelfOf(p), NodesWith(p, l, k) \cap Nodes(p)) \in Int
  <2>1. SumOf(SelfOf(p), NodesWith(p, l, k) \cap Nodes(p)) \in Int
    BY <1>1, NodeSets
  <2>2. SumFunctionOnSet(TimeAt(b), PlacesWith(b, j - 1, l, k)) \in Int
    <3>1. j - 1 \in 0..Len(b)
      BY DEF IsBatch
    <3>2. PlacesWith(b, j - 1, l, k) \subseteq PlacesTo(b, j - 1)
      BY DEF PlacesWith, Fibre
    <3>3. IsFiniteSet(PlacesWith(b, j - 1, l, k))
      BY <3>1, <3>2, PlacesAre, FS_Subset
    <3>4. \A x \in PlacesWith(b, j - 1, l, k) : TimeAt(b)[x] \in Int
      BY <3>1, <3>2, PlacesAre, TimesAre
    <3> QED
      BY <3>3, <3>4, SumInt
  <2>3. SameAt(b, j, TimeAt(b), SelfOf(p))
    BY SameTimes DEF p
  <2> QED
    BY <2>1, <2>2, <2>3, SumMoreWith DEF p
<1>8. ASSUME NEW k, k \notin DOMAIN d
      PROVE  SumFunctionOnSet(TimeAt(b), PlacesWith(b, j - 1, l, k)) = 0
  <2>1. PlacesWith(b, j - 1, l, k) = {}
    BY <1>3, <1>8 DEF PlacesWith, Fibre
  <2> QED
    BY <2>1, SumEmpty
<1>9. ASSUME NEW k, k \notin DOMAIN e
      PROVE  SumOf(SelfOf(p), NodesWith(p, l, k) \cap Nodes(p)) = 0
  <2>1. NodesWith(p, l, k) \cap Nodes(p) = {}
    BY <1>3, <1>9 DEF NodesWith, Nodes
  <2> QED
    BY <2>1, SumOfNone
<1>10. ASSUME NEW k, NEW n \in NodesWith(p, l, k) \cap Nodes(p)
       PROVE  <<j, n>> \in PlacesWith(b, j, l, k) /\ FrameOf(b, <<j, n>>) = p.frame[n]
  BY <1>2, <1>10 DEF PlacesWith, Fibre, NodesWith
<1>11. ASSUME NEW k \in DOMAIN d
       PROVE  /\ IsEntity(d[k])
              /\ d[k].self = SumFunctionOnSet(TimeAt(b), PlacesWith(b, j - 1, l, k))
              /\ \E x \in PlacesWith(b, j, l, k) : d[k].package = Package(FrameOf(b, x))
              /\ \E x \in PlacesWith(b, j, l, k) : d[k].file = FileKey(FrameOf(b, x))
  BY <1>2 DEF EntitiesTo
<1>12. ASSUME NEW k \in DOMAIN e
       PROVE  /\ IsEntity(e[k])
              /\ e[k].self = SumOf(SelfOf(p), NodesWith(p, l, k) \cap Nodes(p))
              /\ \E x \in PlacesWith(b, j, l, k) : e[k].package = Package(FrameOf(b, x))
              /\ \E x \in PlacesWith(b, j, l, k) : e[k].file = FileKey(FrameOf(b, x))
  <2>1. /\ IsEntity(e[k])
        /\ e[k].self = SumOf(SelfOf(p), NodesWith(p, l, k) \cap Nodes(p))
        /\ \E n \in NodesWith(p, l, k) \cap Nodes(p) : e[k].package = Package(p.frame[n])
        /\ \E n \in NodesWith(p, l, k) \cap Nodes(p) : e[k].file = FileKey(p.frame[n])
    BY DEF EntitiesOf, p
  <2>2. PICK n \in NodesWith(p, l, k) \cap Nodes(p) : e[k].package = Package(p.frame[n])
    BY <2>1
  <2>3. PICK o \in NodesWith(p, l, k) \cap Nodes(p) : e[k].file = FileKey(p.frame[o])
    BY <2>1
  <2>4. \E x \in PlacesWith(b, j, l, k) : e[k].package = Package(FrameOf(b, x))
    <3>1. <<j, n>> \in PlacesWith(b, j, l, k) /\ FrameOf(b, <<j, n>>) = p.frame[n]
      BY <1>10
    <3> QED
      BY <2>2, <3>1
  <2>5. \E x \in PlacesWith(b, j, l, k) : e[k].file = FileKey(FrameOf(b, x))
    <3>1. <<j, o>> \in PlacesWith(b, j, l, k) /\ FrameOf(b, <<j, o>>) = p.frame[o]
      BY <1>10
    <3> QED
      BY <2>3, <3>1
  <2> QED
    BY <2>1, <2>4, <2>5
<1>13. ASSUME NEW k \in DOMAIN r
       PROVE  /\ IsEntity(r[k])
              /\ r[k].self = SumFunctionOnSet(TimeAt(b), PlacesWith(b, j, l, k))
              /\ \E x \in PlacesWith(b, j, l, k) : r[k].package = Package(FrameOf(b, x))
              /\ \E x \in PlacesWith(b, j, l, k) : r[k].file = FileKey(FrameOf(b, x))
  <2> DEFINE all == SumFunctionOnSet(TimeAt(b), PlacesWith(b, j, l, k))
             old == SumFunctionOnSet(TimeAt(b), PlacesWith(b, j - 1, l, k))
             new == SumOf(SelfOf(p), NodesWith(p, l, k) \cap Nodes(p))
  <2>a. all = old + new /\ old \in Int /\ new \in Int
    BY <1>6
  <2>b. k \notin DOMAIN d => old = 0
    BY <1>8
  <2>c. k \notin DOMAIN e => new = 0
    BY <1>9
  <2>d. k \in DOMAIN d => d[k].self = old
    BY <1>11
  <2>e. k \in DOMAIN e => e[k].self = new
    BY <1>12
  <2> HIDE DEF old, new
  <2>1. CASE k \notin DOMAIN d
    <3>1. k \in DOMAIN e /\ r[k] = e[k]
      BY <1>4, <2>1
    <3>2. r[k].self = SumFunctionOnSet(TimeAt(b), PlacesWith(b, j, l, k))
      BY <2>a, <2>b, <2>e, <2>1, <3>1
    <3> QED
      BY <1>12, <3>1, <3>2
  <2>2. CASE k \in DOMAIN d /\ k \notin DOMAIN e
    <3>1. r[k] = d[k]
      BY <1>4, <2>2
    <3>2. r[k].self = SumFunctionOnSet(TimeAt(b), PlacesWith(b, j, l, k))
      BY <2>a, <2>c, <2>d, <2>2, <3>1
    <3> QED
      BY <1>11, <2>2, <3>1, <3>2
  <2>3. CASE k \in DOMAIN d /\ k \in DOMAIN e
    <3>1. r[k] = Increased(d[k], e[k].self, e[k].total)
      BY <1>4, <2>3
    <3>2. IsEntity(r[k]) /\ r[k].self = d[k].self + e[k].self /\ r[k].package = d[k].package
          /\ r[k].file = d[k].file
      BY <1>11, <2>3, <3>1, EntityIncreased
    <3>3. r[k].self = SumFunctionOnSet(TimeAt(b), PlacesWith(b, j, l, k))
      BY <2>a, <2>d, <2>e, <2>3, <3>2
    <3> QED
      BY <1>11, <2>3, <3>2, <3>3
  <2> QED
    BY <2>1, <2>2, <2>3
<1> QED
  BY <1>5, <1>13 DEF EntitiesTo

ContextsTo(sums, b, j, l) ==
  /\ \A z \in DOMAIN sums : \E x \in PlacesTo(b, j) : z = <<z[1], KeysAt(b, l)[x]>>
  /\ \A c, k : CountOf(sums, <<c, k>>) = SumFunctionOnSet(LabelAt(b, c), PlacesWith(b, j, l, k))

LEMMA ContextsMerged ==
  ASSUME NEW b, IsBatch(b), NEW j \in 1..Len(b), NEW l, NEW d, ContextsTo(d, b, j - 1, l),
         NEW e, ContextsBy(e, b[j], l, Nodes(b[j])), NEW r, r = AddSums(d, e)
  PROVE  ContextsTo(r, b, j, l)
<1> DEFINE p == b[j]
<1>1. /\ \A n \in Nodes(p) : /\ <<j, n>> \in PlacesTo(b, j)
                             /\ KeysAt(b, l)[<<j, n>>] = KeyAt(p.frame[n], l)
      /\ PlacesTo(b, j - 1) \subseteq PlacesTo(b, j)
  BY KeysMore
<1>2. DOMAIN r = DOMAIN d \cup DOMAIN e
  BY DEF AddSums
<1>3. \A z \in DOMAIN d : \E x \in PlacesTo(b, j) : z = <<z[1], KeysAt(b, l)[x]>>
  BY <1>1 DEF ContextsTo
<1>4. ASSUME NEW z \in DOMAIN e PROVE \E x \in PlacesTo(b, j) : z = <<z[1], KeysAt(b, l)[x]>>
  <2>1. PICK c \in DOMAIN Begun(p).contexts, n \in Nodes(p) : z = <<c, KeyAt(p.frame[n], l)>>
    BY DEF ContextsBy
  <2> HIDE DEF p
  <2>2. z = <<z[1], KeysAt(b, l)[<<j, n>>]>> /\ <<j, n>> \in PlacesTo(b, j)
    BY <1>1, <2>1
  <2> QED
    BY <2>2
<1>5. ASSUME NEW c, NEW k
      PROVE  CountOf(r, <<c, k>>) = SumFunctionOnSet(LabelAt(b, c), PlacesWith(b, j, l, k))
  <2>1. CountOf(r, <<c, k>>) = CountOf(d, <<c, k>>) + CountOf(e, <<c, k>>)
    BY CountOfSum
  <2>2. CountOf(d, <<c, k>>) = SumFunctionOnSet(LabelAt(b, c), PlacesWith(b, j - 1, l, k))
    BY DEF ContextsTo
  <2>3. CountOf(e, <<c, k>>) = SumOf(OfLabel(p, c), NodesWith(p, l, k) \cap Nodes(p))
    BY DEF ContextsBy
  <2>4. SameAt(b, j, LabelAt(b, c), OfLabel(p, c))
    BY SameTimes
  <2>5. SumFunctionOnSet(LabelAt(b, c), PlacesWith(b, j, l, k))
          = SumFunctionOnSet(LabelAt(b, c), PlacesWith(b, j - 1, l, k))
            + SumOf(OfLabel(p, c), NodesWith(p, l, k) \cap Nodes(p))
    BY <2>4, SumMoreWith
  <2> QED
    BY <2>1, <2>2, <2>3, <2>5
<1> QED
  BY <1>2, <1>3, <1>4, <1>5 DEF ContextsTo

(* A context has the time under its label, none if there is no such. *)
LEMMA ContextWhole ==
  ASSUME NEW p, IsProfile(p), NEW c
  PROVE  CountOf(Begun(p).contexts, c) = SumOf(OfLabel(p, c), Nodes(p))
<1> DEFINE labels == UNION {DOMAIN ContextSelf(p, n) : n \in DOMAIN p.frame}
<1>1. Begun(p).contexts = [x \in labels |-> SumOf(OfLabel(p, x), DOMAIN p.frame)]
  BY DEF Begun
<1>2. CASE c \in labels
  <2> HIDE DEF labels
  <2> QED
    BY <1>1, <1>2 DEF CountOf, Nodes
<1>3. CASE c \notin labels
  <2>1. CountOf(Begun(p).contexts, c) = 0
    <3> HIDE DEF labels
    <3> QED
      BY <1>1, <1>3 DEF CountOf
  <2>2. \A n \in Nodes(p) : c \notin DOMAIN ContextSelf(p, n)
    BY <1>3 DEF Nodes
  <2>3. \A n \in Nodes(p) : CountOf(OfLabel(p, c), n) = 0
    <3>1. \A n \in Nodes(p) : CountOf(OfLabel(p, c), n) = CountOf(ContextSelf(p, n), c)
      BY LabelIsInt
    <3> QED
      BY <2>2, <3>1 DEF CountOf
  <2> DEFINE f == [n \in Nodes(p) |-> CountOf(OfLabel(p, c), n)]
  <2>4. \A n \in Nodes(p) : f[n] = 0
    BY <2>3
  <2>5. SumOf(OfLabel(p, c), Nodes(p)) = SumFunctionOnSet(f, Nodes(p))
    BY DEF SumOf
  <2> HIDE DEF f
  <2>6. IsFiniteSet(Nodes(p))
    BY ProfileIs
  <2>7. SumFunctionOnSet(f, Nodes(p)) = SumFunctionOnSet(f, {})
    <3>1. {} \subseteq Nodes(p) /\ (\A x \in {} : f[x] \in Int) /\ \A x \in Nodes(p) \ {} : f[x] = 0
      BY <2>4
    <3> QED
      BY <2>6, <3>1, SumZeros
  <2> QED
    BY <2>1, <2>5, <2>7, SumEmpty
<1> QED
  BY <1>2, <1>3

(* What is merged of the first j profiles is the time at all their nodes. *)
MergeTo(m, b, j) ==
  /\ \A l \in Levels : EntitiesTo(m.entities[l], b, j, l)
  /\ m.overall = SumFunctionOnSet(TimeAt(b), PlacesTo(b, j)) /\ m.profiles = j
  /\ \A c : CountOf(m.contexts, c) = SumFunctionOnSet(LabelAt(b, c), PlacesTo(b, j))
  /\ ContextsTo(m.ctxPackages, b, j, "package")
  /\ ContextsTo(m.ctxFiles, b, j, "file")

LEMMA MergeToNone ==
  ASSUME NEW b
  PROVE  MergeTo(NoAggregation, b, 0)
<1>1. PlacesTo(b, 0) = {} /\ \A l, k : PlacesWith(b, 0, l, k) = {}
  BY NoneTo
<1>2. DOMAIN NoSums = {} /\ \A k : CountOf(NoSums, k) = 0
  BY DEF NoSums, CountOf
<1>3. /\ NoAggregation.entities = [l \in Levels |-> NoSums] /\ NoAggregation.overall = 0
      /\ NoAggregation.profiles = 0 /\ NoAggregation.contexts = NoSums
      /\ NoAggregation.ctxPackages = NoSums /\ NoAggregation.ctxFiles = NoSums
  BY DEF NoAggregation
<1>4. \A l : EntitiesTo(NoSums, b, 0, l)
  BY <1>1, <1>2 DEF EntitiesTo
<1>5. \A l : ContextsTo(NoSums, b, 0, l)
  BY <1>1, <1>2, SumEmpty DEF ContextsTo
<1> QED
  BY <1>1, <1>2, <1>3, <1>4, <1>5, SumEmpty DEF MergeTo

Merge2Parts(r, m, a) ==
  /\ r.entities = [l \in Levels |-> MergeEntities(m.entities[l], a.entities[l])]
  /\ r.contexts = AddSums(m.contexts, a.contexts)
  /\ r.ctxPackages = AddSums(m.ctxPackages, a.ctxPackages)
  /\ r.ctxFiles = AddSums(m.ctxFiles, a.ctxFiles)
  /\ r.overall = m.overall + a.overall
  /\ r.profiles = m.profiles + a.profiles

LEMMA Merge2Is ==
  ASSUME NEW m, NEW a
  PROVE  Merge2Parts(Merge2(m, a), m, a)
BY DEF Merge2, Merge2Parts

LEMMA MergeToMore ==
  ASSUME NEW b, IsBatch(b), NEW j \in 1..Len(b), NEW m, MergeTo(m, b, j - 1),
         NEW a, CountsOf(a, b[j], Nodes(b[j])), NEW r, r = Merge2(m, a)
  PROVE  MergeTo(r, b, j)
<1>1. Merge2Parts(r, m, a)
  BY Merge2Is
<1>2. ASSUME NEW l \in Levels PROVE EntitiesTo(r.entities[l], b, j, l)
  <2>1. r.entities[l] = MergeEntities(m.entities[l], a.entities[l])
    BY <1>1 DEF Merge2Parts
  <2>2. EntitiesTo(m.entities[l], b, j - 1, l)
    BY DEF MergeTo
  <2>3. EntitiesOf(a.entities[l], b[j], l, Nodes(b[j]))
    BY DEF CountsOf
  <2> QED
    BY <2>1, <2>2, <2>3, EntitiesMerged
<1>3. ContextsTo(r.ctxPackages, b, j, "package")
  <2>1. r.ctxPackages = AddSums(m.ctxPackages, a.ctxPackages)
    BY <1>1 DEF Merge2Parts
  <2>2. ContextsTo(m.ctxPackages, b, j - 1, "package")
    BY DEF MergeTo
  <2>3. ContextsBy(a.ctxPackages, b[j], "package", Nodes(b[j]))
    BY DEF CountsOf
  <2> QED
    BY <2>1, <2>2, <2>3, ContextsMerged
<1>4. ContextsTo(r.ctxFiles, b, j, "file")
  <2>1. r.ctxFiles = AddSums(m.ctxFiles, a.ctxFiles)
    BY <1>1 DEF Merge2Parts
  <2>2. ContextsTo(m.ctxFiles, b, j - 1, "file")
    BY DEF MergeTo
  <2>3. ContextsBy(a.ctxFiles, b[j], "file", Nodes(b[j]))
    BY DEF CountsOf
  <2> QED
    BY <2>1, <2>2, <2>3, ContextsMerged
<1>5. IsProfile(b[j]) /\ j \in Nat
  BY DEF IsBatch
<1>6. r.profiles = j
  <2>1. r.profiles = (j - 1) + 1
    BY <1>1 DEF Merge2Parts, MergeTo, CountsOf
  <2> QED
    BY <1>5, <2>1
<1>7. r.overall = SumFunctionOnSet(TimeAt(b), PlacesTo(b, j))
  <2>1. r.overall = SumFunctionOnSet(TimeAt(b), PlacesTo(b, j - 1)) + Whole(SelfOf(b[j]))
    BY <1>1 DEF Merge2Parts, MergeTo, CountsOf
  <2>2. Whole(SelfOf(b[j])) = SumOf(SelfOf(b[j]), Nodes(b[j]))
    <3>1. DOMAIN SelfOf(b[j]) = Nodes(b[j])
      BY <1>5, SelfIsInt
    <3> QED
      BY <3>1 DEF Whole
  <2>3. SameAt(b, j, TimeAt(b), SelfOf(b[j]))
    BY SameTimes
  <2>4. SumFunctionOnSet(TimeAt(b), PlacesTo(b, j))
          = SumFunctionOnSet(TimeAt(b), PlacesTo(b, j - 1)) + SumOf(SelfOf(b[j]), Nodes(b[j]))
    BY <2>3, SumMoreWith
  <2> QED
    BY <2>1, <2>2, <2>4
<1>8. ASSUME NEW c
      PROVE  CountOf(r.contexts, c) = SumFunctionOnSet(LabelAt(b, c), PlacesTo(b, j))
  <2>1. r.contexts = AddSums(m.contexts, a.contexts)
    BY <1>1 DEF Merge2Parts
  <2>2. CountOf(r.contexts, c) = CountOf(m.contexts, c) + CountOf(a.contexts, c)
    BY <2>1, CountOfSum
  <2>3. CountOf(m.contexts, c) = SumFunctionOnSet(LabelAt(b, c), PlacesTo(b, j - 1))
    BY DEF MergeTo
  <2>4. a.contexts = Begun(b[j]).contexts
    BY DEF CountsOf
  <2>5. CountOf(a.contexts, c) = SumOf(OfLabel(b[j], c), Nodes(b[j]))
    BY <1>5, <2>4, ContextWhole
  <2>6. SameAt(b, j, LabelAt(b, c), OfLabel(b[j], c))
    BY SameTimes
  <2>7. SumFunctionOnSet(LabelAt(b, c), PlacesTo(b, j))
          = SumFunctionOnSet(LabelAt(b, c), PlacesTo(b, j - 1)) + SumOf(OfLabel(b[j], c), Nodes(b[j]))
    BY <2>6, SumMoreWith
  <2> QED
    BY <2>2, <2>3, <2>5, <2>7
<1> QED
  BY <1>2, <1>3, <1>4, <1>6, <1>7, <1>8 DEF MergeTo

(* And so what is merged of all. *)
LEMMA MergeToAll ==
  ASSUME NEW b, IsBatch(b), NEW s, Len(s) = Len(b), DOMAIN s = 1..Len(s),
         \A i \in 1..Len(b) : CountsOf(s[i], b[i], Nodes(b[i]))
  PROVE  MergeTo(MergeAggregations(s), b, Len(b))
<1> DEFINE n == Len(b)
<1>1. n \in Nat
  BY DEF IsBatch
<1>2. PICK m : IsMergeOf(m, s) /\ MergeAggregations(s) = m[Len(s)]
  BY <1>1, MergedInTurn
<1> DEFINE B == {j \in 0..n : ~MergeTo(m[j], b, j)}
<1>3. B = {}
  <2> SUFFICES ASSUME B # {} PROVE FALSE
    OBVIOUS
  <2>1. B \subseteq Nat
    BY <1>1
  <2>2. PICK j \in B : \A i \in B : j <= i
    <3> HIDE DEF B
    <3> QED
      BY <2>1, LeastOfNaturals
  <2>3. j \in 0..n /\ ~MergeTo(m[j], b, j)
    OBVIOUS
  <2>4. CASE j = 0
    BY <1>2, <2>3, <2>4, MergeToNone DEF IsMergeOf
  <2>5. CASE j # 0
    <3>1. j \in 1..n /\ j - 1 \in 0..n /\ ~(j <= j - 1)
      BY <1>1, <2>3, <2>5
    <3>2. MergeTo(m[j - 1], b, j - 1)
      BY <2>2, <3>1
    <3>3. m[j] = Merge2(m[j - 1], s[j])
      BY <1>2, <3>1 DEF IsMergeOf
    <3>4. CountsOf(s[j], b[j], Nodes(b[j]))
      BY <3>1
    <3>5. MergeTo(m[j], b, j)
      BY <3>1, <3>2, <3>3, <3>4, MergeToMore
    <3> QED
      BY <2>3, <3>5
  <2> QED
    BY <2>4, <2>5
<1>4. n \in 0..n
  BY <1>1
<1>5. MergeTo(m[n], b, n)
  BY <1>3, <1>4
<1> QED
  BY <1>2, <1>5

-----------------------------------------------------------------------------
(* How the merge of all shares time out *)
AllOf(b) == PlacesTo(b, Len(b))

LEMMA AllAre ==
  ASSUME NEW b, IsBatch(b)
  PROVE  /\ IsFiniteSet(AllOf(b))
         /\ \A x \in AllOf(b) : TimeAt(b)[x] \in Int /\ \A c : LabelAt(b, c)[x] \in Int
         /\ \A l : \A x \in AllOf(b) : KeysAt(b, l)[x] = KeyAt(FrameOf(b, x), l)
         /\ \A l, k : PlacesWith(b, Len(b), l, k) = Fibre(AllOf(b), KeysAt(b, l), k)
<1>1. Len(b) \in 0..Len(b)
  BY DEF IsBatch
<1>2. IsFiniteSet(AllOf(b))
  BY <1>1, PlacesAre DEF AllOf
<1>3. \A x \in AllOf(b) : TimeAt(b)[x] \in Int /\ \A c : LabelAt(b, c)[x] \in Int
  BY TimesAre DEF AllOf
<1>4. \A l : \A x \in AllOf(b) : KeysAt(b, l)[x] = KeyAt(FrameOf(b, x), l)
  BY DEF KeysAt, AllOf
<1> QED
  BY <1>2, <1>3, <1>4 DEF PlacesWith, AllOf

SelfsOf(entities, keys) == SumFunctionOnSet([k \in keys |-> entities[k].self], keys)

(* Entities have the time of the places with their keys. *)
LEMMA SelfsAreTimes ==
  ASSUME NEW b, IsBatch(b), NEW l, NEW e, EntitiesTo(e, b, Len(b), l),
         NEW K, K \subseteq DOMAIN e, NEW T, T = {x \in AllOf(b) : KeysAt(b, l)[x] \in K}
  PROVE  SelfsOf(e, K) = SumFunctionOnSet(TimeAt(b), T)
<1> DEFINE g == [k \in K |-> e[k].self]
           key == KeysAt(b, l)
           S == AllOf(b)
           f == TimeAt(b)
<1>1. IsFiniteSet(S) /\ \A x \in S : f[x] \in Int
  BY AllAre
<1>2. DOMAIN e = {key[x] : x \in S}
  BY DEF EntitiesTo, AllOf
<1>3. IsFiniteSet(K)
  <2> HIDE DEF S, key
  <2>1. IsFiniteSet(DOMAIN e)
    BY <1>1, <1>2, FiniteImage
  <2> QED
    BY <2>1, FS_Subset
<1>4. \A k \in K : g[k] = SumFunctionOnSet(f, Fibre(S, key, k))
  <2>1. \A k \in K : e[k].self = SumFunctionOnSet(f, PlacesWith(b, Len(b), l, k))
    BY DEF EntitiesTo
  <2>2. \A k : PlacesWith(b, Len(b), l, k) = Fibre(S, key, k)
    BY AllAre
  <2> QED
    BY <2>1, <2>2
<1>5. SelfsOf(e, K) = SumFunctionOnSet(g, K)
  BY DEF SelfsOf
<1>6. T = {x \in S : key[x] \in K}
  OBVIOUS
<1> HIDE DEF g, key, S, f
<1>7. SumsBy(g, K, f, S, key)
  BY <1>4 DEF SumsBy
<1>8. SumFunctionOnSet(g, K) = SumFunctionOnSet(f, T)
  BY <1>1, <1>3, <1>6, <1>7, SumOfSomeFibres
<1> QED
  BY <1>5, <1>8 DEF f

(* All of a level have the whole time. *)
LEMMA SelfsOfAll ==
  ASSUME NEW b, IsBatch(b), NEW l, NEW e, EntitiesTo(e, b, Len(b), l)
  PROVE  SelfsOf(e, DOMAIN e) = SumFunctionOnSet(TimeAt(b), AllOf(b))
<1>1. DOMAIN e = {KeysAt(b, l)[x] : x \in AllOf(b)}
  BY DEF EntitiesTo, AllOf
<1>2. AllOf(b) = {x \in AllOf(b) : KeysAt(b, l)[x] \in DOMAIN e}
  BY <1>1
<1> QED
  BY <1>2, SelfsAreTimes

(* Those of level l that go with k of level u: all its time, where what     *)
(* goes with them can be told from their keys.                             *)
GoWith(b, l, e, u, k, K) ==
  /\ K \subseteq DOMAIN e
  /\ \A x \in AllOf(b) : KeysAt(b, l)[x] \in K <=> KeysAt(b, u)[x] = k

LEMMA SelfsShared ==
  ASSUME NEW b, IsBatch(b), NEW l, NEW e, EntitiesTo(e, b, Len(b), l),
         NEW u, NEW d, EntitiesTo(d, b, Len(b), u), NEW k \in DOMAIN d,
         NEW K, GoWith(b, l, e, u, k, K)
  PROVE  d[k].self = SelfsOf(e, K)
<1> DEFINE T == {x \in AllOf(b) : KeysAt(b, l)[x] \in K}
<1>1. K \subseteq DOMAIN e /\ \A x \in AllOf(b) : KeysAt(b, l)[x] \in K <=> KeysAt(b, u)[x] = k
  BY DEF GoWith
<1>2. T = Fibre(AllOf(b), KeysAt(b, u), k)
  BY <1>1 DEF Fibre
<1>3. d[k].self = SumFunctionOnSet(TimeAt(b), PlacesWith(b, Len(b), u, k))
  BY DEF EntitiesTo
<1>4. PlacesWith(b, Len(b), u, k) = Fibre(AllOf(b), KeysAt(b, u), k)
  BY AllAre
<1>5. SelfsOf(e, K) = SumFunctionOnSet(TimeAt(b), T)
  BY <1>1, SelfsAreTimes
<1> QED
  BY <1>2, <1>3, <1>4, <1>5

(* What an entity says of itself, a place with its key says. *)
LEMMA EntitySays ==
  ASSUME NEW b, IsBatch(b), NEW l, NEW e, EntitiesTo(e, b, Len(b), l), NEW x \in AllOf(b)
  PROVE  /\ KeysAt(b, l)[x] \in DOMAIN e
         /\ \E y \in AllOf(b) : /\ KeyAt(FrameOf(b, y), l) = KeyAt(FrameOf(b, x), l)
                                /\ e[KeysAt(b, l)[x]].package = Package(FrameOf(b, y))
         /\ \E y \in AllOf(b) : /\ KeyAt(FrameOf(b, y), l) = KeyAt(FrameOf(b, x), l)
                                /\ e[KeysAt(b, l)[x]].file = FileKey(FrameOf(b, y))
<1> DEFINE k == KeysAt(b, l)[x]
<1>1. k \in DOMAIN e
  BY DEF EntitiesTo, AllOf
<1>2. PlacesWith(b, Len(b), l, k) = Fibre(AllOf(b), KeysAt(b, l), k)
  BY AllAre
<1>3. \A y \in AllOf(b) : KeysAt(b, l)[y] = KeyAt(FrameOf(b, y), l)
  BY AllAre
<1>4. \A y \in Fibre(AllOf(b), KeysAt(b, l), k) :
        y \in AllOf(b) /\ KeyAt(FrameOf(b, y), l) = KeyAt(FrameOf(b, x), l)
  BY <1>3 DEF Fibre
<1>5. /\ \E y \in PlacesWith(b, Len(b), l, k) : e[k].package = Package(FrameOf(b, y))
      /\ \E y \in PlacesWith(b, Len(b), l, k) : e[k].file = FileKey(FrameOf(b, y))
  BY <1>1 DEF EntitiesTo
<1> QED
  BY <1>1, <1>2, <1>4, <1>5

LEMMA FunctionSays ==
  ASSUME NEW f, NEW g, FnKey(f) = FnKey(g), f.url = g.url
  PROVE  Package(f) = Package(g) /\ FileKey(f) = FileKey(g)
<1>1. f.name = g.name
  BY DEF FnKey
<1>2. Kind(f) = Kind(g) /\ FileKey(f) = FileKey(g)
  BY DEF Kind, FileKey
<1> QED
  BY <1>1, <1>2 DEF Package

LEMMA FileSays ==
  ASSUME NEW f, NEW g, f.url \in Urls \cup {""}, g.url \in Urls \cup {""},
         FileKey(f) = FileKey(g), FileKey(f) # "(native)"
  PROVE  Package(f) = Package(g)
<1>1. f.url = g.url /\ f.url \in Urls
  BY DEF FileKey
<1>2. Kind(f) = Kind(g) /\ Kind(f) \in {"npm", "app", "builtin", "eval"} /\ f.url # ""
  BY <1>1, FrameAssumption DEF Kind
<1> QED
  BY <1>1, <1>2 DEF Package

(* The time of a context is that of its keys. *)
LEMMA ContextShared ==
  ASSUME NEW b, IsBatch(b), NEW l, NEW sums, ContextsTo(sums, b, Len(b), l), NEW c
  PROVE  SumOf(sums, {z \in DOMAIN sums : z[1] = c}) = SumFunctionOnSet(LabelAt(b, c), AllOf(b))
<1> DEFINE S == AllOf(b)
           key == KeysAt(b, l)
           f == LabelAt(b, c)
           K == {key[x] : x \in S}
           g == [k \in K |-> CountOf(sums, <<c, k>>)]
           name == [k \in K |-> <<c, k>>]
           W == {name[k] : k \in K}
           h == [z \in W |-> CountOf(sums, z)]
           Z == {z \in DOMAIN sums : z[1] = c}
           o == [z \in Z |-> CountOf(sums, z)]
<1>1. IsFiniteSet(S) /\ \A x \in S : f[x] \in Int
  BY AllAre
<1>2. \A k : CountOf(sums, <<c, k>>) = SumFunctionOnSet(f, Fibre(S, key, k))
  BY AllAre DEF ContextsTo
<1>3. \A k \in K : g[k] = SumFunctionOnSet(f, Fibre(S, key, k))
  BY <1>2
<1>4. \A k \in K : h[name[k]] = g[k]
  OBVIOUS
<1>5. \A j, k \in K : name[j] = name[k] => j = k
  OBVIOUS
<1>6. Z \subseteq W
  <2> SUFFICES ASSUME NEW z \in DOMAIN sums, z[1] = c PROVE z \in W
    OBVIOUS
  <2>1. PICK x \in S : z = <<z[1], key[x]>>
    BY DEF ContextsTo, AllOf
  <2>2. z = <<c, key[x]>>
    BY <2>1
  <2>3. z = name[key[x]] /\ key[x] \in K
    BY <2>2
  <2> HIDE DEF name, K
  <2> QED
    BY <2>3
<1>7. \A z \in W \ Z : h[z] = 0
  <2> SUFFICES ASSUME NEW z \in W, z \notin Z PROVE h[z] = 0
    OBVIOUS
  <2>1. PICK k \in K : z = <<c, k>>
    OBVIOUS
  <2>2. z \notin DOMAIN sums
    BY <2>1
  <2> QED
    BY <2>2 DEF CountOf
<1>8. \A z \in Z : h[z] = o[z]
  BY <1>6
<1>9. SumOf(sums, Z) = SumFunctionOnSet(o, Z)
  BY DEF SumOf
<1>10. \A x \in S : key[x] \in K
  OBVIOUS
<1>11. IsFiniteSet(K)
  <2> HIDE DEF S, key
  <2> QED
    BY <1>1, FiniteImage
<1>12. W = {name[k] : k \in K}
  OBVIOUS
<1> HIDE DEF g, name, h, o, W, Z, S, key, f, K
<1>13. IsFiniteSet(W)
  BY <1>11, <1>12, FiniteImage
<1>14. \A k \in K : g[k] \in Int
  <2> SUFFICES ASSUME NEW k \in K PROVE g[k] \in Int
    OBVIOUS
  <2>1. Fibre(S, key, k) \subseteq S
    BY DEF Fibre
  <2>2. IsFiniteSet(Fibre(S, key, k)) /\ \A x \in Fibre(S, key, k) : f[x] \in Int
    BY <1>1, <2>1, FS_Subset
  <2> QED
    BY <1>3, <2>2, SumInt
<1>15. SumFunctionOnSet(g, K) = SumFunctionOnSet(f, S)
  <2>1. SumsBy(g, K, f, S, key)
    BY <1>3 DEF SumsBy
  <2> QED
    BY <1>1, <1>10, <1>11, <2>1, SumOfFibres
<1>16. SumFunctionOnSet(h, W) = SumFunctionOnSet(g, K)
  BY <1>4, <1>5, <1>11, <1>12, <1>14, SumRenamed
<1>17. \A z \in W : h[z] \in Int
  BY <1>4, <1>12, <1>14
<1>18. SumFunctionOnSet(h, W) = SumFunctionOnSet(h, Z)
  <2>1. \A x \in Z : h[x] \in Int
    BY <1>6, <1>17
  <2> QED
    BY <1>6, <1>7, <1>13, <2>1, SumZeros
<1>19. SumFunctionOnSet(h, Z) = SumFunctionOnSet(o, Z)
  <2>1. IsFiniteSet(Z)
    BY <1>6, <1>13, FS_Subset
  <2>2. \A z \in Z : o[z] \in Int /\ h[z] = o[z]
    BY <1>6, <1>8, <1>17
  <2> QED
    BY <2>1, <2>2, SumSame
<1> QED
  BY <1>9, <1>15, <1>16, <1>18, <1>19 DEF Z, S, f

(* The time at all places is that of all profiles. *)
LEMMA ProfilesShare ==
  ASSUME NEW b, IsBatch(b), NEW whole, \A i \in 1..Len(b) : whole[i] = Whole(SelfOf(b[i]))
  PROVE  SumFunctionOnSet(whole, 1..Len(b)) = SumFunctionOnSet(TimeAt(b), AllOf(b))
<1> DEFINE S == AllOf(b)
           K == 1..Len(b)
           key == [x \in S |-> x[1]]
           f == TimeAt(b)
<1>1. IsFiniteSet(S) /\ \A x \in S : f[x] \in Int
  BY AllAre
<1>2. Len(b) \in Nat /\ Len(b) \in 0..Len(b)
  BY DEF IsBatch
<1>3. /\ \A x \in S : x = <<x[1], x[2]>> /\ x[1] \in K /\ x[2] \in Nodes(b[x[1]])
      /\ \A i \in K : \A n \in Nodes(b[i]) : <<i, n>> \in S
  BY <1>2, PlacesAre DEF AllOf
<1>4. IsFiniteSet(K)
  <2>1. 1 \in Int /\ Len(b) \in Int
    BY <1>2
  <2> QED
    BY <2>1, FS_Interval
<1>5. \A x \in S : key[x] = x[1]
  OBVIOUS
<1> HIDE DEF S, K, key, f
<1>6. \A x \in S : key[x] \in K
  BY <1>3, <1>5
<1>7. ASSUME NEW i \in K PROVE whole[i] = SumFunctionOnSet(f, Fibre(S, key, i))
  <2>1. PICK N : N = Nodes(b[i])
    OBVIOUS
  <2>2. IsProfile(b[i])
    BY DEF IsBatch, K
  <2>3. Fibre(S, key, i) = {} \cup ({i} \X N)
    <3>1. ASSUME NEW x PROVE x \in Fibre(S, key, i) <=> x \in {i} \X N
      <4>1. CASE x \in S
        BY <1>3, <1>5, <2>1, <4>1 DEF Fibre
      <4>2. CASE x \notin S
        BY <1>3, <2>1, <4>2 DEF Fibre
      <4> QED
        BY <4>1, <4>2
    <3> QED
      BY <3>1
  <2>4. \A n \in N : CountOf(SelfOf(b[i]), n) = f[<<i, n>>]
    <3>1. \A n \in Nodes(b[i]) : CountOf(SelfOf(b[i]), n) = SelfOf(b[i])[n]
      BY <2>2, SelfIsInt DEF CountOf
    <3>2. \A n \in Nodes(b[i]) : f[<<i, n>>] = SelfOf(b[i])[n]
      BY <1>3 DEF f, TimeAt, S, AllOf
    <3> QED
      BY <2>1, <3>1, <3>2
  <2>5. PICK U : U = Fibre(S, key, i)
    OBVIOUS
  <2>6. PICK g : g = SelfOf(b[i])
    OBVIOUS
  <2>7. MorePlaces({}, i, N, U, f, g)
    <3>1. IsFiniteSet({})
      BY FS_EmptySet
    <3>2. IsFiniteSet(N)
      BY <2>1, <2>2, ProfileIs
    <3>3. \A x \in U : f[x] \in Int
      BY <1>1, <2>5 DEF Fibre
    <3> QED
      BY <2>3, <2>4, <2>5, <2>6, <3>1, <3>2, <3>3 DEF MorePlaces
  <2>8. SumFunctionOnSet(f, U) = SumFunctionOnSet(f, {}) + SumOf(g, N)
    BY <2>7, SumOfMorePlaces
  <2>9. SumOf(g, N) \in Int
    BY <2>1, <2>2, <2>6, NodeSets
  <2>10. whole[i] = SumOf(g, N)
    <3>1. DOMAIN g = N
      BY <2>1, <2>2, <2>6, SelfIsInt
    <3> QED
      BY <2>6, <3>1 DEF Whole, K
  <2> QED
    BY <2>5, <2>8, <2>9, <2>10, SumEmpty
<1>8. SumsBy(whole, K, f, S, key)
  BY <1>7 DEF SumsBy
<1>9. SumFunctionOnSet(whole, K) = SumFunctionOnSet(f, S)
  BY <1>1, <1>4, <1>6, <1>8, SumOfFibres
<1> QED
  BY <1>9 DEF K, f, S

(* Everything was aggregated. *)
LEMMA DoneMerge ==
  ASSUME TimesInv, Done
  PROVE  /\ IsBatch(batch) /\ batch \in Batches
         /\ MergeTo(MergeAggregations(aggs), batch, Len(batch))
<1>1. batch \in Batches /\ batch \in Seq(ToSet(batch)) /\ aggs \in Seq(ToSet(aggs))
      /\ Len(aggs) = at - 0 /\ at = Len(batch)
  BY BatchAssumption DEF TimesInv, IInv, TypeOK, Done
<1>2. Len(batch) \in Nat /\ Len(aggs) = Len(batch) /\ DOMAIN aggs = 1..Len(aggs)
      /\ DOMAIN batch = 1..Len(batch)
  BY <1>1
<1>3. \A i \in 1..Len(batch) : batch[i] \in ToSet(batch)
  BY <1>2 DEF ToSet
<1>4. IsBatch(batch)
  BY <1>1, <1>2, <1>3 DEF IsBatch, IsProfile
<1>5. \A i \in 1..Len(batch) : CountsOf(aggs[i], batch[i], Nodes(batch[i]))
  BY <1>2 DEF TimesInv, SoFar
<1>6. PICK s : s = aggs
  OBVIOUS
<1>7. PICK b : b = batch
  OBVIOUS
<1>8. MergeTo(MergeAggregations(s), b, Len(b))
  BY <1>2, <1>4, <1>5, <1>6, <1>7, MergeToAll
<1> QED
  BY <1>1, <1>4, <1>6, <1>7, <1>8

LEMMA FramesAre ==
  ASSUME IsBatch(batch), batch \in Batches, NEW x \in AllOf(batch)
  PROVE  /\ FrameOf(batch, x) \in BatchFrames
         /\ FrameOf(batch, x).url \in Urls \cup {""}
<1>1. Len(batch) \in 0..Len(batch)
  BY DEF IsBatch
<1>2. x[1] \in 1..Len(batch) /\ x[2] \in Nodes(batch[x[1]])
  BY <1>1, PlacesAre DEF AllOf
<1>3. batch[x[1]] \in ToSet(batch)
  <2>1. batch \in Seq(ToSet(batch))
    BY BatchAssumption
  <2> QED
    BY <1>2, <2>1 DEF ToSet
<1>4. FrameOf(batch, x) \in BatchFrames
  <2>1. PICK p : p = batch[x[1]]
    OBVIOUS
  <2>2. FrameOf(batch, x) \in {p.frame[n] : n \in DOMAIN p.frame}
    BY <1>2, <2>1 DEF FrameOf, Nodes
  <2>3. {p.frame[n] : n \in DOMAIN p.frame} \subseteq BatchFrames
    BY <1>2, <2>1 DEF BatchFrames
  <2> QED
    BY <2>2, <2>3
<1>5. FrameOf(batch, x).url \in Urls \cup {""}
  BY <1>2, <1>3, UrlAssumption DEF FrameOf, Nodes
<1> QED
  BY <1>4, <1>5

(* Functions go with packages and files where script ids are those of     *)
(* scripts.                                                               *)
LEMMA FunctionsGoWith ==
  ASSUME IsBatch(batch), batch \in Batches, ScriptsAgree,
         NEW e, EntitiesTo(e, batch, Len(batch), "function"), NEW k
  PROVE  /\ GoWith(batch, "function", e, "package", k, {f \in DOMAIN e : e[f].package = k})
         /\ GoWith(batch, "function", e, "file", k, {f \in DOMAIN e : e[f].file = k})
<1> DEFINE key == KeysAt(batch, "function")
<1>1. ASSUME NEW x \in AllOf(batch)
      PROVE  /\ key[x] \in DOMAIN e
             /\ e[key[x]].package = KeysAt(batch, "package")[x]
             /\ e[key[x]].file = KeysAt(batch, "file")[x]
  <2>1. PICK y \in AllOf(batch) :
          /\ KeyAt(FrameOf(batch, y), "function") = KeyAt(FrameOf(batch, x), "function")
          /\ e[key[x]].package = Package(FrameOf(batch, y))
    BY EntitySays
  <2>2. PICK z \in AllOf(batch) :
          /\ KeyAt(FrameOf(batch, z), "function") = KeyAt(FrameOf(batch, x), "function")
          /\ e[key[x]].file = FileKey(FrameOf(batch, z))
    BY EntitySays
  <2>3. key[x] \in DOMAIN e
    BY EntitySays
  <2>4. /\ FnKey(FrameOf(batch, y)) = FnKey(FrameOf(batch, x))
        /\ FnKey(FrameOf(batch, z)) = FnKey(FrameOf(batch, x))
    BY <2>1, <2>2 DEF KeyAt
  <2>5. /\ FrameOf(batch, y).url = FrameOf(batch, x).url
        /\ FrameOf(batch, z).url = FrameOf(batch, x).url
    <3>1. FrameOf(batch, x) \in BatchFrames /\ FrameOf(batch, y) \in BatchFrames
          /\ FrameOf(batch, z) \in BatchFrames
      BY FramesAre
    <3> QED
      BY <2>4, <3>1 DEF ScriptsAgree
  <2>6. /\ Package(FrameOf(batch, y)) = Package(FrameOf(batch, x))
        /\ FileKey(FrameOf(batch, z)) = FileKey(FrameOf(batch, x))
    BY <2>4, <2>5, FunctionSays
  <2>7. /\ KeysAt(batch, "package")[x] = Package(FrameOf(batch, x))
        /\ KeysAt(batch, "file")[x] = FileKey(FrameOf(batch, x))
    BY AllAre DEF KeyAt
  <2> QED
    BY <2>1, <2>2, <2>3, <2>6, <2>7
<1> HIDE DEF key
<1> QED
  BY <1>1 DEF GoWith, key

NativePackages == {Package(f) : f \in {g \in BatchFrames : FileKey(g) = "(native)"}}

(* Files go with packages, but those of frames without url. *)
LEMMA FilesGoWith ==
  ASSUME IsBatch(batch), batch \in Batches,
         NEW e, EntitiesTo(e, batch, Len(batch), "file"), NEW k, k \notin NativePackages
  PROVE  GoWith(batch, "file", e, "package", k, {f \in DOMAIN e : e[f].package = k})
<1> DEFINE key == KeysAt(batch, "file")
<1>1. ASSUME NEW x \in AllOf(batch)
      PROVE  /\ key[x] \in DOMAIN e
             /\ e[key[x]].package = k <=> KeysAt(batch, "package")[x] = k
  <2>1. PICK y \in AllOf(batch) :
          /\ KeyAt(FrameOf(batch, y), "file") = KeyAt(FrameOf(batch, x), "file")
          /\ e[key[x]].package = Package(FrameOf(batch, y))
    BY EntitySays
  <2>2. key[x] \in DOMAIN e
    BY EntitySays
  <2>3. FileKey(FrameOf(batch, y)) = FileKey(FrameOf(batch, x))
    BY <2>1 DEF KeyAt
  <2>4. /\ FrameOf(batch, x) \in BatchFrames /\ FrameOf(batch, y) \in BatchFrames
        /\ FrameOf(batch, x).url \in Urls \cup {""} /\ FrameOf(batch, y).url \in Urls \cup {""}
    BY FramesAre
  <2>5. KeysAt(batch, "package")[x] = Package(FrameOf(batch, x))
    BY AllAre DEF KeyAt
  <2>6. CASE FileKey(FrameOf(batch, x)) = "(native)"
    <3>1. Package(FrameOf(batch, x)) # k /\ Package(FrameOf(batch, y)) # k
      BY <2>3, <2>4, <2>6 DEF NativePackages
    <3> QED
      BY <2>1, <2>2, <2>5, <3>1
  <2>7. CASE FileKey(FrameOf(batch, x)) # "(native)"
    <3>1. Package(FrameOf(batch, x)) = Package(FrameOf(batch, y))
      BY <2>3, <2>4, <2>7, FileSays
    <3> QED
      BY <2>1, <2>2, <2>5, <3>1
  <2> QED
    BY <2>6, <2>7
<1> HIDE DEF key
<1> QED
  BY <1>1 DEF GoWith, key

(* The merge of a group shares the time of all profiles out to packages and *)
(* files, to what is listed under each, and to the packages and files of    *)
(* each context (merge.go, breakdown.go:216-217).                          *)
THEOREM TimeIsSharedOut == Spec => []TimePartitions
<1>1. ASSUME TimesInv PROVE TimePartitions
  <2> SUFFICES ASSUME Done PROVE TimePartitions
    BY DEF TimePartitions
  <2> DEFINE n == Len(batch)
             m == MergeAggregations(aggs)
             fns == m.entities["function"]
             files == m.entities["file"]
             packages == m.entities["package"]
             whole == [i \in 1..n |-> Whole(SelfOf(batch[i]))]
  <2>1. IsBatch(batch) /\ batch \in Batches /\ MergeTo(m, batch, n)
    BY <1>1, DoneMerge
  <2>2. n \in Nat /\ AllOf(batch) = PlacesTo(batch, n)
    BY <2>1 DEF IsBatch, AllOf
  <2> HIDE DEF m
  <2>3. /\ EntitiesTo(fns, batch, n, "function") /\ EntitiesTo(files, batch, n, "file")
        /\ EntitiesTo(packages, batch, n, "package")
    BY <2>1 DEF MergeTo, Levels
  <2>4. m.profiles = n
    BY <2>1 DEF MergeTo
  <2>5. m.overall = SumFunctionOnSet(TimeAt(batch), AllOf(batch))
    BY <2>1, <2>2 DEF MergeTo
  <2>6. SumFunctionOnSet(whole, 1..n) = SumFunctionOnSet(TimeAt(batch), AllOf(batch))
    <3>1. \A i \in 1..Len(batch) : whole[i] = Whole(SelfOf(batch[i]))
      OBVIOUS
    <3> HIDE DEF whole
    <3> QED
      BY <2>1, <3>1, ProfilesShare
  <2> HIDE DEF fns, files, packages, whole
  <2>7. /\ SelfsOf(packages, DOMAIN packages) = m.overall
        /\ SelfsOf(files, DOMAIN files) = m.overall
    BY <2>1, <2>3, <2>5, SelfsOfAll
  <2>8. ASSUME ScriptsAgree
        PROVE  /\ \A k \in DOMAIN packages :
                    packages[k].self = SelfsOf(fns, {f \in DOMAIN fns : fns[f].package = k})
               /\ \A k \in DOMAIN files :
                    files[k].self = SelfsOf(fns, {f \in DOMAIN fns : fns[f].file = k})
    <3>1. ASSUME NEW k \in DOMAIN packages
          PROVE  packages[k].self = SelfsOf(fns, {f \in DOMAIN fns : fns[f].package = k})
      <4>1. PICK K : K = {f \in DOMAIN fns : fns[f].package = k}
        OBVIOUS
      <4>2. GoWith(batch, "function", fns, "package", k, K)
        BY <2>1, <2>3, <2>8, <4>1, FunctionsGoWith
      <4> QED
        BY <2>1, <2>3, <4>1, <4>2, SelfsShared
    <3>2. ASSUME NEW k \in DOMAIN files
          PROVE  files[k].self = SelfsOf(fns, {f \in DOMAIN fns : fns[f].file = k})
      <4>1. PICK K : K = {f \in DOMAIN fns : fns[f].file = k}
        OBVIOUS
      <4>2. GoWith(batch, "function", fns, "file", k, K)
        BY <2>1, <2>3, <2>8, <4>1, FunctionsGoWith
      <4> QED
        BY <2>1, <2>3, <4>1, <4>2, SelfsShared
    <3> QED
      BY <3>1, <3>2
  <2>9. ASSUME NEW k \in DOMAIN packages \ NativePackages
        PROVE  packages[k].self = SelfsOf(files, {f \in DOMAIN files : files[f].package = k})
    <3>1. PICK K : K = {f \in DOMAIN files : files[f].package = k}
      OBVIOUS
    <3>2. GoWith(batch, "file", files, "package", k, K)
      BY <2>1, <2>3, <3>1, FilesGoWith
    <3> QED
      BY <2>1, <2>3, <3>1, <3>2, SelfsShared
  <2>10. ASSUME NEW c \in DOMAIN m.contexts
         PROVE  /\ m.contexts[c] = SumOf(m.ctxPackages, {x \in DOMAIN m.ctxPackages : x[1] = c})
                /\ m.contexts[c] = SumOf(m.ctxFiles, {x \in DOMAIN m.ctxFiles : x[1] = c})
    <3>1. m.contexts[c] = SumFunctionOnSet(LabelAt(batch, c), AllOf(batch))
      <4>1. CountOf(m.contexts, c) = SumFunctionOnSet(LabelAt(batch, c), AllOf(batch))
        BY <2>1, <2>2 DEF MergeTo
      <4> QED
        BY <4>1 DEF CountOf
    <3>2. /\ ContextsTo(m.ctxPackages, batch, n, "package")
          /\ ContextsTo(m.ctxFiles, batch, n, "file")
      BY <2>1 DEF MergeTo
    <3> QED
      BY <2>1, <3>1, <3>2, ContextShared
  <2> QED
    BY <2>4, <2>5, <2>6, <2>7, <2>8, <2>9, <2>10
       DEF TimePartitions, SelfsOf, NativePackages, m, fns, files, packages, whole
<1> QED
  BY TimesInductive, <1>1, PTL

-----------------------------------------------------------------------------
(* Edges of the call graph *)
LEMMA CallTrees ==
  ASSUME NEW p, IsProfile(p)
  PROVE  /\ IsTrees(Nodes(p), ParentsOf(p), PathTo(p))
         /\ \A n \in Nodes(p) : SelfOf(p)[n] \in Int
BY ProfileForest, PathToIs, ProfileIs, SelfIsInt DEF IsTrees

LEMMA ChildrenAre ==
  ASSUME NEW p, NEW n \in Nodes(p)
  PROVE  ToSet(p.children[n]) \cap Nodes(p) = ChildrenOf(Nodes(p), ParentsOf(p), {n})
<1>1. \A c \in Nodes(p) : c \in ToSet(p.children[n]) <=> ParentsOf(p)[c] \cap {n} # {}
  BY DEF ParentsOf
<1> QED
  BY <1>1 DEF ChildrenOf

(* subtreeTotals sums what is below each node. *)
LEMMA SubtreeIs ==
  ASSUME NEW p, IsProfile(p)
  PROVE  /\ SumsBelow(Subtree(p), SelfOf(p), Nodes(p), PathTo(p), Nodes(p))
         /\ DOMAIN Subtree(p) = Nodes(p) /\ \A n \in Nodes(p) : Subtree(p)[n] \in Int
<1> DEFINE D == Nodes(p)
           par == ParentsOf(p)
           path == PathTo(p)
           f == SelfOf(p)
           Eq(g) == g = [n \in DOMAIN p.frame |->
                           f[n] + SumFunctionOnSet(g, ToSet(p.children[n]) \cap DOMAIN p.frame)]
           h == [n \in D |-> SumFunctionOnSet(f, Below(D, path, n))]
<1>1. IsTrees(D, par, path) /\ \A n \in D : f[n] \in Int
  BY CallTrees
<1>2. \A n \in D : ToSet(p.children[n]) \cap D = ChildrenOf(D, par, {n})
  BY ChildrenAre
<1>3. Subtree(p) = CHOOSE g : Eq(g)
  BY DEF Subtree
<1>4. ASSUME NEW g, Eq(g) PROVE SumsUp(g, f, D, par) /\ DOMAIN g = D
  BY <1>2, <1>4 DEF SumsUp, Nodes
<1>5. ASSUME NEW g, DOMAIN g = D, g = [n \in D |-> g[n]], SumsUp(g, f, D, par) PROVE Eq(g)
  <2>1. \A n \in D : g[n] = f[n] + SumFunctionOnSet(g, ToSet(p.children[n]) \cap D)
    BY <1>2, <1>5 DEF SumsUp
  <2> QED
    BY <1>5, <2>1 DEF Nodes
<1>6. DOMAIN h = D /\ h = [n \in D |-> h[n]]
  OBVIOUS
<1>7. SumsUp(h, f, D, par) /\ \A g : SumsUp(g, f, D, par) => SumsBelow(g, f, D, path, D)
  <2> HIDE DEF D, par, path, f
  <2> QED
    BY <1>1, SumsUpAreBelow
<1> HIDE DEF h, Eq
<1>8. Eq(h)
  BY <1>5, <1>6, <1>7
<1>9. Eq(Subtree(p))
  BY <1>3, <1>8
<1>10. SumsBelow(Subtree(p), f, D, path, D) /\ DOMAIN Subtree(p) = D
  BY <1>4, <1>7, <1>9
<1>11. ASSUME NEW n \in D PROVE Subtree(p)[n] \in Int
  <2>1. IsFiniteSet(Below(D, path, n)) /\ \A x \in Below(D, path, n) : f[x] \in Int
    BY <1>1, FS_Subset DEF Below, IsTrees
  <2>2. SumFunctionOnSet(f, Below(D, path, n)) \in Int
    BY <2>1, SumInt
  <2> QED
    BY <1>10, <2>2 DEF SumsBelow
<1> QED
  BY <1>10, <1>11

EdgePairs(p) == {e \in Nodes(p) \X Nodes(p) : e[2] \in ToSet(p.children[e[1]])}
EdgeKey(p) == [e \in EdgePairs(p) |-> <<FnKey(p.frame[e[1]]), FnKey(p.frame[e[2]])>>]
EdgeTime(p) == [e \in EdgePairs(p) |-> Subtree(p)[e[2]]]

LEMMA EdgesAre ==
  ASSUME NEW p
  PROVE  /\ DOMAIN EdgesOf(p) = {EdgeKey(p)[e] : e \in EdgePairs(p)}
         /\ \A x \in DOMAIN EdgesOf(p) :
              EdgesOf(p)[x] = SumFunctionOnSet(EdgeTime(p), Fibre(EdgePairs(p), EdgeKey(p), x))
<1> DEFINE P == EdgePairs(p)
           fns(e) == <<FnKey(p.frame[e[1]]), FnKey(p.frame[e[2]])>>
<1>1. EdgesOf(p) = [x \in {fns(e) : e \in P} |->
                      SumFunctionOnSet([e \in P |-> Subtree(p)[e[2]]], {e \in P : fns(e) = x})]
  BY DEF EdgesOf, EdgePairs, Nodes
<1>2. \A e \in P : EdgeKey(p)[e] = fns(e)
  BY DEF EdgeKey
<1>3. EdgeTime(p) = [e \in P |-> Subtree(p)[e[2]]]
  BY DEF EdgeTime
<1> HIDE DEF P, fns
<1>4. \A x : Fibre(P, EdgeKey(p), x) = {e \in P : fns(e) = x}
  BY <1>2 DEF Fibre
<1>5. {fns(e) : e \in P} = {EdgeKey(p)[e] : e \in P}
  BY <1>2
<1>6. DOMAIN EdgesOf(p) = {EdgeKey(p)[e] : e \in P}
  BY <1>1, <1>5
<1>7. \A x \in DOMAIN EdgesOf(p) : EdgesOf(p)[x] = SumFunctionOnSet(EdgeTime(p), Fibre(P, EdgeKey(p), x))
  BY <1>1, <1>3, <1>4
<1> QED
  BY <1>6, <1>7 DEF P

LEMMA PairsAre ==
  ASSUME NEW p, IsProfile(p)
  PROVE  /\ IsFiniteSet(EdgePairs(p))
         /\ \A e : e \in EdgePairs(p) <=>
              \E n \in Nodes(p) : \E m \in ParentsOf(p)[n] : m \in Nodes(p) /\ e = <<m, n>>
<1>1. IsFiniteSet(Nodes(p) \X Nodes(p))
  BY ProfileIs, FS_Product
<1>2. IsFiniteSet(EdgePairs(p))
  <2>1. EdgePairs(p) \subseteq Nodes(p) \X Nodes(p)
    BY DEF EdgePairs
  <2> QED
    BY <1>1, <2>1, FS_Subset
<1>3. ASSUME NEW m \in Nodes(p), NEW n \in Nodes(p)
      PROVE  m \in ParentsOf(p)[n] <=> n \in ToSet(p.children[m])
  BY DEF ParentsOf
<1>4. ASSUME NEW e
      PROVE  e \in EdgePairs(p) <=>
               \E n \in Nodes(p) : \E m \in ParentsOf(p)[n] : m \in Nodes(p) /\ e = <<m, n>>
  <2>1. ASSUME e \in EdgePairs(p)
        PROVE  \E n \in Nodes(p) : \E m \in ParentsOf(p)[n] : m \in Nodes(p) /\ e = <<m, n>>
    <3>1. PICK m \in Nodes(p), n \in Nodes(p) : e = <<m, n>> /\ n \in ToSet(p.children[m])
      BY <2>1 DEF EdgePairs
    <3> QED
      BY <1>3, <3>1
  <2>2. ASSUME NEW n \in Nodes(p), NEW m \in ParentsOf(p)[n], m \in Nodes(p), e = <<m, n>>
        PROVE  e \in EdgePairs(p)
    <3>1. n \in ToSet(p.children[m])
      BY <1>3, <2>2
    <3> QED
      BY <2>2, <3>1 DEF EdgePairs
  <2> QED
    BY <2>1, <2>2
<1> QED
  BY <1>2, <1>4

(* Of a sum over known arguments. *)
LEMMA SumOfIs ==
  ASSUME NEW f, NEW S, IsFiniteSet(S), S \subseteq DOMAIN f, \A x \in S : f[x] \in Int
  PROVE  SumOf(f, S) = SumFunctionOnSet(f, S)
<1> DEFINE g == [k \in S |-> CountOf(f, k)]
<1>1. \A x \in S : f[x] \in Int /\ g[x] = f[x]
  BY DEF CountOf
<1>2. SumOf(f, S) = SumFunctionOnSet(g, S)
  BY DEF SumOf
<1> HIDE DEF g
<1> QED
  BY <1>1, <1>2, SumSame

(* The edges with keys in K are the subtrees of the nodes in Q. *)
EdgesTo(p, K, Q) ==
  /\ K \subseteq DOMAIN EdgesOf(p) /\ Q \subseteq Nodes(p)
  /\ \A e \in EdgePairs(p) : EdgeKey(p)[e] \in K <=> e[2] \in Q
  /\ \A n \in Q : ParentsOf(p)[n] # {}

LEMMA EdgesAreSubtrees ==
  ASSUME NEW p, IsProfile(p), NEW K, NEW Q, EdgesTo(p, K, Q)
  PROVE  SumOf(EdgesOf(p), K) = SumFunctionOnSet(Subtree(p), Q)
<1> DEFINE P == EdgePairs(p)
           key == EdgeKey(p)
           f == EdgeTime(p)
           par == ParentsOf(p)
           D == Nodes(p)
           E == EdgesOf(p)
           T == {e \in P : key[e] \in K}
           h == [n \in Q |-> <<CHOOSE m \in par[n] : TRUE, n>>]
<1>1. /\ K \subseteq DOMAIN E /\ Q \subseteq D
      /\ \A e \in P : key[e] \in K <=> e[2] \in Q
      /\ \A n \in Q : par[n] # {}
  BY DEF EdgesTo
<1>2. IsFiniteSet(P) /\ \A e : e \in P <=> \E n \in D : \E m \in par[n] : m \in D /\ e = <<m, n>>
  BY PairsAre
<1>3. par \in [D -> SUBSET D] /\ \A k \in D : \A a, b \in par[k] : a = b
  BY ProfileForest
<1>4. IsFiniteSet(D)
  BY ProfileIs
<1>5. \A n \in D : Subtree(p)[n] \in Int
  BY SubtreeIs
<1>6. \A e \in P : f[e] = Subtree(p)[e[2]]
  BY DEF EdgeTime
<1>7. /\ DOMAIN E = {key[e] : e \in P}
      /\ \A x \in DOMAIN E : E[x] = SumFunctionOnSet(f, Fibre(P, key, x))
  BY EdgesAre
<1> HIDE DEF P, key, f, par, D, E
<1>8. \A e \in P : f[e] \in Int
  <2>1. \A e \in P : e[2] \in D
    BY <1>2
  <2> QED
    BY <1>5, <1>6, <2>1
<1>9. IsFiniteSet(K)
  <2>1. IsFiniteSet({key[e] : e \in P})
    BY <1>2, FiniteImage
  <2> QED
    BY <1>1, <1>7, <2>1, FS_Subset
<1>10. SumsBy(E, K, f, P, key)
  BY <1>1, <1>7 DEF SumsBy
<1>11. \A x \in K : E[x] \in Int
  <2> SUFFICES ASSUME NEW x \in K PROVE E[x] \in Int
    OBVIOUS
  <2>1. IsFiniteSet(Fibre(P, key, x)) /\ \A e \in Fibre(P, key, x) : f[e] \in Int
    BY <1>2, <1>8, FS_Subset DEF Fibre
  <2>2. E[x] = SumFunctionOnSet(f, Fibre(P, key, x))
    BY <1>1, <1>7
  <2> QED
    BY <2>1, <2>2, SumInt
<1>12. SumOf(E, K) = SumFunctionOnSet(E, K)
  BY <1>1, <1>9, <1>11, SumOfIs
<1>13. SumFunctionOnSet(E, K) = SumFunctionOnSet(f, T)
  <2>1. T = {e \in P : key[e] \in K}
    OBVIOUS
  <2> HIDE DEF T
  <2> QED
    BY <1>2, <1>8, <1>9, <1>10, <2>1, SumOfSomeFibres
<1>14. ASSUME NEW n \in Q PROVE h[n] \in T /\ h[n][2] = n
  <2>1. PICK m : m = CHOOSE o \in par[n] : TRUE
    OBVIOUS
  <2>2. m \in par[n] /\ n \in D
    BY <1>1, <2>1
  <2>3. m \in D
    BY <1>3, <2>2
  <2>4. h[n] = <<m, n>>
    BY <2>1
  <2>5. <<m, n>> \in P
    BY <1>2, <2>2, <2>3
  <2>6. <<m, n>>[2] = n
    OBVIOUS
  <2> QED
    BY <1>1, <2>4, <2>5, <2>6
<1>15. ASSUME NEW e \in T PROVE e[2] \in Q /\ h[e[2]] = e
  <2>1. e \in P /\ e[2] \in Q
    BY <1>1
  <2>2. PICK n \in D : \E m \in par[n] : e = <<m, n>>
    BY <1>2, <2>1
  <2>a. PICK m \in par[n] : e = <<m, n>>
    BY <2>2
  <2>3. n \in Q /\ e[2] = n
    BY <2>1, <2>a
  <2>4. (CHOOSE o \in par[n] : TRUE) = m
    <3>1. (CHOOSE o \in par[n] : TRUE) \in par[n]
      BY <2>a
    <3> QED
      BY <1>3, <2>2, <2>a, <3>1
  <2> QED
    BY <2>a, <2>3, <2>4
<1>16. T = {h[n] : n \in Q}
  <2> HIDE DEF T, h
  <2> QED
    BY <1>14, <1>15
<1>17. \A n, o \in Q : h[n] = h[o] => n = o
  <2> HIDE DEF T, h
  <2> QED
    BY <1>14
<1>18. \A n \in Q : f[h[n]] = Subtree(p)[n]
  <2> SUFFICES ASSUME NEW n \in Q PROVE f[h[n]] = Subtree(p)[n]
    OBVIOUS
  <2>1. h[n] \in T /\ h[n][2] = n
    BY <1>14
  <2>2. h[n] \in P
    BY <2>1
  <2> HIDE DEF h, T
  <2> QED
    BY <1>6, <2>1, <2>2
<1>19. IsFiniteSet(Q) /\ \A n \in Q : Subtree(p)[n] \in Int
  BY <1>1, <1>4, <1>5, FS_Subset
<1> HIDE DEF T, h
<1>20. SumFunctionOnSet(f, T) = SumFunctionOnSet(Subtree(p), Q)
  BY <1>16, <1>17, <1>18, <1>19, SumRenamed
<1> QED
  BY <1>12, <1>13, <1>20 DEF E

(* A function that does not call itself, directly or not. *)
NotRecursive(p, f) ==
  \A n \in NodesWith(p, "function", f) :
    PathTo(p)[n] \cap NodesWith(p, "function", f) = {n}

LEMMA FunctionNodes ==
  ASSUME NEW p, IsProfile(p), NEW f, NotRecursive(p, f),
         NEW N, N = NodesWith(p, "function", f)
  PROVE  /\ N \subseteq Nodes(p) /\ Apart(PathTo(p), N)
         /\ NodesUnder(p, "function", f) = Under(Nodes(p), PathTo(p), N)
         /\ \A n \in Nodes(p) : n \in N <=> FnKey(p.frame[n]) = f
<1>1. \A n \in Nodes(p) : KeyAt(p.frame[n], "function") = FnKey(p.frame[n])
  BY DEF KeyAt
<1>2. N \subseteq Nodes(p) /\ \A n \in Nodes(p) : n \in N <=> FnKey(p.frame[n]) = f
  BY <1>1 DEF NodesWith, Nodes
<1>3. Apart(PathTo(p), N)
  BY DEF Apart, NotRecursive
<1>4. NodesUnder(p, "function", f) = Under(Nodes(p), PathTo(p), N)
  BY DEF NodesUnder, Under, Nodes
<1> QED
  BY <1>2, <1>3, <1>4

(* Edges out of f go to the children of its nodes, *)
LEMMA EdgesOut ==
  ASSUME NEW p, IsProfile(p), NEW f, NotRecursive(p, f),
         NEW N, N = NodesWith(p, "function", f)
  PROVE  EdgesTo(p, {x \in DOMAIN EdgesOf(p) : x[1] = f}, ChildrenOf(Nodes(p), ParentsOf(p), N))
<1> DEFINE K == {x \in DOMAIN EdgesOf(p) : x[1] = f}
           Q == ChildrenOf(Nodes(p), ParentsOf(p), N)
<1>1. N \subseteq Nodes(p) /\ \A n \in Nodes(p) : n \in N <=> FnKey(p.frame[n]) = f
  BY FunctionNodes
<1>2. ASSUME NEW e \in EdgePairs(p) PROVE EdgeKey(p)[e] \in K <=> e[2] \in Q
  <2>1. PICK n \in Nodes(p) : \E m \in ParentsOf(p)[n] : m \in Nodes(p) /\ e = <<m, n>>
    BY PairsAre
  <2>2. PICK m \in ParentsOf(p)[n] : m \in Nodes(p) /\ e = <<m, n>>
    BY <2>1
  <2>3. EdgeKey(p)[e] = <<FnKey(p.frame[m]), FnKey(p.frame[n])>>
    BY <2>2 DEF EdgeKey
  <2>4. EdgeKey(p)[e] \in DOMAIN EdgesOf(p)
    BY EdgesAre
  <2>5. EdgeKey(p)[e] \in K <=> m \in N
    BY <1>1, <2>2, <2>3, <2>4
  <2>6. n \in Q <=> m \in N
    <3>1. \A o \in ParentsOf(p)[n] : o = m
      BY <2>2, ProfileForest
    <3> QED
      BY <2>2, <3>1 DEF ChildrenOf
  <2> QED
    BY <2>2, <2>5, <2>6
<1>3. Q \subseteq Nodes(p) /\ \A n \in Q : ParentsOf(p)[n] # {}
  BY DEF ChildrenOf
<1>4. K \subseteq DOMAIN EdgesOf(p)
  OBVIOUS
<1> HIDE DEF K, Q
<1>5. EdgesTo(p, K, Q)
  BY <1>2, <1>3, <1>4 DEF EdgesTo
<1> QED
  BY <1>5 DEF K, Q

(* and those into f to its nodes that are no roots. *)
LEMMA EdgesInto ==
  ASSUME NEW p, IsProfile(p), NEW f, NotRecursive(p, f),
         NEW N, N = NodesWith(p, "function", f)
  PROVE  EdgesTo(p, {x \in DOMAIN EdgesOf(p) : x[2] = f}, {n \in N : ParentsOf(p)[n] # {}})
<1> DEFINE K == {x \in DOMAIN EdgesOf(p) : x[2] = f}
           Q == {n \in N : ParentsOf(p)[n] # {}}
<1>1. N \subseteq Nodes(p) /\ \A n \in Nodes(p) : n \in N <=> FnKey(p.frame[n]) = f
  BY FunctionNodes
<1>2. ASSUME NEW e \in EdgePairs(p) PROVE EdgeKey(p)[e] \in K <=> e[2] \in Q
  <2>1. PICK n \in Nodes(p) : \E m \in ParentsOf(p)[n] : m \in Nodes(p) /\ e = <<m, n>>
    BY PairsAre
  <2>2. PICK m \in ParentsOf(p)[n] : m \in Nodes(p) /\ e = <<m, n>>
    BY <2>1
  <2>3. EdgeKey(p)[e] = <<FnKey(p.frame[m]), FnKey(p.frame[n])>>
    BY <2>2 DEF EdgeKey
  <2>4. EdgeKey(p)[e] \in DOMAIN EdgesOf(p)
    BY EdgesAre
  <2>5. EdgeKey(p)[e] \in K <=> n \in N
    BY <1>1, <2>2, <2>3, <2>4
  <2>6. n \in Q <=> n \in N
    BY <2>2
  <2> QED
    BY <2>2, <2>5, <2>6
<1>3. Q \subseteq Nodes(p) /\ \A n \in Q : ParentsOf(p)[n] # {}
  BY <1>1
<1>4. K \subseteq DOMAIN EdgesOf(p)
  OBVIOUS
<1> HIDE DEF K, Q
<1>5. EdgesTo(p, K, Q)
  BY <1>2, <1>3, <1>4 DEF EdgesTo
<1> QED
  BY <1>5 DEF K, Q

(* Nodes whose path is they alone are roots. *)
LEMMA RootPaths ==
  ASSUME NEW p, IsProfile(p), NEW n \in Nodes(p)
  PROVE  PathTo(p)[n] = {n} <=> ParentsOf(p)[n] = {}
<1> DEFINE D == Nodes(p)
           par == ParentsOf(p)
           path == PathTo(p)
<1>1. IsForestOf(D, par) /\ par \in [D -> SUBSET D] /\ ArePaths(D, par, path)
  BY ProfileForest, PathToIs
<1> HIDE DEF D, par, path
<1>2. n \in D
  BY DEF D
<1>3. path[n] = {n} \cup UNION {path[m] : m \in par[n]}
  BY <1>1, <1>2, PathIs
<1>4. ASSUME NEW m \in par[n] PROVE m \in path[n] /\ m # n
  <2>1. m \in D /\ path[m] \subseteq path[n]
    BY <1>1, <1>2, PathIs
  <2>2. m \in path[m]
    BY <1>1, <2>1, PathIs
  <2>3. n \notin path[m]
    BY <1>1, <1>2, PathsEnd
  <2> QED
    BY <2>1, <2>2, <2>3
<1>5. path[n] = {n} <=> par[n] = {}
  BY <1>3, <1>4
<1> QED
  BY <1>5 DEF par, path

(* The time that flows into f and out of it. *)
FlowsAre(total, self, edges, p, N, f) ==
  /\ total = SumOf(Subtree(p), {n \in N : PathTo(p)[n] = {n}})
             + SumOf(edges, {x \in DOMAIN edges : x[2] = f})
  /\ total = self + SumOf(edges, {x \in DOMAIN edges : x[1] = f})

LEMMA Flows ==
  ASSUME NEW p, IsProfile(p), NEW f, NotRecursive(p, f),
         NEW N, N = NodesWith(p, "function", f)
  PROVE  FlowsAre(SumOf(SelfOf(p), NodesUnder(p, "function", f)), SumOf(SelfOf(p), N),
                  EdgesOf(p), p, N, f)
<1> DEFINE D == Nodes(p)
           par == ParentsOf(p)
           path == PathTo(p)
           g == Subtree(p)
           self == SelfOf(p)
           U == Under(D, path, N)
           C == ChildrenOf(D, par, N)
           R == {n \in N : path[n] = {n}}
           Q == {n \in N : par[n] # {}}
           total == SumOf(SelfOf(p), NodesUnder(p, "function", f))
           in == SumOf(EdgesOf(p), {x \in DOMAIN EdgesOf(p) : x[2] = f})
           out == SumOf(EdgesOf(p), {x \in DOMAIN EdgesOf(p) : x[1] = f})
<1>1. N \subseteq D /\ Apart(path, N) /\ NodesUnder(p, "function", f) = U
  BY FunctionNodes
<1>2. IsTrees(D, par, path) /\ \A n \in D : self[n] \in Int
  BY CallTrees
<1>3. SumsBelow(g, self, D, path, D) /\ DOMAIN g = D /\ \A n \in D : g[n] \in Int
  BY SubtreeIs
<1>4. IsFiniteSet(D) /\ DOMAIN self = D
  BY ProfileIs, SelfIsInt
<1>5. in = SumFunctionOnSet(g, Q)
  <2>1. PICK K : K = {x \in DOMAIN EdgesOf(p) : x[2] = f}
    OBVIOUS
  <2>2. PICK S : S = {n \in N : ParentsOf(p)[n] # {}}
    OBVIOUS
  <2>3. EdgesTo(p, K, S)
    BY <2>1, <2>2, EdgesInto
  <2>4. SumOf(EdgesOf(p), K) = SumFunctionOnSet(Subtree(p), S)
    BY <2>3, EdgesAreSubtrees
  <2> QED
    BY <2>1, <2>2, <2>4
<1>6. out = SumFunctionOnSet(g, C)
  BY EdgesOut, EdgesAreSubtrees
<1>7. \A n \in D : path[n] = {n} <=> par[n] = {}
  BY RootPaths
<1>8. U \subseteq D
  BY DEF Under
<1>9. C = ChildrenOf(D, par, N)
  OBVIOUS
<1>10. U = Under(D, path, N)
  OBVIOUS
<1> HIDE DEF D, par, path, g, self, in, out, C, U
<1>11. SumOf(self, U) = SumFunctionOnSet(self, U) /\ SumOf(self, N) = SumFunctionOnSet(self, N)
       /\ SumOf(g, R) = SumFunctionOnSet(g, R)
  <2>1. IsFiniteSet(U) /\ IsFiniteSet(N) /\ IsFiniteSet(R) /\ R \subseteq D
    BY <1>1, <1>4, <1>8, FS_Subset
  <2> HIDE DEF R
  <2>2. SumOf(self, U) = SumFunctionOnSet(self, U)
    BY <1>2, <1>4, <1>8, <2>1, SumOfIs
  <2>3. SumOf(self, N) = SumFunctionOnSet(self, N)
    BY <1>1, <1>2, <1>4, <2>1, SumOfIs
  <2>4. SumOf(g, R) = SumFunctionOnSet(g, R)
    BY <1>3, <2>1, SumOfIs
  <2> QED
    BY <2>2, <2>3, <2>4
<1>12. SumFunctionOnSet(g, N) = SumFunctionOnSet(self, U)
  <2>1. SumsBelow(g, self, D, path, N)
    BY <1>1, <1>3 DEF SumsBelow
  <2> QED
    BY <1>1, <1>2, <1>10, <2>1, SumsUnder
<1>13. SumFunctionOnSet(g, N) = SumFunctionOnSet(g, R) + SumFunctionOnSet(g, Q)
  <2>1. N = R \cup Q /\ R \cap Q = {}
    BY <1>1, <1>7
  <2>2. IsFiniteSet(R) /\ IsFiniteSet(Q) /\ \A x \in R \cup Q : g[x] \in Int
    BY <1>1, <1>3, <1>4, FS_Subset
  <2> HIDE DEF R, Q
  <2> QED
    BY <2>1, <2>2, SumUnion
<1>14. ChildrenUnder(D, path, N, C)
  <2>1. AreChildren(D, par, path, N, C)
    BY <1>1, <1>2, <1>9 DEF AreChildren
  <2> QED
    BY <2>1, UnderChildren
<1>15. C \subseteq D /\ Apart(path, C) /\ N \subseteq U /\ Under(D, path, C) = U \ N
  BY <1>10, <1>14 DEF ChildrenUnder
<1>16. SumFunctionOnSet(g, C) = SumFunctionOnSet(self, U \ N)
  <2>1. SumsBelow(g, self, D, path, C)
    BY <1>3, <1>15 DEF SumsBelow
  <2>2. SumFunctionOnSet(g, C) = SumFunctionOnSet(self, Under(D, path, C))
    BY <1>2, <1>15, <2>1, SumsUnder
  <2> QED
    BY <1>15, <2>2
<1>17. SumFunctionOnSet(self, U) = SumFunctionOnSet(self, N) + SumFunctionOnSet(self, U \ N)
  <2>1. PICK V : V = U \ N
    OBVIOUS
  <2>2. U = N \cup V /\ N \cap V = {}
    BY <1>15, <2>1
  <2>3. IsFiniteSet(N) /\ IsFiniteSet(V) /\ \A x \in N \cup V : self[x] \in Int
    BY <1>1, <1>2, <1>4, <1>8, <2>1, <2>2, FS_Subset
  <2>4. SumFunctionOnSet(self, N \cup V) = SumFunctionOnSet(self, N) + SumFunctionOnSet(self, V)
    BY <2>2, <2>3, SumUnion
  <2> QED
    BY <2>1, <2>2, <2>4
<1>18. total = SumOf(self, U)
  BY <1>1 DEF self
<1> HIDE DEF R, Q, total
<1>19. total = SumOf(g, R) + in
  BY <1>5, <1>11, <1>12, <1>13, <1>18
<1>20. total = SumOf(self, N) + out
  BY <1>6, <1>11, <1>16, <1>17, <1>18
<1> QED
  BY <1>19, <1>20 DEF g, self, in, out, R, path, total, FlowsAre

(* What flows into a function along the call graph is its inclusive time,   *)
(* as is its own time with what flows out of it, for functions that do not *)
(* call themselves (buildEdges, subtreeTotals and aggregateTree agree).    *)
THEOREM EdgesCarryTime == Spec => []EdgesCarryTotals
<1>1. ASSUME TimesInv PROVE EdgesCarryTotals
  <2>1. ASSUME Done, NEW i \in 1..Len(aggs), NEW p, p = batch[i],
               NEW f \in DOMAIN aggs[i].entities["function"], NotRecursive(p, f)
        PROVE  FlowsAre(aggs[i].entities["function"][f].total, aggs[i].entities["function"][f].self,
                        aggs[i].edges, p, NodesWith(p, "function", f), f)
    <3>0. PICK N : N = NodesWith(p, "function", f)
      OBVIOUS
    <3>1. CountsOf(aggs[i], p, Nodes(p)) /\ aggs[i].edges = EdgesOf(p)
      BY <1>1, <2>1 DEF TimesInv, SoFar
    <3>2. IsProfile(p)
      <4>1. IsBatch(batch) /\ Len(aggs) = Len(batch)
        <5>1. IsBatch(batch)
          BY <1>1, <2>1, DoneMerge
        <5>2. Len(aggs) = at - 0 /\ at = Len(batch)
          BY <1>1, <2>1 DEF TimesInv, IInv, TypeOK, Done
        <5> QED
          BY <5>1, <5>2 DEF IsBatch
      <4> QED
        BY <2>1, <4>1 DEF IsBatch
    <3>3. EntitiesOf(aggs[i].entities["function"], p, "function", Nodes(p))
      BY <3>1 DEF CountsOf, Levels
    <3>4. N \subseteq Nodes(p) /\ NodesUnder(p, "function", f) \subseteq Nodes(p)
      BY <3>0 DEF NodesWith, NodesUnder, Nodes
    <3>5. N \cap Nodes(p) = N /\ NodesUnder(p, "function", f) \cap Nodes(p) = NodesUnder(p, "function", f)
      BY <3>4
    <3>6. /\ aggs[i].entities["function"][f].self = SumOf(SelfOf(p), N)
          /\ aggs[i].entities["function"][f].total = SumOf(SelfOf(p), NodesUnder(p, "function", f))
      BY <2>1, <3>0, <3>3, <3>5 DEF EntitiesOf
    <3>7. FlowsAre(SumOf(SelfOf(p), NodesUnder(p, "function", f)), SumOf(SelfOf(p), N),
                   EdgesOf(p), p, N, f)
      BY <2>1, <3>0, <3>2, Flows
    <3> QED
      BY <3>0, <3>1, <3>6, <3>7
  <2>2. ASSUME Done, NEW i \in 1..Len(aggs), NEW f \in DOMAIN aggs[i].entities["function"],
               NotRecursive(batch[i], f)
        PROVE  FlowsAre(aggs[i].entities["function"][f].total, aggs[i].entities["function"][f].self,
                        aggs[i].edges, batch[i], NodesWith(batch[i], "function", f), f)
    BY <2>1, <2>2
  <2> QED
    BY <2>2 DEF EdgesCarryTotals, NotRecursive, FlowsAre
<1> QED
  BY TimesInductive, <1>1, PTL
=============================================================================
