---------------------------- MODULE ListsProofs ----------------------------
(***************************************************************************)
(* Facts about lists: what a part of a sequence holds, what a loop leads   *)
(* to, and how to reason about either: by the smallest counterexample.     *)
(***************************************************************************)
EXTENDS Lists, FiniteSetTheorems, SequenceTheorems, TLAPS

\* A set of natural numbers has a smallest element.
LEMMA Smallest ==
    ASSUME NEW T \in SUBSET Nat, T # {}
    PROVE  \E m \in T : \A k \in T : m <= k
<1>1. PICK m \in T : \A k \in T : ~ (<<k, m>> \in OpToRel(<, Nat))
  BY NatLessThanWellFounded, WFMin
<1>2. \A k \in T : ~ (k < m)
  BY <1>1 DEF OpToRel
<1> QED
  BY <1>2

\* A function of the first numbers is a sequence.
LEMMA SequenceOf ==
    ASSUME NEW n \in Nat, NEW S, NEW s \in [1..n -> S]
    PROVE  s \in Seq(S) /\ Len(s) = n /\ DOMAIN s = 1..n
<1>1. s \in Seq(S)
  OBVIOUS
<1> QED
  BY <1>1, LenProperties

\* As FS_Image, of a function.
LEMMA ImageFinite ==
    ASSUME NEW S, IsFiniteSet(S), NEW f, DOMAIN f = S
    PROVE  IsFiniteSet({f[x] : x \in S})
<1> DEFINE g == [x \in S |-> f[x]]
           T == {f[x] : x \in S}
<1>1. g \in Surjection(S, T)
  BY DEF Surjection
<1> QED
  BY <1>1, FS_Surjection, Zenon

\* The positions of a part are counted up from 1 without a gap.
LEMMA RankCounts ==
    ASSUME NEW n \in Nat, NEW I \in SUBSET (1..n)
    PROVE  /\ IsFiniteSet(I) /\ Cardinality(I) \in 0..n
           /\ \A i \in I : Rank(I, i) \in 1..Cardinality(I)
           /\ \A i, j \in I : i < j => Rank(I, i) < Rank(I, j)
           /\ \A m \in 1..Cardinality(I) : \E i \in I : Rank(I, i) = m
<1>1. IsFiniteSet(1..n) /\ Cardinality(1..n) = n
  BY FS_Interval, 1 \in Int, n \in Int
<1>2. IsFiniteSet(I) /\ Cardinality(I) \in 0..n
  <2>1. IsFiniteSet(I) /\ Cardinality(I) <= n
    BY <1>1, FS_Subset
  <2>2. Cardinality(I) \in Nat
    BY <2>1, FS_CardinalityType
  <2> QED
    BY <2>1, <2>2
<1>i. \A i \in I : i \in Int
  OBVIOUS
<1>3. ASSUME NEW i \in I
      PROVE  /\ IsFiniteSet({j \in I : j <= i})
             /\ Rank(I, i) \in 1..Cardinality(I)
  <2>1. {j \in I : j <= i} \in SUBSET I /\ i \in {j \in I : j <= i}
    OBVIOUS
  <2>2. IsFiniteSet({j \in I : j <= i}) /\ Rank(I, i) <= Cardinality(I)
    BY <1>2, <2>1, FS_Subset DEF Rank
  <2>3. Rank(I, i) \in Nat /\ Rank(I, i) # 0
    BY <2>1, <2>2, FS_CardinalityType, FS_EmptySet DEF Rank
  <2> QED
    BY <1>2, <2>2, <2>3
<1>4. ASSUME NEW i \in I, NEW j \in I, i < j
      PROVE  Rank(I, i) < Rank(I, j)
  <2> DEFINE A == {k \in I : k <= i}
             B == {k \in I : k <= j}
  <2>0. i \in Int /\ j \in Int /\ \A k \in I : k \in Int
    BY <1>i
  <2>1. A \in SUBSET B /\ j \in B /\ j \notin A
    <3>1. \A k \in I : k <= i => k <= j
      BY <1>4, <2>0
    <3>2. j <= j /\ ~ j <= i
      BY <1>4, <2>0
    <3> QED
      BY <3>1, <3>2
  <2>2. IsFiniteSet(B) /\ Cardinality(A) \in Nat /\ Cardinality(B) \in Nat
    BY <1>3, FS_CardinalityType
  <2>3. Cardinality(A) <= Cardinality(B) /\ Cardinality(A) # Cardinality(B)
    BY <2>1, <2>2, FS_Subset
  <2> QED
    BY <2>2, <2>3 DEF Rank
<1>5. ASSUME NEW m \in 1..Cardinality(I)
      PROVE  \E i \in I : Rank(I, i) = m
  <2> DEFINE f == [i \in I |-> Rank(I, i)]
             C == 1..Cardinality(I)
  <2>1. f \in [I -> C]
    BY <1>3
  <2>2. \A i, j \in I : f[i] = f[j] => i = j
    <3> SUFFICES ASSUME NEW i \in I, NEW j \in I, i # j
                 PROVE  Rank(I, i) # Rank(I, j)
      OBVIOUS
    <3>1. Rank(I, i) \in 1..Cardinality(I) /\ Rank(I, j) \in 1..Cardinality(I)
      BY <1>3
    <3>2. i < j \/ j < i
      BY <1>i
    <3> QED
      BY <1>4, <3>1, <3>2
  <2>3. f \in Injection(I, C)
    BY <2>1, <2>2 DEF Injection, IsInjective
  <2>4. IsFiniteSet(C) /\ Cardinality(C) = Cardinality(I)
    BY <1>2, FS_Interval
  <2>5. f \in Surjection(I, C)
    BY <2>3, <2>4, FS_Injection
  <2> QED
    BY <2>5 DEF Surjection
<1> QED
  BY <1>2, <1>3, <1>4, <1>5

\* A part of a sequence, and where each of its elements comes from.
LEMMA PickedElements ==
    ASSUME NEW S, NEW s \in Seq(S), NEW I \in SUBSET DOMAIN s
    PROVE  /\ Picked(s, I) \in Seq(S)
           /\ Len(Picked(s, I)) = Cardinality(I)
           /\ Cardinality(I) \in 0..Len(s)
           /\ \E at \in [1..Cardinality(I) -> I] :
                /\ \A n \in 1..Cardinality(I) : Picked(s, I)[n] = s[at[n]]
                /\ \A i \in I : \E n \in 1..Cardinality(I) : at[n] = i
                /\ \A m, n \in 1..Cardinality(I) : m < n => at[m] < at[n]
<1> DEFINE C == 1..Cardinality(I)
           At(n) == CHOOSE i \in I : Rank(I, i) = n
<1>1. Len(s) \in Nat /\ DOMAIN s = 1..Len(s) /\ I \in SUBSET (1..Len(s))
  BY LenProperties
<1>2. /\ Cardinality(I) \in 0..Len(s)
      /\ \A i \in I : Rank(I, i) \in C
      /\ \A i, j \in I : i < j => Rank(I, i) < Rank(I, j)
      /\ \A m \in C : \E i \in I : Rank(I, i) = m
  BY <1>1, RankCounts
<1>3. \A n \in C : At(n) \in I /\ Rank(I, At(n)) = n
  BY <1>2
<1>4. \A i \in I : At(Rank(I, i)) = i
  BY <1>1, <1>2, <1>3
<1> DEFINE at == [n \in C |-> At(n)]
<1>5. at \in [C -> I]
  BY <1>3
<1>6. \A n \in C : Picked(s, I)[n] = s[at[n]]
  BY DEF Picked
<1>7. \A i \in I : \E n \in C : at[n] = i
  BY <1>2, <1>4
<1>8. \A m, n \in C : m < n => at[m] < at[n]
  <2> SUFFICES ASSUME NEW m \in C, NEW n \in C, m < n
               PROVE  At(m) < At(n)
    OBVIOUS
  <2>1. At(m) # At(n) /\ ~ At(n) < At(m)
    BY <1>2, <1>3
  <2> QED
    BY <1>1, <1>3, <2>1
<1>9. Picked(s, I) \in Seq(S) /\ Len(Picked(s, I)) = Cardinality(I)
  <2>1. \A n \in C : s[At(n)] \in S
    BY <1>1, <1>3, ElementOfSeq
  <2>2. Picked(s, I) = [n \in C |-> s[At(n)]]
    BY DEF Picked
  <2> QED
    BY <1>2, <2>1, <2>2
<1> QED
  BY <1>2, <1>5, <1>6, <1>7, <1>8, <1>9

\* The elements of a part are those of the sequence, and they keep their order.
LEMMA OnlyElements ==
    ASSUME NEW T, NEW s \in Seq(T), NEW S
    PROVE  /\ Only(s, S) \in Seq(T)
           /\ Len(Only(s, S)) <= Len(s)
           /\ \A n \in DOMAIN Only(s, S) : Only(s, S)[n] \in S
           /\ \E at \in [DOMAIN Only(s, S) -> DOMAIN s] :
                /\ \A n \in DOMAIN Only(s, S) : Only(s, S)[n] = s[at[n]]
                /\ \A i \in DOMAIN s : s[i] \in S => \E n \in DOMAIN Only(s, S) : at[n] = i
                /\ \A m, n \in DOMAIN Only(s, S) : m < n => at[m] < at[n]
<1> DEFINE I == {i \in DOMAIN s : s[i] \in S}
<1>1. Only(s, S) = Picked(s, I)
  BY DEF Only
<1> HIDE DEF I
<1>2. I \in SUBSET DOMAIN s
  BY DEF I
<1>3. /\ Picked(s, I) \in Seq(T) /\ Len(Picked(s, I)) = Cardinality(I)
      /\ Cardinality(I) \in 0..Len(s) /\ Len(s) \in Nat
  BY <1>2, PickedElements, LenProperties
<1>4. DOMAIN Picked(s, I) = 1..Cardinality(I)
  BY <1>3, LenProperties
<1>5. PICK at \in [1..Cardinality(I) -> I] :
        /\ \A n \in 1..Cardinality(I) : Picked(s, I)[n] = s[at[n]]
        /\ \A i \in I : \E n \in 1..Cardinality(I) : at[n] = i
        /\ \A m, n \in 1..Cardinality(I) : m < n => at[m] < at[n]
  BY <1>2, PickedElements
<1>6. at \in [1..Cardinality(I) -> DOMAIN s] /\ \A n \in 1..Cardinality(I) : s[at[n]] \in S
  BY <1>5 DEF I
<1>7. \A i \in DOMAIN s : s[i] \in S => i \in I
  BY DEF I
<1>8. DOMAIN Only(s, S) = 1..Cardinality(I)
  BY <1>1, <1>4
<1>9. \A n \in DOMAIN Only(s, S) : Only(s, S)[n] = s[at[n]] /\ s[at[n]] \in S
  BY <1>1, <1>5, <1>6, <1>8
<1>10. at \in [DOMAIN Only(s, S) -> DOMAIN s]
  BY <1>6, <1>8
<1>11. /\ \A i \in DOMAIN s : s[i] \in S => \E n \in DOMAIN Only(s, S) : at[n] = i
       /\ \A m, n \in DOMAIN Only(s, S) : m < n => at[m] < at[n]
  BY <1>5, <1>7, <1>8
<1>12. Only(s, S) \in Seq(T) /\ Len(Only(s, S)) <= Len(s)
  BY <1>1, <1>3
<1> QED
  BY <1>9, <1>10, <1>11, <1>12

\* The values of a loop: after[i] is that after i steps.
Outcomes(T, steps, x, after) ==
    /\ after \in [0..Len(steps) -> T]
    /\ after[0] = x
    /\ \A i \in 1..Len(steps) : after[i] = steps[i][after[i - 1]]
    /\ Through(steps, x) = after[Len(steps)]

\* A loop goes from each value to the next: every step is taken, in order.
LEMMA ThroughSteps ==
    ASSUME NEW T, NEW x \in T, NEW steps \in Seq([T -> T])
    PROVE  \E after : Outcomes(T, steps, x, after)
<1> DEFINE n == Len(steps)
           Value(g, i) == IF i = 0 THEN x ELSE steps[i][g[i - 1]]
           Loop(g, k) == g \in [0..k -> T] /\ \A i \in 0..k : g[i] = Value(g, i)
           Stuck == {k \in 0..n : ~ \E g : Loop(g, k)}
           f == CHOOSE g : g = [i \in 0..n |-> Value(g, i)]
<1>1. n \in Nat /\ \A i \in 1..n : steps[i] \in [T -> T]
  BY LenProperties, ElementOfSeq
<1>2. Stuck = {}
  <2> SUFFICES ASSUME Stuck # {} PROVE FALSE
    OBVIOUS
  <2>1. Stuck \in SUBSET Nat
    BY <1>1
  <2>2. PICK k \in Stuck : \A j \in Stuck : k <= j
    BY <2>1, Smallest
  <2>3. k # 0
    <3>1. Loop([i \in 0..0 |-> x], 0)
      OBVIOUS
    <3> QED
      BY <3>1, <2>2
  <2>4. k \in 0..n /\ k - 1 \in 0..n /\ k - 1 \notin Stuck
    <3>1. k \in 0..n
      BY <2>2
    <3>2. k - 1 \in 0..n /\ ~ k <= k - 1
      BY <1>1, <2>3, <3>1
    <3> HIDE DEF Stuck
    <3> QED
      BY <2>2, <3>1, <3>2
  <2>5. PICK g : Loop(g, k - 1)
    BY <2>4
  <2> DEFINE h == [i \in 0..k |-> Value(g, i)]
  <2>6. \A i \in 0..(k - 1) : h[i] = g[i]
    BY <2>2, <2>4, <2>5
  <2>7. h \in [0..k -> T]
    <3>1. \A i \in 0..k : i # 0 => i \in 1..n /\ i - 1 \in 0..(k - 1)
      BY <1>1, <2>2, <2>4
    <3>2. \A i \in 0..k : i # 0 => g[i - 1] \in T
      BY <2>5, <3>1
    <3> QED
      BY <1>1, <3>1, <3>2
  <2>8. \A i \in 0..k : h[i] = Value(h, i)
    <3>1. \A i \in 0..k : i # 0 => i - 1 \in 0..(k - 1)
      BY <1>1, <2>2, <2>4
    <3> QED
      BY <2>6, <3>1
  <2> HIDE DEF h
  <2>9. Loop(h, k)
    BY <2>7, <2>8
  <2> QED
    BY <2>2, <2>9
<1>3. PICK g : Loop(g, n)
  BY <1>1, <1>2
<1>4. g = [i \in 0..n |-> Value(g, i)]
  BY <1>3
<1>5. f = [i \in 0..n |-> Value(f, i)]
  BY <1>4
<1>6. \A i \in 0..n : f[i] = Value(f, i)
  BY <1>5
<1>7. Through(steps, x) = f[n]
  BY DEF Through
<1> HIDE DEF f
<1> DEFINE Stray == {i \in 0..n : f[i] \notin T}
<1>8. Stray = {}
  <2> SUFFICES ASSUME Stray # {} PROVE FALSE
    OBVIOUS
  <2>0. Stray \in SUBSET Nat
    BY <1>1
  <2>1. PICK i \in Stray : \A j \in Stray : i <= j
    BY <2>0, Smallest
  <2>2. i # 0
    BY <1>6, <2>1
  <2>3. i - 1 \in 0..n /\ i - 1 \notin Stray /\ i \in 1..n
    BY <1>1, <2>1, <2>2
  <2> QED
    BY <1>1, <1>6, <2>1, <2>2, <2>3
<1>9. f \in [0..n -> T]
  BY <1>5, <1>8
<1>10. f[0] = x /\ \A i \in 1..n : f[i] = steps[i][f[i - 1]]
  BY <1>1, <1>6
<1>11. Outcomes(T, steps, x, f)
  BY <1>7, <1>9, <1>10 DEF Outcomes
<1> QED
  BY <1>11

\* A loop reaches what its last step reaches from what the steps before reach.
LEMMA ThroughReaches ==
    ASSUME NEW T, NEW x \in T, NEW steps \in Seq([T -> T])
    PROVE  \A P \in [0..Len(steps) -> SUBSET T] :
              /\ x \in P[0]
              /\ \A i \in 1..Len(steps) : \A y \in P[i - 1] : steps[i][y] \in P[i]
              => Through(steps, x) \in P[Len(steps)]
<1> DEFINE n == Len(steps)
<1>1. PICK after : Outcomes(T, steps, x, after)
  BY ThroughSteps
<1>0. SUFFICES ASSUME NEW P \in [0..n -> SUBSET T], x \in P[0],
                      \A i \in 1..n : \A y \in P[i - 1] : steps[i][y] \in P[i]
               PROVE  Through(steps, x) \in P[n]
  OBVIOUS
<1>2. n \in Nat
  BY LenProperties
<1> DEFINE Off == {i \in 0..n : after[i] \notin P[i]}
<1>3. Off = {}
  <2> SUFFICES ASSUME Off # {} PROVE FALSE
    OBVIOUS
  <2>1. Off \in SUBSET Nat
    BY <1>2
  <2>2. PICK i \in Off : \A j \in Off : i <= j
    BY <2>1, Smallest
  <2>3. i # 0 /\ i \in 0..n
    BY <1>0, <1>1, <2>2 DEF Outcomes
  <2>4. i \in 1..n /\ i - 1 \in 0..n /\ ~ i <= i - 1
    BY <1>2, <2>3
  <2>5. after[i - 1] \in P[i - 1]
    BY <2>2, <2>4
  <2>6. after[i] \in P[i]
    BY <1>0, <1>1, <2>4, <2>5 DEF Outcomes
  <2> QED
    BY <2>2, <2>6
<1>4. n \in 0..n
  BY <1>2
<1> QED
  BY <1>1, <1>3, <1>4 DEF Outcomes

LEMMA ThroughWithin ==
    ASSUME NEW T, NEW steps \in Seq([T -> T]), NEW P \in SUBSET T, NEW x \in P,
           \A i \in DOMAIN steps : \A y \in P : steps[i][y] \in P
    PROVE  Through(steps, x) \in P
<1> DEFINE Q == [i \in 0..Len(steps) |-> P]
<1>1. Len(steps) \in Nat /\ DOMAIN steps = 1..Len(steps)
  BY LenProperties
<1>2. \A i \in 1..Len(steps) : i - 1 \in 0..Len(steps) /\ i \in 0..Len(steps)
  BY <1>1
<1>3. Q \in [0..Len(steps) -> SUBSET T] /\ 0 \in 0..Len(steps) /\ Len(steps) \in 0..Len(steps)
  BY <1>1
<1>4. \A i \in 0..Len(steps) : Q[i] = P
  OBVIOUS
<1> HIDE DEF Q
<1>5. \A i \in 1..Len(steps) : \A y \in Q[i - 1] : steps[i][y] \in Q[i]
  BY <1>1, <1>2, <1>4
<1>6. x \in T /\ x \in Q[0]
  BY <1>3, <1>4
<1>7. Through(steps, x) \in Q[Len(steps)]
  BY <1>3, <1>5, <1>6, ThroughReaches
<1> QED
  BY <1>3, <1>4, <1>7
=============================================================================
