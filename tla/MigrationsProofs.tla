-------------------------- MODULE MigrationsProofs --------------------------
(***************************************************************************)
(* Proofs about Migrations.                                                *)
(***************************************************************************)
EXTENDS Migrations, ListsProofs

-----------------------------------------------------------------------------
\* Lists

\* What is in two lists, one after the other, and in a list with an element more.
LEMMA ConcatElements ==
    ASSUME NEW T, NEW s \in Seq(T), NEW u \in Seq(T)
    PROVE  \A e : e \in ToSet(s \o u) <=> e \in ToSet(s) \/ e \in ToSet(u)
<1>1. /\ Len(s) \in Nat /\ DOMAIN s = 1..Len(s) /\ Len(u) \in Nat /\ DOMAIN u = 1..Len(u)
      /\ DOMAIN (s \o u) = 1..(Len(s) + Len(u))
      /\ \A i \in 1..(Len(s) + Len(u)) : (s \o u)[i] = IF i <= Len(s) THEN s[i] ELSE u[i - Len(s)]
  BY ConcatProperties, LenProperties
<1>2. ASSUME NEW e, e \in ToSet(s \o u) PROVE e \in ToSet(s) \/ e \in ToSet(u)
  <2>1. PICK i \in 1..(Len(s) + Len(u)) : (s \o u)[i] = e
    BY <1>1, <1>2 DEF ToSet
  <2>2. i \in 1..Len(s) \/ (~ i <= Len(s) /\ i - Len(s) \in 1..Len(u))
    BY <1>1
  <2> QED
    BY <1>1, <2>1, <2>2 DEF ToSet
<1>3. ASSUME NEW e, e \in ToSet(s) PROVE e \in ToSet(s \o u)
  <2>1. PICK i \in 1..Len(s) : s[i] = e
    BY <1>1, <1>3 DEF ToSet
  <2>2. i \in 1..(Len(s) + Len(u)) /\ (s \o u)[i] = e
    BY <1>1, <2>1
  <2> QED
    BY <1>1, <2>2 DEF ToSet
<1>4. ASSUME NEW e, e \in ToSet(u) PROVE e \in ToSet(s \o u)
  <2>1. PICK i \in 1..Len(u) : u[i] = e
    BY <1>1, <1>4 DEF ToSet
  <2>2. /\ Len(s) + i \in 1..(Len(s) + Len(u)) /\ ~ Len(s) + i <= Len(s)
        /\ (Len(s) + i) - Len(s) = i
    BY <1>1
  <2>3. (s \o u)[Len(s) + i] = e
    BY <1>1, <2>1, <2>2
  <2> QED
    BY <1>1, <2>2, <2>3 DEF ToSet
<1> QED
  BY <1>2, <1>3, <1>4

LEMMA AppendElements ==
    ASSUME NEW T, NEW s \in Seq(T), NEW x \in T
    PROVE  \A e : e \in ToSet(Append(s, x)) <=> e \in ToSet(s) \/ e = x
<1>1. /\ Len(s) \in Nat /\ DOMAIN s = 1..Len(s) /\ DOMAIN Append(s, x) = 1..(Len(s) + 1)
      /\ \A i \in 1..Len(s) : Append(s, x)[i] = s[i]
      /\ Append(s, x)[Len(s) + 1] = x
  BY AppendProperties, LenProperties
<1>2. \A i \in 1..(Len(s) + 1) : i \in 1..Len(s) \/ i = Len(s) + 1
  BY <1>1
<1>3. \A i \in 1..Len(s) : i \in 1..(Len(s) + 1)
  BY <1>1
<1>4. Len(s) + 1 \in 1..(Len(s) + 1)
  BY <1>1
<1> QED
  BY <1>1, <1>2, <1>3, <1>4 DEF ToSet

\* The lists in a list, one after the other.
LEMMA FlattenElements ==
    ASSUME NEW T, NEW seqs \in Seq(Seq(T))
    PROVE  /\ FlattenSeq(seqs) \in Seq(T)
           /\ \A e : e \in ToSet(FlattenSeq(seqs)) <=> \E i \in DOMAIN seqs : e \in ToSet(seqs[i])
<1> DEFINE n == Len(seqs)
           Value(g, i) == IF i = 1 THEN seqs[i] ELSE g[i - 1] \o seqs[i]
           Flat(g, k) == g \in [1..k -> Seq(T)] /\ \A i \in 1..k : g[i] = Value(g, i)
           Stuck == {k \in 1..n : ~ \E g : Flat(g, k)}
           f == CHOOSE g : g = [i \in 1..n |-> Value(g, i)]
<1>1. n \in Nat /\ DOMAIN seqs = 1..n /\ \A i \in 1..n : seqs[i] \in Seq(T)
  BY LenProperties, ElementOfSeq
<1>2. CASE n = 0
  <2>1. seqs = <<>> /\ FlattenSeq(seqs) = <<>>
    BY <1>2, EmptySeq DEF FlattenSeq
  <2>2. <<>> \in Seq(T) /\ ToSet(<<>>) = {} /\ DOMAIN seqs = {}
    BY <1>1, <1>2, <2>1 DEF ToSet
  <2> QED
    BY <2>1, <2>2
<1>3. CASE n # 0
  <2>1. Stuck = {}
    <3> SUFFICES ASSUME Stuck # {} PROVE FALSE
      OBVIOUS
    <3>1. Stuck \in SUBSET Nat
      BY <1>1
    <3>2. PICK k \in Stuck : \A j \in Stuck : k <= j
      BY <3>1, Smallest
    <3>3. k \in 1..n
      BY <3>2
    <3>4. k # 1
      <4>1. Flat([i \in 1..1 |-> seqs[1]], 1)
        BY <1>1, <1>3
      <4>2. ~ \E g : Flat(g, k)
        BY <3>2
      <4> HIDE DEF Flat
      <4> QED
        BY <4>1, <4>2
    <3>5. k - 1 \in 1..n /\ ~ k <= k - 1
      BY <1>1, <3>3, <3>4
    <3>6. PICK g : Flat(g, k - 1)
      BY <3>2, <3>5
    <3> DEFINE h == [i \in 1..k |-> Value(g, i)]
    <3>7. \A i \in 1..(k - 1) : h[i] = g[i]
      <4>1. \A i \in 1..(k - 1) : i \in 1..k
        BY <1>1, <3>3
      <4> QED
        BY <3>6, <4>1
    <3>8. \A i \in 1..k : i # 1 => i - 1 \in 1..(k - 1)
      BY <1>1, <3>3
    <3>9. \A i \in 1..k : Value(g, i) \in Seq(T)
      <4> SUFFICES ASSUME NEW i \in 1..k PROVE Value(g, i) \in Seq(T)
        OBVIOUS
      <4>1. seqs[i] \in Seq(T)
        BY <1>1, <3>3
      <4>2. i # 1 => g[i - 1] \in Seq(T)
        BY <3>6, <3>8
      <4> QED
        BY <4>1, <4>2, ConcatProperties
    <3>10. \A i \in 1..k : h[i] = Value(h, i)
      BY <3>7, <3>8
    <3>11. h \in [1..k -> Seq(T)]
      BY <3>9
    <3> HIDE DEF h
    <3>12. Flat(h, k)
      BY <3>10, <3>11
    <3> QED
      BY <3>2, <3>12
  <2>0. n \in 1..n
    BY <1>1, <1>3
  <2>2. PICK g : Flat(g, n)
    BY <2>0, <2>1
  <2>3. g = [i \in 1..n |-> Value(g, i)]
    BY <2>2
  <2>4. f = [i \in 1..n |-> Value(f, i)]
    BY <2>3
  <2>5. \A i \in 1..n : f[i] = Value(f, i)
    BY <2>4
  <2>6. FlattenSeq(seqs) = f[n]
    BY <1>3 DEF FlattenSeq
  <2> HIDE DEF f
  <2> DEFINE Good(i) == /\ f[i] \in Seq(T)
                        /\ \A e : e \in ToSet(f[i]) <=> \E j \in 1..i : e \in ToSet(seqs[j])
             Bad == {i \in 1..n : ~ Good(i)}
  <2>7. Bad = {}
    <3> SUFFICES ASSUME Bad # {} PROVE FALSE
      OBVIOUS
    <3>1. Bad \in SUBSET Nat
      BY <1>1
    <3>2. PICK i \in Bad : \A j \in Bad : i <= j
      BY <3>1, Smallest
    <3>3. i \in 1..n /\ ~ Good(i)
      BY <3>2
    <3>4. i # 1
      <4> SUFFICES ASSUME i = 1 PROVE Good(i)
        BY <3>3
      <4>1. f[i] = seqs[1]
        BY <2>5, <3>3
      <4>2. \A j \in 1..i : j = 1
        OBVIOUS
      <4> QED
        BY <1>1, <1>3, <4>1, <4>2
    <3>5. i - 1 \in 1..n /\ ~ i <= i - 1
      BY <1>1, <3>3, <3>4
    <3>6. Good(i - 1)
      BY <3>2, <3>5
    <3>7. f[i] = f[i - 1] \o seqs[i]
      BY <2>5, <3>3, <3>4
    <3>8. f[i - 1] \in Seq(T) /\ seqs[i] \in Seq(T)
      BY <1>1, <3>3, <3>6
    <3>9. f[i] \in Seq(T)
      BY <3>7, <3>8, ConcatProperties
    <3>10. \A e : e \in ToSet(f[i]) <=> e \in ToSet(f[i - 1]) \/ e \in ToSet(seqs[i])
      BY <3>7, <3>8, ConcatElements
    <3>11. \A j \in Int : j \in 1..i <=> j \in 1..(i - 1) \/ j = i
      BY <3>3
    <3>12. Good(i)
      BY <3>6, <3>9, <3>10, <3>11
    <3> QED
      BY <3>3, <3>12
  <2>8. Good(n)
    BY <2>0, <2>7
  <2> QED
    BY <1>1, <2>6, <2>8
<1> QED
  BY <1>2, <1>3

\* What is part of a list, in another order or not.
LEMMA ReverseElements ==
    ASSUME NEW T, NEW s \in Seq(T)
    PROVE  Reverse(s) \in Seq(T) /\ ToSet(Reverse(s)) = ToSet(s)
<1>1. Len(s) \in Nat /\ DOMAIN s = 1..Len(s) /\ \A i \in 1..Len(s) : s[i] \in T
  BY LenProperties, ElementOfSeq
<1>2. \A i \in 1..Len(s) : (Len(s) - i) + 1 \in 1..Len(s) /\ (Len(s) - ((Len(s) - i) + 1)) + 1 = i
  BY <1>1
<1>3. Reverse(s) \in [1..Len(s) -> T]
  BY <1>1, <1>2 DEF Reverse
<1>4. Reverse(s) \in Seq(T)
  BY <1>1, <1>3, SequenceOf
<1>5. \A i \in 1..Len(s) : Reverse(s)[i] = s[(Len(s) - i) + 1]
  BY DEF Reverse
<1>6. \A i \in 1..Len(s) : s[i] = Reverse(s)[(Len(s) - i) + 1]
  BY <1>2, <1>5
<1>7. DOMAIN Reverse(s) = 1..Len(s)
  BY DEF Reverse
<1>8. ASSUME NEW e, e \in ToSet(s) PROVE e \in ToSet(Reverse(s))
  <2>1. PICK i \in 1..Len(s) : s[i] = e
    BY <1>1, <1>8 DEF ToSet
  <2> QED
    BY <1>2, <1>6, <1>7, <2>1 DEF ToSet
<1>9. ASSUME NEW e, e \in ToSet(Reverse(s)) PROVE e \in ToSet(s)
  <2>1. PICK i \in 1..Len(s) : Reverse(s)[i] = e
    BY <1>7, <1>9 DEF ToSet
  <2> QED
    BY <1>1, <1>2, <1>5, <2>1 DEF ToSet
<1> QED
  BY <1>4, <1>8, <1>9

LEMMA OnlySubset ==
    ASSUME NEW T, NEW s \in Seq(T), NEW S
    PROVE  /\ Only(s, S) \in Seq(T)
           /\ \A e : e \in ToSet(Only(s, S)) <=> e \in ToSet(s) /\ e \in S
<1>1. Only(s, S) \in Seq(T)
  BY OnlyElements
<1>2. \A n \in DOMAIN Only(s, S) : Only(s, S)[n] \in S
  BY OnlyElements
<1>3. PICK at \in [DOMAIN Only(s, S) -> DOMAIN s] :
        /\ \A n \in DOMAIN Only(s, S) : Only(s, S)[n] = s[at[n]]
        /\ \A i \in DOMAIN s : s[i] \in S => \E n \in DOMAIN Only(s, S) : at[n] = i
  BY OnlyElements
<1> QED
  BY <1>1, <1>2, <1>3 DEF ToSet

LEMMA UntilElements ==
    ASSUME NEW T, NEW s \in Seq(T), NEW n
    PROVE  Until(s, n) \in Seq(T) /\ ToSet(Until(s, n)) \subseteq ToSet(s)
<1>1. Len(s) \in Nat /\ DOMAIN s = 1..Len(s) /\ \A i \in 1..Len(s) : s[i] \in T
  BY LenProperties, ElementOfSeq
<1>2. CASE ~ Contains(s, n)
  BY <1>2 DEF Until
<1>3. CASE Contains(s, n)
  <2> DEFINE I == {i \in 1..Len(s) : s[i] = n}
             k == SelectInSeq(s, LAMBDA m : m = n)
  <2>1. I # {} /\ I \in SUBSET Nat
    BY <1>1, <1>3 DEF Contains
  <2>2. k = Min(I)
    BY <2>1 DEF SelectInSeq
  <2>3. \E m \in I : \A j \in I : m <= j
    BY <2>1, Smallest
  <2>4. k \in I
    BY <2>2, <2>3 DEF Min
  <2>5. k \in 1..Len(s)
    BY <2>4
  <2>6. Until(s, n) = SubSeq(s, 1, k - 1)
    BY <1>3 DEF Until
  <2> HIDE DEF k
  <2>7. /\ SubSeq(s, 1, k - 1) \in Seq(T) /\ DOMAIN SubSeq(s, 1, k - 1) = 1..(k - 1)
        /\ \A i \in 1..(k - 1) : SubSeq(s, 1, k - 1)[i] = s[i] /\ i \in 1..Len(s)
    <3>1. k - 1 \in Nat /\ 1 \in Int /\ k - 1 \in Int /\ (k - 1) - 1 + 1 = k - 1
      BY <2>5
    <3>2. \A i \in 1..(k - 1) : i \in 1..Len(s) /\ 1 + i - 1 = i
      BY <1>1, <2>5
    <3>3. \A i \in 1..(k - 1) : s[i] \in T
      BY <1>1, <3>2
    <3>4. /\ SubSeq(s, 1, k - 1) \in Seq(T) /\ Len(SubSeq(s, 1, k - 1)) = k - 1
          /\ \A i \in 1..(k - 1) : SubSeq(s, 1, k - 1)[i] = s[i]
      BY <3>1, <3>2, <3>3, SubSeqProperties
    <3>5. DOMAIN SubSeq(s, 1, k - 1) = 1..(k - 1)
      BY <3>4, LenProperties
    <3> QED
      BY <3>2, <3>4, <3>5
  <2> QED
    BY <1>1, <2>6, <2>7 DEF ToSet
<1> QED
  BY <1>2, <1>3

-----------------------------------------------------------------------------
\* The graph of migrations

FilesTyped ==
    /\ files \in [Apps -> Seq([dependencies : Seq(Nodes), operations : Seq(Operations)])]
    /\ \A a \in Apps : Len(files[a]) \in 0..MaxFiles[a]

LEMMA NodesFinite == IsFiniteSet(Nodes)
<1>1. IsFiniteSet(Apps)
  <2>1. AppOrder \in Seq(Apps) /\ Len(AppOrder) \in Nat /\ DOMAIN AppOrder = 1..Len(AppOrder)
    BY AppAssumption, LenProperties
  <2>2. IsFiniteSet(1..Len(AppOrder))
    BY <2>1, FS_Interval, 1 \in Int, Len(AppOrder) \in Int
  <2>3. Apps = {AppOrder[i] : i \in 1..Len(AppOrder)}
    BY <2>1 DEF Apps, ToSet
  <2> QED
    BY <2>1, <2>2, <2>3, ImageFinite
<1> DEFINE f == [a \in Apps |-> {a} \X (1..MaxFiles[a])]
           Family == {f[a] : a \in Apps}
<1>2. IsFiniteSet(Family)
  <2>1. DOMAIN f = Apps
    OBVIOUS
  <2> HIDE DEF f
  <2> QED
    BY <1>1, <2>1, ImageFinite
<1>3. \A F \in Family : IsFiniteSet(F)
  <2> SUFFICES ASSUME NEW a \in Apps PROVE IsFiniteSet({a} \X (1..MaxFiles[a]))
    OBVIOUS
  <2>1. MaxFiles[a] \in Int
    BY AppAssumption
  <2>2. IsFiniteSet({a}) /\ IsFiniteSet(1..MaxFiles[a])
    BY <2>1, FS_Singleton, FS_Interval, 1 \in Int
  <2> QED
    BY <2>2, FS_Product
<1>5. UNION Family = Nodes
  BY DEF Nodes
<1> HIDE DEF Family
<1>4. IsFiniteSet(UNION Family)
  BY <1>2, <1>3, FS_UNION
<1> QED
  BY <1>4, <1>5

LEMMA NodeParts ==
    \A n \in Nodes : n[1] \in Apps /\ n[2] \in 1..MaxFiles[n[1]] /\ n = <<n[1], n[2]>>
<1> QED
  BY DEF Nodes

LEMMA NodeFiles ==
    ASSUME FilesTyped
    PROVE  /\ \A a \in Apps : files[a] \in Seq([dependencies : Seq(Nodes), operations : Seq(Operations)])
           /\ \A a \in Apps : Len(files[a]) \in Nat /\ DOMAIN files[a] = 1..Len(files[a])
           /\ \A a \in Apps : \A i \in DOMAIN files[a] : <<a, i>> \in nodes
           /\ \A n \in nodes : n \in Nodes /\ dependencies(n) \in Seq(Nodes)
                               /\ operations(n) \in Seq(Operations)
<1>1. \A a \in Apps : Len(files[a]) \in Nat /\ DOMAIN files[a] = 1..Len(files[a])
  BY LenProperties DEF FilesTyped
<1>2. \A a \in Apps : files[a] \in Seq([dependencies : Seq(Nodes), operations : Seq(Operations)])
  BY DEF FilesTyped
<1>3. ASSUME NEW a \in Apps, NEW i \in DOMAIN files[a]
      PROVE  <<a, i>> \in nodes
  <2>1. MaxFiles[a] \in Nat /\ Len(files[a]) \in 0..MaxFiles[a] /\ i \in 1..Len(files[a])
    BY <1>1, <1>3, AppAssumption DEF FilesTyped
  <2>2. i \in 1..MaxFiles[a]
    BY <2>1
  <2>3. <<a, i>> \in Nodes
    BY <2>2 DEF Nodes
  <2> QED
    BY <2>3, <1>3 DEF nodes, Exists
<1>4. ASSUME NEW n \in nodes
      PROVE  n \in Nodes /\ dependencies(n) \in Seq(Nodes) /\ operations(n) \in Seq(Operations)
  <2>1. n \in Nodes /\ n[1] \in Apps /\ n[2] \in DOMAIN files[n[1]]
    BY NodeParts DEF nodes, Exists
  <2>2. files[n[1]][n[2]] \in [dependencies : Seq(Nodes), operations : Seq(Operations)]
    BY <1>1, <1>2, <2>1, ElementOfSeq
  <2> QED
    BY <2>1, <2>2 DEF dependencies, operations
<1> QED
  BY <1>1, <1>2, <1>3, <1>4

\* The list before and after a visit, or several.
Visits ==
    {w \in [Nodes -> [Seq(Nodes) -> Seq(Nodes)]] :
        \A n \in Nodes, out \in Seq(Nodes) : ToSet(w[n][out]) \subseteq ToSet(out) \cup nodes}

\* The visits of the dependencies of n.
Nested(V, n) == [i \in DOMAIN dependencies(n) |-> visit[V \cup {n}][dependencies(n)[i]]]

\* A visit adds nothing but existing migrations, whatever is visited before.
LEMMA VisitTyped ==
    ASSUME FilesTyped
    PROVE  /\ visit \in [SUBSET Nodes -> Visits]
           /\ \A V \in SUBSET Nodes, n \in Nodes, out \in Seq(Nodes) :
                visit[V][n][out] =
                    IF n \in V \cup ToSet(out) \/ ~ Exists(n) THEN out
                    ELSE Append(Through(Nested(V, n), out), n)
<1> DEFINE Inner(g, V, n) == [i \in DOMAIN dependencies(n) |-> g[V \cup {n}][dependencies(n)[i]]]
           Of(g, V, n, out) == IF n \in V \cup ToSet(out) \/ ~ Exists(n) THEN out
                               ELSE Append(Through(Inner(g, V, n), out), n)
           Body(g, V) == [n \in Nodes |-> [out \in Seq(Nodes) |-> Of(g, V, n, out)]]
           Left(V) == Cardinality(Nodes \ V)
           Within(k) == {V \in SUBSET Nodes : Left(V) < k}
           Solves(g, k) == g \in [Within(k) -> Visits] /\ \A V \in Within(k) : g[V] = Body(g, V)
           Stuck == {k \in Nat : ~ \E g : Solves(g, k)}
<1>1. \A V \in SUBSET Nodes : Left(V) \in Nat
  BY NodesFinite, FS_Subset, FS_CardinalityType
<1>2. ASSUME NEW V \in SUBSET Nodes, NEW n \in Nodes \ V
      PROVE  V \cup {n} \in SUBSET Nodes /\ Left(V \cup {n}) < Left(V)
  <2>1. IsFiniteSet(Nodes \ V) /\ n \in Nodes \ V
    BY NodesFinite, FS_Subset
  <2>2. Cardinality((Nodes \ V) \ {n}) = Cardinality(Nodes \ V) - 1
    BY <2>1, FS_RemoveElement
  <2>3. (Nodes \ V) \ {n} = Nodes \ (V \cup {n})
    OBVIOUS
  <2>4. V \cup {n} \in SUBSET Nodes /\ Left(V) \in Nat /\ Left(V \cup {n}) \in Nat
    BY <1>1
  <2>5. Left(V \cup {n}) = Left(V) - 1
    BY <2>2, <2>3
  <2> HIDE DEF Left
  <2> QED
    BY <2>4, <2>5
<1>3. ASSUME NEW g, NEW V \in SUBSET Nodes, \A n \in Nodes \ V : g[V \cup {n}] \in Visits
      PROVE  Body(g, V) \in Visits
  <2>1. ASSUME NEW n \in Nodes, NEW out \in Seq(Nodes)
        PROVE  Of(g, V, n, out) \in Seq(Nodes) /\ ToSet(Of(g, V, n, out)) \subseteq ToSet(out) \cup nodes
    <3>1. CASE n \in V \cup ToSet(out) \/ ~ Exists(n)
      BY <3>1
    <3>2. CASE ~ (n \in V \cup ToSet(out) \/ ~ Exists(n))
      <4> DEFINE deps == dependencies(n)
                 steps == Inner(g, V, n)
                 P == {l \in Seq(Nodes) : ToSet(l) \subseteq ToSet(out) \cup nodes}
      <4>1. n \in nodes /\ n \in Nodes \ V
        BY <3>2 DEF nodes
      <4>2. deps \in Seq(Nodes) /\ Len(deps) \in Nat /\ DOMAIN deps = 1..Len(deps)
            /\ \A i \in 1..Len(deps) : deps[i] \in Nodes
        BY <4>1, NodeFiles, LenProperties, ElementOfSeq
      <4>3. g[V \cup {n}] \in Visits
        BY <1>3, <4>1
      <4>4. steps = [i \in 1..Len(deps) |-> g[V \cup {n}][deps[i]]]
        BY <4>2
      <4>5. steps \in [1..Len(deps) -> [Seq(Nodes) -> Seq(Nodes)]]
        BY <4>2, <4>3, <4>4 DEF Visits
      <4> DEFINE U == [Seq(Nodes) -> Seq(Nodes)]
      <4>6. steps \in Seq(U) /\ DOMAIN steps = 1..Len(deps)
        <5> HIDE DEF steps
        <5>1. steps \in [1..Len(deps) -> U]
          BY <4>5
        <5> HIDE DEF U, deps
        <5> QED
          BY <4>2, <5>1, SequenceOf
      <4>7. \A i \in DOMAIN steps : \A l \in P : steps[i][l] \in P
        <5> SUFFICES ASSUME NEW i \in 1..Len(deps), NEW l \in P PROVE steps[i][l] \in P
          BY <4>6
        <5>1. steps[i][l] = g[V \cup {n}][deps[i]][l]
          BY <4>4
        <5>2. deps[i] \in Nodes /\ l \in Seq(Nodes)
          BY <4>2
        <5>3. /\ g[V \cup {n}][deps[i]][l] \in Seq(Nodes)
              /\ ToSet(g[V \cup {n}][deps[i]][l]) \subseteq ToSet(l) \cup nodes
          BY <4>3, <5>2 DEF Visits
        <5> QED
          BY <5>1, <5>3
      <4>14. out \in P /\ P \in SUBSET Seq(Nodes)
        OBVIOUS
      <4> HIDE DEF steps, P
      <4>8. Through(steps, out) \in P
        BY <4>6, <4>7, <4>14, ThroughWithin
      <4>9. Through(steps, out) \in Seq(Nodes) /\ ToSet(Through(steps, out)) \subseteq ToSet(out) \cup nodes
        BY <4>8 DEF P
      <4>10. Append(Through(steps, out), n) \in Seq(Nodes)
        BY <4>9, AppendProperties
      <4>11. \A e : e \in ToSet(Append(Through(steps, out), n)) <=> e \in ToSet(Through(steps, out)) \/ e = n
        BY <4>9, AppendElements
      <4>12. Of(g, V, n, out) = Append(Through(steps, out), n)
        BY <3>2 DEF steps
      <4> QED
        BY <4>1, <4>9, <4>10, <4>11, <4>12
    <3> QED
      BY <3>1, <3>2
  <2> HIDE DEF Of
  <2> QED
    BY <2>1 DEF Visits
<1>4. ASSUME NEW g, NEW h, NEW V \in SUBSET Nodes,
             \A n \in Nodes \ V : g[V \cup {n}] = h[V \cup {n}]
      PROVE  Body(g, V) = Body(h, V)
  <2>1. ASSUME NEW n \in Nodes, NEW out \in Seq(Nodes) PROVE Of(g, V, n, out) = Of(h, V, n, out)
    <3>1. CASE n \in V
      BY <3>1
    <3>2. CASE n \notin V
      <4>1. Inner(g, V, n) = Inner(h, V, n)
        BY <1>4, <3>2
      <4> QED
        BY <4>1
    <3> QED
      BY <3>1, <3>2
  <2> HIDE DEF Of
  <2> QED
    BY <2>1
<1> HIDE DEF Body, Left
<1>5. Stuck = {}
  <2> SUFFICES ASSUME Stuck # {} PROVE FALSE
    OBVIOUS
  <2>1. Stuck \in SUBSET Nat
    OBVIOUS
  <2>2. PICK k \in Stuck : \A j \in Stuck : k <= j
    BY <2>1, Smallest
  <2>3. k \in Nat /\ ~ \E g : Solves(g, k)
    BY <2>2
  <2>4. k # 0
    <3> SUFFICES ASSUME k = 0 PROVE FALSE
      OBVIOUS
    <3>1. Within(0) = {}
      BY <1>1
    <3>2. Solves([V \in {} |-> V], 0)
      BY <3>1
    <3> QED
      BY <2>3, <3>2
  <2>5. k - 1 \in Nat /\ ~ k <= k - 1
    BY <2>3, <2>4
  <2>6. PICK g : Solves(g, k - 1)
    BY <2>2, <2>5
  <2> DEFINE h == [V \in Within(k) |-> Body(g, V)]
  <2>7. \A V \in Within(k) : \A n \in Nodes \ V : V \cup {n} \in Within(k - 1)
    <3> SUFFICES ASSUME NEW V \in Within(k), NEW n \in Nodes \ V PROVE V \cup {n} \in Within(k - 1)
      OBVIOUS
    <3>1. V \cup {n} \in SUBSET Nodes /\ Left(V \cup {n}) < Left(V) /\ Left(V) < k
      BY <1>2
    <3>2. Left(V \cup {n}) < k - 1
      BY <1>1, <2>3, <3>1
    <3> QED
      BY <3>1, <3>2
  <2>8. \A V \in Within(k - 1) : V \in Within(k) /\ h[V] = g[V]
    BY <1>1, <2>3, <2>6
  <2>9. h \in [Within(k) -> Visits]
    <3>1. \A V \in Within(k) : \A n \in Nodes \ V : g[V \cup {n}] \in Visits
      BY <2>6, <2>7
    <3>2. \A V \in Within(k) : Body(g, V) \in Visits
      BY <1>3, <3>1
    <3> QED
      BY <3>2
  <2>10. \A V \in Within(k) : h[V] = Body(h, V)
    <3>1. ASSUME NEW V \in Within(k) PROVE Body(g, V) = Body(h, V)
      <4>1. \A n \in Nodes \ V : g[V \cup {n}] = h[V \cup {n}]
        BY <2>7, <2>8
      <4> HIDE DEF h
      <4> QED
        BY <1>4, <4>1
    <3> QED
      BY <3>1
  <2> HIDE DEF h
  <2>11. Solves(h, k)
    BY <2>9, <2>10
  <2> QED
    BY <2>3, <2>11
<1>6. PICK top \in Nat : Within(top) = SUBSET Nodes
  <2>1. Left({}) + 1 \in Nat
    BY <1>1
  <2>2. \A V \in SUBSET Nodes : Left(V) <= Left({})
    BY NodesFinite, FS_Subset DEF Left
  <2>3. \A V \in SUBSET Nodes : Left(V) < Left({}) + 1
    BY <1>1, <2>2
  <2> QED
    BY <2>1, <2>3
<1>7. PICK g : g \in [SUBSET Nodes -> Visits] /\ \A V \in SUBSET Nodes : g[V] = Body(g, V)
  BY <1>5, <1>6
<1>8. g = [V \in SUBSET Nodes |-> Body(g, V)]
  BY <1>7
<1>9. visit = CHOOSE f : f = [V \in SUBSET Nodes |-> Body(f, V)]
  BY DEF visit, Body
<1>10. visit = [V \in SUBSET Nodes |-> Body(visit, V)]
  <2> DEFINE IsIt(f) == f = [V \in SUBSET Nodes |-> Body(f, V)]
  <2>1. IsIt(g)
    BY <1>8
  <2>2. visit = CHOOSE f : IsIt(f)
    BY <1>9
  <2> HIDE DEF IsIt
  <2>3. IsIt(visit)
    BY <2>1, <2>2
  <2> QED
    BY <2>3 DEF IsIt
<1>11. \A V \in SUBSET Nodes : visit[V] = Body(visit, V)
  BY <1>10
<1>12. \A V \in SUBSET Nodes : visit[V] \in Visits
  <2> DEFINE Bad == {k \in Nat : \E V \in SUBSET Nodes : Left(V) = k /\ visit[V] \notin Visits}
  <2>1. Bad = {}
    <3> SUFFICES ASSUME Bad # {} PROVE FALSE
      OBVIOUS
    <3>1. PICK k \in Bad : \A j \in Bad : k <= j
      <4>1. Bad \in SUBSET Nat
        OBVIOUS
      <4> QED
        BY <4>1, Smallest
    <3>2. PICK V \in SUBSET Nodes : Left(V) = k /\ visit[V] \notin Visits
      BY <3>1
    <3>3. \A n \in Nodes \ V : visit[V \cup {n}] \in Visits
      <4> SUFFICES ASSUME NEW n \in Nodes \ V, visit[V \cup {n}] \notin Visits PROVE FALSE
        OBVIOUS
      <4>1. V \cup {n} \in SUBSET Nodes /\ Left(V \cup {n}) < k /\ Left(V \cup {n}) \in Nat
        BY <1>1, <1>2, <3>2
      <4>2. Left(V \cup {n}) \in Bad
        BY <4>1
      <4>3. k \in Nat /\ k <= Left(V \cup {n})
        BY <3>1, <4>2
      <4> HIDE DEF Bad
      <4> QED
        BY <4>1, <4>3
    <3> HIDE DEF Bad
    <3>4. Body(visit, V) \in Visits
      BY <1>3, <3>3
    <3>5. visit[V] = Body(visit, V)
      BY <1>11
    <3> QED
      BY <3>2, <3>4, <3>5
  <2> QED
    BY <1>1, <2>1
<1>13. visit \in [SUBSET Nodes -> Visits]
  BY <1>10, <1>12
<1>14. ASSUME NEW V \in SUBSET Nodes, NEW n \in Nodes, NEW out \in Seq(Nodes)
       PROVE  visit[V][n][out] = Of(visit, V, n, out)
  <2>1. Body(visit, V)[n][out] = Of(visit, V, n, out)
    <3> HIDE DEF Of
    <3> QED
      BY DEF Body
  <2> HIDE DEF Of
  <2> QED
    BY <1>11, <2>1
<1>15. ASSUME NEW V \in SUBSET Nodes, NEW n \in Nodes, NEW out \in Seq(Nodes)
       PROVE  visit[V][n][out] = IF n \in V \cup ToSet(out) \/ ~ Exists(n) THEN out
                                 ELSE Append(Through(Nested(V, n), out), n)
  <2>1. visit[V][n][out] = Of(visit, V, n, out)
    <3> HIDE DEF Of
    <3> QED
      BY <1>14
  <2>2. Nested(V, n) = Inner(visit, V, n)
    BY DEF Nested
  <2> HIDE DEF Inner
  <2>3. Of(visit, V, n, out) = IF n \in V \cup ToSet(out) \/ ~ Exists(n) THEN out
                               ELSE Append(Through(Inner(visit, V, n), out), n)
    OBVIOUS
  <2> HIDE DEF Of
  <2> QED
    BY <2>1, <2>2, <2>3
<1> QED
  BY <1>13, <1>15

\* The lists of existing migrations, sorted by label or in the order of the graph.
LEMMA ByAppTyped ==
    ASSUME FilesTyped, NEW a \in Apps
    PROVE  by_app(a) \in Seq(nodes) /\ \A n \in nodes : n \in ToSet(by_app(a)) <=> n[1] = a
<1>1. Len(files[a]) \in Nat /\ DOMAIN files[a] = 1..Len(files[a])
  BY NodeFiles
<1>2. by_app(a) = [i \in 1..Len(files[a]) |-> <<a, i>>] /\ \A i \in 1..Len(files[a]) : <<a, i>> \in nodes
  BY <1>1, NodeFiles DEF by_app
<1>3. by_app(a) \in Seq(nodes)
  BY <1>1, <1>2, SequenceOf
<1>4. \A n \in nodes : n[1] = a => n[2] \in 1..Len(files[a]) /\ n = <<a, n[2]>>
  BY <1>1, NodeParts DEF nodes, Exists
<1>5. \A n \in nodes : n \in ToSet(by_app(a)) <=> n[1] = a
  BY <1>2, <1>4 DEF ToSet
<1> QED
  BY <1>3, <1>5

LEMMA SortedTyped ==
    ASSUME FilesTyped
    PROVE  sorted \in Seq(nodes) /\ nodes \subseteq ToSet(sorted)
<1> DEFINE lists == [i \in DOMAIN AppOrder |-> by_app(AppOrder[i])]
<1>1. /\ Len(AppOrder) \in Nat /\ DOMAIN AppOrder = 1..Len(AppOrder)
      /\ \A i \in 1..Len(AppOrder) : AppOrder[i] \in Apps
  BY AppAssumption, LenProperties, ElementOfSeq
<1>2. lists \in [1..Len(AppOrder) -> Seq(nodes)]
  BY <1>1, ByAppTyped
<1>3. lists \in Seq(Seq(nodes)) /\ DOMAIN lists = 1..Len(AppOrder)
  BY <1>1, <1>2, SequenceOf
<1>4. \A i \in 1..Len(AppOrder) : lists[i] = by_app(AppOrder[i])
  BY <1>1
<1>5. sorted = FlattenSeq(lists)
  BY DEF sorted
<1> HIDE DEF lists
<1>6. /\ sorted \in Seq(nodes)
      /\ \A e : e \in ToSet(sorted) <=> \E i \in DOMAIN lists : e \in ToSet(lists[i])
  BY <1>3, <1>5, FlattenElements
<1>7. ASSUME NEW n \in nodes PROVE n \in ToSet(sorted)
  <2>1. n[1] \in Apps
    BY NodeParts DEF nodes
  <2>2. PICK i \in 1..Len(AppOrder) : AppOrder[i] = n[1]
    BY <1>1, <2>1 DEF Apps, ToSet
  <2>3. n \in ToSet(lists[i])
    BY <1>4, <2>1, <2>2, ByAppTyped
  <2> QED
    BY <1>3, <1>6, <2>2, <2>3
<1> QED
  BY <1>6, <1>7

LEMMA SortedVisits ==
    ASSUME FilesTyped
    PROVE  LET steps == [i \in DOMAIN sorted |-> visit[{}][sorted[i]]]
           IN  /\ steps \in Seq([Seq(Nodes) -> Seq(Nodes)]) /\ DOMAIN steps = DOMAIN sorted
               /\ Len(sorted) \in Nat /\ DOMAIN sorted = 1..Len(sorted) /\ Len(steps) = Len(sorted)
               /\ \A i \in DOMAIN sorted : sorted[i] \in nodes /\ sorted[i] \in Nodes
               /\ \A i \in DOMAIN sorted : steps[i] = visit[{}][sorted[i]]
<1> DEFINE steps == [i \in DOMAIN sorted |-> visit[{}][sorted[i]]]
           U == [Seq(Nodes) -> Seq(Nodes)]
<1>1. /\ Len(sorted) \in Nat /\ DOMAIN sorted = 1..Len(sorted)
      /\ \A i \in DOMAIN sorted : sorted[i] \in nodes
  BY SortedTyped, LenProperties, ElementOfSeq
<1>2. \A n \in nodes : n \in Nodes
  BY DEF nodes
<1>3. visit[{}] \in Visits
  BY VisitTyped
<1>4. \A n \in Nodes : visit[{}][n] \in U
  BY <1>3 DEF Visits
<1> HIDE DEF U
<1>5. steps \in [1..Len(sorted) -> U]
  BY <1>1, <1>2, <1>4
<1>6. steps \in Seq(U) /\ Len(steps) = Len(sorted)
  <2> HIDE DEF steps
  <2>1. steps \in Seq(U)
    BY <1>1, <1>5, SequenceOf
  <2> QED
    BY <1>1, <1>5, <2>1, LenProperties
<1>7. steps \in Seq([Seq(Nodes) -> Seq(Nodes)])
  BY <1>6 DEF U
<1> QED
  BY <1>1, <1>2, <1>6, <1>7

LEMMA OrderedTyped ==
    ASSUME FilesTyped
    PROVE  ordered \in Seq(Nodes) /\ ToSet(ordered) \subseteq nodes
<1> DEFINE steps == [i \in DOMAIN sorted |-> visit[{}][sorted[i]]]
           P == {l \in Seq(Nodes) : ToSet(l) \subseteq nodes}
<1>1. visit[{}] \in Visits
  BY VisitTyped
<1>2. /\ steps \in Seq([Seq(Nodes) -> Seq(Nodes)]) /\ DOMAIN steps = DOMAIN sorted
      /\ \A i \in DOMAIN sorted : sorted[i] \in Nodes /\ steps[i] = visit[{}][sorted[i]]
  BY SortedVisits
<1>3. <<>> \in P
  BY EmptySeq DEF ToSet
<1>4. \A i \in DOMAIN steps : \A l \in P : steps[i][l] \in P
  <2> SUFFICES ASSUME NEW i \in DOMAIN steps, NEW l \in P PROVE steps[i][l] \in P
    OBVIOUS
  <2> DEFINE n == sorted[i]
  <2>1. n \in Nodes /\ l \in Seq(Nodes) /\ ToSet(l) \subseteq nodes /\ steps[i] = visit[{}][n]
    BY <1>2
  <2>2. visit[{}][n][l] \in Seq(Nodes) /\ ToSet(visit[{}][n][l]) \subseteq ToSet(l) \cup nodes
    <3> HIDE DEF n
    <3> QED
      BY <1>1, <2>1 DEF Visits
  <2> QED
    BY <2>1, <2>2
<1>5. P \in SUBSET Seq(Nodes)
  OBVIOUS
<1>6. ordered = Through(steps, <<>>)
  BY DEF ordered
<1> HIDE DEF steps, P
<1>7. ordered \in P
  BY <1>2, <1>3, <1>4, <1>5, <1>6, ThroughWithin
<1> QED
  BY <1>7 DEF P

\* What a command sets out to do exists.
LEMMA AppliedTyped ==
    ASSUME db.record \in Seq(Nodes), NEW a
    PROVE  applied(a) \in Seq(Nodes) /\ ToSet(applied(a)) \subseteq Recorded
<1>1. ToSet(db.record) = Recorded
  BY DEF Recorded
<1> QED
  BY <1>1, OnlySubset DEF applied

LEMMA PendingTyped ==
    ASSUME FilesTyped, NEW q
    PROVE  pending(q) \in Seq(Nodes) /\ ToSet(pending(q)) \subseteq nodes
<1> DEFINE due == {n \in Nodes \ Recorded : q.app \in {AllApps, n[1]}}
           left == Only(ordered, due)
           last == <<q.app, q.target>>
<1>1. left \in Seq(Nodes) /\ \A e : e \in ToSet(left) <=> e \in ToSet(ordered) /\ e \in due
  BY OrderedTyped, OnlySubset
<1>2. ToSet(left) \subseteq nodes
  BY <1>1, OrderedTyped
<1>3. pending(q) = IF q.target > 0 /\ Contains(left, last) THEN Append(Until(left, last), last) ELSE left
  BY DEF pending
<1> HIDE DEF left, last
<1>4. CASE q.target > 0 /\ Contains(left, last)
  <2>1. Until(left, last) \in Seq(Nodes) /\ ToSet(Until(left, last)) \subseteq ToSet(left)
    BY <1>1, UntilElements
  <2>2. last \in ToSet(left)
    BY <1>1, <1>4, LenProperties DEF Contains, ToSet
  <2>3. last \in Nodes
    BY <1>2, <2>2 DEF nodes
  <2>4. pending(q) = Append(Until(left, last), last)
    BY <1>3, <1>4
  <2>5. pending(q) \in Seq(Nodes)
    BY <2>1, <2>3, <2>4, AppendProperties
  <2>6. \A e : e \in ToSet(pending(q)) <=> e \in ToSet(Until(left, last)) \/ e = last
    BY <2>1, <2>3, <2>4, AppendElements
  <2> QED
    BY <1>2, <2>1, <2>2, <2>5, <2>6
<1>5. CASE ~ (q.target > 0 /\ Contains(left, last))
  BY <1>1, <1>2, <1>3, <1>5
<1> QED
  BY <1>4, <1>5

LEMMA ToRollBackTyped ==
    ASSUME db.record \in Seq(Nodes), NEW q, q.app \in Apps \cup {AllApps}
    PROVE  to_roll_back(q) \in Seq(Nodes) /\ ToSet(to_roll_back(q)) \subseteq Recorded
<1> DEFINE labels == IF q.app = AllApps THEN AppOrder ELSE <<q.app>>
           lists == [i \in DOMAIN labels |-> Reverse(applied(labels[i]))]
<1>1. \A a : Reverse(applied(a)) \in Seq(Nodes) /\ ToSet(Reverse(applied(a))) \subseteq Recorded
  BY AppliedTyped, ReverseElements
<1>2. CASE q.target > 0
  <2>1. to_roll_back(q) = Until(Reverse(applied(q.app)), <<q.app, q.target>>)
    BY <1>2 DEF to_roll_back
  <2> QED
    BY <1>1, <2>1, UntilElements
<1>3. CASE ~ q.target > 0
  <2>1. labels \in Seq(Apps \cup {AllApps})
    <3>1. AppOrder \in Seq(Apps \cup {AllApps})
      BY AppAssumption, SeqMonotonic
    <3>2. <<q.app>> \in Seq(Apps \cup {AllApps})
      OBVIOUS
    <3> QED
      BY <3>1, <3>2
  <2>2. Len(labels) \in Nat /\ DOMAIN labels = 1..Len(labels)
    BY <2>1, LenProperties
  <2>3. lists \in [1..Len(labels) -> Seq(Nodes)]
    BY <1>1, <2>2
  <2>4. \A i \in DOMAIN labels : lists[i] = Reverse(applied(labels[i]))
    OBVIOUS
  <2>5. to_roll_back(q) = FlattenSeq(lists)
    BY <1>3 DEF to_roll_back
  <2>6. DOMAIN lists = DOMAIN labels
    OBVIOUS
  <2> HIDE DEF lists, labels
  <2>7. lists \in Seq(Seq(Nodes))
    BY <2>2, <2>3, SequenceOf
  <2>8. /\ to_roll_back(q) \in Seq(Nodes)
        /\ \A e : e \in ToSet(to_roll_back(q)) <=> \E i \in DOMAIN lists : e \in ToSet(lists[i])
    BY <2>5, <2>7, FlattenElements
  <2> QED
    BY <1>1, <2>4, <2>6, <2>8
<1> QED
  BY <1>2, <1>3

-----------------------------------------------------------------------------
\* The order of the graph

\* Every migration of the list l comes after its dependencies.
Preceded(l) ==
    \A i \in DOMAIN l : \A m \in ToSet(dependencies(l[i])) : \E j \in DOMAIN l : j < i /\ l[j] = m

\* Dependencies exist, and are of a smaller rank: there is no cycle.
Ranked(rank) ==
    \A n \in nodes : \A m \in ToSet(dependencies(n)) : m \in nodes /\ rank[m] < rank[n]

\* No migration is listed twice.
Once(l) == \A i, j \in DOMAIN l : l[i] = l[j] => i = j

\* A list in order that has all of l.
Reached(l) ==
    {r \in Seq(Nodes) : Preceded(r) /\ Once(r) /\ ToSet(l) \subseteq ToSet(r) /\ ToSet(r) \subseteq nodes}

LEMMA AppendOnce ==
    ASSUME NEW l \in Seq(Nodes), Once(l), NEW n \in Nodes, n \notin ToSet(l)
    PROVE  Once(Append(l, n))
<1>1. /\ Len(l) \in Nat /\ DOMAIN l = 1..Len(l) /\ DOMAIN Append(l, n) = 1..(Len(l) + 1)
      /\ \A i \in 1..Len(l) : Append(l, n)[i] = l[i]
      /\ Append(l, n)[Len(l) + 1] = n
  BY AppendProperties, LenProperties
<1>2. \A i \in 1..(Len(l) + 1) : i \in 1..Len(l) \/ i = Len(l) + 1
  BY <1>1
<1>3. \A i \in 1..Len(l) : Append(l, n)[i] # n
  BY <1>1 DEF ToSet
<1> DEFINE r == Append(l, n)
<1>4. \A i, j \in DOMAIN r : r[i] = r[j] => i = j
  BY <1>1, <1>2, <1>3 DEF Once
<1> QED
  BY <1>4 DEF Once

LEMMA AppendPreceded ==
    ASSUME NEW l \in Seq(Nodes), Preceded(l), NEW n \in Nodes,
           ToSet(dependencies(n)) \subseteq ToSet(l)
    PROVE  Preceded(Append(l, n))
<1>1. /\ Len(l) \in Nat /\ DOMAIN l = 1..Len(l) /\ DOMAIN Append(l, n) = 1..(Len(l) + 1)
      /\ \A i \in 1..Len(l) : Append(l, n)[i] = l[i]
      /\ Append(l, n)[Len(l) + 1] = n
  BY AppendProperties, LenProperties
<1>2. \A i \in 1..(Len(l) + 1) : i \in 1..Len(l) \/ i = Len(l) + 1
  BY <1>1
<1>3. \A i \in 1..Len(l) : i \in 1..(Len(l) + 1) /\ i < Len(l) + 1
  BY <1>1
<1> DEFINE r == Append(l, n)
<1>7. DOMAIN r = 1..(Len(l) + 1)
  BY <1>1
<1> SUFFICES ASSUME NEW i \in DOMAIN r, NEW m \in ToSet(dependencies(r[i]))
             PROVE  \E j \in DOMAIN r : j < i /\ r[j] = m
  BY DEF Preceded
<1>4. CASE i \in 1..Len(l)
  <2>1. m \in ToSet(dependencies(l[i]))
    BY <1>1, <1>4
  <2>2. PICK j \in 1..Len(l) : j < i /\ l[j] = m
    BY <1>1, <1>4, <2>1 DEF Preceded
  <2> QED
    BY <1>1, <1>3, <1>7, <2>2
<1>5. CASE i = Len(l) + 1
  <2>1. m \in ToSet(l)
    BY <1>1, <1>5
  <2>2. PICK j \in 1..Len(l) : l[j] = m
    BY <1>1, <2>1 DEF ToSet
  <2> QED
    BY <1>1, <1>3, <1>5, <1>7, <2>2
<1> QED
  BY <1>2, <1>4, <1>5

\* A visit brings the migration into the list, after what it depends on, within
\* visits of migrations that depend on it.
LEMMA VisitOrders ==
    ASSUME FilesTyped, NEW rank \in [Nodes -> Nat], Ranked(rank),
           NEW n \in nodes, NEW V \in SUBSET Nodes, \A v \in V : rank[n] < rank[v],
           NEW out \in Seq(Nodes), Preceded(out), Once(out), ToSet(out) \subseteq nodes
    PROVE  visit[V][n][out] \in Reached(out) /\ n \in ToSet(visit[V][n][out])
<1> DEFINE Fits(m, W, l) == /\ \A v \in W : rank[m] < rank[v]
                            /\ Preceded(l) /\ Once(l) /\ ToSet(l) \subseteq nodes
           Good(m, W, l) == /\ visit[W][m][l] \in Reached(l) /\ m \in ToSet(visit[W][m][l])
                            /\ \A e \in ToSet(visit[W][m][l]) : e \in ToSet(l) \/ rank[e] <= rank[m]
           Bad == {rank[m] : m \in {o \in nodes : \E W \in SUBSET Nodes, l \in Seq(Nodes) :
                                                      Fits(o, W, l) /\ ~ Good(o, W, l)}}
<1>0. nodes \subseteq Nodes
  BY DEF nodes
<1>1. Bad = {}
  <2> SUFFICES ASSUME Bad # {} PROVE FALSE
    OBVIOUS
  <2>1. Bad \in SUBSET Nat
    BY <1>0
  <2>2. PICK k \in Bad : \A j \in Bad : k <= j
    BY <2>1, Smallest
  <2>3. PICK m \in nodes, W \in SUBSET Nodes, l \in Seq(Nodes) :
            rank[m] = k /\ Fits(m, W, l) /\ ~ Good(m, W, l)
    BY <2>2
  <2>4. \A o \in nodes : rank[o] < k =>
            \A X \in SUBSET Nodes, r \in Seq(Nodes) : Fits(o, X, r) => Good(o, X, r)
    <3> SUFFICES ASSUME NEW o \in nodes, rank[o] < k, NEW X \in SUBSET Nodes, NEW r \in Seq(Nodes),
                        Fits(o, X, r), ~ Good(o, X, r)
                 PROVE  FALSE
      OBVIOUS
    <3>1. rank[o] \in Bad
      OBVIOUS
    <3>2. k <= rank[o] /\ k \in Nat /\ rank[o] \in Nat
      BY <2>1, <2>2, <3>1
    <3> QED
      BY <3>2
  <2> HIDE DEF Bad
  <2>5. m \in Nodes /\ m \notin W /\ Exists(m) /\ l \in Reached(l)
    <3>1. ~ rank[m] < rank[m]
      BY <1>0
    <3> QED
      BY <1>0, <2>3, <3>1 DEF nodes, Reached
  <2>6. m \notin ToSet(l)
    <3> SUFFICES ASSUME m \in ToSet(l) PROVE FALSE
      OBVIOUS
    <3>1. visit[W][m][l] = l
      BY <2>5, VisitTyped
    <3> QED
      BY <2>3, <2>5, <3>1
  <2> DEFINE deps == dependencies(m)
             inner == visit[W \cup {m}]
             steps == [i \in DOMAIN deps |-> inner[deps[i]]]
             Lower(r) == \A e \in ToSet(r) : e \in ToSet(l) \/ rank[e] < k
             P == [i \in 0..Len(deps) |->
                      {r \in Reached(l) : Lower(r) /\ \A j \in 1..i : deps[j] \in ToSet(r)}]
             U == [Seq(Nodes) -> Seq(Nodes)]
  <2>7. visit[W][m][l] = Append(Through(steps, l), m)
    <3>1. visit[W][m][l] = Append(Through(Nested(W, m), l), m)
      BY <2>5, <2>6, VisitTyped
    <3> QED
      BY <3>1 DEF Nested
  <2>8. /\ deps \in Seq(Nodes) /\ Len(deps) \in Nat /\ DOMAIN deps = 1..Len(deps)
        /\ \A i \in 1..Len(deps) : deps[i] \in nodes /\ deps[i] \in Nodes /\ rank[deps[i]] < k
    <3>1. deps \in Seq(Nodes) /\ Len(deps) \in Nat /\ DOMAIN deps = 1..Len(deps)
      BY NodeFiles, LenProperties
    <3>2. \A i \in 1..Len(deps) : deps[i] \in ToSet(deps)
      BY <3>1 DEF ToSet
    <3> QED
      BY <1>0, <2>3, <3>1, <3>2 DEF Ranked
  <2>9. \A o \in Nodes : inner[o] \in U
    <3>1. inner \in Visits
      BY <2>5, VisitTyped
    <3> QED
      BY <3>1 DEF Visits
  <2>10. /\ steps \in Seq(U) /\ Len(steps) = Len(deps)
         /\ \A i \in 1..Len(deps) : steps[i] = inner[deps[i]]
    <3>1. \A i \in 1..Len(deps) : steps[i] = inner[deps[i]]
      BY <2>8
    <3>2. steps \in [1..Len(deps) -> U]
      <4> HIDE DEF inner, U
      <4> QED
        BY <2>8, <2>9
    <3> HIDE DEF steps, U, deps
    <3>5. Len(deps) \in Nat
      BY <2>8
    <3>3. steps \in Seq(U)
      BY <3>2, <3>5, SequenceOf
    <3>4. Len(steps) = Len(deps)
      BY <2>8, <3>2, <3>3, LenProperties
    <3> QED
      BY <3>1, <3>3, <3>4
  <2>11. \A i \in 1..Len(deps) : \A r \in P[i - 1] : steps[i][r] \in P[i]
    <3> SUFFICES ASSUME NEW i \in 1..Len(deps), NEW r \in P[i - 1] PROVE steps[i][r] \in P[i]
      OBVIOUS
    <3>1. i - 1 \in 0..Len(deps) /\ i \in 0..Len(deps) /\ \A j \in 1..i : j \in 1..(i - 1) \/ j = i
      BY <2>8
    <3>2. r \in Reached(l) /\ Lower(r) /\ \A j \in 1..(i - 1) : deps[j] \in ToSet(r)
      BY <3>1
    <3>3. deps[i] \in nodes /\ deps[i] \in Nodes /\ rank[deps[i]] < k
      BY <2>8
    <3>4. r \in Seq(Nodes) /\ Fits(deps[i], W \cup {m}, r)
      <4>1. \A v \in W \cup {m} : rank[deps[i]] < rank[v]
        <5> SUFFICES ASSUME NEW v \in W \cup {m} PROVE rank[deps[i]] < rank[v]
          OBVIOUS
        <5>1. v \in Nodes /\ rank[v] \in Nat /\ rank[deps[i]] \in Nat /\ rank[m] \in Nat
          BY <2>5, <3>3
        <5>2. v = m \/ rank[m] < rank[v]
          BY <2>3
        <5> QED
          BY <2>3, <3>3, <5>1, <5>2
      <4> QED
        BY <3>2, <4>1 DEF Reached
    <3>5. Good(deps[i], W \cup {m}, r)
      <4>1. W \cup {m} \in SUBSET Nodes
        BY <2>5
      <4> HIDE DEF Fits, Good
      <4> QED
        BY <2>4, <3>3, <3>4, <4>1
    <3>6. steps[i][r] \in Reached(r) /\ deps[i] \in ToSet(steps[i][r])
      BY <2>10, <3>5
    <3>7. steps[i][r] \in Reached(l) /\ \A j \in 1..i : deps[j] \in ToSet(steps[i][r])
      BY <3>1, <3>2, <3>6 DEF Reached
    <3>8. Lower(steps[i][r])
      <4> SUFFICES ASSUME NEW e \in ToSet(steps[i][r]), e \notin ToSet(r) PROVE rank[e] < k
        BY <3>2
      <4>1. rank[e] <= rank[deps[i]]
        BY <2>10, <3>5
      <4>2. e \in nodes
        BY <3>7 DEF Reached
      <4>3. rank[e] \in Nat /\ rank[deps[i]] \in Nat /\ k \in Nat
        BY <1>0, <2>3, <3>3, <4>2
      <4> QED
        BY <3>3, <4>1, <4>3
    <3>9. P[i] = {s \in Reached(l) : Lower(s) /\ \A j \in 1..i : deps[j] \in ToSet(s)}
      BY <3>1
    <3> HIDE DEF P, steps, deps, Lower
    <3> QED
      BY <3>7, <3>8, <3>9
  <2>12. P \in [0..Len(steps) -> SUBSET Seq(Nodes)] /\ l \in P[0] /\ Len(steps) \in 0..Len(steps)
    BY <2>5, <2>8, <2>10 DEF Reached
  <2>13. Through(steps, l) \in P[Len(steps)]
    <3> HIDE DEF P, steps, inner
    <3>1. steps \in Seq([Seq(Nodes) -> Seq(Nodes)])
      BY <2>10
    <3>2. \A i \in 1..Len(steps) : \A r \in P[i - 1] : steps[i][r] \in P[i]
      BY <2>10, <2>11
    <3> QED
      BY <2>12, <3>1, <3>2, ThroughReaches
  <2> DEFINE r == Through(steps, l)
  <2>14. r \in Reached(l) /\ Lower(r) /\ \A j \in 1..Len(deps) : deps[j] \in ToSet(r)
    <3> HIDE DEF steps, Lower
    <3> QED
      BY <2>8, <2>10, <2>13
  <2> HIDE DEF r, P, steps, inner
  <2>15. ToSet(deps) \subseteq ToSet(r)
    BY <2>8, <2>14 DEF ToSet
  <2>16. /\ r \in Seq(Nodes) /\ Preceded(r) /\ Once(r)
         /\ ToSet(l) \subseteq ToSet(r) /\ ToSet(r) \subseteq nodes
    BY <2>14 DEF Reached
  <2>17. m \notin ToSet(r)
    BY <1>0, <2>3, <2>6, <2>14
  <2>18. Append(r, m) \in Seq(Nodes) /\ Preceded(Append(r, m)) /\ Once(Append(r, m))
    BY <2>5, <2>15, <2>16, <2>17, AppendOnce, AppendPreceded, AppendProperties
  <2>19. \A e : e \in ToSet(Append(r, m)) <=> e \in ToSet(r) \/ e = m
    BY <2>5, <2>16, AppendElements
  <2>20. Append(r, m) \in Reached(l) /\ m \in ToSet(Append(r, m))
    BY <2>16, <2>18, <2>19 DEF Reached
  <2>21. visit[W][m][l] = Append(r, m)
    BY <2>7 DEF r
  <2>22. \A e \in ToSet(Append(r, m)) : e \in ToSet(l) \/ rank[e] <= rank[m]
    <3> SUFFICES ASSUME NEW e \in ToSet(r), e \notin ToSet(l) PROVE rank[e] <= rank[m]
      BY <1>0, <2>3, <2>19
    <3>1. rank[e] \in Nat /\ rank[m] \in Nat
      BY <1>0, <2>3, <2>16
    <3> QED
      BY <2>3, <2>14, <3>1
  <2> QED
    BY <2>3, <2>20, <2>21, <2>22
<1>2. Fits(n, V, out)
  OBVIOUS
<1>3. Good(n, V, out)
  BY <1>1, <1>2
<1> QED
  BY <1>3

\* The order of the graph: every migration, after what it depends on.
LEMMA OrderedPreceded ==
    ASSUME FilesTyped, NEW rank \in [Nodes -> Nat], Ranked(rank)
    PROVE  Preceded(ordered) /\ Once(ordered) /\ nodes \subseteq ToSet(ordered)
<1> DEFINE steps == [i \in DOMAIN sorted |-> visit[{}][sorted[i]]]
           P == [i \in 0..Len(sorted) |->
                    {r \in Reached(<<>>) : \A j \in 1..i : sorted[j] \in ToSet(r)}]
<1>1. /\ steps \in Seq([Seq(Nodes) -> Seq(Nodes)])
      /\ Len(sorted) \in Nat /\ DOMAIN sorted = 1..Len(sorted) /\ Len(steps) = Len(sorted)
      /\ \A i \in 1..Len(sorted) : sorted[i] \in nodes /\ steps[i] = visit[{}][sorted[i]]
  BY SortedVisits
<1>2. <<>> \in Reached(<<>>)
  BY EmptySeq DEF Reached, ToSet, Preceded, Once
<1>3. \A i \in 1..Len(sorted) : \A r \in P[i - 1] : steps[i][r] \in P[i]
  <2> SUFFICES ASSUME NEW i \in 1..Len(sorted), NEW r \in P[i - 1] PROVE steps[i][r] \in P[i]
    OBVIOUS
  <2>1. i - 1 \in 0..Len(sorted) /\ i \in 0..Len(sorted) /\ \A j \in 1..i : j \in 1..(i - 1) \/ j = i
    BY <1>1
  <2>2. r \in Reached(<<>>) /\ \A j \in 1..(i - 1) : sorted[j] \in ToSet(r)
    BY <2>1
  <2>3. r \in Seq(Nodes) /\ Preceded(r) /\ Once(r) /\ ToSet(r) \subseteq nodes
    BY <2>2 DEF Reached
  <2>4. steps[i][r] \in Reached(r) /\ sorted[i] \in ToSet(steps[i][r])
    <3> HIDE DEF steps, P
    <3>1. visit[{}][sorted[i]][r] \in Reached(r) /\ sorted[i] \in ToSet(visit[{}][sorted[i]][r])
      BY <1>1, <2>3, VisitOrders
    <3> QED
      BY <1>1, <3>1
  <2>5. steps[i][r] \in Reached(<<>>) /\ \A j \in 1..i : sorted[j] \in ToSet(steps[i][r])
    BY <2>1, <2>2, <2>4 DEF Reached
  <2> QED
    BY <2>1, <2>5
<1>4. P \in [0..Len(sorted) -> SUBSET Seq(Nodes)] /\ <<>> \in P[0] /\ Len(sorted) \in 0..Len(sorted)
  BY <1>1, <1>2 DEF Reached
<1>5. ordered = Through(steps, <<>>)
  BY DEF ordered
<1>6. ordered \in P[Len(sorted)]
  <2> HIDE DEF steps, P
  <2>1. P \in [0..Len(steps) -> SUBSET Seq(Nodes)]
    BY <1>1, <1>4
  <2>2. \A i \in 1..Len(steps) : \A r \in P[i - 1] : steps[i][r] \in P[i]
    BY <1>1, <1>3
  <2>3. <<>> \in Seq(Nodes)
    BY EmptySeq
  <2> QED
    BY <1>1, <1>4, <1>5, <2>1, <2>2, <2>3, ThroughReaches
<1>7. ordered \in Reached(<<>>) /\ \A j \in 1..Len(sorted) : sorted[j] \in ToSet(ordered)
  BY <1>4, <1>6
<1>8. ToSet(sorted) \subseteq ToSet(ordered)
  BY <1>1, <1>7 DEF ToSet
<1> QED
  BY <1>7, <1>8, SortedTyped DEF Reached

\* A migration without a label before it: what is not recorded, in that order.
LEMMA PendingPreceded ==
    ASSUME FilesTyped, NEW rank \in [Nodes -> Nat], Ranked(rank),
           NEW q, q.app = AllApps, ~ q.target > 0
    PROVE  \A i \in DOMAIN pending(q) : \A m \in ToSet(dependencies(pending(q)[i])) :
               m \in Recorded \/ \E j \in DOMAIN pending(q) : j < i /\ pending(q)[j] = m
<1> DEFINE due == {n \in Nodes \ Recorded : q.app \in {AllApps, n[1]}}
<1>1. pending(q) = Only(ordered, due)
  BY DEF pending
<1>2. ordered \in Seq(Nodes) /\ ToSet(ordered) \subseteq nodes
  BY OrderedTyped
<1>3. Preceded(ordered)
  BY OrderedPreceded
<1>4. PICK at \in [DOMAIN Only(ordered, due) -> DOMAIN ordered] :
        /\ \A i \in DOMAIN Only(ordered, due) : Only(ordered, due)[i] = ordered[at[i]]
        /\ \A j \in DOMAIN ordered : ordered[j] \in due => \E i \in DOMAIN Only(ordered, due) : at[i] = j
        /\ \A i, j \in DOMAIN Only(ordered, due) : i < j => at[i] < at[j]
  BY <1>2, OnlyElements
<1>5. Only(ordered, due) \in Seq(Nodes)
  BY <1>2, OnlyElements
<1> SUFFICES ASSUME NEW i \in DOMAIN Only(ordered, due),
                    NEW m \in ToSet(dependencies(Only(ordered, due)[i])), m \notin Recorded
             PROVE  \E j \in DOMAIN Only(ordered, due) : j < i /\ Only(ordered, due)[j] = m
  BY <1>1
<1>6. at[i] \in DOMAIN ordered /\ Only(ordered, due)[i] = ordered[at[i]]
  BY <1>4
<1>7. PICK k \in DOMAIN ordered : k < at[i] /\ ordered[k] = m
  BY <1>3, <1>6 DEF Preceded
<1>8. m \in Nodes
  BY <1>2, <1>7, ElementOfSeq, LenProperties
<1>9. m \in due
  BY <1>8
<1>10. PICK j \in DOMAIN Only(ordered, due) : at[j] = k
  BY <1>4, <1>7, <1>9
<1>11. i \in Nat /\ j \in Nat /\ at[i] \in Nat /\ at[j] \in Nat
  <2>1. DOMAIN Only(ordered, due) \subseteq Nat
    BY <1>5, LenProperties
  <2>2. DOMAIN ordered \subseteq Nat
    BY <1>2, LenProperties
  <2> QED
    BY <1>6, <1>7, <1>10, <2>1, <2>2
<1>12. j < i
  <2>1. i # j
    BY <1>7, <1>10, <1>11
  <2>2. i < j => at[i] < at[j]
    BY <1>4, <1>10
  <2> QED
    BY <1>7, <1>10, <1>11, <2>1, <2>2
<1> QED
  BY <1>4, <1>7, <1>10, <1>12

-----------------------------------------------------------------------------
\* Model states and the autodetector

States == UNION {[T -> Specs] : T \in SUBSET Tables}

LEMMA FieldsTyped ==
    ASSUME NEW f \in Fields
    PROVE  /\ DOMAIN f \subseteq Columns /\ \A c \in DOMAIN f : f[c] \in PyTypes
           /\ \A c \in Columns, p \in PyTypes : Put(f, c, p) \in Fields
           /\ \A c : Without(f, c) \in Fields
           /\ \A c, d \in Columns : renamed(f, c, d) \in Fields
<1>1. DOMAIN f \subseteq Columns /\ \A c \in DOMAIN f : f[c] \in PyTypes
  BY DEF Fields
<1>2. ASSUME NEW g, DOMAIN g \subseteq Columns, g = [x \in DOMAIN g |-> g[x]], \A c \in DOMAIN g : g[c] \in PyTypes
      PROVE  g \in Fields
  <2>1. g \in [DOMAIN g -> PyTypes]
    BY <1>2
  <2> QED
    BY <1>2, <2>1 DEF Fields
<1>3. ASSUME NEW g \in Fields, NEW c \in Columns, NEW p \in PyTypes PROVE Put(g, c, p) \in Fields
  <2>1. DOMAIN g \subseteq Columns /\ \A x \in DOMAIN g : g[x] \in PyTypes
    BY DEF Fields
  <2>2. Put(g, c, p) \in [DOMAIN g \cup {c} -> PyTypes]
    BY <2>1 DEF Put
  <2>3. DOMAIN g \cup {c} \in SUBSET Columns
    BY <2>1
  <2> QED
    BY <2>2, <2>3 DEF Fields
<1>4. ASSUME NEW c PROVE Without(f, c) \in Fields
  <2>1. Without(f, c) \in [DOMAIN f \ {c} -> PyTypes]
    BY <1>1 DEF Without, Restrict
  <2>2. DOMAIN f \ {c} \in SUBSET Columns
    BY <1>1
  <2> QED
    BY <2>1, <2>2 DEF Fields
<1>5. ASSUME NEW c \in Columns, NEW d \in Columns PROVE renamed(f, c, d) \in Fields
  BY <1>1, <1>3, <1>4 DEF renamed
<1> QED
  BY <1>1, <1>3, <1>4, <1>5

LEMMA MutateTyped ==
    ASSUME NEW op \in Operations, NEW s \in States
    PROVE  mutate_state(op, s) \in States
<1>1. /\ DOMAIN s \subseteq Tables /\ s = [t \in DOMAIN s |-> s[t]]
      /\ \A t \in DOMAIN s : s[t] \in Specs
  BY DEF States
<1>2. ASSUME NEW T \in SUBSET Tables, NEW r \in [T -> Specs] PROVE r \in States
  BY DEF States
<1>3. ASSUME op.kind = "CreateTable" PROVE mutate_state(op, s) \in States
  <2>1. op.table \in Tables /\ op.spec \in Specs
    BY <1>3 DEF Operations
  <2>2. mutate_state(op, s) = Put(s, op.table, op.spec)
    BY <1>3 DEF mutate_state
  <2>3. Put(s, op.table, op.spec) \in [DOMAIN s \cup {op.table} -> Specs]
    BY <1>1, <2>1 DEF Put
  <2> QED
    BY <1>1, <1>2, <2>1, <2>2, <2>3
<1>4. ASSUME op.kind = "DeleteTable" PROVE mutate_state(op, s) \in States
  <2>1. mutate_state(op, s) = Without(s, op.table)
    BY <1>4 DEF mutate_state
  <2>2. Without(s, op.table) \in [DOMAIN s \ {op.table} -> Specs]
    BY <1>1 DEF Without, Restrict
  <2> QED
    BY <1>1, <1>2, <2>1, <2>2
<1>5. ASSUME NEW t, NEW f, t \in DOMAIN s => f \in Fields, NEW r, r = [s EXCEPT ![t].fields = f]
      PROVE  r \in States
  <2>1. CASE t \in DOMAIN s
    <3>1. [s[t] EXCEPT !.fields = f] \in Specs
      BY <1>1, <1>5, <2>1 DEF Specs
    <3>2. r \in [DOMAIN s -> Specs]
      BY <1>1, <1>5, <3>1
    <3> QED
      BY <1>1, <1>2, <3>2
  <2>2. CASE t \notin DOMAIN s
    BY <1>1, <1>5, <2>2
  <2> QED
    BY <2>1, <2>2
<1>6. ASSUME NEW t \in DOMAIN s PROVE s[t].fields \in Fields
  BY <1>1 DEF Specs
<1>7. ASSUME op.kind \in {"AddField", "AlterField"} PROVE mutate_state(op, s) \in States
  <2> DEFINE t == op.table
             f == Put(s[t].fields, op.name, op.pytype)
  <2>1. op.name \in Columns /\ op.pytype \in PyTypes
    BY <1>7 DEF Operations
  <2>2. t \in DOMAIN s => f \in Fields
    BY <1>6, <2>1, FieldsTyped
  <2>3. mutate_state(op, s) = [s EXCEPT ![t].fields = f]
    BY <1>7 DEF mutate_state
  <2> HIDE DEF t, f
  <2> QED
    BY <1>5, <2>2, <2>3
<1>8. ASSUME op.kind = "RemoveField" PROVE mutate_state(op, s) \in States
  <2> DEFINE t == op.table
             f == Without(s[t].fields, op.name)
  <2>1. t \in DOMAIN s => f \in Fields
    BY <1>6, FieldsTyped
  <2>2. mutate_state(op, s) = [s EXCEPT ![t].fields = f]
    BY <1>8 DEF mutate_state
  <2> HIDE DEF t, f
  <2> QED
    BY <1>5, <2>1, <2>2
<1>9. ASSUME op.kind = "RenameField" PROVE mutate_state(op, s) \in States
  <2> DEFINE t == op.table
             f == renamed(s[t].fields, op.name, op.new_name)
  <2>0. op.name \in Columns /\ op.new_name \in Columns
    BY <1>9 DEF Operations
  <2>1. t \in DOMAIN s => f \in Fields
    BY <1>6, <2>0, FieldsTyped
  <2>2. mutate_state(op, s) = [s EXCEPT ![t].fields = f]
    BY <1>9 DEF mutate_state
  <2> HIDE DEF t, f
  <2> QED
    BY <1>5, <2>1, <2>2
<1>10. ASSUME op.kind \notin {"CreateTable", "DeleteTable", "AddField", "AlterField", "RemoveField", "RenameField"}
       PROVE  mutate_state(op, s) \in States
  BY <1>10 DEF mutate_state
<1> QED
  BY <1>3, <1>4, <1>7, <1>8, <1>9, <1>10

\* The states between operations.
Course(ops, f) ==
    /\ f \in [0..Len(ops) -> States] /\ f[0] = NoTables
    /\ \A i \in 1..Len(ops) : f[i] = mutate_state(ops[i], f[i - 1])
    /\ Fold(ops) = f[Len(ops)]

LEMMA FoldSteps ==
    ASSUME NEW ops \in Seq(Operations)
    PROVE  \E f : Course(ops, f)
<1> DEFINE n == Len(ops)
           steps == [i \in 1..n |-> [s \in States |-> mutate_state(ops[i], s)]]
           U == [States -> States]
           Value(g, i) == IF i = 0 THEN NoTables ELSE mutate_state(ops[i], g[i - 1])
           f == CHOOSE g : g = [i \in 0..n |-> Value(g, i)]
<1>1. n \in Nat /\ \A i \in 1..n : ops[i] \in Operations
  BY LenProperties, ElementOfSeq
<1>2. NoTables \in States
  <2>1. NoTables \in [{} -> Specs]
    BY DEF NoTables
  <2> QED
    BY <2>1 DEF States
<1>3. \A i \in 1..n : steps[i] \in U
  BY <1>1, MutateTyped
<1>4. steps \in Seq(U) /\ Len(steps) = n
  <2>1. steps \in [1..n -> U]
    <3> HIDE DEF U
    <3> QED
      BY <1>3
  <2> HIDE DEF steps, U, n
  <2> QED
    BY <1>1, <2>1, SequenceOf
<1>5. \A i \in 1..n, s \in States : steps[i][s] = mutate_state(ops[i], s)
  OBVIOUS
<1>6. PICK g : Outcomes(States, steps, NoTables, g)
  <2>1. steps \in Seq([States -> States])
    BY <1>4
  <2> HIDE DEF steps
  <2> QED
    BY <1>2, <2>1, ThroughSteps
<1> HIDE DEF steps, U
<1>7. /\ g \in [0..n -> States] /\ g[0] = NoTables
      /\ \A i \in 1..n : g[i] = mutate_state(ops[i], g[i - 1])
  <2>1. /\ g \in [0..n -> States] /\ g[0] = NoTables
        /\ \A i \in 1..n : g[i] = steps[i][g[i - 1]]
    BY <1>4, <1>6 DEF Outcomes
  <2>2. \A i \in 1..n : i - 1 \in 0..n
    BY <1>1
  <2> QED
    BY <1>5, <2>1, <2>2
<1>8. g = [i \in 0..n |-> Value(g, i)]
  BY <1>1, <1>7
<1>9. f = [i \in 0..n |-> Value(f, i)]
  BY <1>8
<1>10. \A i \in 0..n : f[i] = Value(f, i)
  BY <1>9
<1>11. Fold(ops) = f[n]
  BY DEF Fold
<1> HIDE DEF f
<1>12. \A i \in 0..n : f[i] = g[i]
  <2> DEFINE Off == {i \in 0..n : f[i] # g[i]}
  <2> SUFFICES ASSUME Off # {} PROVE FALSE
    OBVIOUS
  <2>1. Off \in SUBSET Nat
    BY <1>1
  <2>2. PICK i \in Off : \A j \in Off : i <= j
    BY <2>1, Smallest
  <2>3. i \in 0..n /\ i # 0
    BY <1>7, <1>10, <2>2
  <2>4. i \in 1..n /\ i - 1 \in 0..n /\ ~ i <= i - 1
    BY <1>1, <2>3
  <2>5. f[i - 1] = g[i - 1]
    BY <2>2, <2>4
  <2> QED
    BY <1>7, <1>10, <2>2, <2>3, <2>4, <2>5
<1>13. f[n] = g[n]
  BY <1>1, <1>12
<1>14. Course(ops, g)
  BY <1>7, <1>11, <1>13 DEF Course
<1> QED
  BY <1>14

LEMMA FoldTyped ==
    ASSUME NEW ops \in Seq(Operations)
    PROVE  Fold(ops) \in States
<1>1. PICK f : Course(ops, f)
  BY FoldSteps
<1>2. Len(ops) \in 0..Len(ops)
  BY LenProperties
<1> QED
  BY <1>1, <1>2 DEF Course

LEMMA AllOperationsTyped ==
    ASSUME FilesTyped, NEW seq \in Seq(nodes)
    PROVE  AllOperations(seq) \in Seq(Operations)
<1> DEFINE lists == [i \in DOMAIN seq |-> operations(seq[i])]
<1>1. Len(seq) \in Nat /\ DOMAIN seq = 1..Len(seq) /\ \A i \in 1..Len(seq) : seq[i] \in nodes
  BY LenProperties, ElementOfSeq
<1>2. lists \in [1..Len(seq) -> Seq(Operations)]
  BY <1>1, NodeFiles
<1>3. AllOperations(seq) = FlattenSeq(lists)
  BY DEF AllOperations
<1> HIDE DEF lists
<1>4. lists \in Seq(Seq(Operations))
  BY <1>1, <1>2, SequenceOf
<1> QED
  BY <1>3, <1>4, FlattenElements

LEMMA DetectFieldsTyped ==
    ASSUME NEW t \in Tables, NEW spec \in Specs, NEW old \in Specs
    PROVE  detect_fields(t, spec, old) \in Seq(Operations)
<1> DEFINE changed == {c \in DOMAIN spec.fields :
                          c \notin DOMAIN old.fields \/ old.fields[c] # spec.fields[c]}
           gone == DOMAIN old.fields \ (DOMAIN spec.fields \cup {old.pk})
           bring(c) == IF c \in DOMAIN old.fields THEN AlterField(t, c, spec.fields[c])
                                                  ELSE AddField(t, c, spec.fields[c])
           first == Only(ColumnOrder, changed)
           last == Only(ColumnOrder, gone)
           one == [i \in DOMAIN first |-> bring(first[i])]
           two == [i \in DOMAIN last |-> RemoveField(t, last[i])]
<1>1. ColumnOrder \in Seq(Columns)
  BY NamesAssumption
<1>2. spec.fields \in Fields
  BY DEF Specs
<1>3. \A c \in changed : bring(c) \in Operations
  <2>1. \A c \in DOMAIN spec.fields : c \in Columns /\ spec.fields[c] \in PyTypes
    BY <1>2, FieldsTyped
  <2>2. \A c \in Columns, p \in PyTypes : AlterField(t, c, p) \in Operations /\ AddField(t, c, p) \in Operations
    BY DEF AlterField, AddField, Operations
  <2> QED
    BY <2>1, <2>2
<1>4. /\ first \in Seq(Columns) /\ Len(first) \in Nat /\ DOMAIN first = 1..Len(first)
      /\ \A i \in DOMAIN first : first[i] \in changed
  <2>1. first \in Seq(Columns) /\ \A i \in DOMAIN first : first[i] \in changed
    <3> HIDE DEF changed
    <3> QED
      BY <1>1, OnlyElements
  <2> HIDE DEF first, changed
  <2> QED
    BY <2>1, LenProperties
<1>5. /\ last \in Seq(Columns) /\ Len(last) \in Nat /\ DOMAIN last = 1..Len(last)
      /\ \A i \in DOMAIN last : last[i] \in Columns
  <2>1. last \in Seq(Columns)
    BY <1>1, OnlyElements
  <2> QED
    BY <2>1, LenProperties, ElementOfSeq
<1>6. detect_fields(t, spec, old) = one \o two
  BY DEF detect_fields
<1>7. one \in Seq(Operations)
  <2> HIDE DEF first, changed, bring
  <2>1. one \in [1..Len(first) -> Operations]
    BY <1>3, <1>4
  <2> HIDE DEF one
  <2> QED
    BY <1>4, <2>1, SequenceOf
<1>8. two \in Seq(Operations)
  <2> HIDE DEF last
  <2>1. \A c \in Columns : RemoveField(t, c) \in Operations
    BY DEF RemoveField, Operations
  <2>2. two \in [1..Len(last) -> Operations]
    BY <1>5, <2>1
  <2> HIDE DEF two
  <2> QED
    BY <1>5, <2>2, SequenceOf
<1> HIDE DEF one, two
<1> QED
  BY <1>6, <1>7, <1>8, ConcatProperties

LEMMA DetectChangesTyped ==
    ASSUME NEW d \in States, NEW h \in States
    PROVE  detect_changes_for_app(d, h) \in Seq(Operations)
<1> DEFINE changes(t) == IF t \notin DOMAIN h THEN <<CreateTable(t, d[t])>>
                         ELSE detect_fields(t, d[t], h[t])
           kept == Only(TableOrder, DOMAIN d)
           gone == Only(TableOrder, DOMAIN h \ DOMAIN d)
           lists == [i \in DOMAIN kept |-> changes(kept[i])]
           last == [i \in DOMAIN gone |-> DeleteTable(gone[i])]
<1>1. TableOrder \in Seq(Tables)
  BY NamesAssumption
<1>2. \A t \in DOMAIN d : t \in Tables /\ d[t] \in Specs
  BY DEF States
<1>3. \A t \in DOMAIN h : t \in Tables /\ h[t] \in Specs
  BY DEF States
<1>4. ASSUME NEW t \in DOMAIN d PROVE changes(t) \in Seq(Operations)
  <2>1. CreateTable(t, d[t]) \in Operations
    BY <1>2 DEF CreateTable, Operations
  <2>2. <<CreateTable(t, d[t])>> \in Seq(Operations)
    BY <2>1
  <2>3. t \in DOMAIN h => detect_fields(t, d[t], h[t]) \in Seq(Operations)
    BY <1>2, <1>3, DetectFieldsTyped
  <2> QED
    BY <2>2, <2>3
<1>5. /\ kept \in Seq(Tables) /\ Len(kept) \in Nat /\ DOMAIN kept = 1..Len(kept)
      /\ \A i \in DOMAIN kept : kept[i] \in DOMAIN d
  BY <1>1, OnlyElements, LenProperties
<1>6. /\ gone \in Seq(Tables) /\ Len(gone) \in Nat /\ DOMAIN gone = 1..Len(gone)
      /\ \A i \in DOMAIN gone : gone[i] \in Tables
  <2>1. gone \in Seq(Tables)
    BY <1>1, OnlyElements
  <2> QED
    BY <2>1, LenProperties, ElementOfSeq
<1>7. detect_changes_for_app(d, h) = FlattenSeq(lists) \o last
  BY DEF detect_changes_for_app
<1>8. FlattenSeq(lists) \in Seq(Operations)
  <2> HIDE DEF kept, changes
  <2>1. lists \in [1..Len(kept) -> Seq(Operations)]
    BY <1>4, <1>5
  <2> HIDE DEF lists
  <2>2. lists \in Seq(Seq(Operations))
    BY <1>5, <2>1, SequenceOf
  <2> QED
    BY <2>2, FlattenElements
<1>9. last \in Seq(Operations)
  <2> HIDE DEF gone
  <2>1. \A t \in Tables : DeleteTable(t) \in Operations
    BY DEF DeleteTable, Operations
  <2>2. last \in [1..Len(gone) -> Operations]
    BY <1>6, <2>1
  <2> HIDE DEF last
  <2> QED
    BY <1>6, <2>2, SequenceOf
<1> HIDE DEF lists, last
<1> QED
  BY <1>7, <1>8, <1>9, ConcatProperties

\* What is detected can be written to a file.
LEMMA DetectedTyped ==
    ASSUME FilesTyped, NEW a \in Apps, declared[a] \in Declarations[a]
    PROVE  /\ specs(a) \in States /\ app_state(a) \in States
           /\ Detected(a) \in Seq(Operations)
<1>1. declared[a] \in UNION {[T -> Classes] : T \in SUBSET Tables}
  BY DeveloperAssumption
<1>2. \A t \in DOMAIN declared[a] : t \in Tables /\ declared[a][t] \in Classes
  BY <1>1
<1>3. \A t \in DOMAIN declared[a] : table_state_from_dataclass(declared[a][t]) \in Specs
  <2> SUFFICES ASSUME NEW cls \in Classes PROVE table_state_from_dataclass(cls) \in Specs
    BY <1>2
  <2>1. cls.fields \in Fields /\ cls.pk_name \in Columns \cup {NoName}
    BY DEF Classes
  <2>2. "id" \in Columns /\ "int" \in PyTypes
    BY NamesAssumption DEF PyTypes
  <2>3. Put(cls.fields, "id", "int") \in Fields
    BY <2>1, <2>2, FieldsTyped
  <2> QED
    BY <2>1, <2>2, <2>3 DEF table_state_from_dataclass, Specs
<1>4. specs(a) \in [DOMAIN declared[a] -> Specs]
  BY <1>3 DEF specs
<1>5. specs(a) \in States
  <2>1. DOMAIN declared[a] \in SUBSET Tables
    BY <1>2
  <2> QED
    BY <1>4, <2>1 DEF States
<1>6. app_state(a) \in States
  BY ByAppTyped, AllOperationsTyped, FoldTyped DEF app_state
<1> QED
  BY <1>5, <1>6, DetectChangesTyped DEF Detected

-----------------------------------------------------------------------------
\* Types

IsDatabase(d) ==
    /\ d = [tables |-> d.tables, record |-> d.record, data |-> d.data]
    /\ d.record \in Seq(Nodes) /\ ToSet(d.record) \subseteq nodes
    /\ d.data \in [Nodes -> Int]

\* What the command c can be at.
IsCommand(c, r) ==
    /\ r \in CommandType
    /\ ToSet(r.todo) \subseteq nodes
    /\ r.pc # "idle" => r.request \in Requests[c]
    /\ r.pc \in {"next", "apply", "undo"} => r.todo # <<>>
    /\ r.pc = "list" => r.request.target > 0
    /\ r.pc = "apply" => /\ ~ r.back /\ r.request.flag \in {"none", "fake_initial"}
                         /\ r.op \in 1..(Len(operations(Head(r.todo))) + 1)
    /\ r.pc = "undo" => r.op \in 0..Len(operations(Head(r.todo)))

DeclaredTyped ==
    /\ declared = [a \in Apps |-> declared[a]]
    /\ \A a \in Apps : declared[a] \in Declarations[a]

DatabaseInv ==
    /\ IsDatabase(db) /\ IsDatabase(work) /\ work.record = db.record
    /\ lock = NoCommand => work = db

CommandInv ==
    /\ cmd = [c \in Commands |-> cmd[c]]
    /\ \A c \in Commands : IsCommand(c, cmd[c])

\* The write lock is kept from the first write of a migration to its COMMIT.
LockInv ==
    /\ lock \in Commands \cup {NoCommand}
    /\ lock # NoCommand => cmd[lock].pc = "apply" /\ ~ cmd[lock].fake_this
    /\ \A c \in Commands : cmd[c].pc = "apply" /\ ~ cmd[c].fake_this /\ lock # c => cmd[c].op = 1

TypeInv ==
    /\ DeclaredTyped /\ FilesTyped
    /\ DatabaseInv /\ CommandInv /\ LockInv
    /\ loose \subseteq Apps /\ unordered \in BOOLEAN

LEMMA IdleTyped == \A c \in Commands : IsCommand(c, Idle) /\ Idle.pc = "idle"
<1>1. Idle \in CommandType
  BY EmptySeq DEF Idle, CommandType
<1>2. ToSet(Idle.todo) = {}
  BY DEF Idle, ToSet
<1> QED
  BY <1>1, <1>2 DEF Idle, IsCommand

LEMMA DoingTyped ==
    ASSUME FilesTyped, NEW c \in Commands, IsCommand(c, cmd[c]), cmd[c].pc \in {"next", "apply", "undo"}
    PROVE  /\ Doing(c) \in nodes /\ Doing(c) \in Nodes /\ Application(c) \in Apps
           /\ operations(Doing(c)) \in Seq(Operations)
           /\ Len(operations(Doing(c))) \in Nat
           /\ DOMAIN operations(Doing(c)) = 1..Len(operations(Doing(c)))
           /\ cmd[c].request \in Requests[c]
           /\ Tail(cmd[c].todo) \in Seq(Nodes) /\ ToSet(Tail(cmd[c].todo)) \subseteq nodes
<1> DEFINE s == cmd[c].todo
<1>1. s \in Seq(Nodes) /\ s # <<>> /\ ToSet(s) \subseteq nodes /\ cmd[c].request \in Requests[c]
  BY DEF IsCommand, CommandType
<1>2. Len(s) \in Nat /\ DOMAIN s = 1..Len(s) /\ Len(s) # 0
  BY <1>1, LenProperties, EmptySeq
<1>3. Head(s) = s[1] /\ 1 \in 1..Len(s)
  BY <1>1, <1>2
<1>4. Head(s) \in nodes
  BY <1>1, <1>2, <1>3 DEF ToSet
<1>5. Tail(s) \in Seq(Nodes) /\ Len(Tail(s)) = Len(s) - 1 /\ \A i \in 1..Len(Tail(s)) : Tail(s)[i] = s[i + 1]
  BY <1>1, HeadTailProperties
<1>6. DOMAIN Tail(s) = 1..(Len(s) - 1) /\ \A i \in 1..(Len(s) - 1) : i + 1 \in 1..Len(s)
  BY <1>2, <1>5, LenProperties
<1>7. ToSet(Tail(s)) \subseteq ToSet(s)
  BY <1>2, <1>5, <1>6 DEF ToSet
<1>8. Head(s) \in Nodes /\ Head(s)[1] \in Apps
  BY <1>4, NodeParts DEF nodes
<1>9. operations(Head(s)) \in Seq(Operations)
  BY <1>4, NodeFiles
<1> QED
  BY <1>1, <1>4, <1>5, <1>7, <1>8, <1>9, LenProperties DEF Doing, Application

LEMMA RequestTyped ==
    ASSUME NEW c \in Commands, NEW q \in Requests[c]
    PROVE  /\ q \in (UNION Range(Requests)) \cup {AllApps}
           /\ q.app \in Apps \cup {AllApps} /\ q.target \in Int
           /\ q.flag \in {"none", "fake", "fake_initial", "dry_run"}
           /\ q.target > 0 => q.app # AllApps /\ q.app \in Apps
<1>1. Requests[c] \in Range(Requests)
  BY RequestAssumption DEF Range
<1>2. q \in [app : Apps \cup {AllApps}, target : Int, flag : {"none", "fake", "fake_initial", "dry_run"}]
  BY RequestAssumption
<1> QED
  BY <1>1, <1>2, TargetAssumption

\* Files that stay, and commands of which one goes on.
LEMMA SameFiles ==
    ASSUME files' = files
    PROVE  /\ nodes' = nodes /\ (FilesTyped <=> FilesTyped')
           /\ \A n : operations(n)' = operations(n) /\ dependencies(n)' = dependencies(n)
<1> QED
  BY DEF nodes, Exists, FilesTyped, operations, dependencies

LEMMA CommandsKept ==
    ASSUME CommandInv, files' = files, NEW c \in Commands, NEW r, IsCommand(c, r),
           cmd' = [cmd EXCEPT ![c] = r]
    PROVE  CommandInv' /\ cmd'[c] = r /\ \A d \in Commands : d # c => cmd'[d] = cmd[d]
<1>1. cmd'[c] = r /\ \A d \in Commands : d # c => cmd'[d] = cmd[d]
  BY DEF CommandInv
<1>2. cmd' = [d \in Commands |-> cmd'[d]]
  BY DEF CommandInv
<1>3. \A d \in Commands : IsCommand(d, cmd'[d])
  BY <1>1 DEF CommandInv
<1>4. nodes' = nodes /\ \A n : operations(n)' = operations(n)
  BY SameFiles
<1>5. \A d \in Commands : IsCommand(d, cmd[d])'
  BY <1>3, <1>4 DEF IsCommand, operations
<1> QED
  BY <1>1, <1>2, <1>5 DEF CommandInv

LEMMA ProceedTyped ==
    ASSUME TypeInv, files' = files, NEW c \in Commands, NEW r \in CommandType, r.request \in Requests[c],
           NEW todo \in Seq(Nodes), ToSet(todo) \subseteq nodes, Proceed(c, r, todo)
    PROVE  /\ CommandInv' /\ cmd'[c].pc \in {"idle", "next"}
           /\ \A d \in Commands : d # c => cmd'[d] = cmd[d]
<1> DEFINE s == IF todo = <<>> THEN Idle
                ELSE [r EXCEPT !.pc = "next", !.todo = todo, !.op = 0, !.fake_this = FALSE]
<1>1. IsCommand(c, s) /\ s.pc \in {"idle", "next"}
  <2>1. CASE todo = <<>>
    BY <2>1, IdleTyped
  <2>2. CASE todo # <<>>
    BY <2>2 DEF IsCommand, CommandType
  <2> QED
    BY <2>1, <2>2
<1>2. cmd' = [cmd EXCEPT ![c] = s]
  BY DEF Proceed, Set
<1> HIDE DEF s
<1> QED
  BY <1>1, <1>2, CommandsKept DEF TypeInv

LEMMA NextTyped ==
    ASSUME TypeInv, files' = files, NEW c \in Commands, cmd[c].pc \in {"next", "apply", "undo"},
           NextMigration(c)
    PROVE  /\ CommandInv' /\ cmd'[c].pc \in {"idle", "next"}
           /\ \A d \in Commands : d # c => cmd'[d] = cmd[d]
<1>1. IsCommand(c, cmd[c])
  BY DEF TypeInv, CommandInv
<1>2. /\ Tail(cmd[c].todo) \in Seq(Nodes) /\ ToSet(Tail(cmd[c].todo)) \subseteq nodes
      /\ cmd[c].request \in Requests[c] /\ cmd[c] \in CommandType
  BY <1>1, DoingTyped DEF TypeInv, IsCommand
<1> QED
  BY <1>2, ProceedTyped DEF NextMigration

\* The lock is free after COMMIT: nobody was within a transaction but who committed.
LEMMA FreeLock ==
    ASSUME TypeInv, NEW c \in Commands, MayWrite(c), lock' = NoCommand,
           cmd'[c].pc # "apply" \/ cmd'[c].fake_this,
           \A d \in Commands : d # c => cmd'[d] = cmd[d]
    PROVE  LockInv'
<1>1. \A d \in Commands : d # c => lock # d
  BY CommandAssumption DEF MayWrite
<1> QED
  BY <1>1 DEF TypeInv, LockInv

LEMMA SameLock ==
    ASSUME TypeInv, NEW c \in Commands, lock' = lock, lock # c,
           cmd'[c].pc = "apply" => cmd'[c].fake_this \/ cmd'[c].op = 1,
           \A d \in Commands : d # c => cmd'[d] = cmd[d]
    PROVE  LockInv'
<1> QED
  BY DEF TypeInv, LockInv

LEMMA CommitTyped ==
    ASSUME TypeInv, files' = files, NEW d, IsDatabase(d), Commit(d)
    PROVE  DatabaseInv'
<1>1. db' = d /\ work' = d
  BY DEF Commit
<1>2. nodes' = nodes
  BY SameFiles
<1> QED
  BY <1>1, <1>2 DEF DatabaseInv, IsDatabase

LEMMA SameDatabase ==
    ASSUME TypeInv, files' = files, UNCHANGED <<db, work, lock>>
    PROVE  DatabaseInv'
<1>1. nodes' = nodes
  BY SameFiles
<1> QED
  BY <1>1 DEF TypeInv, DatabaseInv, IsDatabase

\* What a statement does to the data of its migration.
Change(s) == IF s = Run THEN 1 ELSE IF s = RunBack THEN -1 ELSE 0
SameRecord(d, e) == d.record = e.record

LEMMA ExecuteTyped ==
    ASSUME NEW d, IsDatabase(d), NEW n \in Nodes, NEW s
    PROVE  /\ IsDatabase(Execute(s, n, d))
           /\ SameRecord(Execute(s, n, d), d)
           /\ Execute(s, n, d).tables = Effect(s, d.tables)
           /\ Execute(s, n, d).data = [d.data EXCEPT ![n] = d.data[n] + Change(s)]
<1> DEFINE x == IF s = Run THEN 1 ELSE IF s = RunBack THEN -1 ELSE 0
           e == [tables |-> Effect(s, d.tables), record |-> d.record, data |-> [d.data EXCEPT ![n] = d.data[n] + x]]
<1>1. d = [tables |-> d.tables, record |-> d.record, data |-> d.data] /\ d.data \in [Nodes -> Int]
  BY DEF IsDatabase
<1>2. x \in Int
  OBVIOUS
<1>3. Execute(s, n, d) = e
  <2> HIDE DEF x
  <2>1. Execute(s, n, d) = [d EXCEPT !.tables = Effect(s, d.tables), !.data = [d.data EXCEPT ![n] = d.data[n] + x]]
    BY DEF Execute, x
  <2> QED
    BY <1>1, <2>1
<1> HIDE DEF x
<1>4. [d.data EXCEPT ![n] = d.data[n] + x] \in [Nodes -> Int]
  BY <1>1, <1>2
<1>5. IsDatabase(e)
  BY <1>4 DEF IsDatabase
<1>6. e.record = d.record /\ e.tables = Effect(s, d.tables) /\ e.data = [d.data EXCEPT ![n] = d.data[n] + x]
  OBVIOUS
<1> HIDE DEF e
<1> QED
  BY <1>3, <1>5, <1>6 DEF x, Change, SameRecord

LEMMA TypesKept ==
    ASSUME TypeInv, UNCHANGED fileVars, DatabaseInv', CommandInv', LockInv',
           loose' \subseteq Apps, unordered' \in BOOLEAN
    PROVE  TypeInv'
<1> QED
  BY SameFiles DEF TypeInv, fileVars, DeclaredTyped

LEMMA LooseTyped ==
    ASSUME TypeInv, NEW cond, NEW a \in Apps, LooseIf(cond, a)
    PROVE  loose' \subseteq Apps
<1> QED
  BY DEF TypeInv, LooseIf

LEMMA RecordReplaced ==
    ASSUME NEW t, NEW r, NEW x, NEW s
    PROVE  [[tables |-> t, record |-> r, data |-> x] EXCEPT !.record = s]
               = [tables |-> t, record |-> s, data |-> x]
OBVIOUS

LEMMA AppendRecord ==
    ASSUME NEW d, IsDatabase(d), NEW n \in Nodes, n \in nodes
    PROVE  /\ IsDatabase([d EXCEPT !.record = Append(@, n)])
           /\ [d EXCEPT !.record = Append(@, n)].record = Append(d.record, n)
           /\ [d EXCEPT !.record = Append(@, n)].data = d.data
           /\ [d EXCEPT !.record = Append(@, n)].tables = d.tables
           /\ \A e : e \in ToSet(Append(d.record, n)) <=> e \in ToSet(d.record) \/ e = n
<1> DEFINE e == [tables |-> d.tables, record |-> Append(d.record, n), data |-> d.data]
<1>1. d.record \in Seq(Nodes) /\ ToSet(d.record) \subseteq nodes
  BY DEF IsDatabase
<1>2. Append(d.record, n) \in Seq(Nodes)
  BY <1>1, AppendProperties
<1>3. \A x : x \in ToSet(Append(d.record, n)) <=> x \in ToSet(d.record) \/ x = n
  BY <1>1, AppendElements
<1>4. [d EXCEPT !.record = Append(@, n)] = e
  <2>1. d = [tables |-> d.tables, record |-> d.record, data |-> d.data]
    BY DEF IsDatabase
  <2> QED
    BY <2>1, RecordReplaced
<1>5. IsDatabase(e) /\ e.record = Append(d.record, n) /\ e.data = d.data /\ e.tables = d.tables
  BY <1>2, <1>3 DEF IsDatabase
<1> HIDE DEF e
<1> QED
  BY <1>3, <1>4, <1>5

LEMMA StartTyped ==
    ASSUME TypeInv, NEW c \in Commands, NEW q \in Requests[c], Start(c, q)
    PROVE  TypeInv'
<1> DEFINE r == [Idle EXCEPT !.request = q, !.back = q.target = 0 \/ <<q.app, q.target>> \in Recorded]
<1>1. /\ cmd[c].pc = "idle"
      /\ IF q.target > 0 THEN Set(c, [r EXCEPT !.pc = "list"])
         ELSE Proceed(c, r, IF r.back THEN to_roll_back(q) ELSE pending(q))
      /\ UNCHANGED <<fileVars, db, work, lock, loose, unordered>>
  BY DEF Start
<1>2. r \in CommandType /\ r.request \in Requests[c] /\ r.todo = <<>> /\ r.request = q
  BY RequestTyped, EmptySeq DEF CommandType, Idle
<1>3. /\ to_roll_back(q) \in Seq(Nodes) /\ ToSet(to_roll_back(q)) \subseteq nodes
      /\ pending(q) \in Seq(Nodes) /\ ToSet(pending(q)) \subseteq nodes
  <2>1. db.record \in Seq(Nodes) /\ Recorded \subseteq nodes
    BY DEF TypeInv, DatabaseInv, IsDatabase, Recorded
  <2> QED
    BY <2>1, RequestTyped, ToRollBackTyped, PendingTyped DEF TypeInv
<1>4. CASE q.target > 0
  <2> DEFINE s == [r EXCEPT !.pc = "list"]
  <2>1. s \in CommandType /\ s.pc = "list" /\ s.todo = <<>> /\ s.request = q
    BY <1>2 DEF CommandType
  <2>2. ToSet(<<>>) = {}
    BY DEF ToSet
  <2>3. IsCommand(c, s)
    <3> HIDE DEF s
    <3> QED
      BY <1>4, <2>1, <2>2 DEF IsCommand
  <2>4. cmd' = [cmd EXCEPT ![c] = s]
    BY <1>1, <1>4 DEF Set
  <2> HIDE DEF s
  <2>5. CommandInv' /\ cmd'[c] = s /\ \A d \in Commands : d # c => cmd'[d] = cmd[d]
    BY <1>1, <2>3, <2>4, CommandsKept DEF TypeInv, fileVars
  <2>6. LockInv' /\ DatabaseInv'
    BY <1>1, <2>1, <2>5, SameLock, SameDatabase DEF TypeInv, LockInv, fileVars
  <2> QED
    BY <1>1, <2>5, <2>6, TypesKept DEF TypeInv
<1>5. CASE ~ q.target > 0
  <2> DEFINE todo == IF r.back THEN to_roll_back(q) ELSE pending(q)
  <2>1. todo \in Seq(Nodes) /\ ToSet(todo) \subseteq nodes
    BY <1>3
  <2>2. Proceed(c, r, todo)
    BY <1>1, <1>5
  <2> HIDE DEF r, todo
  <2>3. /\ CommandInv' /\ cmd'[c].pc \in {"idle", "next"}
        /\ \A d \in Commands : d # c => cmd'[d] = cmd[d]
    BY <1>1, <1>2, <2>1, <2>2, ProceedTyped DEF fileVars
  <2>4. lock # c
    BY <1>1, CommandAssumption DEF TypeInv, LockInv
  <2>5. LockInv' /\ DatabaseInv'
    BY <1>1, <2>3, <2>4, SameLock, SameDatabase DEF fileVars
  <2> QED
    BY <1>1, <2>3, <2>5, TypesKept DEF TypeInv
<1> QED
  BY <1>4, <1>5

LEMMA ListTyped ==
    ASSUME TypeInv, NEW c \in Commands, List(c)
    PROVE  TypeInv'
<1> DEFINE q == cmd[c].request
           todo == IF cmd[c].back THEN to_roll_back(q) ELSE pending(q)
<1>1. /\ cmd[c].pc = "list" /\ Proceed(c, cmd[c], todo)
      /\ UNCHANGED <<fileVars, db, work, lock, loose, unordered>>
  BY DEF List
<1>2. cmd[c] \in CommandType /\ q \in Requests[c]
  BY <1>1 DEF TypeInv, CommandInv, IsCommand
<1>3. todo \in Seq(Nodes) /\ ToSet(todo) \subseteq nodes
  <2>1. db.record \in Seq(Nodes) /\ Recorded \subseteq nodes
    BY DEF TypeInv, DatabaseInv, IsDatabase, Recorded
  <2> QED
    BY <1>2, <2>1, RequestTyped, ToRollBackTyped, PendingTyped DEF TypeInv
<1> HIDE DEF todo
<1>4. /\ CommandInv' /\ cmd'[c].pc \in {"idle", "next"}
      /\ \A d \in Commands : d # c => cmd'[d] = cmd[d]
  BY <1>1, <1>2, <1>3, ProceedTyped DEF fileVars
<1>5. lock # c
  BY <1>1, CommandAssumption DEF TypeInv, LockInv
<1>6. LockInv' /\ DatabaseInv'
  BY <1>1, <1>4, <1>5, SameLock, SameDatabase DEF fileVars
<1> QED
  BY <1>1, <1>4, <1>6, TypesKept DEF TypeInv

LEMMA FakeTyped ==
    ASSUME TypeInv, NEW c \in Commands, Fake(c)
    PROVE  TypeInv'
<1>1. /\ cmd[c].pc = "next" /\ lock = NoCommand
      /\ Commit([db EXCEPT !.record = Append(@, Doing(c))])
      /\ LooseIf(TRUE, Application(c)) /\ unordered' = (unordered \/ cmd[c].request.app # AllApps)
      /\ NextMigration(c) /\ UNCHANGED fileVars
  BY DEF Fake, Taking
<1>2. Doing(c) \in nodes /\ Doing(c) \in Nodes /\ Application(c) \in Apps
  BY <1>1, DoingTyped DEF TypeInv, CommandInv
<1>3. DatabaseInv'
  BY <1>1, <1>2, AppendRecord, CommitTyped DEF TypeInv, DatabaseInv, fileVars
<1>4. /\ CommandInv' /\ cmd'[c].pc \in {"idle", "next"}
      /\ \A d \in Commands : d # c => cmd'[d] = cmd[d]
  BY <1>1, NextTyped DEF fileVars
<1>5. LockInv'
  BY <1>1, <1>4, FreeLock DEF MayWrite, Commit
<1> QED
  BY <1>1, <1>2, <1>3, <1>4, <1>5, LooseTyped, TypesKept DEF TypeInv

\* The code that --dry-run calls.
LEMMA DryRunsTyped ==
    ASSUME TypeInv, NEW n \in nodes
    PROVE  LET runs == Cardinality({i \in DOMAIN operations(n) : operations(n)[i].kind = "RunPython"})
           IN  /\ runs \in Nat /\ IsDatabase([db EXCEPT !.data[n] = @ + runs])
               /\ [db EXCEPT !.data[n] = @ + runs].record = db.record
               /\ [db EXCEPT !.data[n] = @ + runs].tables = db.tables
               /\ [db EXCEPT !.data[n] = @ + runs].data = [db.data EXCEPT ![n] = db.data[n] + runs]
<1> DEFINE S == {i \in DOMAIN operations(n) : operations(n)[i].kind = "RunPython"}
           runs == Cardinality(S)
           e == [tables |-> db.tables, record |-> db.record, data |-> [db.data EXCEPT ![n] = db.data[n] + runs]]
<1>1. Len(operations(n)) \in Nat /\ DOMAIN operations(n) = 1..Len(operations(n)) /\ n \in Nodes
  BY NodeFiles, LenProperties DEF TypeInv
<1>2. runs \in Nat
  <2>1. S \in SUBSET (1..Len(operations(n)))
    BY <1>1
  <2> HIDE DEF S
  <2> QED
    BY <1>1, <2>1, RankCounts
<1> HIDE DEF S
<1>3. IsDatabase(db)
  BY DEF TypeInv, DatabaseInv
<1>4. [db EXCEPT !.data[n] = @ + runs] = e
  <2> HIDE DEF runs
  <2>1. [db EXCEPT !.data[n] = @ + runs] = [db EXCEPT !.data = [db.data EXCEPT ![n] = db.data[n] + runs]]
    OBVIOUS
  <2> DEFINE X == [db.data EXCEPT ![n] = db.data[n] + runs]
  <2>2. [db EXCEPT !.data = X] = [tables |-> db.tables, record |-> db.record, data |-> X]
    <3> HIDE DEF X
    <3> QED
      BY <1>3 DEF IsDatabase
  <2> QED
    BY <2>1, <2>2
<1>5. [db.data EXCEPT ![n] = db.data[n] + runs] \in [Nodes -> Int]
  <2> HIDE DEF runs
  <2> QED
    BY <1>1, <1>2, <1>3 DEF IsDatabase
<1>6. IsDatabase(e) /\ e.record = db.record /\ e.tables = db.tables /\ e.data = [db.data EXCEPT ![n] = db.data[n] + runs]
  BY <1>3, <1>5 DEF IsDatabase
<1>7. runs \in Nat /\ IsDatabase([db EXCEPT !.data[n] = @ + runs])
      /\ [db EXCEPT !.data[n] = @ + runs].record = db.record
      /\ [db EXCEPT !.data[n] = @ + runs].tables = db.tables
      /\ [db EXCEPT !.data[n] = @ + runs].data = [db.data EXCEPT ![n] = db.data[n] + runs]
  <2> HIDE DEF e, runs
  <2> QED
    BY <1>2, <1>4, <1>6
<1> QED
  BY <1>7 DEF S

LEMMA DryRunTyped ==
    ASSUME TypeInv, NEW c \in Commands, DryRun(c)
    PROVE  TypeInv'
<1> DEFINE n == Doing(c)
           runs == Cardinality({i \in DOMAIN operations(n) : operations(n)[i].kind = "RunPython"})
<1>1. /\ cmd[c].pc = "next" /\ NextMigration(c) /\ UNCHANGED <<fileVars, unordered>>
      /\ IF cmd[c].back \/ runs = 0 THEN UNCHANGED <<db, work, lock, loose>>
         ELSE /\ lock = NoCommand
              /\ Commit([db EXCEPT !.data[n] = @ + runs])
              /\ LooseIf(TRUE, n[1])
  BY DEF DryRun, Taking
<1>2. n \in nodes /\ n \in Nodes /\ n[1] \in Apps
  BY <1>1, DoingTyped DEF TypeInv, CommandInv, Application
<1>3. IsDatabase([db EXCEPT !.data[n] = @ + runs])
  BY <1>2, DryRunsTyped
<1>4. /\ CommandInv' /\ cmd'[c].pc \in {"idle", "next"}
      /\ \A d \in Commands : d # c => cmd'[d] = cmd[d]
  BY <1>1, NextTyped DEF fileVars
<1> HIDE DEF n, runs
<1>5. CASE cmd[c].back \/ runs = 0
  <2>1. lock # c /\ UNCHANGED <<db, work, lock, loose>>
    BY <1>1, <1>5, CommandAssumption DEF TypeInv, LockInv
  <2>2. LockInv' /\ DatabaseInv'
    BY <1>1, <1>4, <2>1, SameLock, SameDatabase DEF fileVars
  <2> QED
    BY <1>1, <1>4, <2>1, <2>2, TypesKept DEF TypeInv
<1>6. CASE ~ (cmd[c].back \/ runs = 0)
  <2>1. lock = NoCommand /\ Commit([db EXCEPT !.data[n] = @ + runs]) /\ LooseIf(TRUE, n[1])
    BY <1>1, <1>6
  <2>2. DatabaseInv'
    BY <1>1, <1>3, <2>1, CommitTyped DEF fileVars
  <2>3. LockInv'
    BY <1>4, <2>1, FreeLock DEF MayWrite, Commit
  <2> QED
    BY <1>1, <1>2, <1>4, <2>1, <2>2, <2>3, LooseTyped, TypesKept DEF TypeInv
<1> QED
  BY <1>5, <1>6

LEMMA BeginApplyTyped ==
    ASSUME TypeInv, NEW c \in Commands, BeginApply(c)
    PROVE  TypeInv'
<1> DEFINE r == [cmd[c] EXCEPT !.pc = "apply", !.op = 1,
                               !.fake_this = Flag(c) = "fake_initial" /\ all_tables_exist(Doing(c))]
<1>1. /\ cmd[c].pc = "next" /\ ~ cmd[c].back /\ Flag(c) \in {"none", "fake_initial"}
      /\ cmd' = [cmd EXCEPT ![c] = r]
      /\ UNCHANGED <<fileVars, db, work, lock, loose, unordered>>
  BY DEF BeginApply, Taking, Set
<1>2. IsCommand(c, cmd[c])
  BY DEF TypeInv, CommandInv
<1>3. Len(operations(Doing(c))) \in Nat
  BY <1>1, <1>2, DoingTyped DEF TypeInv
<1>4. /\ r \in CommandType /\ r.pc = "apply" /\ r.op = 1 /\ r.todo = cmd[c].todo
      /\ r.request = cmd[c].request /\ r.back = cmd[c].back
  BY <1>2 DEF IsCommand, CommandType
<1>5. IsCommand(c, r)
  <2> HIDE DEF r
  <2>1. 1 \in 1..(Len(operations(Doing(c))) + 1)
    BY <1>3
  <2> QED
    BY <1>1, <1>2, <1>4, <2>1 DEF IsCommand, Doing, Flag
<1> HIDE DEF r
<1>6. CommandInv' /\ cmd'[c] = r /\ \A d \in Commands : d # c => cmd'[d] = cmd[d]
  BY <1>1, <1>5, CommandsKept DEF TypeInv, fileVars
<1>7. lock # c
  BY <1>1, CommandAssumption DEF TypeInv, LockInv
<1>8. LockInv' /\ DatabaseInv'
  BY <1>1, <1>4, <1>6, <1>7, SameLock, SameDatabase DEF fileVars
<1> QED
  BY <1>1, <1>6, <1>8, TypesKept DEF TypeInv

\* The next operation of the migration that is applied.
LEMMA NextOperationTyped ==
    ASSUME TypeInv, files' = files, NEW c \in Commands, cmd[c].pc = "apply", ~ Finished(c),
           Set(c, [cmd[c] EXCEPT !.op = @ + 1])
    PROVE  /\ CommandInv' /\ cmd'[c] = [cmd[c] EXCEPT !.op = @ + 1]
           /\ cmd'[c].pc = "apply" /\ cmd'[c].fake_this = cmd[c].fake_this /\ cmd'[c].todo = cmd[c].todo
           /\ cmd'[c].op = cmd[c].op + 1 /\ cmd[c].op \in 1..Len(operations(Doing(c)))
           /\ cmd'[c].request = cmd[c].request /\ cmd'[c].back = cmd[c].back
           /\ \A d \in Commands : d # c => cmd'[d] = cmd[d]
<1> DEFINE r == [cmd[c] EXCEPT !.op = @ + 1]
<1>1. IsCommand(c, cmd[c])
  BY DEF TypeInv, CommandInv
<1>2. Len(operations(Doing(c))) \in Nat
  BY <1>1, DoingTyped DEF TypeInv
<1>3. cmd[c].op \in 1..Len(operations(Doing(c)))
  BY <1>1, <1>2 DEF IsCommand, Doing, Finished
<1>4. /\ r \in CommandType /\ r.pc = "apply" /\ r.op = cmd[c].op + 1 /\ r.todo = cmd[c].todo
      /\ r.request = cmd[c].request /\ r.back = cmd[c].back /\ r.fake_this = cmd[c].fake_this
  BY <1>1, <1>3 DEF IsCommand, CommandType
<1>5. cmd' = [cmd EXCEPT ![c] = r]
  BY DEF Set
<1>6. cmd[c].op + 1 \in 1..(Len(operations(Doing(c))) + 1)
  BY <1>2, <1>3
<1>7. IsCommand(c, r)
  <2> HIDE DEF r
  <2> QED
    BY <1>1, <1>4, <1>6 DEF IsCommand, Doing
<1>8. CommandInv' /\ cmd'[c] = r /\ \A d \in Commands : d # c => cmd'[d] = cmd[d]
  <2> HIDE DEF r
  <2> QED
    BY <1>5, <1>7, CommandsKept DEF TypeInv
<1> QED
  BY <1>3, <1>4, <1>8

LEMMA SkipOperationTyped ==
    ASSUME TypeInv, NEW c \in Commands, SkipOperation(c)
    PROVE  TypeInv'
<1>1. /\ cmd[c].pc = "apply" /\ ~ Finished(c) /\ cmd[c].fake_this
      /\ Set(c, [cmd[c] EXCEPT !.op = @ + 1])
      /\ UNCHANGED <<fileVars, db, work, lock, loose, unordered>>
  BY DEF SkipOperation
<1>2. /\ CommandInv' /\ cmd'[c].fake_this = cmd[c].fake_this
      /\ \A d \in Commands : d # c => cmd'[d] = cmd[d]
  BY <1>1, NextOperationTyped DEF fileVars
<1>3. lock # c
  BY <1>1, CommandAssumption DEF TypeInv, LockInv
<1>4. LockInv' /\ DatabaseInv'
  BY <1>1, <1>2, <1>3, SameLock, SameDatabase DEF fileVars
<1> QED
  BY <1>1, <1>2, <1>4, TypesKept DEF TypeInv

LEMMA ApplyOperationTyped ==
    ASSUME TypeInv, NEW c \in Commands, ApplyOperation(c)
    PROVE  TypeInv'
<1>1. /\ cmd[c].pc = "apply" /\ ~ Finished(c) /\ ~ cmd[c].fake_this /\ MayWrite(c)
      /\ Write(c, Execute(Forth(c), Doing(c), work))
      /\ Set(c, [cmd[c] EXCEPT !.op = @ + 1]) /\ UNCHANGED <<fileVars, loose, unordered>>
  BY DEF ApplyOperation
<1>2. Doing(c) \in Nodes
  BY <1>1, DoingTyped DEF TypeInv, CommandInv
<1>3. /\ IsDatabase(Execute(Forth(c), Doing(c), work))
      /\ Execute(Forth(c), Doing(c), work).record = work.record
  <2>1. IsDatabase(work)
    BY DEF TypeInv, DatabaseInv
  <2>2. IsDatabase(Execute(Forth(c), Doing(c), work))
    BY <1>2, <2>1, ExecuteTyped
  <2>3. Execute(Forth(c), Doing(c), work).record = work.record
    <3>1. SameRecord(Execute(Forth(c), Doing(c), work), work)
      BY <1>2, <2>1, ExecuteTyped
    <3> QED
      BY <3>1 DEF SameRecord
  <2> QED
    BY <2>2, <2>3
<1>4. lock' = c /\ work' = Execute(Forth(c), Doing(c), work) /\ db' = db
  BY <1>1 DEF Write
<1>5. /\ CommandInv' /\ cmd'[c].pc = "apply" /\ cmd'[c].fake_this = cmd[c].fake_this
      /\ \A d \in Commands : d # c => cmd'[d] = cmd[d]
  BY <1>1, NextOperationTyped DEF fileVars
<1>6. DatabaseInv'
  <2>1. nodes' = nodes
    BY <1>1, SameFiles DEF fileVars
  <2> QED
    BY <1>3, <1>4, <2>1, CommandAssumption DEF TypeInv, DatabaseInv, IsDatabase
<1>7. LockInv'
  <2>1. \A d \in Commands : d # c => lock # d
    BY <1>1, CommandAssumption DEF MayWrite
  <2> QED
    BY <1>1, <1>4, <1>5, <2>1 DEF TypeInv, LockInv
<1> QED
  BY <1>1, <1>5, <1>6, <1>7, TypesKept DEF TypeInv

LEMMA RecordTyped ==
    ASSUME TypeInv, NEW c \in Commands, Record(c)
    PROVE  TypeInv'
<1>1. /\ cmd[c].pc = "apply" /\ MayWrite(c)
      /\ Commit([work EXCEPT !.record = Append(@, Doing(c))])
      /\ unordered' = (unordered \/ cmd[c].request.app # AllApps)
      /\ NextMigration(c) /\ UNCHANGED fileVars
  BY DEF Record
<1>2. loose' \subseteq loose \cup {Application(c)}
  BY DEF Record, LooseIf
<1>3. Doing(c) \in nodes /\ Doing(c) \in Nodes /\ Application(c) \in Apps
  BY <1>1, DoingTyped DEF TypeInv, CommandInv
<1>4. DatabaseInv'
  BY <1>1, <1>3, AppendRecord, CommitTyped DEF TypeInv, DatabaseInv, fileVars
<1>5. /\ CommandInv' /\ cmd'[c].pc \in {"idle", "next"}
      /\ \A d \in Commands : d # c => cmd'[d] = cmd[d]
  BY <1>1, NextTyped DEF fileVars
<1>6. LockInv'
  BY <1>1, <1>5, FreeLock DEF Commit
<1> QED
  BY <1>1, <1>2, <1>3, <1>4, <1>5, <1>6, TypesKept DEF TypeInv

LEMMA BeginRollbackTyped ==
    ASSUME TypeInv, NEW c \in Commands, BeginRollback(c)
    PROVE  TypeInv'
<1> DEFINE r == [cmd[c] EXCEPT !.pc = "undo", !.op = Len(operations(Doing(c)))]
<1>1. /\ cmd[c].pc = "next" /\ cmd' = [cmd EXCEPT ![c] = r]
      /\ UNCHANGED <<fileVars, db, work, lock, loose, unordered>>
  BY DEF BeginRollback, Taking, Set
<1>2. IsCommand(c, cmd[c])
  BY DEF TypeInv, CommandInv
<1>3. Len(operations(Doing(c))) \in Nat
  BY <1>1, <1>2, DoingTyped DEF TypeInv
<1>4. /\ r \in CommandType /\ r.pc = "undo" /\ r.op = Len(operations(Doing(c))) /\ r.todo = cmd[c].todo
      /\ r.request = cmd[c].request
  BY <1>2, <1>3 DEF IsCommand, CommandType
<1>5. IsCommand(c, r)
  <2> HIDE DEF r
  <2> QED
    BY <1>1, <1>2, <1>3, <1>4 DEF IsCommand, Doing
<1> HIDE DEF r
<1>6. CommandInv' /\ cmd'[c] = r /\ \A d \in Commands : d # c => cmd'[d] = cmd[d]
  BY <1>1, <1>5, CommandsKept DEF TypeInv, fileVars
<1>7. lock # c
  BY <1>1, CommandAssumption DEF TypeInv, LockInv
<1>8. LockInv' /\ DatabaseInv'
  BY <1>1, <1>4, <1>6, <1>7, SameLock, SameDatabase DEF fileVars
<1> QED
  BY <1>1, <1>6, <1>8, TypesKept DEF TypeInv

\* The next operation of the migration that is rolled back.
LEMMA OperationBackTyped ==
    ASSUME TypeInv, files' = files, NEW c \in Commands, cmd[c].pc = "undo", cmd[c].op > 0,
           Set(c, [cmd[c] EXCEPT !.op = @ - 1])
    PROVE  /\ CommandInv' /\ cmd'[c].pc = "undo" /\ cmd'[c].todo = cmd[c].todo
           /\ cmd'[c].op = cmd[c].op - 1 /\ cmd[c].op \in 1..Len(operations(Doing(c)))
           /\ cmd'[c].request = cmd[c].request /\ cmd'[c].back = cmd[c].back
           /\ \A d \in Commands : d # c => cmd'[d] = cmd[d]
<1> DEFINE r == [cmd[c] EXCEPT !.op = @ - 1]
<1>1. IsCommand(c, cmd[c])
  BY DEF TypeInv, CommandInv
<1>2. Len(operations(Doing(c))) \in Nat
  BY <1>1, DoingTyped DEF TypeInv
<1>3. cmd[c].op \in 1..Len(operations(Doing(c)))
  BY <1>1, <1>2 DEF IsCommand, Doing
<1>4. /\ r \in CommandType /\ r.pc = "undo" /\ r.op = cmd[c].op - 1 /\ r.todo = cmd[c].todo
      /\ r.request = cmd[c].request /\ r.back = cmd[c].back
  BY <1>1, <1>3 DEF IsCommand, CommandType
<1>5. cmd' = [cmd EXCEPT ![c] = r]
  BY DEF Set
<1>6. cmd[c].op - 1 \in 0..Len(operations(Doing(c)))
  BY <1>2, <1>3
<1>7. IsCommand(c, r)
  <2> HIDE DEF r
  <2> QED
    BY <1>1, <1>4, <1>6 DEF IsCommand, Doing
<1>8. CommandInv' /\ cmd'[c] = r /\ \A d \in Commands : d # c => cmd'[d] = cmd[d]
  <2> HIDE DEF r
  <2> QED
    BY <1>5, <1>7, CommandsKept DEF TypeInv
<1> QED
  BY <1>3, <1>4, <1>8

LEMMA UndoOperationTyped ==
    ASSUME TypeInv, NEW c \in Commands, UndoOperation(c)
    PROVE  TypeInv'
<1>1. /\ cmd[c].pc = "undo" /\ cmd[c].op > 0 /\ lock = NoCommand
      /\ Commit(Execute(Back(c), Doing(c), db))
      /\ Set(c, [cmd[c] EXCEPT !.op = @ - 1]) /\ UNCHANGED <<fileVars, unordered>>
  BY DEF UndoOperation
<1>2. loose' \subseteq loose \cup {Application(c)}
  BY DEF UndoOperation, LooseIf
<1>3. Doing(c) \in Nodes /\ Application(c) \in Apps
  BY <1>1, DoingTyped DEF TypeInv, CommandInv
<1>4. IsDatabase(Execute(Back(c), Doing(c), db))
  BY <1>3, ExecuteTyped DEF TypeInv, DatabaseInv
<1>5. DatabaseInv'
  BY <1>1, <1>4, CommitTyped DEF fileVars
<1>6. CommandInv' /\ cmd'[c].pc = "undo" /\ \A d \in Commands : d # c => cmd'[d] = cmd[d]
  BY <1>1, OperationBackTyped DEF fileVars
<1>7. LockInv'
  BY <1>1, <1>6, FreeLock DEF MayWrite, Commit
<1> QED
  BY <1>1, <1>2, <1>3, <1>5, <1>6, <1>7, TypesKept DEF TypeInv

\* The record without a migration.
LEMMA OnlyRecord ==
    ASSUME NEW d, IsDatabase(d), NEW S
    PROVE  /\ IsDatabase([d EXCEPT !.record = Only(@, S)])
           /\ [d EXCEPT !.record = Only(@, S)].data = d.data
           /\ [d EXCEPT !.record = Only(@, S)].tables = d.tables
           /\ [d EXCEPT !.record = Only(@, S)].record = Only(d.record, S)
           /\ \A e : e \in ToSet(Only(d.record, S)) <=> e \in ToSet(d.record) /\ e \in S
<1> DEFINE e == [tables |-> d.tables, record |-> Only(d.record, S), data |-> d.data]
<1>1. d.record \in Seq(Nodes) /\ ToSet(d.record) \subseteq nodes
  BY DEF IsDatabase
<1>2. /\ Only(d.record, S) \in Seq(Nodes)
      /\ \A x : x \in ToSet(Only(d.record, S)) <=> x \in ToSet(d.record) /\ x \in S
  BY <1>1, OnlySubset
<1>3. [d EXCEPT !.record = Only(@, S)] = e
  <2>1. d = [tables |-> d.tables, record |-> d.record, data |-> d.data]
    BY DEF IsDatabase
  <2> QED
    BY <2>1, RecordReplaced
<1>4. IsDatabase(e) /\ e.data = d.data /\ e.tables = d.tables /\ e.record = Only(d.record, S)
  BY <1>1, <1>2 DEF IsDatabase
<1> HIDE DEF e
<1> QED
  BY <1>2, <1>3, <1>4

LEMMA UnrecordTyped ==
    ASSUME TypeInv, NEW c \in Commands, Unrecord(c)
    PROVE  TypeInv'
<1>1. /\ cmd[c].pc = "undo" /\ lock = NoCommand
      /\ Commit([db EXCEPT !.record = Only(@, Recorded \ {Doing(c)})])
      /\ unordered' = TRUE /\ NextMigration(c) /\ UNCHANGED <<fileVars, loose>>
  BY DEF Unrecord
<1>2. DatabaseInv'
  BY <1>1, OnlyRecord, CommitTyped DEF TypeInv, DatabaseInv, fileVars
<1>3. /\ CommandInv' /\ cmd'[c].pc \in {"idle", "next"}
      /\ \A d \in Commands : d # c => cmd'[d] = cmd[d]
  BY <1>1, NextTyped DEF fileVars
<1>4. LockInv'
  BY <1>1, <1>3, FreeLock DEF MayWrite, Commit
<1> QED
  BY <1>1, <1>2, <1>3, <1>4, TypesKept DEF TypeInv

LEMMA StopTyped ==
    ASSUME TypeInv, NEW c \in Commands, cmd[c].pc \in {"next", "apply", "undo"}, Stop(c)
    PROVE  TypeInv'
<1>1. /\ cmd' = [cmd EXCEPT ![c] = Idle]
      /\ lock' = IF lock = c THEN NoCommand ELSE lock
      /\ work' = IF lock = c THEN db ELSE work
      /\ UNCHANGED <<fileVars, db, unordered>>
  BY DEF Stop, Set
<1>2. loose' \subseteq loose \cup {Application(c)}
  BY DEF Stop, LooseIf
<1>3. Application(c) \in Apps
  BY DoingTyped DEF TypeInv, CommandInv
<1>4. CommandInv' /\ cmd'[c] = Idle /\ \A d \in Commands : d # c => cmd'[d] = cmd[d]
  BY <1>1, IdleTyped, CommandsKept DEF TypeInv, fileVars
<1>5. Idle.pc = "idle"
  BY DEF Idle
<1>6. LockInv'
  BY <1>1, <1>4, <1>5 DEF TypeInv, LockInv
<1>7. DatabaseInv'
  <2>1. nodes' = nodes
    BY <1>1, SameFiles DEF fileVars
  <2> QED
    BY <1>1, <2>1, CommandAssumption DEF TypeInv, DatabaseInv, IsDatabase
<1> QED
  BY <1>1, <1>2, <1>3, <1>4, <1>6, <1>7, TypesKept DEF TypeInv

-----------------------------------------------------------------------------
\* Development

FileType == [dependencies : Seq(Nodes), operations : Seq(Operations)]

\* The files of some applications get one more, with dependencies that exist.
Grows ==
    /\ files' = [a \in Apps |-> files'[a]]
    /\ \A a \in Apps : files'[a] # files[a] =>
           /\ Len(files[a]) < MaxFiles[a]
           /\ \E f \in FileType : ToSet(f.dependencies) \subseteq nodes /\ files'[a] = Append(files[a], f)

LEMMA FilesGrow ==
    ASSUME FilesTyped, Grows
    PROVE  /\ FilesTyped' /\ nodes \subseteq nodes'
           /\ \A n \in nodes : operations(n)' = operations(n) /\ dependencies(n)' = dependencies(n)
           /\ \A n \in nodes' : ToSet(dependencies(n))' \subseteq nodes \/ n \in nodes
<1>1. ASSUME NEW a \in Apps, files'[a] # files[a]
      PROVE  \E f \in FileType :
                /\ ToSet(f.dependencies) \subseteq nodes
                /\ files'[a] \in Seq(FileType)
                /\ Len(files'[a]) = Len(files[a]) + 1 /\ Len(files'[a]) <= MaxFiles[a]
                /\ DOMAIN files[a] = 1..Len(files[a]) /\ Len(files[a]) \in Nat
                /\ DOMAIN files'[a] = 1..(Len(files[a]) + 1)
                /\ \A i \in 1..Len(files[a]) : files'[a][i] = files[a][i]
                /\ files'[a][Len(files[a]) + 1] = f
  <2>1. PICK f \in FileType : ToSet(f.dependencies) \subseteq nodes /\ files'[a] = Append(files[a], f)
    BY <1>1 DEF Grows
  <2>2. files[a] \in Seq(FileType) /\ Len(files[a]) \in Nat /\ DOMAIN files[a] = 1..Len(files[a])
    BY NodeFiles DEF FileType
  <2>3. /\ files'[a] \in Seq(FileType) /\ Len(files'[a]) = Len(files[a]) + 1
        /\ \A i \in 1..Len(files[a]) : files'[a][i] = files[a][i]
        /\ files'[a][Len(files[a]) + 1] = f
    BY <2>1, <2>2, AppendProperties
  <2>4. DOMAIN files'[a] = 1..(Len(files[a]) + 1)
    BY <2>3, LenProperties
  <2>5. Len(files[a]) + 1 <= MaxFiles[a]
    BY <1>1, <2>2, AppAssumption DEF Grows
  <2> QED
    BY <2>1, <2>2, <2>3, <2>4, <2>5
<1>2. \A a \in Apps : files[a] \in Seq(FileType) /\ Len(files[a]) \in 0..MaxFiles[a]
                      /\ DOMAIN files[a] = 1..Len(files[a]) /\ Len(files[a]) \in Nat
  BY NodeFiles DEF FileType, FilesTyped
<1>3. \A a \in Apps : files'[a] \in Seq(FileType) /\ Len(files'[a]) \in 0..MaxFiles[a]
  <2> SUFFICES ASSUME NEW a \in Apps PROVE files'[a] \in Seq(FileType) /\ Len(files'[a]) \in 0..MaxFiles[a]
    OBVIOUS
  <2>1. CASE files'[a] = files[a]
    BY <1>2, <2>1
  <2>2. CASE files'[a] # files[a]
    <3>1. /\ files'[a] \in Seq(FileType) /\ Len(files'[a]) = Len(files[a]) + 1
          /\ Len(files'[a]) <= MaxFiles[a] /\ Len(files[a]) \in Nat
      BY <1>1, <2>2
    <3>2. MaxFiles[a] \in Nat
      BY AppAssumption
    <3> QED
      BY <3>1, <3>2
  <2> QED
    BY <2>1, <2>2
<1>4. FilesTyped'
  <2>1. files' \in [Apps -> Seq(FileType)]
    BY <1>3 DEF Grows
  <2> QED
    BY <1>3, <2>1 DEF FilesTyped, FileType
<1>5. \A a \in Apps : \A i \in DOMAIN files[a] : i \in DOMAIN files'[a] /\ files'[a][i] = files[a][i]
  <2> SUFFICES ASSUME NEW a \in Apps, NEW i \in DOMAIN files[a]
               PROVE  i \in DOMAIN files'[a] /\ files'[a][i] = files[a][i]
    OBVIOUS
  <2>1. CASE files'[a] = files[a]
    BY <2>1
  <2>2. CASE files'[a] # files[a]
    <3>1. /\ DOMAIN files[a] = 1..Len(files[a]) /\ Len(files[a]) \in Nat
          /\ DOMAIN files'[a] = 1..(Len(files[a]) + 1)
          /\ \A j \in 1..Len(files[a]) : files'[a][j] = files[a][j]
      BY <1>1, <2>2
    <3>2. i \in 1..Len(files[a]) /\ i \in 1..(Len(files[a]) + 1)
      BY <3>1
    <3> QED
      BY <3>1, <3>2
  <2> QED
    BY <2>1, <2>2
<1>6. nodes \subseteq nodes'
  BY <1>5, NodeParts DEF nodes, Exists
<1>7. ASSUME NEW n \in nodes PROVE operations(n)' = operations(n) /\ dependencies(n)' = dependencies(n)
  <2>1. n[1] \in Apps /\ n[2] \in DOMAIN files[n[1]]
    BY NodeParts DEF nodes, Exists
  <2>2. files'[n[1]][n[2]] = files[n[1]][n[2]]
    BY <1>5, <2>1
  <2> QED
    BY <2>2 DEF operations, dependencies
<1>8. ASSUME NEW n \in nodes', n \notin nodes PROVE ToSet(dependencies(n))' \subseteq nodes
  <2> DEFINE a == n[1]
  <2>1. n \in Nodes /\ a \in Apps /\ n[2] \in DOMAIN files'[a] /\ n[2] \notin DOMAIN files[a]
    BY <1>8, NodeParts DEF nodes, Exists
  <2>2. files'[a] # files[a]
    BY <2>1
  <2>3. PICK f \in FileType :
            /\ ToSet(f.dependencies) \subseteq nodes
            /\ DOMAIN files[a] = 1..Len(files[a]) /\ Len(files[a]) \in Nat
            /\ DOMAIN files'[a] = 1..(Len(files[a]) + 1)
            /\ files'[a][Len(files[a]) + 1] = f
    <3> HIDE DEF a
    <3> QED
      BY <1>1, <2>1, <2>2
  <2>4. n[2] = Len(files[a]) + 1
    <3> HIDE DEF a
    <3> QED
      BY <2>1, <2>3
  <2>5. dependencies(n)' = f.dependencies
    BY <2>3, <2>4 DEF dependencies
  <2> QED
    BY <2>3, <2>5 DEF ToSet
<1> QED
  BY <1>4, <1>6, <1>7, <1>8

LEMMA ChainTyped ==
    ASSUME FilesTyped, NEW a \in Apps
    PROVE  Chain(a) \in Seq(Nodes) /\ ToSet(Chain(a)) \subseteq nodes
<1>1. CASE files[a] = <<>>
  <2>1. Chain(a) = <<>>
    BY <1>1 DEF Chain
  <2> QED
    BY <2>1, EmptySeq DEF ToSet
<1>2. CASE files[a] # <<>>
  <2>1. Len(files[a]) \in DOMAIN files[a]
    BY <1>2, NodeFiles, EmptySeq
  <2>2. <<a, Len(files[a])>> \in nodes
    BY <2>1, NodeFiles
  <2>3. Chain(a) = <<<<a, Len(files[a])>>>>
    BY <1>2 DEF Chain
  <2>4. <<a, Len(files[a])>> \in Nodes
    BY <2>2 DEF nodes
  <2>5. Chain(a) \in Seq(Nodes) /\ Len(Chain(a)) = 1 /\ Chain(a)[1] = <<a, Len(files[a])>>
    BY <2>3, <2>4
  <2>6. DOMAIN Chain(a) = 1..1
    BY <2>5, LenProperties
  <2> QED
    BY <2>2, <2>5, <2>6 DEF ToSet
<1> QED
  BY <1>1, <1>2

\* While the files are edited no command is under way.
LEMMA QuietKept ==
    ASSUME TypeInv, Quiet, nodes \subseteq nodes', FilesTyped', DeclaredTyped',
           UNCHANGED <<db, work, lock, cmd, loose, unordered>>
    PROVE  TypeInv'
<1>1. \A c \in Commands : IsCommand(c, cmd[c])'
  <2> SUFFICES ASSUME NEW c \in Commands PROVE IsCommand(c, cmd[c])'
    OBVIOUS
  <2>1. cmd'[c] = Idle /\ Idle.pc = "idle" /\ Idle.todo = <<>> /\ IsCommand(c, Idle)
    BY IdleTyped DEF Quiet, Idle
  <2>2. ToSet(<<>>) = {}
    BY DEF ToSet
  <2> QED
    BY <2>1, <2>2 DEF IsCommand
<1>2. CommandInv'
  BY <1>1 DEF TypeInv, CommandInv
<1>3. DatabaseInv'
  BY DEF TypeInv, DatabaseInv, IsDatabase
<1>4. LockInv'
  BY DEF TypeInv, LockInv
<1> QED
  BY <1>2, <1>3, <1>4 DEF TypeInv

LEMMA DeclareTyped ==
    ASSUME TypeInv, NEW a \in Apps, NEW classes \in Declarations[a], Declare(a, classes)
    PROVE  TypeInv'
<1>1. DeclaredTyped'
  BY DEF TypeInv, DeclaredTyped, Declare
<1>2. nodes' = nodes /\ FilesTyped'
  BY SameFiles DEF TypeInv, Declare
<1> QED
  BY <1>1, <1>2, QuietKept DEF Declare

LEMMA MakeGrows ==
    ASSUME TypeInv, NEW labels \in SUBSET Apps, makemigrations(labels)
    PROVE  Grows
<1>1. /\ \A a \in labels : Detected(a) # <<>> => Len(files[a]) < MaxFiles[a]
      /\ files' = [a \in Apps |-> IF a \in labels /\ Detected(a) # <<>>
                                  THEN WithFile(a, Detected(a), Chain(a)) ELSE files[a]]
  BY DEF makemigrations
<1>2. ASSUME NEW a \in Apps, files'[a] # files[a]
      PROVE  /\ Len(files[a]) < MaxFiles[a]
             /\ \E f \in FileType : ToSet(f.dependencies) \subseteq nodes /\ files'[a] = Append(files[a], f)
  <2> DEFINE f == [dependencies |-> Chain(a), operations |-> Detected(a)]
  <2>1. a \in labels /\ Detected(a) # <<>> /\ files'[a] = Append(files[a], f)
    BY <1>1, <1>2 DEF WithFile
  <2>2. Detected(a) \in Seq(Operations)
    BY DetectedTyped DEF TypeInv, DeclaredTyped
  <2>3. Chain(a) \in Seq(Nodes) /\ ToSet(Chain(a)) \subseteq nodes
    BY ChainTyped DEF TypeInv
  <2>4. f \in FileType /\ f.dependencies = Chain(a)
    BY <2>2, <2>3 DEF FileType
  <2> HIDE DEF f
  <2> QED
    BY <1>1, <2>1, <2>3, <2>4
<1> QED
  BY <1>1, <1>2 DEF Grows

LEMMA WriteGrows ==
    ASSUME TypeInv, NEW a \in Apps, NEW ops \in Handwritten[a], NEW others \in Links(a),
           WriteByHand(a, ops, others)
    PROVE  Grows
<1> DEFINE f == [dependencies |-> Chain(a) \o others, operations |-> ops]
<1>1. Len(files[a]) < MaxFiles[a] /\ files' = [files EXCEPT ![a] = Append(files[a], f)]
  BY DEF WriteByHand, WithFile
<1>2. others \in Seq(Nodes) /\ ToSet(others) \subseteq nodes
  <2>1. CASE others = <<>>
    BY <2>1, EmptySeq DEF ToSet
  <2>2. CASE others # <<>>
    <3>1. PICK b \in Apps : others = Chain(b)
      BY <2>2 DEF Links
    <3> QED
      BY <3>1, ChainTyped DEF TypeInv
  <2> QED
    BY <2>1, <2>2
<1>3. Chain(a) \in Seq(Nodes) /\ ToSet(Chain(a)) \subseteq nodes
  BY ChainTyped DEF TypeInv
<1>4. Chain(a) \o others \in Seq(Nodes) /\ ToSet(Chain(a) \o others) \subseteq nodes
  BY <1>2, <1>3, ConcatProperties, ConcatElements
<1>5. ops \in Seq(Operations)
  BY DeveloperAssumption
<1>6. f \in FileType /\ f.dependencies = Chain(a) \o others
  BY <1>4, <1>5 DEF FileType
<1>7. files = [b \in Apps |-> files[b]]
  BY DEF TypeInv, FilesTyped
<1> HIDE DEF f
<1>8. files' = [b \in Apps |-> files'[b]] /\ files'[a] = Append(files[a], f)
      /\ \A b \in Apps : b # a => files'[b] = files[b]
  BY <1>1, <1>7
<1> QED
  BY <1>1, <1>4, <1>6, <1>8 DEF Grows

LEMMA FilesTypedKept ==
    ASSUME TypeInv, Quiet, Grows, UNCHANGED <<declared, db, work, lock, cmd, loose, unordered>>
    PROVE  TypeInv'
<1>1. DeclaredTyped'
  BY DEF TypeInv, DeclaredTyped
<1>2. FilesTyped' /\ nodes \subseteq nodes'
  BY FilesGrow DEF TypeInv
<1> QED
  BY <1>1, <1>2, QuietKept

LEMMA GetTableTyped ==
    ASSUME TypeInv, NEW a \in Apps, get_table(a)
    PROVE  /\ TypeInv' /\ db'.data = db.data /\ db'.record = db.record
           /\ db'.tables = [s \in DOMAIN specs(a) \cup DOMAIN db.tables |->
                               IF s \in DOMAIN specs(a) THEN ddl(specs(a)[s]) ELSE db.tables[s]]
<1> DEFINE t == [s \in DOMAIN specs(a) \cup DOMAIN db.tables |->
                    IF s \in DOMAIN specs(a) THEN ddl(specs(a)[s]) ELSE db.tables[s]]
           e == [tables |-> t, record |-> db.record, data |-> db.data]
<1>1. /\ lock = NoCommand /\ Commit([db EXCEPT !.tables = t])
      /\ LooseIf(TRUE, a) /\ UNCHANGED <<fileVars, cmd, unordered>>
  BY DEF get_table
<1> HIDE DEF t
<1>2. IsDatabase(db)
  BY DEF TypeInv, DatabaseInv
<1>3. [db EXCEPT !.tables = t] = e
  BY <1>2 DEF IsDatabase
<1>4. IsDatabase(e)
  BY <1>2 DEF IsDatabase
<1>5. Commit(e)
  BY <1>1, <1>3
<1>6. DatabaseInv' /\ db' = e
  <2> HIDE DEF e
  <2> QED
    BY <1>1, <1>4, <1>5, CommitTyped DEF fileVars, Commit
<1>7. LockInv'
  BY <1>1 DEF TypeInv, LockInv, Commit
<1>8. CommandInv'
  <2>1. nodes' = nodes /\ \A n : operations(n)' = operations(n)
    BY <1>1, SameFiles DEF fileVars
  <2>2. \A c \in Commands : IsCommand(c, cmd[c])'
    BY <1>1, <2>1 DEF TypeInv, CommandInv, IsCommand, operations
  <2> QED
    BY <1>1, <2>2 DEF TypeInv, CommandInv
<1>9. TypeInv'
  BY <1>1, <1>6, <1>7, <1>8, LooseTyped, TypesKept DEF TypeInv
<1> QED
  BY <1>6, <1>9 DEF t

LEMMA TypeInit == Init => TypeInv
<1> SUFFICES ASSUME Init PROVE TypeInv
  OBVIOUS
<1>1. \A a \in Apps : files[a] = <<>> /\ Len(files[a]) = 0
  BY DEF Init
<1>2. FilesTyped
  BY <1>1, EmptySeq, AppAssumption DEF Init, FilesTyped
<1>3. DeclaredTyped
  BY DEF Init, DeclaredTyped
<1>4. IsDatabase(db) /\ work = db
  <2>1. /\ db = [tables |-> [t \in {} |-> NoName], record |-> <<>>, data |-> [n \in Nodes |-> 0]]
        /\ work = db
    BY DEF Init
  <2>2. ToSet(<<>>) = {} /\ <<>> \in Seq(Nodes)
    BY EmptySeq DEF ToSet
  <2>3. [n \in Nodes |-> 0] \in [Nodes -> Int]
    OBVIOUS
  <2> QED
    BY <2>1, <2>2, <2>3 DEF IsDatabase
<1>5. DatabaseInv
  BY <1>4 DEF DatabaseInv
<1>6. CommandInv /\ \A c \in Commands : cmd[c].pc = "idle"
  BY IdleTyped DEF Init, CommandInv
<1>7. LockInv
  BY <1>6 DEF Init, LockInv
<1> QED
  BY <1>2, <1>3, <1>5, <1>6, <1>7 DEF Init, TypeInv

LEMMA TypeNext == TypeInv /\ [Next]_vars => TypeInv'
<1> SUFFICES ASSUME TypeInv, [Next]_vars PROVE TypeInv'
  OBVIOUS
<1>1. CASE UNCHANGED vars
  <2>1. DatabaseInv' /\ LockInv'
    BY <1>1, SameDatabase DEF vars, TypeInv, LockInv
  <2>2. CommandInv'
    BY <1>1 DEF vars, TypeInv, CommandInv, IsCommand, nodes, Exists, operations
  <2> QED
    BY <1>1, <2>1, <2>2, TypesKept DEF vars, fileVars, TypeInv
<1>2. ASSUME NEW c \in Commands, NEW q \in Requests[c], Start(c, q) PROVE TypeInv'
  BY <1>2, StartTyped
<1>3. ASSUME NEW c \in Commands,
             \/ List(c) \/ Fake(c) \/ DryRun(c)
             \/ BeginApply(c) \/ SkipOperation(c) \/ ApplyOperation(c) \/ Record(c)
             \/ BeginRollback(c) \/ UndoOperation(c) \/ Unrecord(c)
      PROVE  TypeInv'
  BY <1>3, ListTyped, FakeTyped, DryRunTyped, BeginApplyTyped, SkipOperationTyped, ApplyOperationTyped,
     RecordTyped, BeginRollbackTyped, UndoOperationTyped, UnrecordTyped
<1>4. ASSUME NEW c \in Commands, Raise(c) \/ Crash(c) PROVE TypeInv'
  <2>1. Stop(c) /\ cmd[c].pc \in {"next", "apply", "undo"}
    BY <1>4 DEF Raise, Crash, Taking
  <2> QED
    BY <2>1, StopTyped
<1>5. ASSUME NEW labels \in SUBSET Apps, makemigrations(labels) PROVE TypeInv'
  BY <1>5, MakeGrows, FilesTypedKept DEF makemigrations
<1>6. ASSUME NEW a \in Apps, NEW classes \in Declarations[a], Declare(a, classes) PROVE TypeInv'
  BY <1>6, DeclareTyped
<1>7. ASSUME NEW a \in Apps, NEW ops \in Handwritten[a], NEW others \in Links(a), WriteByHand(a, ops, others)
      PROVE  TypeInv'
  BY <1>7, WriteGrows, FilesTypedKept DEF WriteByHand
<1>8. ASSUME NEW a \in Apps, get_table(a) PROVE TypeInv'
  BY <1>8, GetTableTyped
<1> QED
  BY <1>1, <1>2, <1>3, <1>4, <1>5, <1>6, <1>7, <1>8 DEF Next

LEMMA TypeInvariant == Spec => []TypeInv
<1> QED
  BY TypeInit, TypeNext, PTL DEF Spec

\* Whatever commands run, fail or crash at the same time, and whatever is
\* declared and written: a command works on migrations that exist, the write
\* lock belongs to one that is within the transaction of a migration, and
\* without it there is nothing but what is committed.
THEOREM MigrationsTyped == Spec => []TypeOK
<1>1. TypeInv => TypeOK
  BY DEF TypeInv, DeclaredTyped, FilesTyped, DatabaseInv, IsDatabase, CommandInv, IsCommand, LockInv,
         TypeOK
<1> QED
  BY <1>1, TypeInvariant, PTL

-----------------------------------------------------------------------------
\* The data operations of a migration take effect once

\* How many of the first k operations of n change data.
Changed(n, k) == Cardinality({i \in 1..k : operations(n)[i].kind \notin Structural})

HalfUndoneOn(c, n) == HalfUndone(c) /\ Doing(c) = n

\* The data of n is as the record says, or as far as its rollback has come.
DataAt(n) ==
    n[1] \notin loose =>
        /\ (\A c \in Commands : ~ HalfUndoneOn(c, n)) => db.data[n] = IF n \in Recorded THEN Runs(n) ELSE 0
        /\ \A c \in Commands : HalfUndoneOn(c, n) => n \in Recorded /\ db.data[n] = Changed(n, cmd[c].op)

\* Two commands that roll back migrations of one application leave it loose.
Undoers ==
    \A c, d \in Commands :
        HalfUndone(c) /\ HalfUndone(d) /\ Application(c) = Application(d) /\ c # d => Application(c) \in loose

\* What is not committed are the operations of the migration under way.
Uncommitted ==
    lock # NoCommand =>
        \A n \in Nodes :
            work.data[n] = db.data[n] + (IF n = Doing(lock) THEN Changed(n, cmd[lock].op - 1) ELSE 0)

DataInv ==
    /\ \A n \in nodes : DataAt(n)
    /\ Undoers
    /\ \A n \in Nodes \ nodes : db.data[n] = 0
    /\ Uncommitted

LEMMA ChangedSteps ==
    ASSUME NEW n
    PROVE  /\ Changed(n, 0) = 0
           /\ \A k \in Nat \ {0} :
                Changed(n, k) = Changed(n, k - 1) + (IF operations(n)[k].kind \notin Structural THEN 1 ELSE 0)
           /\ \A k \in Nat : Changed(n, k) \in Nat
<1> DEFINE S(k) == {i \in 1..k : operations(n)[i].kind \notin Structural}
<1>1. S(0) = {}
  OBVIOUS
<1>2. \A k \in Nat : IsFiniteSet(S(k)) /\ Cardinality(S(k)) \in Nat
  <2> SUFFICES ASSUME NEW k \in Nat PROVE IsFiniteSet(S(k)) /\ Cardinality(S(k)) \in Nat
    OBVIOUS
  <2>1. IsFiniteSet(1..k) /\ S(k) \subseteq 1..k
    BY FS_Interval
  <2> HIDE DEF S
  <2> QED
    BY <2>1, FS_Subset, FS_CardinalityType
<1>3. ASSUME NEW k \in Nat \ {0}
      PROVE  Cardinality(S(k)) = Cardinality(S(k - 1)) + (IF operations(n)[k].kind \notin Structural THEN 1 ELSE 0)
  <2>1. CASE operations(n)[k].kind \in Structural
    <3>1. S(k) = S(k - 1)
      BY <2>1
    <3>2. k - 1 \in Nat
      OBVIOUS
    <3>3. Cardinality(S(k - 1)) \in Nat
      BY <1>2, <3>2
    <3> HIDE DEF S
    <3> QED
      BY <2>1, <3>1, <3>3
  <2>2. CASE operations(n)[k].kind \notin Structural
    <3>1. S(k) = S(k - 1) \cup {k} /\ k \notin S(k - 1)
      BY <2>2
    <3>2. k - 1 \in Nat /\ IsFiniteSet(S(k - 1))
      BY <1>2
    <3> HIDE DEF S
    <3>3. Cardinality(S(k)) = Cardinality(S(k - 1)) + 1
      BY <3>1, <3>2, FS_AddElement
    <3> QED
      BY <2>2, <3>3
  <2> QED
    BY <2>1, <2>2
<1>4. \A k : Changed(n, k) = Cardinality(S(k))
  BY DEF Changed
<1> HIDE DEF S
<1> QED
  BY <1>1, <1>2, <1>3, <1>4, FS_EmptySet

LEMMA ChangedAll ==
    ASSUME FilesTyped, NEW n \in nodes
    PROVE  Runs(n) = Changed(n, Len(operations(n)))
<1>1. DOMAIN operations(n) = 1..Len(operations(n))
  BY NodeFiles, LenProperties
<1> QED
  BY <1>1 DEF Runs, Changed

\* A statement changes data exactly if its operation is none of the schema.
LEMMA ForthChange ==
    ASSUME NEW op, NEW before
    PROVE  Change(sql_statements(op, before)) = IF op.kind \notin Structural THEN 1 ELSE 0
<1> DEFINE s == sql_statements(op, before)
<1>1. CASE op.kind \notin Structural
  <2>1. s = Run
    BY <1>1 DEF sql_statements, Structural
  <2> QED
    BY <1>1, <2>1 DEF Change
<1>2. CASE op.kind \in Structural
  <2>1. s.sql \in {"create table", "drop table", "add column", "drop column", "rename column", "rebuild", "error"}
    BY <1>2 DEF sql_statements, Structural, Statement, rebuild_statements, KeyError
  <2>2. Run.sql = "run" /\ RunBack.sql = "run back"
    BY DEF Run, RunBack
  <2>3. s # Run /\ s # RunBack
    <3> HIDE DEF s
    <3> QED
      BY <2>1, <2>2
  <2> QED
    BY <1>2, <2>3 DEF Change
<1> QED
  BY <1>1, <1>2

LEMMA BackChange ==
    ASSUME NEW op, NEW before, NEW after
    PROVE  Change(reverse_statements(op, before, after)) = IF op.kind \notin Structural THEN -1 ELSE 0
<1> DEFINE s == reverse_statements(op, before, after)
<1>1. CASE op.kind \notin Structural
  <2>1. s = RunBack
    BY <1>1 DEF reverse_statements, Structural
  <2>2. Run.sql = "run" /\ RunBack.sql = "run back"
    BY DEF Run, RunBack
  <2> QED
    BY <1>1, <2>1, <2>2 DEF Change
<1>2. CASE op.kind \in Structural
  <2>1. s.sql \in {"create table", "drop table", "add column", "drop column", "rename column", "rebuild", "error"}
    BY <1>2 DEF reverse_statements, Structural, Statement, rebuild_statements, KeyError
  <2>2. Run.sql = "run" /\ RunBack.sql = "run back"
    BY DEF Run, RunBack
  <2>3. s # Run /\ s # RunBack
    <3> HIDE DEF s
    <3> QED
      BY <2>1, <2>2
  <2> QED
    BY <1>2, <2>3 DEF Change
<1> QED
  BY <1>1, <1>2

\* What a step of c leaves alone.
LEMMA SameCommand ==
    ASSUME files' = files, NEW d, cmd'[d] = cmd[d]
    PROVE  /\ HalfUndone(d)' <=> HalfUndone(d)
           /\ Doing(d)' = Doing(d) /\ Application(d)' = Application(d)
           /\ \A n : HalfUndoneOn(d, n)' <=> HalfUndoneOn(d, n)
<1> QED
  BY DEF HalfUndone, HalfUndoneOn, Doing, Application, operations

LEMMA DataAtKept ==
    ASSUME files' = files, NEW c \in Commands, \A d \in Commands : d # c => cmd'[d] = cmd[d],
           loose \subseteq loose', NEW n, DataAt(n),
           n[1] \notin loose' =>
              /\ db'.data[n] = db.data[n] /\ (n \in Recorded' <=> n \in Recorded)
              /\ ~ HalfUndoneOn(c, n) /\ ~ HalfUndoneOn(c, n)'
    PROVE  DataAt(n)'
<1> SUFFICES ASSUME n[1] \notin loose'
             PROVE  /\ (\A d \in Commands : ~ HalfUndoneOn(d, n)') =>
                          db'.data[n] = IF n \in Recorded' THEN Runs(n)' ELSE 0
                    /\ \A d \in Commands : HalfUndoneOn(d, n)' =>
                          n \in Recorded' /\ db'.data[n] = Changed(n, cmd[d].op)'
  BY DEF DataAt
<1>1. /\ (\A d \in Commands : ~ HalfUndoneOn(d, n)) => db.data[n] = IF n \in Recorded THEN Runs(n) ELSE 0
      /\ \A d \in Commands : HalfUndoneOn(d, n) => n \in Recorded /\ db.data[n] = Changed(n, cmd[d].op)
  BY DEF DataAt
<1>2. \A d \in Commands : HalfUndoneOn(d, n)' <=> HalfUndoneOn(d, n)
  BY SameCommand
<1>3. Runs(n)' = Runs(n) /\ \A d \in Commands : d # c => Changed(n, cmd[d].op)' = Changed(n, cmd[d].op)
  BY DEF Runs, Changed, operations
<1>4. \A d \in Commands : HalfUndoneOn(d, n) => d # c
  OBVIOUS
<1> QED
  BY <1>1, <1>2, <1>3, <1>4

LEMMA UndoersKept ==
    ASSUME files' = files, NEW c \in Commands, \A d \in Commands : d # c => cmd'[d] = cmd[d],
           loose \subseteq loose', Undoers,
           HalfUndone(c)' => \A d \in Commands \ {c} :
                                HalfUndone(d) /\ Application(d) = Application(c)' => Application(d) \in loose'
    PROVE  Undoers'
<1> SUFFICES ASSUME NEW d \in Commands, NEW e \in Commands, HalfUndone(d)', HalfUndone(e)',
                    Application(d)' = Application(e)', d # e
             PROVE  Application(d)' \in loose'
  BY DEF Undoers
<1>1. \A f \in Commands : f # c => (HalfUndone(f)' <=> HalfUndone(f)) /\ Application(f)' = Application(f)
  BY SameCommand
<1>2. CASE d # c /\ e # c
  BY <1>1, <1>2 DEF Undoers
<1>3. CASE d = c \/ e = c
  BY <1>1, <1>3
<1> QED
  BY <1>2, <1>3

LEMMA UncommittedKept ==
    ASSUME TypeInv, Uncommitted, files' = files, NEW c \in Commands,
           \A d \in Commands : d # c => cmd'[d] = cmd[d], UNCHANGED <<db, work, lock>>, lock # c
    PROVE  Uncommitted'
<1>1. lock \in Commands \cup {NoCommand}
  BY DEF TypeInv, LockInv
<1> SUFFICES ASSUME lock # NoCommand
             PROVE  \A n \in Nodes : work.data[n] =
                        db.data[n] + (IF n = Doing(lock)' THEN Changed(n, cmd[lock].op - 1)' ELSE 0)
  BY DEF Uncommitted
<1>2. cmd'[lock] = cmd[lock]
  BY <1>1
<1>3. Doing(lock)' = Doing(lock)
  BY <1>2, SameCommand
<1>4. \A n : Changed(n, cmd[lock].op - 1)' = Changed(n, cmd[lock].op - 1)
  BY <1>2 DEF Changed, operations
<1> QED
  BY <1>3, <1>4 DEF Uncommitted

\* A step of c that changes no data but what becomes loose.
LEMMA DataKept ==
    ASSUME TypeInv, DataInv, files' = files, NEW c \in Commands,
           \A d \in Commands : d # c => cmd'[d] = cmd[d],
           loose \subseteq loose', ~ HalfUndone(c)', HalfUndone(c) => Application(c) \in loose',
           \A n \in Nodes : n \notin nodes \/ n[1] \notin loose' => db'.data[n] = db.data[n],
           \A n \in nodes : n[1] \notin loose' => (n \in Recorded' <=> n \in Recorded),
           Uncommitted'
    PROVE  DataInv'
<1>1. nodes' = nodes
  BY SameFiles
<1>2. ASSUME NEW n \in nodes PROVE DataAt(n)'
  <2>1. n \in Nodes /\ DataAt(n)
    BY DEF DataInv, nodes
  <2>2. ~ HalfUndoneOn(c, n)'
    BY DEF HalfUndoneOn
  <2>3. n[1] \notin loose' => ~ HalfUndoneOn(c, n)
    BY DEF HalfUndoneOn, Application
  <2> QED
    BY <2>1, <2>2, <2>3, DataAtKept
<1>3. Undoers'
  BY UndoersKept DEF DataInv
<1>4. \A n \in Nodes \ nodes : db'.data[n] = 0
  BY DEF DataInv
<1> QED
  BY <1>1, <1>2, <1>3, <1>4 DEF DataInv

\* A step of c that changes nothing but where it is.
Placed(c) ==
    /\ files' = files /\ \A d \in Commands : d # c => cmd'[d] = cmd[d]
    /\ UNCHANGED <<db, work, lock, loose>>
    /\ lock # c /\ ~ HalfUndone(c) /\ ~ HalfUndone(c)'

LEMMA PlaceKept ==
    ASSUME TypeInv, DataInv, NEW c \in Commands, Placed(c)
    PROVE  DataInv'
<1>1. Uncommitted'
  BY UncommittedKept DEF DataInv, Placed
<1> QED
  BY <1>1, DataKept DEF Recorded, Placed

LEMMA ProceedPlace ==
    ASSUME CommandInv, NEW c \in Commands, NEW r \in CommandType, NEW todo, Proceed(c, r, todo)
    PROVE  /\ cmd'[c].pc \in {"idle", "next"}
           /\ cmd'[c].pc = "next" =>
                 cmd'[c].todo = todo /\ cmd'[c].back = r.back /\ cmd'[c].request = r.request
           /\ \A d \in Commands : d # c => cmd'[d] = cmd[d]
<1> DEFINE s == IF todo = <<>> THEN Idle
                ELSE [r EXCEPT !.pc = "next", !.todo = todo, !.op = 0, !.fake_this = FALSE]
<1>1. /\ s.pc \in {"idle", "next"}
      /\ s.pc = "next" => s.todo = todo /\ s.back = r.back /\ s.request = r.request
  BY DEF CommandType, Idle
<1>2. cmd' = [cmd EXCEPT ![c] = s]
  BY DEF Proceed, Set
<1> HIDE DEF s
<1> QED
  BY <1>1, <1>2 DEF CommandInv

LEMMA StartPlace ==
    ASSUME TypeInv, NEW c \in Commands, NEW q \in Requests[c], Start(c, q)
    PROVE  Placed(c)
<1> DEFINE r == [Idle EXCEPT !.request = q, !.back = q.target = 0 \/ <<q.app, q.target>> \in Recorded]
<1>1. /\ cmd[c].pc = "idle"
      /\ IF q.target > 0 THEN Set(c, [r EXCEPT !.pc = "list"])
         ELSE Proceed(c, r, IF r.back THEN to_roll_back(q) ELSE pending(q))
      /\ UNCHANGED <<fileVars, db, work, lock, loose, unordered>>
  BY DEF Start
<1>2. r \in CommandType
  BY RequestTyped, EmptySeq DEF CommandType, Idle
<1>3. cmd'[c].pc # "undo" /\ \A d \in Commands : d # c => cmd'[d] = cmd[d]
  <2>1. CASE q.target > 0
    <3> DEFINE s == [r EXCEPT !.pc = "list"]
    <3>1. s.pc = "list"
      BY <1>2 DEF CommandType
    <3>2. cmd' = [cmd EXCEPT ![c] = s]
      BY <1>1, <2>1 DEF Set
    <3> HIDE DEF s
    <3> QED
      BY <3>1, <3>2 DEF TypeInv, CommandInv
  <2>2. CASE ~ q.target > 0
    <3> HIDE DEF r
    <3> QED
      BY <1>1, <1>2, <2>2, ProceedPlace DEF TypeInv
  <2> QED
    BY <2>1, <2>2
<1>4. lock # c
  BY <1>1, CommandAssumption DEF TypeInv, LockInv
<1> QED
  BY <1>1, <1>3, <1>4 DEF Placed, HalfUndone, fileVars

LEMMA ListPlace ==
    ASSUME TypeInv, NEW c \in Commands, List(c)
    PROVE  Placed(c)
<1>1. /\ cmd[c].pc = "list" /\ UNCHANGED <<fileVars, db, work, lock, loose, unordered>>
      /\ \E todo : Proceed(c, cmd[c], todo)
  BY DEF List
<1>2. cmd[c] \in CommandType
  BY DEF TypeInv, CommandInv, IsCommand
<1>3. cmd'[c].pc # "undo" /\ \A d \in Commands : d # c => cmd'[d] = cmd[d]
  BY <1>1, <1>2, ProceedPlace DEF TypeInv
<1>4. lock # c
  BY <1>1, CommandAssumption DEF TypeInv, LockInv
<1> QED
  BY <1>1, <1>3, <1>4 DEF Placed, HalfUndone, fileVars

LEMMA FakeData ==
    ASSUME TypeInv, DataInv, NEW c \in Commands, Fake(c)
    PROVE  DataInv'
<1> DEFINE n == Doing(c)
<1>1. /\ cmd[c].pc = "next" /\ lock = NoCommand
      /\ Commit([db EXCEPT !.record = Append(@, n)])
      /\ LooseIf(TRUE, n[1]) /\ NextMigration(c) /\ UNCHANGED fileVars
  BY DEF Fake, Taking, Application
<1>2. n \in nodes /\ n \in Nodes
  BY <1>1, DoingTyped DEF TypeInv, CommandInv
<1>3. cmd'[c].pc # "undo" /\ \A d \in Commands : d # c => cmd'[d] = cmd[d]
  BY <1>1, NextTyped DEF fileVars
<1> HIDE DEF n
<1>4. db'.data = db.data /\ \A m : m \in Recorded' <=> m \in Recorded \/ m = n
  BY <1>1, <1>2, AppendRecord DEF Commit, TypeInv, DatabaseInv, Recorded
<1>5. loose' = loose \cup {n[1]} /\ lock' = NoCommand
  BY <1>1 DEF LooseIf, Commit
<1>6. Uncommitted'
  BY <1>5 DEF Uncommitted
<1> QED
  BY <1>1, <1>3, <1>4, <1>5, <1>6, DataKept DEF HalfUndone, fileVars

LEMMA DryRunData ==
    ASSUME TypeInv, DataInv, NEW c \in Commands, DryRun(c)
    PROVE  DataInv'
<1> DEFINE n == Doing(c)
           runs == Cardinality({i \in DOMAIN operations(n) : operations(n)[i].kind = "RunPython"})
<1>1. /\ cmd[c].pc = "next" /\ NextMigration(c) /\ UNCHANGED <<fileVars, unordered>>
      /\ IF cmd[c].back \/ runs = 0 THEN UNCHANGED <<db, work, lock, loose>>
         ELSE /\ lock = NoCommand
              /\ Commit([db EXCEPT !.data[n] = @ + runs])
              /\ LooseIf(TRUE, n[1])
  BY DEF DryRun, Taking
<1>2. n \in nodes /\ n \in Nodes
  BY <1>1, DoingTyped DEF TypeInv, CommandInv
<1>3. cmd'[c].pc # "undo" /\ \A d \in Commands : d # c => cmd'[d] = cmd[d]
  BY <1>1, NextTyped DEF fileVars
<1>4. /\ [db EXCEPT !.data[n] = @ + runs].record = db.record
      /\ [db EXCEPT !.data[n] = @ + runs].data = [db.data EXCEPT ![n] = db.data[n] + runs]
  BY <1>2, DryRunsTyped
<1> HIDE DEF n, runs
<1>5. CASE cmd[c].back \/ runs = 0
  <2>1. lock # c /\ UNCHANGED <<db, work, lock, loose>>
    BY <1>1, <1>5, CommandAssumption DEF TypeInv, LockInv
  <2> QED
    BY <1>1, <1>3, <2>1, PlaceKept DEF Placed, HalfUndone, fileVars
<1>6. CASE ~ (cmd[c].back \/ runs = 0)
  <2>1. lock' = NoCommand /\ db' = [db EXCEPT !.data[n] = @ + runs] /\ loose' = loose \cup {n[1]}
    BY <1>1, <1>6 DEF Commit, LooseIf
  <2>2. db'.record = db.record /\ db'.data = [db.data EXCEPT ![n] = db.data[n] + runs]
    BY <1>4, <2>1
  <2>3. db.data \in [Nodes -> Int]
    BY DEF TypeInv, DatabaseInv, IsDatabase
  <2>4. \A m \in Nodes : m # n => db'.data[m] = db.data[m]
    BY <2>2, <2>3
  <2>5. Uncommitted'
    BY <2>1 DEF Uncommitted
  <2> QED
    BY <1>1, <1>2, <1>3, <2>1, <2>2, <2>4, <2>5, DataKept DEF HalfUndone, fileVars, Recorded
<1> QED
  BY <1>5, <1>6

LEMMA BeginApplyPlace ==
    ASSUME TypeInv, NEW c \in Commands, BeginApply(c)
    PROVE  Placed(c)
<1>1. cmd[c].pc = "next" /\ UNCHANGED <<fileVars, db, work, lock, loose, unordered>>
  BY DEF BeginApply, Taking
<1>2. cmd[c] \in CommandType /\ cmd = [d \in Commands |-> cmd[d]]
  BY DEF TypeInv, CommandInv, IsCommand
<1>3. PICK x : cmd' = [cmd EXCEPT ![c] = [cmd[c] EXCEPT !.pc = "apply", !.op = 1, !.fake_this = x]]
  BY DEF BeginApply, Set
<1>4. cmd'[c].pc # "undo" /\ \A d \in Commands : d # c => cmd'[d] = cmd[d]
  BY <1>2, <1>3 DEF CommandType
<1>5. lock # c
  BY <1>1, CommandAssumption DEF TypeInv, LockInv
<1> QED
  BY <1>1, <1>4, <1>5 DEF Placed, HalfUndone, fileVars

LEMMA SkipOperationPlace ==
    ASSUME TypeInv, NEW c \in Commands, SkipOperation(c)
    PROVE  Placed(c)
<1>1. /\ cmd[c].pc = "apply" /\ ~ Finished(c) /\ cmd[c].fake_this
      /\ Set(c, [cmd[c] EXCEPT !.op = @ + 1])
      /\ UNCHANGED <<fileVars, db, work, lock, loose, unordered>>
  BY DEF SkipOperation
<1>2. cmd'[c].pc # "undo" /\ \A d \in Commands : d # c => cmd'[d] = cmd[d]
  BY <1>1, NextOperationTyped DEF fileVars
<1>3. lock # c
  BY <1>1, CommandAssumption DEF TypeInv, LockInv
<1> QED
  BY <1>1, <1>2, <1>3 DEF Placed, HalfUndone, fileVars

\* An operation adds to the data of its migration what it counts for.
LEMMA ApplyOperationData ==
    ASSUME TypeInv, DataInv, NEW c \in Commands, ApplyOperation(c)
    PROVE  DataInv'
<1> DEFINE n == Doing(c)
           k == cmd[c].op
<1>1. /\ cmd[c].pc = "apply" /\ ~ Finished(c) /\ ~ cmd[c].fake_this /\ MayWrite(c)
      /\ Write(c, Execute(Forth(c), n, work))
      /\ Set(c, [cmd[c] EXCEPT !.op = @ + 1]) /\ UNCHANGED <<fileVars, loose, unordered>>
  BY DEF ApplyOperation
<1>2. n \in Nodes
  BY <1>1, DoingTyped DEF TypeInv, CommandInv
<1>3. /\ cmd'[c].pc # "undo" /\ \A d \in Commands : d # c => cmd'[d] = cmd[d]
      /\ cmd'[c].todo = cmd[c].todo /\ cmd'[c].op = k + 1 /\ k \in 1..Len(operations(n))
  BY <1>1, NextOperationTyped DEF fileVars
<1>4. k \in Nat \ {0}
  BY <1>1 DEF TypeInv, CommandInv, IsCommand, CommandType
<1>5. Change(Forth(c)) = IF operations(n)[k].kind \notin Structural THEN 1 ELSE 0
  BY ForthChange DEF Forth, Operation
<1>6. /\ lock' = c /\ db' = db
      /\ work'.data = [work.data EXCEPT ![n] = work.data[n] + Change(Forth(c))]
      /\ work.data \in [Nodes -> Int] /\ db.data \in [Nodes -> Int]
  <2>1. IsDatabase(work) /\ IsDatabase(db)
    BY DEF TypeInv, DatabaseInv
  <2>2. Execute(Forth(c), n, work).data = [work.data EXCEPT ![n] = work.data[n] + Change(Forth(c))]
    BY <1>2, <2>1, ExecuteTyped
  <2>3. lock' = c /\ work' = Execute(Forth(c), n, work) /\ db' = db
    BY <1>1 DEF Write
  <2> QED
    BY <2>1, <2>2, <2>3 DEF IsDatabase
<1>7. Doing(c)' = n /\ \A m : Changed(m, cmd[c].op - 1)' = Changed(m, k)
  <2>1. cmd'[c].op - 1 = k
    BY <1>3, <1>4
  <2> QED
    BY <1>1, <1>3, <2>1 DEF Doing, Changed, operations, fileVars
<1>8. \A m \in Nodes : work.data[m] = db.data[m] + (IF m = n THEN Changed(n, k - 1) ELSE 0)
  <2>1. CASE lock = c
    BY <2>1, CommandAssumption DEF DataInv, Uncommitted
  <2>2. CASE lock = NoCommand
    <3>1. work = db /\ k = 1
      BY <1>1, <2>2, CommandAssumption DEF TypeInv, DatabaseInv, LockInv
    <3>2. Changed(n, k - 1) = 0
      BY <3>1, ChangedSteps
    <3> QED
      BY <1>6, <3>1, <3>2
  <2> QED
    BY <1>1, <2>1, <2>2 DEF MayWrite
<1>9. Changed(n, k) = Changed(n, k - 1) + Change(Forth(c)) /\ Changed(n, k - 1) \in Int /\ Change(Forth(c)) \in Int
  BY <1>4, <1>5, ChangedSteps
<1> HIDE DEF n, k
<1>10. Uncommitted'
  <2>1. \A m \in Nodes : work'.data[m] = db.data[m] + (IF m = n THEN Changed(n, k) ELSE 0)
    BY <1>2, <1>6, <1>8, <1>9
  <2> QED
    BY <1>6, <1>7, <2>1, CommandAssumption DEF Uncommitted
<1> QED
  BY <1>1, <1>3, <1>6, <1>10, DataKept DEF HalfUndone, Recorded, fileVars

\* Where a migration is recorded, all of it has been executed.
LEMMA RecordData ==
    ASSUME TypeInv, DataInv, NEW c \in Commands, Record(c)
    PROVE  DataInv'
<1> DEFINE n == Doing(c)
<1>1. /\ cmd[c].pc = "apply" /\ Finished(c) /\ MayWrite(c) /\ ~ Contains(work.record, n)
      /\ Commit([work EXCEPT !.record = Append(@, n)])
      /\ NextMigration(c) /\ UNCHANGED fileVars
  BY DEF Record
<1>2. /\ loose \subseteq loose'
      /\ n[1] \notin loose' => ~ cmd[c].fake_this
  BY DEF Record, LooseIf, Application
<1>3. /\ n \in nodes /\ n \in Nodes /\ Len(operations(n)) \in Nat
      /\ Finished(c) <=> cmd[c].op > Len(operations(n))
      /\ IsCommand(c, cmd[c])
  BY <1>1, DoingTyped DEF TypeInv, CommandInv, Finished
<1>4. cmd[c].op = Len(operations(n)) + 1
  BY <1>1, <1>3 DEF IsCommand, Doing
<1>5. cmd'[c].pc # "undo" /\ \A d \in Commands : d # c => cmd'[d] = cmd[d]
  BY <1>1, NextTyped DEF fileVars
<1>6. n \in Recorded => Contains(work.record, n)
  <2>1. work.record = db.record /\ db.record \in Seq(Nodes)
    BY DEF TypeInv, DatabaseInv, IsDatabase
  <2>2. DOMAIN db.record = 1..Len(db.record)
    BY <2>1, LenProperties
  <2> QED
    BY <2>1, <2>2 DEF Recorded, ToSet, Contains
<1>7. ~ HalfUndone(c) /\ \A m : ~ HalfUndoneOn(c, m) /\ ~ HalfUndoneOn(c, m)'
  BY <1>1, <1>5 DEF HalfUndone, HalfUndoneOn
<1> HIDE DEF n
<1>8. n \notin Recorded
  BY <1>1, <1>6
<1>9. lock' = NoCommand /\ db'.data = work.data /\ \A m : m \in Recorded' <=> m \in Recorded \/ m = n
  <2>1. IsDatabase(work) /\ work.record = db.record
    BY DEF TypeInv, DatabaseInv
  <2>2. lock' = NoCommand /\ db' = [work EXCEPT !.record = Append(@, n)]
    BY <1>1 DEF Commit
  <2> QED
    BY <1>3, <2>1, <2>2, AppendRecord DEF Recorded
<1>10. /\ db.data \in [Nodes -> Int]
       /\ lock = NoCommand => work = db
       /\ lock = c => \A m \in Nodes :
             work.data[m] = db.data[m] + (IF m = n THEN Changed(n, cmd[c].op - 1) ELSE 0)
  BY CommandAssumption DEF TypeInv, DatabaseInv, IsDatabase, DataInv, Uncommitted, n
<1>11. ASSUME NEW m \in Nodes, m # n PROVE db'.data[m] = db.data[m]
  <2>1. CASE lock = NoCommand
    BY <1>9, <1>10, <2>1
  <2>2. CASE lock = c
    <3>1. work.data[m] = db.data[m] + 0
      BY <1>10, <1>11, <2>2
    <3>2. db.data[m] \in Int
      BY <1>10
    <3> QED
      BY <1>9, <3>1, <3>2
  <2> QED
    BY <1>1, <2>1, <2>2 DEF MayWrite
<1>12. ASSUME n[1] \notin loose'
       PROVE  /\ db'.data[n] = Runs(n)
              /\ \A d \in Commands : ~ HalfUndoneOn(d, n)
  <2>1. n[1] \notin loose /\ ~ cmd[c].fake_this
    BY <1>2, <1>12
  <2>2. (\A d \in Commands : ~ HalfUndoneOn(d, n)) /\ db.data[n] = 0
    BY <1>3, <1>8, <2>1 DEF DataInv, DataAt
  <2>3. Runs(n) = Changed(n, Len(operations(n))) /\ Changed(n, Len(operations(n))) \in Nat
    BY <1>3, ChangedAll, ChangedSteps DEF TypeInv
  <2>4. CASE lock = c
    <3>1. work.data[n] = db.data[n] + Changed(n, cmd[c].op - 1)
      BY <1>3, <1>10, <2>4
    <3>2. cmd[c].op - 1 = Len(operations(n))
      BY <1>3, <1>4
    <3> QED
      BY <1>9, <2>2, <2>3, <3>1, <3>2
  <2>5. CASE lock = NoCommand
    <3>1. cmd[c].op = 1
      BY <1>1, <2>1, <2>5, CommandAssumption DEF TypeInv, LockInv
    <3>2. Len(operations(n)) = 0
      BY <1>3, <1>4, <3>1
    <3>3. Runs(n) = 0
      BY <2>3, <3>2, ChangedSteps
    <3> QED
      <4>1. work = db
        BY <1>10, <2>5
      <4> QED
        BY <1>9, <2>2, <3>3, <4>1
  <2> QED
    BY <1>1, <2>2, <2>4, <2>5 DEF MayWrite
<1>13. ASSUME NEW m \in nodes PROVE DataAt(m)'
  <2>1. CASE m = n
    <3>1. \A d \in Commands : d # c => (HalfUndoneOn(d, m)' <=> HalfUndoneOn(d, m))
      BY <1>1, <1>5, SameCommand DEF fileVars
    <3>2. Runs(m)' = Runs(m)
      BY <1>1 DEF Runs, operations, fileVars
    <3>3. m[1] \notin loose' => \A d \in Commands : ~ HalfUndoneOn(d, m)'
      BY <1>7, <1>12, <2>1, <3>1
    <3>4. m \in Recorded' /\ (m[1] \notin loose' => db'.data[m] = Runs(m))
      BY <1>9, <1>12, <2>1
    <3> QED
      BY <3>2, <3>3, <3>4 DEF DataAt
  <2>2. CASE m # n
    <3>1. m \in Nodes /\ DataAt(m)
      BY DEF DataInv, nodes
    <3> QED
      BY <1>1, <1>2, <1>5, <1>7, <1>9, <1>11, <2>2, <3>1, DataAtKept DEF fileVars
  <2> QED
    BY <2>1, <2>2
<1>14. Undoers'
  <2>1. ~ HalfUndone(c)'
    BY <1>5 DEF HalfUndone
  <2> QED
    BY <1>1, <1>2, <1>5, <2>1, UndoersKept DEF DataInv, fileVars
<1>15. nodes' = nodes /\ \A m \in Nodes \ nodes : db'.data[m] = 0
  BY <1>1, <1>3, <1>11, SameFiles DEF DataInv, fileVars
<1>16. Uncommitted'
  BY <1>9 DEF Uncommitted
<1> QED
  BY <1>13, <1>14, <1>15, <1>16 DEF DataInv

LEMMA BeginRollbackPlace ==
    ASSUME TypeInv, NEW c \in Commands, BeginRollback(c)
    PROVE  Placed(c)
<1> DEFINE k == Len(operations(Doing(c)))
<1>1. /\ cmd[c].pc = "next" /\ UNCHANGED <<fileVars, db, work, lock, loose, unordered>>
      /\ cmd' = [cmd EXCEPT ![c] = [cmd[c] EXCEPT !.pc = "undo", !.op = k]]
  BY DEF BeginRollback, Taking, Set
<1>2. cmd[c] \in CommandType /\ cmd = [d \in Commands |-> cmd[d]] /\ k \in Nat
  BY <1>1, DoingTyped DEF TypeInv, CommandInv, IsCommand
<1> HIDE DEF k
<1>3. /\ cmd'[c].op = k /\ cmd'[c].todo = cmd[c].todo /\ \A d \in Commands : d # c => cmd'[d] = cmd[d]
  BY <1>1, <1>2 DEF CommandType
<1>4. Len(operations(Doing(c)))' = k
  BY <1>1, <1>3 DEF k, Doing, operations, fileVars
<1>5. ~ HalfUndone(c) /\ ~ HalfUndone(c)'
  BY <1>1, <1>2, <1>3, <1>4 DEF HalfUndone
<1>6. lock # c
  BY <1>1, CommandAssumption DEF TypeInv, LockInv
<1> QED
  BY <1>1, <1>3, <1>5, <1>6 DEF Placed, fileVars

\* Undoing an operation takes from the data of its migration what it counts for.
LEMMA UndoOperationData ==
    ASSUME TypeInv, DataInv, NEW c \in Commands, UndoOperation(c)
    PROVE  DataInv'
<1> DEFINE n == Doing(c)
           k == cmd[c].op
<1>1. /\ cmd[c].pc = "undo" /\ k > 0 /\ lock = NoCommand
      /\ Commit(Execute(Back(c), n, db))
      /\ Set(c, [cmd[c] EXCEPT !.op = @ - 1]) /\ UNCHANGED <<fileVars, unordered>>
  BY DEF UndoOperation
<1>2. /\ loose \subseteq loose'
      /\ n[1] \notin loose' => n \in Recorded /\ ~ UndoneByOthers(c, n[1])
  BY DEF UndoOperation, LooseIf, Application
<1>3. n \in nodes /\ n \in Nodes /\ Len(operations(n)) \in Nat
  BY <1>1, DoingTyped DEF TypeInv, CommandInv
<1>4. /\ cmd'[c].pc = "undo" /\ cmd'[c].todo = cmd[c].todo /\ cmd'[c].op = k - 1
      /\ k \in 1..Len(operations(n))
      /\ \A d \in Commands : d # c => cmd'[d] = cmd[d]
  BY <1>1, OperationBackTyped DEF fileVars
<1>5. Change(Back(c)) = IF operations(n)[k].kind \notin Structural THEN -1 ELSE 0
  BY BackChange DEF Back, Operation
<1>6. /\ lock' = NoCommand /\ Recorded' = Recorded /\ db.data \in [Nodes -> Int]
      /\ db'.data = [db.data EXCEPT ![n] = db.data[n] + Change(Back(c))]
  <2>1. IsDatabase(db)
    BY DEF TypeInv, DatabaseInv
  <2>2. /\ Execute(Back(c), n, db).data = [db.data EXCEPT ![n] = db.data[n] + Change(Back(c))]
        /\ SameRecord(Execute(Back(c), n, db), db)
    BY <1>3, <2>1, ExecuteTyped
  <2>3. lock' = NoCommand /\ db' = Execute(Back(c), n, db)
    BY <1>1 DEF Commit
  <2> QED
    BY <2>1, <2>2, <2>3 DEF IsDatabase, SameRecord, Recorded
<1>7. Doing(c)' = n /\ Len(operations(Doing(c)))' = Len(operations(n))
  BY <1>1, <1>4 DEF Doing, operations, fileVars
<1>8. HalfUndone(c)' /\ (HalfUndone(c) <=> k < Len(operations(n)))
  BY <1>1, <1>3, <1>4, <1>7 DEF HalfUndone
<1>9. \A m : (HalfUndoneOn(c, m)' <=> m = n) /\ (HalfUndoneOn(c, m) => m = n)
  BY <1>7, <1>8 DEF HalfUndoneOn
<1>10. Application(c)' = n[1]
  BY <1>7 DEF Application
<1>11. UndoneByOthers(c, n[1]) <=> \E d \in Commands \ {c} : HalfUndone(d) /\ Application(d) = n[1]
  BY DEF UndoneByOthers
<1>12. HalfUndone(c) <=> HalfUndoneOn(c, n)
  BY DEF HalfUndoneOn
<1> HIDE DEF n
<1>13. ASSUME n[1] \notin loose'
       PROVE  n \in Recorded /\ db'.data[n] = Changed(n, k - 1)
  <2>1. n \in Recorded /\ n[1] \notin loose /\ DataAt(n)
    BY <1>2, <1>3, <1>13 DEF DataInv
  <2>2. \A d \in Commands : d # c => ~ HalfUndoneOn(d, n)
    BY <1>2, <1>11, <1>13 DEF HalfUndoneOn, Application
  <2>3. db.data[n] = Changed(n, k)
    <3>1. CASE k < Len(operations(n))
      BY <1>8, <1>12, <2>1, <3>1 DEF DataAt
    <3>2. CASE ~ k < Len(operations(n))
      <4>1. k = Len(operations(n))
        BY <1>3, <1>4, <3>2
      <4>2. db.data[n] = Runs(n)
        BY <1>8, <1>12, <2>1, <2>2, <3>2 DEF DataAt
      <4> QED
        BY <1>3, <4>1, <4>2, ChangedAll DEF TypeInv
    <3> QED
      BY <3>1, <3>2
  <2>4. k \in Nat \ {0} /\ k - 1 \in Nat
    BY <1>3, <1>4
  <2>5. Changed(n, k) = Changed(n, k - 1) - Change(Back(c)) /\ Changed(n, k - 1) \in Int /\ Change(Back(c)) \in Int
    BY <1>5, <2>4, ChangedSteps
  <2> HIDE DEF k
  <2> QED
    BY <1>3, <1>6, <2>1, <2>3, <2>5
<1>14. ASSUME NEW m \in nodes PROVE DataAt(m)'
  <2>1. m \in Nodes /\ DataAt(m)
    BY DEF DataInv, nodes
  <2>2. CASE m = n
    <3>1. \A d \in Commands : d # c => (HalfUndoneOn(d, m)' <=> HalfUndoneOn(d, m))
      BY <1>1, <1>4, SameCommand DEF fileVars
    <3>2. Changed(m, cmd[c].op)' = Changed(m, k - 1)
      BY <1>1, <1>4 DEF Changed, operations, fileVars
    <3>3. HalfUndoneOn(c, m)'
      BY <1>9, <2>2
    <3>4. m[1] \notin loose' => \A d \in Commands : d # c => ~ HalfUndoneOn(d, m)'
      BY <1>2, <1>11, <2>2, <3>1 DEF HalfUndoneOn, Application
    <3>5. m[1] \notin loose' => m \in Recorded' /\ db'.data[m] = Changed(m, k - 1)
      BY <1>6, <1>13, <2>2
    <3> HIDE DEF k
    <3> QED
      BY <3>2, <3>3, <3>4, <3>5 DEF DataAt
  <2>3. CASE m # n
    <3>1. db'.data[m] = db.data[m] /\ ~ HalfUndoneOn(c, m) /\ ~ HalfUndoneOn(c, m)'
      BY <1>6, <1>9, <2>1, <2>3
    <3> QED
      BY <1>1, <1>2, <1>4, <1>6, <2>1, <3>1, DataAtKept DEF fileVars
  <2> QED
    BY <2>2, <2>3
<1>15. Undoers'
  <2>1. \A d \in Commands \ {c} : HalfUndone(d) /\ Application(d) = Application(c)' => Application(d) \in loose'
    BY <1>2, <1>10, <1>11
  <2> QED
    BY <1>1, <1>2, <1>4, <2>1, UndoersKept DEF DataInv, fileVars
<1>16. nodes' = nodes /\ \A m \in Nodes \ nodes : db'.data[m] = 0
  BY <1>1, <1>3, <1>6, SameFiles DEF DataInv, fileVars
<1>17. Uncommitted'
  BY <1>6 DEF Uncommitted
<1> QED
  BY <1>14, <1>15, <1>16, <1>17 DEF DataInv

\* Where a migration is forgotten, all of it has been undone.
LEMMA UnrecordData ==
    ASSUME TypeInv, DataInv, NEW c \in Commands, Unrecord(c)
    PROVE  DataInv'
<1> DEFINE n == Doing(c)
<1>1. /\ cmd[c].pc = "undo" /\ cmd[c].op = 0 /\ lock = NoCommand
      /\ Commit([db EXCEPT !.record = Only(@, Recorded \ {n})])
      /\ NextMigration(c) /\ UNCHANGED <<fileVars, loose>>
  BY DEF Unrecord
<1>2. n \in nodes /\ n \in Nodes /\ Len(operations(n)) \in Nat
  BY <1>1, DoingTyped DEF TypeInv, CommandInv
<1>3. cmd'[c].pc # "undo" /\ \A d \in Commands : d # c => cmd'[d] = cmd[d]
  BY <1>1, NextTyped DEF fileVars
<1>4. /\ HalfUndone(c) <=> 0 < Len(operations(n))
      /\ ~ HalfUndone(c)'
      /\ \A m : ~ HalfUndoneOn(c, m)' /\ (HalfUndoneOn(c, m) <=> HalfUndone(c) /\ m = n)
      /\ Application(c) = n[1]
  BY <1>1, <1>3 DEF HalfUndone, HalfUndoneOn, Application
<1> HIDE DEF n
<1>5. lock' = NoCommand /\ db'.data = db.data /\ \A m : m \in Recorded' <=> m \in Recorded /\ m # n
  <2>1. IsDatabase(db)
    BY DEF TypeInv, DatabaseInv
  <2>2. lock' = NoCommand /\ db' = [db EXCEPT !.record = Only(@, Recorded \ {n})]
    BY <1>1 DEF Commit
  <2> DEFINE S == Recorded \ {n}
             e == [db EXCEPT !.record = Only(@, S)]
  <2>3. e.data = db.data /\ e.record = Only(db.record, S)
    BY <2>1, OnlyRecord
  <2>4. \A m : m \in ToSet(Only(db.record, S)) <=> m \in ToSet(db.record) /\ m \in S
    BY <2>1, OnlyRecord
  <2>5. db' = e
    BY <2>2
  <2> HIDE DEF e
  <2> QED
    BY <2>2, <2>3, <2>4, <2>5 DEF Recorded
<1>6. ASSUME n[1] \notin loose, NEW d \in Commands, d # c PROVE ~ HalfUndoneOn(d, n)
  <2> SUFFICES ASSUME HalfUndoneOn(d, n) PROVE FALSE
    OBVIOUS
  <2>1. HalfUndone(d) /\ Application(d) = n[1]
    BY DEF HalfUndoneOn, Application
  <2>2. 0 < Len(operations(n))
    <3>1. cmd[d].pc = "undo" /\ cmd[d].op < Len(operations(n))
      BY DEF HalfUndoneOn, HalfUndone
    <3>2. cmd[d].op \in Nat
      BY DEF TypeInv, CommandInv, IsCommand, CommandType
    <3> QED
      BY <1>2, <3>1, <3>2
  <2> QED
    BY <1>4, <1>6, <2>1, <2>2 DEF DataInv, Undoers
<1>7. ASSUME n[1] \notin loose PROVE db.data[n] = 0
  <2>1. DataAt(n)
    BY <1>2 DEF DataInv
  <2>2. CASE 0 < Len(operations(n))
    <3>1. db.data[n] = Changed(n, 0)
      BY <1>1, <1>4, <1>7, <2>1, <2>2 DEF DataAt
    <3> QED
      BY <3>1, ChangedSteps
  <2>3. CASE ~ 0 < Len(operations(n))
    <3>1. Len(operations(n)) = 0
      BY <1>2, <2>3
    <3>2. Runs(n) = 0
      BY <1>2, <3>1, ChangedAll, ChangedSteps DEF TypeInv
    <3>3. \A d \in Commands : ~ HalfUndoneOn(d, n)
      BY <1>4, <1>6, <1>7, <2>3
    <3> QED
      BY <1>7, <2>1, <3>2, <3>3 DEF DataAt
  <2> QED
    BY <2>2, <2>3
<1>8. ASSUME NEW m \in nodes PROVE DataAt(m)'
  <2>1. CASE m = n
    <3>1. \A d \in Commands : d # c => (HalfUndoneOn(d, m)' <=> HalfUndoneOn(d, m))
      BY <1>1, <1>3, SameCommand DEF fileVars
    <3>2. m[1] \notin loose' => \A d \in Commands : ~ HalfUndoneOn(d, m)'
      BY <1>1, <1>4, <1>6, <2>1, <3>1
    <3>3. m \notin Recorded' /\ (m[1] \notin loose' => db'.data[m] = 0)
      BY <1>1, <1>5, <1>7, <2>1
    <3> QED
      BY <3>2, <3>3 DEF DataAt
  <2>2. CASE m # n
    <3>1. m \in Nodes /\ DataAt(m)
      BY DEF DataInv, nodes
    <3>2. (m \in Recorded' <=> m \in Recorded) /\ db'.data[m] = db.data[m]
          /\ ~ HalfUndoneOn(c, m) /\ ~ HalfUndoneOn(c, m)'
      BY <1>4, <1>5, <2>2
    <3> QED
      BY <1>1, <1>3, <3>1, <3>2, DataAtKept DEF fileVars
  <2> QED
    BY <2>1, <2>2
<1>9. Undoers'
  BY <1>1, <1>3, <1>4, UndoersKept DEF DataInv, fileVars
<1>10. nodes' = nodes /\ \A m \in Nodes \ nodes : db'.data[m] = 0
  BY <1>1, <1>5, SameFiles DEF DataInv, fileVars
<1>11. Uncommitted'
  BY <1>5 DEF Uncommitted
<1> QED
  BY <1>8, <1>9, <1>10, <1>11 DEF DataInv

\* A command that ends within a rollback leaves its application loose.
LEMMA StopData ==
    ASSUME TypeInv, DataInv, NEW c \in Commands, cmd[c].pc \in {"next", "apply", "undo"}, Stop(c)
    PROVE  DataInv'
<1>1. /\ cmd' = [cmd EXCEPT ![c] = Idle]
      /\ lock' = IF lock = c THEN NoCommand ELSE lock
      /\ work' = IF lock = c THEN db ELSE work
      /\ UNCHANGED <<fileVars, db, unordered>>
  BY DEF Stop, Set
<1>2. loose \subseteq loose' /\ (HalfUndone(c) => Application(c) \in loose')
  BY DEF Stop, LooseIf
<1>3. cmd'[c].pc # "undo" /\ \A d \in Commands : d # c => cmd'[d] = cmd[d]
  BY <1>1 DEF TypeInv, CommandInv, Idle
<1>4. ~ HalfUndone(c)'
  BY <1>3 DEF HalfUndone
<1>5. Uncommitted'
  <2>1. CASE lock = c
    BY <1>1, <2>1 DEF Uncommitted
  <2>2. CASE lock # c
    BY <1>1, <1>3, <2>2, UncommittedKept DEF DataInv, fileVars
  <2> QED
    BY <2>1, <2>2
<1> QED
  BY <1>1, <1>2, <1>3, <1>4, <1>5, DataKept DEF Recorded, fileVars

\* A step of nobody's, or of the application itself.
LEMMA CommandsStay ==
    ASSUME DataInv, files' = files, cmd' = cmd, loose \subseteq loose',
           db'.data = db.data, Recorded' = Recorded, Uncommitted'
    PROVE  DataInv'
<1>1. nodes' = nodes
  BY SameFiles
<1>2. \A c \in Commands :
         /\ HalfUndone(c)' <=> HalfUndone(c)
         /\ Application(c)' = Application(c)
         /\ \A n : HalfUndoneOn(c, n)' <=> HalfUndoneOn(c, n)
  BY SameCommand
<1>3. \A n : Runs(n)' = Runs(n) /\ \A c \in Commands : Changed(n, cmd[c].op)' = Changed(n, cmd[c].op)
  BY DEF Runs, Changed, operations
<1>4. ASSUME NEW n \in nodes PROVE DataAt(n)'
  <2>1. DataAt(n)
    BY DEF DataInv
  <2> QED
    BY <1>2, <1>3, <2>1 DEF DataAt
<1>5. Undoers'
  BY <1>2 DEF DataInv, Undoers
<1> QED
  BY <1>1, <1>4, <1>5 DEF DataInv

LEMMA FilesData ==
    ASSUME TypeInv, DataInv, Quiet, Grows, UNCHANGED <<declared, db, work, lock, cmd, loose, unordered>>
    PROVE  DataInv'
<1>1. /\ nodes \subseteq nodes'
      /\ \A n \in nodes : operations(n)' = operations(n)
  BY FilesGrow DEF TypeInv
<1>2. Idle.pc = "idle" /\ \A c \in Commands : cmd[c] = Idle /\ cmd'[c] = Idle
  BY DEF Quiet, Idle
<1>3. \A c \in Commands : ~ HalfUndone(c) /\ ~ HalfUndone(c)'
  BY <1>2 DEF HalfUndone
<1>4. \A c \in Commands : \A n : ~ HalfUndoneOn(c, n) /\ ~ HalfUndoneOn(c, n)'
  BY <1>3 DEF HalfUndoneOn
<1>5. Recorded' = Recorded /\ Recorded \subseteq nodes
  BY DEF Recorded, TypeInv, DatabaseInv, IsDatabase
<1>6. ASSUME NEW n \in nodes' PROVE DataAt(n)'
  <2>1. CASE n \in nodes
    <3>1. Runs(n)' = Runs(n)
      BY <1>1, <2>1 DEF Runs
    <3>2. DataAt(n)
      BY <2>1 DEF DataInv
    <3> QED
      BY <1>4, <1>5, <3>1, <3>2 DEF DataAt
  <2>2. CASE n \notin nodes
    <3>1. n \in Nodes /\ n \notin Recorded
      BY <1>5, <2>2 DEF nodes
    <3>2. db.data[n] = 0
      BY <2>2, <3>1 DEF DataInv
    <3> QED
      BY <1>4, <1>5, <3>1, <3>2 DEF DataAt
  <2> QED
    BY <2>1, <2>2
<1>7. Undoers'
  BY <1>3 DEF Undoers
<1>8. \A n \in Nodes \ nodes' : db'.data[n] = 0
  BY <1>1 DEF DataInv
<1>9. lock = NoCommand
  BY <1>2 DEF TypeInv, LockInv
<1>10. Uncommitted'
  BY <1>9 DEF Uncommitted
<1> QED
  BY <1>6, <1>7, <1>8, <1>10 DEF DataInv

LEMMA GetTableData ==
    ASSUME TypeInv, DataInv, NEW a \in Apps, get_table(a)
    PROVE  DataInv'
<1>1. lock' = NoCommand /\ loose \subseteq loose' /\ UNCHANGED <<files, cmd>>
  BY DEF get_table, Commit, LooseIf, fileVars
<1>2. db'.data = db.data /\ Recorded' = Recorded
  BY GetTableTyped DEF Recorded
<1>3. Uncommitted'
  BY <1>1 DEF Uncommitted
<1> QED
  BY <1>1, <1>2, <1>3, CommandsStay

LEMMA DataInit == Init => DataInv
<1> SUFFICES ASSUME Init PROVE DataInv
  OBVIOUS
<1>1. TypeInv /\ lock = NoCommand
  BY TypeInit DEF Init
<1>2. \A a \in Apps : files[a] = <<>>
  BY DEF Init
<1>3. nodes = {}
  BY <1>2, NodeParts, EmptySeq DEF nodes, Exists
<1>4. \A c \in Commands : ~ HalfUndone(c)
  BY DEF Init, HalfUndone, Idle
<1>5. \A n \in Nodes : db.data[n] = 0
  BY DEF Init
<1> QED
  BY <1>1, <1>3, <1>4, <1>5 DEF DataInv, Undoers, Uncommitted

LEMMA DataNext == TypeInv /\ DataInv /\ [Next]_vars => DataInv'
<1> SUFFICES ASSUME TypeInv, DataInv, [Next]_vars PROVE DataInv'
  OBVIOUS
<1>1. ASSUME files' = files, UNCHANGED <<db, work, lock, cmd, loose>> PROVE DataInv'
  <2>1. Uncommitted'
    BY <1>1 DEF DataInv, Uncommitted, Doing, Changed, operations
  <2> QED
    BY <1>1, <2>1, CommandsStay DEF Recorded
<1>2. ASSUME NEW c \in Commands, NEW q \in Requests[c], Start(c, q) PROVE DataInv'
  BY <1>2, StartPlace, PlaceKept
<1>3. ASSUME NEW c \in Commands,
             \/ List(c) \/ Fake(c) \/ DryRun(c)
             \/ BeginApply(c) \/ SkipOperation(c) \/ ApplyOperation(c) \/ Record(c)
             \/ BeginRollback(c) \/ UndoOperation(c) \/ Unrecord(c)
      PROVE  DataInv'
  BY <1>3, ListPlace, BeginApplyPlace, SkipOperationPlace, BeginRollbackPlace, PlaceKept,
     FakeData, DryRunData, ApplyOperationData, RecordData, UndoOperationData, UnrecordData
<1>4. ASSUME NEW c \in Commands, Raise(c) \/ Crash(c) PROVE DataInv'
  <2>1. Stop(c) /\ cmd[c].pc \in {"next", "apply", "undo"}
    BY <1>4 DEF Raise, Crash, Taking
  <2> QED
    BY <2>1, StopData
<1>5. ASSUME NEW labels \in SUBSET Apps, makemigrations(labels) PROVE DataInv'
  BY <1>5, MakeGrows, FilesData DEF makemigrations
<1>6. ASSUME NEW a \in Apps, NEW classes \in Declarations[a], Declare(a, classes) PROVE DataInv'
  BY <1>1, <1>6 DEF Declare
<1>7. ASSUME NEW a \in Apps, NEW ops \in Handwritten[a], NEW others \in Links(a), WriteByHand(a, ops, others)
      PROVE  DataInv'
  BY <1>7, WriteGrows, FilesData DEF WriteByHand
<1>8. ASSUME NEW a \in Apps, get_table(a) PROVE DataInv'
  BY <1>8, GetTableData
<1>9. CASE UNCHANGED vars
  BY <1>1, <1>9 DEF vars
<1> QED
  BY <1>2, <1>3, <1>4, <1>5, <1>6, <1>7, <1>8, <1>9 DEF Next

\* The data operations of a migration have taken effect once if it is recorded
\* and not at all if it is not, whatever commands run at the same time, crash
\* or fail, unless its application is loose or a rollback of it is under way.
THEOREM DataChangedOnceHolds == Spec => []DataChangedOnce
<1>1. TypeInv /\ DataInv => DataChangedOnce
  <2> SUFFICES ASSUME DataInv, NEW n \in nodes, n[1] \notin loose, Steady(n[1])
               PROVE  db.data[n] = IF n \in Recorded THEN Runs(n) ELSE 0
    BY DEF DataChangedOnce
  <2>1. \A c \in Commands : ~ HalfUndoneOn(c, n)
    BY DEF Steady, HalfUndoneOn, Application
  <2> QED
    BY <2>1 DEF DataInv, DataAt
<1> QED
  BY <1>1, TypeInvariant, DataInit, DataNext, PTL DEF Spec

-----------------------------------------------------------------------------
\* Dependencies are recorded first

\* There is no cycle: each new migration depends on older ones.
Acyclic == \E rank \in [Nodes -> Nat], top \in Nat : Ranked(rank) /\ \A n \in nodes : rank[n] < top

RecordClosed == \A n \in Recorded : ToSet(dependencies(n)) \subseteq Recorded

\* What the command c is to apply comes after what it depends on.
TodoOrdered(c) ==
    /\ ~ cmd[c].back /\ cmd[c].pc \in {"next", "apply"}
    /\ cmd[c].request.app = AllApps /\ cmd[c].request.flag # "dry_run"
    => \A i \in DOMAIN cmd[c].todo : \A m \in ToSet(dependencies(cmd[c].todo[i])) :
          m \in Recorded \/ \E j \in DOMAIN cmd[c].todo : j < i /\ cmd[c].todo[j] = m

OrderInv ==
    /\ Acyclic
    /\ ~ unordered => RecordClosed /\ \A c \in Commands : TodoOrdered(c)

\* A step of c, with the same files.
LEMMA OrderKept ==
    ASSUME OrderInv, files' = files, NEW c \in Commands, \A d \in Commands : d # c => cmd'[d] = cmd[d],
           Recorded \subseteq Recorded', unordered => unordered',
           ~ unordered' => RecordClosed' /\ TodoOrdered(c)'
    PROVE  OrderInv'
<1>1. nodes' = nodes /\ \A n : dependencies(n)' = dependencies(n)
  BY SameFiles
<1>2. Acyclic'
  BY <1>1 DEF OrderInv, Acyclic, Ranked
<1>3. ASSUME ~ unordered', NEW d \in Commands PROVE TodoOrdered(d)'
  <2>1. CASE d = c
    BY <1>3, <2>1
  <2>2. CASE d # c
    <3>1. TodoOrdered(d) /\ cmd'[d] = cmd[d]
      BY <1>3, <2>2 DEF OrderInv
    <3> QED
      BY <1>1, <3>1 DEF TodoOrdered
  <2> QED
    BY <2>1, <2>2
<1> QED
  BY <1>2, <1>3 DEF OrderInv

\* A step of c that records nothing.
LEMMA OrderSame ==
    ASSUME OrderInv, files' = files, NEW c \in Commands, \A d \in Commands : d # c => cmd'[d] = cmd[d],
           Recorded' = Recorded, unordered' = unordered, ~ unordered => TodoOrdered(c)'
    PROVE  OrderInv'
<1>1. RecordClosed => RecordClosed'
  BY SameFiles DEF RecordClosed
<1> QED
  BY <1>1, OrderKept DEF OrderInv

\* A command that is where it was, or further within its migration.
LEMMA OrderWithin ==
    ASSUME OrderInv, files' = files, NEW c \in Commands, \A d \in Commands : d # c => cmd'[d] = cmd[d],
           Recorded' = Recorded, unordered' = unordered, cmd[c].pc \in {"next", "apply"},
           cmd'[c].todo = cmd[c].todo, cmd'[c].request = cmd[c].request, cmd'[c].back = cmd[c].back
    PROVE  OrderInv'
<1>1. \A n : dependencies(n)' = dependencies(n)
  BY SameFiles
<1>2. ~ unordered => TodoOrdered(c)'
  BY <1>1 DEF OrderInv, TodoOrdered
<1> QED
  BY <1>2, OrderSame

LEMMA StartOrder ==
    ASSUME TypeInv, OrderInv, NEW c \in Commands, NEW q \in Requests[c], Start(c, q)
    PROVE  OrderInv'
<1> DEFINE r == [Idle EXCEPT !.request = q, !.back = q.target = 0 \/ <<q.app, q.target>> \in Recorded]
           todo == IF r.back THEN to_roll_back(q) ELSE pending(q)
<1>1. /\ IF q.target > 0 THEN Set(c, [r EXCEPT !.pc = "list"]) ELSE Proceed(c, r, todo)
      /\ UNCHANGED <<fileVars, db, work, lock, loose, unordered>>
  BY DEF Start
<1>2. r \in CommandType /\ r.request = q
  BY RequestTyped, EmptySeq DEF CommandType, Idle
<1>3. Recorded' = Recorded /\ \A n : dependencies(n)' = dependencies(n)
  BY <1>1, SameFiles DEF Recorded, fileVars
<1>4. CASE q.target > 0
  <2> DEFINE s == [r EXCEPT !.pc = "list"]
  <2>1. s.pc = "list"
    BY <1>2 DEF CommandType
  <2>2. cmd' = [cmd EXCEPT ![c] = s]
    BY <1>1, <1>4 DEF Set
  <2> HIDE DEF s
  <2>3. cmd'[c].pc = "list" /\ \A d \in Commands : d # c => cmd'[d] = cmd[d]
    BY <2>1, <2>2 DEF TypeInv, CommandInv
  <2>4. TodoOrdered(c)'
    BY <2>3 DEF TodoOrdered
  <2> QED
    BY <1>1, <1>3, <2>3, <2>4, OrderSame DEF fileVars
<1>5. CASE ~ q.target > 0
  <2>1. ~ r.back => todo = pending(q)
    OBVIOUS
  <2> HIDE DEF r, todo
  <2>2. /\ cmd'[c].pc \in {"idle", "next"}
        /\ cmd'[c].pc = "next" => cmd'[c].todo = todo /\ cmd'[c].back = r.back /\ cmd'[c].request = q
        /\ \A d \in Commands : d # c => cmd'[d] = cmd[d]
    BY <1>1, <1>2, <1>5, ProceedPlace DEF TypeInv
  <2>3. PICK rank \in [Nodes -> Nat] : Ranked(rank)
    BY DEF OrderInv, Acyclic
  <2>4. q.app = AllApps => \A i \in DOMAIN pending(q) : \A m \in ToSet(dependencies(pending(q)[i])) :
            m \in Recorded \/ \E j \in DOMAIN pending(q) : j < i /\ pending(q)[j] = m
    BY <1>5, <2>3, PendingPreceded DEF TypeInv
  <2> DEFINE p == pending(q)
  <2> HIDE DEF p
  <2>5. q.app = AllApps => \A i \in DOMAIN p : \A m \in ToSet(dependencies(p[i])) :
            m \in Recorded \/ \E j \in DOMAIN p : j < i /\ p[j] = m
    BY <2>4 DEF p
  <2>6. ~ r.back => todo = p
    BY <2>1 DEF p
  <2>7. TodoOrdered(c)'
    BY <1>3, <2>2, <2>5, <2>6 DEF TodoOrdered
  <2> QED
    BY <1>1, <1>3, <2>2, <2>7, OrderSame DEF fileVars
<1> QED
  BY <1>4, <1>5

\* To a target: that is for one application.
LEMMA ListOrder ==
    ASSUME TypeInv, OrderInv, NEW c \in Commands, List(c)
    PROVE  OrderInv'
<1>1. /\ cmd[c].pc = "list" /\ UNCHANGED <<fileVars, db, work, lock, loose, unordered>>
      /\ \E todo : Proceed(c, cmd[c], todo)
  BY DEF List
<1>2. cmd[c] \in CommandType /\ cmd[c].request \in Requests[c] /\ cmd[c].request.target > 0
  BY <1>1 DEF TypeInv, CommandInv, IsCommand
<1>3. cmd[c].request.app # AllApps
  BY <1>2, TargetAssumption
<1>4. /\ cmd'[c].pc \in {"idle", "next"}
      /\ cmd'[c].pc = "next" => cmd'[c].request = cmd[c].request
      /\ \A d \in Commands : d # c => cmd'[d] = cmd[d]
  BY <1>1, <1>2, ProceedPlace DEF TypeInv
<1>5. TodoOrdered(c)'
  BY <1>3, <1>4 DEF TodoOrdered
<1> QED
  BY <1>1, <1>4, <1>5, OrderSame DEF Recorded, fileVars

\* The first of what is to be applied is recorded.
LEMMA OrderRecords ==
    ASSUME TypeInv, OrderInv, files' = files, NEW c \in Commands,
           cmd[c].pc \in {"next", "apply"}, ~ cmd[c].back, Flag(c) # "dry_run",
           \A m : m \in Recorded' <=> m \in Recorded \/ m = Doing(c),
           unordered' = (unordered \/ cmd[c].request.app # AllApps), NextMigration(c)
    PROVE  OrderInv'
<1> DEFINE n == Doing(c)
           s == cmd[c].todo
<1>1. IsCommand(c, cmd[c])
  BY DEF TypeInv, CommandInv
<1>2. s \in Seq(Nodes) /\ s # <<>>
  BY <1>1 DEF IsCommand, CommandType
<1>3. /\ Len(s) \in Nat /\ DOMAIN s = 1..Len(s) /\ 1 \in DOMAIN s /\ n = s[1]
      /\ DOMAIN Tail(s) = 1..(Len(s) - 1) /\ \A i \in DOMAIN Tail(s) : Tail(s)[i] = s[i + 1]
  <2>1. Tail(s) \in Seq(Nodes) /\ Len(Tail(s)) = Len(s) - 1
        /\ \A i \in 1..Len(Tail(s)) : Tail(s)[i] = s[i + 1]
    BY <1>2, HeadTailProperties
  <2>2. Len(s) \in Nat /\ DOMAIN s = 1..Len(s) /\ Len(s) # 0
    BY <1>2, LenProperties, EmptySeq
  <2>3. DOMAIN Tail(s) = 1..(Len(s) - 1)
    BY <2>1, LenProperties
  <2> QED
    BY <2>1, <2>2, <2>3 DEF Doing
<1>4. /\ cmd'[c].pc \in {"idle", "next"}
      /\ cmd'[c].pc = "next" =>
            cmd'[c].todo = Tail(s) /\ cmd'[c].back = cmd[c].back /\ cmd'[c].request = cmd[c].request
      /\ \A d \in Commands : d # c => cmd'[d] = cmd[d]
  BY <1>1, ProceedPlace DEF NextMigration, TypeInv, IsCommand
<1>5. \A m : dependencies(m)' = dependencies(m)
  BY SameFiles
<1>6. ASSUME ~ unordered' PROVE RecordClosed' /\ TodoOrdered(c)'
  <2>1. RecordClosed /\ cmd[c].request.app = AllApps
    BY <1>6 DEF OrderInv
  <2>2. \A i \in DOMAIN s : \A m \in ToSet(dependencies(s[i])) :
            m \in Recorded \/ \E j \in DOMAIN s : j < i /\ s[j] = m
    BY <1>6, <2>1 DEF OrderInv, TodoOrdered, Flag
  <2>3. ToSet(dependencies(n)) \subseteq Recorded
    <3>1. \A j \in DOMAIN s : ~ j < 1
      BY <1>3
    <3> QED
      BY <1>3, <2>2, <3>1
  <2> HIDE DEF n, s
  <2>4. \A m : m \in Recorded' <=> m \in Recorded \/ m = n
    BY DEF n
  <2>5. RecordClosed'
    BY <1>5, <2>1, <2>3, <2>4 DEF RecordClosed
  <2>6. ASSUME NEW i \in DOMAIN Tail(s), NEW m \in ToSet(dependencies(Tail(s)[i])), m \notin Recorded'
        PROVE  \E j \in DOMAIN Tail(s) : j < i /\ Tail(s)[j] = m
    <3>1. i + 1 \in DOMAIN s /\ Tail(s)[i] = s[i + 1] /\ i \in Nat
      BY <1>3
    <3>2. PICK j \in DOMAIN s : j < i + 1 /\ s[j] = m
      BY <2>2, <2>4, <2>6, <3>1
    <3>3. j # 1
      BY <1>3, <2>4, <2>6, <3>2
    <3>4. j - 1 \in DOMAIN Tail(s) /\ j - 1 < i /\ (j - 1) + 1 = j
      BY <1>3, <3>1, <3>2, <3>3
    <3>5. Tail(s)[j - 1] = s[(j - 1) + 1]
      BY <1>3, <3>4
    <3> QED
      BY <3>2, <3>4, <3>5
  <2> DEFINE t == Tail(s)
  <2>7. \A i \in DOMAIN t : \A m \in ToSet(dependencies(t[i])) :
            m \in Recorded' \/ \E j \in DOMAIN t : j < i /\ t[j] = m
    BY <2>6
  <2>8. cmd'[c].pc = "next" => cmd'[c].todo = t
    BY <1>4
  <2> HIDE DEF t
  <2>9. TodoOrdered(c)'
    BY <1>4, <1>5, <2>7, <2>8 DEF TodoOrdered
  <2> QED
    BY <2>5, <2>9
<1> QED
  BY <1>4, <1>6, OrderKept

LEMMA FakeOrder ==
    ASSUME TypeInv, OrderInv, NEW c \in Commands, Fake(c)
    PROVE  OrderInv'
<1>1. /\ cmd[c].pc = "next" /\ ~ cmd[c].back /\ Flag(c) = "fake"
      /\ Commit([db EXCEPT !.record = Append(@, Doing(c))])
      /\ unordered' = (unordered \/ cmd[c].request.app # AllApps)
      /\ NextMigration(c) /\ UNCHANGED fileVars
  BY DEF Fake, Taking
<1>2. Doing(c) \in nodes /\ Doing(c) \in Nodes
  BY <1>1, DoingTyped DEF TypeInv, CommandInv
<1>3. \A m : m \in Recorded' <=> m \in Recorded \/ m = Doing(c)
  BY <1>1, <1>2, AppendRecord DEF Commit, TypeInv, DatabaseInv, Recorded
<1> QED
  BY <1>1, <1>3, OrderRecords DEF fileVars

LEMMA RecordOrder ==
    ASSUME TypeInv, OrderInv, NEW c \in Commands, Record(c)
    PROVE  OrderInv'
<1>1. /\ cmd[c].pc = "apply"
      /\ Commit([work EXCEPT !.record = Append(@, Doing(c))])
      /\ unordered' = (unordered \/ cmd[c].request.app # AllApps)
      /\ NextMigration(c) /\ UNCHANGED fileVars
  BY DEF Record
<1>2. Doing(c) \in nodes /\ Doing(c) \in Nodes
  BY <1>1, DoingTyped DEF TypeInv, CommandInv
<1>3. \A m : m \in Recorded' <=> m \in Recorded \/ m = Doing(c)
  <2>1. IsDatabase(work) /\ work.record = db.record
    BY DEF TypeInv, DatabaseInv
  <2>2. db' = [work EXCEPT !.record = Append(@, Doing(c))]
    BY <1>1 DEF Commit
  <2> QED
    BY <1>2, <2>1, <2>2, AppendRecord DEF Recorded
<1>4. ~ cmd[c].back /\ Flag(c) # "dry_run"
  BY <1>1 DEF TypeInv, CommandInv, IsCommand, Flag
<1> QED
  BY <1>1, <1>3, <1>4, OrderRecords DEF fileVars

LEMMA DryRunOrder ==
    ASSUME TypeInv, OrderInv, NEW c \in Commands, DryRun(c)
    PROVE  OrderInv'
<1> DEFINE n == Doing(c)
           runs == Cardinality({i \in DOMAIN operations(n) : operations(n)[i].kind = "RunPython"})
<1>1. /\ cmd[c].pc = "next" /\ Flag(c) = "dry_run" /\ NextMigration(c) /\ UNCHANGED <<fileVars, unordered>>
      /\ \/ db' = db
         \/ Commit([db EXCEPT !.data[n] = @ + runs])
  BY DEF DryRun, Taking
<1>2. n \in nodes /\ cmd[c] \in CommandType
  BY <1>1, DoingTyped DEF TypeInv, CommandInv, IsCommand
<1>3. [db EXCEPT !.data[n] = @ + runs].record = db.record
  BY <1>2, DryRunsTyped
<1>4. Recorded' = Recorded
  <2> HIDE DEF runs
  <2> QED
    BY <1>1, <1>3 DEF Recorded, Commit
<1>5. /\ cmd'[c].pc \in {"idle", "next"}
      /\ cmd'[c].pc = "next" => cmd'[c].request = cmd[c].request
      /\ \A d \in Commands : d # c => cmd'[d] = cmd[d]
  BY <1>1, <1>2, ProceedPlace DEF NextMigration, TypeInv
<1>6. TodoOrdered(c)'
  BY <1>1, <1>5 DEF TodoOrdered, Flag
<1> QED
  BY <1>1, <1>4, <1>5, <1>6, OrderSame DEF fileVars

LEMMA BeginApplyOrder ==
    ASSUME TypeInv, OrderInv, NEW c \in Commands, BeginApply(c)
    PROVE  OrderInv'
<1>1. cmd[c].pc = "next" /\ UNCHANGED <<fileVars, db, work, lock, loose, unordered>>
  BY DEF BeginApply, Taking
<1>2. cmd[c] \in CommandType /\ cmd = [d \in Commands |-> cmd[d]]
  BY DEF TypeInv, CommandInv, IsCommand
<1>3. PICK x : cmd' = [cmd EXCEPT ![c] = [cmd[c] EXCEPT !.pc = "apply", !.op = 1, !.fake_this = x]]
  BY DEF BeginApply, Set
<1>4. /\ cmd'[c].todo = cmd[c].todo /\ cmd'[c].request = cmd[c].request /\ cmd'[c].back = cmd[c].back
      /\ \A d \in Commands : d # c => cmd'[d] = cmd[d]
  BY <1>2, <1>3 DEF CommandType
<1> QED
  BY <1>1, <1>4, OrderWithin DEF Recorded, fileVars

LEMMA OperationOrder ==
    ASSUME TypeInv, OrderInv, NEW c \in Commands, SkipOperation(c) \/ ApplyOperation(c)
    PROVE  OrderInv'
<1>1. /\ cmd[c].pc = "apply" /\ ~ Finished(c) /\ Set(c, [cmd[c] EXCEPT !.op = @ + 1])
      /\ UNCHANGED <<fileVars, db, unordered>>
  BY DEF SkipOperation, ApplyOperation, Write
<1>2. /\ cmd'[c].todo = cmd[c].todo /\ cmd'[c].request = cmd[c].request /\ cmd'[c].back = cmd[c].back
      /\ \A d \in Commands : d # c => cmd'[d] = cmd[d]
  BY <1>1, NextOperationTyped DEF fileVars
<1> QED
  BY <1>1, <1>2, OrderWithin DEF Recorded, fileVars

LEMMA RollbackOrder ==
    ASSUME TypeInv, OrderInv, NEW c \in Commands, BeginRollback(c) \/ UndoOperation(c)
    PROVE  OrderInv'
<1>1. CASE BeginRollback(c)
  <2>1. /\ UNCHANGED <<fileVars, db, unordered>>
        /\ \E k : cmd' = [cmd EXCEPT ![c] = [cmd[c] EXCEPT !.pc = "undo", !.op = k]]
    BY <1>1 DEF BeginRollback, Set
  <2>2. cmd[c] \in CommandType /\ cmd = [d \in Commands |-> cmd[d]]
    BY DEF TypeInv, CommandInv, IsCommand
  <2>3. cmd'[c].pc = "undo" /\ \A d \in Commands : d # c => cmd'[d] = cmd[d]
    BY <2>1, <2>2 DEF CommandType
  <2>4. TodoOrdered(c)'
    BY <2>3 DEF TodoOrdered
  <2> QED
    BY <2>1, <2>3, <2>4, OrderSame DEF Recorded, fileVars
<1>2. CASE UndoOperation(c)
  <2>1. /\ cmd[c].pc = "undo" /\ cmd[c].op > 0 /\ Commit(Execute(Back(c), Doing(c), db))
        /\ Set(c, [cmd[c] EXCEPT !.op = @ - 1]) /\ UNCHANGED <<fileVars, unordered>>
    BY <1>2 DEF UndoOperation
  <2>2. Doing(c) \in Nodes
    BY <2>1, DoingTyped DEF TypeInv, CommandInv
  <2>3. Recorded' = Recorded
    <3>1. IsDatabase(db) /\ db' = Execute(Back(c), Doing(c), db)
      BY <2>1 DEF TypeInv, DatabaseInv, Commit
    <3> QED
      BY <2>2, <3>1, ExecuteTyped DEF SameRecord, Recorded
  <2>4. cmd'[c].pc = "undo" /\ \A d \in Commands : d # c => cmd'[d] = cmd[d]
    BY <2>1, OperationBackTyped DEF fileVars
  <2>5. TodoOrdered(c)'
    BY <2>4 DEF TodoOrdered
  <2> QED
    BY <2>1, <2>3, <2>4, <2>5, OrderSame DEF fileVars
<1> QED
  BY <1>1, <1>2

\* From a rollback on, nothing is promised, but that there is no cycle.
LEMMA UnrecordOrder ==
    ASSUME OrderInv, NEW c \in Commands, Unrecord(c)
    PROVE  OrderInv'
<1>1. unordered' = TRUE /\ files' = files
  BY DEF Unrecord, fileVars
<1>2. nodes' = nodes /\ \A n : dependencies(n)' = dependencies(n)
  BY <1>1, SameFiles
<1> QED
  BY <1>1, <1>2 DEF OrderInv, Acyclic, Ranked

LEMMA StopOrder ==
    ASSUME TypeInv, OrderInv, NEW c \in Commands, Stop(c)
    PROVE  OrderInv'
<1>1. cmd' = [cmd EXCEPT ![c] = Idle] /\ UNCHANGED <<fileVars, db, unordered>>
  BY DEF Stop, Set
<1>2. cmd'[c].pc = "idle" /\ \A d \in Commands : d # c => cmd'[d] = cmd[d]
  BY <1>1 DEF TypeInv, CommandInv, Idle
<1>3. TodoOrdered(c)'
  BY <1>2 DEF TodoOrdered
<1> QED
  BY <1>1, <1>2, <1>3, OrderSame DEF Recorded, fileVars

\* A new migration gets a rank of its own above all others.
LEMMA FilesOrder ==
    ASSUME TypeInv, OrderInv, Quiet, Grows, UNCHANGED <<declared, db, work, lock, cmd, loose, unordered>>
    PROVE  OrderInv'
<1>1. /\ nodes \subseteq nodes' /\ FilesTyped'
      /\ \A n \in nodes : dependencies(n)' = dependencies(n)
      /\ \A n \in nodes' : ToSet(dependencies(n))' \subseteq nodes \/ n \in nodes
  BY FilesGrow DEF TypeInv
<1>2. PICK rank \in [Nodes -> Nat], top \in Nat : Ranked(rank) /\ \A n \in nodes : rank[n] < top
  BY DEF OrderInv, Acyclic
<1>3. PICK new \in [Nodes -> Nat] : \A n \in Nodes : new[n] = IF n \in nodes THEN rank[n] ELSE top
  <2>1. [n \in Nodes |-> IF n \in nodes THEN rank[n] ELSE top] \in [Nodes -> Nat]
    OBVIOUS
  <2> QED
    BY <2>1
<1>4. nodes \subseteq Nodes /\ nodes' \subseteq Nodes
  BY DEF nodes
<1>5. \A n \in nodes' : new[n] < top + 1
  <2> SUFFICES ASSUME NEW n \in nodes' PROVE new[n] < top + 1
    OBVIOUS
  <2>1. n \in nodes => rank[n] < top /\ rank[n] \in Nat
    BY <1>2, <1>4
  <2> QED
    BY <1>3, <1>4, <2>1
<1>6. ASSUME NEW n \in nodes', NEW m \in ToSet(dependencies(n))' PROVE m \in nodes' /\ new[m] < new[n]
  <2>1. CASE n \in nodes
    <3>1. ToSet(dependencies(n))' = ToSet(dependencies(n))
      BY <1>1, <2>1 DEF ToSet
    <3>2. m \in nodes /\ rank[m] < rank[n]
      BY <1>2, <1>6, <2>1, <3>1 DEF Ranked
    <3> QED
      BY <1>1, <1>3, <1>4, <2>1, <3>2
  <2>2. CASE n \notin nodes
    <3>1. m \in nodes
      BY <1>1, <1>6, <2>2
    <3>2. rank[m] < top
      BY <1>2, <3>1
    <3> QED
      BY <1>1, <1>3, <1>4, <1>6, <2>2, <3>1, <3>2
  <2> QED
    BY <2>1, <2>2
<1>7. Acyclic'
  <2>1. Ranked(new)'
    BY <1>6 DEF Ranked
  <2> QED
    BY <1>3, <1>5, <2>1, top + 1 \in Nat DEF Acyclic
<1>8. RecordClosed => RecordClosed'
  <2>1. Recorded' = Recorded /\ Recorded \subseteq nodes
    BY DEF Recorded, TypeInv, DatabaseInv, IsDatabase
  <2> QED
    BY <1>1, <2>1 DEF RecordClosed
<1>9. \A c \in Commands : TodoOrdered(c)'
  BY DEF Quiet, Idle, TodoOrdered
<1> QED
  BY <1>7, <1>8, <1>9 DEF OrderInv

LEMMA OrderInit == Init => OrderInv
<1> SUFFICES ASSUME Init PROVE OrderInv
  OBVIOUS
<1>1. nodes = {}
  <2>1. \A a \in Apps : files[a] = <<>>
    BY DEF Init
  <2> QED
    BY <2>1, NodeParts, EmptySeq DEF nodes, Exists
<1>2. Acyclic
  <2>1. [n \in Nodes |-> 0] \in [Nodes -> Nat]
    OBVIOUS
  <2>2. Ranked([n \in Nodes |-> 0])
    BY <1>1 DEF Ranked
  <2> QED
    BY <1>1, <2>1, <2>2 DEF Acyclic
<1>3. Recorded = {}
  BY DEF Init, Recorded, ToSet
<1>4. \A c \in Commands : TodoOrdered(c)
  BY DEF Init, Idle, TodoOrdered
<1> QED
  BY <1>2, <1>3, <1>4 DEF OrderInv, RecordClosed

LEMMA OrderNext == TypeInv /\ OrderInv /\ [Next]_vars => OrderInv'
<1> SUFFICES ASSUME TypeInv, OrderInv, [Next]_vars PROVE OrderInv'
  OBVIOUS
<1>1. ASSUME files' = files, cmd' = cmd, Recorded' = Recorded, unordered' = unordered PROVE OrderInv'
  <2>1. nodes' = nodes /\ \A n : dependencies(n)' = dependencies(n)
    BY <1>1, SameFiles
  <2> QED
    BY <1>1, <2>1 DEF OrderInv, Acyclic, Ranked, RecordClosed, TodoOrdered
<1>2. ASSUME NEW c \in Commands, NEW q \in Requests[c], Start(c, q) PROVE OrderInv'
  BY <1>2, StartOrder
<1>3. ASSUME NEW c \in Commands,
             \/ List(c) \/ Fake(c) \/ DryRun(c)
             \/ BeginApply(c) \/ SkipOperation(c) \/ ApplyOperation(c) \/ Record(c)
             \/ BeginRollback(c) \/ UndoOperation(c) \/ Unrecord(c)
      PROVE  OrderInv'
  BY <1>3, ListOrder, FakeOrder, DryRunOrder, BeginApplyOrder, OperationOrder, RecordOrder, RollbackOrder,
     UnrecordOrder
<1>4. ASSUME NEW c \in Commands, Raise(c) \/ Crash(c) PROVE OrderInv'
  BY <1>4, StopOrder DEF Raise, Crash
<1>5. ASSUME NEW labels \in SUBSET Apps, makemigrations(labels) PROVE OrderInv'
  BY <1>5, MakeGrows, FilesOrder DEF makemigrations
<1>6. ASSUME NEW a \in Apps, NEW classes \in Declarations[a], Declare(a, classes) PROVE OrderInv'
  BY <1>1, <1>6 DEF Declare, Recorded
<1>7. ASSUME NEW a \in Apps, NEW ops \in Handwritten[a], NEW others \in Links(a), WriteByHand(a, ops, others)
      PROVE  OrderInv'
  BY <1>7, WriteGrows, FilesOrder DEF WriteByHand
<1>8. ASSUME NEW a \in Apps, get_table(a) PROVE OrderInv'
  BY <1>1, <1>8, GetTableTyped DEF get_table, fileVars, Recorded
<1>9. CASE UNCHANGED vars
  BY <1>1, <1>9 DEF vars, Recorded
<1> QED
  BY <1>2, <1>3, <1>4, <1>5, <1>6, <1>7, <1>8, <1>9 DEF Next

\* As long as nothing is recorded or undone for one application alone, what is
\* recorded is closed under dependencies, whatever commands run at the same time.
THEOREM DependenciesFirstHolds == Spec => []DependenciesFirst
<1>1. OrderInv => DependenciesFirst
  BY DEF OrderInv, RecordClosed, DependenciesFirst
<1> QED
  BY <1>1, TypeInvariant, OrderInit, OrderNext, PTL DEF Spec

\* What holds of 0, and of each number up to n with its predecessor.
LEMMA UpTo ==
    ASSUME NEW n \in Nat, NEW T, 0 \in T, \A i \in 0..(n - 1) : i \in T => i + 1 \in T
    PROVE  \A i \in 0..n : i \in T
<1> DEFINE Bad == {i \in 0..n : i \notin T}
<1> SUFFICES ASSUME Bad # {} PROVE FALSE
  OBVIOUS
<1>1. Bad \in SUBSET Nat
  OBVIOUS
<1>2. PICK i \in Bad : \A j \in Bad : i <= j
  BY <1>1, Smallest
<1>3. i \in 1..n /\ i - 1 \in 0..(n - 1) /\ i - 1 \in 0..n /\ ~ i <= i - 1 /\ (i - 1) + 1 = i
  BY <1>2
<1>4. i - 1 \in T
  BY <1>2, <1>3
<1> QED
  BY <1>2, <1>3, <1>4

\* The beginnings of a list.
LEMMA Beginnings ==
    ASSUME NEW T, NEW r \in Seq(T)
    PROVE  /\ Len(r) \in Nat /\ DOMAIN r = 1..Len(r)
           /\ SubSeq(r, 1, 0) = <<>> /\ SubSeq(r, 1, Len(r)) = r
           /\ \A i \in 0..Len(r) : /\ SubSeq(r, 1, i) \in Seq(T) /\ Len(SubSeq(r, 1, i)) = i
                                   /\ DOMAIN SubSeq(r, 1, i) = 1..i
                                   /\ \A j \in 1..i : SubSeq(r, 1, i)[j] = r[j]
           /\ \A i \in 0..(Len(r) - 1) : /\ r[i + 1] \in T /\ i \in 0..Len(r) /\ i + 1 \in 0..Len(r)
                                         /\ i + 1 \in 1..Len(r)
                                         /\ SubSeq(r, 1, i + 1) = Append(SubSeq(r, 1, i), r[i + 1])
<1>1. Len(r) \in Nat /\ DOMAIN r = 1..Len(r) /\ \A i \in 1..Len(r) : r[i] \in T
  BY LenProperties, ElementOfSeq
<1>2. SubSeq(r, 1, 0) = <<>>
  BY SubSeqEmpty, 1 \in Int, 0 \in Int, 0 < 1
<1>3. SubSeq(r, 1, Len(r)) = r
  BY SubSeqFull
<1>4. ASSUME NEW i \in 0..Len(r)
      PROVE  /\ SubSeq(r, 1, i) \in Seq(T) /\ Len(SubSeq(r, 1, i)) = i
             /\ DOMAIN SubSeq(r, 1, i) = 1..i
             /\ \A j \in 1..i : SubSeq(r, 1, i)[j] = r[j]
  <2>1. 1 \in Int /\ i \in Int /\ i - 1 + 1 = i /\ \A j \in 1..i : j \in 1..Len(r) /\ 1 + j - 1 = j
    BY <1>1
  <2>2. \A j \in 1..i : r[j] \in T
    BY <1>1, <2>1
  <2>3. /\ SubSeq(r, 1, i) \in Seq(T) /\ Len(SubSeq(r, 1, i)) = IF 1 <= i THEN i - 1 + 1 ELSE 0
        /\ \A j \in 1..(i - 1 + 1) : SubSeq(r, 1, i)[j] = r[1 + j - 1]
    BY <2>1, <2>2, SubSeqProperties
  <2>4. Len(SubSeq(r, 1, i)) = i
    BY <1>1, <2>3
  <2> QED
    BY <2>1, <2>3, <2>4, LenProperties
<1>5. ASSUME NEW i \in 0..(Len(r) - 1)
      PROVE  /\ r[i + 1] \in T /\ i \in 0..Len(r) /\ i + 1 \in 0..Len(r) /\ i + 1 \in 1..Len(r)
             /\ SubSeq(r, 1, i + 1) = Append(SubSeq(r, 1, i), r[i + 1])
  <2>1. i \in 0..Len(r) /\ i + 1 \in 0..Len(r) /\ i + 1 \in 1..Len(r) /\ i \in Nat /\ i + 1 \in Nat
    BY <1>1
  <2>2. r[i + 1] \in T
    BY <1>1, <2>1
  <2>3. /\ Append(SubSeq(r, 1, i), r[i + 1]) \in Seq(T)
        /\ Len(Append(SubSeq(r, 1, i), r[i + 1])) = i + 1
        /\ \A j \in 1..i : Append(SubSeq(r, 1, i), r[i + 1])[j] = r[j]
        /\ Append(SubSeq(r, 1, i), r[i + 1])[i + 1] = r[i + 1]
    BY <1>4, <2>1, <2>2, AppendProperties
  <2>4. \A j \in 1..(i + 1) : j \in 1..i \/ j = i + 1
    BY <2>1
  <2>5. \A j \in 1..(i + 1) : SubSeq(r, 1, i + 1)[j] = Append(SubSeq(r, 1, i), r[i + 1])[j]
    BY <1>4, <2>1, <2>3, <2>4
  <2>6. SubSeq(r, 1, i + 1) \in Seq(T) /\ Len(SubSeq(r, 1, i + 1)) = i + 1
    BY <1>4, <2>1
  <2> QED
    BY <2>1, <2>2, <2>3, <2>5, <2>6, SeqEqual
<1> QED
  BY <1>1, <1>2, <1>3, <1>4, <1>5

\* Two lists, the second of which is put together one by one.
LEMMA AppendConcat ==
    ASSUME NEW T, NEW s \in Seq(T), NEW r \in Seq(T), NEW e \in T
    PROVE  s \o Append(r, e) = Append(s \o r, e)
<1>1. Append(r, e) = r \o <<e>> /\ <<e>> \in Seq(T)
  BY AppendIsConcat
<1>2. s \o r \in Seq(T)
  BY ConcatProperties
<1>3. Append(s \o r, e) = (s \o r) \o <<e>>
  BY <1>2, AppendIsConcat
<1> QED
  BY <1>1, <1>3, ConcatAssociative

LEMMA OperationsAssociative == \A x, y, z \in Seq(Operations) : (x \o y) \o z = x \o (y \o z)
<1> TAKE x, y, z \in Seq(Operations)
<1> QED
  BY ConcatAssociative

-----------------------------------------------------------------------------
\* What a state says of a table

At(f, t) == IF t \in DOMAIN f THEN <<f[t]>> ELSE <<>>

LEMMA AtValue ==
    ASSUME NEW f, NEW t
    PROVE  /\ \A x : At(f, t) = <<x>> <=> t \in DOMAIN f /\ f[t] = x
           /\ At(f, t) = <<>> <=> t \notin DOMAIN f
<1>1. \A x, y : <<x>> = <<y>> <=> x = y
  OBVIOUS
<1>2. \A x : <<x>> # <<>>
  OBVIOUS
<1> QED
  BY <1>1, <1>2 DEF At

LEMMA SameAt ==
    ASSUME NEW f, NEW g, NEW t
    PROVE  At(f, t) = At(g, t) <=> /\ t \in DOMAIN f <=> t \in DOMAIN g
                                   /\ t \in DOMAIN f => f[t] = g[t]
<1>1. \A x, y : <<x>> = <<y>> <=> x = y
  OBVIOUS
<1>2. \A x : <<x>> # <<>>
  OBVIOUS
<1> QED
  BY <1>1, <1>2 DEF At

LEMMA PutAt ==
    ASSUME NEW f, NEW k, NEW v
    PROVE  \A t : At(Put(f, k, v), t) = IF t = k THEN <<v>> ELSE At(f, t)
<1> TAKE t
<1>1. DOMAIN Put(f, k, v) = DOMAIN f \cup {k}
  BY DEF Put
<1>2. k \in DOMAIN Put(f, k, v) /\ Put(f, k, v)[k] = v
  BY DEF Put
<1>3. t # k /\ t \in DOMAIN f => Put(f, k, v)[t] = f[t]
  BY DEF Put
<1>4. CASE t = k
  BY <1>1, <1>2, <1>4 DEF At
<1>5. CASE t # k
  BY <1>1, <1>3, <1>5 DEF At
<1> QED
  BY <1>4, <1>5

LEMMA WithoutAt ==
    ASSUME NEW f, NEW k
    PROVE  \A t : At(Without(f, k), t) = IF t = k THEN <<>> ELSE At(f, t)
<1> TAKE t
<1>1. DOMAIN Without(f, k) = DOMAIN f \ {k}
  BY DEF Without, Restrict
<1>2. t # k /\ t \in DOMAIN f => Without(f, k)[t] = f[t]
  BY DEF Without, Restrict
<1> QED
  BY <1>1, <1>2 DEF At

\* An operation changes only its table; FieldKinds change only the fields.
FieldKinds == {"AddField", "RemoveField", "RenameField", "AlterField"}

Altered(op, fields) ==
    CASE op.kind \in {"AddField", "AlterField"} -> Put(fields, op.name, op.pytype)
      [] op.kind = "RemoveField" -> Without(fields, op.name)
      [] op.kind = "RenameField" -> renamed(fields, op.name, op.new_name)

LEMMA MutateAt ==
    ASSUME NEW op \in Operations, NEW f \in States
    PROVE  /\ op.kind \notin Structural => mutate_state(op, f) = f
           /\ op.kind \in Structural => op.table \in Tables
           /\ op.kind \in Structural => op.kind \in FieldKinds \cup {"CreateTable", "DeleteTable"}
           /\ \A t : op.kind \in Structural /\ t # op.table => At(mutate_state(op, f), t) = At(f, t)
           /\ op.kind = "CreateTable" => At(mutate_state(op, f), op.table) = <<op.spec>>
           /\ op.kind = "DeleteTable" => At(mutate_state(op, f), op.table) = <<>>
           /\ op.kind \in FieldKinds =>
                At(mutate_state(op, f), op.table) =
                    IF op.table \in DOMAIN f
                    THEN <<[pk |-> f[op.table].pk, fields |-> Altered(op, f[op.table].fields)]>> ELSE <<>>
<1> DEFINE m == mutate_state(op, f)
           t == op.table
<1>1. DOMAIN f \subseteq Tables /\ f = [x \in DOMAIN f |-> f[x]] /\ \A x \in DOMAIN f : f[x] \in Specs
  BY DEF States
<1>2. op.kind \in Structural => t \in Tables
  BY DEF Operations, Structural
<1>3. op.kind \notin Structural => m = f
  BY DEF mutate_state, Structural
<1>4. op.kind = "CreateTable" => m = Put(f, t, op.spec)
  BY DEF mutate_state
<1>5. op.kind = "DeleteTable" => m = Without(f, t)
  BY DEF mutate_state
<1>6. op.kind \in FieldKinds => m = [f EXCEPT ![t].fields = Altered(op, @)]
  BY DEF mutate_state, Altered, FieldKinds
<1>7. op.kind \in Structural => op.kind \in FieldKinds \cup {"CreateTable", "DeleteTable"}
  BY DEF Structural, FieldKinds
<1>8. ASSUME NEW F, m = [f EXCEPT ![t].fields = F]
      PROVE  /\ \A x : x # t => At(m, x) = At(f, x)
             /\ At(m, t) = IF t \in DOMAIN f THEN <<[pk |-> f[t].pk, fields |-> F]>> ELSE <<>>
  <2> HIDE DEF m, t
  <2>1. DOMAIN m = DOMAIN f /\ \A x \in DOMAIN f : x # t => m[x] = f[x]
    BY <1>1, <1>8
  <2>2. \A x : x # t => At(m, x) = At(f, x)
    BY <2>1 DEF At
  <2>3. ASSUME t \in DOMAIN f PROVE m[t] = [pk |-> f[t].pk, fields |-> F]
    <3>1. m[t] = [f[t] EXCEPT !.fields = F]
      BY <1>1, <1>8, <2>3
    <3>2. f[t] \in [pk : Columns, fields : Fields]
      BY <1>1, <2>3 DEF Specs
    <3> QED
      BY <3>1, <3>2
  <2>4. At(m, t) = IF t \in DOMAIN f THEN <<[pk |-> f[t].pk, fields |-> F]>> ELSE <<>>
    BY <2>1, <2>3 DEF At
  <2> QED
    BY <2>2, <2>4
<1>9. op.kind \in FieldKinds =>
        /\ \A x : x # t => At(m, x) = At(f, x)
        /\ At(m, t) = IF t \in DOMAIN f
                      THEN <<[pk |-> f[t].pk, fields |-> Altered(op, f[t].fields)]>> ELSE <<>>
  <2> SUFFICES ASSUME op.kind \in FieldKinds
               PROVE  /\ \A x : x # t => At(m, x) = At(f, x)
                      /\ At(m, t) = IF t \in DOMAIN f
                              THEN <<[pk |-> f[t].pk, fields |-> Altered(op, f[t].fields)]>> ELSE <<>>
    OBVIOUS
  <2>1. m = [f EXCEPT ![t].fields = Altered(op, f[t].fields)]
    BY <1>6
  <2> HIDE DEF m, t
  <2> QED
    BY <1>8, <2>1
<1>10. op.kind = "CreateTable" => (\A x : x # t => At(m, x) = At(f, x)) /\ At(m, t) = <<op.spec>>
  <2> HIDE DEF m, t
  <2> QED
    BY <1>4, PutAt
<1>11. op.kind = "DeleteTable" => (\A x : x # t => At(m, x) = At(f, x)) /\ At(m, t) = <<>>
  <2> HIDE DEF m, t
  <2> QED
    BY <1>5, WithoutAt
<1> HIDE DEF m, t
<1>12. op.kind \in Structural => \A x : x # t => At(m, x) = At(f, x)
  BY <1>7, <1>9, <1>10, <1>11
<1>13. /\ op.kind \notin Structural => m = f
       /\ op.kind \in Structural => t \in Tables
       /\ op.kind \in Structural => op.kind \in FieldKinds \cup {"CreateTable", "DeleteTable"}
       /\ \A x : op.kind \in Structural /\ x # t => At(m, x) = At(f, x)
       /\ op.kind = "CreateTable" => At(m, t) = <<op.spec>>
       /\ op.kind = "DeleteTable" => At(m, t) = <<>>
       /\ op.kind \in FieldKinds =>
             At(m, t) = IF t \in DOMAIN f
                        THEN <<[pk |-> f[t].pk, fields |-> Altered(op, f[t].fields)]>> ELSE <<>>
  BY <1>2, <1>3, <1>7, <1>9, <1>10, <1>11, <1>12
<1> QED
  BY <1>13 DEF m, t

\* The state after one operation more.
LEMMA FoldAppend ==
    ASSUME NEW ops \in Seq(Operations), NEW op \in Operations
    PROVE  /\ Append(ops, op) \in Seq(Operations)
           /\ Fold(Append(ops, op)) = mutate_state(op, Fold(ops))
<1> DEFINE more == Append(ops, op)
           n == Len(ops)
<1>1. /\ more \in Seq(Operations) /\ n \in Nat /\ Len(more) = n + 1
      /\ \A i \in 1..n : more[i] = ops[i]
      /\ more[n + 1] = op
  BY AppendProperties, LenProperties
<1>2. PICK f : Course(ops, f)
  BY FoldSteps
<1>3. PICK g : Course(more, g)
  <2> HIDE DEF more
  <2> QED
    BY <1>1, FoldSteps
<1> HIDE DEF more
<1>4. /\ g[0] = NoTables /\ Fold(more) = g[n + 1]
      /\ \A i \in 1..(n + 1) : g[i] = mutate_state(more[i], g[i - 1])
  BY <1>1, <1>3 DEF Course
<1>5. /\ f[0] = NoTables /\ Fold(ops) = f[n]
      /\ \A i \in 1..n : f[i] = mutate_state(ops[i], f[i - 1])
  BY <1>2 DEF Course
<1> HIDE DEF n
<1> DEFINE T == {i \in 0..n : f[i] = g[i]}
<1>6. 0 \in T
  BY <1>1, <1>4, <1>5
<1>7. \A i \in 0..(n - 1) : i \in T => i + 1 \in T
  <2> SUFFICES ASSUME NEW i \in 0..(n - 1), f[i] = g[i] PROVE i + 1 \in T
    OBVIOUS
  <2>1. i + 1 \in 1..n /\ i + 1 \in 1..(n + 1) /\ (i + 1) - 1 = i /\ i + 1 \in 0..n
    BY <1>1
  <2>2. f[i + 1] = g[i + 1]
    BY <1>1, <1>4, <1>5, <2>1
  <2> QED
    BY <2>1, <2>2
<1>8. n \in 0..n /\ n + 1 \in 1..(n + 1) /\ (n + 1) - 1 = n
  BY <1>1
<1>9. n \in T
  <2> HIDE DEF T
  <2> QED
    BY <1>1, <1>6, <1>7, <1>8, UpTo
<1>10. g[n + 1] = mutate_state(op, f[n])
  BY <1>1, <1>4, <1>8, <1>9
<1> QED
  BY <1>1, <1>4, <1>5, <1>10 DEF more

\* The states along the operations r, from the state that s leaves.
LEMMA FoldAlong ==
    ASSUME NEW s \in Seq(Operations), NEW r \in Seq(Operations)
    PROVE  \E g \in [0..Len(r) -> States] :
              /\ g[0] = Fold(s) /\ g[Len(r)] = Fold(s \o r)
              /\ \A i \in 0..Len(r) : g[i] = Fold(s \o SubSeq(r, 1, i))
              /\ \A i \in 0..(Len(r) - 1) : g[i + 1] = mutate_state(r[i + 1], g[i])
<1> DEFINE g == [i \in 0..Len(r) |-> Fold(s \o SubSeq(r, 1, i))]
<1>1. /\ Len(r) \in Nat /\ SubSeq(r, 1, 0) = <<>> /\ SubSeq(r, 1, Len(r)) = r
      /\ \A i \in 0..Len(r) : SubSeq(r, 1, i) \in Seq(Operations)
      /\ \A i \in 0..(Len(r) - 1) : /\ r[i + 1] \in Operations /\ i \in 0..Len(r) /\ i + 1 \in 0..Len(r)
                                    /\ SubSeq(r, 1, i + 1) = Append(SubSeq(r, 1, i), r[i + 1])
  BY Beginnings
<1>2. \A i \in 0..Len(r) : s \o SubSeq(r, 1, i) \in Seq(Operations)
  BY <1>1, ConcatProperties
<1>3. g \in [0..Len(r) -> States]
  BY <1>2, FoldTyped
<1>4. s \o <<>> = s
  BY ConcatEmptySeq
<1>5. 0 \in 0..Len(r) /\ Len(r) \in 0..Len(r)
  BY <1>1
<1>6. \A i \in 0..(Len(r) - 1) : g[i + 1] = mutate_state(r[i + 1], g[i])
  <2> SUFFICES ASSUME NEW i \in 0..(Len(r) - 1) PROVE g[i + 1] = mutate_state(r[i + 1], g[i])
    OBVIOUS
  <2>1. /\ r[i + 1] \in Operations /\ i \in 0..Len(r) /\ i + 1 \in 0..Len(r)
        /\ SubSeq(r, 1, i) \in Seq(Operations)
        /\ SubSeq(r, 1, i + 1) = Append(SubSeq(r, 1, i), r[i + 1])
    BY <1>1
  <2>2. s \o SubSeq(r, 1, i + 1) = Append(s \o SubSeq(r, 1, i), r[i + 1])
    BY <2>1, AppendConcat
  <2>3. Fold(s \o SubSeq(r, 1, i + 1)) = mutate_state(r[i + 1], Fold(s \o SubSeq(r, 1, i)))
    BY <1>2, <2>1, <2>2, FoldAppend
  <2> QED
    BY <2>1, <2>3
<1> QED
  BY <1>1, <1>3, <1>4, <1>5, <1>6

LEMMA EmptyElements ==
    ASSUME NEW T, NEW s \in Seq(T)
    PROVE  s = <<>> <=> \A e : e \notin ToSet(s)
<1>1. Len(s) \in Nat /\ DOMAIN s = 1..Len(s)
  BY LenProperties
<1>2. Len(s) = 0 <=> s = <<>>
  BY EmptySeq
<1>3. ASSUME Len(s) # 0 PROVE s[1] \in ToSet(s)
  <2>1. 1 \in DOMAIN s
    BY <1>1, <1>3
  <2> QED
    BY <2>1 DEF ToSet
<1>4. ASSUME Len(s) = 0 PROVE \A e : e \notin ToSet(s)
  <2>1. DOMAIN s = {}
    BY <1>1, <1>4
  <2> QED
    BY <2>1 DEF ToSet
<1> QED
  BY <1>2, <1>3, <1>4

-----------------------------------------------------------------------------
\* What the autodetector finds

\* The operations that bring a table from the specification old to spec.
LEMMA FieldsDetected ==
    ASSUME NEW t \in Tables, NEW spec \in Specs, NEW old \in Specs
    PROVE  \A e : e \in ToSet(detect_fields(t, spec, old)) <=>
              \/ \E c \in DOMAIN spec.fields :
                    \/ c \in DOMAIN old.fields /\ old.fields[c] # spec.fields[c]
                       /\ e = AlterField(t, c, spec.fields[c])
                    \/ c \notin DOMAIN old.fields /\ e = AddField(t, c, spec.fields[c])
              \/ \E c \in DOMAIN old.fields \ (DOMAIN spec.fields \cup {old.pk}) : e = RemoveField(t, c)
<1> DEFINE changed == {c \in DOMAIN spec.fields :
                          c \notin DOMAIN old.fields \/ old.fields[c] # spec.fields[c]}
           gone == DOMAIN old.fields \ (DOMAIN spec.fields \cup {old.pk})
           bring(c) == IF c \in DOMAIN old.fields THEN AlterField(t, c, spec.fields[c])
                                                  ELSE AddField(t, c, spec.fields[c])
           first == Only(ColumnOrder, changed)
           last == Only(ColumnOrder, gone)
           one == [i \in DOMAIN first |-> bring(first[i])]
           two == [i \in DOMAIN last |-> RemoveField(t, last[i])]
<1>1. ColumnOrder \in Seq(Columns) /\ ToSet(ColumnOrder) = Columns
  BY NamesAssumption DEF Columns
<1>2. DOMAIN spec.fields \subseteq Columns /\ \A c \in DOMAIN spec.fields : spec.fields[c] \in PyTypes
  BY FieldsTyped DEF Specs
<1>3. DOMAIN old.fields \subseteq Columns
  BY FieldsTyped DEF Specs
<1>4. first \in Seq(Columns) /\ \A c : c \in ToSet(first) <=> c \in changed
  <2>1. \A c : c \in changed => c \in Columns
    BY <1>2
  <2> HIDE DEF changed
  <2> QED
    BY <1>1, <2>1, OnlySubset
<1>5. last \in Seq(Columns) /\ \A c : c \in ToSet(last) <=> c \in gone
  <2>1. \A c : c \in gone => c \in Columns
    BY <1>3
  <2> HIDE DEF gone
  <2> QED
    BY <1>1, <2>1, OnlySubset
<1>6. \A c \in changed : bring(c) \in Operations
  <2>1. \A c \in Columns, p \in PyTypes : AlterField(t, c, p) \in Operations /\ AddField(t, c, p) \in Operations
    BY DEF AlterField, AddField, Operations
  <2> QED
    BY <1>2, <2>1
<1>7. \A c \in gone : RemoveField(t, c) \in Operations
  <2>1. \A c \in Columns : RemoveField(t, c) \in Operations
    BY DEF RemoveField, Operations
  <2> QED
    BY <1>3, <2>1
<1>8. detect_fields(t, spec, old) = one \o two
  BY DEF detect_fields
<1>9. one \in Seq(Operations) /\ \A e : e \in ToSet(one) <=> \E c \in changed : e = bring(c)
  <2> HIDE DEF first, changed, bring
  <2>1. Len(first) \in Nat /\ DOMAIN first = 1..Len(first) /\ DOMAIN one = DOMAIN first
    BY <1>4, LenProperties
  <2>2. \A c : c \in changed <=> \E i \in DOMAIN first : first[i] = c
    BY <1>4 DEF ToSet
  <2>3. one \in [1..Len(first) -> Operations]
    BY <1>6, <2>1, <2>2
  <2>4. \A e : e \in ToSet(one) <=> \E i \in DOMAIN first : e = bring(first[i])
    BY <2>1 DEF ToSet
  <2> HIDE DEF one
  <2>5. one \in Seq(Operations)
    BY <2>1, <2>3, SequenceOf
  <2> QED
    BY <2>2, <2>4, <2>5
<1>10. two \in Seq(Operations) /\ \A e : e \in ToSet(two) <=> \E c \in gone : e = RemoveField(t, c)
  <2> HIDE DEF last, gone
  <2>1. Len(last) \in Nat /\ DOMAIN last = 1..Len(last) /\ DOMAIN two = DOMAIN last
    BY <1>5, LenProperties
  <2>2. \A c : c \in gone <=> \E i \in DOMAIN last : last[i] = c
    BY <1>5 DEF ToSet
  <2>3. two \in [1..Len(last) -> Operations]
    BY <1>7, <2>1, <2>2
  <2>4. \A e : e \in ToSet(two) <=> \E i \in DOMAIN last : e = RemoveField(t, last[i])
    BY <2>1 DEF ToSet
  <2> HIDE DEF two
  <2>5. two \in Seq(Operations)
    BY <2>1, <2>3, SequenceOf
  <2> QED
    BY <2>2, <2>4, <2>5
<1>11. \A e : e \in ToSet(one \o two) <=> (\E c \in changed : e = bring(c)) \/ \E c \in gone : e = RemoveField(t, c)
  <2> HIDE DEF one, two, changed, gone, bring
  <2> QED
    BY <1>9, <1>10, ConcatElements
<1>12. \A e : (\E c \in changed : e = bring(c)) <=>
              \E c \in DOMAIN spec.fields :
                    \/ c \in DOMAIN old.fields /\ old.fields[c] # spec.fields[c]
                       /\ e = AlterField(t, c, spec.fields[c])
                    \/ c \notin DOMAIN old.fields /\ e = AddField(t, c, spec.fields[c])
  OBVIOUS
<1> HIDE DEF one, two, changed, bring
<1> QED
  BY <1>8, <1>11, <1>12

\* Nothing brings the fields of old closer to those of spec.
Matches(spec, old) ==
    \A c \in Columns : \/ At(spec.fields, c) = At(old.fields, c)
                       \/ c = old.pk /\ c \notin DOMAIN spec.fields

LEMMA FieldsMatch ==
    ASSUME NEW t \in Tables, NEW spec \in Specs, NEW old \in Specs
    PROVE  /\ detect_fields(t, spec, old) = <<>> <=> Matches(spec, old)
           /\ \A e \in ToSet(detect_fields(t, spec, old)) :
                /\ e.kind \in FieldKinds /\ e.table = t /\ e.name \in Columns
                /\ \A f : At(Altered(e, f), e.name) = At(spec.fields, e.name)
                /\ \A f, c : c # e.name => At(Altered(e, f), c) = At(f, c)
           /\ \A c \in Columns :
                \/ \E e \in ToSet(detect_fields(t, spec, old)) : e.name = c
                \/ At(spec.fields, c) = At(old.fields, c)
                \/ c = old.pk /\ c \notin DOMAIN spec.fields
<1> DEFINE D == detect_fields(t, spec, old)
<1>1. D \in Seq(Operations)
  BY DetectFieldsTyped
<1>2. DOMAIN spec.fields \subseteq Columns /\ DOMAIN old.fields \subseteq Columns
  BY FieldsTyped DEF Specs
<1>3. ASSUME NEW e \in ToSet(D)
      PROVE  /\ e.kind \in FieldKinds /\ e.table = t /\ e.name \in Columns
             /\ \A f : At(Altered(e, f), e.name) = At(spec.fields, e.name)
             /\ \A f, c : c # e.name => At(Altered(e, f), c) = At(f, c)
  <2>1. CASE \E c \in DOMAIN spec.fields :
                  e \in {AlterField(t, c, spec.fields[c]), AddField(t, c, spec.fields[c])}
    <3>1. PICK c \in DOMAIN spec.fields : e \in {AlterField(t, c, spec.fields[c]), AddField(t, c, spec.fields[c])}
      BY <2>1
    <3>2. e.kind \in {"AddField", "AlterField"} /\ e.table = t /\ e.name = c /\ e.pytype = spec.fields[c]
      BY <3>1 DEF AlterField, AddField
    <3>3. \A f : Altered(e, f) = Put(f, c, spec.fields[c])
      BY <3>2 DEF Altered
    <3>4. At(spec.fields, c) = <<spec.fields[c]>>
      BY DEF At
    <3>5. \A f : At(Altered(e, f), c) = At(spec.fields, c)
      BY <3>3, <3>4, PutAt
    <3>6. \A f, x : x # c => At(Altered(e, f), x) = At(f, x)
      BY <3>3, PutAt
    <3>7. e.kind \in FieldKinds
      BY <3>2 DEF FieldKinds
    <3> QED
      BY <1>2, <3>2, <3>5, <3>6, <3>7
  <2>2. CASE \E c \in DOMAIN old.fields \ (DOMAIN spec.fields \cup {old.pk}) : e = RemoveField(t, c)
    <3>1. PICK c \in DOMAIN old.fields \ (DOMAIN spec.fields \cup {old.pk}) : e = RemoveField(t, c)
      BY <2>2
    <3>2. e.kind = "RemoveField" /\ e.table = t /\ e.name = c
      BY <3>1 DEF RemoveField
    <3>3. \A f : Altered(e, f) = Without(f, c)
      BY <3>2 DEF Altered
    <3>4. At(spec.fields, c) = <<>>
      BY DEF At
    <3>5. \A f : At(Altered(e, f), c) = At(spec.fields, c)
      BY <3>3, <3>4, WithoutAt
    <3>6. \A f, x : x # c => At(Altered(e, f), x) = At(f, x)
      BY <3>3, WithoutAt
    <3>7. e.kind \in FieldKinds
      BY <3>2 DEF FieldKinds
    <3> QED
      BY <1>2, <3>2, <3>5, <3>6, <3>7
  <2> QED
    BY <2>1, <2>2, FieldsDetected
<1>4. ASSUME NEW c \in Columns
      PROVE  \/ \E e \in ToSet(D) : e.name = c
             \/ At(spec.fields, c) = At(old.fields, c)
             \/ c = old.pk /\ c \notin DOMAIN spec.fields
  <2>1. ASSUME c \in DOMAIN spec.fields, At(spec.fields, c) # At(old.fields, c)
        PROVE  \E e \in ToSet(D) : e.name = c
    <3>1. c \notin DOMAIN old.fields \/ old.fields[c] # spec.fields[c]
      BY <2>1, SameAt
    <3>2. AlterField(t, c, spec.fields[c]).name = c /\ AddField(t, c, spec.fields[c]).name = c
      BY DEF AlterField, AddField
    <3>3. AlterField(t, c, spec.fields[c]) \in ToSet(D) \/ AddField(t, c, spec.fields[c]) \in ToSet(D)
      BY <2>1, <3>1, FieldsDetected
    <3> QED
      BY <3>2, <3>3
  <2>2. ASSUME c \notin DOMAIN spec.fields, At(spec.fields, c) # At(old.fields, c), c # old.pk
        PROVE  \E e \in ToSet(D) : e.name = c
    <3>1. c \in DOMAIN old.fields
      BY <2>2, SameAt
    <3>2. RemoveField(t, c).name = c
      BY DEF RemoveField
    <3>3. RemoveField(t, c) \in ToSet(D)
      BY <2>2, <3>1, FieldsDetected
    <3> QED
      BY <3>2, <3>3
  <2> QED
    BY <2>1, <2>2
<1>5. D = <<>> => Matches(spec, old)
  BY <1>1, <1>4, EmptyElements DEF Matches
<1>6. ASSUME Matches(spec, old) PROVE D = <<>>
  <2> SUFFICES ASSUME NEW e \in ToSet(D) PROVE FALSE
    BY <1>1, EmptyElements
  <2>1. ASSUME NEW c \in DOMAIN spec.fields PROVE c \in DOMAIN old.fields /\ old.fields[c] = spec.fields[c]
    <3>1. At(spec.fields, c) = At(old.fields, c)
      BY <1>2, <1>6 DEF Matches
    <3> QED
      BY <3>1, SameAt
  <2>2. ASSUME NEW c \in DOMAIN old.fields \ (DOMAIN spec.fields \cup {old.pk}) PROVE FALSE
    <3>1. At(spec.fields, c) = At(old.fields, c)
      BY <1>2, <1>6 DEF Matches
    <3> QED
      BY <3>1, SameAt
  <2> QED
    BY <2>1, <2>2, FieldsDetected
<1> QED
  BY <1>3, <1>4, <1>5, <1>6

\* The operations that bring the tables of an application from h to d.
LEMMA ChangesDetected ==
    ASSUME NEW d \in States, NEW h \in States
    PROVE  \A e : e \in ToSet(detect_changes_for_app(d, h)) <=>
              \/ \E t \in DOMAIN d \ DOMAIN h : e = CreateTable(t, d[t])
              \/ \E t \in DOMAIN d \cap DOMAIN h : e \in ToSet(detect_fields(t, d[t], h[t]))
              \/ \E t \in DOMAIN h \ DOMAIN d : e = DeleteTable(t)
<1> DEFINE changes(t) == IF t \notin DOMAIN h THEN <<CreateTable(t, d[t])>>
                         ELSE detect_fields(t, d[t], h[t])
           kept == Only(TableOrder, DOMAIN d)
           gone == Only(TableOrder, DOMAIN h \ DOMAIN d)
           lists == [i \in DOMAIN kept |-> changes(kept[i])]
           last == [i \in DOMAIN gone |-> DeleteTable(gone[i])]
<1>1. TableOrder \in Seq(Tables) /\ ToSet(TableOrder) = Tables
  BY NamesAssumption DEF Tables
<1>2. \A t \in DOMAIN d : t \in Tables /\ d[t] \in Specs
  BY DEF States
<1>3. \A t \in DOMAIN h : t \in Tables /\ h[t] \in Specs
  BY DEF States
<1>4. ASSUME NEW t \in DOMAIN d PROVE changes(t) \in Seq(Operations)
  <2>1. CreateTable(t, d[t]) \in Operations
    BY <1>2 DEF CreateTable, Operations
  <2>2. <<CreateTable(t, d[t])>> \in Seq(Operations)
    BY <2>1
  <2>3. t \in DOMAIN h => detect_fields(t, d[t], h[t]) \in Seq(Operations)
    BY <1>2, <1>3, DetectFieldsTyped
  <2> QED
    BY <2>2, <2>3
<1>5. /\ kept \in Seq(Tables) /\ Len(kept) \in Nat /\ DOMAIN kept = 1..Len(kept)
      /\ \A t : t \in DOMAIN d <=> \E i \in DOMAIN kept : kept[i] = t
  <2>1. kept \in Seq(Tables) /\ \A t : t \in ToSet(kept) <=> t \in DOMAIN d
    BY <1>1, <1>2, OnlySubset
  <2> HIDE DEF kept
  <2> QED
    BY <2>1, LenProperties DEF ToSet
<1>6. /\ gone \in Seq(Tables) /\ Len(gone) \in Nat /\ DOMAIN gone = 1..Len(gone)
      /\ \A t : t \in DOMAIN h \ DOMAIN d <=> \E i \in DOMAIN gone : gone[i] = t
  <2>1. gone \in Seq(Tables) /\ \A t : t \in ToSet(gone) <=> t \in DOMAIN h \ DOMAIN d
    BY <1>1, <1>3, OnlySubset
  <2> HIDE DEF gone
  <2> QED
    BY <2>1, LenProperties DEF ToSet
<1>7. detect_changes_for_app(d, h) = FlattenSeq(lists) \o last
  BY DEF detect_changes_for_app
<1>8. /\ FlattenSeq(lists) \in Seq(Operations)
      /\ \A e : e \in ToSet(FlattenSeq(lists)) <=> \E t \in DOMAIN d : e \in ToSet(changes(t))
  <2> HIDE DEF kept, changes
  <2>1. lists \in [1..Len(kept) -> Seq(Operations)]
    BY <1>4, <1>5
  <2>2. DOMAIN lists = DOMAIN kept /\ \A i \in DOMAIN kept : lists[i] = changes(kept[i])
    OBVIOUS
  <2> HIDE DEF lists
  <2>3. lists \in Seq(Seq(Operations))
    BY <1>5, <2>1, SequenceOf
  <2>4. /\ FlattenSeq(lists) \in Seq(Operations)
        /\ \A e : e \in ToSet(FlattenSeq(lists)) <=> \E i \in DOMAIN lists : e \in ToSet(lists[i])
    BY <2>3, FlattenElements
  <2>5. \A e : (\E i \in DOMAIN kept : e \in ToSet(changes(kept[i]))) <=> \E t \in DOMAIN d : e \in ToSet(changes(t))
    BY <1>5
  <2> QED
    BY <2>2, <2>4, <2>5
<1>9. last \in Seq(Operations) /\ \A e : e \in ToSet(last) <=> \E t \in DOMAIN h \ DOMAIN d : e = DeleteTable(t)
  <2> HIDE DEF gone
  <2>1. \A t \in Tables : DeleteTable(t) \in Operations
    BY DEF DeleteTable, Operations
  <2>2. last \in [1..Len(gone) -> Operations]
    BY <1>3, <1>6, <2>1
  <2>3. \A e : e \in ToSet(last) <=> \E i \in DOMAIN gone : e = DeleteTable(gone[i])
    BY DEF ToSet
  <2>4. \A e : (\E i \in DOMAIN gone : e = DeleteTable(gone[i])) <=> \E t \in DOMAIN h \ DOMAIN d : e = DeleteTable(t)
    BY <1>6
  <2> HIDE DEF last
  <2>5. last \in Seq(Operations)
    BY <1>6, <2>2, SequenceOf
  <2> QED
    BY <2>3, <2>4, <2>5
<1>10. \A t, e : e \in ToSet(<<CreateTable(t, d[t])>>) <=> e = CreateTable(t, d[t])
  BY DEF ToSet
<1>11. \A e : (\E t \in DOMAIN d : e \in ToSet(changes(t))) <=>
              \/ \E t \in DOMAIN d \ DOMAIN h : e = CreateTable(t, d[t])
              \/ \E t \in DOMAIN d \cap DOMAIN h : e \in ToSet(detect_fields(t, d[t], h[t]))
  <2>1. \A t : t \notin DOMAIN h => changes(t) = <<CreateTable(t, d[t])>>
    OBVIOUS
  <2>2. \A t : t \in DOMAIN h => changes(t) = detect_fields(t, d[t], h[t])
    OBVIOUS
  <2> HIDE DEF changes
  <2> QED
    BY <1>10, <2>1, <2>2
<1>12. \A e : e \in ToSet(FlattenSeq(lists) \o last) <=>
              (\E t \in DOMAIN d : e \in ToSet(changes(t))) \/ \E t \in DOMAIN h \ DOMAIN d : e = DeleteTable(t)
  <2> HIDE DEF lists, last, changes
  <2> QED
    BY <1>8, <1>9, ConcatElements
<1> HIDE DEF lists, last, changes
<1> QED
  BY <1>7, <1>11, <1>12

LEMMA NothingDetected ==
    ASSUME NEW d \in States, NEW h \in States
    PROVE  detect_changes_for_app(d, h) = <<>> <=>
              DOMAIN d = DOMAIN h /\ \A t \in DOMAIN d : Matches(d[t], h[t])
<1> DEFINE D == detect_changes_for_app(d, h)
<1>1. D = <<>> <=> \A e : e \notin ToSet(D)
  BY DetectChangesTyped, EmptyElements
<1>2. \A t \in DOMAIN d : t \in Tables /\ d[t] \in Specs
  BY DEF States
<1>3. \A t \in DOMAIN h : t \in Tables /\ h[t] \in Specs
  BY DEF States
<1>4. \A t \in DOMAIN d \cap DOMAIN h : Matches(d[t], h[t]) <=> \A e : e \notin ToSet(detect_fields(t, d[t], h[t]))
  BY <1>2, <1>3, FieldsMatch, DetectFieldsTyped, EmptyElements
<1>5. \A e : e \in ToSet(D) <=>
              \/ \E t \in DOMAIN d \ DOMAIN h : e = CreateTable(t, d[t])
              \/ \E t \in DOMAIN d \cap DOMAIN h : e \in ToSet(detect_fields(t, d[t], h[t]))
              \/ \E t \in DOMAIN h \ DOMAIN d : e = DeleteTable(t)
  BY ChangesDetected
<1> HIDE DEF D
<1>6. (\A e : e \notin ToSet(D)) <=> /\ DOMAIN d \ DOMAIN h = {} /\ DOMAIN h \ DOMAIN d = {}
                                    /\ \A t \in DOMAIN d \cap DOMAIN h : \A e : e \notin ToSet(detect_fields(t, d[t], h[t]))
  BY <1>5
<1>7. DOMAIN d \ DOMAIN h = {} /\ DOMAIN h \ DOMAIN d = {} <=> DOMAIN d = DOMAIN h
  OBVIOUS
<1>8. D = <<>> <=> DOMAIN d = DOMAIN h /\ \A t \in DOMAIN d \cap DOMAIN h : Matches(d[t], h[t])
  BY <1>1, <1>4, <1>6, <1>7
<1> QED
  BY <1>8 DEF D

\* What is detected, once it has been written, leaves nothing to detect.
LEMMA ChangesSettle ==
    ASSUME NEW d \in States, NEW h \in States, NEW s \in Seq(Operations), Fold(s) = h
    PROVE  detect_changes_for_app(d, Fold(s \o detect_changes_for_app(d, h))) = <<>>
<1> DEFINE D == detect_changes_for_app(d, h)
           n == Len(D)
<1>1. D \in Seq(Operations)
  BY DetectChangesTyped
<1>2. \A t \in DOMAIN d : t \in Tables /\ d[t] \in Specs
  BY DEF States
<1>3. \A t \in DOMAIN h : t \in Tables /\ h[t] \in Specs
  BY DEF States
<1>4. \A e : e \in ToSet(D) <=>
              \/ \E t \in DOMAIN d \ DOMAIN h : e = CreateTable(t, d[t])
              \/ \E t \in DOMAIN d \cap DOMAIN h : e \in ToSet(detect_fields(t, d[t], h[t]))
              \/ \E t \in DOMAIN h \ DOMAIN d : e = DeleteTable(t)
  BY ChangesDetected
<1> HIDE DEF D
<1>5. /\ n \in Nat /\ DOMAIN D = 1..n /\ \A j \in 1..n : D[j] \in ToSet(D) /\ D[j] \in Operations
      /\ \A e \in ToSet(D) : \E j \in 1..n : D[j] = e
  BY <1>1, LenProperties, ElementOfSeq DEF ToSet
<1>6. \A t \in DOMAIN d \cap DOMAIN h : \A e \in ToSet(detect_fields(t, d[t], h[t])) :
          /\ e.kind \in FieldKinds /\ e.table = t /\ e.name \in Columns
          /\ \A f : At(Altered(e, f), e.name) = At(d[t].fields, e.name)
          /\ \A f, c : c # e.name => At(Altered(e, f), c) = At(f, c)
  BY <1>2, <1>3, FieldsMatch
<1>7. ASSUME NEW e \in ToSet(D)
      PROVE  /\ e.kind \in Structural /\ e.table \in DOMAIN d \cup DOMAIN h
             /\ e.table \in DOMAIN d \ DOMAIN h => e.kind = "CreateTable" /\ e.spec = d[e.table]
             /\ e.table \in DOMAIN h \ DOMAIN d => e.kind = "DeleteTable"
             /\ e.table \in DOMAIN d \cap DOMAIN h => e \in ToSet(detect_fields(e.table, d[e.table], h[e.table]))
  <2>1. CASE \E t \in DOMAIN d \ DOMAIN h : e = CreateTable(t, d[t])
    BY <2>1 DEF CreateTable, Structural
  <2>2. CASE \E t \in DOMAIN d \cap DOMAIN h : e \in ToSet(detect_fields(t, d[t], h[t]))
    <3>1. PICK t \in DOMAIN d \cap DOMAIN h : e \in ToSet(detect_fields(t, d[t], h[t]))
      BY <2>2
    <3>2. e.kind \in FieldKinds /\ e.table = t
      BY <1>6, <3>1
    <3>3. FieldKinds \subseteq Structural
      BY DEF FieldKinds, Structural
    <3> QED
      BY <3>1, <3>2, <3>3
  <2>3. CASE \E t \in DOMAIN h \ DOMAIN d : e = DeleteTable(t)
    BY <2>3 DEF DeleteTable, Structural
  <2> QED
    BY <1>4, <2>1, <2>2, <2>3
<1>8. PICK g \in [0..n -> States] :
        /\ g[0] = h /\ g[n] = Fold(s \o D)
        /\ \A i \in 0..(n - 1) : g[i + 1] = mutate_state(D[i + 1], g[i])
  BY <1>1, FoldAlong
<1>9. \A i \in 0..(n - 1) : /\ i \in 0..n /\ i + 1 \in 0..n /\ i + 1 \in 1..n
                            /\ g[i] \in States /\ D[i + 1] \in ToSet(D) /\ D[i + 1] \in Operations
                            /\ \A j \in 1..(i + 1) : j \in 1..i \/ j = i + 1
                            /\ \A j \in 1..i : j \in 1..(i + 1)
  <2> SUFFICES ASSUME NEW i \in 0..(n - 1)
               PROVE  /\ i \in 0..n /\ i + 1 \in 0..n /\ i + 1 \in 1..n
                      /\ g[i] \in States /\ D[i + 1] \in ToSet(D) /\ D[i + 1] \in Operations
                      /\ \A j \in 1..(i + 1) : j \in 1..i \/ j = i + 1
                      /\ \A j \in 1..i : j \in 1..(i + 1)
    OBVIOUS
  <2>0. n \in Nat
    BY <1>5
  <2> HIDE DEF n
  <2>1. /\ i \in 0..n /\ i + 1 \in 0..n /\ i + 1 \in 1..n
        /\ \A j \in 1..(i + 1) : j \in 1..i \/ j = i + 1
        /\ \A j \in 1..i : j \in 1..(i + 1)
    BY <2>0
  <2> QED
    BY <1>5, <1>8, <2>1
<1>10. ASSUME NEW i \in 0..(n - 1), NEW t, D[i + 1].table # t PROVE At(g[i + 1], t) = At(g[i], t)
  <2>1. D[i + 1].kind \in Structural /\ D[i + 1] \in Operations /\ g[i] \in States
    BY <1>7, <1>9
  <2>2. At(mutate_state(D[i + 1], g[i]), t) = At(g[i], t)
    BY <1>10, <2>1, MutateAt
  <2> QED
    BY <1>8, <2>2
<1>11. 0 \in 0..n /\ n \in 0..n /\ n \in Nat /\ 1..0 = {}
  BY <1>5
<1> HIDE DEF n
<1>12. ASSUME NEW t \in DOMAIN d \ DOMAIN h PROVE At(g[n], t) = <<d[t]>>
  <2> DEFINE T == {i \in 0..n : (\E j \in 1..i : D[j].table = t) => At(g[i], t) = <<d[t]>>}
  <2>1. 0 \in T
    BY <1>11
  <2>2. ASSUME NEW i \in 0..(n - 1), i \in T PROVE i + 1 \in T
    <3>1. CASE D[i + 1].table = t
      <4>1. D[i + 1].kind = "CreateTable" /\ D[i + 1].spec = d[t]
        BY <1>7, <1>9, <1>12, <3>1
      <4>2. D[i + 1] \in Operations /\ g[i] \in States
        BY <1>9
      <4>3. At(mutate_state(D[i + 1], g[i]), D[i + 1].table) = <<D[i + 1].spec>>
        BY <4>1, <4>2, MutateAt
      <4> QED
        BY <1>8, <1>9, <3>1, <4>1, <4>3
    <3>2. CASE D[i + 1].table # t
      <4>1. At(g[i + 1], t) = At(g[i], t)
        BY <1>10, <3>2
      <4>2. (\E j \in 1..(i + 1) : D[j].table = t) => \E j \in 1..i : D[j].table = t
        BY <1>9, <3>2
      <4> QED
        BY <1>9, <2>2, <4>1, <4>2
    <3> QED
      BY <3>1, <3>2
  <2>3. n \in T
    <3> HIDE DEF T
    <3> QED
      BY <1>11, <2>1, <2>2, UpTo
  <2>4. CreateTable(t, d[t]) \in ToSet(D) /\ CreateTable(t, d[t]).table = t
    BY <1>4 DEF CreateTable
  <2> QED
    BY <1>5, <2>3, <2>4
<1>13. ASSUME NEW t, t \notin DOMAIN d PROVE At(g[n], t) = <<>>
  <2> DEFINE T == {i \in 0..n : (t \in DOMAIN h /\ \A j \in 1..i : D[j].table # t) \/ At(g[i], t) = <<>>}
  <2>1. 0 \in T
    <3>1. At(g[0], t) = At(h, t)
      BY <1>8
    <3>2. At(h, t) = <<>> \/ t \in DOMAIN h
      BY AtValue
    <3> QED
      BY <1>11, <3>1, <3>2
  <2>2. ASSUME NEW i \in 0..(n - 1), i \in T PROVE i + 1 \in T
    <3>1. CASE D[i + 1].table = t
      <4>1. D[i + 1].kind = "DeleteTable"
        BY <1>7, <1>9, <1>13, <3>1
      <4>2. D[i + 1] \in Operations /\ g[i] \in States
        BY <1>9
      <4>3. At(mutate_state(D[i + 1], g[i]), D[i + 1].table) = <<>>
        BY <4>1, <4>2, MutateAt
      <4> QED
        BY <1>8, <1>9, <3>1, <4>1, <4>3
    <3>2. CASE D[i + 1].table # t
      <4>1. At(g[i + 1], t) = At(g[i], t)
        BY <1>10, <3>2
      <4>2. (\A j \in 1..i : D[j].table # t) => \A j \in 1..(i + 1) : D[j].table # t
        BY <1>9, <3>2
      <4> QED
        BY <1>9, <2>2, <4>1, <4>2
    <3> QED
      BY <3>1, <3>2
  <2>3. n \in T
    <3> HIDE DEF T
    <3> QED
      BY <1>11, <2>1, <2>2, UpTo
  <2>4. t \in DOMAIN h => DeleteTable(t) \in ToSet(D) /\ DeleteTable(t).table = t
    BY <1>4, <1>13 DEF DeleteTable
  <2> QED
    BY <1>5, <2>3, <2>4
<1>14. ASSUME NEW t \in DOMAIN d \cap DOMAIN h PROVE t \in DOMAIN g[n] /\ Matches(d[t], g[n][t])
  <2> DEFINE Over(i, c) == \E j \in 1..i : D[j].table = t /\ D[j].name = c
             T == {i \in 0..n : /\ t \in DOMAIN g[i] /\ g[i][t].pk = h[t].pk
                                /\ \A c \in Columns : At(g[i][t].fields, c) =
                                       IF Over(i, c) THEN At(d[t].fields, c) ELSE At(h[t].fields, c)}
  <2>1. 0 \in T
    <3>1. t \in DOMAIN g[0] /\ g[0][t] = h[t]
      BY <1>8
    <3>2. \A c \in Columns : ~ Over(0, c)
      BY <1>11
    <3> HIDE DEF Over
    <3> QED
      BY <1>11, <3>1, <3>2
  <2>2. ASSUME NEW i \in 0..(n - 1), i \in T PROVE i + 1 \in T
    <3> DEFINE e == D[i + 1]
    <3>0. i + 1 \in 0..n /\ g[i] \in States /\ t \in DOMAIN g[i] /\ g[i][t].pk = h[t].pk
      BY <1>9, <2>2
    <3>1. CASE e.table = t
      <4>1. /\ e.kind \in FieldKinds /\ e.name \in Columns
            /\ \A f : At(Altered(e, f), e.name) = At(d[t].fields, e.name)
            /\ \A f, c : c # e.name => At(Altered(e, f), c) = At(f, c)
        BY <1>6, <1>7, <1>9, <3>1
      <4>2. e \in Operations
        BY <1>9
      <4> DEFINE F == Altered(e, g[i][t].fields)
      <4>3. At(g[i + 1], t) = <<[pk |-> h[t].pk, fields |-> F]>>
        <5>1. g[i + 1] = mutate_state(e, g[i])
          BY <1>8
        <5> HIDE DEF e
        <5>2. At(mutate_state(e, g[i]), t) = <<[pk |-> g[i][t].pk, fields |-> Altered(e, g[i][t].fields)]>>
          BY <3>0, <3>1, <4>1, <4>2, MutateAt
        <5> QED
          BY <3>0, <5>1, <5>2
      <4>4. \A c \in Columns : Over(i + 1, c) <=> Over(i, c) \/ c = e.name
        BY <1>9, <3>1
      <4>5. \A c \in Columns : At(F, c) = IF c = e.name THEN At(d[t].fields, c) ELSE At(g[i][t].fields, c)
        <5> HIDE DEF e
        <5> QED
          BY <4>1
      <4>6. \A c \in Columns : At(g[i][t].fields, c) = IF Over(i, c) THEN At(d[t].fields, c) ELSE At(h[t].fields, c)
        BY <2>2
      <4>7. t \in DOMAIN g[i + 1] /\ g[i + 1][t] = [pk |-> h[t].pk, fields |-> F]
        <5> DEFINE spec == [pk |-> h[t].pk, fields |-> F]
        <5>1. At(g[i + 1], t) = <<spec>>
          BY <4>3
        <5> HIDE DEF spec
        <5>2. t \in DOMAIN g[i + 1] /\ g[i + 1][t] = spec
          BY <5>1, AtValue
        <5> QED
          BY <5>2 DEF spec
      <4> HIDE DEF F, Over, e
      <4>8. t \in DOMAIN g[i + 1] /\ g[i + 1][t].pk = h[t].pk /\ g[i + 1][t].fields = F
        BY <4>7
      <4>9. \A c \in Columns : At(g[i + 1][t].fields, c) =
                IF Over(i + 1, c) THEN At(d[t].fields, c) ELSE At(h[t].fields, c)
        BY <4>4, <4>5, <4>6, <4>8
      <4> QED
        BY <3>0, <4>8, <4>9
    <3>2. CASE e.table # t
      <4>1. At(g[i + 1], t) = At(g[i], t)
        BY <1>10, <3>2
      <4>2. t \in DOMAIN g[i + 1] /\ g[i + 1][t] = g[i][t]
        BY <3>0, <4>1, SameAt
      <4>3. \A c \in Columns : Over(i + 1, c) <=> Over(i, c)
        BY <1>9, <3>2
      <4> HIDE DEF Over
      <4> QED
        BY <2>2, <3>0, <4>2, <4>3
    <3> QED
      BY <3>1, <3>2
  <2>3. n \in T
    <3> HIDE DEF T
    <3> QED
      BY <1>11, <2>1, <2>2, UpTo
  <2>4. t \in DOMAIN g[n] /\ g[n][t].pk = h[t].pk
    BY <2>3
  <2>5. ASSUME NEW c \in Columns
        PROVE  At(d[t].fields, c) = At(g[n][t].fields, c) \/ (c = g[n][t].pk /\ c \notin DOMAIN d[t].fields)
    <3>1. \/ \E e \in ToSet(detect_fields(t, d[t], h[t])) : e.name = c
          \/ At(d[t].fields, c) = At(h[t].fields, c)
          \/ c = h[t].pk /\ c \notin DOMAIN d[t].fields
      BY <1>2, <1>3, FieldsMatch
    <3>2. ASSUME NEW e \in ToSet(detect_fields(t, d[t], h[t])), e.name = c PROVE Over(n, c)
      <4>1. e \in ToSet(D) /\ e.table = t
        BY <1>4, <1>6
      <4> QED
        BY <1>5, <3>2, <4>1 DEF n
    <3>3. At(g[n][t].fields, c) = IF Over(n, c) THEN At(d[t].fields, c) ELSE At(h[t].fields, c)
      BY <2>3
    <3> HIDE DEF Over
    <3>4. CASE Over(n, c)
      BY <3>3, <3>4
    <3>5. CASE ~ Over(n, c)
      <4>1. At(g[n][t].fields, c) = At(h[t].fields, c)
        BY <3>3, <3>5
      <4>2. At(d[t].fields, c) = At(h[t].fields, c) \/ (c = h[t].pk /\ c \notin DOMAIN d[t].fields)
        BY <3>1, <3>2, <3>5
      <4> QED
        BY <2>4, <4>1, <4>2
    <3> QED
      BY <3>4, <3>5
  <2> QED
    BY <2>4, <2>5 DEF Matches
<1>15. g[n] \in States /\ g[n] = Fold(s \o D)
  BY <1>8, <1>11
<1>16. DOMAIN d = DOMAIN g[n]
  <2>1. ASSUME NEW t \in DOMAIN d PROVE t \in DOMAIN g[n]
    BY <1>12, <1>14, AtValue
  <2>2. ASSUME NEW t \in DOMAIN g[n], t \notin DOMAIN d PROVE FALSE
    BY <1>13, <2>2, AtValue
  <2> QED
    BY <2>1, <2>2
<1>17. ASSUME NEW t \in DOMAIN d PROVE Matches(d[t], g[n][t])
  <2>1. CASE t \in DOMAIN h
    BY <1>14, <2>1
  <2>2. CASE t \notin DOMAIN h
    <3>1. At(g[n], t) = <<d[t]>>
      BY <1>12, <2>2
    <3>2. g[n][t] = d[t]
      BY <3>1, AtValue
    <3> QED
      BY <3>2 DEF Matches
  <2> QED
    BY <2>1, <2>2
<1>18. detect_changes_for_app(d, g[n]) = <<>>
  BY <1>15, <1>16, <1>17, NothingDetected
<1> QED
  BY <1>15, <1>18 DEF D

\* The lists in a list are put one after the other, in their order.
LEMMA FlattenSteps ==
    ASSUME NEW T, NEW seqs \in Seq(Seq(T))
    PROVE  \E f \in [0..Len(seqs) -> Seq(T)] :
              /\ f[0] = <<>> /\ f[Len(seqs)] = FlattenSeq(seqs)
              /\ \A i \in 1..Len(seqs) : f[i] = f[i - 1] \o seqs[i]
<1> DEFINE n == Len(seqs)
           steps == [i \in 1..n |-> [s \in Seq(T) |-> s \o seqs[i]]]
           U == [Seq(T) -> Seq(T)]
           Value(g, i) == IF i = 1 THEN seqs[i] ELSE g[i - 1] \o seqs[i]
           f == CHOOSE g : g = [i \in 1..n |-> Value(g, i)]
<1>1. n \in Nat /\ DOMAIN seqs = 1..n /\ \A i \in 1..n : seqs[i] \in Seq(T)
  BY LenProperties, ElementOfSeq
<1>2. \A i \in 1..n : steps[i] \in U
  BY <1>1, ConcatProperties
<1>3. steps \in Seq(U) /\ Len(steps) = n
  <2>1. steps \in [1..n -> U]
    <3> HIDE DEF U
    <3> QED
      BY <1>2
  <2> HIDE DEF steps, U, n
  <2> QED
    BY <1>1, <2>1, SequenceOf
<1>4. \A i \in 1..n, s \in Seq(T) : steps[i][s] = s \o seqs[i]
  OBVIOUS
<1>5. <<>> \in Seq(T)
  BY EmptySeq
<1>6. PICK g : Outcomes(Seq(T), steps, <<>>, g)
  <2>1. steps \in Seq([Seq(T) -> Seq(T)])
    BY <1>3
  <2> HIDE DEF steps
  <2> QED
    BY <1>5, <2>1, ThroughSteps
<1> HIDE DEF steps, U
<1>7. /\ g \in [0..n -> Seq(T)] /\ g[0] = <<>>
      /\ \A i \in 1..n : i - 1 \in 0..n /\ g[i] = g[i - 1] \o seqs[i]
  <2>1. /\ g \in [0..n -> Seq(T)] /\ g[0] = <<>>
        /\ \A i \in 1..n : g[i] = steps[i][g[i - 1]]
    BY <1>3, <1>6 DEF Outcomes
  <2>2. \A i \in 1..n : i - 1 \in 0..n
    BY <1>1
  <2> QED
    BY <1>4, <2>1, <2>2
<1>8. CASE n = 0
  <2>1. seqs = <<>> /\ FlattenSeq(seqs) = <<>>
    BY <1>8, EmptySeq DEF FlattenSeq
  <2>2. \A i \in 1..n : FALSE
    BY <1>8
  <2> QED
    BY <1>7, <1>8, <2>1, <2>2
<1>9. CASE n # 0
  <2>1. n \in 1..n /\ 1 \in 1..n
    BY <1>1, <1>9
  <2>2. \A i \in 1..n : i # 1 => i - 1 \in 1..n
    BY <1>1
  <2>3. 1 - 1 = 0 /\ \A s \in Seq(T) : <<>> \o s = s
    BY ConcatEmptySeq
  <2> DEFINE h == [i \in 1..n |-> g[i]]
  <2>4. \A i \in 1..n : h[i] = Value(h, i)
    <3> SUFFICES ASSUME NEW i \in 1..n PROVE h[i] = Value(h, i)
      OBVIOUS
    <3>1. CASE i = 1
      BY <1>1, <1>7, <2>3, <3>1
    <3>2. CASE i # 1
      BY <1>7, <2>2, <3>2
    <3> QED
      BY <3>1, <3>2
  <2>5. h = [i \in 1..n |-> Value(h, i)]
    <3>1. h = [i \in 1..n |-> h[i]]
      OBVIOUS
    <3> HIDE DEF h
    <3> QED
      BY <2>4, <3>1
  <2>6. f = [i \in 1..n |-> Value(f, i)]
    <3> HIDE DEF h
    <3> QED
      BY <2>5
  <2>7. \A i \in 1..n : f[i] = Value(f, i)
    BY <2>6
  <2>8. FlattenSeq(seqs) = f[n]
    BY <1>9 DEF FlattenSeq
  <2> HIDE DEF f, n, h
  <2> DEFINE S == {i \in 0..n : i = 0 \/ f[i] = g[i]}
  <2>9. 0 \in S
    BY <1>1
  <2>10. ASSUME NEW i \in 0..(n - 1), i \in S PROVE i + 1 \in S
    <3>1. i + 1 \in 1..n /\ i + 1 \in 0..n /\ (i + 1) - 1 = i /\ (i + 1 = 1 <=> i = 0)
      BY <1>1
    <3>2. CASE i = 0
      <4>1. f[1] = seqs[1]
        BY <2>1, <2>7
      <4>2. g[1] = seqs[1]
        <5>1. g[1] = g[1 - 1] \o seqs[1]
          BY <1>7, <2>1
        <5>2. g[1] = <<>> \o seqs[1]
          BY <1>7, <2>3, <5>1, Zenon
        <5> QED
          BY <1>1, <2>1, <2>3, <5>2, Zenon
      <4> QED
        BY <3>1, <3>2, <4>1, <4>2
    <3>3. CASE i # 0
      <4>1. f[i + 1] = f[i] \o seqs[i + 1]
        BY <2>7, <3>1, <3>3
      <4>2. g[i + 1] = g[i] \o seqs[i + 1]
        BY <1>7, <3>1
      <4> QED
        BY <2>10, <3>1, <3>3, <4>1, <4>2
    <3> QED
      BY <3>2, <3>3
  <2>11. n \in 0..n
    BY <1>1
  <2>12. n \in S
    <3> HIDE DEF S
    <3> QED
      BY <1>1, <2>9, <2>10, <2>11, UpTo
  <2> QED
    BY <1>7, <1>9, <2>8, <2>12 DEF n
<1> QED
  BY <1>8, <1>9

\* One list more.
LEMMA FlattenAppend ==
    ASSUME NEW T, NEW seqs \in Seq(Seq(T)), NEW s \in Seq(T)
    PROVE  FlattenSeq(Append(seqs, s)) = FlattenSeq(seqs) \o s
<1> DEFINE more == Append(seqs, s)
           n == Len(seqs)
<1>1. /\ more \in Seq(Seq(T)) /\ n \in Nat /\ Len(more) = n + 1
      /\ \A i \in 1..n : more[i] = seqs[i]
      /\ more[n + 1] = s
  BY AppendProperties, LenProperties
<1>2. PICK f \in [0..n -> Seq(T)] :
        /\ f[0] = <<>> /\ f[n] = FlattenSeq(seqs)
        /\ \A i \in 1..n : f[i] = f[i - 1] \o seqs[i]
  BY FlattenSteps
<1>3. PICK g \in [0..Len(more) -> Seq(T)] :
        /\ g[0] = <<>> /\ g[Len(more)] = FlattenSeq(more)
        /\ \A i \in 1..Len(more) : g[i] = g[i - 1] \o more[i]
  <2> HIDE DEF more
  <2> QED
    BY <1>1, FlattenSteps
<1> HIDE DEF more, n
<1> DEFINE S == {i \in 0..n : f[i] = g[i]}
<1>4. 0 \in S
  BY <1>1, <1>2, <1>3
<1>5. ASSUME NEW i \in 0..(n - 1), i \in S PROVE i + 1 \in S
  <2>1. i + 1 \in 1..n /\ i + 1 \in 1..(n + 1) /\ (i + 1) - 1 = i /\ i + 1 \in 0..n
    BY <1>1
  <2>2. f[i + 1] = f[i] \o seqs[i + 1] /\ g[i + 1] = g[i] \o seqs[i + 1]
    BY <1>1, <1>2, <1>3, <2>1
  <2> QED
    BY <1>5, <2>1, <2>2
<1>6. n \in 0..n /\ n + 1 \in 1..(n + 1) /\ (n + 1) - 1 = n
  BY <1>1
<1>7. n \in S
  <2> HIDE DEF S
  <2> QED
    BY <1>1, <1>4, <1>5, <1>6, UpTo
<1>8. g[n + 1] = f[n] \o s
  BY <1>1, <1>3, <1>6, <1>7
<1> QED
  BY <1>1, <1>2, <1>3, <1>8 DEF more

-----------------------------------------------------------------------------
\* Detection settles

\* The files of an application change only by one more.
LEMMA FilesChange ==
    ASSUME TypeInv, [Next]_vars, files' # files
    PROVE  Grows /\ declared' = declared
<1>1. ASSUME NEW c \in Commands, NEW q \in Requests[c], Start(c, q) PROVE FALSE
  BY <1>1 DEF Start, fileVars
<1>2. ASSUME NEW c \in Commands, List(c) \/ Fake(c) \/ DryRun(c) \/ BeginApply(c) \/ SkipOperation(c)
      PROVE  FALSE
  BY <1>2 DEF List, Fake, DryRun, BeginApply, SkipOperation, fileVars
<1>3. ASSUME NEW c \in Commands, ApplyOperation(c) \/ Record(c) \/ BeginRollback(c) \/ UndoOperation(c) \/ Unrecord(c)
      PROVE  FALSE
  BY <1>3 DEF ApplyOperation, Record, BeginRollback, UndoOperation, Unrecord, fileVars
<1>4. ASSUME NEW c \in Commands, Raise(c) \/ Crash(c) PROVE FALSE
  BY <1>4 DEF Raise, Crash, Stop, fileVars
<1>5. ASSUME NEW labels \in SUBSET Apps, makemigrations(labels) PROVE Grows /\ declared' = declared
  BY <1>5, MakeGrows DEF makemigrations
<1>6. ASSUME NEW a \in Apps, NEW classes \in Declarations[a], Declare(a, classes) PROVE FALSE
  BY <1>6 DEF Declare
<1>7. ASSUME NEW a \in Apps, NEW ops \in Handwritten[a], NEW others \in Links(a), WriteByHand(a, ops, others)
      PROVE  Grows /\ declared' = declared
  BY <1>7, WriteGrows DEF WriteByHand
<1>8. ASSUME NEW a \in Apps, get_table(a) PROVE FALSE
  BY <1>8 DEF get_table, fileVars
<1>9. CASE UNCHANGED vars
  BY <1>9 DEF vars
<1> QED
  BY <1>1, <1>2, <1>3, <1>4, <1>5, <1>6, <1>7, <1>8, <1>9 DEF Next

\* The operations of an application with one migration more.
LEMMA OperationsGrow ==
    ASSUME FilesTyped, NEW a \in Apps, NEW f \in FileType, files'[a] = Append(files[a], f)
    PROVE  /\ AllOperations(by_app(a)) \in Seq(Operations) /\ f.operations \in Seq(Operations)
           /\ AllOperations(by_app(a))' = AllOperations(by_app(a)) \o f.operations
           /\ Last(files'[a]) = f
<1> DEFINE n == Len(files[a])
           lists == [i \in 1..n |-> files[a][i].operations]
           more == [i \in 1..(n + 1) |-> files'[a][i].operations]
<1>1. files[a] \in Seq(FileType) /\ n \in Nat /\ DOMAIN files[a] = 1..n
  BY NodeFiles DEF FileType
<1>2. /\ DOMAIN files'[a] = 1..(n + 1) /\ Len(files'[a]) = n + 1
      /\ \A i \in 1..n : files'[a][i] = files[a][i]
      /\ files'[a][n + 1] = f
  BY <1>1, AppendProperties, LenProperties
<1>3. AllOperations(by_app(a)) = FlattenSeq(lists)
  BY <1>1 DEF AllOperations, by_app, operations
<1>4. AllOperations(by_app(a))' = FlattenSeq(more)
  BY <1>2 DEF AllOperations, by_app, operations
<1>5. lists \in [1..n -> Seq(Operations)] /\ f.operations \in Seq(Operations)
  <2>1. \A i \in 1..n : files[a][i] \in FileType
    BY <1>1, ElementOfSeq
  <2>2. \A x \in FileType : x.operations \in Seq(Operations)
    BY DEF FileType
  <2> QED
    BY <2>1, <2>2
<1>6. DOMAIN more = 1..(n + 1) /\ \A i \in 1..n : i \in 1..(n + 1) /\ more[i] = lists[i]
  BY <1>1, <1>2
<1>7. n + 1 \in 1..(n + 1) /\ more[n + 1] = f.operations
  BY <1>1, <1>2
<1>8. more = [i \in 1..(n + 1) |-> more[i]] /\ \A i \in 1..(n + 1) : i \in 1..n \/ i = n + 1
  BY <1>1
<1> HIDE DEF lists, more
<1>9. lists \in Seq(Seq(Operations)) /\ Len(lists) = n
  BY <1>1, <1>5, SequenceOf
<1>10. more \in [1..(n + 1) -> Seq(Operations)]
  BY <1>5, <1>6, <1>7, <1>8
<1>11. more \in Seq(Seq(Operations)) /\ Len(more) = n + 1
  BY <1>1, <1>10, SequenceOf
<1>12. /\ Append(lists, f.operations) \in Seq(Seq(Operations)) /\ Len(Append(lists, f.operations)) = n + 1
       /\ \A i \in 1..n : Append(lists, f.operations)[i] = lists[i]
       /\ Append(lists, f.operations)[n + 1] = f.operations
  BY <1>5, <1>9, AppendProperties
<1>13. more = Append(lists, f.operations)
  <2>1. \A i \in 1..(n + 1) : more[i] = Append(lists, f.operations)[i]
    BY <1>6, <1>7, <1>8, <1>12
  <2> QED
    BY <1>11, <1>12, <2>1, SeqEqual
<1>14. FlattenSeq(more) = FlattenSeq(lists) \o f.operations
  BY <1>5, <1>9, <1>13, FlattenAppend
<1>15. FlattenSeq(lists) \in Seq(Operations)
  BY <1>9, FlattenElements
<1>16. Last(files'[a]) = f
  BY <1>2 DEF Last
<1> QED
  BY <1>3, <1>4, <1>5, <1>14, <1>15, <1>16

\* When a migration with what is detected has been written for an application,
\* nothing is left to detect: makemigrations run again finds no change.
THEOREM DetectionSettlesHolds == Spec => DetectionSettles
<1>1. ASSUME TypeInv, [Next]_vars
      PROVE  \A a \in Apps :
                files'[a] # files[a] /\ Last(files'[a]).operations = Detected(a) => Detected(a)' = <<>>
  <2> SUFFICES ASSUME NEW a \in Apps, files'[a] # files[a], Last(files'[a]).operations = Detected(a)
               PROVE  Detected(a)' = <<>>
    OBVIOUS
  <2>1. Grows /\ declared' = declared
    BY <1>1, FilesChange
  <2>2. PICK f \in FileType : files'[a] = Append(files[a], f)
    BY <2>1 DEF Grows
  <2>3. FilesTyped /\ declared[a] \in Declarations[a]
    BY <1>1 DEF TypeInv, DeclaredTyped
  <2>4. /\ AllOperations(by_app(a)) \in Seq(Operations)
        /\ AllOperations(by_app(a))' = AllOperations(by_app(a)) \o Detected(a)
    BY <2>2, <2>3, OperationsGrow
  <2>5. specs(a) \in States /\ app_state(a) \in States
    BY <2>3, DetectedTyped
  <2>6. specs(a)' = specs(a)
    BY <2>1 DEF specs
  <2>7. app_state(a)' = Fold(AllOperations(by_app(a)) \o Detected(a))
    BY <2>4 DEF app_state
  <2>8. detect_changes_for_app(specs(a), Fold(AllOperations(by_app(a)) \o Detected(a))) = <<>>
    BY <2>4, <2>5, ChangesSettle DEF Detected, app_state
  <2> QED
    BY <2>6, <2>7, <2>8 DEF Detected
<1>2. TypeInv /\ [Next]_vars
      => [\A a \in Apps :
            files'[a] # files[a] /\ Last(files'[a]).operations = Detected(a) => Detected(a)' = <<>>]_vars
  BY <1>1
<1> QED
  BY <1>2, TypeInvariant, PTL DEF Spec, DetectionSettles

-----------------------------------------------------------------------------
\* States that agree on a table

LEMMA MutateAgree ==
    ASSUME NEW op \in Operations, NEW f \in States, NEW g \in States, NEW t, At(f, t) = At(g, t)
    PROVE  At(mutate_state(op, f), t) = At(mutate_state(op, g), t)
<1>1. CASE op.kind \notin Structural
  BY <1>1, MutateAt
<1>2. CASE op.kind \in Structural /\ t # op.table
  BY <1>2, MutateAt
<1>3. CASE op.kind \in {"CreateTable", "DeleteTable"} /\ t = op.table
  BY <1>3, MutateAt
<1>4. CASE op.kind \in FieldKinds /\ t = op.table
  <2>1. (t \in DOMAIN f <=> t \in DOMAIN g) /\ (t \in DOMAIN f => f[t] = g[t])
    BY SameAt
  <2>2. At(mutate_state(op, f), t) =
            IF t \in DOMAIN f THEN <<[pk |-> f[t].pk, fields |-> Altered(op, f[t].fields)]>> ELSE <<>>
    BY <1>4, MutateAt
  <2>3. At(mutate_state(op, g), t) =
            IF t \in DOMAIN g THEN <<[pk |-> g[t].pk, fields |-> Altered(op, g[t].fields)]>> ELSE <<>>
    BY <1>4, MutateAt
  <2> QED
    BY <2>1, <2>2, <2>3
<1> QED
  BY <1>1, <1>2, <1>3, <1>4, MutateAt

\* The same operations make the same of it.
LEMMA FoldAgree ==
    ASSUME NEW s \in Seq(Operations), NEW u \in Seq(Operations), NEW r \in Seq(Operations), NEW t,
           At(Fold(s), t) = At(Fold(u), t)
    PROVE  At(Fold(s \o r), t) = At(Fold(u \o r), t)
<1> DEFINE n == Len(r)
<1>1. n \in Nat /\ \A i \in 0..(n - 1) : r[i + 1] \in Operations /\ i \in 0..n /\ i + 1 \in 0..n
  BY Beginnings
<1>2. PICK f \in [0..n -> States] :
        /\ f[0] = Fold(s) /\ f[n] = Fold(s \o r)
        /\ \A i \in 0..(n - 1) : f[i + 1] = mutate_state(r[i + 1], f[i])
  BY FoldAlong
<1>3. PICK g \in [0..n -> States] :
        /\ g[0] = Fold(u) /\ g[n] = Fold(u \o r)
        /\ \A i \in 0..(n - 1) : g[i + 1] = mutate_state(r[i + 1], g[i])
  BY FoldAlong
<1> HIDE DEF n
<1> DEFINE T == {i \in 0..n : At(f[i], t) = At(g[i], t)}
<1>4. 0 \in T /\ n \in 0..n
  BY <1>1, <1>2, <1>3
<1>5. ASSUME NEW i \in 0..(n - 1), i \in T PROVE i + 1 \in T
  <2>1. f[i] \in States /\ g[i] \in States /\ r[i + 1] \in Operations /\ i + 1 \in 0..n
    BY <1>1, <1>2, <1>3
  <2>2. At(mutate_state(r[i + 1], f[i]), t) = At(mutate_state(r[i + 1], g[i]), t)
    BY <1>5, <2>1, MutateAgree
  <2> QED
    BY <1>2, <1>3, <2>1, <2>2
<1>6. n \in T
  <2> HIDE DEF T
  <2> QED
    BY <1>1, <1>4, <1>5, UpTo
<1> QED
  BY <1>2, <1>3, <1>6

\* Operations on other tables make no difference.
LEMMA FoldForeign ==
    ASSUME NEW s \in Seq(Operations), NEW r \in Seq(Operations), NEW t,
           \A j \in DOMAIN r : r[j].kind \in Structural => r[j].table # t
    PROVE  At(Fold(s \o r), t) = At(Fold(s), t)
<1> DEFINE n == Len(r)
<1>1. /\ n \in Nat /\ DOMAIN r = 1..n
      /\ \A i \in 0..(n - 1) : r[i + 1] \in Operations /\ i \in 0..n /\ i + 1 \in 0..n /\ i + 1 \in 1..n
  BY Beginnings
<1>2. PICK f \in [0..n -> States] :
        /\ f[0] = Fold(s) /\ f[n] = Fold(s \o r)
        /\ \A i \in 0..(n - 1) : f[i + 1] = mutate_state(r[i + 1], f[i])
  BY FoldAlong
<1> HIDE DEF n
<1> DEFINE T == {i \in 0..n : At(f[i], t) = At(f[0], t)}
<1>4. 0 \in T /\ n \in 0..n
  BY <1>1
<1>5. ASSUME NEW i \in 0..(n - 1), i \in T PROVE i + 1 \in T
  <2>1. f[i] \in States /\ r[i + 1] \in Operations /\ i + 1 \in 0..n
    BY <1>1, <1>2
  <2>2. r[i + 1].kind \in Structural => r[i + 1].table # t
    BY <1>1
  <2>3. At(mutate_state(r[i + 1], f[i]), t) = At(f[i], t)
    BY <2>1, <2>2, MutateAt
  <2> QED
    BY <1>2, <1>5, <2>1, <2>3
<1>6. n \in T
  <2> HIDE DEF T
  <2> QED
    BY <1>1, <1>4, <1>5, UpTo
<1> QED
  BY <1>2, <1>6

\* Neither do operations on other fields, for a field.
SameField(f, g, t, c) ==
    /\ t \in DOMAIN f <=> t \in DOMAIN g
    /\ t \in DOMAIN f => f[t].pk = g[t].pk /\ At(f[t].fields, c) = At(g[t].fields, c)

LEMMA MutateColumn ==
    ASSUME NEW op \in Operations, NEW f \in States, NEW t, NEW c,
           op.kind \in Structural /\ op.table = t => op.kind \in {"AddField", "RemoveField"} /\ op.name # c
    PROVE  SameField(f, mutate_state(op, f), t, c)
<1> DEFINE m == mutate_state(op, f)
<1>1. CASE ~ (op.kind \in Structural /\ op.table = t)
  <2>1. At(m, t) = At(f, t)
    BY <1>1, MutateAt
  <2> HIDE DEF m
  <2>2. (t \in DOMAIN f <=> t \in DOMAIN m) /\ (t \in DOMAIN f => f[t] = m[t])
    BY <2>1, SameAt
  <2> QED
    BY <2>2 DEF SameField, m
<1>2. CASE op.kind \in Structural /\ op.table = t
  <2>1. op.kind \in {"AddField", "RemoveField"} /\ op.name # c /\ op.kind \in FieldKinds
    BY <1>2 DEF FieldKinds
  <2>2. At(m, t) = IF t \in DOMAIN f
            THEN <<[pk |-> f[t].pk, fields |-> Altered(op, f[t].fields)]>> ELSE <<>>
    BY <1>2, <2>1, MutateAt
  <2>3. Altered(op, f[t].fields) \in {Put(f[t].fields, op.name, op.pytype), Without(f[t].fields, op.name)}
    BY <2>1 DEF Altered
  <2>4. At(Altered(op, f[t].fields), c) = At(f[t].fields, c)
    BY <2>1, <2>3, PutAt, WithoutAt
  <2> HIDE DEF m
  <2>5. t \in DOMAIN f => t \in DOMAIN m /\ m[t] = [pk |-> f[t].pk, fields |-> Altered(op, f[t].fields)]
    BY <2>2, AtValue
  <2>6. t \notin DOMAIN f => t \notin DOMAIN m
    BY <2>2, AtValue
  <2>7. t \in DOMAIN f => m[t].pk = f[t].pk /\ m[t].fields = Altered(op, f[t].fields)
    BY <2>5
  <2>8. SameField(f, m, t, c)
    BY <2>4, <2>5, <2>6, <2>7 DEF SameField
  <2> QED
    BY <2>8 DEF m
<1> QED
  BY <1>1, <1>2

LEMMA FoldColumn ==
    ASSUME NEW s \in Seq(Operations), NEW r \in Seq(Operations), NEW t, NEW c,
           \A j \in DOMAIN r : r[j].kind \in Structural /\ r[j].table = t =>
                                  r[j].kind \in {"AddField", "RemoveField"} /\ r[j].name # c
    PROVE  SameField(Fold(s), Fold(s \o r), t, c)
<1> DEFINE n == Len(r)
<1>1. /\ n \in Nat /\ DOMAIN r = 1..n
      /\ \A i \in 0..(n - 1) : r[i + 1] \in Operations /\ i \in 0..n /\ i + 1 \in 0..n /\ i + 1 \in 1..n
  BY Beginnings
<1>2. PICK f \in [0..n -> States] :
        /\ f[0] = Fold(s) /\ f[n] = Fold(s \o r)
        /\ \A i \in 0..(n - 1) : f[i + 1] = mutate_state(r[i + 1], f[i])
  BY FoldAlong
<1> HIDE DEF n
<1> DEFINE T == {i \in 0..n : SameField(f[0], f[i], t, c)}
<1>4. 0 \in T /\ n \in 0..n
  BY <1>1 DEF SameField
<1>5. ASSUME NEW i \in 0..(n - 1), i \in T PROVE i + 1 \in T
  <2> DEFINE op == r[i + 1]
  <2>1. f[i] \in States /\ op \in Operations /\ i + 1 \in 0..n /\ f[i + 1] = mutate_state(op, f[i])
    BY <1>1, <1>2
  <2>2. op.kind \in Structural /\ op.table = t => op.kind \in {"AddField", "RemoveField"} /\ op.name # c
    BY <1>1
  <2> HIDE DEF op
  <2>3. SameField(f[0], f[i], t, c)
    BY <1>5
  <2>4. SameField(f[i], f[i + 1], t, c)
    BY <2>1, <2>2, MutateColumn
  <2>5. SameField(f[0], f[i + 1], t, c)
    BY <2>3, <2>4 DEF SameField
  <2> QED
    BY <2>1, <2>5
<1>6. n \in T
  <2> HIDE DEF T
  <2> QED
    BY <1>1, <1>4, <1>5, UpTo
<1> QED
  BY <1>2, <1>6

-----------------------------------------------------------------------------
\* The tables of an application

OwnList(a, s) == \A j \in DOMAIN s : IsOwn(a, s[j])
Keyed(a, f) == DOMAIN f \subseteq Owned(a) /\ \A t \in DOMAIN f : f[t].pk \in Keys(a)

LEMMA MutateKeyed ==
    ASSUME NEW a, NEW op \in Operations, IsOwn(a, op), NEW f \in States, Keyed(a, f)
    PROVE  Keyed(a, mutate_state(op, f))
<1> DEFINE m == mutate_state(op, f)
<1> SUFFICES ASSUME NEW t \in DOMAIN m PROVE t \in Owned(a) /\ m[t].pk \in Keys(a)
  BY DEF Keyed
<1>1. At(m, t) # <<>>
  BY AtValue
<1>2. ASSUME At(m, t) = At(f, t) PROVE t \in Owned(a) /\ m[t].pk \in Keys(a)
  <2>1. t \in DOMAIN f /\ f[t] = m[t]
    BY <1>2, SameAt
  <2> QED
    BY <2>1 DEF Keyed
<1>3. CASE op.kind \notin Structural
  BY <1>2, <1>3, MutateAt
<1>4. CASE op.kind \in Structural /\ t # op.table
  BY <1>2, <1>4, MutateAt
<1>5. CASE op.kind = "CreateTable" /\ t = op.table
  <2>1. m[t] = op.spec
    BY <1>5, MutateAt, AtValue
  <2>2. op.kind \in Structural
    BY <1>5 DEF Structural
  <2> QED
    BY <1>5, <2>1, <2>2 DEF IsOwn
<1>6. CASE op.kind = "DeleteTable" /\ t = op.table
  BY <1>1, <1>6, MutateAt
<1>7. CASE op.kind \in FieldKinds /\ t = op.table
  <2>1. At(m, t) = IF t \in DOMAIN f
            THEN <<[pk |-> f[t].pk, fields |-> Altered(op, f[t].fields)]>> ELSE <<>>
    BY <1>7, MutateAt
  <2>2. t \in DOMAIN f
    BY <1>1, <2>1
  <2>3. m[t] = [pk |-> f[t].pk, fields |-> Altered(op, f[t].fields)]
    BY <2>1, <2>2, AtValue
  <2>4. m[t].pk = f[t].pk
    BY <2>3
  <2> QED
    BY <2>2, <2>4 DEF Keyed
<1> QED
  BY <1>3, <1>4, <1>5, <1>6, <1>7, MutateAt

LEMMA FoldKeyed ==
    ASSUME NEW a, NEW r \in Seq(Operations), OwnList(a, r)
    PROVE  Keyed(a, Fold(r))
<1> DEFINE n == Len(r)
<1>1. /\ n \in Nat /\ DOMAIN r = 1..n
      /\ \A i \in 0..(n - 1) : r[i + 1] \in Operations /\ i \in 0..n /\ i + 1 \in 0..n /\ i + 1 \in 1..n
  BY Beginnings
<1>2. PICK f : Course(r, f)
  BY FoldSteps
<1>3. f \in [0..n -> States] /\ f[0] = NoTables /\ Fold(r) = f[n]
      /\ \A i \in 1..n : f[i] = mutate_state(r[i], f[i - 1])
  BY <1>2 DEF Course
<1> HIDE DEF n
<1> DEFINE T == {i \in 0..n : Keyed(a, f[i])}
<1>4. 0 \in T /\ n \in 0..n
  BY <1>1, <1>3 DEF Keyed, NoTables
<1>5. ASSUME NEW i \in 0..(n - 1), i \in T PROVE i + 1 \in T
  <2>1. f[i] \in States /\ r[i + 1] \in Operations /\ i + 1 \in 0..n /\ i + 1 \in 1..n /\ (i + 1) - 1 = i
    BY <1>1, <1>3
  <2>2. IsOwn(a, r[i + 1])
    BY <1>1, <2>1 DEF OwnList
  <2>3. Keyed(a, mutate_state(r[i + 1], f[i]))
    BY <1>5, <2>1, <2>2, MutateKeyed
  <2>4. f[i + 1] = mutate_state(r[i + 1], f[i])
    BY <1>3, <2>1
  <2> QED
    BY <2>1, <2>3, <2>4
<1>6. n \in T
  <2> HIDE DEF T
  <2> QED
    BY <1>1, <1>4, <1>5, UpTo
<1> QED
  BY <1>3, <1>6

-----------------------------------------------------------------------------
\* Statements

Cols(fields) == [c \in DOMAIN fields |-> field_sql_type(fields[c])]
Ddl(f) == [t \in DOMAIN f |-> ddl(f[t])]

LEMMA DdlAt ==
    ASSUME NEW f, NEW t
    PROVE  /\ t \in DOMAIN f => At(Ddl(f), t) = <<[pk |-> f[t].pk, cols |-> Cols(f[t].fields)]>>
           /\ t \notin DOMAIN f => At(Ddl(f), t) = <<>>
<1> QED
  BY DEF At, Ddl, ddl, Cols

LEMMA ColsChanged ==
    ASSUME NEW F \in Fields
    PROVE  /\ DOMAIN Cols(F) = DOMAIN F
           /\ \A c, p : Cols(Put(F, c, p)) = Put(Cols(F), c, field_sql_type(p))
           /\ \A c : Cols(Without(F, c)) = Without(Cols(F), c)
           /\ \A c, d : Cols(renamed(F, c, d)) = renamed(Cols(F), c, d)
<1>1. DOMAIN Cols(F) = DOMAIN F /\ \A c \in DOMAIN F : Cols(F)[c] = field_sql_type(F[c])
  BY DEF Cols
<1>2. ASSUME NEW G, NEW c, NEW p PROVE Cols(Put(G, c, p)) = Put(Cols(G), c, field_sql_type(p))
  <2>1. DOMAIN Put(G, c, p) = DOMAIN G \cup {c}
    BY DEF Put
  <2>2. Cols(Put(G, c, p)) = [x \in DOMAIN G \cup {c} |-> field_sql_type(Put(G, c, p)[x])]
    BY <2>1 DEF Cols
  <2>3. Put(Cols(G), c, field_sql_type(p)) =
            [x \in DOMAIN G \cup {c} |-> IF x = c THEN field_sql_type(p) ELSE Cols(G)[x]]
    BY DEF Put, Cols
  <2>4. \A x \in DOMAIN G \cup {c} :
            field_sql_type(Put(G, c, p)[x]) = IF x = c THEN field_sql_type(p) ELSE Cols(G)[x]
    BY DEF Put, Cols
  <2> QED
    BY <2>2, <2>3, <2>4
<1>3. ASSUME NEW c PROVE Cols(Without(F, c)) = Without(Cols(F), c)
  <2>1. DOMAIN Without(F, c) = DOMAIN F \ {c} /\ \A x \in DOMAIN F \ {c} : Without(F, c)[x] = F[x]
    BY DEF Without, Restrict
  <2>2. Without(Cols(F), c) = [x \in DOMAIN F \ {c} |-> Cols(F)[x]]
    BY <1>1 DEF Without, Restrict
  <2>3. Cols(Without(F, c)) = [x \in DOMAIN F \ {c} |-> field_sql_type(Without(F, c)[x])]
    BY <2>1 DEF Cols
  <2> QED
    BY <1>1, <2>1, <2>2, <2>3
<1>4. ASSUME NEW c, NEW d PROVE Cols(renamed(F, c, d)) = renamed(Cols(F), c, d)
  <2>1. CASE c \notin DOMAIN F
    BY <1>1, <2>1 DEF renamed
  <2>2. CASE c \in DOMAIN F
    <3>1. renamed(F, c, d) = Put(Without(F, c), d, F[c])
      BY <2>2 DEF renamed
    <3>2. renamed(Cols(F), c, d) = Put(Without(Cols(F), c), d, field_sql_type(F[c]))
      BY <1>1, <2>2 DEF renamed
    <3>3. Cols(Put(Without(F, c), d, F[c])) = Put(Cols(Without(F, c)), d, field_sql_type(F[c]))
      BY <1>2
    <3> QED
      BY <1>3, <3>1, <3>2, <3>3
  <2> QED
    BY <2>1, <2>2
<1> QED
  BY <1>1, <1>2, <1>3, <1>4

\* Changes and what takes them back.
LEMMA RoundTrip ==
    ASSUME NEW F, F = [x \in DOMAIN F |-> F[x]], NEW c
    PROVE  /\ c \notin DOMAIN F => \A p : Without(Put(F, c, p), c) = F
           /\ c \in DOMAIN F => \A v : v = F[c] => Put(Without(F, c), c, v) = F /\ \A p : Put(Put(F, c, p), c, v) = F
           /\ \A d : c \in DOMAIN F /\ d \notin DOMAIN F => renamed(renamed(F, c, d), d, c) = F
<1>1. ASSUME c \notin DOMAIN F, NEW p PROVE Without(Put(F, c, p), c) = F
  <2>1. DOMAIN Put(F, c, p) = DOMAIN F \cup {c} /\ \A x \in DOMAIN F : Put(F, c, p)[x] = F[x]
    BY <1>1 DEF Put
  <2>2. Without(Put(F, c, p), c) = [x \in (DOMAIN F \cup {c}) \ {c} |-> Put(F, c, p)[x]]
    BY <2>1 DEF Without, Restrict
  <2>3. (DOMAIN F \cup {c}) \ {c} = DOMAIN F
    BY <1>1
  <2>4. Without(Put(F, c, p), c) = [x \in DOMAIN F |-> Put(F, c, p)[x]]
    BY <2>2, <2>3
  <2>5. [x \in DOMAIN F |-> Put(F, c, p)[x]] = [x \in DOMAIN F |-> F[x]]
    BY <2>1
  <2> QED
    BY <2>4, <2>5
<1>2. ASSUME NEW G, NEW v, DOMAIN G \cup {c} = DOMAIN F, \A x \in DOMAIN F : x # c => G[x] = F[x], v = F[c]
      PROVE  Put(G, c, v) = F
  <2>1. Put(G, c, v) = [x \in DOMAIN F |-> IF x = c THEN v ELSE G[x]]
    BY <1>2 DEF Put
  <2>2. \A x \in DOMAIN F : (IF x = c THEN v ELSE G[x]) = F[x]
    BY <1>2
  <2> QED
    BY <2>1, <2>2
<1>3. \A d : DOMAIN Without(F, d) = DOMAIN F \ {d} /\ \A x \in DOMAIN F : x # d => Without(F, d)[x] = F[x]
  BY DEF Without, Restrict
<1>4. \A d, p : DOMAIN Put(F, d, p) = DOMAIN F \cup {d} /\ \A x \in DOMAIN F : x # d => Put(F, d, p)[x] = F[x]
  BY DEF Put
<1>5. ASSUME c \in DOMAIN F, NEW v, v = F[c]
      PROVE  Put(Without(F, c), c, v) = F /\ \A p : Put(Put(F, c, p), c, v) = F
  <2>1. Put(Without(F, c), c, v) = F
    <3>1. DOMAIN Without(F, c) \cup {c} = DOMAIN F
      BY <1>3, <1>5
    <3> QED
      BY <1>2, <1>3, <1>5, <3>1
  <2>2. ASSUME NEW p PROVE Put(Put(F, c, p), c, v) = F
    <3>1. DOMAIN Put(F, c, p) \cup {c} = DOMAIN F
      BY <1>4, <1>5
    <3> QED
      BY <1>2, <1>4, <1>5, <3>1
  <2> QED
    BY <2>1, <2>2
<1>6. ASSUME NEW d, c \in DOMAIN F, d \notin DOMAIN F PROVE renamed(renamed(F, c, d), d, c) = F
  <2> DEFINE R == Put(Without(F, c), d, F[c])
  <2>1. renamed(F, c, d) = R
    BY <1>6 DEF renamed
  <2>2. DOMAIN R = (DOMAIN F \ {c}) \cup {d} /\ R[d] = F[c] /\ \A x \in DOMAIN F : x # c => R[x] = F[x]
    BY <1>3, <1>6 DEF Put
  <2> HIDE DEF R
  <2>3. renamed(R, d, c) = Put(Without(R, d), c, R[d])
    BY <2>2 DEF renamed
  <2>4. DOMAIN Without(R, d) = DOMAIN R \ {d} /\ \A x \in DOMAIN R \ {d} : Without(R, d)[x] = R[x]
    BY DEF Without, Restrict
  <2>5. DOMAIN Without(R, d) \cup {c} = DOMAIN F
    BY <1>6, <2>2, <2>4
  <2>6. \A x \in DOMAIN F : x # c => Without(R, d)[x] = F[x]
    BY <1>6, <2>2, <2>4
  <2>7. Put(Without(R, d), c, R[d]) = F
    BY <1>2, <2>2, <2>5, <2>6
  <2> QED
    BY <2>1, <2>3, <2>7
<1> QED
  BY <1>1, <1>5, <1>6

\* A statement changes only its table.
LEMMA EffectAt ==
    ASSUME NEW s, NEW tables
    PROVE  /\ \A t : s.table # t => At(Effect(s, tables), t) = At(tables, t)
           /\ s.sql \in {"run", "run back", "error"} => Effect(s, tables) = tables
           /\ s.sql = "create table" => At(Effect(s, tables), s.table) = <<ddl(s.arg)>>
           /\ s.sql = "drop table" => At(Effect(s, tables), s.table) = <<>>
           /\ s.sql = "rebuild" => At(Effect(s, tables), s.table) = <<ddl(s.target)>>
<1> DEFINE t == s.table
           E == Effect(s, tables)
<1>1. CASE s.sql = "create table"
  <2>1. E = Put(tables, t, ddl(s.arg))
    BY <1>1 DEF Effect
  <2>2. At(E, t) = <<ddl(s.arg)>> /\ \A u : t # u => At(E, u) = At(tables, u)
    <3> HIDE DEF E, t
    <3> QED
      BY <2>1, PutAt
  <2> QED
    BY <1>1, <2>2
<1>2. CASE s.sql = "drop table"
  <2>1. E = Without(tables, t)
    BY <1>2 DEF Effect
  <2>2. At(E, t) = <<>> /\ \A u : t # u => At(E, u) = At(tables, u)
    <3> HIDE DEF E, t
    <3> QED
      BY <2>1, WithoutAt
  <2> QED
    BY <1>2, <2>2
<1>3. CASE s.sql = "rebuild"
  <2>1. E = Put(tables, t, ddl(s.target))
    BY <1>3 DEF Effect
  <2>2. At(E, t) = <<ddl(s.target)>> /\ \A u : t # u => At(E, u) = At(tables, u)
    <3> HIDE DEF E, t
    <3> QED
      BY <2>1, PutAt
  <2> QED
    BY <1>3, <2>2
<1>4. ASSUME NEW x, E = [tables EXCEPT ![t] = x]
      PROVE  \A u : t # u => At(E, u) = At(tables, u)
  <2> HIDE DEF E, t
  <2>1. DOMAIN E = DOMAIN tables /\ \A u \in DOMAIN tables : u # t => E[u] = tables[u]
    BY <1>4
  <2> QED
    BY <2>1 DEF At
<1>5. CASE s.sql = "add column"
  <2>1. E = [tables EXCEPT ![t] = [tables[t] EXCEPT !.cols = Put(@, s.column, field_sql_type(s.arg))]]
    BY <1>5 DEF Effect
  <2> HIDE DEF E, t
  <2>2. \A u : t # u => At(E, u) = At(tables, u)
    BY <1>4, <2>1
  <2> QED
    BY <1>5, <2>2 DEF E, t
<1>6. CASE s.sql = "drop column"
  <2>1. E = [tables EXCEPT ![t] = [tables[t] EXCEPT !.cols = Without(@, s.column)]]
    BY <1>6 DEF Effect
  <2> HIDE DEF E, t
  <2>2. \A u : t # u => At(E, u) = At(tables, u)
    BY <1>4, <2>1
  <2> QED
    BY <1>6, <2>2 DEF E, t
<1>7. CASE s.sql = "rename column"
  <2>1. E = [tables EXCEPT ![t] = [pk |-> IF tables[t].pk = s.column THEN s.arg ELSE tables[t].pk,
                                   cols |-> renamed(tables[t].cols, s.column, s.arg)]]
    BY <1>7 DEF Effect
  <2> HIDE DEF E, t
  <2>2. \A u : t # u => At(E, u) = At(tables, u)
    BY <1>4, <2>1
  <2> QED
    BY <1>7, <2>2 DEF E, t
<1>8. CASE s.sql \notin {"create table", "drop table", "rebuild", "add column", "drop column", "rename column"}
  BY <1>8 DEF Effect
<1> QED
  BY <1>1, <1>2, <1>3, <1>5, <1>6, <1>7, <1>8

\* What a statement about a column makes of its table.
Amended(s, old) ==
    CASE s.sql = "add column" -> [pk |-> old.pk, cols |-> Put(old.cols, s.column, field_sql_type(s.arg))]
      [] s.sql = "drop column" -> [pk |-> old.pk, cols |-> Without(old.cols, s.column)]
      [] s.sql = "rename column" -> [pk |-> IF old.pk = s.column THEN s.arg ELSE old.pk,
                                     cols |-> renamed(old.cols, s.column, s.arg)]

LEMMA EffectOnTable ==
    ASSUME NEW s, NEW tables, s.table \in DOMAIN tables, NEW P, NEW C,
           tables[s.table] = [pk |-> P, cols |-> C]
    PROVE  s.sql \in {"add column", "drop column", "rename column"} =>
               At(Effect(s, tables), s.table) = <<Amended(s, tables[s.table])>>
<1> DEFINE t == s.table
           E == Effect(s, tables)
<1>1. tables[t].cols = C /\ tables[t].pk = P /\ t \in DOMAIN tables
  OBVIOUS
<1>2. ASSUME NEW x, E = [tables EXCEPT ![t] = x] PROVE At(E, t) = <<x>>
  <2> HIDE DEF E, t
  <2>1. DOMAIN E = DOMAIN tables /\ E[t] = x
    BY <1>1, <1>2
  <2> QED
    BY <1>1, <2>1 DEF At
<1>3. \A D : [tables[t] EXCEPT !.cols = D] = [pk |-> tables[t].pk, cols |-> D]
  OBVIOUS
<1>4. ASSUME s.sql = "add column" PROVE At(E, t) = <<Amended(s, tables[t])>>
  <2>1. E = [tables EXCEPT ![t] = [tables[t] EXCEPT !.cols = Put(tables[t].cols, s.column, field_sql_type(s.arg))]]
    BY <1>4 DEF Effect
  <2>2. Amended(s, tables[t]) = [pk |-> tables[t].pk, cols |-> Put(tables[t].cols, s.column, field_sql_type(s.arg))]
    BY <1>4 DEF Amended
  <2> HIDE DEF E, t
  <2> QED
    BY <1>2, <1>3, <2>1, <2>2
<1>5. ASSUME s.sql = "drop column" PROVE At(E, t) = <<Amended(s, tables[t])>>
  <2>1. E = [tables EXCEPT ![t] = [tables[t] EXCEPT !.cols = Without(tables[t].cols, s.column)]]
    BY <1>5 DEF Effect
  <2>2. Amended(s, tables[t]) = [pk |-> tables[t].pk, cols |-> Without(tables[t].cols, s.column)]
    BY <1>5 DEF Amended
  <2> HIDE DEF E, t
  <2> QED
    BY <1>2, <1>3, <2>1, <2>2
<1>6. ASSUME s.sql = "rename column" PROVE At(E, t) = <<Amended(s, tables[t])>>
  <2>1. E = [tables EXCEPT ![t] = [pk |-> IF tables[t].pk = s.column THEN s.arg ELSE tables[t].pk,
                                   cols |-> renamed(tables[t].cols, s.column, s.arg)]]
    BY <1>6 DEF Effect
  <2>2. Amended(s, tables[t]) = [pk |-> IF tables[t].pk = s.column THEN s.arg ELSE tables[t].pk,
                                 cols |-> renamed(tables[t].cols, s.column, s.arg)]
    BY <1>6 DEF Amended
  <2> HIDE DEF E, t
  <2> QED
    BY <1>2, <2>1, <2>2
<1> QED
  BY <1>4, <1>5, <1>6

\* The operation makes of the state f what its reverse can take back.
Sound(op, f) ==
    /\ op.kind = "CreateTable" => op.table \notin DOMAIN f
    /\ op.kind \in FieldKinds \cup {"DeleteTable"} => op.table \in DOMAIN f
    /\ op.kind = "AddField" => op.name \notin DOMAIN f[op.table].fields
    /\ op.kind = "RemoveField" => op.name \in DOMAIN f[op.table].fields
    /\ op.kind = "RenameField" => /\ op.name \in DOMAIN f[op.table].fields
                                  /\ op.new_name \notin DOMAIN f[op.table].fields

\* An operation whose statement succeeds changes the tables as it does the state.
LEMMA ForthTable ==
    ASSUME NEW op \in Operations, op.kind \in Structural, NEW f \in States, NEW b \in States,
           At(b, op.table) = At(f, op.table), NEW tables, At(tables, op.table) = At(Ddl(f), op.table),
           op.kind = "RenameField" /\ op.table \in DOMAIN f => f[op.table].pk # op.name,
           ~ Raises(sql_statements(op, b), tables)
    PROVE  /\ At(Effect(sql_statements(op, b), tables), op.table) = At(Ddl(mutate_state(op, f)), op.table)
           /\ Sound(op, f)
<1>0. SUFFICES ASSUME NEW t, t = op.table, NEW s, s = sql_statements(op, b),
                      NEW m, m = mutate_state(op, f), NEW E, E = Effect(s, tables)
               PROVE  At(E, t) = At(Ddl(m), t) /\ Sound(op, f)
  OBVIOUS
<1>a. /\ At(b, t) = At(f, t) /\ At(tables, t) = At(Ddl(f), t) /\ t = op.table
      /\ ~ Raises(s, tables)
      /\ op.kind = "RenameField" /\ t \in DOMAIN f => f[t].pk # op.name
  BY <1>0
<1>b. /\ op.kind = "CreateTable" => At(m, t) = <<op.spec>>
      /\ op.kind = "DeleteTable" => At(m, t) = <<>>
      /\ op.kind \in FieldKinds =>
            At(m, t) = IF t \in DOMAIN f
                       THEN <<[pk |-> f[t].pk, fields |-> Altered(op, f[t].fields)]>> ELSE <<>>
  BY <1>0, MutateAt
<1>c. E = Effect(s, tables)
  BY <1>0
<1>d. ASSUME s.table = t
      PROVE  /\ s.sql = "create table" => At(E, t) = <<ddl(s.arg)>>
             /\ s.sql = "drop table" => At(E, t) = <<>>
             /\ s.sql = "rebuild" => At(E, t) = <<ddl(s.target)>>
  <2>1. s.sql = "create table" => At(Effect(s, tables), s.table) = <<ddl(s.arg)>>
    BY EffectAt
  <2>2. s.sql = "drop table" => At(Effect(s, tables), s.table) = <<>>
    BY EffectAt
  <2>3. s.sql = "rebuild" => At(Effect(s, tables), s.table) = <<ddl(s.target)>>
    BY EffectAt
  <2> QED
    BY <1>c, <1>d, <2>1, <2>2, <2>3
<1>e. ASSUME NEW old, NEW P, NEW C, old = [pk |-> P, cols |-> C], At(tables, t) = <<old>>, s.table = t,
             s.sql \in {"add column", "drop column", "rename column"}
      PROVE  At(E, t) = <<Amended(s, old)>>
  <2>1. t \in DOMAIN tables /\ tables[t] = old
    BY <1>e, AtValue
  <2>2. s.table \in DOMAIN tables /\ tables[s.table] = old /\ tables[s.table] = [pk |-> P, cols |-> C]
    BY <1>e, <2>1
  <2>3. At(Effect(s, tables), s.table) = <<Amended(s, tables[s.table])>>
    BY <1>e, <2>2, EffectOnTable
  <2> QED
    BY <1>c, <1>e, <2>2, <2>3
<1>1. t \in DOMAIN f => /\ f[t] = [pk |-> f[t].pk, fields |-> f[t].fields]
                        /\ f[t].fields \in Fields
  BY DEF States, Specs
<1>2. CASE op.kind = "CreateTable"
  <2>1. s = Statement("create table", t, NoName, op.spec)
    BY <1>0, <1>2 DEF sql_statements
  <2>2. s.sql = "create table" /\ s.table = t /\ s.arg = op.spec
    BY <2>1 DEF Statement
  <2>3. t \notin DOMAIN tables
    BY <1>a, <2>2 DEF Raises
  <2>4. t \notin DOMAIN f
    BY <1>a, <2>3, DdlAt, AtValue
  <2>5. At(E, t) = <<ddl(op.spec)>>
    BY <1>d, <2>2
  <2>6. t \in DOMAIN m /\ m[t] = op.spec
    BY <1>b, <1>2, AtValue
  <2>7. At(Ddl(m), t) = <<ddl(op.spec)>>
    BY <2>6 DEF Ddl, At
  <2>8. Sound(op, f)
    BY <1>a, <1>2, <2>4 DEF Sound, FieldKinds
  <2> QED
    BY <2>5, <2>7, <2>8
<1>3. CASE op.kind = "DeleteTable"
  <2>1. s = Statement("drop table", t, NoName, NoName)
    BY <1>0, <1>3 DEF sql_statements
  <2>2. s.sql = "drop table" /\ s.table = t
    BY <2>1 DEF Statement
  <2>3. t \in DOMAIN tables
    BY <1>a, <2>2 DEF Raises
  <2>4. t \in DOMAIN f
    BY <1>a, <2>3, DdlAt, AtValue
  <2>5. At(E, t) = <<>>
    BY <1>d, <2>2
  <2>6. t \notin DOMAIN m
    BY <1>b, <1>3, AtValue
  <2>7. At(Ddl(m), t) = <<>>
    BY <2>6, DdlAt
  <2>8. Sound(op, f)
    BY <1>a, <1>3, <2>4 DEF Sound, FieldKinds
  <2> QED
    BY <2>5, <2>7, <2>8
<1>4. CASE op.kind \in FieldKinds
  <2> DEFINE F == f[t].fields
             P == f[t].pk
  <2>1. t \in DOMAIN tables
    <3>1. s = KeyError \/ (s.sql \in {"add column", "drop column", "rename column", "rebuild"} /\ s.table = t)
      BY <1>0, <1>4 DEF sql_statements, FieldKinds, Statement, rebuild_statements
    <3> QED
      BY <1>a, <3>1 DEF Raises
  <2>2. t \in DOMAIN f /\ F \in Fields /\ f[t] = [pk |-> P, fields |-> F]
    BY <1>a, <1>1, <2>1, DdlAt, AtValue
  <2> DEFINE old == [pk |-> P, cols |-> Cols(F)]
  <2>3. At(tables, t) = <<old>> /\ tables[t] = old
    <3>1. At(tables, t) = <<old>>
      BY <1>a, <2>2, DdlAt
    <3> HIDE DEF old
    <3> QED
      BY <3>1, AtValue
  <2>h. s.table = t /\ s.sql \in {"add column", "drop column", "rename column"} => At(E, t) = <<Amended(s, old)>>
    <3>1. \E x, y : old = [pk |-> x, cols |-> y]
      OBVIOUS
    <3> HIDE DEF old
    <3> QED
      BY <1>e, <2>3, <3>1
  <2>4. t \in DOMAIN m /\ m[t] = [pk |-> P, fields |-> Altered(op, F)]
    BY <1>b, <1>4, <2>2, AtValue
  <2>5. m[t].pk = P /\ m[t].fields = Altered(op, F)
    BY <2>4
  <2>6. At(Ddl(m), t) = <<[pk |-> P, cols |-> Cols(Altered(op, F))]>>
    <3> HIDE DEF P, F
    <3> QED
      BY <2>4, <2>5, DdlAt
  <2>7. DOMAIN Cols(F) = DOMAIN F
    BY DEF Cols
  <2>8. op.kind \in {"AddField", "RemoveField", "RenameField", "AlterField"}
    BY <1>4 DEF FieldKinds
  <2>9. CASE op.kind = "AddField"
    <3>1. s = Statement("add column", t, op.name, op.pytype)
      BY <1>0, <2>9 DEF sql_statements
    <3>2. s.sql = "add column" /\ s.table = t /\ s.column = op.name /\ s.arg = op.pytype
      BY <3>1 DEF Statement
    <3>3. tables[t].cols = Cols(F) /\ At(E, t) = <<[pk |-> P, cols |-> Put(Cols(F), op.name, field_sql_type(op.pytype))]>>
      <4>1. Amended(s, old) = [pk |-> P, cols |-> Put(Cols(F), op.name, field_sql_type(op.pytype))]
        BY <3>2 DEF Amended
      <4>2. At(E, t) = <<Amended(s, old)>>
        BY <2>h, <3>2
      <4>3. tables[t].cols = Cols(F)
        BY <2>3
      <4> QED
        BY <4>1, <4>2, <4>3
    <3>4. op.name \notin DOMAIN F
      BY <1>a, <2>1, <2>7, <3>2, <3>3 DEF Raises
    <3>5. Cols(Altered(op, F)) = Put(Cols(F), op.name, field_sql_type(op.pytype))
      <4>1. Altered(op, F) = Put(F, op.name, op.pytype)
        BY <2>9 DEF Altered
      <4> HIDE DEF F
      <4> QED
        BY <2>2, <4>1, ColsChanged
    <3>6. Sound(op, f)
      BY <1>a, <2>2, <2>9, <3>4 DEF Sound
    <3> QED
      BY <2>6, <3>3, <3>5, <3>6
  <2>10. CASE op.kind = "RemoveField"
    <3>1. s = Statement("drop column", t, op.name, NoName)
      BY <1>0, <2>10 DEF sql_statements
    <3>2. s.sql = "drop column" /\ s.table = t /\ s.column = op.name
      BY <3>1 DEF Statement
    <3>3. tables[t].cols = Cols(F) /\ At(E, t) = <<[pk |-> P, cols |-> Without(Cols(F), op.name)]>>
      <4>1. Amended(s, old) = [pk |-> P, cols |-> Without(Cols(F), op.name)]
        BY <3>2 DEF Amended
      <4>2. At(E, t) = <<Amended(s, old)>>
        BY <2>h, <3>2
      <4>3. tables[t].cols = Cols(F)
        BY <2>3
      <4> QED
        BY <4>1, <4>2, <4>3
    <3>4. op.name \in DOMAIN F
      BY <1>a, <2>1, <2>7, <3>2, <3>3 DEF Raises
    <3>5. Cols(Altered(op, F)) = Without(Cols(F), op.name)
      <4>1. Altered(op, F) = Without(F, op.name)
        BY <2>10 DEF Altered
      <4> HIDE DEF F
      <4> QED
        BY <2>2, <4>1, ColsChanged
    <3>6. Sound(op, f)
      BY <1>a, <2>2, <2>10, <3>4 DEF Sound
    <3> QED
      BY <2>6, <3>3, <3>5, <3>6
  <2>11. CASE op.kind = "RenameField"
    <3>1. s = Statement("rename column", t, op.name, op.new_name)
      BY <1>0, <2>11 DEF sql_statements
    <3>2. s.sql = "rename column" /\ s.table = t /\ s.column = op.name /\ s.arg = op.new_name
      BY <3>1 DEF Statement
    <3>3. tables[t].cols = Cols(F) /\ At(E, t) = <<[pk |-> IF P = op.name THEN op.new_name ELSE P,
                           cols |-> renamed(Cols(F), op.name, op.new_name)]>>
      <4>1. Amended(s, old) = [pk |-> IF P = op.name THEN op.new_name ELSE P,
                           cols |-> renamed(Cols(F), op.name, op.new_name)]
        BY <3>2 DEF Amended
      <4>2. At(E, t) = <<Amended(s, old)>>
        BY <2>h, <3>2
      <4>3. tables[t].cols = Cols(F)
        BY <2>3
      <4> QED
        BY <4>1, <4>2, <4>3
    <3>4. op.name \in DOMAIN F /\ op.new_name \notin DOMAIN F
      BY <1>a, <2>1, <2>7, <3>2, <3>3 DEF Raises
    <3>5. Cols(Altered(op, F)) = renamed(Cols(F), op.name, op.new_name)
      <4>1. Altered(op, F) = renamed(F, op.name, op.new_name)
        BY <2>11 DEF Altered
      <4> HIDE DEF F
      <4> QED
        BY <2>2, <4>1, ColsChanged
    <3>6. Sound(op, f)
      BY <1>a, <2>2, <2>11, <3>4 DEF Sound
    <3>7. P # op.name
      BY <1>a, <2>2, <2>11
    <3> QED
      BY <2>6, <3>3, <3>5, <3>6, <3>7
  <2>12. CASE op.kind = "AlterField"
    <3>1. t \in DOMAIN b /\ b[t] = f[t]
      BY <1>a, <2>2, SameAt
    <3> DEFINE target == [b[t] EXCEPT !.fields = Put(@, op.name, op.pytype)]
    <3>2. s = rebuild_statements(b[t], target, t)
      BY <1>0, <2>12, <3>1 DEF sql_statements
    <3>3. target = [pk |-> P, fields |-> Put(F, op.name, op.pytype)]
      <4> HIDE DEF P, F
      <4>1. b[t] = [pk |-> P, fields |-> F]
        BY <2>2, <3>1
      <4> QED
        BY <4>1
    <3>4. s.sql = "rebuild" /\ s.table = t /\ s.target = target
      BY <3>2 DEF rebuild_statements
    <3>5. At(E, t) = <<ddl(target)>>
      <4> HIDE DEF target
      <4> QED
        BY <1>d, <3>4
    <3>6. Altered(op, F) = Put(F, op.name, op.pytype)
      BY <2>12 DEF Altered
    <3>7. target.pk = P /\ target.fields = Put(F, op.name, op.pytype)
      <4> HIDE DEF target
      <4> QED
        BY <3>3
    <3>8. ddl(target) = [pk |-> P, cols |-> Cols(Altered(op, F))]
      BY <3>6, <3>7 DEF ddl, Cols
    <3>9. Sound(op, f)
      BY <1>a, <2>2, <2>12 DEF Sound
    <3> QED
      BY <2>6, <3>5, <3>8, <3>9
  <2> QED
    BY <2>8, <2>9, <2>10, <2>11, <2>12
<1> QED
  BY <1>2, <1>3, <1>4, MutateAt

\* The reverse statement of an operation takes its table back, as long as the states
\* around the migration agree with those around the operation on what it has lost.
LEMMA BackTable ==
    ASSUME NEW op \in Operations, op.kind \in Structural, NEW f \in States, Sound(op, f),
           NEW b \in States, NEW aft \in States,
           op.kind = "DeleteTable" => At(b, op.table) = At(f, op.table),
           op.kind \in {"RemoveField", "AlterField"} => SameField(b, f, op.table, op.name),
           op.kind = "AlterField" => At(aft, op.table) = At(mutate_state(op, f), op.table),
           op.kind = "RenameField" => f[op.table].pk # op.new_name,
           NEW tables, At(tables, op.table) = At(Ddl(mutate_state(op, f)), op.table),
           ~ Raises(reverse_statements(op, b, aft), tables)
    PROVE  At(Effect(reverse_statements(op, b, aft), tables), op.table) = At(Ddl(f), op.table)
<1>0. SUFFICES ASSUME NEW t, t = op.table, NEW s, s = reverse_statements(op, b, aft),
                      NEW m, m = mutate_state(op, f), NEW E, E = Effect(s, tables)
               PROVE  At(E, t) = At(Ddl(f), t)
  OBVIOUS
<1>1. /\ At(tables, t) = At(Ddl(m), t) /\ t = op.table /\ s # KeyError
      /\ op.kind = "DeleteTable" => At(b, t) = At(f, t)
      /\ op.kind \in {"RemoveField", "AlterField"} => SameField(b, f, t, op.name)
      /\ op.kind = "AlterField" => At(aft, t) = At(m, t)
      /\ op.kind = "RenameField" => f[t].pk # op.new_name
  BY <1>0 DEF Raises
<1>2. op.kind \in FieldKinds =>
         At(m, t) = IF t \in DOMAIN f THEN <<[pk |-> f[t].pk, fields |-> Altered(op, f[t].fields)]>> ELSE <<>>
  BY <1>0, MutateAt
<1>3. E = Effect(s, tables)
  BY <1>0
<1>4. ASSUME s.table = t
      PROVE  /\ s.sql = "create table" => At(E, t) = <<ddl(s.arg)>>
             /\ s.sql = "drop table" => At(E, t) = <<>>
             /\ s.sql = "rebuild" => At(E, t) = <<ddl(s.target)>>
  <2>1. s.sql = "create table" => At(Effect(s, tables), s.table) = <<ddl(s.arg)>>
    BY EffectAt
  <2>2. s.sql = "drop table" => At(Effect(s, tables), s.table) = <<>>
    BY EffectAt
  <2>3. s.sql = "rebuild" => At(Effect(s, tables), s.table) = <<ddl(s.target)>>
    BY EffectAt
  <2> QED
    BY <1>3, <1>4, <2>1, <2>2, <2>3
<1>5. ASSUME NEW old, NEW P, NEW C, old = [pk |-> P, cols |-> C], At(tables, t) = <<old>>, s.table = t,
             s.sql \in {"add column", "drop column", "rename column"}
      PROVE  At(E, t) = <<Amended(s, old)>>
  <2>1. t \in DOMAIN tables /\ tables[t] = old
    <3>1. At(tables, t) = <<old>>
      BY <1>5
    <3> QED
      BY <3>1, AtValue
  <2>2. s.table \in DOMAIN tables /\ tables[s.table] = old /\ tables[s.table] = [pk |-> P, cols |-> C]
    BY <1>5, <2>1
  <2>3. At(Effect(s, tables), s.table) = <<Amended(s, tables[s.table])>>
    BY <1>5, <2>2, EffectOnTable
  <2> QED
    BY <1>3, <1>5, <2>2, <2>3
<1>6. CASE op.kind = "CreateTable"
  <2>1. s = Statement("drop table", t, NoName, NoName)
    BY <1>0, <1>6 DEF reverse_statements
  <2>2. s.sql = "drop table" /\ s.table = t
    BY <2>1 DEF Statement
  <2>3. At(E, t) = <<>>
    BY <1>4, <2>2
  <2>4. t \notin DOMAIN f
    BY <1>1, <1>6 DEF Sound
  <2> QED
    BY <2>3, <2>4, DdlAt
<1>7. CASE op.kind = "DeleteTable"
  <2>1. t \in DOMAIN f
    BY <1>1, <1>7 DEF Sound
  <2>2. t \in DOMAIN b /\ b[t] = f[t]
    BY <1>1, <1>7, <2>1, SameAt
  <2>3. s = Statement("create table", t, NoName, b[t])
    BY <1>0, <1>7, <2>2 DEF reverse_statements
  <2>4. s.sql = "create table" /\ s.table = t /\ s.arg = f[t]
    BY <2>2, <2>3 DEF Statement
  <2>5. At(E, t) = <<ddl(f[t])>>
    BY <1>4, <2>4
  <2> QED
    BY <2>1, <2>5 DEF Ddl, At
<1>8. CASE op.kind \in FieldKinds
  <2> DEFINE F == f[t].fields
             P == f[t].pk
             G == Altered(op, F)
             old == [pk |-> P, cols |-> Cols(G)]
  <2>1. t \in DOMAIN f
    BY <1>1, <1>8 DEF Sound
  <2>2. F \in Fields /\ f[t] = [pk |-> P, fields |-> F]
    BY <2>1 DEF States, Specs
  <2>3. F = [x \in DOMAIN F |-> F[x]] /\ DOMAIN Cols(F) = DOMAIN F
    <3>1. DOMAIN Cols(F) = DOMAIN F
      BY DEF Cols
    <3> QED
      BY <2>2, <3>1 DEF Fields
  <2>4. Cols(F) = [x \in DOMAIN Cols(F) |-> Cols(F)[x]]
    BY DEF Cols
  <2>5. At(Ddl(f), t) = <<[pk |-> P, cols |-> Cols(F)]>>
    BY <2>1, DdlAt
  <2>6. At(m, t) = <<[pk |-> P, fields |-> G]>>
    BY <1>2, <1>8, <2>1
  <2>7. t \in DOMAIN m /\ m[t] = [pk |-> P, fields |-> G]
    BY <2>6, AtValue
  <2>8. m[t].pk = P /\ m[t].fields = G
    <3> HIDE DEF P, G
    <3> QED
      BY <2>7
  <2>9. At(tables, t) = <<old>>
    <3> HIDE DEF P, G
    <3> QED
      BY <1>1, <2>7, <2>8, DdlAt
  <2>10. s.table = t /\ s.sql \in {"add column", "drop column", "rename column"} => At(E, t) = <<Amended(s, old)>>
    <3>1. \E x, y : old = [pk |-> x, cols |-> y]
      OBVIOUS
    <3> HIDE DEF old
    <3> QED
      BY <1>5, <2>9, <3>1
  <2>11. old.pk = P /\ old.cols = Cols(G)
    <3> HIDE DEF P, G
    <3> QED
      OBVIOUS
  <2>12. op.kind \in {"AddField", "RemoveField", "RenameField", "AlterField"}
    BY <1>8 DEF FieldKinds
  <2>13. CASE op.kind = "AddField"
    <3>1. s = Statement("drop column", t, op.name, NoName)
      BY <1>0, <2>13 DEF reverse_statements
    <3>2. s.sql = "drop column" /\ s.table = t /\ s.column = op.name
      BY <3>1 DEF Statement
    <3>3. op.name \notin DOMAIN F
      BY <1>1, <2>13 DEF Sound
    <3>4. Cols(G) = Put(Cols(F), op.name, field_sql_type(op.pytype))
      <4>1. G = Put(F, op.name, op.pytype)
        BY <2>13 DEF Altered
      <4> HIDE DEF F, G
      <4> QED
        BY <2>2, <4>1, ColsChanged
    <3>5. Without(Cols(G), op.name) = Cols(F)
      BY <2>3, <2>4, <3>3, <3>4, RoundTrip
    <3>6. Amended(s, old) = [pk |-> P, cols |-> Cols(F)]
      <4> HIDE DEF old, F, G, P
      <4> QED
        BY <2>11, <3>2, <3>5 DEF Amended
    <3> QED
      BY <2>5, <2>10, <3>2, <3>6
  <2>14. CASE op.kind = "RemoveField"
    <3>1. t \in DOMAIN b /\ op.name \in DOMAIN b[t].fields
      BY <1>0, <1>1, <2>14 DEF reverse_statements
    <3>2. s = Statement("add column", t, op.name, b[t].fields[op.name])
      BY <1>0, <2>14, <3>1 DEF reverse_statements
    <3>3. At(b[t].fields, op.name) = At(F, op.name)
      BY <1>1, <2>14, <3>1 DEF SameField
    <3>4. op.name \in DOMAIN F /\ b[t].fields[op.name] = F[op.name]
      <4> DEFINE B == b[t].fields
      <4>1. At(B, op.name) = At(F, op.name) /\ op.name \in DOMAIN B
        BY <3>1, <3>3
      <4> HIDE DEF B, F
      <4>2. op.name \in DOMAIN F /\ B[op.name] = F[op.name]
        BY <4>1, SameAt
      <4> QED
        BY <4>2 DEF B
    <3>5. s.sql = "add column" /\ s.table = t /\ s.column = op.name /\ s.arg = F[op.name]
      BY <3>2, <3>4 DEF Statement
    <3>6. Cols(G) = Without(Cols(F), op.name)
      <4>1. G = Without(F, op.name)
        BY <2>14 DEF Altered
      <4> HIDE DEF F, G
      <4> QED
        BY <2>2, <4>1, ColsChanged
    <3>7. Cols(F)[op.name] = field_sql_type(F[op.name])
      BY <3>4 DEF Cols
    <3>8. Put(Cols(G), op.name, field_sql_type(F[op.name])) = Cols(F)
      BY <2>3, <2>4, <3>4, <3>6, <3>7, RoundTrip
    <3>9. Amended(s, old) = [pk |-> P, cols |-> Cols(F)]
      <4> HIDE DEF old, F, G, P
      <4> QED
        BY <2>11, <3>5, <3>8 DEF Amended
    <3> QED
      BY <2>5, <2>10, <3>5, <3>9
  <2>15. CASE op.kind = "RenameField"
    <3>1. s = Statement("rename column", t, op.new_name, op.name)
      BY <1>0, <2>15 DEF reverse_statements
    <3>2. s.sql = "rename column" /\ s.table = t /\ s.column = op.new_name /\ s.arg = op.name
      BY <3>1 DEF Statement
    <3>3. op.name \in DOMAIN F /\ op.new_name \notin DOMAIN F
      BY <1>1, <2>15 DEF Sound
    <3>4. Cols(G) = renamed(Cols(F), op.name, op.new_name)
      <4>1. G = renamed(F, op.name, op.new_name)
        BY <2>15 DEF Altered
      <4> HIDE DEF F, G
      <4> QED
        BY <2>2, <4>1, ColsChanged
    <3>5. renamed(Cols(G), op.new_name, op.name) = Cols(F)
      BY <2>3, <2>4, <3>3, <3>4, RoundTrip
    <3>6. P # op.new_name
      BY <1>1, <2>15
    <3>7. Amended(s, old) = [pk |-> P, cols |-> Cols(F)]
      <4> HIDE DEF old, F, G, P
      <4> QED
        BY <2>11, <3>2, <3>5, <3>6 DEF Amended
    <3> QED
      BY <2>5, <2>10, <3>2, <3>7
  <2>16. CASE op.kind = "AlterField"
    <3>1. t \in DOMAIN b /\ t \in DOMAIN aft /\ op.name \in DOMAIN b[t].fields
      BY <1>0, <1>1, <2>16 DEF reverse_statements
    <3>2. At(b[t].fields, op.name) = At(F, op.name)
      BY <1>1, <2>16, <3>1 DEF SameField
    <3>3. op.name \in DOMAIN F /\ b[t].fields[op.name] = F[op.name]
      <4> DEFINE B == b[t].fields
      <4>1. At(B, op.name) = At(F, op.name) /\ op.name \in DOMAIN B
        BY <3>1, <3>2
      <4> HIDE DEF B, F
      <4>2. op.name \in DOMAIN F /\ B[op.name] = F[op.name]
        BY <4>1, SameAt
      <4> QED
        BY <4>2 DEF B
    <3>4. At(aft, t) = At(m, t)
      BY <1>1, <2>16
    <3>5. aft[t] = m[t]
      BY <2>7, <3>4, SameAt
    <3>6. aft[t] = [pk |-> P, fields |-> G]
      BY <2>7, <3>5
    <3> DEFINE target == [aft[t] EXCEPT !.fields = Put(@, op.name, b[t].fields[op.name])]
    <3>7. s = rebuild_statements(aft[t], target, t)
      BY <1>0, <2>16, <3>1 DEF reverse_statements
    <3>8. s.sql = "rebuild" /\ s.table = t /\ s.target = target
      BY <3>7 DEF rebuild_statements
    <3>9. target = [pk |-> P, fields |-> Put(G, op.name, F[op.name])]
      <4> HIDE DEF P, F, G
      <4> QED
        BY <3>3, <3>6
    <3>10. Put(G, op.name, F[op.name]) = F
      <4>1. G = Put(F, op.name, op.pytype)
        BY <2>16 DEF Altered
      <4> HIDE DEF F, G
      <4> QED
        BY <2>3, <3>3, <4>1, RoundTrip
    <3>11. target.pk = P /\ target.fields = F
      <4> HIDE DEF target, P, F, G
      <4> QED
        BY <3>9, <3>10
    <3>12. ddl(target) = [pk |-> P, cols |-> Cols(F)]
      BY <3>11 DEF ddl, Cols
    <3> HIDE DEF target
    <3>13. At(E, t) = <<ddl(target)>>
      BY <1>4, <3>8
    <3> QED
      BY <2>5, <3>12, <3>13
  <2> QED
    BY <2>12, <2>13, <2>14, <2>15, <2>16
<1> QED
  BY <1>6, <1>7, <1>8, MutateAt

\* What comes before an element of a list ends at its first position.
LEMMA UntilAt ==
    ASSUME NEW T, NEW s \in Seq(T), NEW n \in ToSet(s)
    PROVE  \E p \in 1..Len(s) : s[p] = n /\ Until(s, n) = SubSeq(s, 1, p - 1)
<1> DEFINE I == {i \in 1..Len(s) : s[i] = n}
           k == SelectInSeq(s, LAMBDA m : m = n)
<1>1. Len(s) \in Nat /\ DOMAIN s = 1..Len(s)
  BY LenProperties
<1>2. I # {} /\ I \in SUBSET Nat /\ Contains(s, n)
  BY <1>1 DEF Contains, ToSet
<1>3. k = Min(I)
  BY <1>2 DEF SelectInSeq
<1>4. \E m \in I : \A j \in I : m <= j
  BY <1>2, Smallest
<1>5. k \in I
  BY <1>3, <1>4 DEF Min
<1>6. k \in 1..Len(s) /\ s[k] = n
  BY <1>5
<1>7. Until(s, n) = SubSeq(s, 1, k - 1)
  BY <1>2 DEF Until
<1> QED
  BY <1>6, <1>7

\* The operations of a list of migrations, one more.
LEMMA OperationsAppend ==
    ASSUME FilesTyped, NEW s \in Seq(nodes), NEW n \in nodes
    PROVE  AllOperations(Append(s, n)) = AllOperations(s) \o operations(n)
<1> DEFINE lists == [i \in DOMAIN s |-> operations(s[i])]
           more == [i \in DOMAIN Append(s, n) |-> operations(Append(s, n)[i])]
<1>1. Len(s) \in Nat /\ DOMAIN s = 1..Len(s) /\ \A i \in 1..Len(s) : s[i] \in nodes
  BY LenProperties, ElementOfSeq
<1>2. /\ DOMAIN Append(s, n) = 1..(Len(s) + 1) /\ Append(s, n)[Len(s) + 1] = n
      /\ \A i \in 1..Len(s) : Append(s, n)[i] = s[i]
  BY <1>1, AppendProperties, LenProperties
<1>3. \A i \in 1..(Len(s) + 1) : i \in 1..Len(s) \/ i = Len(s) + 1
  BY <1>1
<1>4. \A m \in nodes : operations(m) \in Seq(Operations)
  BY NodeFiles
<1>5. lists \in [1..Len(s) -> Seq(Operations)]
  BY <1>1, <1>4
<1>6. more \in [1..(Len(s) + 1) -> Seq(Operations)]
  BY <1>1, <1>2, <1>3, <1>4
<1>7. /\ \A i \in 1..Len(s) : more[i] = lists[i]
      /\ more[Len(s) + 1] = operations(n)
  <2>1. \A i \in 1..Len(s) : i \in 1..(Len(s) + 1)
    BY <1>1
  <2>2. Len(s) + 1 \in 1..(Len(s) + 1)
    BY <1>1
  <2> QED
    BY <1>1, <1>2, <2>1, <2>2
<1>8. AllOperations(s) = FlattenSeq(lists) /\ AllOperations(Append(s, n)) = FlattenSeq(more)
  BY DEF AllOperations
<1> HIDE DEF lists, more
<1>9. lists \in Seq(Seq(Operations)) /\ Len(lists) = Len(s)
  BY <1>1, <1>5, SequenceOf
<1>10. more \in Seq(Seq(Operations)) /\ Len(more) = Len(s) + 1
  <2>1. Len(s) + 1 \in Nat
    BY <1>1
  <2> QED
    BY <1>6, <2>1, SequenceOf
<1>11. operations(n) \in Seq(Operations)
  BY <1>4
<1>12. /\ Append(lists, operations(n)) \in Seq(Seq(Operations))
       /\ Len(Append(lists, operations(n))) = Len(s) + 1
       /\ \A i \in 1..Len(s) : Append(lists, operations(n))[i] = lists[i]
       /\ Append(lists, operations(n))[Len(s) + 1] = operations(n)
  BY <1>9, <1>11, AppendProperties
<1>13. more = Append(lists, operations(n))
  <2>1. \A i \in 1..(Len(s) + 1) : more[i] = Append(lists, operations(n))[i]
    BY <1>3, <1>7, <1>12
  <2> QED
    BY <1>10, <1>12, <2>1, SeqEqual
<1> QED
  BY <1>8, <1>9, <1>11, <1>13, FlattenAppend

LEMMA NoOperations == AllOperations(<<>>) = <<>>
<1> DEFINE lists == [i \in DOMAIN <<>> |-> operations(<<>>[i])]
<1>1. AllOperations(<<>>) = FlattenSeq(lists)
  BY DEF AllOperations
<1>2. lists = <<>>
  <2>1. lists \in [1..0 -> {}]
    BY EmptySeq
  <2> HIDE DEF lists
  <2>2. lists \in Seq({}) /\ Len(lists) = 0
    BY <2>1, SequenceOf
  <2> QED
    BY <2>2, EmptySeq
<1> QED
  BY <1>1, <1>2 DEF FlattenSeq

-----------------------------------------------------------------------------
\* The operations of an application, one migration after the other

Upto(a, m) == AllOperations(SubSeq(by_app(a), 1, m))

LEMMA UptoSteps ==
    ASSUME FilesTyped, NEW a \in Apps
    PROVE  /\ Len(files[a]) \in Nat /\ DOMAIN files[a] = 1..Len(files[a])
           /\ Upto(a, 0) = <<>> /\ Upto(a, Len(files[a])) = AllOperations(by_app(a))
           /\ \A m \in 0..Len(files[a]) : Upto(a, m) \in Seq(Operations)
           /\ \A m \in 1..Len(files[a]) : /\ <<a, m>> \in nodes /\ m - 1 \in 0..Len(files[a])
                                          /\ Upto(a, m) = Upto(a, m - 1) \o operations(<<a, m>>)
<1> DEFINE n == Len(files[a])
<1>1. n \in Nat /\ DOMAIN files[a] = 1..n /\ \A i \in 1..n : <<a, i>> \in nodes
  BY NodeFiles
<1>2. by_app(a) \in Seq(nodes) /\ Len(by_app(a)) = n
  <2>1. by_app(a) = [i \in 1..n |-> <<a, i>>]
    BY <1>1 DEF by_app
  <2>2. by_app(a) \in [1..n -> nodes]
    BY <1>1, <2>1
  <2> QED
    BY <1>1, <2>2, SequenceOf
<1>3. /\ SubSeq(by_app(a), 1, 0) = <<>> /\ SubSeq(by_app(a), 1, n) = by_app(a)
      /\ \A i \in 0..n : SubSeq(by_app(a), 1, i) \in Seq(nodes)
      /\ \A i \in 0..(n - 1) : SubSeq(by_app(a), 1, i + 1) = Append(SubSeq(by_app(a), 1, i), by_app(a)[i + 1])
  BY <1>2, Beginnings
<1>4. Upto(a, 0) = <<>> /\ Upto(a, n) = AllOperations(by_app(a))
  BY <1>3, NoOperations DEF Upto
<1>5. ASSUME NEW m \in 0..n PROVE Upto(a, m) \in Seq(Operations)
  BY <1>3, AllOperationsTyped DEF Upto
<1>6. ASSUME NEW m \in 1..n PROVE m - 1 \in 0..n /\ Upto(a, m) = Upto(a, m - 1) \o operations(<<a, m>>)
  <2>1. m - 1 \in 0..(n - 1) /\ m - 1 \in 0..n /\ (m - 1) + 1 = m
    BY <1>1
  <2>2. by_app(a)[m] = <<a, m>> /\ <<a, m>> \in nodes
    BY <1>1 DEF by_app
  <2> HIDE DEF n
  <2>3. SubSeq(by_app(a), 1, (m - 1) + 1) = Append(SubSeq(by_app(a), 1, m - 1), by_app(a)[(m - 1) + 1])
    BY <1>3, <2>1
  <2>4. SubSeq(by_app(a), 1, m) = Append(SubSeq(by_app(a), 1, m - 1), <<a, m>>)
    BY <2>1, <2>2, <2>3
  <2>5. SubSeq(by_app(a), 1, m - 1) \in Seq(nodes)
    BY <1>3, <2>1
  <2> QED
    BY <2>1, <2>2, <2>4, <2>5, OperationsAppend DEF Upto
<1> QED
  BY <1>1, <1>4, <1>5, <1>6

-----------------------------------------------------------------------------
\* The tables of an application do not depend on the migrations of the others

\* The operations of a migration are on tables of its application; it depends on the
\* migration before it.
FilesOwn ==
    \A n \in nodes : /\ OwnList(n[1], operations(n))
                     /\ n[2] > 1 => <<n[1], n[2] - 1>> \in ToSet(dependencies(n))

LEMMA BeforeAgrees ==
    ASSUME FilesTyped, FilesOwn, Acyclic, NEW n \in nodes, NEW t \in Owned(n[1])
    PROVE  /\ Before(n) \in Seq(Operations)
           /\ At(Fold(Before(n)), t) = At(Fold(Upto(n[1], n[2] - 1)), t)
<1> DEFINE a == n[1]
           o == ordered
           N == Len(files[a])
           Passed(j, q) == \A i \in 1..N : (\E k \in 1..j : o[k] = <<a, i>>) <=> i <= q
           T == {j \in 0..Len(o) : \E q \in 0..N :
                    Passed(j, q) /\ At(Fold(AllOperations(SubSeq(o, 1, j))), t) = At(Fold(Upto(a, q)), t)}
<1>1. PICK rank \in [Nodes -> Nat] : Ranked(rank)
  BY DEF Acyclic
<1>2. Preceded(o) /\ Once(o) /\ nodes \subseteq ToSet(o)
  BY <1>1, OrderedPreceded
<1>3. o \in Seq(nodes)
  <2>1. o \in Seq(Nodes) /\ ToSet(o) \subseteq nodes /\ Len(o) \in Nat /\ DOMAIN o = 1..Len(o)
    BY OrderedTyped, LenProperties
  <2>2. o = [i \in 1..Len(o) |-> o[i]] /\ \A i \in 1..Len(o) : o[i] \in nodes
    BY <2>1, LenProperties DEF ToSet
  <2>3. o \in [1..Len(o) -> nodes]
    BY <2>2
  <2> QED
    BY <2>1, <2>3, SequenceOf
<1>4. /\ Len(o) \in Nat /\ DOMAIN o = 1..Len(o) /\ SubSeq(o, 1, 0) = <<>>
      /\ \A j \in 0..Len(o) : SubSeq(o, 1, j) \in Seq(nodes)
      /\ \A j \in 0..(Len(o) - 1) : /\ o[j + 1] \in nodes /\ j \in 0..Len(o) /\ j + 1 \in 0..Len(o)
                                    /\ j + 1 \in 1..Len(o)
                                    /\ SubSeq(o, 1, j + 1) = Append(SubSeq(o, 1, j), o[j + 1])
  BY <1>3, Beginnings
<1>5. /\ a \in Apps /\ n = <<a, n[2]>> /\ n[2] \in 1..N /\ N \in Nat
      /\ Upto(a, 0) = <<>>
      /\ \A m \in 0..N : Upto(a, m) \in Seq(Operations)
      /\ \A m \in 1..N : m - 1 \in 0..N /\ Upto(a, m) = Upto(a, m - 1) \o operations(<<a, m>>)
  <2>1. a \in Apps /\ n = <<a, n[2]>> /\ n[2] \in DOMAIN files[a]
    BY NodeParts DEF nodes, Exists
  <2> QED
    BY <2>1, UptoSteps
<1>6. PICK p \in 1..Len(o) : o[p] = n /\ Until(o, n) = SubSeq(o, 1, p - 1)
  BY <1>2, <1>3, UntilAt
<1>7. \A m \in nodes : m[1] \in Apps /\ m[2] \in 1..Len(files[m[1]]) /\ m = <<m[1], m[2]>>
  <2>1. \A m \in nodes : m[1] \in Apps /\ m[2] \in DOMAIN files[m[1]] /\ m = <<m[1], m[2]>>
    BY NodeParts DEF nodes, Exists
  <2> QED
    BY <2>1, NodeFiles
<1> HIDE DEF o, N, a
<1>8. ASSUME NEW j \in 0..(Len(o) - 1), NEW q \in 0..N, Passed(j, q), o[j + 1][1] = a
      PROVE  q + 1 \in 1..N /\ o[j + 1] = <<a, q + 1>>
  <2>1. PICK i \in 1..N : o[j + 1] = <<a, i>>
    BY <1>4, <1>7, <1>8 DEF N
  <2>2. j + 1 \in 1..Len(o) /\ j \in Nat /\ \A k \in 1..j : k \in 1..Len(o) /\ k # j + 1
    BY <1>4
  <2>3. ~ \E k \in 1..j : o[k] = <<a, i>>
    BY <1>2, <1>4, <2>1, <2>2 DEF Once
  <2>4. ~ i <= q
    BY <1>8, <2>3
  <2>5. CASE i > 1
    <3>1. o[j + 1] \in nodes /\ o[j + 1][1] = a /\ o[j + 1][2] = i
      BY <1>4, <2>1
    <3>2. <<a, i - 1>> \in ToSet(dependencies(o[j + 1]))
      BY <2>5, <3>1 DEF FilesOwn
    <3>3. PICK k \in DOMAIN o : k < j + 1 /\ o[k] = <<a, i - 1>>
      BY <1>2, <1>4, <2>2, <3>2 DEF Preceded
    <3>4. k \in 1..j /\ i - 1 \in 1..N
      BY <1>4, <1>5, <2>2, <2>5, <3>3
    <3>5. i - 1 <= q
      BY <1>8, <3>3, <3>4
    <3>6. q + 1 = i
      BY <2>4, <3>5
    <3> QED
      BY <2>1, <3>6
  <2>6. CASE ~ i > 1
    <3>1. i = 1 /\ q = 0
      BY <2>4, <2>6
    <3> QED
      BY <2>1, <3>1
  <2> QED
    BY <2>5, <2>6
<1>9. 0 \in T
  <2>1. Passed(0, 0)
    BY <1>5
  <2>2. AllOperations(SubSeq(o, 1, 0)) = Upto(a, 0)
    BY <1>4, <1>5, NoOperations
  <2>3. 0 \in 0..N /\ 0 \in 0..Len(o)
    BY <1>4, <1>5
  <2> HIDE DEF Passed
  <2> QED
    BY <2>1, <2>2, <2>3
<1>10. ASSUME NEW j \in 0..(Len(o) - 1), j \in T PROVE j + 1 \in T
  <2> DEFINE x == o[j + 1]
             s == AllOperations(SubSeq(o, 1, j))
  <2>1. PICK q \in 0..N : Passed(j, q) /\ At(Fold(s), t) = At(Fold(Upto(a, q)), t)
    BY <1>10
  <2>2. x \in nodes /\ j + 1 \in 0..Len(o) /\ SubSeq(o, 1, j) \in Seq(nodes)
    BY <1>4
  <2>3. s \in Seq(Operations) /\ operations(x) \in Seq(Operations)
    BY <2>2, AllOperationsTyped, NodeFiles
  <2>4. AllOperations(SubSeq(o, 1, j + 1)) = s \o operations(x)
    BY <1>4, <2>2, OperationsAppend
  <2>5. Upto(a, q) \in Seq(Operations)
    BY <1>5
  <2>6. \A k \in 1..(j + 1) : k \in 1..j \/ k = j + 1
    BY <1>4
  <2>7. \A k \in 1..j : k \in 1..(j + 1)
    BY <1>4
  <2>8. j + 1 \in 1..(j + 1)
    BY <1>4
  <2>9. CASE x[1] # a
    <3>1. \A i \in DOMAIN operations(x) : operations(x)[i].kind \in Structural => operations(x)[i].table # t
      <4>1. x[1] \in Apps /\ Owned(x[1]) \cap Owned(a) = {} /\ t \in Owned(a)
        BY <1>5, <1>7, <2>2, <2>9, TablesAssumption DEF a
      <4>2. OwnList(x[1], operations(x))
        BY <2>2 DEF FilesOwn
      <4> HIDE DEF x
      <4> QED
        BY <4>1, <4>2 DEF OwnList, IsOwn
    <3>2. At(Fold(s \o operations(x)), t) = At(Fold(s), t)
      <4> HIDE DEF x, s
      <4> QED
        BY <2>3, <3>1, FoldForeign
    <3>3. \A i \in 1..N : x # <<a, i>>
      BY <2>9
    <3>4. Passed(j + 1, q)
      <4> SUFFICES ASSUME NEW i \in 1..N
                   PROVE  (\E k \in 1..(j + 1) : o[k] = <<a, i>>) <=> i <= q
        OBVIOUS
      <4>1. (\E k \in 1..j : o[k] = <<a, i>>) <=> i <= q
        BY <2>1
      <4>2. (\E k \in 1..(j + 1) : o[k] = <<a, i>>) <=> (\E k \in 1..j : o[k] = <<a, i>>)
        BY <2>6, <2>7, <3>3
      <4> QED
        BY <4>1, <4>2
    <3> HIDE DEF Passed, s, x
    <3> QED
      BY <2>1, <2>2, <2>4, <3>2, <3>4
  <2>10. CASE x[1] = a
    <3>1. q + 1 \in 1..N /\ x = <<a, q + 1>>
      <4> HIDE DEF Passed
      <4> QED
        BY <1>8, <2>1, <2>10
    <3>2. Upto(a, q + 1) = Upto(a, q) \o operations(x) /\ q + 1 \in 0..N
      <4>1. (q + 1) - 1 = q /\ q + 1 \in 0..N
        BY <1>5, <3>1
      <4>2. Upto(a, q + 1) = Upto(a, (q + 1) - 1) \o operations(<<a, q + 1>>)
        BY <1>5, <3>1
      <4> QED
        BY <3>1, <4>1, <4>2
    <3>3. At(Fold(s \o operations(x)), t) = At(Fold(Upto(a, q) \o operations(x)), t)
      <4> HIDE DEF x, s
      <4> QED
        BY <2>1, <2>3, <2>5, FoldAgree
    <3>4. Passed(j + 1, q + 1)
      <4> SUFFICES ASSUME NEW i \in 1..N
                   PROVE  (\E k \in 1..(j + 1) : o[k] = <<a, i>>) <=> i <= q + 1
        OBVIOUS
      <4>1. (\E k \in 1..j : o[k] = <<a, i>>) <=> i <= q
        BY <2>1
      <4>2. (\E k \in 1..(j + 1) : o[k] = <<a, i>>) <=> (\E k \in 1..j : o[k] = <<a, i>>) \/ x = <<a, i>>
        BY <2>6, <2>7, <2>8
      <4>3. x = <<a, i>> <=> i = q + 1
        BY <3>1
      <4>4. i <= q + 1 <=> i <= q \/ i = q + 1
        BY <3>1
      <4> QED
        BY <4>1, <4>2, <4>3, <4>4
    <3> HIDE DEF Passed, s, x
    <3> QED
      BY <2>2, <2>4, <3>2, <3>3, <3>4
  <2> QED
    BY <2>9, <2>10
<1>11. p - 1 \in 0..(Len(o) - 1) /\ p - 1 \in 0..Len(o) /\ (p - 1) + 1 = p
  BY <1>4
<1>12. p - 1 \in T
  <2> HIDE DEF T
  <2> QED
    BY <1>4, <1>9, <1>10, <1>11, UpTo
<1>13. PICK q \in 0..N :
          Passed(p - 1, q) /\ At(Fold(AllOperations(SubSeq(o, 1, p - 1))), t) = At(Fold(Upto(a, q)), t)
  <2> HIDE DEF Passed
  <2> QED
    BY <1>12
<1>14. n = <<a, q + 1>>
  <2>1. o[(p - 1) + 1][1] = a
    BY <1>6, <1>11 DEF a
  <2> HIDE DEF Passed
  <2> QED
    BY <1>6, <1>8, <1>11, <1>13, <2>1
<1>15. q = n[2] - 1
  BY <1>14
<1>16. Before(n) = AllOperations(SubSeq(o, 1, p - 1)) /\ SubSeq(o, 1, p - 1) \in Seq(nodes)
  BY <1>4, <1>6, <1>11 DEF Before, o
<1> QED
  BY <1>13, <1>15, <1>16, AllOperationsTyped DEF a

\* The operations of the application of n, up to the k-th of n.
Made(n, k) == Upto(n[1], n[2] - 1) \o SubSeq(operations(n), 1, k)

LEMMA MadeSteps ==
    ASSUME FilesTyped, NEW n \in nodes
    PROVE  /\ n[1] \in Apps /\ n = <<n[1], n[2]>> /\ n[2] \in 1..Len(files[n[1]])
           /\ n[2] - 1 \in 0..Len(files[n[1]]) /\ n[2] \in 0..Len(files[n[1]])
           /\ operations(n) \in Seq(Operations) /\ Len(operations(n)) \in Nat
           /\ Upto(n[1], n[2] - 1) \in Seq(Operations)
           /\ Made(n, 0) = Upto(n[1], n[2] - 1)
           /\ Made(n, Len(operations(n))) = Upto(n[1], n[2])
           /\ \A k \in 0..Len(operations(n)) : Made(n, k) \in Seq(Operations)
           /\ \A k \in 1..Len(operations(n)) :
                 /\ operations(n)[k] \in Operations /\ k - 1 \in 0..Len(operations(n))
                 /\ Fold(Made(n, k)) = mutate_state(operations(n)[k], Fold(Made(n, k - 1)))
<1> DEFINE a == n[1]
           ops == operations(n)
           u == Upto(a, n[2] - 1)
<1>1. a \in Apps /\ n = <<a, n[2]>> /\ n[2] \in 1..Len(files[a])
  <2>1. a \in Apps /\ n = <<a, n[2]>> /\ n[2] \in DOMAIN files[a]
    BY NodeParts DEF nodes, Exists
  <2> QED
    BY <2>1, NodeFiles
<1>2. /\ n[2] - 1 \in 0..Len(files[a]) /\ n[2] \in 0..Len(files[a]) /\ u \in Seq(Operations)
      /\ Upto(a, n[2]) = u \o ops
  <2>1. Len(files[a]) \in Nat
    BY <1>1, UptoSteps
  <2>2. n[2] - 1 \in 0..Len(files[a]) /\ n[2] \in 0..Len(files[a])
    BY <1>1, <2>1
  <2>3. Upto(a, n[2]) = Upto(a, n[2] - 1) \o operations(<<a, n[2]>>)
    BY <1>1, UptoSteps
  <2>4. operations(<<a, n[2]>>) = ops
    BY <1>1
  <2>5. u \in Seq(Operations)
    BY <1>1, <2>2, UptoSteps
  <2> QED
    BY <2>2, <2>3, <2>4, <2>5
<1>3. ops \in Seq(Operations)
  BY NodeFiles
<1> HIDE DEF u, ops
<1>4. /\ Len(ops) \in Nat /\ SubSeq(ops, 1, 0) = <<>> /\ SubSeq(ops, 1, Len(ops)) = ops
      /\ \A i \in 0..Len(ops) : SubSeq(ops, 1, i) \in Seq(Operations)
      /\ \A i \in 0..(Len(ops) - 1) : /\ ops[i + 1] \in Operations
                                      /\ SubSeq(ops, 1, i + 1) = Append(SubSeq(ops, 1, i), ops[i + 1])
  BY <1>3, Beginnings
<1>5. \A k : Made(n, k) = u \o SubSeq(ops, 1, k)
  BY DEF Made, u, ops
<1>6. Made(n, 0) = u
  <2>1. u \o <<>> = u
    BY <1>2, ConcatEmptySeq
  <2> QED
    BY <1>4, <1>5, <2>1
<1>7. Made(n, Len(ops)) = Upto(a, n[2])
  BY <1>2, <1>4, <1>5
<1>8. \A k \in 0..Len(ops) : Made(n, k) \in Seq(Operations)
  BY <1>2, <1>4, <1>5, ConcatProperties
<1>9. ASSUME NEW k \in 1..Len(ops)
      PROVE  /\ ops[k] \in Operations /\ k - 1 \in 0..Len(ops)
             /\ Fold(Made(n, k)) = mutate_state(ops[k], Fold(Made(n, k - 1)))
  <2>1. k - 1 \in 0..(Len(ops) - 1) /\ k - 1 \in 0..Len(ops) /\ (k - 1) + 1 = k
    BY <1>4
  <2>2. ops[(k - 1) + 1] \in Operations /\ SubSeq(ops, 1, (k - 1) + 1) = Append(SubSeq(ops, 1, k - 1), ops[(k - 1) + 1])
    BY <1>4, <2>1
  <2>3. ops[k] \in Operations /\ SubSeq(ops, 1, k) = Append(SubSeq(ops, 1, k - 1), ops[k])
    BY <2>1, <2>2
  <2>4. SubSeq(ops, 1, k - 1) \in Seq(Operations)
    BY <1>4, <2>1
  <2>5. u \o Append(SubSeq(ops, 1, k - 1), ops[k]) = Append(u \o SubSeq(ops, 1, k - 1), ops[k])
    <3>1. \A r \in Seq(Operations), e \in Operations : u \o Append(r, e) = Append(u \o r, e)
      <4>1. u \in Seq(Operations)
        BY <1>2
      <4> TAKE r \in Seq(Operations), e \in Operations
      <4> QED
        BY <4>1, AppendConcat
    <3> QED
      BY <2>3, <2>4, <3>1
  <2>6. Made(n, k) = Append(Made(n, k - 1), ops[k])
    BY <1>5, <2>3, <2>5
  <2>7. Made(n, k - 1) \in Seq(Operations)
    BY <1>8, <2>1
  <2> QED
    BY <2>1, <2>3, <2>6, <2>7, FoldAppend
<1> QED
  BY <1>1, <1>2, <1>3, <1>4, <1>6, <1>7, <1>8, <1>9 DEF u, ops

LEMMA OwnConcat ==
    ASSUME NEW a, NEW s \in Seq(Operations), NEW r \in Seq(Operations), OwnList(a, s), OwnList(a, r)
    PROVE  OwnList(a, s \o r)
<1>1. /\ Len(s) \in Nat /\ DOMAIN s = 1..Len(s) /\ Len(r) \in Nat /\ DOMAIN r = 1..Len(r)
  BY LenProperties
<1>2. /\ DOMAIN (s \o r) = 1..(Len(s) + Len(r))
      /\ \A i \in 1..(Len(s) + Len(r)) : (s \o r)[i] = IF i <= Len(s) THEN s[i] ELSE r[i - Len(s)]
  BY ConcatProperties, LenProperties
<1>3. \A i \in 1..(Len(s) + Len(r)) : IF i <= Len(s) THEN i \in 1..Len(s) ELSE i - Len(s) \in 1..Len(r)
  BY <1>1
<1> SUFFICES ASSUME NEW i \in DOMAIN (s \o r) PROVE IsOwn(a, (s \o r)[i])
  BY DEF OwnList
<1>4. CASE i <= Len(s)
  BY <1>1, <1>2, <1>3, <1>4 DEF OwnList
<1>5. CASE ~ i <= Len(s)
  BY <1>1, <1>2, <1>3, <1>5 DEF OwnList
<1> QED
  BY <1>4, <1>5

\* They are all its own, and so are the tables they make.
LEMMA UptoOwn ==
    ASSUME FilesTyped, FilesOwn, NEW a \in Apps, NEW m \in 0..Len(files[a])
    PROVE  OwnList(a, Upto(a, m)) /\ Keyed(a, Fold(Upto(a, m)))
<1> DEFINE N == Len(files[a])
           T == {i \in 0..N : OwnList(a, Upto(a, i))}
<1>1. /\ N \in Nat /\ Upto(a, 0) = <<>>
      /\ \A i \in 0..N : Upto(a, i) \in Seq(Operations)
      /\ \A i \in 1..N : <<a, i>> \in nodes /\ Upto(a, i) = Upto(a, i - 1) \o operations(<<a, i>>)
  BY UptoSteps
<1> HIDE DEF N
<1>2. 0 \in T
  <2>1. DOMAIN <<>> = {}
    OBVIOUS
  <2> QED
    BY <1>1, <2>1 DEF OwnList
<1>3. ASSUME NEW i \in 0..(N - 1), i \in T PROVE i + 1 \in T
  <2>1. i + 1 \in 1..N /\ i + 1 \in 0..N /\ (i + 1) - 1 = i /\ i \in 0..N
    BY <1>1
  <2>2. <<a, i + 1>> \in nodes /\ Upto(a, i + 1) = Upto(a, (i + 1) - 1) \o operations(<<a, i + 1>>)
    BY <1>1, <2>1
  <2>3. operations(<<a, i + 1>>) \in Seq(Operations) /\ OwnList(a, operations(<<a, i + 1>>))
    BY <2>2, NodeFiles DEF FilesOwn
  <2>4. OwnList(a, Upto(a, i)) /\ Upto(a, i) \in Seq(Operations)
    BY <1>1, <1>3, <2>1
  <2>5. OwnList(a, Upto(a, i) \o operations(<<a, i + 1>>))
    BY <2>3, <2>4, OwnConcat
  <2> QED
    BY <2>1, <2>2, <2>5
<1>4. m \in T
  <2> HIDE DEF T
  <2> QED
    BY <1>1, <1>2, <1>3, UpTo DEF N
<1> QED
  BY <1>1, <1>4, FoldKeyed DEF N

LEMMA MadeOwn ==
    ASSUME FilesTyped, FilesOwn, NEW n \in nodes, NEW k \in 0..Len(operations(n))
    PROVE  Keyed(n[1], Fold(Made(n, k)))
<1> DEFINE ops == operations(n)
           u == Upto(n[1], n[2] - 1)
           r == SubSeq(ops, 1, k)
<1>1. /\ n[1] \in Apps /\ n[2] - 1 \in 0..Len(files[n[1]]) /\ ops \in Seq(Operations) /\ u \in Seq(Operations)
      /\ Made(n, k) \in Seq(Operations)
  BY MadeSteps
<1>2. OwnList(n[1], u)
  BY <1>1, UptoOwn
<1>3. OwnList(n[1], ops)
  BY DEF FilesOwn
<1>4. /\ r \in Seq(Operations) /\ DOMAIN r = 1..k /\ \A j \in 1..k : r[j] = ops[j]
      /\ \A j \in 1..k : j \in DOMAIN ops
  <2> HIDE DEF ops
  <2>1. k \in 0..Len(ops)
    BY DEF ops
  <2>2. Len(ops) \in Nat /\ DOMAIN ops = 1..Len(ops)
    BY <1>1, LenProperties
  <2> QED
    BY <1>1, <2>1, <2>2, Beginnings
<1> HIDE DEF r, u, ops
<1>5. OwnList(n[1], r)
  BY <1>3, <1>4 DEF OwnList
<1>6. OwnList(n[1], u \o r)
  BY <1>1, <1>2, <1>4, <1>5, OwnConcat
<1>7. Made(n, k) = u \o r
  BY DEF Made, u, r, ops
<1> QED
  BY <1>1, <1>6, <1>7, FoldKeyed

-----------------------------------------------------------------------------
\* Operations forth and back

\* The tables of a are those of the state that the operations fold to.
Agrees(a, tables, ops) == \A t \in Owned(a) : At(tables, t) = At(Ddl(Fold(ops)), t)
Elsewhere(a, tables, others) == \A t : t \notin Owned(a) => At(tables, t) = At(others, t)

LEMMA StatementOf ==
    ASSUME NEW op \in Operations, NEW b, NEW aft
    PROVE  /\ op.kind \notin Structural =>
                  /\ sql_statements(op, b) = Run /\ reverse_statements(op, b, aft) = RunBack
                  /\ \A tables : Effect(Run, tables) = tables /\ Effect(RunBack, tables) = tables
           /\ op.kind \in Structural =>
                  /\ sql_statements(op, b) = KeyError \/ sql_statements(op, b).table = op.table
                  /\ reverse_statements(op, b, aft) = KeyError \/ reverse_statements(op, b, aft).table = op.table
<1>1. ASSUME op.kind \notin Structural
      PROVE  sql_statements(op, b) = Run /\ reverse_statements(op, b, aft) = RunBack
  BY <1>1 DEF sql_statements, reverse_statements, Structural
<1>2. ASSUME NEW tables PROVE Effect(Run, tables) = tables /\ Effect(RunBack, tables) = tables
  <2>1. Run.sql = "run" /\ RunBack.sql = "run back"
    BY DEF Run, RunBack
  <2> QED
    BY <2>1, EffectAt
<1>3. ASSUME op.kind \in Structural
      PROVE  sql_statements(op, b) = KeyError \/ sql_statements(op, b).table = op.table
  BY <1>3 DEF sql_statements, Structural, Statement, rebuild_statements
<1>4. ASSUME op.kind \in Structural
      PROVE  reverse_statements(op, b, aft) = KeyError \/ reverse_statements(op, b, aft).table = op.table
  BY <1>4 DEF reverse_statements, Structural, Statement, rebuild_statements
<1> QED
  BY <1>1, <1>2, <1>3, <1>4

LEMMA DdlSame ==
    ASSUME NEW f, NEW g, NEW t, At(f, t) = At(g, t)
    PROVE  At(Ddl(f), t) = At(Ddl(g), t)
<1>1. (t \in DOMAIN f <=> t \in DOMAIN g) /\ (t \in DOMAIN f => f[t] = g[t])
  BY SameAt
<1> QED
  BY <1>1, DdlAt

LEMMA EffectElsewhere ==
    ASSUME NEW s, NEW tables, NEW t, s.table # t
    PROVE  At(Effect(s, tables), t) = At(tables, t)
BY EffectAt

\* A state to whose own tables the list leads, and another list.
LEMMA ForthMade ==
    ASSUME FilesTyped, FilesOwn, Acyclic, NEW n \in nodes, NEW k \in 1..Len(operations(n)),
           NEW tables, Agrees(n[1], tables, Made(n, k - 1)),
           NEW s, s = sql_statements(operations(n)[k], Fold(Before(n) \o SubSeq(operations(n), 1, k - 1))),
           ~ Raises(s, tables)
    PROVE  /\ Agrees(n[1], Effect(s, tables), Made(n, k)) /\ Elsewhere(n[1], Effect(s, tables), tables)
           /\ Sound(operations(n)[k], Fold(Made(n, k - 1)))
<1> DEFINE a == n[1]
           ops == operations(n)
           op == ops[k]
           f == Fold(Made(n, k - 1))
           m == Fold(Made(n, k))
           b == Fold(Before(n) \o SubSeq(ops, 1, k - 1))
<1>1. /\ op \in Operations /\ k - 1 \in 0..Len(ops) /\ ops \in Seq(Operations) /\ Len(ops) \in Nat
      /\ Made(n, k - 1) \in Seq(Operations) /\ Made(n, k) \in Seq(Operations)
      /\ m = mutate_state(op, f) /\ Upto(a, n[2] - 1) \in Seq(Operations)
  <2>1. k - 1 \in 0..Len(ops) /\ k \in 0..Len(ops)
    BY MadeSteps
  <2> QED
    BY <2>1, MadeSteps
<1>2. f \in States /\ m \in States
  BY <1>1, FoldTyped
<1>3. IsOwn(a, op) /\ Keyed(a, f)
  <2>1. k \in DOMAIN ops
    BY <1>1, LenProperties
  <2>2. IsOwn(a, op)
    BY <2>1 DEF FilesOwn, OwnList
  <2> QED
    BY <1>1, <2>2, MadeOwn
<1>4. SubSeq(ops, 1, k - 1) \in Seq(Operations)
  BY <1>1, Beginnings
<1>5. ASSUME NEW t \in Owned(a) PROVE b \in States /\ At(b, t) = At(f, t)
  <2> DEFINE r == SubSeq(ops, 1, k - 1)
             u == Upto(a, n[2] - 1)
  <2>1. Before(n) \in Seq(Operations) /\ At(Fold(Before(n)), t) = At(Fold(u), t)
    BY <1>5, BeforeAgrees
  <2>2. r \in Seq(Operations) /\ u \in Seq(Operations)
    BY <1>1, <1>4
  <2>3. Made(n, k - 1) = u \o r
    BY DEF Made
  <2>4. b = Fold(Before(n) \o r)
    OBVIOUS
  <2> HIDE DEF r, u, b
  <2>5. At(Fold(Before(n) \o r), t) = At(Fold(u \o r), t)
    BY <2>1, <2>2, FoldAgree
  <2>6. Before(n) \o r \in Seq(Operations)
    BY <2>1, <2>2, ConcatProperties
  <2> QED
    BY <2>3, <2>4, <2>5, <2>6, FoldTyped
<1>6. s = sql_statements(op, b)
  OBVIOUS
<1>7. \A t \in Owned(a) : At(tables, t) = At(Ddl(f), t)
  BY DEF Agrees
<1>8. Agrees(a, Effect(s, tables), Made(n, k)) <=> \A t \in Owned(a) : At(Effect(s, tables), t) = At(Ddl(m), t)
  BY DEF Agrees
<1>9. Sound(operations(n)[k], Fold(Made(n, k - 1))) <=> Sound(op, f)
  OBVIOUS
<1> HIDE DEF op, f, m, b, a
<1>10. CASE op.kind \notin Structural
  <2>1. s = Run /\ Effect(s, tables) = tables
    BY <1>1, <1>6, <1>10, StatementOf
  <2>2. m = f
    BY <1>1, <1>2, <1>10, MutateAt
  <2>3. Sound(op, f)
    BY <1>10 DEF Sound, Structural, FieldKinds
  <2> QED
    BY <1>7, <1>8, <1>9, <2>1, <2>2, <2>3 DEF Elsewhere, a
<1>11. CASE op.kind \in Structural
  <2>1. op.table \in Owned(a)
    BY <1>3, <1>11 DEF IsOwn
  <2>2. b \in States /\ At(b, op.table) = At(f, op.table)
    BY <1>5, <2>1
  <2>3. At(tables, op.table) = At(Ddl(f), op.table)
    BY <1>7, <2>1
  <2>4. op.kind = "RenameField" /\ op.table \in DOMAIN f => f[op.table].pk # op.name
    BY <1>3, <1>11 DEF IsOwn, Keyed
  <2>5. ~ Raises(sql_statements(op, b), tables)
    BY <1>6
  <2>6. /\ At(Effect(sql_statements(op, b), tables), op.table) = At(Ddl(mutate_state(op, f)), op.table)
        /\ Sound(op, f)
    BY <1>1, <1>2, <1>11, <2>2, <2>3, <2>4, <2>5, ForthTable
  <2>7. s.table = op.table
    <3>1. s # KeyError
      BY DEF Raises
    <3> QED
      BY <1>1, <1>6, <1>11, <3>1, StatementOf
  <2>8. At(Effect(s, tables), op.table) = At(Ddl(m), op.table)
    BY <1>1, <1>6, <2>6
  <2>9. \A t : t # op.table => At(Effect(s, tables), t) = At(tables, t)
    BY <2>7, EffectElsewhere
  <2>10. \A t : t # op.table => At(m, t) = At(f, t)
    BY <1>1, <1>2, <1>11, MutateAt
  <2>11. \A t : t # op.table => At(Ddl(m), t) = At(Ddl(f), t)
    BY <2>10, DdlSame
  <2>12. \A t \in Owned(a) : At(Effect(s, tables), t) = At(Ddl(m), t)
    BY <1>7, <2>8, <2>9, <2>11
  <2>13. Elsewhere(n[1], Effect(s, tables), tables)
    BY <2>1, <2>9 DEF Elsewhere, a
  <2> QED
    BY <1>8, <1>9, <2>6, <2>12, <2>13 DEF a
<1> QED
  BY <1>10, <1>11

LEMMA Endings ==
    ASSUME NEW T, NEW r \in Seq(T), NEW k \in 0..Len(r)
    PROVE  LET u == SubSeq(r, k + 1, Len(r))
           IN  /\ SubSeq(r, 1, k) \in Seq(T) /\ u \in Seq(T) /\ SubSeq(r, 1, k) \o u = r
               /\ \A j \in DOMAIN u : u[j] = r[k + j] /\ k + j \in DOMAIN r /\ k < k + j
<1> DEFINE u == SubSeq(r, k + 1, Len(r))
<1>1. /\ Len(r) \in Nat /\ DOMAIN r = 1..Len(r) /\ SubSeq(r, 1, k) \in Seq(T)
      /\ SubSeq(r, 1, Len(r)) = r /\ \A i \in 1..Len(r) : r[i] \in T
  BY Beginnings, ElementOfSeq
<1>2. SubSeq(r, 1, k) \o u = r
  <2>1. 1 \in 1..(Len(r) + 1) /\ k \in (1 - 1)..Len(r) /\ Len(r) \in k..Len(r)
    BY <1>1
  <2> QED
    BY <1>1, <2>1, ConcatAdjacentSubSeq
<1>3. k + 1 \in Int /\ Len(r) \in Int /\ \A i \in (k + 1)..Len(r) : r[i] \in T
  BY <1>1
<1>4. u \in Seq(T)
  BY <1>3, SubSeqProperties
<1>5. Len(u) = IF k + 1 <= Len(r) THEN Len(r) - (k + 1) + 1 ELSE 0
  BY <1>3, SubSeqProperties
<1>6. \A i \in 1..(Len(r) - (k + 1) + 1) : u[i] = r[(k + 1) + i - 1]
  BY <1>3, SubSeqProperties
<1>7. DOMAIN u = 1..Len(u)
  BY <1>4, LenProperties
<1> HIDE DEF u
<1>8. ASSUME NEW j \in DOMAIN u PROVE u[j] = r[k + j] /\ k + j \in DOMAIN r /\ k < k + j
  <2>1. j \in 1..(Len(r) - (k + 1) + 1) /\ (k + 1) + j - 1 = k + j
    <3> DEFINE l == Len(r)
    <3>1. j \in 1..(IF k + 1 <= l THEN l - (k + 1) + 1 ELSE 0) /\ l \in Nat /\ k \in 0..l
      BY <1>1, <1>5, <1>7
    <3> HIDE DEF l
    <3>2. k + 1 <= l
      BY <3>1
    <3>3. j \in 1..(l - (k + 1) + 1)
      BY <3>1, <3>2
    <3> QED
      BY <3>1, <3>3 DEF l
  <2>2. k + j \in 1..Len(r) /\ k < k + j
    BY <1>1, <2>1
  <2> QED
    BY <1>1, <1>6, <2>1, <2>2
<1> QED
  BY <1>1, <1>2, <1>4, <1>8 DEF u

LEMMA BeforeTyped ==
    ASSUME FilesTyped, NEW n
    PROVE  Before(n) \in Seq(Operations)
<1>1. Until(ordered, n) \in Seq(Nodes) /\ ToSet(Until(ordered, n)) \subseteq nodes
  BY OrderedTyped, UntilElements
<1> DEFINE u == Until(ordered, n)
<1>2. Len(u) \in Nat /\ u = [i \in 1..Len(u) |-> u[i]] /\ \A i \in 1..Len(u) : u[i] \in nodes
  BY <1>1, LenProperties DEF ToSet
<1>3. u \in [1..Len(u) -> nodes]
  <2> HIDE DEF u
  <2> QED
    BY <1>2
<1>4. u \in Seq(nodes)
  <2> HIDE DEF u
  <2> QED
    BY <1>2, <1>3, SequenceOf
<1> QED
  BY <1>4, AllOperationsTyped DEF Before

\* The state before the migration n as its commands compute it, and as it is made.
LEMMA BeforeMade ==
    ASSUME FilesTyped, FilesOwn, Acyclic, NEW n \in nodes, NEW j \in 0..Len(operations(n))
    PROVE  /\ Before(n) \in Seq(Operations)
           /\ Before(n) \o SubSeq(operations(n), 1, j) \in Seq(Operations)
           /\ \A t \in Owned(n[1]) : At(Fold(Before(n) \o SubSeq(operations(n), 1, j)), t) = At(Fold(Made(n, j)), t)
<1>1. SUFFICES ASSUME NEW r, r = SubSeq(operations(n), 1, j), NEW u, u = Upto(n[1], n[2] - 1)
               PROVE  /\ Before(n) \in Seq(Operations) /\ Before(n) \o r \in Seq(Operations)
                      /\ \A t \in Owned(n[1]) : At(Fold(Before(n) \o r), t) = At(Fold(u \o r), t)
  BY DEF Made
<1>2. r \in Seq(Operations)
  BY <1>1, MadeSteps, Beginnings
<1>3. u \in Seq(Operations)
  BY <1>1, MadeSteps
<1>4. Before(n) \in Seq(Operations)
  BY BeforeTyped
<1>5. ASSUME NEW t \in Owned(n[1]) PROVE At(Fold(Before(n) \o r), t) = At(Fold(u \o r), t)
  <2>1. At(Fold(Before(n)), t) = At(Fold(u), t)
    BY <1>1, BeforeAgrees
  <2> QED
    BY <1>2, <1>3, <1>4, <2>1, FoldAgree
<1> QED
  BY <1>2, <1>4, <1>5, ConcatProperties

\* A state to whose own tables the operations up to the k-th lead, and another list.
LEMMA BackMade ==
    ASSUME FilesTyped, FilesOwn, Acyclic, NEW n \in nodes, NEW k \in 1..Len(operations(n)),
           Retraceable(operations(n)), Sound(operations(n)[k], Fold(Made(n, k - 1))),
           NEW tables, Agrees(n[1], tables, Made(n, k)),
           NEW s, s = reverse_statements(operations(n)[k], Fold(Before(n)), Fold(Before(n) \o operations(n))),
           ~ Raises(s, tables)
    PROVE  Agrees(n[1], Effect(s, tables), Made(n, k - 1)) /\ Elsewhere(n[1], Effect(s, tables), tables)
<1>1. SUFFICES ASSUME NEW ops, ops = operations(n), NEW op, op = ops[k], NEW a, a = n[1],
                      NEW f, f = Fold(Made(n, k - 1)), NEW m, m = Fold(Made(n, k)),
                      NEW b, b = Fold(Before(n)), NEW aft, aft = Fold(Before(n) \o ops),
                      NEW r, r = SubSeq(ops, 1, k - 1), NEW g, g = Fold(Before(n) \o r),
                      NEW E, E = Effect(s, tables)
               PROVE  /\ \A t \in Owned(a) : At(E, t) = At(Ddl(f), t)
                      /\ \A t : t \notin Owned(a) => At(E, t) = At(tables, t)
  BY DEF Agrees, Elsewhere
<1>2. /\ ops \in Seq(Operations) /\ Len(ops) \in Nat /\ DOMAIN ops = 1..Len(ops) /\ op \in Operations
      /\ k \in 1..Len(ops) /\ k - 1 \in 0..Len(ops)
      /\ m = mutate_state(op, f) /\ Made(n, k - 1) \in Seq(Operations) /\ Made(n, k) \in Seq(Operations)
  <2>1. k - 1 \in 0..Len(operations(n)) /\ k \in 0..Len(operations(n))
    BY MadeSteps
  <2>2. operations(n) \in Seq(Operations) /\ operations(n)[k] \in Operations
    BY MadeSteps
  <2>3. Made(n, k - 1) \in Seq(Operations) /\ Made(n, k) \in Seq(Operations)
    BY <2>1, MadeSteps
  <2>4. Fold(Made(n, k)) = mutate_state(operations(n)[k], Fold(Made(n, k - 1)))
    BY MadeSteps
  <2> QED
    BY <1>1, <2>1, <2>2, <2>3, <2>4, LenProperties
<1>3. /\ r \in Seq(Operations) /\ DOMAIN r = 1..(k - 1)
      /\ \A i \in 1..(k - 1) : r[i] = ops[i] /\ i \in DOMAIN ops /\ i < k
  BY <1>1, <1>2, Beginnings
<1>4. /\ Before(n) \in Seq(Operations) /\ Before(n) \o r \in Seq(Operations) /\ Before(n) \o ops \in Seq(Operations)
      /\ \A t \in Owned(a) : At(g, t) = At(f, t)
  <2>1. Before(n) \in Seq(Operations)
    BY BeforeTyped
  <2>2. k - 1 \in 0..Len(operations(n))
    BY <1>1, <1>2
  <2>3. \A t \in Owned(n[1]) :
           At(Fold(Before(n) \o SubSeq(operations(n), 1, k - 1)), t) = At(Fold(Made(n, k - 1)), t)
    BY <2>2, BeforeMade
  <2> QED
    BY <1>1, <1>2, <1>3, <2>1, <2>3, ConcatProperties
<1>5. f \in States /\ m \in States /\ b \in States /\ aft \in States /\ g \in States
  BY <1>1, <1>2, <1>4, FoldTyped
<1>6. IsOwn(a, op) /\ Keyed(a, f)
  <2>1. OwnList(n[1], operations(n))
    BY DEF FilesOwn
  <2>2. Keyed(n[1], Fold(Made(n, k - 1)))
    BY <1>1, <1>2, MadeOwn
  <2> QED
    BY <1>1, <1>2, <2>1, <2>2 DEF OwnList
<1>7. /\ Retraceable(ops) /\ Sound(op, f) /\ s = reverse_statements(op, b, aft)
      /\ \A t \in Owned(a) : At(tables, t) = At(Ddl(m), t)
  BY <1>1 DEF Agrees
<1>8. CASE op.kind \notin Structural
  <2>1. s = RunBack /\ Effect(RunBack, tables) = tables
    BY <1>2, <1>7, <1>8, StatementOf
  <2>2. m = f
    BY <1>2, <1>5, <1>8, MutateAt
  <2> QED
    BY <1>1, <1>7, <2>1, <2>2
<1>9. CASE op.kind \in Structural
  <2>1. op.table \in Owned(a)
    BY <1>6, <1>9 DEF IsOwn
  <2>2. PICK t \in Owned(a) : t = op.table
    BY <2>1
  <2>3. ASSUME op.kind = "DeleteTable" PROVE At(b, t) = At(f, t)
    <3>1. \A j \in DOMAIN r : r[j].kind \in Structural => r[j].table # t
      <4> SUFFICES ASSUME NEW j \in DOMAIN r, r[j].kind \in Structural, r[j].table = t PROVE FALSE
        OBVIOUS
      <4>1. r[j] = ops[j] /\ j \in DOMAIN ops /\ j < k /\ k \in DOMAIN ops
        BY <1>2, <1>3
      <4> QED
        BY <1>1, <1>7, <1>9, <2>2, <2>3, <4>1 DEF Retraceable
    <3>2. At(Fold(Before(n) \o r), t) = At(Fold(Before(n)), t)
      BY <1>3, <1>4, <3>1, FoldForeign
    <3> QED
      BY <1>1, <1>4, <3>2
  <2>4. ASSUME op.kind \in {"RemoveField", "AlterField"} PROVE SameField(b, f, t, op.name)
    <3>1. \A j \in DOMAIN r : r[j].kind \in Structural /\ r[j].table = t =>
                                  r[j].kind \in {"AddField", "RemoveField"} /\ r[j].name # op.name
      <4> SUFFICES ASSUME NEW j \in DOMAIN r, r[j].kind \in Structural, r[j].table = t
                   PROVE  r[j].kind \in {"AddField", "RemoveField"} /\ r[j].name # op.name
        OBVIOUS
      <4>1. r[j] = ops[j] /\ j \in DOMAIN ops /\ j < k /\ k \in DOMAIN ops
        BY <1>2, <1>3
      <4> QED
        BY <1>1, <1>7, <1>9, <2>2, <2>4, <4>1 DEF Retraceable
    <3>2. SameField(Fold(Before(n)), Fold(Before(n) \o r), t, op.name)
      BY <1>3, <1>4, <3>1, FoldColumn
    <3>3. SameField(b, g, t, op.name)
      BY <1>1, <3>2
    <3>4. (t \in DOMAIN g <=> t \in DOMAIN f) /\ (t \in DOMAIN g => g[t] = f[t])
      <4>1. At(g, t) = At(f, t)
        BY <1>4
      <4> QED
        BY <4>1, SameAt
    <3> QED
      BY <3>3, <3>4 DEF SameField
  <2>5. ASSUME op.kind = "AlterField" PROVE At(aft, t) = At(m, t)
    <3> DEFINE p == SubSeq(ops, 1, k)
               u == SubSeq(ops, k + 1, Len(ops))
    <3>1. p \in Seq(Operations) /\ u \in Seq(Operations) /\ p \o u = ops
      <4>1. k \in 0..Len(ops)
        BY <1>2
      <4> QED
        BY <1>2, <4>1, Endings
    <3>2. \A j \in DOMAIN u : u[j].kind \in Structural => u[j].table # t
      <4> SUFFICES ASSUME NEW j \in DOMAIN u, u[j].kind \in Structural, u[j].table = t PROVE FALSE
        OBVIOUS
      <4>1. u[j] = ops[k + j] /\ k + j \in DOMAIN ops /\ k < k + j /\ k \in DOMAIN ops
        <5>1. u[j] = ops[k + j] /\ k + j \in DOMAIN ops /\ k < k + j
          <6>1. k \in 0..Len(ops)
            BY <1>2
          <6> QED
            BY <1>2, <6>1, Endings
        <5> QED
          BY <1>2, <5>1
      <4> HIDE DEF u
      <4> QED
        BY <1>1, <1>7, <1>9, <2>2, <2>5, <4>1 DEF Retraceable
    <3>3. Before(n) \o p \in Seq(Operations) /\ Before(n) \o ops = (Before(n) \o p) \o u
      <4> HIDE DEF p, u
      <4>1. Before(n) \o p \in Seq(Operations)
        BY <1>4, <3>1, ConcatProperties
      <4>2. (Before(n) \o p) \o u = Before(n) \o (p \o u)
        <5>1. p \in Seq(Operations) /\ u \in Seq(Operations) /\ Before(n) \in Seq(Operations)
          BY <1>4, <3>1
        <5> QED
          BY <5>1, OperationsAssociative
      <4> QED
        BY <3>1, <4>1, <4>2
    <3>4. At(Fold((Before(n) \o p) \o u), t) = At(Fold(Before(n) \o p), t)
      <4> HIDE DEF p, u
      <4> QED
        BY <3>1, <3>2, <3>3, FoldForeign
    <3>5. At(Fold(Before(n) \o p), t) = At(m, t)
      <4>1. k \in 0..Len(operations(n)) /\ t \in Owned(n[1])
        BY <1>1, <1>2
      <4>2. At(Fold(Before(n) \o SubSeq(operations(n), 1, k)), t) = At(Fold(Made(n, k)), t)
        BY <4>1, BeforeMade
      <4> QED
        BY <1>1, <4>2
    <3> HIDE DEF p, u
    <3> QED
      BY <1>1, <3>3, <3>4, <3>5
  <2>6. op.kind = "RenameField" => f[t].pk # op.new_name
    <3>1. op.kind = "RenameField" => t \in DOMAIN f
      BY <1>7, <2>2 DEF Sound, FieldKinds
    <3> QED
      BY <1>6, <1>9, <3>1 DEF IsOwn, Keyed
  <2>7. ~ Raises(reverse_statements(op, b, aft), tables)
    BY <1>7
  <2>8. At(tables, t) = At(Ddl(mutate_state(op, f)), t)
    BY <1>2, <1>7
  <2>9. At(Effect(reverse_statements(op, b, aft), tables), op.table) = At(Ddl(f), op.table)
    BY <1>2, <1>5, <1>7, <1>9, <2>2, <2>3, <2>4, <2>5, <2>6, <2>7, <2>8, BackTable
  <2>10. At(E, t) = At(Ddl(f), t)
    BY <1>1, <1>7, <2>2, <2>9
  <2>11. s.table = t
    <3>1. s # KeyError
      BY DEF Raises
    <3> QED
      BY <1>2, <1>7, <1>9, <2>2, <3>1, StatementOf
  <2>12. \A u : u # t => At(E, u) = At(tables, u)
    BY <1>1, <2>11, EffectElsewhere
  <2>13. \A u : u # t => At(m, u) = At(f, u)
    BY <1>2, <1>5, <1>9, <2>2, MutateAt
  <2>14. \A u : u # t => At(Ddl(m), u) = At(Ddl(f), u)
    BY <2>13, DdlSame
  <2> QED
    BY <1>7, <2>2, <2>10, <2>12, <2>14
<1> QED
  BY <1>8, <1>9

-----------------------------------------------------------------------------
\* The tables and the record

\* The recorded migrations of a, but for empty ones, are the first m.
Filled(a, m) ==
    \A i \in DOMAIN files[a] : IF <<a, i>> \in Recorded THEN i <= m ELSE i <= m => operations(<<a, i>>) = <<>>

\* Each of the first k operations of n finds what it changes.
AllSound(n, k) == \A i \in 1..k : Sound(operations(n)[i], Fold(Made(n, i - 1)))

\* Where no rollback is half done the tables are those of the recorded migrations.
SteadyAt(a) ==
    a \notin loose /\ Steady(a) =>
        \E m \in 0..Len(files[a]) : Filled(a, m) /\ Agrees(a, db.tables, Upto(a, m))

\* Where one is, they are those before the operations it has undone.
UndoneAt(c) ==
    HalfUndone(c) /\ Application(c) \notin loose =>
        /\ Doing(c) \in Recorded /\ Filled(Application(c), Doing(c)[2]) /\ Retraceable(operations(Doing(c)))
        /\ Agrees(Application(c), db.tables, Made(Doing(c), cmd[c].op))

SoundAt(n) == n[1] \notin loose => AllSound(n, Len(operations(n)))

\* A transaction has executed a beginning of its migration, on tables of its application.
WorkAt ==
    lock # NoCommand =>
        /\ cmd[lock].op > 1
        /\ Elsewhere(Application(lock), work.tables, db.tables)
        /\ Application(lock) \notin loose /\ Steady(Application(lock)) /\ Filled(Application(lock), Doing(lock)[2] - 1) =>
              /\ Agrees(Application(lock), work.tables, Made(Doing(lock), cmd[lock].op - 1))
              /\ AllSound(Doing(lock), cmd[lock].op - 1)

SchemaInv ==
    /\ FilesOwn
    /\ \A a \in Apps : SteadyAt(a)
    /\ \A c \in Commands : UndoneAt(c)
    /\ \A n \in Recorded : SoundAt(n)
    /\ WorkAt

LEMMA UptoEmpty ==
    ASSUME FilesTyped, NEW a \in Apps, NEW m \in 0..Len(files[a]), NEW p \in 0..Len(files[a]), m <= p,
           \A i \in 1..Len(files[a]) : m < i /\ i <= p => operations(<<a, i>>) = <<>>
    PROVE  Upto(a, p) = Upto(a, m)
<1> DEFINE N == Len(files[a])
           T == {i \in 0..N : m <= i /\ i <= p => Upto(a, i) = Upto(a, m)}
<1>1. /\ N \in Nat /\ \A i \in 0..N : Upto(a, i) \in Seq(Operations)
      /\ \A i \in 1..N : Upto(a, i) = Upto(a, i - 1) \o operations(<<a, i>>)
  BY UptoSteps
<1>2. 0 \in T
  <2>1. m <= 0 => m = 0
    BY <1>1
  <2> QED
    BY <1>1, <2>1
<1>3. ASSUME NEW i \in 0..(N - 1), i \in T PROVE i + 1 \in T
  <2>1. i + 1 \in 0..N /\ i + 1 \in 1..N /\ (i + 1) - 1 = i /\ i \in 0..N
    BY <1>1
  <2>2. SUFFICES ASSUME m <= i + 1, i + 1 <= p PROVE Upto(a, i + 1) = Upto(a, m)
    BY <2>1
  <2>3. CASE m = i + 1
    BY <2>3
  <2>4. CASE m <= i
    <3>1. Upto(a, i) = Upto(a, m)
      BY <1>3, <2>1, <2>2, <2>4
    <3>2. operations(<<a, i + 1>>) = <<>>
      BY <2>1, <2>2, <2>4
    <3>3. Upto(a, i + 1) = Upto(a, i) \o <<>>
      <4>1. Upto(a, i + 1) = Upto(a, (i + 1) - 1) \o operations(<<a, i + 1>>)
        BY <1>1, <2>1
      <4> QED
        BY <2>1, <3>2, <4>1
    <3>4. Upto(a, i) \o <<>> = Upto(a, i)
      BY <1>1, <2>1, ConcatEmptySeq
    <3> QED
      BY <3>1, <3>3, <3>4
  <2> QED
    BY <2>1, <2>2, <2>3, <2>4
<1>4. p \in T
  <2> HIDE DEF T, N
  <2> QED
    BY <1>1, <1>2, <1>3, UpTo DEF N
<1> QED
  BY <1>4

LEMMA FilledAgree ==
    ASSUME FilesTyped, NEW a \in Apps, NEW m \in 0..Len(files[a]), NEW p \in 0..Len(files[a]),
           Filled(a, m), Filled(a, p)
    PROVE  Upto(a, p) = Upto(a, m)
<1>1. Len(files[a]) \in Nat /\ DOMAIN files[a] = 1..Len(files[a])
  BY UptoSteps
<1>2. \A i \in 1..Len(files[a]) : m < i /\ i <= p => operations(<<a, i>>) = <<>>
  BY <1>1 DEF Filled
<1>3. \A i \in 1..Len(files[a]) : p < i /\ i <= m => operations(<<a, i>>) = <<>>
  BY <1>1 DEF Filled
<1>4. m <= p \/ p <= m
  BY <1>1
<1> QED
  BY <1>2, <1>3, <1>4, UptoEmpty

\* What the files say does not change while they stay.
LEMMA SameOperations ==
    ASSUME files' = files
    PROVE  /\ \A a, m : Upto(a, m)' = Upto(a, m)
           /\ \A n, k : Made(n, k)' = Made(n, k)
           /\ \A n, k : AllSound(n, k)' <=> AllSound(n, k)
           /\ FilesOwn' <=> FilesOwn
<1>1. ASSUME NEW a, NEW m PROVE Upto(a, m)' = Upto(a, m)
  BY DEF Upto, AllOperations, by_app, operations
<1>2. ASSUME NEW n, NEW k PROVE Made(n, k)' = Made(n, k)
  BY DEF Made, Upto, AllOperations, by_app, operations
<1>3. \A n, k : AllSound(n, k)' <=> AllSound(n, k)
  BY <1>2 DEF AllSound, operations
<1>4. nodes' = nodes /\ \A n : operations(n)' = operations(n) /\ dependencies(n)' = dependencies(n)
  BY SameFiles
<1>5. FilesOwn' <=> FilesOwn
  BY <1>4 DEF FilesOwn
<1> QED
  BY <1>1, <1>2, <1>3, <1>5

\* Neither the record nor the tables of a change.
Untouched(a) ==
    /\ \A i : <<a, i>> \in Recorded' <=> <<a, i>> \in Recorded
    /\ \A t \in Owned(a) : At(db'.tables, t) = At(db.tables, t)

LEMMA SameFilled ==
    ASSUME files' = files, NEW a, Untouched(a)
    PROVE  /\ \A m : Filled(a, m)' <=> Filled(a, m)
           /\ \A ops : Agrees(a, db.tables, ops)' <=> Agrees(a, db.tables, ops)
<1>1. \A n : operations(n)' = operations(n)
  BY SameFiles
<1>2. \A m : Filled(a, m)' <=> Filled(a, m)
  BY <1>1 DEF Filled, Untouched
<1>3. \A ops : Agrees(a, db'.tables, ops) <=> Agrees(a, db.tables, ops)
  BY DEF Agrees, Untouched
<1> QED
  BY <1>2, <1>3

LEMMA SteadyKept ==
    ASSUME files' = files, NEW a, loose \subseteq loose', Untouched(a), SteadyAt(a),
           a \notin loose' /\ Steady(a)' => Steady(a)
    PROVE  SteadyAt(a)'
<1>1. \A m : (Filled(a, m)' <=> Filled(a, m)) /\ Upto(a, m)' = Upto(a, m)
  BY SameFilled, SameOperations
<1>2. \A ops : Agrees(a, db'.tables, ops) <=> Agrees(a, db.tables, ops)
  BY DEF Agrees, Untouched
<1> SUFFICES ASSUME a \notin loose', Steady(a)'
             PROVE  \E m \in 0..Len(files[a]) : Filled(a, m)' /\ Agrees(a, db'.tables, Upto(a, m)')
  BY DEF SteadyAt, Agrees
<1>3. PICK m \in 0..Len(files[a]) : Filled(a, m) /\ Agrees(a, db.tables, Upto(a, m))
  BY DEF SteadyAt
<1> QED
  BY <1>1, <1>2, <1>3

LEMMA UndoneKept ==
    ASSUME files' = files, NEW d, cmd'[d] = cmd[d], loose \subseteq loose', UndoneAt(d),
           NEW a, a = Application(d), Doing(d) = <<a, Doing(d)[2]>>, a \notin loose' => Untouched(a)
    PROVE  UndoneAt(d)'
<1>1. (HalfUndone(d)' <=> HalfUndone(d)) /\ Doing(d)' = Doing(d) /\ Application(d)' = a
  BY SameCommand
<1>2. PICK n : n = Doing(d)
  OBVIOUS
<1>3. PICK k : k = cmd[d].op
  OBVIOUS
<1>4. UndoneAt(d)' <=> (HalfUndone(d) /\ a \notin loose' =>
          /\ n \in Recorded' /\ Filled(a, n[2])' /\ Retraceable(operations(n))'
          /\ Agrees(a, db'.tables, Made(n, k)'))
  BY <1>1, <1>2, <1>3 DEF UndoneAt
<1>5. UndoneAt(d) <=> (HalfUndone(d) /\ a \notin loose =>
          /\ n \in Recorded /\ Filled(a, n[2]) /\ Retraceable(operations(n))
          /\ Agrees(a, db.tables, Made(n, k)))
  BY <1>2, <1>3 DEF UndoneAt
<1> SUFFICES ASSUME HalfUndone(d), a \notin loose'
             PROVE  /\ n \in Recorded' /\ Filled(a, n[2])' /\ Retraceable(operations(n))'
                    /\ Agrees(a, db'.tables, Made(n, k)')
  BY <1>4
<1>6. n \in Recorded /\ Filled(a, n[2]) /\ Retraceable(operations(n)) /\ Agrees(a, db.tables, Made(n, k))
  BY <1>5
<1>7. n \in Recorded'
  BY <1>2, <1>6 DEF Untouched
<1>8. Filled(a, n[2])'
  BY <1>6, SameFilled
<1>9. Retraceable(operations(n))'
  <2>1. operations(n)' = operations(n)
    BY SameFiles
  <2>2. PICK ops : ops = operations(n)
    OBVIOUS
  <2>3. operations(n)' = ops /\ Retraceable(ops)
    BY <1>6, <2>1, <2>2
  <2> QED
    BY <2>3
<1>10. Agrees(a, db'.tables, Made(n, k)')
  <2>1. Made(n, k)' = Made(n, k)
    BY SameOperations
  <2> QED
    BY <1>6, <2>1 DEF Agrees, Untouched
<1> QED
  BY <1>7, <1>8, <1>9, <1>10

LEMMA SteadySame ==
    ASSUME files' = files, NEW c, \A d \in Commands : d # c => cmd'[d] = cmd[d],
           NEW a, c \in Commands /\ HalfUndone(c) => Application(c) # a, Steady(a)'
    PROVE  Steady(a)
<1> SUFFICES ASSUME NEW d \in Commands, HalfUndone(d), Application(d) = a PROVE FALSE
  BY DEF Steady
<1>1. d # c
  OBVIOUS
<1>2. cmd'[d] = cmd[d]
  BY <1>1
<1>3. HalfUndone(d)' /\ Application(d)' = a
  BY <1>2, SameCommand
<1> QED
  BY <1>3 DEF Steady

LEMMA UndoerTyped ==
    ASSUME TypeInv, NEW d \in Commands, HalfUndone(d)
    PROVE  /\ Application(d) \in Apps /\ Application(d) = Doing(d)[1]
           /\ Doing(d) \in nodes /\ Doing(d) = <<Application(d), Doing(d)[2]>>
<1>1. cmd[d].pc = "undo"
  BY DEF HalfUndone
<1>2. Doing(d) \in nodes /\ Doing(d) \in Nodes /\ Application(d) \in Apps
  BY <1>1, DoingTyped DEF TypeInv, CommandInv
<1> QED
  BY <1>2, NodeParts DEF Application

\* A step of c that leaves all applications alone but those that are loose and X.
LEMMA SchemaKept ==
    ASSUME TypeInv, SchemaInv, files' = files, NEW c, \A d \in Commands : d # c => cmd'[d] = cmd[d],
           loose \subseteq loose', NEW X,
           \A a \in Apps : a \notin loose' /\ a \notin X => Untouched(a),
           \A a \in Apps : a \notin loose' /\ a \notin X => ~ (c \in Commands /\ HalfUndone(c) /\ Application(c) = a),
           \A a \in Apps : a \notin loose' /\ a \in X =>
              /\ SteadyAt(a)'
              /\ \A d \in Commands : d # c /\ HalfUndone(d) /\ Application(d) = a => UndoneAt(d)',
           c \in Commands => UndoneAt(c)',
           \A n \in Recorded' : n \in Recorded \/ SoundAt(n)',
           WorkAt'
    PROVE  SchemaInv'
<1>1. FilesOwn'
  BY SameOperations DEF SchemaInv
<1>2. ASSUME NEW a \in Apps PROVE SteadyAt(a)'
  <2>1. CASE a \in loose'
    BY <2>1 DEF SteadyAt
  <2>2. CASE a \notin loose' /\ a \in X
    BY <2>2
  <2>3. CASE a \notin loose' /\ a \notin X
    <3>1. Untouched(a) /\ SteadyAt(a)
      BY <2>3 DEF SchemaInv
    <3>2. c \in Commands /\ HalfUndone(c) => Application(c) # a
      BY <2>3
    <3>3. Steady(a)' => Steady(a)
      BY <3>2, SteadySame
    <3> QED
      BY <3>1, <3>3, SteadyKept
  <2> QED
    BY <2>1, <2>2, <2>3
<1>3. ASSUME NEW d \in Commands PROVE UndoneAt(d)'
  <2>1. CASE d = c
    BY <2>1
  <2>2. CASE d # c
    <3>1. cmd'[d] = cmd[d]
      BY <2>2
    <3>2. (HalfUndone(d)' <=> HalfUndone(d)) /\ Application(d)' = Application(d)
      BY <3>1, SameCommand
    <3>3. SUFFICES ASSUME HalfUndone(d), Application(d) \notin loose' PROVE UndoneAt(d)'
      BY <3>2 DEF UndoneAt
    <3>4. Application(d) \in Apps /\ Doing(d) = <<Application(d), Doing(d)[2]>>
      BY <3>3, UndoerTyped
    <3>5. CASE Application(d) \in X
      BY <2>2, <3>3, <3>4, <3>5
    <3>6. CASE Application(d) \notin X
      <4>1. Untouched(Application(d)) /\ UndoneAt(d)
        BY <3>3, <3>4, <3>6 DEF SchemaInv
      <4> QED
        BY <3>1, <3>4, <4>1, UndoneKept
    <3> QED
      BY <3>5, <3>6
  <2> QED
    BY <2>1, <2>2
<1>4. ASSUME NEW n \in Recorded' PROVE SoundAt(n)'
  <2>1. CASE n \in Recorded
    <3>1. SoundAt(n)
      BY <2>1 DEF SchemaInv
    <3>2. operations(n)' = operations(n)
      BY SameFiles
    <3>3. AllSound(n, Len(operations(n)))' <=> AllSound(n, Len(operations(n)))
      <4>1. PICK k : k = Len(operations(n))
        OBVIOUS
      <4>2. AllSound(n, k)' <=> AllSound(n, k)
        BY SameOperations
      <4>3. Len(operations(n))' = k
        BY <3>2, <4>1
      <4>4. AllSound(n, Len(operations(n)))' <=> AllSound(n, k)'
        BY <4>3 DEF AllSound
      <4> QED
        BY <4>1, <4>2, <4>4
    <3> QED
      BY <3>1, <3>3 DEF SoundAt
  <2> QED
    BY <2>1
<1> QED
  BY <1>1, <1>2, <1>3, <1>4 DEF SchemaInv

LEMMA WorkKept ==
    ASSUME TypeInv, WorkAt, files' = files, NEW c, \A d \in Commands : d # c => cmd'[d] = cmd[d],
           UNCHANGED <<db, work, lock>>, lock # c, loose \subseteq loose',
           c \in Commands /\ HalfUndone(c) => Application(c) \in loose'
    PROVE  WorkAt'
<1> SUFFICES ASSUME lock # NoCommand PROVE WorkAt'
  BY DEF WorkAt
<1>1. lock \in Commands /\ cmd'[lock] = cmd[lock]
  BY DEF TypeInv, LockInv
<1>2. PICK n, a, k : n = Doing(lock) /\ a = Application(lock) /\ k = cmd[lock].op
  BY <1>1
<1>3. Doing(lock)' = n /\ Application(lock)' = a /\ cmd'[lock].op = k
  BY <1>1, <1>2, SameCommand
<1>4. /\ k > 1 /\ Elsewhere(a, work.tables, db.tables)
      /\ a \notin loose /\ Steady(a) /\ Filled(a, n[2] - 1) =>
            Agrees(a, work.tables, Made(n, k - 1)) /\ AllSound(n, k - 1)
  BY <1>2 DEF WorkAt
<1>5. /\ Filled(a, n[2] - 1)' <=> Filled(a, n[2] - 1)
      /\ Made(n, k - 1)' = Made(n, k - 1) /\ (AllSound(n, k - 1)' <=> AllSound(n, k - 1))
  <2>1. Untouched(a)
    BY DEF Untouched, Recorded
  <2> QED
    BY <2>1, SameFilled, SameOperations
<1>6. a \notin loose' /\ Steady(a)' => Steady(a)
  <2>1. a \notin loose' => (c \in Commands /\ HalfUndone(c) => Application(c) # a)
    OBVIOUS
  <2> QED
    BY <2>1, SteadySame
<1>7. /\ k > 1 /\ Elsewhere(a, work'.tables, db'.tables)
      /\ a \notin loose' /\ Steady(a)' /\ Filled(a, n[2] - 1)' =>
            Agrees(a, work'.tables, Made(n, k - 1)') /\ AllSound(n, k - 1)'
  BY <1>4, <1>5, <1>6
<1> QED
  BY <1>3, <1>7 DEF WorkAt

\* A step of c that changes nothing but its own place.
LEMMA PlaceSchema ==
    ASSUME TypeInv, SchemaInv, files' = files, NEW c, \A d \in Commands : d # c => cmd'[d] = cmd[d],
           UNCHANGED <<db, work, lock>>, lock # c, loose \subseteq loose',
           c \in Commands /\ HalfUndone(c) => Application(c) \in loose',
           c \in Commands => ~ HalfUndone(c)'
    PROVE  SchemaInv'
<1>1. WorkAt'
  BY WorkKept DEF SchemaInv
<1>2. \A a : Untouched(a)
  BY DEF Untouched, Recorded
<1>3. c \in Commands => UndoneAt(c)'
  BY DEF UndoneAt
<1>4. Recorded' = Recorded
  BY DEF Recorded
<1>5. PICK X : X = {}
  OBVIOUS
<1> QED
  BY <1>1, <1>2, <1>3, <1>4, <1>5, SchemaKept

LEMMA PlacedSchema ==
    ASSUME TypeInv, SchemaInv, NEW c \in Commands, Placed(c)
    PROVE  SchemaInv'
<1> QED
  BY PlaceSchema DEF Placed

LEMMA RecordKept ==
    ASSUME \A m : m \in Recorded' <=> m \in Recorded, db'.tables = db.tables
    PROVE  \A a : Untouched(a)
<1> QED
  BY DEF Untouched

LEMMA FakeSchema ==
    ASSUME TypeInv, SchemaInv, NEW c \in Commands, Fake(c)
    PROVE  SchemaInv'
<1> DEFINE n == Doing(c)
<1>1. /\ cmd[c].pc = "next" /\ lock = NoCommand
      /\ Commit([db EXCEPT !.record = Append(@, n)])
      /\ LooseIf(TRUE, n[1]) /\ NextMigration(c) /\ UNCHANGED fileVars
  BY DEF Fake, Taking, Application
<1>2. n \in nodes /\ n \in Nodes
  BY <1>1, DoingTyped DEF TypeInv, CommandInv
<1>3. cmd'[c].pc # "undo" /\ \A d \in Commands : d # c => cmd'[d] = cmd[d]
  BY <1>1, NextTyped DEF fileVars
<1>4. ~ HalfUndone(c) /\ UndoneAt(c)'
  BY <1>1, <1>3 DEF HalfUndone, UndoneAt
<1> HIDE DEF n
<1>5. db'.tables = db.tables /\ \A m : m \in Recorded' <=> m \in Recorded \/ m = n
  BY <1>1, <1>2, AppendRecord DEF Commit, TypeInv, DatabaseInv, Recorded
<1>6. loose' = loose \cup {n[1]} /\ lock' = NoCommand
  BY <1>1 DEF LooseIf, Commit
<1>7. WorkAt'
  BY <1>6 DEF WorkAt
<1>8. \A a : a \notin loose' => Untouched(a)
  BY <1>5, <1>6 DEF Untouched
<1>9. \A m \in Recorded' : m \in Recorded \/ SoundAt(m)'
  BY <1>5, <1>6 DEF SoundAt
<1>10. PICK X : X = {}
  OBVIOUS
<1> QED
  BY <1>1, <1>3, <1>4, <1>6, <1>7, <1>8, <1>9, <1>10, SchemaKept DEF fileVars

LEMMA DryRunSchema ==
    ASSUME TypeInv, SchemaInv, NEW c \in Commands, DryRun(c)
    PROVE  SchemaInv'
<1> DEFINE n == Doing(c)
           runs == Cardinality({i \in DOMAIN operations(n) : operations(n)[i].kind = "RunPython"})
<1>1. /\ cmd[c].pc = "next" /\ NextMigration(c) /\ UNCHANGED <<fileVars, unordered>>
      /\ IF cmd[c].back \/ runs = 0 THEN UNCHANGED <<db, work, lock, loose>>
         ELSE /\ lock = NoCommand
              /\ Commit([db EXCEPT !.data[n] = @ + runs])
              /\ LooseIf(TRUE, n[1])
  BY DEF DryRun, Taking
<1>2. n \in nodes
  BY <1>1, DoingTyped DEF TypeInv, CommandInv
<1>3. cmd'[c].pc # "undo" /\ \A d \in Commands : d # c => cmd'[d] = cmd[d]
  BY <1>1, NextTyped DEF fileVars
<1>4. /\ [db EXCEPT !.data[n] = @ + runs].record = db.record
      /\ [db EXCEPT !.data[n] = @ + runs].tables = db.tables
  BY <1>2, DryRunsTyped
<1> HIDE DEF n, runs
<1>5. CASE cmd[c].back \/ runs = 0
  <2>1. lock # c /\ UNCHANGED <<db, work, lock, loose>>
    BY <1>1, <1>5, CommandAssumption DEF TypeInv, LockInv
  <2> QED
    BY <1>1, <1>3, <2>1, PlacedSchema DEF Placed, HalfUndone, fileVars
<1>6. CASE ~ (cmd[c].back \/ runs = 0)
  <2>1. lock' = NoCommand /\ db' = [db EXCEPT !.data[n] = @ + runs] /\ loose' = loose \cup {n[1]}
    BY <1>1, <1>6 DEF Commit, LooseIf
  <2>2. \A a : Untouched(a)
    BY <1>4, <2>1, RecordKept DEF Recorded
  <2>3. WorkAt' /\ UndoneAt(c)' /\ ~ HalfUndone(c)
    BY <1>1, <1>3, <2>1 DEF WorkAt, UndoneAt, HalfUndone
  <2>4. \A m \in Recorded' : m \in Recorded
    BY <1>4, <2>1 DEF Recorded
  <2>5. PICK X : X = {}
    OBVIOUS
  <2> QED
    BY <1>1, <1>3, <2>1, <2>2, <2>3, <2>4, <2>5, SchemaKept DEF fileVars
<1> QED
  BY <1>5, <1>6

\* What is not committed is lost, and nothing else.
LEMMA StopSchema ==
    ASSUME TypeInv, SchemaInv, NEW c \in Commands, cmd[c].pc \in {"next", "apply", "undo"}, Stop(c)
    PROVE  SchemaInv'
<1>1. /\ cmd' = [cmd EXCEPT ![c] = Idle]
      /\ lock' = IF lock = c THEN NoCommand ELSE lock
      /\ work' = IF lock = c THEN db ELSE work
      /\ UNCHANGED <<fileVars, db, unordered>>
  BY DEF Stop, Set
<1>2. loose \subseteq loose' /\ (HalfUndone(c) => Application(c) \in loose')
  BY DEF Stop, LooseIf
<1>3. cmd'[c].pc # "undo" /\ \A d \in Commands : d # c => cmd'[d] = cmd[d]
  BY <1>1 DEF TypeInv, CommandInv, Idle
<1>4. ~ HalfUndone(c)' /\ UndoneAt(c)'
  BY <1>3 DEF HalfUndone, UndoneAt
<1>5. CASE lock # c
  <2>1. UNCHANGED <<db, work, lock>>
    BY <1>1, <1>5
  <2> QED
    BY <1>1, <1>2, <1>3, <1>4, <1>5, <2>1, PlaceSchema DEF fileVars
<1>6. CASE lock = c
  <2>1. WorkAt'
    BY <1>1, <1>6 DEF WorkAt
  <2>2. Recorded' = Recorded /\ \A a : Untouched(a)
    BY <1>1 DEF Recorded, Untouched
  <2>3. PICK X : X = {}
    OBVIOUS
  <2> QED
    BY <1>1, <1>2, <1>3, <1>4, <2>1, <2>2, <2>3, SchemaKept DEF fileVars
<1> QED
  BY <1>5, <1>6

LEMMA SpecTables ==
    ASSUME DeclaredTyped, NEW a \in Apps
    PROVE  DOMAIN specs(a) = DOMAIN declared[a] /\ DOMAIN specs(a) \subseteq Owned(a)
<1> QED
  BY DEF DeclaredTyped, specs, Owned

LEMMA GetTableSchema ==
    ASSUME TypeInv, SchemaInv, NEW a \in Apps, get_table(a)
    PROVE  SchemaInv'
<1>1. lock' = NoCommand /\ loose' = loose \cup {a} /\ UNCHANGED <<files, cmd>>
  BY DEF get_table, Commit, LooseIf, fileVars
<1>2. /\ Recorded' = Recorded
      /\ db'.tables = [s \in DOMAIN specs(a) \cup DOMAIN db.tables |->
                          IF s \in DOMAIN specs(a) THEN ddl(specs(a)[s]) ELSE db.tables[s]]
  BY GetTableTyped DEF Recorded
<1>3. WorkAt'
  BY <1>1 DEF WorkAt
<1>4. ASSUME NEW b \in Apps, b \notin loose' PROVE Untouched(b)
  <2>1. \A t \in Owned(b) : t \notin DOMAIN specs(a)
    BY <1>1, <1>4, SpecTables, TablesAssumption DEF TypeInv
  <2>2. \A t : t \notin DOMAIN specs(a) =>
           /\ t \in DOMAIN db'.tables <=> t \in DOMAIN db.tables
           /\ t \in DOMAIN db.tables => db'.tables[t] = db.tables[t]
    BY <1>2
  <2>3. \A t : t \notin DOMAIN specs(a) => At(db'.tables, t) = At(db.tables, t)
    BY <2>2 DEF At
  <2> QED
    BY <1>2, <2>1, <2>3 DEF Untouched
<1>5. NoCommand \notin Commands
  BY CommandAssumption
<1>6. PICK X : X = {}
  OBVIOUS
<1> QED
  BY <1>1, <1>2, <1>3, <1>4, <1>5, <1>6, SchemaKept

LEMMA DeclareSchema ==
    ASSUME TypeInv, SchemaInv, files' = files, UNCHANGED <<db, work, lock, cmd, loose>>
    PROVE  SchemaInv'
<1>1. WorkAt'
  <2>1. CASE lock = NoCommand
    BY <2>1 DEF WorkAt
  <2>2. CASE lock # NoCommand
    BY <2>2, CommandAssumption, WorkKept DEF SchemaInv
  <2> QED
    BY <2>1, <2>2
<1>2. Recorded' = Recorded /\ \A a : Untouched(a)
  BY DEF Recorded, Untouched
<1>3. NoCommand \notin Commands
  BY CommandAssumption
<1>4. PICK X : X = {}
  OBVIOUS
<1> QED
  BY <1>1, <1>2, <1>3, <1>4, SchemaKept

LEMMA StatementElsewhere ==
    ASSUME NEW a, NEW op \in Operations, IsOwn(a, op), NEW b, NEW aft, NEW s, NEW tables,
           s = sql_statements(op, b) \/ s = reverse_statements(op, b, aft), ~ Raises(s, tables)
    PROVE  Elsewhere(a, Effect(s, tables), tables)
<1>1. CASE op.kind \notin Structural
  <2>1. Effect(s, tables) = tables
    BY <1>1, StatementOf
  <2> QED
    BY <2>1 DEF Elsewhere
<1>2. CASE op.kind \in Structural
  <2>1. s # KeyError
    BY DEF Raises
  <2>2. s.table = op.table
    BY <1>2, <2>1, StatementOf
  <2>3. op.table \in Owned(a)
    BY <1>2 DEF IsOwn
  <2>4. \A t : t \notin Owned(a) => s.table # t
    BY <2>2, <2>3
  <2>5. \A t : s.table # t => At(Effect(s, tables), t) = At(tables, t)
    BY EffectElsewhere
  <2> QED
    BY <2>4, <2>5 DEF Elsewhere
<1> QED
  BY <1>1, <1>2

LEMMA SteadyFilled ==
    ASSUME TypeInv, SchemaInv, NEW a \in Apps, a \notin loose, Steady(a),
           NEW p \in 0..Len(files[a]), Filled(a, p)
    PROVE  Agrees(a, db.tables, Upto(a, p))
<1>1. PICK m \in 0..Len(files[a]) : Filled(a, m) /\ Agrees(a, db.tables, Upto(a, m))
  BY DEF SchemaInv, SteadyAt
<1>2. Upto(a, p) = Upto(a, m)
  BY <1>1, FilledAgree DEF TypeInv
<1> QED
  BY <1>1, <1>2

LEMMA ApplyOperationSchema ==
    ASSUME TypeInv, Acyclic, SchemaInv, NEW c \in Commands, ApplyOperation(c)
    PROVE  SchemaInv'
<1>1. PICK n, a, k, s : n = Doing(c) /\ a = Application(c) /\ k = cmd[c].op /\ s = Forth(c)
  OBVIOUS
<1>2. /\ cmd[c].pc = "apply" /\ ~ Finished(c) /\ ~ cmd[c].fake_this /\ MayWrite(c)
      /\ ~ Raises(s, work.tables) /\ Write(c, Execute(s, n, work))
      /\ Set(c, [cmd[c] EXCEPT !.op = @ + 1]) /\ UNCHANGED <<fileVars, loose, unordered>>
  BY <1>1 DEF ApplyOperation
<1>3. n \in nodes /\ n \in Nodes /\ a = n[1] /\ a \in Apps
  BY <1>1, <1>2, DoingTyped DEF TypeInv, CommandInv, Application
<1>4. /\ cmd'[c].pc # "undo" /\ \A d \in Commands : d # c => cmd'[d] = cmd[d]
      /\ cmd'[c].todo = cmd[c].todo /\ cmd'[c].op = k + 1 /\ k \in 1..Len(operations(n))
  BY <1>1, <1>2, NextOperationTyped DEF fileVars
<1>5. Doing(c)' = n /\ Application(c)' = a
  BY <1>1, <1>4 DEF Doing, Application
<1>6. lock' = c /\ db' = db /\ work'.tables = Effect(s, work.tables)
  <2>1. IsDatabase(work)
    BY DEF TypeInv, DatabaseInv
  <2>2. Execute(s, n, work).tables = Effect(s, work.tables)
    BY <1>3, <2>1, ExecuteTyped
  <2> QED
    BY <1>2, <2>2 DEF Write
<1>7. s = sql_statements(operations(n)[k], Fold(Before(n) \o SubSeq(operations(n), 1, k - 1)))
  BY <1>1 DEF Forth, Operation
<1>8. /\ FilesTyped /\ FilesOwn /\ k - 1 \in 0..Len(operations(n)) /\ k \in Nat /\ (k + 1) - 1 = k /\ k + 1 > 1
      /\ operations(n)[k] \in Operations /\ IsOwn(a, operations(n)[k])
      /\ Len(operations(n)) \in Nat
      /\ n[2] - 1 \in 0..Len(files[a]) /\ Made(n, 0) = Upto(a, n[2] - 1)
  <2>1. FilesTyped /\ FilesOwn
    BY DEF TypeInv, SchemaInv
  <2>2. Len(operations(n)) \in Nat /\ DOMAIN operations(n) = 1..Len(operations(n))
    BY <1>3, <2>1, NodeFiles, LenProperties
  <2>3. IsOwn(a, operations(n)[k])
    BY <1>3, <1>4, <2>1, <2>2 DEF FilesOwn, OwnList
  <2>4. operations(n)[k] \in Operations /\ n[2] - 1 \in 0..Len(files[a]) /\ Made(n, 0) = Upto(a, n[2] - 1)
    BY <1>3, <1>4, <2>1, MadeSteps
  <2> QED
    BY <1>4, <2>1, <2>2, <2>3, <2>4
<1>9. lock = c \/ (lock = NoCommand /\ work = db /\ k = 1)
  <2>1. lock = c \/ lock = NoCommand
    BY <1>2 DEF MayWrite
  <2>2. lock = NoCommand => work = db /\ lock # c
    BY CommandAssumption DEF TypeInv, DatabaseInv
  <2>3. lock # c => k = 1
    BY <1>1, <1>2 DEF TypeInv, LockInv
  <2> QED
    BY <2>1, <2>2, <2>3
<1>10. c # NoCommand
  BY CommandAssumption
<1>11. Elsewhere(a, Effect(s, work.tables), db.tables)
  <2>1. Elsewhere(a, Effect(s, work.tables), work.tables)
    BY <1>2, <1>7, <1>8, StatementElsewhere
  <2>2. Elsewhere(a, work.tables, db.tables)
    <3>1. CASE lock = c
      BY <1>1, <1>10, <3>1 DEF SchemaInv, WorkAt
    <3>2. CASE work = db
      BY <3>2 DEF Elsewhere
    <3> QED
      BY <1>9, <3>1, <3>2
  <2> QED
    BY <2>1, <2>2 DEF Elsewhere
<1>12. ASSUME a \notin loose, Steady(a), Filled(a, n[2] - 1)
       PROVE  Agrees(a, Effect(s, work.tables), Made(n, k)) /\ AllSound(n, k)
  <2>1. Agrees(a, work.tables, Made(n, k - 1)) /\ AllSound(n, k - 1)
    <3>1. CASE lock = c
      BY <1>1, <1>10, <1>12, <3>1 DEF SchemaInv, WorkAt
    <3>2. CASE work = db /\ k = 1
      <4>1. Agrees(a, db.tables, Made(n, 0))
        BY <1>3, <1>8, <1>12, SteadyFilled
      <4>2. k - 1 = 0 /\ AllSound(n, 0)
        BY <3>2 DEF AllSound
      <4> QED
        BY <3>2, <4>1, <4>2
    <3> QED
      BY <1>9, <3>1, <3>2
  <2>2. /\ Agrees(a, Effect(s, work.tables), Made(n, k))
        /\ Sound(operations(n)[k], Fold(Made(n, k - 1)))
    BY <1>2, <1>3, <1>4, <1>7, <1>8, <2>1, ForthMade
  <2>3. \A i \in 1..k : i \in 1..(k - 1) \/ i = k
    BY <1>8
  <2> QED
    BY <2>1, <2>2, <2>3 DEF AllSound
<1>13. ~ HalfUndone(c) /\ UndoneAt(c)'
  BY <1>2, <1>4 DEF HalfUndone, UndoneAt
<1>14. files' = files /\ loose' = loose /\ Recorded' = Recorded /\ \A b : Untouched(b)
  BY <1>2, <1>6 DEF fileVars, Recorded, Untouched
<1>15. WorkAt'
  <2>1. /\ Steady(a)' => Steady(a)
        /\ Filled(a, n[2] - 1)' <=> Filled(a, n[2] - 1)
        /\ Made(n, k)' = Made(n, k) /\ (AllSound(n, k)' <=> AllSound(n, k))
    BY <1>4, <1>13, <1>14, SteadySame, SameFilled, SameOperations
  <2>2. /\ cmd'[c].op - 1 = k /\ cmd'[c].op > 1
    BY <1>4, <1>8
  <2>3. /\ Elsewhere(a, work'.tables, db'.tables)
        /\ a \notin loose' /\ Steady(a)' /\ Filled(a, n[2] - 1)' =>
              Agrees(a, work'.tables, Made(n, k)') /\ AllSound(n, k)'
    BY <1>6, <1>11, <1>12, <1>14, <2>1
  <2> QED
    BY <1>5, <1>6, <2>2, <2>3 DEF WorkAt
<1>16. PICK X : X = {}
  OBVIOUS
<1> QED
  BY <1>4, <1>13, <1>14, <1>15, <1>16, SchemaKept

LEMMA RecordSchema ==
    ASSUME TypeInv, SchemaInv, NEW c \in Commands, Record(c)
    PROVE  SchemaInv'
<1>1. PICK n, a, k : n = Doing(c) /\ a = Application(c) /\ k = Len(operations(n))
  OBVIOUS
<1>2. /\ cmd[c].pc = "apply" /\ Finished(c) /\ MayWrite(c) /\ ~ Contains(work.record, n)
      /\ Commit([work EXCEPT !.record = Append(@, n)])
      /\ NextMigration(c) /\ UNCHANGED fileVars
  BY <1>1 DEF Record
<1>3. /\ loose \subseteq loose'
      /\ a \notin loose' => ~ cmd[c].fake_this /\ ~ Gap(n, Recorded \cup {n}) /\ ~ UndoneByOthers(c, a)
  BY <1>1 DEF Record, LooseIf
<1>4. /\ n \in nodes /\ n \in Nodes /\ a \in Apps /\ a = n[1] /\ k \in Nat
      /\ cmd[c].op = k + 1 /\ FilesTyped
  <2>1. n \in nodes /\ n \in Nodes /\ a \in Apps /\ k \in Nat
    BY <1>1, <1>2, DoingTyped DEF TypeInv, CommandInv
  <2>2. IsCommand(c, cmd[c]) /\ cmd[c].op > k
    BY <1>1, <1>2 DEF TypeInv, CommandInv, Finished
  <2>3. cmd[c].op \in 1..(k + 1)
    BY <1>1, <1>2, <2>2 DEF IsCommand, Doing
  <2> QED
    BY <1>1, <2>1, <2>2, <2>3 DEF Application, TypeInv
<1>5. /\ n = <<a, n[2]>> /\ n[2] \in 1..Len(files[a]) /\ n[2] - 1 \in 0..Len(files[a]) /\ n[2] \in 0..Len(files[a])
      /\ n[2] \in 1..MaxFiles[a] /\ Len(files[a]) \in Nat /\ DOMAIN files[a] = 1..Len(files[a])
      /\ \A i \in 1..Len(files[a]) : i \in 1..MaxFiles[a]
      /\ Made(n, 0) = Upto(a, n[2] - 1) /\ Made(n, k) = Upto(a, n[2])
  <2>1. Len(files[a]) \in 0..MaxFiles[a] /\ MaxFiles[a] \in Nat
    BY <1>4, AppAssumption DEF FilesTyped
  <2>2. /\ n = <<a, n[2]>> /\ n[2] \in 1..Len(files[a]) /\ n[2] - 1 \in 0..Len(files[a]) /\ n[2] \in 0..Len(files[a])
        /\ Made(n, 0) = Upto(a, n[2] - 1) /\ Made(n, k) = Upto(a, n[2])
    BY <1>1, <1>4, MadeSteps
  <2>3. DOMAIN files[a] = 1..Len(files[a])
    BY <1>4, NodeFiles
  <2>4. n[2] \in 1..MaxFiles[a]
    BY <1>4, NodeParts
  <2> QED
    BY <2>1, <2>2, <2>3, <2>4
<1>6. cmd'[c].pc # "undo" /\ \A d \in Commands : d # c => cmd'[d] = cmd[d]
  BY <1>2, NextTyped DEF fileVars
<1>7. n \notin Recorded
  <2>1. work.record = db.record /\ db.record \in Seq(Nodes)
    BY DEF TypeInv, DatabaseInv, IsDatabase
  <2>2. DOMAIN db.record = 1..Len(db.record)
    BY <2>1, LenProperties
  <2> QED
    BY <1>2, <2>1, <2>2 DEF Recorded, ToSet, Contains
<1>8. ~ HalfUndone(c) /\ UndoneAt(c)'
  BY <1>2, <1>6 DEF HalfUndone, UndoneAt
<1>9. lock' = NoCommand /\ db'.tables = work.tables /\ \A m : m \in Recorded' <=> m \in Recorded \/ m = n
  <2>1. IsDatabase(work) /\ work.record = db.record
    BY DEF TypeInv, DatabaseInv
  <2>2. lock' = NoCommand /\ db' = [work EXCEPT !.record = Append(@, n)]
    BY <1>2 DEF Commit
  <2> QED
    BY <1>4, <2>1, <2>2, AppendRecord DEF Recorded
<1>10. lock = c \/ (lock = NoCommand /\ work = db)
  BY <1>2 DEF MayWrite, TypeInv, DatabaseInv
<1>11. lock = c => /\ k > 0 /\ Elsewhere(a, work.tables, db.tables)
                   /\ a \notin loose /\ Steady(a) /\ Filled(a, n[2] - 1) =>
                         Agrees(a, work.tables, Made(n, k)) /\ AllSound(n, k)
  <2> SUFFICES ASSUME lock = c
               PROVE  /\ k > 0 /\ Elsewhere(a, work.tables, db.tables)
                      /\ a \notin loose /\ Steady(a) /\ Filled(a, n[2] - 1) =>
                            Agrees(a, work.tables, Made(n, k)) /\ AllSound(n, k)
    OBVIOUS
  <2>1. c # NoCommand
    BY CommandAssumption
  <2>2. cmd[c].op > 1 => k > 0
    BY <1>4
  <2>3. cmd[c].op - 1 = k
    BY <1>4
  <2> QED
    BY <1>1, <2>1, <2>2, <2>3 DEF SchemaInv, WorkAt
<1>12. ASSUME NEW b \in Apps, b # a PROVE Untouched(b)
  <2>1. \A i : <<b, i>> # n
    BY <1>5, <1>12
  <2>2. \A t \in Owned(b) : At(work.tables, t) = At(db.tables, t)
    <3>1. CASE lock = c
      <4>1. \A t \in Owned(b) : t \notin Owned(a)
        BY <1>4, <1>12, TablesAssumption
      <4> QED
        BY <1>11, <3>1, <4>1 DEF Elsewhere
    <3> QED
      BY <1>10, <3>1
  <2> QED
    BY <1>9, <2>1, <2>2 DEF Untouched
<1>13. ASSUME a \notin loose'
       PROVE  /\ \A d \in Commands : d # c => ~ (HalfUndone(d) /\ Application(d) = a)
              /\ AllSound(n, k)
              /\ \E p \in 0..Len(files[a]) :
                    /\ \A i \in 1..Len(files[a]) :
                          IF <<a, i>> \in Recorded' THEN i <= p ELSE i <= p => operations(<<a, i>>) = <<>>
                    /\ Agrees(a, work.tables, Upto(a, p))
  <2>1. a \notin loose /\ ~ cmd[c].fake_this /\ ~ Gap(n, Recorded \cup {n}) /\ ~ UndoneByOthers(c, a)
    BY <1>3, <1>13
  <2>2. \A d \in Commands : d # c => ~ (HalfUndone(d) /\ Application(d) = a)
    BY <2>1 DEF UndoneByOthers
  <2>3. Steady(a)
    BY <1>8, <2>2 DEF Steady
  <2>4. PICK m \in 0..Len(files[a]) : Filled(a, m) /\ Agrees(a, db.tables, Upto(a, m))
    BY <1>4, <2>1, <2>3 DEF SchemaInv, SteadyAt
  <2>5. \A i \in 1..Len(files[a]) : i < n[2] => <<a, i>> \in Recorded
    <3> SUFFICES ASSUME NEW i \in 1..Len(files[a]), i < n[2], <<a, i>> \notin Recorded PROVE FALSE
      OBVIOUS
    <3>1. <<a, i>> # n /\ i \in 1..MaxFiles[a]
      BY <1>5
    <3> QED
      BY <1>4, <1>5, <2>1, <3>1 DEF Gap
  <2>6. \A i \in 1..Len(files[a]) : IF <<a, i>> \in Recorded THEN i <= m ELSE i <= m => operations(<<a, i>>) = <<>>
    BY <1>5, <2>4 DEF Filled
  <2>7. k > 0 => n[2] > m
    <3> SUFFICES ASSUME k > 0, n[2] <= m PROVE FALSE
      BY <1>5
    <3>1. operations(n) = <<>>
      BY <1>5, <1>7, <2>6
    <3> QED
      BY <1>1, <3>1
  <2>8. lock = NoCommand => k = 0
    <3>1. lock = NoCommand => cmd[c].op = 1
      BY <1>2, <2>1, CommandAssumption DEF TypeInv, LockInv
    <3> QED
      BY <1>4, <3>1
  <2>9. CASE n[2] > m
    <3>1. Filled(a, n[2] - 1)
      <4>1. \A i \in 1..Len(files[a]) : (i <= m => i <= n[2] - 1) /\ (i <= n[2] - 1 => i < n[2])
        BY <1>5, <2>4, <2>9
      <4> QED
        BY <1>5, <2>5, <2>6, <4>1 DEF Filled
    <3>2. Agrees(a, work.tables, Made(n, k)) /\ AllSound(n, k)
      <4>1. CASE lock = c
        BY <1>11, <2>1, <2>3, <3>1, <4>1
      <4>2. CASE lock = NoCommand /\ work = db
        <5>1. k = 0
          BY <2>8, <4>2
        <5>2. Agrees(a, db.tables, Upto(a, n[2] - 1))
          BY <1>4, <1>5, <2>1, <2>3, <3>1, SteadyFilled
        <5>3. AllSound(n, 0)
          BY DEF AllSound
        <5> QED
          BY <1>5, <4>2, <5>1, <5>2, <5>3
      <4> QED
        BY <1>10, <4>1, <4>2
    <3>3. \A i \in 1..Len(files[a]) :
             IF <<a, i>> \in Recorded' THEN i <= n[2] ELSE i <= n[2] => operations(<<a, i>>) = <<>>
      <4> SUFFICES ASSUME NEW i \in 1..Len(files[a])
                   PROVE  IF <<a, i>> \in Recorded' THEN i <= n[2] ELSE i <= n[2] => operations(<<a, i>>) = <<>>
        OBVIOUS
      <4>1. CASE i < n[2]
        BY <1>5, <1>9, <2>5, <4>1
      <4>2. CASE i = n[2]
        BY <1>5, <1>9, <4>2
      <4>3. CASE i > n[2]
        <5>1. <<a, i>> # n /\ ~ i <= m /\ ~ i <= n[2]
          BY <1>5, <2>4, <2>9, <4>3
        <5> QED
          BY <1>9, <2>6, <5>1
      <4> QED
        BY <1>5, <4>1, <4>2, <4>3
    <3> QED
      BY <1>5, <2>2, <3>2, <3>3
  <2>10. CASE ~ n[2] > m
    <3>1. k = 0 /\ lock = NoCommand /\ work = db
      BY <1>4, <1>10, <1>11, <2>7, <2>10
    <3>2. operations(n) = <<>>
      <4>1. operations(n) \in Seq(Operations)
        BY <1>4, NodeFiles
      <4> QED
        BY <1>1, <3>1, <4>1, EmptySeq
    <3>3. AllSound(n, k)
      BY <3>1 DEF AllSound
    <3>4. \A i \in 1..Len(files[a]) :
             IF <<a, i>> \in Recorded' THEN i <= m ELSE i <= m => operations(<<a, i>>) = <<>>
      <4> SUFFICES ASSUME NEW i \in 1..Len(files[a])
                   PROVE  IF <<a, i>> \in Recorded' THEN i <= m ELSE i <= m => operations(<<a, i>>) = <<>>
        OBVIOUS
      <4>1. CASE <<a, i>> = n
        <5>1. i = n[2] /\ i <= m
          BY <1>5, <2>4, <2>10, <4>1
        <5> QED
          BY <1>9, <4>1, <5>1
      <4>2. CASE <<a, i>> # n
        BY <1>9, <2>6, <4>2
      <4> QED
        BY <4>1, <4>2
    <3> QED
      BY <2>2, <2>4, <3>1, <3>3, <3>4
  <2> QED
    BY <2>9, <2>10
<1>14. files' = files /\ \A m : operations(m)' = operations(m)
  BY <1>2, SameFiles DEF fileVars
<1>15. a \notin loose' => SteadyAt(a)'
  <2> SUFFICES ASSUME a \notin loose' PROVE SteadyAt(a)'
    OBVIOUS
  <2>1. PICK p \in 0..Len(files[a]) :
           /\ \A i \in 1..Len(files[a]) :
                 IF <<a, i>> \in Recorded' THEN i <= p ELSE i <= p => operations(<<a, i>>) = <<>>
           /\ Agrees(a, work.tables, Upto(a, p))
    BY <1>13
  <2>2. Filled(a, p)'
    BY <1>5, <1>14, <2>1 DEF Filled
  <2>3. Upto(a, p)' = Upto(a, p)
    BY <1>14, SameOperations
  <2>4. Agrees(a, db'.tables, Upto(a, p)')
    BY <1>9, <2>1, <2>3
  <2> QED
    BY <1>14, <2>2, <2>4 DEF SteadyAt
<1>16. SoundAt(n)'
  <2> SUFFICES ASSUME a \notin loose' PROVE AllSound(n, Len(operations(n)))'
    BY <1>4 DEF SoundAt
  <2>1. AllSound(n, k)'
    BY <1>13, <1>14, SameOperations
  <2>2. Len(operations(n))' = k
    BY <1>1, <1>14
  <2> QED
    BY <2>1, <2>2 DEF AllSound
<1>17. WorkAt'
  BY <1>9 DEF WorkAt
<1>18. PICK X : X = {a}
  OBVIOUS
<1>19. \A b \in Apps : b \notin X => b # a
  BY <1>18
<1>20. \A b \in Apps : b \notin loose' /\ b \in X =>
          /\ SteadyAt(b)'
          /\ \A d \in Commands : d # c /\ HalfUndone(d) /\ Application(d) = b => UndoneAt(d)'
  BY <1>13, <1>15, <1>18
<1>21. \A m \in Recorded' : m \in Recorded \/ SoundAt(m)'
  BY <1>9, <1>16
<1> QED
  BY <1>3, <1>6, <1>8, <1>12, <1>14, <1>17, <1>19, <1>20, <1>21, SchemaKept

LEMMA UndoOperationSchema ==
    ASSUME TypeInv, Acyclic, SchemaInv, NEW c \in Commands, UndoOperation(c)
    PROVE  SchemaInv'
<1>1. PICK n, a, k, s, N : n = Doing(c) /\ a = Application(c) /\ k = cmd[c].op /\ s = Back(c)
                           /\ N = Len(operations(n))
  OBVIOUS
<1>2. /\ cmd[c].pc = "undo" /\ k > 0 /\ lock = NoCommand
      /\ ~ Raises(s, db.tables) /\ Commit(Execute(s, n, db))
      /\ Set(c, [cmd[c] EXCEPT !.op = @ - 1]) /\ UNCHANGED <<fileVars, unordered>>
  BY <1>1 DEF UndoOperation
<1>3. /\ loose \subseteq loose'
      /\ a \notin loose' => /\ Retraceable(operations(n)) /\ n \in Recorded /\ ~ Gap(n, Recorded \ {n})
                            /\ ~ UndoneByOthers(c, a)
  BY <1>1 DEF UndoOperation, LooseIf
<1>4. n \in nodes /\ n \in Nodes /\ a = n[1] /\ a \in Apps /\ N \in Nat /\ FilesTyped /\ FilesOwn
  BY <1>1, <1>2, DoingTyped DEF TypeInv, CommandInv, Application, SchemaInv
<1>5. /\ cmd'[c].pc = "undo" /\ cmd'[c].todo = cmd[c].todo /\ cmd'[c].op = k - 1 /\ k \in 1..N
      /\ \A d \in Commands : d # c => cmd'[d] = cmd[d]
  BY <1>1, <1>2, OperationBackTyped DEF fileVars
<1>6. Doing(c)' = n /\ Application(c)' = a
  BY <1>1, <1>5 DEF Doing, Application
<1>7. lock' = NoCommand /\ Recorded' = Recorded /\ db'.tables = Effect(s, db.tables)
  <2>1. IsDatabase(db)
    BY DEF TypeInv, DatabaseInv
  <2>2. Execute(s, n, db).tables = Effect(s, db.tables) /\ SameRecord(Execute(s, n, db), db)
    BY <1>4, <2>1, ExecuteTyped
  <2>3. lock' = NoCommand /\ db' = Execute(s, n, db)
    BY <1>2 DEF Commit
  <2> QED
    BY <2>2, <2>3 DEF SameRecord, Recorded
<1>8. s = reverse_statements(operations(n)[k], Fold(Before(n)), Fold(Before(n) \o operations(n)))
  BY <1>1 DEF Back, Operation
<1>9. /\ n = <<a, n[2]>> /\ n[2] \in 1..Len(files[a]) /\ n[2] \in 0..Len(files[a])
      /\ n[2] \in 1..MaxFiles[a] /\ Len(files[a]) \in Nat /\ DOMAIN files[a] = 1..Len(files[a])
      /\ \A i \in 1..Len(files[a]) : i \in 1..MaxFiles[a]
      /\ Made(n, N) = Upto(a, n[2])
      /\ operations(n)[k] \in Operations /\ IsOwn(a, operations(n)[k])
  <2>1. Len(files[a]) \in 0..MaxFiles[a] /\ MaxFiles[a] \in Nat
    BY <1>4, AppAssumption DEF FilesTyped
  <2>2. DOMAIN operations(n) = 1..N
    BY <1>1, <1>4, NodeFiles, LenProperties
  <2>3. IsOwn(a, operations(n)[k])
    BY <1>4, <1>5, <2>2 DEF FilesOwn, OwnList
  <2>4. operations(n)[k] \in Operations
    BY <1>1, <1>4, <1>5, MadeSteps
  <2>5. Made(n, N) = Upto(a, n[2])
    BY <1>1, <1>4, MadeSteps
  <2>6. n = <<a, n[2]>> /\ n[2] \in 1..Len(files[a]) /\ n[2] \in 1..MaxFiles[a]
    <3>1. n = <<a, n[2]>> /\ n[2] \in 1..Len(files[a])
      BY <1>4, MadeSteps
    <3>2. n[2] \in 1..MaxFiles[a]
      BY <1>4, NodeParts
    <3> QED
      BY <3>1, <3>2
  <2>7. DOMAIN files[a] = 1..Len(files[a])
    BY <1>4, UptoSteps
  <2>8. /\ n[2] \in 0..Len(files[a]) /\ Len(files[a]) \in Nat
        /\ \A i \in 1..Len(files[a]) : i \in 1..MaxFiles[a]
    BY <2>1, <2>6
  <2> QED
    BY <2>3, <2>4, <2>5, <2>6, <2>7, <2>8
<1>10. Elsewhere(a, Effect(s, db.tables), db.tables)
  BY <1>2, <1>8, <1>9, StatementElsewhere
<1>11. ASSUME NEW b \in Apps, b # a PROVE Untouched(b)
  <2>1. \A t \in Owned(b) : t \notin Owned(a)
    BY <1>4, <1>11, TablesAssumption
  <2> QED
    BY <1>7, <1>10, <2>1 DEF Untouched, Elsewhere
<1>12. files' = files /\ \A m : operations(m)' = operations(m)
  BY <1>2, SameFiles DEF fileVars
<1>13. HalfUndone(c)' /\ (HalfUndone(c) <=> k < N)
  <2>1. HalfUndone(c) <=> k < N
    BY <1>1, <1>2 DEF HalfUndone
  <2>2. Len(operations(Doing(c)))' = N
    BY <1>1, <1>6, <1>12
  <2>3. k - 1 < N
    BY <1>4, <1>5
  <2> QED
    BY <1>5, <2>1, <2>2, <2>3 DEF HalfUndone
<1>14. ASSUME a \notin loose'
       PROVE  /\ \A d \in Commands : d # c => ~ (HalfUndone(d) /\ Application(d) = a)
              /\ n \in Recorded /\ Filled(a, n[2]) /\ Retraceable(operations(n))
              /\ Agrees(a, Effect(s, db.tables), Made(n, k - 1))
  <2>1. /\ a \notin loose /\ Retraceable(operations(n)) /\ n \in Recorded /\ ~ Gap(n, Recorded \ {n})
        /\ ~ UndoneByOthers(c, a)
    BY <1>3, <1>14
  <2>2. \A d \in Commands : d # c => ~ (HalfUndone(d) /\ Application(d) = a)
    BY <2>1 DEF UndoneByOthers
  <2>3. Filled(a, n[2]) /\ Agrees(a, db.tables, Made(n, k))
    <3>1. CASE k < N
      <4>1. HalfUndone(c) /\ UndoneAt(c)
        BY <1>13, <3>1 DEF SchemaInv
      <4> QED
        BY <1>1, <2>1, <4>1 DEF UndoneAt
    <3>2. CASE k = N
      <4>1. Steady(a)
        <5>1. ~ HalfUndone(c)
          BY <1>4, <1>5, <1>13, <3>2
        <5> QED
          BY <2>2, <5>1 DEF Steady
      <4>2. PICK m \in 0..Len(files[a]) : Filled(a, m) /\ Agrees(a, db.tables, Upto(a, m))
        BY <1>4, <2>1, <4>1 DEF SchemaInv, SteadyAt
      <4>3. \A i \in 1..Len(files[a]) :
               IF <<a, i>> \in Recorded THEN i <= m ELSE i <= m => operations(<<a, i>>) = <<>>
        BY <1>9, <4>2 DEF Filled
      <4>4. n[2] <= m
        BY <1>9, <2>1, <4>3
      <4>5. \A i \in 1..Len(files[a]) : i > n[2] => <<a, i>> \notin Recorded
        <5> SUFFICES ASSUME NEW i \in 1..Len(files[a]), i > n[2], <<a, i>> \in Recorded PROVE FALSE
          OBVIOUS
        <5>1. <<a, i>> # n /\ i \in 1..MaxFiles[a]
          BY <1>9
        <5>2. <<a, i>> \in Recorded \ {n} /\ <<a, n[2]>> \notin Recorded \ {n}
          BY <1>9, <5>1
        <5> QED
          BY <1>4, <1>9, <2>1, <5>1, <5>2 DEF Gap
      <4>6. Filled(a, n[2])
        <5>1. \A i \in 1..Len(files[a]) : (i <= n[2] \/ i > n[2]) /\ (i <= n[2] => i <= m)
          BY <1>9, <4>2, <4>4
        <5> QED
          BY <1>9, <4>3, <4>5, <5>1 DEF Filled
      <4>7. Agrees(a, db.tables, Upto(a, n[2]))
        BY <1>4, <1>9, <2>1, <4>1, <4>6, SteadyFilled
      <4> QED
        BY <1>9, <3>2, <4>6, <4>7
    <3> QED
      BY <1>4, <1>5, <3>1, <3>2
  <2>4. Sound(operations(n)[k], Fold(Made(n, k - 1)))
    <3>1. SoundAt(n)
      BY <2>1 DEF SchemaInv
    <3> QED
      BY <1>1, <1>4, <1>5, <2>1, <3>1 DEF SoundAt, AllSound
  <2>5. Agrees(a, Effect(s, db.tables), Made(n, k - 1))
    BY <1>1, <1>2, <1>4, <1>5, <1>8, <2>1, <2>3, <2>4, BackMade
  <2> QED
    BY <2>1, <2>2, <2>3, <2>5
<1>15. UndoneAt(c)'
  <2> SUFFICES ASSUME a \notin loose' PROVE UndoneAt(c)'
    BY <1>6 DEF UndoneAt
  <2>1. n \in Recorded /\ Filled(a, n[2]) /\ Retraceable(operations(n)) /\ Agrees(a, db'.tables, Made(n, k - 1))
    BY <1>7, <1>14
  <2>2. Filled(a, n[2])'
    BY <1>7, <1>12, <2>1 DEF Filled
  <2>3. Made(n, k - 1)' = Made(n, k - 1)
    BY <1>12, SameOperations
  <2>4. Retraceable(operations(n)')
    BY <1>12, <2>1
  <2> QED
    BY <1>5, <1>6, <1>7, <2>1, <2>2, <2>3, <2>4 DEF UndoneAt
<1>16. a \notin loose' => SteadyAt(a)'
  BY <1>6, <1>13 DEF SteadyAt, Steady
<1>17. WorkAt'
  BY <1>7 DEF WorkAt
<1>18. PICK X : X = {a}
  OBVIOUS
<1>19. \A b \in Apps : b \notin X => Untouched(b)
  BY <1>11, <1>18
<1>20. \A b \in Apps : b \notin X => ~ (c \in Commands /\ HalfUndone(c) /\ Application(c) = b)
  BY <1>1, <1>18
<1>21. \A b \in Apps : b \notin loose' /\ b \in X =>
          /\ SteadyAt(b)'
          /\ \A d \in Commands : d # c /\ HalfUndone(d) /\ Application(d) = b => UndoneAt(d)'
  BY <1>14, <1>16, <1>18
<1> QED
  BY <1>3, <1>5, <1>7, <1>12, <1>15, <1>17, <1>19, <1>20, <1>21, SchemaKept

LEMMA UnrecordSchema ==
    ASSUME TypeInv, DataInv, SchemaInv, NEW c \in Commands, Unrecord(c)
    PROVE  SchemaInv'
<1>1. PICK n, a, N : n = Doing(c) /\ a = Application(c) /\ N = Len(operations(n))
  OBVIOUS
<1>2. /\ cmd[c].pc = "undo" /\ cmd[c].op = 0 /\ lock = NoCommand
      /\ Commit([db EXCEPT !.record = Only(@, Recorded \ {n})])
      /\ NextMigration(c) /\ UNCHANGED <<fileVars, loose>>
  BY <1>1 DEF Unrecord
<1>3. n \in nodes /\ n \in Nodes /\ a = n[1] /\ a \in Apps /\ N \in Nat /\ FilesTyped
  BY <1>1, <1>2, DoingTyped DEF TypeInv, CommandInv, Application
<1>4. /\ n = <<a, n[2]>> /\ n[2] \in 1..Len(files[a]) /\ n[2] - 1 \in 0..Len(files[a])
      /\ Len(files[a]) \in Nat /\ DOMAIN files[a] = 1..Len(files[a])
      /\ Made(n, 0) = Upto(a, n[2] - 1)
  BY <1>3, MadeSteps, UptoSteps
<1>5. cmd'[c].pc # "undo" /\ \A d \in Commands : d # c => cmd'[d] = cmd[d]
  BY <1>2, NextTyped DEF fileVars
<1>6. ~ HalfUndone(c)' /\ UndoneAt(c)' /\ (HalfUndone(c) <=> 0 < N)
  BY <1>1, <1>2, <1>5 DEF HalfUndone, UndoneAt
<1>7. lock' = NoCommand /\ db'.tables = db.tables /\ \A m : m \in Recorded' <=> m \in Recorded /\ m # n
  <2>1. IsDatabase(db)
    BY DEF TypeInv, DatabaseInv
  <2>2. lock' = NoCommand /\ db' = [db EXCEPT !.record = Only(@, Recorded \ {n})]
    BY <1>2 DEF Commit
  <2> DEFINE S == Recorded \ {n}
             e == [db EXCEPT !.record = Only(@, S)]
  <2>3. e.tables = db.tables /\ e.record = Only(db.record, S)
    BY <2>1, OnlyRecord
  <2>4. \A m : m \in ToSet(Only(db.record, S)) <=> m \in ToSet(db.record) /\ m \in S
    BY <2>1, OnlyRecord
  <2>5. db' = e
    BY <2>2
  <2> HIDE DEF e
  <2> QED
    BY <2>2, <2>3, <2>4, <2>5 DEF Recorded
<1>8. files' = files /\ \A m : operations(m)' = operations(m)
  BY <1>2, SameFiles DEF fileVars
<1>9. ASSUME NEW b \in Apps, b # a PROVE Untouched(b)
  <2>1. \A i : <<b, i>> # n
    BY <1>4, <1>9
  <2> QED
    BY <1>7, <2>1 DEF Untouched
<1>10. ASSUME N = 0, NEW q, Filled(a, q) PROVE Filled(a, q)'
  <2>1. operations(n) = <<>>
    BY <1>1, <1>3, <1>10, NodeFiles, EmptySeq
  <2>2. \A i \in 1..Len(files[a]) :
           IF <<a, i>> \in Recorded THEN i <= q ELSE i <= q => operations(<<a, i>>) = <<>>
    BY <1>4, <1>10 DEF Filled
  <2>3. \A i \in 1..Len(files[a]) :
           IF <<a, i>> \in Recorded' THEN i <= q ELSE i <= q => operations(<<a, i>>) = <<>>
    <3> SUFFICES ASSUME NEW i \in 1..Len(files[a])
                 PROVE  IF <<a, i>> \in Recorded' THEN i <= q ELSE i <= q => operations(<<a, i>>) = <<>>
      OBVIOUS
    <3>1. CASE <<a, i>> = n
      BY <1>7, <2>1, <3>1
    <3>2. CASE <<a, i>> # n
      BY <1>7, <2>2, <3>2
    <3> QED
      BY <3>1, <3>2
  <2> QED
    BY <1>4, <1>8, <2>3 DEF Filled
<1>11. ASSUME a \notin loose, 0 < N PROVE SteadyAt(a)'
  <2>1. Filled(a, n[2]) /\ Agrees(a, db.tables, Upto(a, n[2] - 1))
    BY <1>1, <1>2, <1>4, <1>6, <1>11 DEF SchemaInv, UndoneAt
  <2>2. \A i \in 1..Len(files[a]) :
           IF <<a, i>> \in Recorded THEN i <= n[2] ELSE i <= n[2] => operations(<<a, i>>) = <<>>
    BY <1>4, <2>1 DEF Filled
  <2>3. \A i \in 1..Len(files[a]) :
           IF <<a, i>> \in Recorded' THEN i <= n[2] - 1 ELSE i <= n[2] - 1 => operations(<<a, i>>) = <<>>
    <3> SUFFICES ASSUME NEW i \in 1..Len(files[a])
                 PROVE  IF <<a, i>> \in Recorded' THEN i <= n[2] - 1
                        ELSE i <= n[2] - 1 => operations(<<a, i>>) = <<>>
      OBVIOUS
    <3>1. CASE i = n[2]
      BY <1>4, <1>7, <3>1
    <3>2. CASE i # n[2]
      <4>1. <<a, i>> # n /\ (i <= n[2] <=> i <= n[2] - 1)
        BY <1>4, <3>2
      <4> QED
        BY <1>7, <2>2, <4>1
    <3> QED
      BY <3>1, <3>2
  <2>4. Filled(a, n[2] - 1)'
    BY <1>4, <1>8, <2>3 DEF Filled
  <2>5. PICK m : m = n[2] - 1
    OBVIOUS
  <2>6. m \in 0..Len(files[a]) /\ Filled(a, m)' /\ Agrees(a, db.tables, Upto(a, m))
    BY <1>4, <2>1, <2>4, <2>5
  <2>7. Upto(a, m)' = Upto(a, m)
    BY <1>8, SameOperations
  <2>8. Agrees(a, db'.tables, Upto(a, m)')
    BY <1>7, <2>6, <2>7
  <2> QED
    BY <1>8, <2>6, <2>8 DEF SteadyAt
<1>12. ASSUME a \notin loose, N = 0 PROVE SteadyAt(a)'
  <2> SUFFICES ASSUME Steady(a)' PROVE SteadyAt(a)'
    BY DEF SteadyAt
  <2>1. ~ HalfUndone(c)
    BY <1>6, <1>12
  <2>2. Steady(a)
    BY <1>5, <1>8, <2>1, SteadySame
  <2>3. PICK m \in 0..Len(files[a]) : Filled(a, m) /\ Agrees(a, db.tables, Upto(a, m))
    BY <1>3, <1>12, <2>2 DEF SchemaInv, SteadyAt
  <2>4. Filled(a, m)' /\ Upto(a, m)' = Upto(a, m)
    BY <1>8, <1>10, <1>12, <2>3, SameOperations
  <2>5. Agrees(a, db'.tables, Upto(a, m)')
    BY <1>7, <2>3, <2>4
  <2> QED
    BY <1>8, <2>3, <2>4, <2>5 DEF SteadyAt
<1>13. ASSUME a \notin loose, NEW d \in Commands, d # c, HalfUndone(d), Application(d) = a
       PROVE  UndoneAt(d)'
  <2>1. ~ 0 < N
    BY <1>1, <1>6, <1>13 DEF DataInv, Undoers
  <2>2. N = 0
    BY <1>3, <2>1
  <2>3. PICK m, k : m = Doing(d) /\ k = cmd[d].op
    OBVIOUS
  <2>4. k < Len(operations(m)) /\ k \in Nat
    BY <1>13, <2>3 DEF HalfUndone, TypeInv, CommandInv, IsCommand, CommandType
  <2>5. m # n
    <3>1. Len(operations(n)) = 0
      BY <1>1, <2>2
    <3>2. ~ k < 0
      BY <2>4
    <3> QED
      BY <2>4, <3>1, <3>2
  <2>6. m \in Recorded /\ Filled(a, m[2]) /\ Retraceable(operations(m)) /\ Agrees(a, db.tables, Made(m, k))
    BY <1>13, <2>3 DEF SchemaInv, UndoneAt
  <2>7. m \in Recorded' /\ Filled(a, m[2])'
    BY <1>7, <1>10, <2>2, <2>5, <2>6
  <2>8. PICK ops : ops = operations(m)
    OBVIOUS
  <2>9. operations(m)' = ops /\ Retraceable(ops)
    BY <1>8, <2>6, <2>8
  <2>10. Made(m, k)' = Made(m, k)
    BY <1>8, SameOperations
  <2>11. Agrees(a, db'.tables, Made(m, k)')
    BY <1>7, <2>6, <2>10
  <2>12. cmd'[d] = cmd[d]
    BY <1>5, <1>13
  <2>13. Doing(d)' = m /\ Application(d)' = a /\ cmd'[d].op = k
    <3>1. Doing(d)' = Doing(d) /\ Application(d)' = Application(d)
      BY <1>8, <2>12, SameCommand
    <3> QED
      BY <1>13, <2>3, <2>12, <3>1
  <2>14. Retraceable(operations(m)')
    BY <2>9
  <2> QED
    BY <2>7, <2>11, <2>13, <2>14 DEF UndoneAt
<1>14. a \notin loose => SteadyAt(a)'
  <2>1. 0 < N \/ N = 0
    BY <1>3
  <2> QED
    BY <1>11, <1>12, <2>1
<1>15. WorkAt'
  BY <1>7 DEF WorkAt
<1>16. PICK X : X = {a}
  OBVIOUS
<1>17. \A b \in Apps : b \notin X => Untouched(b) /\ ~ (c \in Commands /\ HalfUndone(c) /\ Application(c) = b)
  BY <1>1, <1>9, <1>16
<1>18. \A b \in Apps : b \notin loose' /\ b \in X =>
          /\ SteadyAt(b)'
          /\ \A d \in Commands : d # c /\ HalfUndone(d) /\ Application(d) = b => UndoneAt(d)'
  BY <1>2, <1>13, <1>14, <1>16
<1>19. \A m \in Recorded' : m \in Recorded \/ SoundAt(m)'
  BY <1>7
<1> QED
  BY <1>2, <1>5, <1>6, <1>8, <1>15, <1>17, <1>18, <1>19, SchemaKept

\* The detected operations are on the tables that are declared or were made.
LEMMA DetectedOwn ==
    ASSUME FilesTyped, FilesOwn, NEW a \in Apps, declared[a] \in Declarations[a]
    PROVE  OwnList(a, Detected(a))
<1>1. PICK d, h : d = specs(a) /\ h = app_state(a)
  OBVIOUS
<1>2. d \in States /\ h \in States /\ Detected(a) \in Seq(Operations)
  BY <1>1, DetectedTyped
<1>3. DOMAIN d \subseteq Owned(a) /\ \A t \in DOMAIN d : d[t].pk \in Keys(a)
  <2>1. DOMAIN d = DOMAIN declared[a] /\ DOMAIN declared[a] \subseteq Owned(a)
    BY <1>1 DEF specs, Owned
  <2>2. ASSUME NEW t \in DOMAIN d PROVE d[t].pk \in Keys(a)
    <3>1. d[t] = table_state_from_dataclass(declared[a][t])
      BY <1>1, <2>1, <2>2 DEF specs
    <3>2. declared[a][t] \in Range(declared[a])
      BY <2>1, <2>2 DEF Range
    <3> QED
      BY <3>1, <3>2 DEF Keys
  <2> QED
    BY <2>1, <2>2
<1>4. DOMAIN h \subseteq Owned(a)
  <2>1. Len(files[a]) \in 0..Len(files[a]) /\ h = Fold(Upto(a, Len(files[a])))
    BY <1>1, UptoSteps DEF app_state
  <2> QED
    BY <2>1, UptoOwn DEF Keyed
<1>5. Detected(a) = detect_changes_for_app(d, h)
  BY <1>1 DEF Detected
<1>6. ASSUME NEW e \in ToSet(Detected(a)) PROVE IsOwn(a, e)
  <2>1. \/ \E t \in DOMAIN d \ DOMAIN h : e = CreateTable(t, d[t])
        \/ \E t \in DOMAIN d \cap DOMAIN h : e \in ToSet(detect_fields(t, d[t], h[t]))
        \/ \E t \in DOMAIN h \ DOMAIN d : e = DeleteTable(t)
    BY <1>2, <1>5, <1>6, ChangesDetected
  <2>2. ASSUME NEW t \in DOMAIN d, e = CreateTable(t, d[t]) PROVE IsOwn(a, e)
    <3>1. e.kind = "CreateTable" /\ e.table = t /\ e.spec = d[t]
      BY <2>2 DEF CreateTable
    <3> QED
      BY <1>3, <3>1 DEF IsOwn
  <2>3. ASSUME NEW t \in DOMAIN d \cap DOMAIN h, e \in ToSet(detect_fields(t, d[t], h[t])) PROVE IsOwn(a, e)
    <3>1. d[t] \in Specs /\ h[t] \in Specs /\ t \in Tables
      BY <1>2, <2>3 DEF States
    <3>2. e.table = t /\ e.kind \notin {"CreateTable", "RenameField"}
      <4>1. \/ \E c, p : e = AlterField(t, c, p) \/ e = AddField(t, c, p)
            \/ \E c : e = RemoveField(t, c)
        BY <2>3, <3>1, FieldsDetected
      <4> QED
        BY <4>1 DEF AlterField, AddField, RemoveField
    <3> QED
      BY <1>3, <2>3, <3>2 DEF IsOwn
  <2>4. ASSUME NEW t \in DOMAIN h, e = DeleteTable(t) PROVE IsOwn(a, e)
    <3>1. e.kind = "DeleteTable" /\ e.table = t
      BY <2>4 DEF DeleteTable
    <3> QED
      BY <1>4, <3>1 DEF IsOwn
  <2> QED
    BY <2>1, <2>2, <2>3, <2>4
<1> QED
  BY <1>2, <1>6 DEF OwnList, ToSet

\* The new migrations are on tables of their applications and follow the ones before.
GrowsOwn ==
    \A a \in Apps : files'[a] # files[a] =>
        \E f \in FileType : /\ files'[a] = Append(files[a], f) /\ OwnList(a, f.operations)
                            /\ ToSet(Chain(a)) \subseteq ToSet(f.dependencies)

LEMMA MakeOwn ==
    ASSUME TypeInv, FilesOwn, NEW labels \in SUBSET Apps, makemigrations(labels)
    PROVE  GrowsOwn
<1>1. files' = [a \in Apps |-> IF a \in labels /\ Detected(a) # <<>>
                               THEN WithFile(a, Detected(a), Chain(a)) ELSE files[a]]
  BY DEF makemigrations
<1> SUFFICES ASSUME NEW a \in Apps, files'[a] # files[a]
             PROVE  \E f \in FileType : /\ files'[a] = Append(files[a], f) /\ OwnList(a, f.operations)
                                        /\ ToSet(Chain(a)) \subseteq ToSet(f.dependencies)
  BY DEF GrowsOwn
<1> DEFINE f == [dependencies |-> Chain(a), operations |-> Detected(a)]
<1>2. files'[a] = Append(files[a], f)
  BY <1>1 DEF WithFile
<1>3. Detected(a) \in Seq(Operations) /\ OwnList(a, Detected(a))
  BY DetectedTyped, DetectedOwn DEF TypeInv, DeclaredTyped
<1>4. Chain(a) \in Seq(Nodes)
  BY ChainTyped DEF TypeInv
<1>5. f \in FileType /\ f.operations = Detected(a) /\ f.dependencies = Chain(a)
  BY <1>3, <1>4 DEF FileType
<1> HIDE DEF f
<1> QED
  BY <1>2, <1>3, <1>5

LEMMA WriteOwn ==
    ASSUME TypeInv, NEW a \in Apps, NEW ops \in Handwritten[a], NEW others \in Links(a),
           WriteByHand(a, ops, others)
    PROVE  GrowsOwn
<1> DEFINE f == [dependencies |-> Chain(a) \o others, operations |-> ops]
<1>1. files' = [files EXCEPT ![a] = Append(files[a], f)]
  BY DEF WriteByHand, WithFile
<1>2. others \in Seq(Nodes)
  <2>1. CASE others = <<>>
    BY <2>1, EmptySeq
  <2>2. CASE others # <<>>
    <3>1. PICK b \in Apps : others = Chain(b)
      BY <2>2 DEF Links
    <3> QED
      BY <3>1, ChainTyped DEF TypeInv
  <2> QED
    BY <2>1, <2>2
<1>3. Chain(a) \in Seq(Nodes)
  BY ChainTyped DEF TypeInv
<1>4. Chain(a) \o others \in Seq(Nodes) /\ ToSet(Chain(a)) \subseteq ToSet(Chain(a) \o others)
  BY <1>2, <1>3, ConcatProperties, ConcatElements
<1>5. ops \in Seq(Operations)
  BY DeveloperAssumption
<1>6. f \in FileType /\ f.dependencies = Chain(a) \o others /\ f.operations = ops
  BY <1>4, <1>5 DEF FileType
<1>7. OwnList(a, ops)
  BY OwnAssumption DEF OwnList, ToSet
<1>8. files = [b \in Apps |-> files[b]]
  BY DEF TypeInv, FilesTyped
<1> HIDE DEF f
<1>9. files'[a] = Append(files[a], f) /\ \A b \in Apps : b # a => files'[b] = files[b]
  BY <1>1, <1>8
<1> QED
  BY <1>4, <1>6, <1>7, <1>9 DEF GrowsOwn

LEMMA GrowthOwn ==
    ASSUME FilesTyped, FilesOwn, Grows, GrowsOwn
    PROVE  FilesOwn'
<1>1. /\ FilesTyped' /\ nodes \subseteq nodes'
      /\ \A n \in nodes : operations(n)' = operations(n) /\ dependencies(n)' = dependencies(n)
  BY FilesGrow
<1> SUFFICES ASSUME NEW n \in nodes'
             PROVE  /\ OwnList(n[1], operations(n)')
                    /\ n[2] > 1 => <<n[1], n[2] - 1>> \in ToSet(dependencies(n)')
  BY DEF FilesOwn
<1>2. CASE n \in nodes
  BY <1>1, <1>2 DEF FilesOwn
<1>3. CASE n \notin nodes
  <2>1. n \in Nodes /\ n[2] \in DOMAIN files'[n[1]]
    BY DEF nodes, Exists
  <2>2. PICK a : a = n[1]
    OBVIOUS
  <2>3. a \in Apps /\ n = <<a, n[2]>> /\ n[2] \in Nat
    BY <2>1, <2>2, NodeParts
  <2>4. n[2] \notin DOMAIN files[a]
    BY <1>3, <2>1, <2>2 DEF nodes, Exists
  <2>5. files'[a] # files[a]
    BY <2>1, <2>2, <2>4
  <2>6. PICK f \in FileType : /\ files'[a] = Append(files[a], f) /\ OwnList(a, f.operations)
                              /\ ToSet(Chain(a)) \subseteq ToSet(f.dependencies)
    BY <2>3, <2>5 DEF GrowsOwn
  <2>7. files[a] \in Seq(FileType) /\ Len(files[a]) \in Nat /\ DOMAIN files[a] = 1..Len(files[a])
    BY <2>3, NodeFiles DEF FileType
  <2>8. DOMAIN files'[a] = 1..(Len(files[a]) + 1) /\ files'[a][Len(files[a]) + 1] = f
    BY <2>6, <2>7, AppendProperties, LenProperties
  <2>9. n[2] = Len(files[a]) + 1
    BY <2>1, <2>2, <2>4, <2>7, <2>8
  <2>10. operations(n)' = f.operations /\ dependencies(n)' = f.dependencies
    BY <2>2, <2>8, <2>9 DEF operations, dependencies
  <2>11. n[2] > 1 => <<a, n[2] - 1>> \in ToSet(f.dependencies)
    <3> SUFFICES ASSUME n[2] > 1 PROVE <<a, n[2] - 1>> \in ToSet(Chain(a))
      BY <2>6
    <3>1. Len(files[a]) > 0 /\ n[2] - 1 = Len(files[a])
      BY <2>7, <2>9
    <3>2. files[a] # <<>>
      BY <3>1, EmptySeq
    <3>3. Chain(a) = <<<<a, Len(files[a])>>>>
      BY <3>2 DEF Chain
    <3>4. 1 \in DOMAIN Chain(a) /\ Chain(a)[1] = <<a, n[2] - 1>>
      BY <3>1, <3>3
    <3> QED
      BY <3>4 DEF ToSet
  <2> QED
    BY <2>2, <2>6, <2>10, <2>11
<1> QED
  BY <1>2, <1>3

LEMMA BeginningIs ==
    ASSUME NEW T, NEW s \in Seq(T), NEW m \in 0..Len(s), NEW a, \A i \in 1..m : s[i] = <<a, i>>
    PROVE  SubSeq(s, 1, m) = [i \in 1..m |-> <<a, i>>]
<1> DEFINE r == SubSeq(s, 1, m)
<1>1. r \in Seq(T) /\ DOMAIN r = 1..m /\ \A i \in 1..m : r[i] = s[i]
  BY Beginnings
<1> HIDE DEF r
<1>2. r = [i \in DOMAIN r |-> r[i]]
  BY <1>1
<1>3. r = [i \in 1..m |-> <<a, i>>]
  BY <1>1, <1>2
<1> QED
  BY <1>3 DEF r

\* What the existing migrations make does not change when files are added.
LEMMA GrowthSame ==
    ASSUME FilesTyped, Grows, NEW a \in Apps
    PROVE  /\ Len(files[a]) \in Nat /\ Len(files'[a]) \in Nat /\ Len(files[a]) <= Len(files'[a])
           /\ DOMAIN files[a] = 1..Len(files[a]) /\ DOMAIN files'[a] = 1..Len(files'[a])
           /\ \A m \in 0..Len(files[a]) : Upto(a, m)' = Upto(a, m)
<1>1. /\ FilesTyped' /\ \A n \in nodes : operations(n)' = operations(n)
  BY FilesGrow
<1>2. /\ Len(files[a]) \in Nat /\ DOMAIN files[a] = 1..Len(files[a])
      /\ \A i \in 1..Len(files[a]) : <<a, i>> \in nodes
  BY NodeFiles
<1>3. Len(files'[a]) \in Nat /\ DOMAIN files'[a] = 1..Len(files'[a])
  <2>1. files'[a] \in Seq([dependencies : Seq(Nodes), operations : Seq(Operations)])
    BY <1>1 DEF FilesTyped
  <2> QED
    BY <2>1, LenProperties
<1>4. Len(files[a]) <= Len(files'[a])
  <2>1. CASE files'[a] = files[a]
    BY <1>2, <2>1
  <2>2. CASE files'[a] # files[a]
    <3>1. PICK f \in FileType : files'[a] = Append(files[a], f)
      BY <2>2 DEF Grows
    <3>2. files[a] \in Seq(FileType)
      BY NodeFiles DEF FileType
    <3>3. Len(files'[a]) = Len(files[a]) + 1
      BY <3>1, <3>2, AppendProperties
    <3> QED
      BY <1>2, <3>3
  <2> QED
    BY <2>1, <2>2
<1>5. ASSUME NEW m \in 0..Len(files[a]) PROVE Upto(a, m)' = Upto(a, m)
  <2>1. PICK p, q : p = by_app(a) /\ q = by_app(a)'
    OBVIOUS
  <2>2. p = [i \in 1..Len(files[a]) |-> <<a, i>>] /\ q = [i \in 1..Len(files'[a]) |-> <<a, i>>]
    BY <1>2, <1>3, <2>1 DEF by_app
  <2>3. m \in Nat /\ m \in 0..Len(files'[a]) /\ \A i \in 1..m : i \in 1..Len(files[a]) /\ i \in 1..Len(files'[a])
    BY <1>2, <1>3, <1>4
  <2>4. PICK s : s = [i \in 1..m |-> <<a, i>>]
    OBVIOUS
  <2>5. SubSeq(p, 1, m) = s /\ SubSeq(q, 1, m) = s
    <3>1. \A i \in 1..m : p[i] = <<a, i>> /\ q[i] = <<a, i>>
      BY <2>2, <2>3
    <3>2. p \in [1..Len(files[a]) -> {a} \X Nat] /\ q \in [1..Len(files'[a]) -> {a} \X Nat]
      BY <1>2, <1>3, <2>2
    <3>3. p \in Seq({a} \X Nat) /\ Len(p) = Len(files[a]) /\ q \in Seq({a} \X Nat) /\ Len(q) = Len(files'[a])
      BY <1>2, <1>3, <3>2, SequenceOf
    <3>4. m \in 0..Len(p) /\ m \in 0..Len(q)
      BY <2>3, <3>3
    <3>5. SubSeq(p, 1, m) = [i \in 1..m |-> <<a, i>>]
      BY <3>1, <3>3, <3>4, BeginningIs
    <3>6. SubSeq(q, 1, m) = [i \in 1..m |-> <<a, i>>]
      BY <3>1, <3>3, <3>4, BeginningIs
    <3> QED
      BY <2>4, <3>5, <3>6
  <2>6. AllOperations(s)' = AllOperations(s)
    <3>1. DOMAIN s = 1..m /\ \A i \in 1..m : s[i] \in nodes
      BY <1>2, <2>3, <2>4
    <3>2. [i \in DOMAIN s |-> operations(s[i])'] = [i \in DOMAIN s |-> operations(s[i])]
      BY <1>1, <3>1
    <3> QED
      BY <3>2 DEF AllOperations
  <2> QED
    BY <2>1, <2>5, <2>6 DEF Upto
<1> QED
  BY <1>2, <1>3, <1>4, <1>5

LEMMA FilesSchema ==
    ASSUME TypeInv, SchemaInv, Quiet, Grows, GrowsOwn,
           UNCHANGED <<declared, db, work, lock, cmd, loose, unordered>>
    PROVE  SchemaInv'
<1>1. /\ nodes \subseteq nodes' /\ FilesTyped
      /\ \A n \in nodes : operations(n)' = operations(n)
  BY FilesGrow DEF TypeInv
<1>2. Idle.pc = "idle" /\ \A c \in Commands : cmd[c] = Idle /\ cmd'[c] = Idle
  BY DEF Quiet, Idle
<1>3. \A c \in Commands : ~ HalfUndone(c) /\ ~ HalfUndone(c)'
  BY <1>2 DEF HalfUndone
<1>4. Recorded' = Recorded /\ Recorded \subseteq nodes
  BY DEF Recorded, TypeInv, DatabaseInv, IsDatabase
<1>5. lock = NoCommand
  BY <1>2 DEF TypeInv, LockInv
<1>6. FilesOwn'
  BY <1>1, GrowthOwn DEF SchemaInv
<1>7. ASSUME NEW a \in Apps PROVE SteadyAt(a)'
  <2> SUFFICES ASSUME a \notin loose PROVE SteadyAt(a)'
    BY DEF SteadyAt
  <2>1. Steady(a)
    BY <1>3 DEF Steady
  <2>2. PICK m \in 0..Len(files[a]) : Filled(a, m) /\ Agrees(a, db.tables, Upto(a, m))
    BY <2>1 DEF SchemaInv, SteadyAt
  <2>3. /\ Len(files[a]) \in Nat /\ Len(files'[a]) \in Nat /\ Len(files[a]) <= Len(files'[a])
        /\ DOMAIN files[a] = 1..Len(files[a]) /\ DOMAIN files'[a] = 1..Len(files'[a])
        /\ Upto(a, m)' = Upto(a, m)
    BY <1>1, <2>2, GrowthSame
  <2>4. ASSUME NEW i \in DOMAIN files'[a]
        PROVE  IF <<a, i>> \in Recorded THEN i <= m ELSE i <= m => operations(<<a, i>>)' = <<>>
    <3>1. CASE i \in 1..Len(files[a])
      <4>1. <<a, i>> \in nodes
        BY <1>1, <3>1, UptoSteps
      <4>2. operations(<<a, i>>)' = operations(<<a, i>>)
        BY <1>1, <4>1
      <4> QED
        BY <2>2, <2>3, <3>1, <4>2 DEF Filled
    <3>2. CASE i \notin 1..Len(files[a])
      <4>1. ~ i <= m
        BY <2>3, <2>4, <3>2
      <4>2. <<a, i>> \notin nodes
        BY <2>3, <3>2 DEF nodes, Exists
      <4> QED
        BY <1>4, <4>1, <4>2
    <3> QED
      BY <3>1, <3>2
  <2>5. Filled(a, m)'
    BY <1>4, <2>4 DEF Filled
  <2>6. m \in 0..Len(files'[a]) /\ Agrees(a, db'.tables, Upto(a, m)')
    BY <2>2, <2>3
  <2> QED
    BY <2>5, <2>6 DEF SteadyAt
<1>8. \A c \in Commands : UndoneAt(c)'
  BY <1>3 DEF UndoneAt
<1>9. ASSUME NEW n \in Recorded PROVE SoundAt(n)'
  <2>1. n \in nodes /\ SoundAt(n)
    BY <1>4 DEF SchemaInv
  <2>2. n[1] \in Apps /\ n[2] - 1 \in 0..Len(files[n[1]])
    BY <1>1, <2>1, MadeSteps
  <2>3. Upto(n[1], n[2] - 1)' = Upto(n[1], n[2] - 1)
    BY <1>1, <2>2, GrowthSame
  <2>4. operations(n)' = operations(n)
    BY <1>1, <2>1
  <2>5. \A k : Made(n, k)' = Made(n, k)
    BY <2>3, <2>4 DEF Made
  <2>6. SoundAt(n)' <=> SoundAt(n)
    BY <2>4, <2>5 DEF SoundAt, AllSound
  <2> QED
    BY <2>1, <2>6
<1>10. WorkAt'
  BY <1>5 DEF WorkAt
<1> QED
  BY <1>4, <1>6, <1>7, <1>8, <1>9, <1>10 DEF SchemaInv

LEMMA FoldNothing == Fold(<<>>) = NoTables
<1>1. <<>> \in Seq(Operations) /\ Len(<<>>) = 0
  BY EmptySeq
<1>2. PICK f : Course(<<>>, f)
  BY <1>1, FoldSteps
<1> QED
  BY <1>1, <1>2 DEF Course

LEMMA SchemaInit == Init => SchemaInv
<1> SUFFICES ASSUME Init PROVE SchemaInv
  OBVIOUS
<1>1. TypeInv /\ lock = NoCommand /\ FilesTyped
  BY TypeInit DEF Init, TypeInv
<1>2. \A a \in Apps : files[a] = <<>>
  BY DEF Init
<1>3. nodes = {}
  BY <1>2, NodeParts, EmptySeq DEF nodes, Exists
<1>4. Recorded = {}
  BY <1>1, <1>3 DEF TypeInv, DatabaseInv, IsDatabase, Recorded
<1>5. \A c \in Commands : ~ HalfUndone(c)
  BY DEF Init, HalfUndone, Idle
<1>6. ASSUME NEW a \in Apps PROVE SteadyAt(a)
  <2>1. Len(files[a]) = 0 /\ DOMAIN files[a] = {} /\ 0 \in 0..Len(files[a])
    BY <1>2, EmptySeq
  <2>2. Filled(a, 0)
    BY <2>1 DEF Filled
  <2>3. Upto(a, 0) = <<>>
    BY <1>1, UptoSteps
  <2>4. DOMAIN db.tables = {}
    BY DEF Init
  <2>5. DOMAIN Fold(<<>>) = {}
    BY FoldNothing DEF NoTables
  <2>6. DOMAIN Ddl(Fold(<<>>)) = {}
    BY <2>5 DEF Ddl
  <2>7. Agrees(a, db.tables, Upto(a, 0))
    BY <2>3, <2>4, <2>6 DEF Agrees, At
  <2> QED
    BY <2>1, <2>2, <2>7 DEF SteadyAt
<1>7. FilesOwn
  BY <1>3 DEF FilesOwn
<1> QED
  BY <1>1, <1>4, <1>5, <1>6, <1>7 DEF SchemaInv, UndoneAt, WorkAt

LEMMA SchemaNext == TypeInv /\ OrderInv /\ DataInv /\ SchemaInv /\ [Next]_vars => SchemaInv'
<1> SUFFICES ASSUME TypeInv, OrderInv, DataInv, SchemaInv, [Next]_vars PROVE SchemaInv'
  OBVIOUS
<1>0. Acyclic
  BY DEF OrderInv
<1>1. ASSUME files' = files, UNCHANGED <<db, work, lock, cmd, loose>> PROVE SchemaInv'
  BY <1>1, DeclareSchema
<1>2. ASSUME NEW c \in Commands, NEW q \in Requests[c], Start(c, q) PROVE SchemaInv'
  BY <1>2, StartPlace, PlacedSchema
<1>3. ASSUME NEW c \in Commands,
             \/ List(c) \/ Fake(c) \/ DryRun(c)
             \/ BeginApply(c) \/ SkipOperation(c) \/ ApplyOperation(c) \/ Record(c)
             \/ BeginRollback(c) \/ UndoOperation(c) \/ Unrecord(c)
      PROVE  SchemaInv'
  <2>1. CASE List(c) \/ BeginApply(c) \/ SkipOperation(c) \/ BeginRollback(c)
    BY <2>1, ListPlace, BeginApplyPlace, SkipOperationPlace, BeginRollbackPlace, PlacedSchema
  <2>2. CASE Fake(c) \/ DryRun(c) \/ Record(c) \/ Unrecord(c)
    BY <2>2, FakeSchema, DryRunSchema, RecordSchema, UnrecordSchema
  <2>3. CASE ApplyOperation(c) \/ UndoOperation(c)
    BY <1>0, <2>3, ApplyOperationSchema, UndoOperationSchema
  <2> QED
    BY <1>3, <2>1, <2>2, <2>3
<1>4. ASSUME NEW c \in Commands, Raise(c) \/ Crash(c) PROVE SchemaInv'
  <2>1. Stop(c) /\ cmd[c].pc \in {"next", "apply", "undo"}
    BY <1>4 DEF Raise, Crash, Taking
  <2> QED
    BY <2>1, StopSchema
<1>5. ASSUME NEW labels \in SUBSET Apps, makemigrations(labels) PROVE SchemaInv'
  BY <1>5, MakeGrows, MakeOwn, FilesSchema DEF makemigrations, SchemaInv
<1>6. ASSUME NEW a \in Apps, NEW classes \in Declarations[a], Declare(a, classes) PROVE SchemaInv'
  BY <1>1, <1>6 DEF Declare
<1>7. ASSUME NEW a \in Apps, NEW ops \in Handwritten[a], NEW others \in Links(a), WriteByHand(a, ops, others)
      PROVE  SchemaInv'
  BY <1>7, WriteGrows, WriteOwn, FilesSchema DEF WriteByHand
<1>8. ASSUME NEW a \in Apps, get_table(a) PROVE SchemaInv'
  BY <1>8, GetTableSchema
<1>9. CASE UNCHANGED vars
  BY <1>1, <1>9 DEF vars
<1> QED
  BY <1>2, <1>3, <1>4, <1>5, <1>6, <1>7, <1>8, <1>9 DEF Next

\* TypeInv and the others, with what says that the tables follow the record.
LEMMA SchemaInvariant == Spec => []SchemaInv
<1>1. Init => TypeInv /\ OrderInv /\ DataInv /\ SchemaInv
  BY TypeInit, OrderInit, DataInit, SchemaInit
<1>2. TypeInv /\ OrderInv /\ DataInv /\ SchemaInv /\ [Next]_vars => SchemaInv'
  BY SchemaNext
<1>3. TypeInv /\ [Next]_vars => TypeInv'
  BY TypeNext
<1>4. TypeInv /\ OrderInv /\ [Next]_vars => OrderInv'
  BY OrderNext
<1>5. TypeInv /\ DataInv /\ [Next]_vars => DataInv'
  BY DataNext
<1> QED
  BY <1>1, <1>2, <1>3, <1>4, <1>5, PTL DEF Spec

\* The migrations that are recorded make what the first m do.
LEMMA ExpectedIs ==
    ASSUME FilesTyped, NEW a \in Apps, NEW m \in 0..Len(files[a]), Filled(a, m)
    PROVE  Expected(a) = Ddl(Fold(Upto(a, m)))
<1>1. PICK N, s, d : N = Len(files[a]) /\ s = by_app(a) /\ d = Only(by_app(a), Recorded)
  OBVIOUS
<1>2. /\ N \in Nat /\ DOMAIN files[a] = 1..N /\ m \in 0..N /\ Upto(a, 0) = <<>>
      /\ \A i \in 0..N : Upto(a, i) \in Seq(Operations)
      /\ \A i \in 1..N : <<a, i>> \in nodes /\ i - 1 \in 0..N /\ i \in 0..N
                         /\ Upto(a, i) = Upto(a, i - 1) \o operations(<<a, i>>)
  <2>1. N \in Nat
    BY <1>1, UptoSteps
  <2>2. \A i \in 1..N : i - 1 \in 0..N /\ i \in 0..N
    BY <2>1
  <2>3. /\ DOMAIN files[a] = 1..N /\ m \in 0..N /\ Upto(a, 0) = <<>>
        /\ \A i \in 0..N : Upto(a, i) \in Seq(Operations)
    BY <1>1, UptoSteps
  <2>4. \A i \in 1..N : <<a, i>> \in nodes /\ Upto(a, i) = Upto(a, i - 1) \o operations(<<a, i>>)
    BY <1>1, UptoSteps
  <2> QED
    BY <2>1, <2>2, <2>3, <2>4
<1>3. \A i \in 1..N : IF <<a, i>> \in Recorded THEN i <= m ELSE i <= m => operations(<<a, i>>) = <<>>
  BY <1>2 DEF Filled
<1>4. s \in Seq(nodes) /\ DOMAIN s = 1..N /\ \A i \in 1..N : s[i] = <<a, i>>
  <2>1. s = [i \in 1..N |-> <<a, i>>]
    BY <1>1, <1>2 DEF by_app
  <2>2. s \in [1..N -> nodes]
    BY <1>2, <2>1
  <2> QED
    BY <1>2, <2>1, <2>2, SequenceOf
<1>5. d = Only(s, Recorded)
  BY <1>1
<1>6. d \in Seq(nodes) /\ Len(d) \in Nat /\ DOMAIN d = 1..Len(d)
  BY <1>4, <1>5, OnlyElements, LenProperties
<1>7. PICK at \in [DOMAIN d -> DOMAIN s] :
         /\ \A n \in DOMAIN d : d[n] = s[at[n]]
         /\ \A i \in DOMAIN s : s[i] \in Recorded => \E n \in DOMAIN d : at[n] = i
         /\ \A l, n \in DOMAIN d : l < n => at[l] < at[n]
  <2>1. s \in Seq(nodes)
    BY <1>4
  <2>2. \E at \in [DOMAIN Only(s, Recorded) -> DOMAIN s] :
           /\ \A n \in DOMAIN Only(s, Recorded) : Only(s, Recorded)[n] = s[at[n]]
           /\ \A i \in DOMAIN s : s[i] \in Recorded => \E n \in DOMAIN Only(s, Recorded) : at[n] = i
           /\ \A l, n \in DOMAIN Only(s, Recorded) : l < n => at[l] < at[n]
    BY <2>1, OnlyElements
  <2> QED
    BY <1>5, <2>2
<1>8. \A n \in 1..Len(d) : at[n] \in 1..N /\ d[n] = <<a, at[n]>> /\ <<a, at[n]>> \in Recorded /\ at[n] <= m
  <2>1. \A n \in DOMAIN d : d[n] \in Recorded
    BY <1>4, <1>5, OnlyElements
  <2> SUFFICES ASSUME NEW n \in 1..Len(d)
               PROVE  at[n] \in 1..N /\ d[n] = <<a, at[n]>> /\ <<a, at[n]>> \in Recorded /\ at[n] <= m
    OBVIOUS
  <2>2. at[n] \in 1..N /\ d[n] = <<a, at[n]>> /\ <<a, at[n]>> \in Recorded
    <3>1. n \in DOMAIN d /\ at[n] \in DOMAIN s
      BY <1>6, <1>7
    <3>2. at[n] \in 1..N
      BY <1>4, <3>1
    <3>3. d[n] = s[at[n]] /\ s[at[n]] = <<a, at[n]>>
      BY <1>4, <1>7, <3>1, <3>2
    <3> QED
      BY <2>1, <3>1, <3>2, <3>3
  <2> QED
    BY <1>3, <2>2
<1> DEFINE L == Len(d)
           last(k) == IF k = 0 THEN 0 ELSE at[k]
           T == {k \in 0..L : AllOperations(SubSeq(d, 1, k)) = Upto(a, last(k))}
<1>9. /\ SubSeq(d, 1, 0) = <<>> /\ SubSeq(d, 1, L) = d
      /\ \A k \in 0..L : SubSeq(d, 1, k) \in Seq(nodes)
      /\ \A k \in 0..(L - 1) : SubSeq(d, 1, k + 1) = Append(SubSeq(d, 1, k), d[k + 1])
  BY <1>6, Beginnings
<1>10. \A k \in 0..L : last(k) \in 0..N
  <2> SUFFICES ASSUME NEW k \in 0..L PROVE last(k) \in 0..N
    OBVIOUS
  <2>1. CASE k = 0
    BY <1>2, <2>1
  <2>2. CASE k # 0
    <3>1. k \in 1..L
      BY <1>6, <2>2
    <3>2. at[k] \in 1..N
      BY <1>8, <3>1
    <3> QED
      BY <1>2, <2>2, <3>2
  <2> QED
    BY <2>1, <2>2
<1>11. ASSUME NEW k \in 0..L, NEW i \in 1..N, last(k) < i, k < L => i < at[k + 1]
       PROVE  <<a, i>> \notin Recorded
  <2> SUFFICES ASSUME <<a, i>> \in Recorded PROVE FALSE
    OBVIOUS
  <2>1. PICK n \in 1..L : at[n] = i
    BY <1>4, <1>6, <1>7
  <2>2. CASE n <= k
    <3>1. k \in 1..L /\ last(k) = at[k]
      BY <1>6, <2>1, <2>2
    <3>2. n = k \/ n < k
      BY <2>1, <2>2, <3>1
    <3>3. n < k => at[n] < at[k]
      BY <1>6, <1>7, <2>1, <3>1
    <3>4. at[k] \in 1..N /\ at[n] \in 1..N
      BY <1>8, <2>1, <3>1
    <3> QED
      BY <1>11, <2>1, <3>1, <3>2, <3>3, <3>4
  <2>3. CASE k < n
    <3>1. k < L /\ k + 1 \in 1..L
      BY <1>6, <2>1, <2>3
    <3>2. n = k + 1 \/ k + 1 < n
      BY <1>6, <2>1, <2>3
    <3>3. k + 1 < n => at[k + 1] < at[n]
      BY <1>6, <1>7, <2>1, <3>1
    <3>4. at[k + 1] \in 1..N /\ at[n] \in 1..N
      BY <1>8, <2>1, <3>1
    <3> QED
      BY <1>11, <2>1, <3>1, <3>2, <3>3, <3>4
  <2> QED
    BY <1>6, <2>1, <2>2, <2>3
<1>12. 0 \in T
  <2>1. 0 \in 0..L
    BY <1>6
  <2> QED
    BY <1>2, <1>9, <2>1, NoOperations
<1>13. ASSUME NEW k \in 0..(L - 1), k \in T PROVE k + 1 \in T
  <2>1. k \in 0..L /\ k + 1 \in 0..L /\ k + 1 \in 1..L /\ last(k + 1) = at[k + 1]
    BY <1>6
  <2>2. PICK i \in 1..N : i = at[k + 1] /\ d[k + 1] = <<a, i>> /\ i <= m
    BY <1>8, <2>1
  <2>3. AllOperations(SubSeq(d, 1, k + 1)) = Upto(a, last(k)) \o operations(<<a, i>>)
    <3>1. AllOperations(Append(SubSeq(d, 1, k), d[k + 1])) = AllOperations(SubSeq(d, 1, k)) \o operations(d[k + 1])
      BY <1>2, <1>9, <2>1, <2>2, OperationsAppend
    <3> QED
      BY <1>9, <1>13, <2>2, <3>1
  <2>4. last(k) <= i - 1
    <3>1. CASE k = 0
      BY <3>1
    <3>2. CASE k # 0
      <4>1. k \in 1..L /\ k < k + 1
        BY <1>6, <3>2
      <4>2. at[k] < at[k + 1] /\ at[k] \in 1..N
        BY <1>6, <1>7, <1>8, <2>1, <4>1
      <4> QED
        BY <2>2, <3>2, <4>2
    <3> QED
      BY <3>1, <3>2
  <2>5. Upto(a, i - 1) = Upto(a, last(k))
    <3>1. \A j \in 1..N : last(k) < j /\ j <= i - 1 => operations(<<a, j>>) = <<>>
      <4> SUFFICES ASSUME NEW j \in 1..N, last(k) < j, j <= i - 1 PROVE operations(<<a, j>>) = <<>>
        OBVIOUS
      <4>1. j < i /\ j <= m
        <5>1. i \in Int /\ j \in Int /\ m \in Int
          BY <1>2
        <5> HIDE DEF last
        <5> QED
          BY <2>2, <5>1
      <4>2. <<a, j>> \notin Recorded
        BY <1>11, <2>1, <2>2, <4>1
      <4> QED
        BY <1>3, <4>1, <4>2
    <3>2. last(k) \in 0..N /\ i - 1 \in 0..N
      BY <1>2, <1>10, <2>1, <2>2
    <3> HIDE DEF last
    <3> QED
      BY <1>1, <2>4, <3>1, <3>2, UptoEmpty
  <2>6. Upto(a, i) = Upto(a, i - 1) \o operations(<<a, i>>)
    BY <1>2
  <2>7. AllOperations(SubSeq(d, 1, k + 1)) = Upto(a, last(k + 1))
    BY <2>1, <2>2, <2>3, <2>5, <2>6
  <2> QED
    BY <2>1, <2>7
<1>14. L \in T
  <2> HIDE DEF T
  <2>1. L \in Nat /\ L \in 0..L
    BY <1>6
  <2> QED
    BY <1>12, <1>13, <2>1, UpTo
<1>15. AllOperations(d) = Upto(a, last(L))
  BY <1>9, <1>14
<1>16. Upto(a, m) = Upto(a, last(L))
  <2>1. L \in 0..L
    BY <1>6
  <2>2. \A j \in 1..N : last(L) < j /\ j <= m => operations(<<a, j>>) = <<>>
    <3> SUFFICES ASSUME NEW j \in 1..N, last(L) < j, j <= m PROVE operations(<<a, j>>) = <<>>
      OBVIOUS
    <3>1. <<a, j>> \notin Recorded
      BY <1>6, <1>11, <2>1
    <3> QED
      BY <1>3, <3>1
  <2>3. last(L) <= m
    <3>1. CASE L = 0
      BY <1>2, <3>1
    <3>2. CASE L # 0
      <4>1. L \in 1..L
        BY <1>6, <3>2
      <4> QED
        BY <1>8, <3>2, <4>1
    <3> QED
      BY <3>1, <3>2
  <2>4. last(L) \in 0..N
    BY <1>10, <2>1
  <2> HIDE DEF last
  <2> QED
    BY <1>1, <2>2, <2>3, <2>4, UptoEmpty
<1>17. AllOperations(Only(by_app(a), Recorded)) = Upto(a, m)
  BY <1>1, <1>15, <1>16
<1> QED
  BY <1>17 DEF Expected, Ddl

LEMMA TablesAre ==
    ASSUME NEW a, NEW ops, Keyed(a, Fold(ops)), Agrees(a, db.tables, ops)
    PROVE  Tables_of(a, db.tables) = Ddl(Fold(ops))
<1>1. PICK g, f : g = Ddl(Fold(ops)) /\ f = db.tables
  OBVIOUS
<1>2. g = [t \in DOMAIN g |-> g[t]] /\ DOMAIN g \subseteq Owned(a)
  BY <1>1 DEF Ddl, Keyed
<1>3. \A t \in Owned(a) : (t \in DOMAIN f <=> t \in DOMAIN g) /\ (t \in DOMAIN f => f[t] = g[t])
  <2>1. \A t \in Owned(a) : At(f, t) = At(g, t)
    BY <1>1 DEF Agrees
  <2> QED
    BY <2>1, SameAt
<1>4. Owned(a) \cap DOMAIN f = DOMAIN g
  BY <1>2, <1>3
<1>5. [t \in Owned(a) \cap DOMAIN f |-> f[t]] = [t \in DOMAIN g |-> g[t]]
  BY <1>3, <1>4
<1>6. Tables_of(a, f) = [t \in Owned(a) \cap DOMAIN f |-> f[t]]
  BY DEF Tables_of, Restrict
<1> QED
  BY <1>1, <1>2, <1>5, <1>6

LEMMA SameFields ==
    ASSUME NEW f \in Fields, NEW g \in Fields, \A c \in Columns : At(f, c) = At(g, c)
    PROVE  f = g
<1>1. f = [c \in DOMAIN f |-> f[c]] /\ DOMAIN f \subseteq Columns
      /\ g = [c \in DOMAIN g |-> g[c]] /\ DOMAIN g \subseteq Columns
  BY DEF Fields
<1>2. \A c \in Columns : (c \in DOMAIN f <=> c \in DOMAIN g) /\ (c \in DOMAIN f => f[c] = g[c])
  BY SameAt
<1> QED
  BY <1>1, <1>2

\* The tables of an application are those that its recorded migrations make, whatever
\* fails, crashes or runs at the same time, unless its record was changed without them.
THEOREM SchemaFollowsRecordHolds == Spec => []SchemaFollowsRecord
<1>1. TypeInv /\ SchemaInv => SchemaFollowsRecord
  <2> SUFFICES ASSUME TypeInv, SchemaInv, NEW a \in Apps \ loose, Steady(a)
               PROVE  Tables_of(a, db.tables) = Expected(a)
    BY DEF SchemaFollowsRecord
  <2>1. PICK m \in 0..Len(files[a]) : Filled(a, m) /\ Agrees(a, db.tables, Upto(a, m))
    BY DEF SchemaInv, SteadyAt
  <2>2. FilesTyped /\ FilesOwn
    BY DEF TypeInv, SchemaInv
  <2>3. Expected(a) = Ddl(Fold(Upto(a, m)))
    BY <2>1, <2>2, ExpectedIs
  <2>4. Keyed(a, Fold(Upto(a, m)))
    BY <2>2, UptoOwn
  <2> QED
    BY <2>1, <2>3, <2>4, TablesAre
<1> QED
  BY <1>1, TypeInvariant, SchemaInvariant, PTL

\* A database to which everything is applied has the declared tables, if nothing is
\* left to detect and the declared keys are fields and did not change.
THEOREM MigratedIsDeclaredHolds == Spec => []MigratedIsDeclared
<1>1. TypeInv /\ SchemaInv => MigratedIsDeclared
  <2> SUFFICES ASSUME TypeInv, SchemaInv, NEW a \in Apps \ loose,
                      \A i \in DOMAIN files[a] : <<a, i>> \in Recorded,
                      Steady(a), Detected(a) = <<>>,
                      \A t \in DOMAIN specs(a) : specs(a)[t].pk = app_state(a)[t].pk
                                                 /\ specs(a)[t].pk \in DOMAIN specs(a)[t].fields
               PROVE  Tables_of(a, db.tables) = [t \in DOMAIN specs(a) |-> ddl(specs(a)[t])]
    BY DEF MigratedIsDeclared
  <2>1. PICK N, d, h : N = Len(files[a]) /\ d = specs(a) /\ h = app_state(a)
    OBVIOUS
  <2>2. FilesTyped /\ FilesOwn /\ declared[a] \in Declarations[a]
    BY DEF TypeInv, SchemaInv, DeclaredTyped
  <2>3. N \in Nat /\ DOMAIN files[a] = 1..N /\ N \in 0..N /\ Upto(a, N) = AllOperations(by_app(a))
    <3>1. N \in Nat /\ DOMAIN files[a] = 1..N /\ Upto(a, N) = AllOperations(by_app(a))
      BY <2>1, <2>2, UptoSteps
    <3> QED
      BY <3>1
  <2>4. Filled(a, N)
    BY <2>3 DEF Filled
  <2>5. Agrees(a, db.tables, Upto(a, N))
    BY <2>1, <2>3, <2>4, SteadyFilled
  <2>6. Keyed(a, Fold(Upto(a, N)))
    BY <2>1, <2>2, <2>3, UptoOwn
  <2>7. Tables_of(a, db.tables) = Ddl(h)
    BY <2>1, <2>3, <2>5, <2>6, TablesAre DEF app_state
  <2>8. d \in States /\ h \in States
    BY <2>1, <2>2, DetectedTyped
  <2>9. DOMAIN d = DOMAIN h /\ \A t \in DOMAIN d : Matches(d[t], h[t])
    BY <2>1, <2>8, NothingDetected DEF Detected
  <2>10. ASSUME NEW t \in DOMAIN d PROVE d[t] = h[t]
    <3>1. d[t] \in Specs /\ h[t] \in Specs
      BY <2>8, <2>9 DEF States
    <3>2. d[t].pk = h[t].pk /\ d[t].pk \in DOMAIN d[t].fields
      BY <2>1
    <3>3. d[t].fields \in Fields /\ h[t].fields \in Fields
      BY <3>1 DEF Specs
    <3>4. \A c \in Columns : At(d[t].fields, c) = At(h[t].fields, c)
      BY <2>9, <3>2 DEF Matches
    <3>5. d[t].fields = h[t].fields
      BY <3>3, <3>4, SameFields
    <3> QED
      BY <3>1, <3>2, <3>5 DEF Specs
  <2>11. Ddl(h) = [t \in DOMAIN d |-> ddl(d[t])]
    BY <2>9, <2>10 DEF Ddl
  <2> QED
    BY <2>1, <2>7, <2>11
<1> QED
  BY <1>1, TypeInvariant, SchemaInvariant, PTL
=============================================================================
