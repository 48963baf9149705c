---------------------------- MODULE CacheProofs ----------------------------
(***************************************************************************)
(* Proofs about Cache: the store of LocMemCache stays within its limit and *)
(* its counters are exact, for any number of threads and keys, any limit   *)
(* and culling frequency, and any calls.                                   *)
(***************************************************************************)
EXTENDS Cache, ListsProofs

\* A store: a key has one entry.
Distinct(s) == \A i, j \in DOMAIN s : s[i].key = s[j].key => i = j
IsStore(s) == s \in Seq(Entries) /\ Distinct(s)

\* What is in r is in s.
Among(r, s) == \A i \in DOMAIN r : \E j \in DOMAIN s : r[i] = s[j]

\* The counters that are alive in s have the values due.
Exact(s, due) ==
    \A i \in DOMAIN s :
        s[i].key \in Counters /\ s[i].ttl # "over" => s[i].value = due[s[i].key]

StoreInv ==
    /\ IsStore(store)
    /\ tally \in [Keys -> Values]
    /\ SizeBounded
    /\ backend = "locmem" => Exact(store, tally)

\* A thread is within a call that is made on its key; the incr of LocMemCache
\* has no second step.
ThreadInv ==
    /\ backend \in Backends
    /\ source \in [Keys -> Values]
    /\ pc \in [Threads -> PCs]
    /\ arg \in [Threads -> Keys \cup {NoKey}]
    /\ held \in [Threads -> Values]
    /\ \A t \in Threads :
        /\ pc[t] # "idle" => arg[t] \in Keys
        /\ pc[t] \in {"touchGet", "touchSet"} => "touch" \in Ops[arg[t]]
        /\ pc[t] \in {"build", "fill"} => "getOrSet" \in Ops[arg[t]]
        /\ pc[t] = "incr" => backend # "locmem"

CacheInv == StoreInv /\ ThreadInv

-----------------------------------------------------------------------------
\* The primitives

\* What is left of a store is a store.
LEMMA PickedStore ==
    ASSUME NEW s, IsStore(s), NEW I \in SUBSET DOMAIN s
    PROVE  /\ IsStore(Picked(s, I)) /\ Among(Picked(s, I), s)
           /\ Len(Picked(s, I)) <= Len(s)
           /\ Len(Picked(s, I)) \in Nat /\ Len(s) \in Nat
           /\ I # DOMAIN s => Len(Picked(s, I)) < Len(s)
<1> DEFINE r == Picked(s, I)
<1>1. PICK at \in [1..Cardinality(I) -> I] :
        /\ \A n \in 1..Cardinality(I) : r[n] = s[at[n]]
        /\ \A m, n \in 1..Cardinality(I) : m < n => at[m] < at[n]
  BY PickedElements DEF IsStore
<1>2. r \in Seq(Entries) /\ Len(r) = Cardinality(I) /\ Cardinality(I) \in 0..Len(s)
  BY PickedElements DEF IsStore
<1>3. Len(s) \in Nat /\ DOMAIN s = 1..Len(s) /\ DOMAIN r = 1..Cardinality(I)
  BY <1>2, LenProperties DEF IsStore
<1>4. Distinct(r)
  <2> SUFFICES ASSUME NEW m \in 1..Cardinality(I), NEW n \in 1..Cardinality(I),
                      r[m].key = r[n].key
               PROVE  m = n
    BY <1>3 DEF Distinct
  <2>1. at[m] = at[n]
    BY <1>1 DEF IsStore, Distinct
  <2>2. at[m] \in Int
    BY <1>3
  <2>3. m \in Int /\ n \in Int
    OBVIOUS
  <2>4. ~ (m < n) /\ ~ (n < m)
    BY <1>1, <2>1, <2>2
  <2> QED
    BY <2>3, <2>4
<1>5. Among(r, s)
  BY <1>1, <1>3 DEF Among
<1>6. I # DOMAIN s => Cardinality(I) < Len(s)
  <2>1. IsFiniteSet(1..Len(s)) /\ Cardinality(1..Len(s)) = Len(s)
    <3>1. 1 \in Int /\ Len(s) \in Int /\ (1 > Len(s) => Len(s) = 0)
      BY <1>3
    <3> QED
      BY <3>1, FS_Interval
  <2>2. I # DOMAIN s => Cardinality(I) # Len(s)
    BY <1>3, <2>1, FS_Subset
  <2> QED
    BY <1>2, <2>2
<1> QED
  BY <1>2, <1>3, <1>4, <1>5, <1>6 DEF IsStore

\* Among is transitive.
LEMMA AmongTwice ==
    ASSUME NEW r, NEW s, NEW u, Among(r, s), Among(s, u)
    PROVE  Among(r, u)
BY DEF Among

\* A cull leaves room for an entry.
LEMMA CullLeavesRoom ==
    ASSUME NEW s, IsStore(s)
    PROVE  /\ IsStore(Cull(s)) /\ Among(Cull(s), s)
           /\ Len(Cull(s)) \in Nat
           /\ CullFrequency > 0 /\ MaxEntries > 0 /\ Len(s) <= MaxEntries => Len(Cull(s)) < MaxEntries
<1> DEFINE live == Unexpired(s)
           staying == {i \in DOMAIN live : (i - 1) % CullFrequency # 0}
<1>1. /\ IsStore(live) /\ Among(live, s)
      /\ Len(live) <= Len(s) /\ Len(live) \in Nat /\ Len(s) \in Nat
  BY PickedStore DEF Unexpired
<1>2. MaxEntries \in Nat /\ CullFrequency \in Nat
  BY LimitAssumption
<1>3. CASE Len(live) >= MaxEntries /\ CullFrequency # 0
  <2>1. Cull(s) = Picked(live, staying)
    BY <1>3 DEF Cull, Thinned
  <2>2. /\ IsStore(Picked(live, staying)) /\ Among(Picked(live, staying), live)
        /\ Len(Picked(live, staying)) \in Nat
        /\ Len(Picked(live, staying)) <= Len(live)
        /\ staying # DOMAIN live => Len(Picked(live, staying)) < Len(live)
    <3> HIDE DEF live
    <3> QED
      BY <1>1, PickedStore
  <2>3. MaxEntries > 0 => staying # DOMAIN live
    <3> SUFFICES ASSUME MaxEntries > 0 PROVE 1 \in DOMAIN live /\ 1 \notin staying
      OBVIOUS
    <3>1. DOMAIN live = 1..Len(live)
      BY <1>1, LenProperties DEF IsStore
    <3>2. 1 \in DOMAIN live
      BY <1>1, <1>2, <1>3, <3>1
    <3>3. (1 - 1) % CullFrequency = 0
      BY <1>2, <1>3
    <3> QED
      BY <3>2, <3>3
  <2>4. Among(Picked(live, staying), s)
    BY <1>1, <2>2, AmongTwice
  <2> HIDE DEF live, staying
  <2> QED
    BY <1>1, <1>2, <2>1, <2>2, <2>3, <2>4
<1>4. CASE ~ (Len(live) >= MaxEntries /\ CullFrequency # 0)
  <2>1. Cull(s) = live
    BY <1>4 DEF Cull
  <2> HIDE DEF live
  <2> QED
    BY <1>1, <1>2, <1>4, <2>1
<1> QED
  BY <1>3, <1>4

\* An entry takes the place of the one with its key, or comes last.
LEMMA InsertEntry ==
    ASSUME NEW s, IsStore(s), NEW e \in Entries
    PROVE  /\ IsStore(Insert(s, e))
           /\ \A i \in DOMAIN Insert(s, e) :
                \/ Insert(s, e)[i] = e
                \/ Insert(s, e)[i].key # e.key /\ \E j \in DOMAIN s : Insert(s, e)[i] = s[j]
           /\ Len(s) \in Nat
           /\ Len(Insert(s, e)) = IF \E i \in DOMAIN s : s[i].key = e.key THEN Len(s) ELSE Len(s) + 1
<1>1. Len(s) \in Nat /\ DOMAIN s = 1..Len(s) /\ \A i \in DOMAIN s : s[i] \in Entries
  BY LenProperties, ElementOfSeq DEF IsStore
<1>2. CASE \E i \in DOMAIN s : s[i].key = e.key
  <2> DEFINE r == [i \in 1..Len(s) |-> IF s[i].key = e.key THEN e ELSE s[i]]
  <2>1. Insert(s, e) = r
    BY <1>1, <1>2 DEF Insert
  <2>2. r \in Seq(Entries) /\ Len(r) = Len(s) /\ DOMAIN r = 1..Len(s)
    BY <1>1
  <2>3. Distinct(r)
    BY <1>1 DEF IsStore, Distinct
  <2>4. \A i \in DOMAIN r : r[i] = e \/ (r[i].key # e.key /\ \E j \in DOMAIN s : r[i] = s[j])
    <3> SUFFICES ASSUME NEW i \in 1..Len(s)
                 PROVE  r[i] = e \/ (r[i].key # e.key /\ r[i] = s[i])
      BY <1>1, <2>2
    <3> QED
      OBVIOUS
  <2> HIDE DEF r
  <2> QED
    BY <1>1, <1>2, <2>1, <2>2, <2>3, <2>4 DEF IsStore
<1>3. CASE ~ \E i \in DOMAIN s : s[i].key = e.key
  <2>1. Insert(s, e) = Append(s, e)
    BY <1>3 DEF Insert
  <2>2. /\ Append(s, e) \in Seq(Entries) /\ Len(Append(s, e)) = Len(s) + 1
        /\ DOMAIN Append(s, e) = 1..(Len(s) + 1)
        /\ \A i \in 1..Len(s) : Append(s, e)[i] = s[i]
        /\ Append(s, e)[Len(s) + 1] = e
    BY AppendProperties, LenProperties DEF IsStore
  <2>3. \A i \in 1..(Len(s) + 1) : i = Len(s) + 1 \/ i \in 1..Len(s)
    BY <1>1
  <2>4. Distinct(Append(s, e))
    BY <1>1, <1>3, <2>2, <2>3 DEF IsStore, Distinct
  <2> QED
    BY <1>1, <1>3, <2>1, <2>2, <2>3, <2>4 DEF IsStore
<1> QED
  BY <1>2, <1>3

-----------------------------------------------------------------------------
\* What the steps do to the store

\* A tally is kept for what lives.
LEMMA TallyKept ==
    ASSUME NEW due \in [Keys -> Values], Tally(due)
    PROVE  /\ tally' \in [Keys -> Values]
           /\ Exact(store', due) /\ store' \in Seq(Entries) => Exact(store', tally')
<1>1. 0 \in Values
  BY LimitAssumption DEF Values
<1>2. tally' \in [Keys -> Values]
  BY <1>1 DEF Tally
<1>3. ASSUME Exact(store', due), store' \in Seq(Entries), NEW i \in DOMAIN store',
             store'[i].key \in Counters, store'[i].ttl # "over"
      PROVE  store'[i].value = tally'[store'[i].key]
  <2>1. store'[i].key \in Keys
    BY <1>3 DEF Counters
  <2>2. tally'[store'[i].key] = due[store'[i].key]
    BY <1>3, <2>1 DEF Tally
  <2> QED
    BY <1>3, <2>2 DEF Exact
<1> QED
  BY <1>2, <1>3 DEF Exact

\* Entries go.
LEMMA DropKeepsStore ==
    ASSUME StoreInv, IsStore(store'), Among(store', store), Len(store') <= Len(store),
           tally' = tally \/ Tally(tally), backend' = backend
    PROVE  StoreInv'
<1>1. Exact(store, tally) => Exact(store', tally)
  BY DEF Exact, Among
<1>2. tally' \in [Keys -> Values] /\ (Exact(store', tally) => Exact(store', tally'))
  BY TallyKept DEF StoreInv, IsStore
<1>3. Len(store) \in Nat /\ Len(store') \in Nat /\ MaxEntries \in Nat
  BY LimitAssumption, LenProperties DEF StoreInv, IsStore
<1>4. SizeBounded'
  BY <1>3 DEF StoreInv, SizeBounded
<1> QED
  BY <1>1, <1>2, <1>4 DEF StoreInv

\* An entry is put into the store s, which has room if it needs any.
LEMMA InsertKeepsStore ==
    ASSUME StoreInv, backend' = backend, NEW s, IsStore(s), Among(s, store),
           NEW e \in Entries, store' = Insert(s, e),
           backend = "locmem" /\ CullFrequency > 0 /\ MaxEntries > 0
             => \/ Len(s) < MaxEntries
                \/ Len(s) <= MaxEntries /\ \E i \in DOMAIN s : s[i].key = e.key,
           NEW due \in [Keys -> Values], Tally(due),
           backend = "locmem" /\ e.key \in Counters => e.value = due[e.key],
           \A c \in Counters \ {e.key} : due[c] = tally[c]
    PROVE  StoreInv'
<1>1. /\ IsStore(store')
      /\ \A i \in DOMAIN store' :
            store'[i] = e \/ (store'[i].key # e.key /\ \E j \in DOMAIN s : store'[i] = s[j])
      /\ Len(s) \in Nat
      /\ Len(store') = IF \E i \in DOMAIN s : s[i].key = e.key THEN Len(s) ELSE Len(s) + 1
  <2> HIDE DEF IsStore
  <2>1. /\ IsStore(Insert(s, e))
        /\ \A i \in DOMAIN Insert(s, e) :
              \/ Insert(s, e)[i] = e
              \/ (Insert(s, e)[i].key # e.key /\ \E j \in DOMAIN s : Insert(s, e)[i] = s[j])
        /\ Len(s) \in Nat
        /\ Len(Insert(s, e)) = IF \E i \in DOMAIN s : s[i].key = e.key THEN Len(s) ELSE Len(s) + 1
    BY ONLY InsertEntry, IsStore(s), e \in Entries
  <2> QED
    BY ONLY <2>1, store' = Insert(s, e)
<1>2. backend = "locmem" => Exact(store', due)
  <2> SUFFICES ASSUME backend = "locmem", NEW i \in DOMAIN store',
                      store'[i].key \in Counters, store'[i].ttl # "over"
               PROVE  store'[i].value = due[store'[i].key]
    BY DEF Exact
  <2>1. CASE store'[i] = e
    BY <2>1
  <2>2. CASE store'[i].key # e.key /\ \E j \in DOMAIN s : store'[i] = s[j]
    BY <2>2 DEF StoreInv, Exact, Among
  <2> QED
    BY <1>1, <2>1, <2>2
<1>3. tally' \in [Keys -> Values] /\ (Exact(store', due) => Exact(store', tally'))
  BY <1>1, TallyKept DEF IsStore
<1>4. SizeBounded'
  BY <1>1, LimitAssumption DEF SizeBounded
<1> QED
  BY <1>1, <1>2, <1>3, <1>4 DEF StoreInv

\* _set: a cull comes first if the store is full.
LEMMA SetKeepsStore ==
    ASSUME StoreInv, backend' = backend, NEW k \in Keys, NEW value \in Values,
           NEW ttl \in Timeouts, Set(k, value, ttl),
           NEW due \in [Keys -> Values], Tally(due),
           backend = "locmem" /\ k \in Counters => value = due[k],
           \A c \in Counters \ {k} : due[c] = tally[c]
    PROVE  StoreInv'
<1> DEFINE e == [key |-> k, value |-> value, ttl |-> ttl]
           full == backend = "locmem" /\ Len(store) >= MaxEntries
           s == IF full THEN Cull(store) ELSE store
<1>1. e \in Entries /\ e.key = k /\ e.value = value
  BY TimeoutAssumption DEF Entries
<1>2. store' = Insert(s, e)
  BY DEF Set
<1>3. Len(store) \in Nat /\ MaxEntries \in Nat /\ CullFrequency \in Nat
  BY LimitAssumption, LenProperties DEF StoreInv, IsStore
<1>4. IsStore(s) /\ Among(s, store)
  BY CullLeavesRoom DEF StoreInv, Among
<1>5. backend = "locmem" /\ CullFrequency > 0 /\ MaxEntries > 0 => Len(s) < MaxEntries
  BY <1>3, CullLeavesRoom DEF StoreInv, SizeBounded
<1>6. backend = "locmem" /\ e.key \in Counters => e.value = due[e.key]
  BY <1>1
<1>7. \A c \in Counters \ {e.key} : due[c] = tally[c]
  BY <1>1
<1> HIDE DEF e, s
<1> QED
  BY <1>1, <1>2, <1>4, <1>5, <1>6, <1>7, InsertKeepsStore

\* A look at an entry removes it if it has expired.
LEMMA LookKeepsStore ==
    ASSUME StoreInv, NEW k, store' = Looked(k), tally' = tally, backend' = backend
    PROVE  StoreInv'
<1>1. IsStore(store) /\ Len(store) \in Nat
  BY LenProperties DEF StoreInv, IsStore
<1>2. IsStore(Without(store, k)) /\ Among(Without(store, k), store) /\ Len(Without(store, k)) <= Len(store)
  BY <1>1, PickedStore DEF Without
<1>3. IsStore(store') /\ Among(store', store) /\ Len(store') <= Len(store)
  BY <1>1, <1>2 DEF Looked, Among
<1> QED
  BY <1>3, DropKeepsStore

\* The entry of a key goes.
LEMMA WithoutKeepsStore ==
    ASSUME StoreInv, NEW k, store' = Without(store, k), Tally(tally), backend' = backend
    PROVE  StoreInv'
<1>1. IsStore(Without(store, k)) /\ Among(Without(store, k), store) /\ Len(Without(store, k)) <= Len(store)
  BY PickedStore DEF Without, StoreInv
<1> QED
  BY <1>1, DropKeepsStore

\* The entry that is found is the one of the key.
LEMMA FoundEntry ==
    ASSUME IsStore(store), NEW k, Has(k)
    PROVE  /\ \E i \in DOMAIN store : store[i] = At(k)
           /\ At(k) \in Entries /\ At(k).key = k /\ k \in Keys
           /\ \A i \in DOMAIN store : store[i].key = k => store[i] = At(k)
<1>1. PICK i \in DOMAIN store : store[i].key = k
  BY DEF Has
<1> DEFINE j == CHOOSE j \in DOMAIN store : store[j].key = k
<1>2. j \in DOMAIN store /\ store[j].key = k
  BY <1>1
<1>3. At(k) = store[j]
  BY DEF At
<1>4. store[j] \in Entries
  BY <1>2, LenProperties, ElementOfSeq DEF IsStore
<1> HIDE DEF j
<1>5. k \in Keys
  BY <1>2, <1>4 DEF Entries
<1> QED
  BY <1>2, <1>3, <1>4, <1>5 DEF IsStore, Distinct

-----------------------------------------------------------------------------
\* The steps

\* A call that begins looks its key up.
LEMMA BeginKeeps ==
    ASSUME CacheInv, NEW t \in Threads, NEW k \in Keys, NEW op, NEW goesOn, NEW next \in PCs,
           Begin(t, k, op, goesOn, next), held' \in [Threads -> Values],
           next \in {"touchGet", "touchSet"} => op = "touch",
           next \in {"build", "fill"} => op = "getOrSet",
           next = "incr" => backend # "locmem"
    PROVE  CacheInv'
<1>1. StoreInv'
  BY LookKeepsStore DEF Begin, CacheInv
<1>2. ThreadInv'
  BY DEF Begin, Goto, CacheInv, ThreadInv
<1> QED
  BY <1>1, <1>2 DEF CacheInv

\* A call that returns leaves the other threads where they are.
LEMMA ReturnKeeps ==
    ASSUME ThreadInv, NEW t \in Threads, Return(t), backend' = backend, source' = source
    PROVE  ThreadInv'
<1>1. 0 \in Values
  BY LimitAssumption DEF Values
<1> QED
  BY <1>1 DEF Return, Goto, ThreadInv, PCs

\* The calls of one primitive.
LEMMA OnePrimitiveKeeps ==
    ASSUME CacheInv, NEW t \in Threads
    PROVE  /\ CallClear(t) => CacheInv'
           /\ \A k \in Keys, ttl \in Timeouts : CallSet(t, k, ttl) => CacheInv'
           /\ \A k \in Keys : CallGet(t, k) => CacheInv'
<1> USE DEF CacheInv
<1>0. 0 \in Values /\ tally \in [Keys -> Values]
  BY LimitAssumption DEF Values, StoreInv
<1>1. ASSUME CallClear(t) PROVE CacheInv'
  <2>1. IsStore(<<>>) /\ Among(<<>>, store) /\ Len(<<>>) <= Len(store)
    BY LenProperties DEF IsStore, Distinct, Among, StoreInv
  <2>2. StoreInv'
    BY <1>1, <2>1, DropKeepsStore DEF CallClear
  <2> QED
    BY <1>1, <2>2 DEF CallClear, ThreadInv
<1>2. ASSUME NEW k \in Keys, NEW ttl \in Timeouts, CallSet(t, k, ttl) PROVE CacheInv'
  <2> DEFINE due == [tally EXCEPT ![k] = 0]
  <2>1. due \in [Keys -> Values] /\ due[k] = 0 /\ \A c \in Counters \ {k} : due[c] = tally[c]
    BY <1>0 DEF Counters
  <2>2. Set(k, 0, ttl) /\ Tally(due) /\ backend' = backend
    BY <1>2 DEF CallSet
  <2> HIDE DEF due
  <2>3. StoreInv'
    BY <1>0, <2>1, <2>2, SetKeepsStore
  <2> QED
    BY <1>2, <2>3 DEF CallSet, ThreadInv
<1>3. ASSUME NEW k \in Keys, CallGet(t, k) PROVE CacheInv'
  BY <1>3, LookKeepsStore DEF CallGet, ThreadInv
<1> QED
  BY <1>1, <1>2, <1>3

\* add
LEMMA AddKeeps ==
    ASSUME CacheInv, NEW t \in Threads
    PROVE  /\ \A k \in Keys : CallAdd(t, k) => CacheInv'
           /\ \A ttl \in Timeouts : AddSet(t, ttl) => CacheInv'
<1>0. 0 \in Values /\ tally \in [Keys -> Values]
  BY LimitAssumption DEF Values, StoreInv, CacheInv
<1>1. ASSUME NEW k \in Keys, CallAdd(t, k) PROVE CacheInv'
  BY <1>1, BeginKeeps DEF CallAdd, PCs, CacheInv, ThreadInv
<1>2. ASSUME NEW ttl \in Timeouts, AddSet(t, ttl) PROVE CacheInv'
  <2> DEFINE due == [tally EXCEPT ![arg[t]] = 0]
  <2>1. arg[t] \in Keys
    BY <1>2 DEF AddSet, CacheInv, ThreadInv
  <2>2. due \in [Keys -> Values] /\ due[arg[t]] = 0 /\ \A c \in Counters \ {arg[t]} : due[c] = tally[c]
    BY <1>0, <2>1 DEF Counters
  <2>3. Set(arg[t], 0, ttl) /\ Tally(due) /\ backend' = backend
    BY <1>2 DEF AddSet
  <2> HIDE DEF due
  <2>4. StoreInv'
    BY <1>0, <2>1, <2>2, <2>3, SetKeepsStore DEF CacheInv
  <2> QED
    BY <1>2, <2>4, ReturnKeeps DEF AddSet, CacheInv
<1> QED
  BY <1>1, <1>2

\* A key that touch or get_or_set stores is no counter.
LEMMA StoredAgain ==
    ASSUME CacheInv, NEW t \in Threads, pc[t] \in {"touchSet", "fill"}, NEW ttl \in Timeouts,
           Set(arg[t], held[t], ttl), Tally(tally), Return(t), UNCHANGED <<backend, source>>
    PROVE  CacheInv'
<1>1. arg[t] \in Keys /\ arg[t] \notin Counters /\ held[t] \in Values
  BY DEF CacheInv, ThreadInv, Counters
<1>2. StoreInv'
  BY <1>1, SetKeepsStore DEF CacheInv, StoreInv
<1> QED
  BY <1>2, ReturnKeeps DEF CacheInv

\* touch
LEMMA TouchKeeps ==
    ASSUME CacheInv, NEW t \in Threads
    PROVE  /\ \A k \in Keys : CallTouch(t, k) => CacheInv'
           /\ TouchGet(t) => CacheInv'
           /\ \A ttl \in Timeouts : TouchSet(t, ttl) => CacheInv'
<1>0. 0 \in Values
  BY LimitAssumption DEF Values
<1>1. ASSUME NEW k \in Keys, CallTouch(t, k) PROVE CacheInv'
  BY <1>1, BeginKeeps DEF CallTouch, PCs, CacheInv, ThreadInv
<1>2. ASSUME TouchGet(t) PROVE CacheInv'
  <2>1. StoreInv'
    BY <1>2, LookKeepsStore DEF TouchGet, CacheInv
  <2>2. Live(arg[t]) => At(arg[t]).value \in Values
    BY FoundEntry DEF Live, Entries, CacheInv, StoreInv
  <2>3. held' \in [Threads -> Values]
    BY <1>0, <1>2, <2>2 DEF TouchGet, CacheInv, ThreadInv
  <2>4. ThreadInv'
    BY <1>2, <2>3 DEF TouchGet, Goto, CacheInv, ThreadInv, PCs
  <2> QED
    BY <2>1, <2>4 DEF CacheInv
<1>3. ASSUME NEW ttl \in Timeouts, TouchSet(t, ttl) PROVE CacheInv'
  BY <1>3, StoredAgain DEF TouchSet
<1> QED
  BY <1>1, <1>2, <1>3

\* delete, and a change of the data with it
LEMMA DeleteKeeps ==
    ASSUME CacheInv, NEW t \in Threads
    PROVE  /\ \A k \in Keys : CallDelete(t, k) => CacheInv'
           /\ DeleteStep(t) => CacheInv'
           /\ \A k \in Keys : Change(t, k) => CacheInv'
<1>1. ASSUME NEW k \in Keys, CallDelete(t, k) PROVE CacheInv'
  BY <1>1, BeginKeeps DEF CallDelete, PCs, CacheInv, ThreadInv
<1>2. ASSUME DeleteStep(t) PROVE CacheInv'
  BY <1>2, WithoutKeepsStore, ReturnKeeps DEF DeleteStep, CacheInv
<1>3. ASSUME NEW k \in Keys, Change(t, k) PROVE CacheInv'
  <2>1. source[k] + 1 \in Values
    BY <1>3, LimitAssumption DEF Change, CacheInv, ThreadInv, Values
  <2>2. ThreadInv'
    BY <1>3, <2>1 DEF Change, Goto, CacheInv, ThreadInv, PCs
  <2>3. StoreInv'
    BY <1>3 DEF Change, CacheInv, StoreInv, SizeBounded
  <2> QED
    BY <2>2, <2>3 DEF CacheInv
<1> QED
  BY <1>1, <1>2, <1>3

\* get_or_set
LEMMA GetOrSetKeeps ==
    ASSUME CacheInv, NEW t \in Threads
    PROVE  /\ \A k \in Keys : CallGetOrSet(t, k) => CacheInv'
           /\ Build(t) => CacheInv'
           /\ \A ttl \in Timeouts : Fill(t, ttl) => CacheInv'
<1>1. ASSUME NEW k \in Keys, CallGetOrSet(t, k) PROVE CacheInv'
  BY <1>1, BeginKeeps DEF CallGetOrSet, PCs, CacheInv, ThreadInv
<1>2. ASSUME Build(t) PROVE CacheInv'
  <2>1. source[arg[t]] \in Values
    BY <1>2 DEF Build, CacheInv, ThreadInv
  <2>2. ThreadInv'
    BY <1>2, <2>1 DEF Build, Goto, CacheInv, ThreadInv, PCs
  <2>3. StoreInv'
    BY <1>2 DEF Build, CacheInv, StoreInv, SizeBounded
  <2> QED
    BY <2>2, <2>3 DEF CacheInv
<1>3. ASSUME NEW ttl \in Timeouts, Fill(t, ttl) PROVE CacheInv'
  BY <1>3, StoredAgain DEF Fill
<1> QED
  BY <1>1, <1>2, <1>3

\* incr
LEMMA IncrKeeps ==
    ASSUME CacheInv, NEW t \in Threads
    PROVE  /\ \A k \in Keys : CallIncr(t, k) => CacheInv'
           /\ IncrSet(t) => CacheInv'
<1>0. tally \in [Keys -> Values] /\ IsStore(store) /\ \A n \in Values : n < MaxValue => n + 1 \in Values
  BY LimitAssumption DEF Values, StoreInv, CacheInv
<1>1. ASSUME NEW k \in Keys, backend # "locmem", IncrGet(t, k) PROVE CacheInv'
  <2>1. Live(k) => At(k).value + 1 \in Values
    BY <1>0, <1>1, FoundEntry DEF IncrGet, Live, Entries
  <2>2. held' \in [Threads -> Values]
    BY <1>1, <2>1 DEF IncrGet, CacheInv, ThreadInv
  <2> QED
    BY <1>1, <2>2, BeginKeeps DEF IncrGet, PCs
<1>2. ASSUME NEW k \in Keys, backend = "locmem", IncrLocked(t, k) PROVE CacheInv'
  <2> DEFINE due == [tally EXCEPT ![k] = @ + 1]
             e == [At(k) EXCEPT !.value = @ + 1]
  <2>1. /\ At(k) \in Entries /\ At(k).key = k /\ \E i \in DOMAIN store : store[i] = At(k)
        /\ At(k).ttl # "over"
    BY <1>0, <1>2, FoundEntry DEF IncrLocked, Live
  <2>2. e \in Entries /\ e.key = k /\ e.value = At(k).value + 1
    BY <1>0, <1>2, <2>1 DEF IncrLocked, Entries
  <2>3. due \in [Keys -> Values] /\ due[k] = tally[k] + 1 /\ \A c \in Counters \ {k} : due[c] = tally[c]
    BY <1>0, <1>2 DEF IncrLocked, Counters
  <2>4. k \in Counters => e.value = due[k]
    BY <1>2, <2>1, <2>2, <2>3 DEF CacheInv, StoreInv, Exact
  <2>5. store' = Insert(store, e) /\ Tally(due) /\ backend' = backend
    BY <1>2 DEF IncrLocked
  <2>6. backend = "locmem" /\ CullFrequency > 0 /\ MaxEntries > 0
          => Len(store) <= MaxEntries /\ \E i \in DOMAIN store : store[i].key = e.key
    BY <2>1, <2>2 DEF CacheInv, StoreInv, SizeBounded
  <2>7. Among(store, store)
    BY DEF Among
  <2> HIDE DEF due, e
  <2>8. StoreInv'
    BY <1>0, <2>2, <2>3, <2>4, <2>5, <2>6, <2>7, InsertKeepsStore DEF CacheInv
  <2> QED
    BY <1>2, <2>8 DEF IncrLocked, CacheInv, ThreadInv
<1>3. ASSUME IncrSet(t) PROVE CacheInv'
  <2> DEFINE due == [tally EXCEPT ![arg[t]] = @ + 1]
  <2>1. arg[t] \in Keys /\ held[t] \in Values /\ backend # "locmem" /\ Default \in Timeouts
    BY <1>3, TimeoutAssumption DEF IncrSet, CacheInv, ThreadInv
  <2>2. due \in [Keys -> Values] /\ \A c \in Counters \ {arg[t]} : due[c] = tally[c]
    BY <1>0, <1>3, <2>1 DEF IncrSet, Counters
  <2>3. Set(arg[t], held[t], Default) /\ Tally(due) /\ backend' = backend
    BY <1>3 DEF IncrSet
  <2> HIDE DEF due
  <2>4. StoreInv'
    BY <2>1, <2>2, <2>3, SetKeepsStore DEF CacheInv
  <2> QED
    BY <1>3, <2>4, ReturnKeeps DEF IncrSet, CacheInv
<1> QED
  BY <1>1, <1>2, <1>3 DEF CallIncr

\* The lifetime of an entry ends.
LEMMA ElapseKeeps ==
    ASSUME CacheInv, NEW k \in Keys, Elapse(k)
    PROVE  CacheInv'
<1>0. IsStore(store) /\ tally \in [Keys -> Values]
  BY DEF CacheInv, StoreInv
<1>1. CASE backend = "redis"
  BY <1>1, WithoutKeepsStore DEF Elapse, CacheInv, ThreadInv
<1>2. CASE backend # "redis"
  <2> DEFINE e == [At(k) EXCEPT !.ttl = "over"]
  <2>1. /\ At(k) \in Entries /\ At(k).key = k /\ \E i \in DOMAIN store : store[i] = At(k)
        /\ At(k).ttl # "over"
    BY <1>0, FoundEntry DEF Elapse, Live
  <2>2. e \in Entries /\ e.key = k /\ e.value = At(k).value
    BY <2>1 DEF Entries
  <2>3. backend = "locmem" /\ k \in Counters => e.value = tally[k]
    BY <2>1, <2>2 DEF CacheInv, StoreInv, Exact
  <2>4. store' = Insert(store, e) /\ Tally(tally) /\ backend' = backend
    BY <1>2 DEF Elapse
  <2>5. backend = "locmem" /\ CullFrequency > 0 /\ MaxEntries > 0
          => Len(store) <= MaxEntries /\ \E i \in DOMAIN store : store[i].key = e.key
    BY <2>1, <2>2 DEF CacheInv, StoreInv, SizeBounded
  <2>6. Among(store, store)
    BY DEF Among
  <2> HIDE DEF e
  <2>7. StoreInv'
    BY <1>0, <2>2, <2>3, <2>4, <2>5, <2>6, InsertKeepsStore DEF CacheInv
  <2> QED
    BY <2>7 DEF Elapse, CacheInv, ThreadInv
<1> QED
  BY <1>1, <1>2

LEMMA StartsEmpty == Init => CacheInv
<1> SUFFICES ASSUME Init PROVE CacheInv
  OBVIOUS
<1>1. 0 \in Values /\ MaxEntries \in Nat
  BY LimitAssumption DEF Values
<1>2. store = <<>> /\ Len(store) = 0 /\ DOMAIN store = {} /\ store \in Seq(Entries)
  BY DEF Init
<1>3. StoreInv
  BY <1>1, <1>2 DEF StoreInv, IsStore, Distinct, Exact, SizeBounded, Init
<1>4. ThreadInv
  BY <1>1 DEF ThreadInv, Init, PCs
<1> QED
  BY <1>3, <1>4 DEF CacheInv

LEMMA StepsKeep == CacheInv /\ [Next]_vars => CacheInv'
<1> SUFFICES ASSUME CacheInv, [Next]_vars PROVE CacheInv'
  OBVIOUS
<1>1. CASE UNCHANGED vars
  BY <1>1 DEF vars, CacheInv, StoreInv, SizeBounded, ThreadInv
<1>2. ASSUME NEW t \in Threads, Continue(t) PROVE CacheInv'
  BY <1>2, AddKeeps, TouchKeeps, DeleteKeeps, GetOrSetKeeps, IncrKeeps DEF Continue
<1>3. ASSUME NEW t \in Threads, NEW k \in Keys, Call(t, k) PROVE CacheInv'
  BY <1>3, OnePrimitiveKeeps, AddKeeps, TouchKeeps, DeleteKeeps, GetOrSetKeeps, IncrKeeps DEF Call
<1>4. ASSUME NEW t \in Threads, CallClear(t) PROVE CacheInv'
  BY <1>4, OnePrimitiveKeeps
<1>5. ASSUME NEW t \in Threads, NEW k \in Keys, Change(t, k) PROVE CacheInv'
  BY <1>5, DeleteKeeps
<1>6. ASSUME NEW k \in Keys, Elapse(k) PROVE CacheInv'
  BY <1>6, ElapseKeeps
<1> QED
  BY <1>1, <1>2, <1>3, <1>4, <1>5, <1>6 DEF Next

LEMMA CacheInvariant == Spec => []CacheInv
<1> QED
  BY StartsEmpty, StepsKeep, PTL DEF Spec

-----------------------------------------------------------------------------
\* Results

\* Whatever is called, in whatever order, the store has one entry for a key,
\* and values, tallies and threads stay in their types.
THEOREM CacheTyped == Spec => []TypeOK
<1>1. CacheInv => TypeOK
  BY DEF CacheInv, StoreInv, ThreadInv, IsStore, Distinct, TypeOK
<1> QED
  BY <1>1, CacheInvariant, PTL

\* LocMemCache never holds more than MAX_ENTRIES entries, for any limit and
\* any culling frequency above 0: a cull of a full store drops at least the
\* first entry, and one entry follows a cull.
THEOREM SizeBoundedHolds == Spec => []SizeBounded
<1>1. CacheInv => SizeBounded
  BY DEF CacheInv, StoreInv
<1> QED
  BY <1>1, CacheInvariant, PTL

\* The counters of LocMemCache are exact, for any number of threads.
THEOREM TalliesExactHolds == Spec => []TalliesExact
<1>1. CacheInv => TalliesExact
  <2> SUFFICES ASSUME CacheInv, backend = "locmem", NEW k \in Counters, Live(k)
               PROVE  At(k).value = tally[k]
    BY DEF TalliesExact
  <2>1. PICK i \in DOMAIN store : store[i] = At(k)
    BY FoundEntry DEF CacheInv, StoreInv, Live
  <2>2. At(k).key = k /\ At(k).ttl # "over"
    BY FoundEntry DEF CacheInv, StoreInv, Live
  <2> QED
    BY <2>1, <2>2 DEF CacheInv, StoreInv, Exact
<1> QED
  BY <1>1, CacheInvariant, PTL
=============================================================================
