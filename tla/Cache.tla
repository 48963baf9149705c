------------------------------- MODULE Cache -------------------------------
(***************************************************************************)
(* The cache API of BaseCache over the primitives of LocMemCache and of    *)
(* RedisCache (src/src/ronnie/cache).  A primitive is one step: LocMemCache *)
(* holds its lock for it, Redis executes it as one command.  What BaseCache *)
(* builds from several primitives (add, touch, delete, get_or_set, and the *)
(* incr of RedisCache) interleaves with the calls of other threads.        *)
(*                                                                         *)
(* Values are small numbers: a counter's tally, or the version of the data *)
(* behind a read-through entry.                                            *)
(***************************************************************************)
EXTENDS Lists

CONSTANTS
    Threads,        \* the threads (for Redis, of any process) that call the cache
    Keys, NoKey,    \* the keys they use, and the argument of no call
    Backends,       \* the values of BACKEND: "locmem", "redis"
    MaxEntries,     \* OPTIONS["MAX_ENTRIES"]
    CullFrequency,  \* OPTIONS["CULL_FREQUENCY"], 0: never drop live entries
    Timeouts,       \* the lifetimes callers pass: "running" (ends) or "forever"
    Default,        \* the one TIMEOUT stands for
    Ops,            \* Ops[k]: the calls that are made on the key k, see OpKinds
    MaxValue        \* bound: no incr and no new version beyond this value

OpKinds == {"set", "get", "add", "touch", "delete", "getOrSet", "incr"}

ASSUME BackendAssumption == Backends \subseteq {"locmem", "redis"}
ASSUME LimitAssumption == MaxEntries \in Nat /\ CullFrequency \in Nat /\ MaxValue \in Nat
ASSUME TimeoutAssumption == Timeouts \subseteq {"running", "forever"} /\ Default \in Timeouts
ASSUME OpsAssumption == Ops \in [Keys -> SUBSET OpKinds]

Values == 0..MaxValue
Entries == [key : Keys, value : Values, ttl : {"running", "forever", "over"}]

\* What a thread does next: nothing, the _set of add, the _get and the _set of
\* touch, the builder and the _set of get_or_set, the _delete of delete, the
\* _set of an incr that is not atomic.
PCs == {"idle", "add", "touchGet", "touchSet", "build", "fill", "delete", "incr"}

VARIABLES
    backend,   \* BACKEND
    store,     \* the entries, oldest insertion first
    source,    \* source[k]: version of what a read-through entry k caches
    pc,        \* pc[t]: where the thread t is
    arg,       \* arg[t]: the key of its call
    held,      \* held[t]: the value it has read and will store
    tally      \* history: tally[k], what the counter k should be while it lives

vars == <<backend, store, source, pc, arg, held, tally>>

Has(k) == \E i \in DOMAIN store : store[i].key = k
At(k) == store[CHOOSE i \in DOMAIN store : store[i].key = k]

\* A call on k finds an entry that has not expired.
Live(k) == Has(k) /\ At(k).ttl # "over"

TypeOK ==
    /\ backend \in Backends
    /\ store \in Seq(Entries)
    /\ \A i, j \in DOMAIN store : store[i].key = store[j].key => i = j
    /\ source \in [Keys -> Values]
    /\ pc \in [Threads -> PCs]
    /\ arg \in [Threads -> Keys \cup {NoKey}]
    /\ held \in [Threads -> Values]
    /\ tally \in [Keys -> Values]

Init ==
    /\ backend \in Backends
    /\ store = <<>>
    /\ source = [k \in Keys |-> 0]
    /\ pc = [t \in Threads |-> "idle"]
    /\ arg = [t \in Threads |-> NoKey]
    /\ held = [t \in Threads |-> 0]
    /\ tally = [k \in Keys |-> 0]

-----------------------------------------------------------------------------
\* The primitives, on a sequence of entries

Without(s, k) == Picked(s, {i \in DOMAIN s : s[i].key # k})
Unexpired(s) == Picked(s, {i \in DOMAIN s : s[i].ttl # "over"})

\* list(self._store)[::CULL_FREQUENCY] is dropped: the first key and every
\* CULL_FREQUENCY-th after it.
Thinned(s) == Picked(s, {i \in DOMAIN s : (i - 1) % CullFrequency # 0})

\* Mutant: it drops live entries only when there is more than the limit.
CullTooLate(s) ==
    LET live == Unexpired(s) IN
    IF Len(live) > MaxEntries /\ CullFrequency # 0 THEN Thinned(live) ELSE live

\* LocMemCache._cull
Cull(s) ==
    LET live == Unexpired(s) IN
    IF Len(live) >= MaxEntries /\ CullFrequency # 0 THEN Thinned(live) ELSE live

\* Mutant: the store is a list of pairs.
InsertAppends(s, entry) == Append(s, entry)

\* self._store[key] = entry: a known key keeps its place.
Insert(s, entry) ==
    IF \E i \in DOMAIN s : s[i].key = entry.key
      THEN [i \in DOMAIN s |-> IF s[i].key = entry.key THEN entry ELSE s[i]]
      ELSE Append(s, entry)

\* _get and _has_key remove an expired entry they meet.
Looked(k) == IF Has(k) /\ ~ Live(k) THEN Without(store, k) ELSE store

\* What counters should be, of those the store still holds alive.
Tally(due) ==
    tally' = [k \in Keys |->
        IF \E i \in DOMAIN store' : store'[i].key = k /\ store'[i].ttl # "over"
          THEN due[k] ELSE 0]

\* _set
Set(k, value, ttl) ==
    LET full == backend = "locmem" /\ Len(store) >= MaxEntries IN
    store' = Insert(IF full THEN Cull(store) ELSE store, [key |-> k, value |-> value, ttl |-> ttl])

Goto(t, label) == pc' = [pc EXCEPT ![t] = label]

\* The call of t returns.
Return(t) ==
    /\ Goto(t, "idle")
    /\ arg' = [arg EXCEPT ![t] = NoKey]
    /\ held' = [held EXCEPT ![t] = 0]

-----------------------------------------------------------------------------
\* Calls of one primitive

\* set(key, value, timeout)
CallSet(t, k, ttl) ==
    /\ "set" \in Ops[k]
    /\ pc[t] = "idle"
    /\ Set(k, 0, ttl)
    /\ Tally([tally EXCEPT ![k] = 0])
    /\ UNCHANGED <<backend, source, pc, arg, held>>

\* get(key), has_key(key)
CallGet(t, k) ==
    /\ "get" \in Ops[k]
    /\ pc[t] = "idle"
    /\ store' = Looked(k)
    /\ UNCHANGED <<backend, source, pc, arg, held, tally>>

\* clear()
CallClear(t) ==
    /\ pc[t] = "idle"
    /\ store' = <<>>
    /\ Tally(tally)
    /\ UNCHANGED <<backend, source, pc, arg, held>>

\* A call of several primitives begins by looking the key up: it goes on, or
\* it returns at once.
Begin(t, k, op, goesOn, next) ==
    /\ op \in Ops[k]
    /\ pc[t] = "idle"
    /\ store' = Looked(k)
    /\ IF goesOn
         THEN Goto(t, next) /\ arg' = [arg EXCEPT ![t] = k]
         ELSE UNCHANGED <<pc, arg>>
    /\ UNCHANGED <<backend, source, tally>>

-----------------------------------------------------------------------------
\* Calls of several primitives

\* add(key, value): it returns False at once, or finds the key absent ...
CallAdd(t, k) == Begin(t, k, "add", ~ Live(k), "add") /\ UNCHANGED held

\* ... and stores the value, whatever the cache holds by now.
AddSet(t, ttl) ==
    /\ pc[t] = "add"
    /\ Set(arg[t], 0, ttl)
    /\ Tally([tally EXCEPT ![arg[t]] = 0])
    /\ Return(t)
    /\ UNCHANGED <<backend, source>>

\* touch(key): False if absent, else the value is read ...
CallTouch(t, k) == Begin(t, k, "touch", Live(k), "touchGet") /\ UNCHANGED held

\* (None, here 0, if the entry has gone)
TouchGet(t) ==
    /\ pc[t] = "touchGet"
    /\ store' = Looked(arg[t])
    /\ held' = [held EXCEPT ![t] = IF Live(arg[t]) THEN At(arg[t]).value ELSE 0]
    /\ Goto(t, "touchSet")
    /\ UNCHANGED <<backend, source, arg, tally>>

\* ... and stored again.
TouchSet(t, ttl) ==
    /\ pc[t] = "touchSet"
    /\ Set(arg[t], held[t], ttl)
    /\ Tally(tally)
    /\ Return(t)
    /\ UNCHANGED <<backend, source>>

\* delete(key): whether it existed is looked up first.
CallDelete(t, k) == Begin(t, k, "delete", TRUE, "delete") /\ UNCHANGED held

DeleteStep(t) ==
    /\ pc[t] = "delete"
    /\ store' = Without(store, arg[t])
    /\ Tally(tally)
    /\ Return(t)
    /\ UNCHANGED <<backend, source>>

\* get_or_set(key, builder): on a miss the builder runs, outside any lock ...
CallGetOrSet(t, k) == Begin(t, k, "getOrSet", ~ Live(k), "build") /\ UNCHANGED held

Build(t) ==
    /\ pc[t] = "build"
    /\ held' = [held EXCEPT ![t] = source[arg[t]]]
    /\ Goto(t, "fill")
    /\ UNCHANGED <<backend, store, source, arg, tally>>

\* Mutant: the timeout is not passed on, and the cache has no default.
FillForever(t, ttl) ==
    /\ pc[t] = "fill"
    /\ Set(arg[t], held[t], "forever")
    /\ Tally(tally)
    /\ Return(t)
    /\ UNCHANGED <<backend, source>>

\* ... and its value is stored.
Fill(t, ttl) ==
    /\ pc[t] = "fill"
    /\ Set(arg[t], held[t], ttl)
    /\ Tally(tally)
    /\ Return(t)
    /\ UNCHANGED <<backend, source>>

\* incr(key): it raises on a missing key; RedisCache._incr reads the value ...
IncrGet(t, k) ==
    /\ Begin(t, k, "incr", Live(k), "incr")
    /\ Live(k) => At(k).value < MaxValue
    /\ held' = IF Live(k) THEN [held EXCEPT ![t] = At(k).value + 1] ELSE held

\* ... and stores it increased, with the default timeout of the cache.
IncrSet(t) ==
    /\ pc[t] = "incr"
    /\ tally[arg[t]] < MaxValue
    /\ Set(arg[t], held[t], Default)
    /\ Tally([tally EXCEPT ![arg[t]] = @ + 1])
    /\ Return(t)
    /\ UNCHANGED <<backend, source>>

\* LocMemCache._incr does both under its lock and keeps the expiry.
IncrLocked(t, k) ==
    /\ "incr" \in Ops[k]
    /\ pc[t] = "idle"
    /\ Live(k) /\ At(k).value < MaxValue /\ tally[k] < MaxValue
    /\ store' = Insert(store, [At(k) EXCEPT !.value = @ + 1])
    /\ Tally([tally EXCEPT ![k] = @ + 1])
    /\ UNCHANGED <<backend, source, pc, arg, held>>

CallIncr(t, k) == IF backend = "locmem" THEN IncrLocked(t, k) ELSE IncrGet(t, k)

-----------------------------------------------------------------------------
\* Around the cache

\* The data behind k changes; a receiver of its signal calls delete(k).
Change(t, k) ==
    /\ "getOrSet" \in Ops[k]
    /\ pc[t] = "idle"
    /\ source[k] < MaxValue
    /\ source' = [source EXCEPT ![k] = @ + 1]
    /\ arg' = [arg EXCEPT ![t] = k]
    /\ Goto(t, "delete")
    /\ UNCHANGED <<backend, store, held, tally>>

\* The lifetime of the entry of k ends: Redis drops it, LocMemCache keeps it
\* until a look at it or a cull.
Elapse(k) ==
    /\ Live(k) /\ At(k).ttl = "running"
    /\ store' = IF backend = "redis" THEN Without(store, k)
                                     ELSE Insert(store, [At(k) EXCEPT !.ttl = "over"])
    /\ Tally(tally)
    /\ UNCHANGED <<backend, source, pc, arg, held>>

Call(t, k) ==
    \/ CallGet(t, k)
    \/ CallAdd(t, k)
    \/ CallTouch(t, k)
    \/ CallDelete(t, k)
    \/ CallGetOrSet(t, k)
    \/ CallIncr(t, k)
    \/ \E ttl \in Timeouts : CallSet(t, k, ttl)

\* What a thread does once its call has begun.
Continue(t) ==
    \/ TouchGet(t)
    \/ DeleteStep(t)
    \/ Build(t)
    \/ IncrSet(t)
    \/ \E ttl \in Timeouts : AddSet(t, ttl) \/ TouchSet(t, ttl) \/ Fill(t, ttl)

Next ==
    \/ \E t \in Threads :
        \/ Continue(t)
        \/ CallClear(t)
        \/ \E k \in Keys : Call(t, k) \/ Change(t, k)
    \/ \E k \in Keys : Elapse(k)

Spec == Init /\ [][Next]_vars

\* A thread finishes the call it has begun, and time passes.
Fairness ==
    /\ \A t \in Threads : WF_vars(Continue(t))
    /\ \A k \in Keys : WF_vars(Elapse(k))

FairSpec == Spec /\ Fairness

-----------------------------------------------------------------------------
\* Properties

\* LocMemCache never holds more than MAX_ENTRIES entries, expired ones
\* included, unless CULL_FREQUENCY 0 tells it not to drop live ones.
SizeBounded ==
    backend = "locmem" /\ CullFrequency > 0 /\ MaxEntries > 0 => Len(store) <= MaxEntries

\* Keys that are used as counters: nothing but set, add and incr stores them.
Counters == {k \in Keys : "incr" \in Ops[k] /\ Ops[k] \cap {"touch", "getOrSet"} = {}}

\* Every incr of LocMemCache counts, and no thread is told a tally twice,
\* whatever other threads set, add, delete, clear or push out meanwhile.
TalliesExact ==
    backend = "locmem" => \A k \in Counters : Live(k) => At(k).value = tally[k]

\* Keys that only get_or_set stores, read through to the source.
ReadThrough == {k \in Keys : Ops[k] \cap {"getOrSet", "set", "add", "touch", "incr"} = {"getOrSet"}}

\* "wrap expensive queries in get_or_set with a timeout, and delete the key
\* whenever the underlying table changes" (docs/topics/cache.md): a builder
\* that was overtaken by a change stores an outdated value, which does not
\* stay: in the end the cache serves the last version or nothing.
EventuallyFresh ==
    <>[](\A k \in ReadThrough : Live(k) => At(k).value = source[k])

\* "add() returns True for exactly one caller" (docs/topics/cache.md): an add
\* that returns True does not overwrite an entry that stands.
AddExclusive ==
    [][\A t \in Threads : pc[t] = "add" /\ pc'[t] = "idle" => ~ Live(arg[t])]_vars
=============================================================================
