------------------------------ MODULE Sessions ------------------------------
(***************************************************************************)
(* Server-side sessions (src/src/ronnie/contrib/sessions): the middleware  *)
(* that loads the session named by the cookie, hands the handler a dict,   *)
(* and persists it when the response starts; flush and cycle_key, as login *)
(* and logout call them; the db and the cache engine; and clearsessions.   *)
(*                                                                         *)
(* Each request stores at most one item of its own in its session, so a    *)
(* session's content is a set of requests.  Engine calls of different      *)
(* server processes interleave; each statement on a row is atomic.         *)
(***************************************************************************)
EXTENDS Integers, FiniteSets

CONSTANTS
    Clients,      \* the browsers, each with a cookie jar
    NoClient,     \* the owner of a request that has not been sent
    Requests,     \* the requests they send, each at most once
    Keys,         \* the session keys that new_key can return
    NoKey,        \* no session cookie
    Engines,      \* the values of SESSION_ENGINE: "db", "cache"
    MaxInFlight,  \* MaxInFlight[c]: how many requests c has under way at once
    Ops,          \* what handlers do: see OpKinds
    Faults        \* what the environment does: see FaultKinds

OpKinds == {"write", "clear", "flush", "login"}
FaultKinds == {"lose", "raise", "expire", "cleanup"}

ASSUME NamesAssumption == NoKey \notin Keys /\ NoClient \notin Clients
ASSUME EngineAssumption == Engines \subseteq {"db", "cache"}
ASSUME RequestAssumption == IsFiniteSet(Requests)
ASSUME LimitAssumption == MaxInFlight \in [Clients -> Nat \ {0}]
ASSUME OpsAssumption == Ops \subseteq OpKinds /\ Faults \subseteq FaultKinds

MaybeKey == Keys \cup {NoKey}

\* "sent" until the session is loaded, "purging" before load deletes an expired
\* row, "handling" while the application runs, "updating" and "inserting" inside
\* DbSessionEngine.save, "responded" once the response start went out, "failed"
\* when the save or the handler raised.
InFlight == {"sent", "purging", "handling", "updating", "inserting", "responded", "failed"}

VARIABLES
    engine,     \* SESSION_ENGINE
    cookie,     \* cookie[c]: the session cookie of the client c
    stored,     \* the keys that have a row (a cache entry)
    data,       \* data[k]: the content of the row
    expired,    \* the rows whose expire_date (TTL) has passed
    owner,      \* owner[r]: the client that sent the request r
    issued,     \* the keys that new_key has returned
    pc,         \* pc[r]: how far the request r is
    key,        \* key[r]: session_key, then the key the response sets
    session,    \* session[r]: content of the TrackingSession of r
    modified,   \* modified[r]: its modified flag
    detached,   \* detached[r]: scope["session"] is cycle_key's copy
    flushed,    \* flushed[r]: scope["ronnie.session_flush"]
    sets,       \* sets[r]: the response of r carries a Set-Cookie
    listed,     \* the keys clear_expired found expired and will delete
    emptied,    \* history: the handler of r emptied the session
    erased,     \* history: what flushed or emptied sessions contained
    known,      \* history: known[c], the items whose storing was confirmed to c
    excused     \* history: clients that logged in on a session or were swept

rowVars == <<stored, data, expired>>
requestVars == <<owner, key, session, modified, detached, flushed, sets, emptied>>
vars == <<engine, cookie, stored, data, expired, owner, issued, pc, key, session, modified,
          detached, flushed, sets, listed, emptied, erased, known, excused>>

historyVars == <<erased, known, excused>>

TypeOK ==
    /\ engine \in Engines
    /\ cookie \in [Clients -> MaybeKey]
    /\ stored \subseteq Keys
    /\ data \in [Keys -> SUBSET Requests]
    /\ expired \subseteq stored
    /\ issued \subseteq Keys
    /\ pc \in [Requests -> InFlight \cup {"new", "done"}]
    /\ owner \in [Requests -> Clients \cup {NoClient}]
    /\ key \in [Requests -> MaybeKey]
    /\ session \in [Requests -> SUBSET Requests]
    /\ {modified, detached, flushed, sets, emptied} \subseteq [Requests -> BOOLEAN]
    /\ listed \subseteq Keys
    /\ erased \subseteq Requests
    /\ known \in [Clients -> SUBSET Requests]
    /\ excused \subseteq Clients

Init ==
    /\ engine \in Engines
    /\ cookie = [c \in Clients |-> NoKey]
    /\ stored = {}
    /\ data = [k \in Keys |-> {}]
    /\ expired = {}
    /\ issued = {}
    /\ pc = [r \in Requests |-> "new"]
    /\ owner = [r \in Requests |-> NoClient]
    /\ key = [r \in Requests |-> NoKey]
    /\ session = [r \in Requests |-> {}]
    /\ modified = [r \in Requests |-> FALSE]
    /\ detached = modified
    /\ flushed = modified
    /\ sets = modified
    /\ listed = {}
    /\ emptied = modified
    /\ erased = {}
    /\ known = [c \in Clients |-> {}]
    /\ excused = {}

Goto(r, label) == pc' = [pc EXCEPT ![r] = label]

\* The clients that hold the key k or are about to be sent it.
Users(k) ==
    {c \in Clients : cookie[c] = k} \cup {owner[r] : r \in {q \in Requests : key[q] = k}}

\* What a request with the key k finds in the engine.
Content(k) == IF k \in stored \ expired THEN data[k] ELSE {}

\* Mutant: only the content is deleted.
DeleteRowKeepsExpiry(k) ==
    /\ stored' = stored \ {k}
    /\ UNCHANGED expired
    /\ data' = IF k \in Keys THEN [data EXCEPT ![k] = {}] ELSE data

DeleteRow(k) ==
    /\ stored' = stored \ {k}
    /\ expired' = expired \ {k}
    /\ data' = IF k \in Keys THEN [data EXCEPT ![k] = {}] ELSE data

\* Mutant: save looks the row up as load does.
FindRowLive(k) == k \in stored \ expired

\* The lookup of save: it finds expired rows too.
FindRow(k) == k \in stored

\* Mutant: the row keeps its old expire_date.
SaveRowKeepsExpiry(r, k) ==
    /\ stored' = stored \cup {k}
    /\ UNCHANGED expired
    /\ data' = [data EXCEPT ![k] = session[r]]
    /\ Goto(r, "responded")

\* The session becomes the content of the row of k, with a new expire_date.
SaveRow(r, k) ==
    /\ stored' = stored \cup {k}
    /\ expired' = expired \ {k}
    /\ data' = [data EXCEPT ![k] = session[r]]
    /\ Goto(r, "responded")

-----------------------------------------------------------------------------
\* The middleware before the handler

\* The client c sends a request with the cookie it holds.
Send(c, r) ==
    /\ pc[r] = "new"
    /\ Cardinality({q \in Requests : owner[q] = c /\ pc[q] \in InFlight}) < MaxInFlight[c]
    /\ owner' = [owner EXCEPT ![r] = c]
    /\ key' = [key EXCEPT ![r] = cookie[c]]
    /\ Goto(r, "sent")
    /\ UNCHANGED <<engine, cookie, rowVars, issued, session, modified, detached, flushed, sets,
                   listed, emptied, historyVars>>

\* engine.load: an expired entry of the cache is dropped and not returned; an
\* expired row of the database has yet to be deleted.
Load(r) ==
    /\ pc[r] = "sent"
    /\ session' = [session EXCEPT ![r] = Content(key[r])]
    /\ IF key[r] \in expired /\ engine = "cache" THEN DeleteRow(key[r]) ELSE UNCHANGED rowVars
    /\ Goto(r, IF key[r] \in expired /\ engine = "db" THEN "purging" ELSE "handling")
    /\ UNCHANGED <<engine, cookie, owner, issued, key, modified, detached, flushed, sets, listed, emptied, historyVars>>

\* DbSessionEngine.load deletes the row that it read as expired, even if it
\* has been saved again in the meantime.
Purge(r) ==
    /\ pc[r] = "purging"
    /\ DeleteRow(key[r])
    /\ Goto(r, "handling")
    /\ UNCHANGED <<engine, cookie, issued, requestVars, listed, historyVars>>

-----------------------------------------------------------------------------
\* What a handler does with its session

\* sess[...] = value, on the dict the middleware loaded.
Write(r) ==
    /\ "write" \in Ops
    /\ pc[r] = "handling"
    /\ session' = [session EXCEPT ![r] = @ \cup {r}]
    /\ modified' = [modified EXCEPT ![r] = TRUE]
    /\ UNCHANGED <<engine, cookie, rowVars, owner, issued, pc, key, detached, flushed, sets, listed, emptied, historyVars>>

\* sess.clear()
Clear(r) ==
    /\ "clear" \in Ops
    /\ pc[r] = "handling"
    /\ session' = [session EXCEPT ![r] = {}]
    /\ modified' = [modified EXCEPT ![r] = TRUE]
    /\ emptied' = [emptied EXCEPT ![r] = TRUE]
    /\ UNCHANGED <<engine, cookie, rowVars, owner, issued, pc, key, detached, flushed, sets, listed, historyVars>>

\* flush(request), as logout calls it: it empties scope["session"], which is
\* the loaded dict unless cycle_key replaced it.
Flush(r) ==
    /\ "flush" \in Ops
    /\ pc[r] = "handling"
    /\ IF detached[r]
         THEN UNCHANGED <<session, modified>>
         ELSE /\ session' = [session EXCEPT ![r] = {}]
              /\ modified' = [modified EXCEPT ![r] = TRUE]
    /\ flushed' = [flushed EXCEPT ![r] = TRUE]
    /\ emptied' = [emptied EXCEPT ![r] = TRUE]
    /\ UNCHANGED <<engine, cookie, rowVars, owner, issued, pc, key, detached, sets, listed, historyVars>>

\* cycle_key(request): if there is a cookie, its row is deleted, in the database
\* whatever the engine is, and a copy of the dict goes into the scope.
CycleKey(r) ==
    /\ IF key[r] # NoKey /\ engine = "db" THEN DeleteRow(key[r]) ELSE UNCHANGED rowVars
    /\ detached' = [detached EXCEPT ![r] = key[r] # NoKey]

\* login(request, user): the user goes into the copy, or into the loaded dict
\* if there is no copy or if it is empty.
Login(r) ==
    /\ "login" \in Ops
    /\ pc[r] = "handling"
    /\ ~ detached[r]
    /\ CycleKey(r)
    /\ IF detached'[r] /\ session[r] # {}
         THEN UNCHANGED <<session, modified>>
         ELSE /\ session' = [session EXCEPT ![r] = @ \cup {r}]
              /\ modified' = [modified EXCEPT ![r] = TRUE]
    /\ excused' = IF key[r] # NoKey THEN excused \cup {owner[r]} ELSE excused
    /\ UNCHANGED <<engine, cookie, owner, issued, pc, key, flushed, sets, listed, emptied, erased, known>>

\* The handler raises: the error response does not pass through the session
\* middleware.
HandlerRaises(r) ==
    /\ "raise" \in Faults
    /\ pc[r] = "handling"
    /\ Goto(r, "failed")
    /\ UNCHANGED <<engine, cookie, rowVars, issued, requestVars, listed, historyVars>>

-----------------------------------------------------------------------------
\* send_with_persist

\* What the row of an emptied session contained is deleted on purpose.
Erase(r) ==
    IF emptied[r]
      THEN /\ erased' = erased \cup (Content(key[r]) \ session[r])
           /\ known' = [known EXCEPT ![owner[r]] = @ \ Content(key[r])]
      ELSE UNCHANGED <<erased, known>>

\* Mutant: a flush only expires the cookie.
RespondFlushKeepsRow(r) ==
    /\ pc[r] = "handling"
    /\ flushed[r]
    /\ Erase(r)
    /\ UNCHANGED rowVars
    /\ key' = [key EXCEPT ![r] = NoKey]
    /\ sets' = [sets EXCEPT ![r] = TRUE]
    /\ Goto(r, "responded")
    /\ UNCHANGED <<engine, cookie, owner, issued, session, modified, detached, flushed, listed, emptied, excused>>

\* A flushed session: the row is deleted and the cookie expired.
RespondFlush(r) ==
    /\ pc[r] = "handling"
    /\ flushed[r]
    /\ Erase(r)
    /\ DeleteRow(key[r])
    /\ key' = [key EXCEPT ![r] = NoKey]
    /\ sets' = [sets EXCEPT ![r] = TRUE]
    /\ Goto(r, "responded")
    /\ UNCHANGED <<engine, cookie, owner, issued, session, modified, detached, flushed, listed, emptied, excused>>

\* A session emptied by the handler is dropped like a flushed one, if it had a key.
RespondEmptied(r) ==
    /\ pc[r] = "handling"
    /\ ~ flushed[r] /\ modified[r] /\ session[r] = {}
    /\ Erase(r)
    /\ DeleteRow(key[r])
    /\ key' = [key EXCEPT ![r] = NoKey]
    /\ sets' = [sets EXCEPT ![r] = key[r] # NoKey]
    /\ Goto(r, "responded")
    /\ UNCHANGED <<engine, cookie, owner, issued, session, modified, detached, flushed, listed, emptied, excused>>

\* Nothing to persist.
RespondUnmodified(r) ==
    /\ pc[r] = "handling"
    /\ ~ flushed[r] /\ ~ modified[r]
    /\ Goto(r, "responded")
    /\ UNCHANGED <<engine, cookie, rowVars, issued, requestVars, listed, historyVars>>

\* Mutant: only the rows that are there are avoided.
NewKeyReused(r) ==
    \E k \in Keys \ stored :
        /\ issued' = issued \cup {k}
        /\ key' = [key EXCEPT ![r] = k]

\* session_key or engine.new_key(): a new key is random and never repeats.
NewKey(r) ==
    \E k \in Keys \ issued :
        /\ issued' = issued \cup {k}
        /\ key' = [key EXCEPT ![r] = k]

\* A modified session is saved under its key, or under a new one.  The cache
\* engine sets the entry; the db engine first looks whether there is a row.
RespondSave(r) ==
    /\ pc[r] = "handling"
    /\ ~ flushed[r] /\ modified[r] /\ session[r] # {}
    /\ IF key[r] = NoKey THEN NewKey(r) ELSE UNCHANGED <<key, issued>>
    /\ sets' = [sets EXCEPT ![r] = TRUE]
    /\ IF engine = "cache"
         THEN SaveRow(r, key'[r]) /\ Erase(r)
         ELSE /\ Goto(r, IF FindRow(key'[r]) THEN "updating" ELSE "inserting")
              /\ UNCHANGED <<engine, rowVars, historyVars>>
    /\ UNCHANGED <<engine, cookie, owner, session, modified, detached, flushed, listed, emptied, excused>>

\* DbSessionEngine.save updates the row it found; if the row is gone by now
\* the update raises and the session is inserted.
SaveUpdate(r) ==
    /\ pc[r] = "updating"
    /\ IF key[r] \in stored
         THEN SaveRow(r, key[r]) /\ Erase(r)
         ELSE Goto(r, "inserting") /\ UNCHANGED <<rowVars, erased, known>>
    /\ UNCHANGED <<engine, cookie, issued, requestVars, listed, excused>>

\* The insert, which violates the primary key if a row has appeared: the
\* exception leaves the middleware before the response was sent.
SaveInsert(r) ==
    /\ pc[r] = "inserting"
    /\ IF key[r] \in stored
         THEN Goto(r, "failed") /\ UNCHANGED <<rowVars, erased, known>>
         ELSE SaveRow(r, key[r]) /\ Erase(r)
    /\ UNCHANGED <<engine, cookie, issued, requestVars, listed, excused>>

\* The client gets the response and its Set-Cookie, and knows that the item
\* the handler stored is in its session.
Deliver(r) ==
    /\ pc[r] = "responded"
    /\ LET c == owner[r] IN
        /\ cookie' = IF sets[r] THEN [cookie EXCEPT ![c] = key[r]] ELSE cookie
        /\ known' = IF ~ flushed[r] /\ (r \in session[r] \/ detached[r])
                      THEN [known EXCEPT ![c] = @ \cup {r}]
                      ELSE known
    /\ Goto(r, "done")
    /\ UNCHANGED <<engine, rowVars, issued, requestVars, listed, erased, excused>>

\* The client gets the error response, which sets no cookie.
DeliverError(r) ==
    /\ pc[r] = "failed"
    /\ Goto(r, "done")
    /\ UNCHANGED <<engine, cookie, rowVars, issued, requestVars, listed, historyVars>>

-----------------------------------------------------------------------------
\* The environment

\* The process that handles the request dies, or the response is lost.
Lose(r) ==
    /\ "lose" \in Faults
    /\ pc[r] \in InFlight
    /\ Goto(r, "done")
    /\ UNCHANGED <<engine, cookie, rowVars, issued, requestVars, listed, historyVars>>

\* SESSION_COOKIE_AGE passes since the row was saved; the browser may drop the
\* cookie at the same time.  A response is not under way for that long.
Expire(k) ==
    /\ "expire" \in Faults
    /\ k \in stored \ expired
    /\ \A r \in Requests : pc[r] = "responded" => key[r] # k
    /\ expired' = expired \cup {k}
    /\ LET holders == {c \in Clients : cookie[c] = k} IN
        /\ cookie' \in {cookie, [c \in Clients |-> IF c \in holders THEN NoKey ELSE cookie[c]]}
        /\ known' = [c \in Clients |-> IF c \in holders THEN {} ELSE known[c]]
    /\ UNCHANGED <<engine, stored, data, issued, pc, requestVars, listed, erased, excused>>

\* clearsessions: clear_expired reads all rows ...
CleanupList ==
    /\ "cleanup" \in Faults /\ engine = "db"
    /\ listed = {} /\ expired # {}
    /\ listed' = expired
    /\ UNCHANGED <<engine, cookie, rowVars, issued, pc, requestVars, historyVars>>

\* ... and deletes those that were expired one by one.
CleanupDelete(k) ==
    /\ k \in listed
    /\ listed' = listed \ {k}
    /\ DeleteRow(k)
    /\ excused' = IF k \in expired THEN excused ELSE excused \cup Users(k)
    /\ UNCHANGED <<engine, cookie, issued, pc, requestVars, erased, known>>

Persist(r) ==
    \/ RespondFlush(r)
    \/ RespondEmptied(r)
    \/ RespondUnmodified(r)
    \/ RespondSave(r)
    \/ SaveUpdate(r)
    \/ SaveInsert(r)

Next ==
    \/ \E r \in Requests :
        \/ Load(r) \/ Purge(r) \/ \E c \in Clients : Send(c, r)
        \/ Write(r) \/ Clear(r) \/ Flush(r) \/ Login(r) \/ HandlerRaises(r)
        \/ Persist(r)
        \/ Deliver(r) \/ DeliverError(r) \/ Lose(r)
    \/ \E k \in Keys : Expire(k) \/ CleanupDelete(k)
    \/ CleanupList

Spec == Init /\ [][Next]_vars

-----------------------------------------------------------------------------
\* Properties

\* Clients that wait for each response before they send the next request.
Serial == {c \in Clients : MaxInFlight[c] = 1}

Idle(c) == \A r \in Requests : owner[r] = c => pc[r] \notin InFlight

\* "sess is a dict; assign to it and it persists" (docs/topics/sessions.md): a
\* client finds every item whose storing was confirmed to it in the session
\* that its cookie names, until the session expires or is emptied.  It may be
\* lost to a concurrent request, a login or a sweep: see EveryKnownIsKept.
KnownIsKept ==
    \A c \in Serial \ excused : Idle(c) => known[c] \subseteq Content(cookie[c])

\* The same without exceptions for clients that wait for each response.
EveryKnownIsKept ==
    \A c \in Serial : Idle(c) => known[c] \subseteq Content(cookie[c])

\* "flush(request) - destroy the session completely (data + cookie)": what a
\* flushed or emptied session contained is in no row again, although lost
\* responses leave clients with the keys of deleted rows.
ErasedStaysErased ==
    \A k \in stored : \A r \in data[k] \cap erased : owner[r] \notin Serial

\* A handler never finds another client's items in its session.
Isolation == \A r \in Requests : \A q \in session[r] : owner[q] = owner[r]

\* Saving a session never breaks the response: without concurrent requests of
\* the client no insert meets a row, whatever expires or is cleaned up.
NoInsertMeetsRow ==
    \A r \in Requests :
        pc[r] = "inserting" /\ owner[r] \in Serial => key[r] \notin stored
=============================================================================
