--------------------------- MODULE SessionsProofs ---------------------------
(***************************************************************************)
(* Proofs about Sessions, for any numbers of clients, requests and keys,   *)
(* for both engines, every operation of a handler and every fault.         *)
(***************************************************************************)
EXTENDS Sessions, FiniteSetTheorems, TLAPS

\* Who can own a request, sent or not.
Owners == Clients \cup {NoClient}

\* The session key k leads to the client x: it is in the jar of x, it is the
\* key of a request of x, or the row of k holds an item of x.
Leads(k, x) ==
    \/ x \in Clients /\ cookie[x] = k
    \/ \E r \in Requests : owner[r] = x /\ (key[r] = k \/ r \in data[k])

\* No key leads to two clients ...
OneClient == \A k \in Keys : \A x, y \in Owners : Leads(k, x) /\ Leads(k, y) => x = y

\* ... because a key that new_key has not returned leads to nobody.
Unissued == \A k \in Keys \ issued : \A x \in Owners : ~ Leads(k, x)

\* A request that was not sent has left no trace.
Traceless ==
    \A r \in Requests : pc[r] = "new" =>
        /\ key[r] = NoKey /\ session[r] = {}
        /\ \A k \in Keys : r \notin data[k]
        /\ \A q \in Requests : r \notin session[q]

KeyInv == OneClient /\ Unissued /\ Traceless /\ Isolation

-----------------------------------------------------------------------------
\* Types

\* The operations on rows keep the types of rows.
LEMMA DeleteRowType ==
    ASSUME TypeOK, NEW k \in MaybeKey, DeleteRow(k)
    PROVE  stored' \subseteq Keys /\ data' \in [Keys -> SUBSET Requests] /\ expired' \subseteq stored'
BY DEF TypeOK, DeleteRow

LEMMA SaveRowType ==
    ASSUME TypeOK, NEW r \in Requests, NEW k \in Keys, SaveRow(r, k)
    PROVE  /\ stored' \subseteq Keys /\ data' \in [Keys -> SUBSET Requests] /\ expired' \subseteq stored'
           /\ pc' \in [Requests -> InFlight \cup {"new", "done"}]
BY DEF TypeOK, SaveRow, Goto, InFlight

LEMMA EraseType ==
    ASSUME TypeOK, NEW r \in Requests, owner[r] \in Clients, Erase(r)
    PROVE  erased' \subseteq Requests /\ known' \in [Clients -> SUBSET Requests]
BY DEF TypeOK, Erase, Content

LEMMA ContentType == ASSUME TypeOK, NEW k \in MaybeKey PROVE Content(k) \in SUBSET Requests
BY DEF TypeOK, Content

\* A request under way has an owner, one that is being saved has a key.
Under ==
    \A r \in Requests :
        /\ pc[r] # "new" => owner[r] \in Clients
        /\ key[r] # NoKey => owner[r] \in Clients
        /\ pc[r] \in {"updating", "inserting"} => key[r] \in Keys

TypeInv == TypeOK /\ Under

\* Types, strengthened with what a request under way has, so as to be inductive.
THEOREM TypeInvariant == Spec => []TypeInv
<1>1. Init => TypeInv
  <2> SUFFICES ASSUME Init PROVE TypeInv
    OBVIOUS
  <2>1. {modified, detached, flushed, sets, emptied} \subseteq [Requests -> BOOLEAN]
    BY DEF Init
  <2>2. TypeOK
    BY <2>1 DEF Init, TypeOK, MaybeKey, InFlight
  <2>3. Under
    BY DEF Init, Under
  <2> QED
    BY <2>2, <2>3 DEF TypeInv
<1>2. TypeInv /\ [Next]_vars => TypeInv'
  <2> SUFFICES ASSUME TypeInv, [Next]_vars PROVE TypeInv'
    OBVIOUS
  <2>0. TypeOK /\ Under
    BY DEF TypeInv
  <2> USE DEF rowVars, requestVars, historyVars, Goto
  <2>1. ASSUME NEW c \in Clients, NEW r \in Requests, Send(c, r) PROVE TypeInv'
    BY <2>0, <2>1 DEF Send, TypeInv, TypeOK, Under, MaybeKey, InFlight
  <2>2. ASSUME NEW r \in Requests, Load(r) PROVE TypeInv'
    <3>1. Content(key[r]) \in SUBSET Requests /\ key[r] \in MaybeKey
      BY <2>0, ContentType DEF TypeOK
    <3>2. stored' \subseteq Keys /\ data' \in [Keys -> SUBSET Requests] /\ expired' \subseteq stored'
      BY <2>0, <2>2, <3>1, DeleteRowType DEF Load, TypeOK
    <3>3. session' \in [Requests -> SUBSET Requests] /\ pc' \in [Requests -> InFlight \cup {"new", "done"}]
      BY <2>0, <2>2, <3>1 DEF Load, TypeOK, InFlight
    <3>4. TypeOK'
      BY <2>0, <2>2, <3>2, <3>3 DEF Load, TypeOK
    <3>5. Under'
      BY <2>0, <2>2 DEF Load, TypeOK, Under
    <3> QED
      BY <3>4, <3>5 DEF TypeInv
  <2>3. ASSUME NEW r \in Requests, Write(r) PROVE TypeInv'
    BY <2>0, <2>3 DEF Write, TypeInv, TypeOK, Under, MaybeKey, InFlight
  <2>4. ASSUME NEW r \in Requests, Clear(r) PROVE TypeInv'
    BY <2>0, <2>4 DEF Clear, TypeInv, TypeOK, Under, MaybeKey, InFlight
  <2>5. ASSUME NEW r \in Requests, Flush(r) PROVE TypeInv'
    <3>1. /\ modified' \in [Requests -> BOOLEAN] /\ flushed' \in [Requests -> BOOLEAN]
          /\ emptied' \in [Requests -> BOOLEAN] /\ session' \in [Requests -> SUBSET Requests]
      BY <2>0, <2>5 DEF Flush, TypeOK
    <3>2. TypeOK'
      BY <2>0, <2>5, <3>1 DEF Flush, TypeOK
    <3>3. Under'
      BY <2>0, <2>5 DEF Flush, Under
    <3> QED
      BY <3>2, <3>3 DEF TypeInv
  <2>6. ASSUME NEW r \in Requests, Login(r) PROVE TypeInv'
    <3>1. key[r] \in MaybeKey
      BY <2>0 DEF TypeOK
    <3>2. stored' \subseteq Keys /\ data' \in [Keys -> SUBSET Requests] /\ expired' \subseteq stored'
      BY <2>0, <2>6, <3>1, DeleteRowType DEF Login, CycleKey, TypeOK
    <3>3. /\ modified' \in [Requests -> BOOLEAN] /\ detached' \in [Requests -> BOOLEAN]
          /\ session' \in [Requests -> SUBSET Requests]
      <4>1. detached' \in [Requests -> BOOLEAN]
        BY <2>0, <2>6, Zenon DEF Login, CycleKey, TypeOK
      <4>2. session' \in [Requests -> SUBSET Requests]
        BY <2>0, <2>6 DEF Login, TypeOK
      <4>3. modified' \in [Requests -> BOOLEAN]
        BY <2>0, <2>6 DEF Login, TypeOK
      <4> QED
        BY <4>1, <4>2, <4>3
    <3>4. excused' \subseteq Clients
      BY <2>0, <2>6 DEF Login, TypeOK, Under
    <3>5. TypeOK'
      BY <2>0, <2>6, <3>2, <3>3, <3>4 DEF Login, TypeOK
    <3>6. Under'
      BY <2>0, <2>6 DEF Login, Under
    <3> QED
      BY <3>5, <3>6 DEF TypeInv
  <2>7. ASSUME NEW r \in Requests, HandlerRaises(r) PROVE TypeInv'
    BY <2>0, <2>7 DEF HandlerRaises, TypeInv, TypeOK, Under, MaybeKey, InFlight
  <2>8. ASSUME NEW r \in Requests, RespondFlush(r) PROVE TypeInv'
    <3>1. key[r] \in MaybeKey /\ owner[r] \in Clients
      BY <2>0, <2>8 DEF TypeOK, Under, RespondFlush
    <3>2. stored' \subseteq Keys /\ data' \in [Keys -> SUBSET Requests] /\ expired' \subseteq stored'
      BY <2>0, <2>8, <3>1, DeleteRowType DEF RespondFlush
    <3>3. erased' \subseteq Requests /\ known' \in [Clients -> SUBSET Requests]
      BY <2>0, <2>8, <3>1, EraseType DEF RespondFlush
    <3> QED
      BY <2>0, <2>8, <3>1, <3>2, <3>3 DEF RespondFlush, TypeInv, TypeOK, Under, InFlight, MaybeKey
  <2>9. ASSUME NEW r \in Requests, RespondEmptied(r) PROVE TypeInv'
    <3>1. key[r] \in MaybeKey /\ owner[r] \in Clients
      BY <2>0, <2>9 DEF TypeOK, Under, RespondEmptied
    <3>2. stored' \subseteq Keys /\ data' \in [Keys -> SUBSET Requests] /\ expired' \subseteq stored'
      BY <2>0, <2>9, <3>1, DeleteRowType DEF RespondEmptied
    <3>3. erased' \subseteq Requests /\ known' \in [Clients -> SUBSET Requests]
      BY <2>0, <2>9, <3>1, EraseType DEF RespondEmptied
    <3> QED
      BY <2>0, <2>9, <3>1, <3>2, <3>3 DEF RespondEmptied, TypeInv, TypeOK, Under, InFlight, MaybeKey
  <2>10. ASSUME NEW r \in Requests, RespondUnmodified(r) PROVE TypeInv'
    BY <2>0, <2>10 DEF RespondUnmodified, TypeInv, TypeOK, Under, MaybeKey, InFlight
  <2>11. ASSUME NEW r \in Requests, RespondSave(r) PROVE TypeInv'
    <3>1. owner[r] \in Clients /\ key[r] \in MaybeKey
      BY <2>0, <2>11 DEF TypeOK, Under, RespondSave
    <3>2. key' \in [Requests -> MaybeKey] /\ key'[r] \in Keys /\ issued' \subseteq Keys
      BY <2>0, <2>11, <3>1 DEF RespondSave, NewKey, TypeOK, MaybeKey
    <3>3. \A q \in Requests \ {r} : key'[q] = key[q]
      BY <2>0, <2>11 DEF RespondSave, NewKey, TypeOK
    <3>4. CASE engine = "cache"
      <4>1. SaveRow(r, key'[r]) /\ Erase(r)
        BY <2>11, <3>4 DEF RespondSave
      <4>2. /\ stored' \subseteq Keys /\ data' \in [Keys -> SUBSET Requests]
            /\ expired' \subseteq stored' /\ pc' \in [Requests -> InFlight \cup {"new", "done"}]
        BY <2>0, <3>2, <4>1, SaveRowType
      <4>3. erased' \subseteq Requests /\ known' \in [Clients -> SUBSET Requests]
        BY <2>0, <3>1, <4>1, EraseType
      <4>4. pc' = [pc EXCEPT ![r] = "responded"]
        BY <4>1 DEF SaveRow
      <4> QED
        BY <2>0, <2>11, <3>1, <3>2, <3>3, <4>2, <4>3, <4>4 DEF RespondSave, TypeInv, TypeOK, Under
    <3>5. CASE engine # "cache"
      <4>1. pc' \in {[pc EXCEPT ![r] = "updating"], [pc EXCEPT ![r] = "inserting"]}
        BY <2>11, <3>5 DEF RespondSave
      <4>2. pc' \in [Requests -> InFlight \cup {"new", "done"}]
        BY <2>0, <4>1 DEF TypeOK, InFlight
      <4> QED
        BY <2>0, <2>11, <3>1, <3>2, <3>3, <3>5, <4>1, <4>2 DEF RespondSave, TypeInv, TypeOK, Under
    <3> QED
      BY <3>4, <3>5
  <2>12. ASSUME NEW r \in Requests, SaveUpdate(r) PROVE TypeInv'
    <3>1. owner[r] \in Clients /\ key[r] \in Keys
      BY <2>0, <2>12 DEF TypeOK, Under, SaveUpdate
    <3>2. CASE SaveRow(r, key[r]) /\ Erase(r)
      <4>1. /\ stored' \subseteq Keys /\ data' \in [Keys -> SUBSET Requests]
            /\ expired' \subseteq stored' /\ pc' \in [Requests -> InFlight \cup {"new", "done"}]
        BY <2>0, <3>1, <3>2, SaveRowType
      <4>2. erased' \subseteq Requests /\ known' \in [Clients -> SUBSET Requests]
        BY <2>0, <3>1, <3>2, EraseType
      <4>3. pc' = [pc EXCEPT ![r] = "responded"]
        BY <3>2 DEF SaveRow
      <4> QED
        BY <2>0, <2>12, <3>1, <4>1, <4>2, <4>3 DEF SaveUpdate, TypeInv, TypeOK, Under
    <3>3. CASE pc' = [pc EXCEPT ![r] = "inserting"] /\ UNCHANGED <<rowVars, erased, known>>
      BY <2>0, <2>12, <3>1, <3>3 DEF SaveUpdate, TypeInv, TypeOK, Under, InFlight
    <3> QED
      BY <2>12, <3>2, <3>3 DEF SaveUpdate
  <2>13. ASSUME NEW r \in Requests, SaveInsert(r) PROVE TypeInv'
    <3>1. owner[r] \in Clients /\ key[r] \in Keys
      BY <2>0, <2>13 DEF TypeOK, Under, SaveInsert
    <3>2. CASE SaveRow(r, key[r]) /\ Erase(r)
      <4>1. /\ stored' \subseteq Keys /\ data' \in [Keys -> SUBSET Requests]
            /\ expired' \subseteq stored' /\ pc' \in [Requests -> InFlight \cup {"new", "done"}]
        BY <2>0, <3>1, <3>2, SaveRowType
      <4>2. erased' \subseteq Requests /\ known' \in [Clients -> SUBSET Requests]
        BY <2>0, <3>1, <3>2, EraseType
      <4>3. pc' = [pc EXCEPT ![r] = "responded"]
        BY <3>2 DEF SaveRow
      <4> QED
        BY <2>0, <2>13, <3>1, <4>1, <4>2, <4>3 DEF SaveInsert, TypeInv, TypeOK, Under
    <3>3. CASE pc' = [pc EXCEPT ![r] = "failed"] /\ UNCHANGED <<rowVars, erased, known>>
      BY <2>0, <2>13, <3>1, <3>3 DEF SaveInsert, TypeInv, TypeOK, Under, InFlight
    <3> QED
      BY <2>13, <3>2, <3>3 DEF SaveInsert
  <2>14. ASSUME NEW r \in Requests, Deliver(r) PROVE TypeInv'
    BY <2>0, <2>14 DEF Deliver, TypeInv, TypeOK, Under, MaybeKey, InFlight
  <2>15. ASSUME NEW r \in Requests, DeliverError(r) PROVE TypeInv'
    BY <2>0, <2>15 DEF DeliverError, TypeInv, TypeOK, Under, MaybeKey, InFlight
  <2>16. ASSUME NEW r \in Requests, Lose(r) PROVE TypeInv'
    BY <2>0, <2>16 DEF Lose, TypeInv, TypeOK, Under, MaybeKey, InFlight
  <2>17. ASSUME NEW k \in Keys, Expire(k) PROVE TypeInv'
    BY <2>0, <2>17 DEF Expire, TypeInv, TypeOK, Under, MaybeKey, InFlight
  <2>18. ASSUME CleanupList PROVE TypeInv'
    BY <2>0, <2>18 DEF CleanupList, TypeInv, TypeOK, Under, MaybeKey, InFlight
  <2>19. ASSUME NEW k \in Keys, CleanupDelete(k) PROVE TypeInv'
    <3>1. stored' \subseteq Keys /\ data' \in [Keys -> SUBSET Requests] /\ expired' \subseteq stored'
      BY <2>0, <2>19, DeleteRowType DEF CleanupDelete, MaybeKey
    <3>2. excused' \subseteq Clients
      <4>1. \A r \in Requests : key[r] = k => owner[r] \in Clients
        BY <2>0, NamesAssumption DEF Under
      <4> QED
        BY <2>0, <2>19, <4>1 DEF CleanupDelete, Users, TypeOK
    <3> QED
      BY <2>0, <2>19, <3>1, <3>2 DEF CleanupDelete, TypeInv, TypeOK, Under
  <2>21. ASSUME NEW r \in Requests, Purge(r) PROVE TypeInv'
    <3>1. key[r] \in MaybeKey
      BY <2>0 DEF TypeOK
    <3>2. stored' \subseteq Keys /\ data' \in [Keys -> SUBSET Requests] /\ expired' \subseteq stored'
      BY <2>0, <2>21, <3>1, DeleteRowType DEF Purge, TypeOK
    <3>3. TypeOK'
      BY <2>0, <2>21, <3>2 DEF Purge, TypeOK, InFlight
    <3>4. Under'
      BY <2>0, <2>21 DEF Purge, TypeOK, Under
    <3> QED
      BY <3>3, <3>4 DEF TypeInv
  <2>20. CASE UNCHANGED vars
    BY <2>0, <2>20 DEF vars, TypeInv, TypeOK, Under
  <2> QED
    BY <2>1, <2>2, <2>3, <2>4, <2>5, <2>6, <2>7, <2>8, <2>9, <2>10, <2>11, <2>12, <2>13, <2>14, <2>15,
          <2>16, <2>17, <2>18, <2>19, <2>20, <2>21 DEF Next, Persist
<1> QED
  BY <1>1, <1>2, PTL DEF Spec

\* Every reachable state is type correct.
THEOREM TypeCorrect == Spec => []TypeOK
<1>1. TypeInv => TypeOK
  BY DEF TypeInv
<1> QED
  BY <1>1, TypeInvariant, PTL

-----------------------------------------------------------------------------
\* Isolation

\* A step after which keys lead to nobody new, and that forgets no issued key.
LEMMA FewerLeads ==
    ASSUME OneClient, Unissued, issued \subseteq issued',
           \A k \in Keys : \A x \in Owners : Leads(k, x)' => Leads(k, x)
    PROVE  OneClient' /\ Unissued'
BY Zenon DEF OneClient, Unissued

\* Storing the session of r under the key k it has or under a new one: k then
\* leads to nobody but the client of r.
LEMMA SaveLeads ==
    ASSUME TypeInv, KeyInv, NEW r \in Requests, NEW k \in Keys,
           owner[r] \in Clients, k = key[r] \/ k \notin issued,
           UNCHANGED <<cookie, owner>>,
           key' = [key EXCEPT ![r] = k],
           issued' = issued \cup {k},
           data' = data \/ data' = [data EXCEPT ![k] = session[r]]
    PROVE  OneClient' /\ Unissued'
<1>0. TypeOK /\ OneClient /\ Unissued /\ Isolation /\ owner[r] \in Owners
  BY DEF TypeInv, KeyInv, Owners
<1>1. \A j \in Keys \ {k} : \A x \in Owners : Leads(j, x)' => Leads(j, x)
  BY <1>0 DEF TypeOK, Leads
<1>2. \A x \in Owners : Leads(k, x)' => x = owner[r] \/ Leads(k, x)
  BY <1>0 DEF TypeOK, Leads, Isolation
<1>3. \A x \in Owners : Leads(k, x) => x = owner[r]
  <2>1. CASE k = key[r]
    <3>1. Leads(k, owner[r])
      BY <2>1 DEF Leads
    <3> QED
      BY <1>0, <3>1 DEF OneClient
  <2>2. CASE k \notin issued
    BY <1>0, <2>2 DEF Unissued
  <2> QED
    BY <2>1, <2>2
<1>4. OneClient'
  <2> SUFFICES ASSUME NEW j \in Keys, NEW x \in Owners, NEW y \in Owners, Leads(j, x)', Leads(j, y)'
               PROVE  x = y
    BY Zenon DEF OneClient
  <2>1. CASE j = k
    BY <1>2, <1>3, <2>1
  <2>2. CASE j # k
    BY <1>0, <1>1, <2>2 DEF OneClient
  <2> QED
    BY <2>1, <2>2
<1>5. Unissued'
  <2> SUFFICES ASSUME NEW j \in Keys \ issued', NEW x \in Owners PROVE ~ Leads(j, x)'
    BY Zenon DEF Unissued
  <2>1. j # k /\ j \notin issued
    OBVIOUS
  <2> QED
    BY <1>0, <1>1, <2>1 DEF Unissued
<1> QED
  BY <1>4, <1>5

\* Deleting a row only takes content away.
LEMMA DeleteRowLess ==
    ASSUME TypeOK, NEW k \in MaybeKey, DeleteRow(k)
    PROVE  \A j \in Keys : data'[j] \subseteq data[j]
BY DEF TypeOK, DeleteRow

\* A step that changes none of the cookies, keys and owners, and only takes
\* content away, changes nothing about whom a key leads to.
LEMMA SameLeads ==
    ASSUME TypeInv, KeyInv, UNCHANGED <<cookie, owner, key, issued>>,
           \A j \in Keys : data'[j] \subseteq data[j]
    PROVE  OneClient' /\ Unissued'
<1>1. \A k \in Keys : \A x \in Owners : Leads(k, x)' => Leads(k, x)
  BY DEF Leads
<1> QED
  BY <1>1, FewerLeads DEF KeyInv

\* Keys lead to one client each, so that no handler ever finds the items of
\* another client.
THEOREM KeyInvariant == Spec => []KeyInv
<1>1. Init => KeyInv
  <2> SUFFICES ASSUME Init PROVE KeyInv
    OBVIOUS
  <2>1. \A k \in Keys : \A x \in Owners : ~ Leads(k, x)
    BY NamesAssumption DEF Init, Leads
  <2> QED
    BY <2>1 DEF Init, KeyInv, OneClient, Unissued, Traceless, Isolation
<1>2. TypeInv /\ KeyInv /\ [Next]_vars => KeyInv'
  <2> SUFFICES ASSUME TypeInv, KeyInv, [Next]_vars PROVE KeyInv'
    OBVIOUS
  <2>0. TypeOK /\ Under /\ OneClient /\ Unissued /\ Traceless /\ Isolation
    BY DEF TypeInv, KeyInv
  <2> USE DEF rowVars, requestVars, historyVars, Goto
  <2>1. ASSUME NEW c \in Clients, NEW r \in Requests, Send(c, r) PROVE KeyInv'
    <3>1. r \in Requests /\ pc[r] = "new" /\ \A k \in Keys : r \notin data[k]
      BY <2>0, <2>1 DEF Send, Traceless
    <3>2. \A k \in Keys : \A x \in Owners : Leads(k, x)' => Leads(k, x)
      BY <2>0, <2>1, <3>1 DEF Send, Leads, TypeOK
    <3>3. OneClient' /\ Unissued'
      BY <2>0, <2>1, <3>2, FewerLeads DEF Send
    <3>4. Traceless' /\ Isolation'
      BY <2>0, <2>1 DEF Send, TypeOK, Traceless, Isolation
    <3> QED
      BY <3>3, <3>4 DEF KeyInv
  <2>2. ASSUME NEW r \in Requests, Load(r) PROVE KeyInv'
    <3>1. \A j \in Keys : data'[j] \subseteq data[j]
      BY <2>0, <2>2, DeleteRowLess DEF Load, TypeOK
    <3>2. OneClient' /\ Unissued'
      BY <2>2, <3>1, SameLeads DEF Load
    <3>3. \A q \in Content(key[r]) : q \in Requests /\ pc[q] # "new" /\ owner[q] = owner[r]
      <4> SUFFICES ASSUME NEW q \in Content(key[r])
                   PROVE  q \in Requests /\ pc[q] # "new" /\ owner[q] = owner[r]
        OBVIOUS
      <4>1. key[r] \in Keys /\ q \in data[key[r]] /\ q \in Requests
        BY <2>0 DEF Content, TypeOK
      <4>2. Leads(key[r], owner[q]) /\ Leads(key[r], owner[r])
        BY <4>1 DEF Leads
      <4>3. owner[q] \in Owners /\ owner[r] \in Owners
        BY <2>0, <4>1 DEF TypeOK, Owners
      <4> QED
        BY <2>0, <4>1, <4>2, <4>3 DEF OneClient, Traceless
    <3>4. /\ session' = [session EXCEPT ![r] = Content(key[r])]
          /\ pc'[r] # "new" /\ \A q \in Requests \ {r} : pc'[q] = pc[q]
          /\ UNCHANGED <<owner, key>>
      BY <2>0, <2>2 DEF Load, TypeOK
    <3>5. Traceless' /\ Isolation'
      BY <2>0, <3>1, <3>3, <3>4 DEF TypeOK, Traceless, Isolation
    <3> QED
      BY <3>2, <3>5 DEF KeyInv
  <2>3. ASSUME NEW r \in Requests, Write(r) PROVE KeyInv'
    <3>1. OneClient' /\ Unissued'
      BY <2>3, SameLeads DEF Write
    <3>2. Traceless' /\ Isolation'
      BY <2>0, <2>3 DEF Write, TypeOK, Traceless, Isolation
    <3> QED
      BY <3>1, <3>2 DEF KeyInv
  <2>4. ASSUME NEW r \in Requests, Clear(r) PROVE KeyInv'
    <3>1. OneClient' /\ Unissued'
      BY <2>4, SameLeads DEF Clear
    <3>2. Traceless' /\ Isolation'
      BY <2>0, <2>4 DEF Clear, TypeOK, Traceless, Isolation
    <3> QED
      BY <3>1, <3>2 DEF KeyInv
  <2>5. ASSUME NEW r \in Requests, Flush(r) PROVE KeyInv'
    <3>1. OneClient' /\ Unissued'
      BY <2>5, SameLeads DEF Flush
    <3>2. Traceless' /\ Isolation'
      BY <2>0, <2>5 DEF Flush, TypeOK, Traceless, Isolation
    <3> QED
      BY <3>1, <3>2 DEF KeyInv
  <2>6. ASSUME NEW r \in Requests, Login(r) PROVE KeyInv'
    <3>1. \A j \in Keys : data'[j] \subseteq data[j]
      BY <2>0, <2>6, DeleteRowLess DEF Login, CycleKey, TypeOK, MaybeKey
    <3>2. OneClient' /\ Unissued'
      BY <2>6, <3>1, SameLeads DEF Login, CycleKey
    <3>3. Traceless' /\ Isolation'
      BY <2>0, <2>6, <3>1 DEF Login, CycleKey, TypeOK, Traceless, Isolation
    <3> QED
      BY <3>2, <3>3 DEF KeyInv
  <2>7. ASSUME NEW r \in Requests, HandlerRaises(r) PROVE KeyInv'
    <3>1. OneClient' /\ Unissued'
      BY <2>7, SameLeads DEF HandlerRaises
    <3>2. Traceless' /\ Isolation'
      BY <2>0, <2>7 DEF HandlerRaises, TypeOK, Traceless, Isolation
    <3> QED
      BY <3>1, <3>2 DEF KeyInv
  <2>8. ASSUME NEW r \in Requests, RespondFlush(r) PROVE KeyInv'
    <3>1. \A j \in Keys : data'[j] \subseteq data[j]
      BY <2>0, <2>8, DeleteRowLess DEF RespondFlush, TypeOK, MaybeKey
    <3>2. OneClient' /\ Unissued'
      <4>1. \A k \in Keys : \A x \in Owners : Leads(k, x)' => Leads(k, x)
        BY <2>0, <2>8, <3>1, NamesAssumption DEF RespondFlush, Leads, TypeOK
      <4> QED
        BY <2>0, <2>8, <4>1, FewerLeads DEF RespondFlush
    <3>3. Traceless' /\ Isolation'
      BY <2>0, <2>8, <3>1 DEF RespondFlush, TypeOK, Traceless, Isolation
    <3> QED
      BY <3>2, <3>3 DEF KeyInv
  <2>9. ASSUME NEW r \in Requests, RespondEmptied(r) PROVE KeyInv'
    <3>1. \A j \in Keys : data'[j] \subseteq data[j]
      BY <2>0, <2>9, DeleteRowLess DEF RespondEmptied, TypeOK, MaybeKey
    <3>2. OneClient' /\ Unissued'
      <4>1. \A k \in Keys : \A x \in Owners : Leads(k, x)' => Leads(k, x)
        BY <2>0, <2>9, <3>1, NamesAssumption DEF RespondEmptied, Leads, TypeOK
      <4> QED
        BY <2>0, <2>9, <4>1, FewerLeads DEF RespondEmptied
    <3>3. Traceless' /\ Isolation'
      BY <2>0, <2>9, <3>1 DEF RespondEmptied, TypeOK, Traceless, Isolation
    <3> QED
      BY <3>2, <3>3 DEF KeyInv
  <2>10. ASSUME NEW r \in Requests, RespondUnmodified(r) PROVE KeyInv'
    <3>1. OneClient' /\ Unissued'
      BY <2>10, SameLeads DEF RespondUnmodified
    <3>2. Traceless' /\ Isolation'
      BY <2>0, <2>10 DEF RespondUnmodified, TypeOK, Traceless, Isolation
    <3> QED
      BY <3>1, <3>2 DEF KeyInv
  <2>11. ASSUME NEW r \in Requests, RespondSave(r) PROVE KeyInv'
    <3>0. owner[r] \in Clients /\ key[r] \in MaybeKey /\ pc[r] = "handling" /\ UNCHANGED <<cookie, owner, session>>
      BY <2>0, <2>11 DEF TypeOK, Under, RespondSave
    <3>1. PICK k \in Keys : /\ k = key[r] \/ k \notin issued
                           /\ key' = [key EXCEPT ![r] = k]
                           /\ issued' = issued \cup {k}
      <4>1. CASE key[r] = NoKey
        BY <2>0, <2>11, <4>1 DEF RespondSave, NewKey
      <4>2. CASE key[r] # NoKey
        <5>1. Leads(key[r], owner[r]) /\ owner[r] \in Owners /\ key[r] \in Keys
          BY <3>0, <4>2 DEF Leads, Owners, MaybeKey
        <5>2. key[r] \in issued
          BY <2>0, <5>1 DEF Unissued
        <5>3. key' = [key EXCEPT ![r] = key[r]] /\ issued' = issued \cup {key[r]}
          BY <2>0, <2>11, <4>2, <5>2 DEF RespondSave, TypeOK
        <5> QED
          BY <5>1, <5>3
      <4> QED
        BY <4>1, <4>2
    <3>2. data' = data \/ data' = [data EXCEPT ![k] = session[r]]
      BY <2>0, <2>11, <3>1 DEF RespondSave, SaveRow, TypeOK
    <3>3. OneClient' /\ Unissued'
      BY <3>0, <3>1, <3>2, SaveLeads
    <3>4. \A q \in Requests : pc'[q] = "new" => q # r /\ pc[q] = "new"
      BY <2>0, <2>11 DEF RespondSave, SaveRow, TypeOK
    <3>5. Traceless' /\ Isolation'
      BY <2>0, <3>0, <3>1, <3>2, <3>4 DEF TypeOK, Traceless, Isolation
    <3> QED
      BY <3>3, <3>5 DEF KeyInv
  <2>12. ASSUME NEW r \in Requests, SaveUpdate(r) PROVE KeyInv'
    <3>0. owner[r] \in Clients /\ key[r] \in Keys /\ pc[r] # "new" /\ UNCHANGED <<cookie, owner, key, session, issued>>
      BY <2>0, <2>12 DEF TypeOK, Under, SaveUpdate
    <3>1. key[r] \in issued
      <4>1. Leads(key[r], owner[r]) /\ owner[r] \in Owners
        BY <3>0 DEF Leads, Owners
      <4> QED
        BY <2>0, <3>0, <4>1 DEF Unissued
    <3>2. data' = data \/ data' = [data EXCEPT ![key[r]] = session[r]]
      BY <2>0, <2>12, <3>0 DEF SaveUpdate, SaveRow, TypeOK
    <3>3. OneClient' /\ Unissued'
      <4>1. key' = [key EXCEPT ![r] = key[r]] /\ issued' = issued \cup {key[r]}
        BY <2>0, <3>0, <3>1 DEF TypeOK
      <4> QED
        BY <3>0, <3>2, <4>1, SaveLeads
    <3>4. \A q \in Requests : pc'[q] = "new" => q # r /\ pc[q] = "new"
      BY <2>0, <2>12, <3>0 DEF SaveUpdate, SaveRow, TypeOK
    <3>5. Traceless' /\ Isolation'
      BY <2>0, <3>0, <3>2, <3>4 DEF TypeOK, Traceless, Isolation
    <3> QED
      BY <3>3, <3>5 DEF KeyInv
  <2>13. ASSUME NEW r \in Requests, SaveInsert(r) PROVE KeyInv'
    <3>0. owner[r] \in Clients /\ key[r] \in Keys /\ pc[r] # "new" /\ UNCHANGED <<cookie, owner, key, session, issued>>
      BY <2>0, <2>13 DEF TypeOK, Under, SaveInsert
    <3>1. key[r] \in issued
      <4>1. Leads(key[r], owner[r]) /\ owner[r] \in Owners
        BY <3>0 DEF Leads, Owners
      <4> QED
        BY <2>0, <3>0, <4>1 DEF Unissued
    <3>2. data' = data \/ data' = [data EXCEPT ![key[r]] = session[r]]
      BY <2>0, <2>13, <3>0 DEF SaveInsert, SaveRow, TypeOK
    <3>3. OneClient' /\ Unissued'
      <4>1. key' = [key EXCEPT ![r] = key[r]] /\ issued' = issued \cup {key[r]}
        BY <2>0, <3>0, <3>1 DEF TypeOK
      <4> QED
        BY <3>0, <3>2, <4>1, SaveLeads
    <3>4. \A q \in Requests : pc'[q] = "new" => q # r /\ pc[q] = "new"
      BY <2>0, <2>13, <3>0 DEF SaveInsert, SaveRow, TypeOK
    <3>5. Traceless' /\ Isolation'
      BY <2>0, <3>0, <3>2, <3>4 DEF TypeOK, Traceless, Isolation
    <3> QED
      BY <3>3, <3>5 DEF KeyInv
  <2>14. ASSUME NEW r \in Requests, Deliver(r) PROVE KeyInv'
    <3>1. \A k \in Keys : \A x \in Owners : Leads(k, x)' => Leads(k, x)
      BY <2>0, <2>14 DEF Deliver, Leads, TypeOK
    <3>2. OneClient' /\ Unissued'
      BY <2>0, <2>14, <3>1, FewerLeads DEF Deliver
    <3>3. Traceless' /\ Isolation'
      BY <2>0, <2>14 DEF Deliver, TypeOK, Traceless, Isolation
    <3> QED
      BY <3>2, <3>3 DEF KeyInv
  <2>15. ASSUME NEW r \in Requests, DeliverError(r) PROVE KeyInv'
    <3>1. OneClient' /\ Unissued'
      BY <2>15, SameLeads DEF DeliverError
    <3>2. Traceless' /\ Isolation'
      BY <2>0, <2>15 DEF DeliverError, TypeOK, Traceless, Isolation
    <3> QED
      BY <3>1, <3>2 DEF KeyInv
  <2>16. ASSUME NEW r \in Requests, Lose(r) PROVE KeyInv'
    <3>1. OneClient' /\ Unissued'
      BY <2>16, SameLeads DEF Lose
    <3>2. Traceless' /\ Isolation'
      BY <2>0, <2>16 DEF Lose, TypeOK, Traceless, Isolation
    <3> QED
      BY <3>1, <3>2 DEF KeyInv
  <2>17. ASSUME NEW k \in Keys, Expire(k) PROVE KeyInv'
    <3>1. \A j \in Keys : \A x \in Owners : Leads(j, x)' => Leads(j, x)
      BY <2>0, <2>17, NamesAssumption DEF Expire, Leads, TypeOK
    <3>2. OneClient' /\ Unissued'
      BY <2>0, <2>17, <3>1, FewerLeads DEF Expire
    <3>3. Traceless' /\ Isolation'
      BY <2>0, <2>17 DEF Expire, Traceless, Isolation
    <3> QED
      BY <3>2, <3>3 DEF KeyInv
  <2>18. ASSUME CleanupList PROVE KeyInv'
    <3>1. OneClient' /\ Unissued'
      BY <2>18, SameLeads DEF CleanupList
    <3>2. Traceless' /\ Isolation'
      BY <2>0, <2>18 DEF CleanupList, TypeOK, Traceless, Isolation
    <3> QED
      BY <3>1, <3>2 DEF KeyInv
  <2>19. ASSUME NEW k \in Keys, CleanupDelete(k) PROVE KeyInv'
    <3>1. \A j \in Keys : data'[j] \subseteq data[j]
      BY <2>0, <2>19, DeleteRowLess DEF CleanupDelete, TypeOK, MaybeKey
    <3>2. OneClient' /\ Unissued'
      BY <2>19, <3>1, SameLeads DEF CleanupDelete
    <3>3. Traceless' /\ Isolation'
      BY <2>0, <2>19, <3>1 DEF CleanupDelete, TypeOK, Traceless, Isolation
    <3> QED
      BY <3>2, <3>3 DEF KeyInv
  <2>21. ASSUME NEW r \in Requests, Purge(r) PROVE KeyInv'
    <3>1. \A j \in Keys : data'[j] \subseteq data[j]
      BY <2>0, <2>21, DeleteRowLess DEF Purge, TypeOK
    <3>2. OneClient' /\ Unissued'
      BY <2>21, <3>1, SameLeads DEF Purge
    <3>3. Traceless' /\ Isolation'
      BY <2>0, <2>21, <3>1 DEF Purge, TypeOK, Traceless, Isolation
    <3> QED
      BY <3>2, <3>3 DEF KeyInv
  <2>20. CASE UNCHANGED vars
    BY <2>0, <2>20, SameLeads DEF vars, KeyInv, Traceless, Isolation
  <2> QED
    BY <2>1, <2>2, <2>3, <2>4, <2>5, <2>6, <2>7, <2>8, <2>9, <2>10, <2>11, <2>12, <2>13, <2>14, <2>15,
          <2>16, <2>17, <2>18, <2>19, <2>20, <2>21 DEF Next, Persist
<1> QED
  BY <1>1, <1>2, TypeInvariant, PTL DEF Spec

\* No handler ever finds another client's items in its session.
THEOREM IsolationHolds == Spec => []Isolation
<1>1. KeyInv => Isolation
  BY DEF KeyInv
<1> QED
  BY <1>1, KeyInvariant, PTL

-----------------------------------------------------------------------------
\* Saving

\* A client that waits for each response has one request under way at most.
OneInFlight ==
    \A r, q \in Requests :
        /\ pc[r] \in InFlight /\ pc[q] \in InFlight
        /\ owner[r] = owner[q] /\ owner[r] \in Serial
        => r = q

\* The row that load is about to delete has not been saved since it expired.
PurgesExpired ==
    \A r \in Requests :
        pc[r] = "purging" /\ owner[r] \in Serial => key[r] \notin stored \ expired

SaveInv == OneInFlight /\ NoInsertMeetsRow /\ PurgesExpired

\* A step that sends nothing, starts no insert and no purge, and stores no row.
LEMMA NothingSaved ==
    ASSUME TypeOK, SaveInv, UNCHANGED <<owner, key>>, stored' \subseteq stored,
           stored' \ expired' \subseteq stored \ expired,
           \A q \in Requests :
                /\ pc'[q] \in InFlight => pc[q] \in InFlight
                /\ pc'[q] = "inserting" => pc[q] = "inserting"
                /\ pc'[q] = "purging" => pc[q] = "purging"
    PROVE  SaveInv'
<1>1. OneInFlight'
  BY DEF SaveInv, OneInFlight, Serial
<1>2. NoInsertMeetsRow'
  BY DEF SaveInv, NoInsertMeetsRow, Serial
<1>3. PurgesExpired'
  BY DEF SaveInv, PurgesExpired, Serial
<1> QED
  BY <1>1, <1>2, <1>3 DEF SaveInv

\* A request that saves its row meets no insert and no purge of the same client.
LEMMA RowSaved ==
    ASSUME TypeInv, KeyInv, KeyInv', SaveInv, NEW r \in Requests, NEW k \in Keys,
           pc[r] \in InFlight, owner[r] \in Clients, owner' = owner,
           key' = [key EXCEPT ![r] = k], stored' = stored \cup {k}, expired' = expired \ {k},
           pc' = [pc EXCEPT ![r] = "responded"]
    PROVE  SaveInv'
<1>0. TypeOK /\ OneClient' /\ OneInFlight /\ NoInsertMeetsRow /\ PurgesExpired
  BY DEF TypeInv, KeyInv, SaveInv
<1>1. OneInFlight'
  BY <1>0 DEF TypeOK, OneInFlight, Serial, InFlight
<1>2. ASSUME NEW q \in Requests, pc'[q] \in {"inserting", "purging"}, owner[q] \in Serial
      PROVE  pc[q] = pc'[q] /\ key'[q] = key[q] /\ key'[q] # k
  <2>1. q # r /\ pc[q] = pc'[q] /\ pc[q] \in InFlight /\ key'[q] = key[q] /\ key'[r] = k
    BY <1>0, <1>2 DEF TypeOK, InFlight
  <2>2. owner[q] # owner[r]
    BY <1>0, <1>2, <2>1 DEF OneInFlight
  <2>3. key'[q] # k
    <3> SUFFICES ASSUME key'[q] = k PROVE FALSE
      OBVIOUS
    <3>1. PICK x \in Owners : x = owner[q]
      BY <1>2 DEF Owners, Serial
    <3>2. PICK y \in Owners : y = owner[r]
      BY DEF Owners
    <3>3. Leads(k, x)'
      BY <2>1, <3>1 DEF Leads
    <3>4. Leads(k, y)'
      BY <2>1, <3>2 DEF Leads
    <3>5. x = y
      BY <1>0, <3>3, <3>4 DEF OneClient
    <3> QED
      BY <2>2, <3>1, <3>2, <3>5
  <2> QED
    BY <2>1, <2>3
<1>3. NoInsertMeetsRow'
  BY <1>0, <1>2 DEF NoInsertMeetsRow, Serial
<1>4. PurgesExpired'
  BY <1>0, <1>2 DEF PurgesExpired, Serial
<1> QED
  BY <1>1, <1>3, <1>4 DEF SaveInv

\* Deleting a row stores none.
LEMMA DeleteRowStored ==
    ASSUME NEW k, DeleteRow(k)
    PROVE  stored' \subseteq stored /\ stored' \ expired' \subseteq stored \ expired
BY DEF DeleteRow

\* A client that waits has one request under way, and its inserts meet no row.
THEOREM SaveInvariant == Spec => []SaveInv
<1>1. Init => SaveInv
  BY DEF Init, SaveInv, OneInFlight, NoInsertMeetsRow, PurgesExpired, InFlight
<1>2. TypeInv /\ KeyInv /\ KeyInv' /\ SaveInv /\ [Next]_vars => SaveInv'
  <2> SUFFICES ASSUME TypeInv, KeyInv, KeyInv', SaveInv, [Next]_vars PROVE SaveInv'
    OBVIOUS
  <2>0. TypeOK /\ Under /\ Traceless /\ OneInFlight /\ NoInsertMeetsRow /\ PurgesExpired
    BY DEF TypeInv, KeyInv, SaveInv
  <2> USE DEF rowVars, requestVars, historyVars, Goto, InFlight
  <2>1. ASSUME NEW c \in Clients, NEW r \in Requests, Send(c, r) PROVE SaveInv'
    <3>1. pc[r] = "new" /\ owner' = [owner EXCEPT ![r] = c] /\ pc' = [pc EXCEPT ![r] = "sent"]
          /\ UNCHANGED <<stored, expired>> /\ \A q \in Requests : q # r => key'[q] = key[q]
      BY <2>0, <2>1 DEF Send, TypeOK
    <3>2. c \in Serial => \A q \in Requests : owner[q] = c => pc[q] \notin InFlight
      <4> SUFFICES ASSUME c \in Serial PROVE {q \in Requests : owner[q] = c /\ pc[q] \in InFlight} = {}
        OBVIOUS
      <4> DEFINE S == {q \in Requests : owner[q] = c /\ pc[q] \in InFlight}
      <4>1. IsFiniteSet(S)
        BY RequestAssumption, FS_Subset
      <4>2. Cardinality(S) < 1
        BY <2>1 DEF Send, Serial
      <4>3. Cardinality(S) = 0
        BY <4>1, <4>2, FS_CardinalityType
      <4> QED
        BY <4>1, <4>3, FS_EmptySet
    <3>3. OneInFlight'
      BY <2>0, <3>1, <3>2 DEF TypeOK, OneInFlight, Serial
    <3>4. NoInsertMeetsRow'
      BY <2>0, <3>1 DEF TypeOK, NoInsertMeetsRow, Serial
    <3>5. PurgesExpired'
      BY <2>0, <3>1 DEF TypeOK, PurgesExpired, Serial
    <3> QED
      BY <3>3, <3>4, <3>5 DEF SaveInv
  <2>2. ASSUME NEW r \in Requests, Load(r) PROVE SaveInv'
    <3>1. stored' \subseteq stored /\ stored' \ expired' \subseteq stored \ expired
      BY <2>2, DeleteRowStored DEF Load
    <3>2. CASE pc' = [pc EXCEPT ![r] = "handling"]
      BY <2>0, <2>2, <3>1, <3>2, NothingSaved DEF Load, TypeOK
    <3>3. CASE key[r] \in expired /\ pc' = [pc EXCEPT ![r] = "purging"]
      <4>1. pc[r] = "sent" /\ UNCHANGED <<owner, key>>
        BY <2>2 DEF Load
      <4>2. OneInFlight' /\ NoInsertMeetsRow'
        BY <2>0, <3>1, <3>3, <4>1 DEF TypeOK, OneInFlight, NoInsertMeetsRow, Serial
      <4>3. key[r] \notin stored \ expired
        BY <3>3
      <4>4. PurgesExpired'
        BY <2>0, <3>1, <3>3, <4>1, <4>3 DEF TypeOK, PurgesExpired, Serial
      <4> QED
        BY <4>2, <4>4 DEF SaveInv
    <3> QED
      BY <2>2, <3>2, <3>3 DEF Load
  <2>3. ASSUME NEW r \in Requests, Write(r) PROVE SaveInv'
    BY <2>0, <2>3, NothingSaved DEF Write, TypeOK
  <2>4. ASSUME NEW r \in Requests, Clear(r) PROVE SaveInv'
    BY <2>0, <2>4, NothingSaved DEF Clear, TypeOK
  <2>5. ASSUME NEW r \in Requests, Flush(r) PROVE SaveInv'
    BY <2>0, <2>5, NothingSaved DEF Flush, TypeOK
  <2>6. ASSUME NEW r \in Requests, Login(r) PROVE SaveInv'
    <3>1. stored' \subseteq stored /\ stored' \ expired' \subseteq stored \ expired
      BY <2>6, DeleteRowStored DEF Login, CycleKey
    <3> QED
      BY <2>0, <2>6, <3>1, NothingSaved DEF Login, CycleKey, TypeOK
  <2>7. ASSUME NEW r \in Requests, HandlerRaises(r) PROVE SaveInv'
    BY <2>0, <2>7, NothingSaved DEF HandlerRaises, TypeOK
  <2>8. ASSUME NEW r \in Requests, RespondFlush(r) PROVE SaveInv'
    <3>1. stored' \subseteq stored /\ stored' \ expired' \subseteq stored \ expired /\ owner' = owner /\ key' = [key EXCEPT ![r] = NoKey]
          /\ pc' = [pc EXCEPT ![r] = "responded"] /\ pc[r] = "handling"
      BY <2>8, DeleteRowStored DEF RespondFlush
    <3>2. OneInFlight'
      BY <2>0, <3>1 DEF TypeOK, OneInFlight, Serial
    <3>3. NoInsertMeetsRow' /\ PurgesExpired'
      BY <2>0, <3>1 DEF TypeOK, NoInsertMeetsRow, PurgesExpired, Serial
    <3> QED
      BY <3>2, <3>3 DEF SaveInv
  <2>9. ASSUME NEW r \in Requests, RespondEmptied(r) PROVE SaveInv'
    <3>1. stored' \subseteq stored /\ stored' \ expired' \subseteq stored \ expired /\ owner' = owner /\ key' = [key EXCEPT ![r] = NoKey]
          /\ pc' = [pc EXCEPT ![r] = "responded"] /\ pc[r] = "handling"
      BY <2>9, DeleteRowStored DEF RespondEmptied
    <3>2. OneInFlight'
      BY <2>0, <3>1 DEF TypeOK, OneInFlight, Serial
    <3>3. NoInsertMeetsRow' /\ PurgesExpired'
      BY <2>0, <3>1 DEF TypeOK, NoInsertMeetsRow, PurgesExpired, Serial
    <3> QED
      BY <3>2, <3>3 DEF SaveInv
  <2>10. ASSUME NEW r \in Requests, RespondUnmodified(r) PROVE SaveInv'
    BY <2>0, <2>10, NothingSaved DEF RespondUnmodified, TypeOK
  <2>11. ASSUME NEW r \in Requests, RespondSave(r) PROVE SaveInv'
    <3>1. pc[r] = "handling" /\ owner[r] \in Clients /\ owner' = owner
      BY <2>0, <2>11 DEF RespondSave, Under
    <3>2. PICK k \in Keys : key' = [key EXCEPT ![r] = k]
      BY <2>0, <2>11 DEF RespondSave, NewKey, TypeOK, MaybeKey
    <3>3. key'[r] = k
      BY <2>0, <3>2 DEF TypeOK
    <3>4. CASE engine = "cache"
      <4>1. stored' = stored \cup {k} /\ expired' = expired \ {k} /\ pc' = [pc EXCEPT ![r] = "responded"]
        BY <2>11, <3>3, <3>4 DEF RespondSave, SaveRow
      <4> QED
        BY <3>1, <3>2, <4>1, RowSaved
    <3>5. CASE engine # "cache"
      <4>1. UNCHANGED <<stored, expired>> /\ pc' = [pc EXCEPT ![r] = IF k \in stored THEN "updating" ELSE "inserting"]
        BY <2>11, <3>3, <3>5 DEF RespondSave, FindRow
      <4>2. OneInFlight'
        BY <2>0, <3>1, <4>1 DEF TypeOK, OneInFlight, Serial
      <4>3. NoInsertMeetsRow' /\ PurgesExpired'
        BY <2>0, <3>1, <3>2, <4>1 DEF TypeOK, NoInsertMeetsRow, PurgesExpired, Serial
      <4> QED
        BY <4>2, <4>3 DEF SaveInv
    <3> QED
      BY <3>4, <3>5
  <2>12. ASSUME NEW r \in Requests, SaveUpdate(r) PROVE SaveInv'
    <3>1. pc[r] = "updating" /\ owner[r] \in Clients /\ key[r] \in Keys /\ UNCHANGED <<owner, key>>
      BY <2>0, <2>12 DEF SaveUpdate, Under
    <3>2. CASE key[r] \in stored
      <4>1. key' = [key EXCEPT ![r] = key[r]]
        BY <2>0, <3>1 DEF TypeOK
      <4>2. stored' = stored \cup {key[r]} /\ expired' = expired \ {key[r]} /\ pc' = [pc EXCEPT ![r] = "responded"]
        BY <2>12, <3>2 DEF SaveUpdate, SaveRow
      <4> QED
        BY <3>1, <4>1, <4>2, RowSaved
    <3>3. CASE key[r] \notin stored
      <4>1. UNCHANGED <<stored, expired>> /\ pc' = [pc EXCEPT ![r] = "inserting"]
        BY <2>12, <3>3 DEF SaveUpdate
      <4>2. OneInFlight'
        BY <2>0, <3>1, <4>1 DEF TypeOK, OneInFlight, Serial
      <4>3. NoInsertMeetsRow' /\ PurgesExpired'
        BY <2>0, <3>1, <3>3, <4>1 DEF TypeOK, NoInsertMeetsRow, PurgesExpired, Serial
      <4> QED
        BY <4>2, <4>3 DEF SaveInv
    <3> QED
      BY <3>2, <3>3
  <2>13. ASSUME NEW r \in Requests, SaveInsert(r) PROVE SaveInv'
    <3>1. pc[r] = "inserting" /\ owner[r] \in Clients /\ key[r] \in Keys /\ UNCHANGED <<owner, key>>
      BY <2>0, <2>13 DEF SaveInsert, Under
    <3>2. CASE key[r] \notin stored
      <4>1. key' = [key EXCEPT ![r] = key[r]]
        BY <2>0, <3>1 DEF TypeOK
      <4>2. stored' = stored \cup {key[r]} /\ expired' = expired \ {key[r]} /\ pc' = [pc EXCEPT ![r] = "responded"]
        BY <2>13, <3>2 DEF SaveInsert, SaveRow
      <4> QED
        BY <3>1, <4>1, <4>2, RowSaved
    <3>3. CASE key[r] \in stored
      <4>1. UNCHANGED <<stored, expired>> /\ pc' = [pc EXCEPT ![r] = "failed"]
        BY <2>13, <3>3 DEF SaveInsert
      <4> QED
        BY <2>0, <3>1, <4>1, NothingSaved DEF TypeOK
    <3> QED
      BY <3>2, <3>3
  <2>14. ASSUME NEW r \in Requests, Deliver(r) PROVE SaveInv'
    BY <2>0, <2>14, NothingSaved DEF Deliver, TypeOK
  <2>15. ASSUME NEW r \in Requests, DeliverError(r) PROVE SaveInv'
    BY <2>0, <2>15, NothingSaved DEF DeliverError, TypeOK
  <2>16. ASSUME NEW r \in Requests, Lose(r) PROVE SaveInv'
    BY <2>0, <2>16, NothingSaved DEF Lose, TypeOK
  <2>17. ASSUME NEW k \in Keys, Expire(k) PROVE SaveInv'
    BY <2>0, <2>17, NothingSaved DEF Expire, TypeOK
  <2>18. ASSUME CleanupList PROVE SaveInv'
    BY <2>0, <2>18, NothingSaved DEF CleanupList, TypeOK
  <2>19. ASSUME NEW k \in Keys, CleanupDelete(k) PROVE SaveInv'
    <3>1. stored' \subseteq stored /\ stored' \ expired' \subseteq stored \ expired
      BY <2>19, DeleteRowStored DEF CleanupDelete
    <3> QED
      BY <2>0, <2>19, <3>1, NothingSaved DEF CleanupDelete, TypeOK
  <2>21. ASSUME NEW r \in Requests, Purge(r) PROVE SaveInv'
    <3>1. stored' \subseteq stored /\ stored' \ expired' \subseteq stored \ expired
      BY <2>21, DeleteRowStored DEF Purge
    <3> QED
      BY <2>0, <2>21, <3>1, NothingSaved DEF Purge, TypeOK
  <2>20. CASE UNCHANGED vars
    BY <2>0, <2>20, NothingSaved DEF vars
  <2> QED
    BY <2>1, <2>2, <2>3, <2>4, <2>5, <2>6, <2>7, <2>8, <2>9, <2>10, <2>11, <2>12, <2>13, <2>14, <2>15,
          <2>16, <2>17, <2>18, <2>19, <2>20, <2>21 DEF Next, Persist
<1> QED
  BY <1>1, <1>2, TypeInvariant, KeyInvariant, PTL DEF Spec

\* Saving never breaks the response of a client without concurrent requests.
THEOREM NoInsertMeetsRowHolds == Spec => []NoInsertMeetsRow
<1>1. SaveInv => NoInsertMeetsRow
  BY DEF SaveInv
<1> QED
  BY <1>1, SaveInvariant, PTL

-----------------------------------------------------------------------------
\* What a request may still store

Saving == {"purging", "handling", "updating", "inserting"}

\* The item of a request that has not been saved is in no row, in no session but
\* its own, and was never erased.
Fresh ==
    \A r \in Requests : pc[r] \in {"new", "sent"} \cup Saving =>
        /\ r \notin erased
        /\ \A k \in Keys : r \notin data[k]
        /\ \A q \in Requests : r \in session[q] => q = r /\ pc[r] \in Saving

\* What the flags of a request say.
Marks ==
    \A r \in Requests :
        /\ pc[r] \in {"new", "sent"} =>
            ~ detached[r] /\ ~ flushed[r] /\ ~ sets[r] /\ ~ emptied[r]
        /\ detached[r] => owner[r] \in excused
        /\ flushed[r] => emptied[r]
        /\ pc[r] \in {"purging", "handling"} => (r \in session[r] => modified[r]) /\ ~ sets[r]
        /\ pc[r] \in {"updating", "inserting"} => sets[r] /\ ~ flushed[r]

MarkInv == Fresh /\ Marks

\* The item of r and the flags of r after a step of another request.
LEMMA RowsOf ==
    ASSUME TypeOK, NEW r \in Requests, NEW k \in MaybeKey
    PROVE  /\ DeleteRow(k) => \A j \in Keys : data'[j] \subseteq data[j]
           /\ SaveRow(r, k) => \A j \in Keys : data'[j] \subseteq data[j] \cup session[r]
           /\ \A q \in Content(k) : k \in Keys /\ q \in data[k]
           /\ Erase(r) => erased' \subseteq erased \cup Content(key[r])
BY DEF TypeOK, DeleteRow, SaveRow, Content, Erase

\* A request that saves its session: then its item is no longer fresh.
LEMMA FreshStep ==
    ASSUME TypeOK, Fresh, NEW r \in Requests, pc[r] \in Saving,
           NEW label \in InFlight \ {"sent"}, pc' = [pc EXCEPT ![r] = label], session' = session,
           erased' \subseteq erased \cup Content(key[r]),
           \/ \A j \in Keys : data'[j] \subseteq data[j]
           \/ label \notin Saving /\ \A j \in Keys : data'[j] \subseteq data[j] \cup session[r]
    PROVE  Fresh'
<1> SUFFICES ASSUME NEW q \in Requests, pc'[q] \in {"new", "sent"} \cup Saving
             PROVE  /\ q \notin erased'
                    /\ \A k \in Keys : q \notin data'[k]
                    /\ \A x \in Requests : q \in session[x] => x = q /\ pc'[q] \in Saving
  BY DEF Fresh
<1>1. pc[q] \in {"new", "sent"} \cup Saving
  BY DEF TypeOK
<1>2. q \notin erased'
  BY <1>1, RowsOf DEF Fresh, TypeOK
<1>3. \A k \in Keys : q \notin data'[k]
  BY <1>1 DEF Fresh, TypeOK, InFlight, Saving
<1>4. \A x \in Requests : q \in session[x] => x = q /\ pc'[q] \in Saving
  BY <1>1 DEF Fresh, TypeOK, InFlight, Saving
<1> QED
  BY <1>2, <1>3, <1>4

\* The item of a request is fresh until it is saved, and its flags are right.
THEOREM MarkInvariant == Spec => []MarkInv
<1>1. Init => MarkInv
  BY NamesAssumption DEF Init, MarkInv, Fresh, Marks, Saving
<1>2. TypeInv /\ KeyInv /\ MarkInv /\ [Next]_vars => MarkInv'
  <2> SUFFICES ASSUME TypeInv, KeyInv, MarkInv, [Next]_vars PROVE MarkInv'
    OBVIOUS
  <2>0. TypeOK /\ Under /\ Traceless /\ Fresh /\ Marks
    BY DEF TypeInv, KeyInv, MarkInv
  <2> USE DEF rowVars, requestVars, historyVars, Goto
  \* The flags after a step of r that leaves the owners and the excuses.
  <2>a. ASSUME NEW r \in Requests, owner' = owner, excused \subseteq excused',
               \A q \in Requests \ {r} :
                    /\ pc'[q] = pc[q] /\ detached'[q] = detached[q] /\ flushed'[q] = flushed[q]
                    /\ sets'[q] = sets[q] /\ emptied'[q] = emptied[q]
                    /\ session'[q] = session[q] /\ modified'[q] = modified[q],
               /\ pc'[r] \notin {"new", "sent"}
               /\ detached'[r] => owner[r] \in excused'
               /\ flushed'[r] => emptied'[r]
               /\ pc'[r] \in {"purging", "handling"} => (r \in session'[r] => modified'[r]) /\ ~ sets'[r]
               /\ pc'[r] \in {"updating", "inserting"} => sets'[r] /\ ~ flushed'[r]
        PROVE  Marks'
    BY <2>0, <2>a DEF Marks
  <2>1. ASSUME NEW c \in Clients, NEW r \in Requests, Send(c, r) PROVE MarkInv'
    BY <2>0, <2>1 DEF Send, TypeOK, MarkInv, Fresh, Marks, Saving, Traceless
  <2>2. ASSUME NEW r \in Requests, Load(r) PROVE MarkInv'
    <3>1. /\ \A j \in Keys : data'[j] \subseteq data[j]
          /\ \A q \in Content(key[r]) : key[r] \in Keys /\ q \in data[key[r]]
          /\ pc[r] = "sent" /\ pc'[r] \in {"purging", "handling"} /\ erased' = erased
          /\ \A q \in Requests \ {r} : pc'[q] = pc[q]
          /\ session' = [session EXCEPT ![r] = Content(key[r])]
      BY <2>0, <2>2, RowsOf DEF Load, TypeOK
    <3>2. Fresh'
      BY <2>0, <3>1 DEF TypeOK, Fresh, Saving
    <3>3. r \notin session'[r]
      BY <2>0, <3>1 DEF TypeOK, Fresh
    <3>4. Marks'
      BY <2>0, <2>2, <2>a, <3>1, <3>3 DEF Load, TypeOK, Marks
    <3> QED
      BY <3>2, <3>4 DEF MarkInv
  <2>3. ASSUME NEW r \in Requests, Write(r) PROVE MarkInv'
    <3>1. Fresh'
      BY <2>0, <2>3 DEF Write, TypeOK, Fresh, Saving
    <3>2. Marks'
      BY <2>0, <2>3 DEF Write, TypeOK, Marks
    <3> QED
      BY <3>1, <3>2 DEF MarkInv
  <2>4. ASSUME NEW r \in Requests, Clear(r) PROVE MarkInv'
    <3>1. Fresh'
      BY <2>0, <2>4 DEF Clear, TypeOK, Fresh, Saving
    <3>2. Marks'
      BY <2>0, <2>4 DEF Clear, TypeOK, Marks
    <3> QED
      BY <3>1, <3>2 DEF MarkInv
  <2>5. ASSUME NEW r \in Requests, Flush(r) PROVE MarkInv'
    <3>0. pc[r] = "handling" /\ pc' = pc /\ data' = data /\ erased' = erased
          /\ \A q \in Requests : session'[q] \in {session[q], {}}
      BY <2>0, <2>5 DEF Flush, TypeOK
    <3>1. Fresh'
      BY <2>0, <3>0 DEF Fresh
    <3>2. Marks'
      BY <2>0, <2>5 DEF Flush, TypeOK, Marks
    <3> QED
      BY <3>1, <3>2 DEF MarkInv
  <2>6. ASSUME NEW r \in Requests, Login(r) PROVE MarkInv'
    <3>0. /\ pc[r] = "handling" /\ pc' = pc /\ erased' = erased
          /\ \A j \in Keys : data'[j] \subseteq data[j]
      BY <2>0, <2>6, RowsOf DEF Login, CycleKey, TypeOK
    <3>1. /\ \A q \in Requests \ {r} : session'[q] = session[q] /\ modified'[q] = modified[q]
          /\ session'[r] \subseteq session[r] \cup {r}
          /\ r \in session'[r] => (r \in session[r] /\ modified'[r] = modified[r]) \/ modified'[r]
      BY <2>0, <2>6 DEF Login, TypeOK
    <3>2. /\ \A q \in Requests \ {r} : detached'[q] = detached[q]
          /\ detached'[r] => owner[r] \in excused'
          /\ excused \subseteq excused'
      <4>1. detached' = [detached EXCEPT ![r] = key[r] # NoKey]
        BY <2>6 DEF Login, CycleKey
      <4> QED
        BY <2>0, <2>6, <4>1 DEF Login, TypeOK
    <3>3. Fresh'
      BY <2>0, <3>0, <3>1 DEF Fresh, Saving
    <3>4. Marks'
      BY <2>0, <2>6, <2>a, <3>0, <3>1, <3>2 DEF Login, Marks
    <3> QED
      BY <3>3, <3>4 DEF MarkInv
  \* The request ends, or fails: nothing else changes.
  <2>b. ASSUME NEW r \in Requests, NEW label \in {"failed", "done"},
               pc' = [pc EXCEPT ![r] = label], data' = data,
               UNCHANGED <<requestVars, erased, excused>>
        PROVE  MarkInv'
    <3>1. Fresh'
      BY <2>0, <2>b DEF TypeOK, Fresh, Saving
    <3>2. Marks'
      BY <2>0, <2>b DEF TypeOK, Marks
    <3> QED
      BY <3>1, <3>2 DEF MarkInv
  <2>7. ASSUME NEW r \in Requests, HandlerRaises(r) PROVE MarkInv'
    BY <2>7, <2>b DEF HandlerRaises
  <2>8. ASSUME NEW r \in Requests, RespondFlush(r) \/ RespondEmptied(r) PROVE MarkInv'
    <3>1. /\ pc[r] \in Saving /\ pc' = [pc EXCEPT ![r] = "responded"] /\ session' = session
          /\ erased' \subseteq erased \cup Content(key[r])
          /\ \A j \in Keys : data'[j] \subseteq data[j]
      BY <2>0, <2>8, RowsOf DEF RespondFlush, RespondEmptied, TypeOK, Saving
    <3>2. Fresh'
      BY <2>0, <3>1, FreshStep DEF InFlight
    <3>3. Marks'
      BY <2>0, <2>8 DEF RespondFlush, RespondEmptied, TypeOK, Marks
    <3> QED
      BY <3>2, <3>3 DEF MarkInv
  <2>9. ASSUME NEW r \in Requests, RespondUnmodified(r) PROVE MarkInv'
    <3>1. Fresh'
      BY <2>0, <2>9 DEF RespondUnmodified, TypeOK, Fresh, Saving
    <3>2. Marks'
      BY <2>0, <2>9 DEF RespondUnmodified, TypeOK, Marks
    <3> QED
      BY <3>1, <3>2 DEF MarkInv
  <2>10. ASSUME NEW r \in Requests, RespondSave(r) PROVE MarkInv'
    <3>0. key'[r] \in MaybeKey
      BY <2>0, <2>10 DEF RespondSave, NewKey, TypeOK, MaybeKey
    <3>1. /\ pc[r] \in Saving /\ session' = session
          /\ \E label \in {"responded", "updating", "inserting"} :
                /\ pc' = [pc EXCEPT ![r] = label]
                /\ \/ UNCHANGED <<data, erased>>
                   \/ /\ label = "responded"
                      /\ erased' \subseteq erased \cup Content(key[r])
                      /\ \A j \in Keys : data'[j] \subseteq data[j] \cup session[r]
      <4>1. CASE engine = "cache"
        <5>1. SaveRow(r, key'[r]) /\ Erase(r)
          BY <2>10, <4>1 DEF RespondSave
        <5>2. pc' = [pc EXCEPT ![r] = "responded"]
          BY <5>1 DEF SaveRow
        <5> QED
          BY <2>0, <2>10, <3>0, <5>1, <5>2, RowsOf DEF RespondSave, Saving
      <4>2. CASE engine # "cache"
        BY <2>10, <4>2 DEF RespondSave, Saving
      <4> QED
        BY <4>1, <4>2
    <3>2. Fresh'
      BY <2>0, <3>1, FreshStep DEF InFlight, Saving
    <3>3. Marks'
      BY <2>0, <2>10, <3>1 DEF RespondSave, TypeOK, Marks
    <3> QED
      BY <3>2, <3>3 DEF MarkInv
  <2>11. ASSUME NEW r \in Requests, SaveUpdate(r) \/ SaveInsert(r) PROVE MarkInv'
    <3>0. key[r] \in MaybeKey /\ pc[r] \in Saving /\ UNCHANGED <<requestVars, excused>>
      BY <2>0, <2>11 DEF SaveUpdate, SaveInsert, TypeOK, Saving
    <3>1. CASE SaveRow(r, key[r]) /\ Erase(r)
      <4>1. /\ pc' = [pc EXCEPT ![r] = "responded"]
            /\ erased' \subseteq erased \cup Content(key[r])
            /\ \A j \in Keys : data'[j] \subseteq data[j] \cup session[r]
        <5>1. pc' = [pc EXCEPT ![r] = "responded"]
          BY <3>1 DEF SaveRow
        <5> QED
          BY <2>0, <3>0, <3>1, <5>1, RowsOf
      <4>2. Fresh'
        BY <2>0, <3>0, <4>1, FreshStep DEF InFlight, Saving
      <4>3. Marks'
        BY <2>0, <3>0, <4>1 DEF TypeOK, Marks
      <4> QED
        BY <4>2, <4>3 DEF MarkInv
    <3>2. CASE pc' = [pc EXCEPT ![r] = "failed"] /\ UNCHANGED <<rowVars, erased, known>>
      BY <2>b, <3>0, <3>2
    <3>3. CASE /\ pc[r] = "updating" /\ pc' = [pc EXCEPT ![r] = "inserting"]
               /\ UNCHANGED <<rowVars, erased, known>>
      <4>1. Fresh'
        BY <2>0, <3>0, <3>3, FreshStep DEF InFlight
      <4>2. Marks'
        BY <2>0, <3>0, <3>3 DEF TypeOK, Marks
      <4> QED
        BY <4>1, <4>2 DEF MarkInv
    <3> QED
      BY <2>11, <3>1, <3>2, <3>3 DEF SaveUpdate, SaveInsert
  <2>12. ASSUME NEW r \in Requests, Deliver(r) \/ DeliverError(r) \/ Lose(r) PROVE MarkInv'
    BY <2>12, <2>b DEF Deliver, DeliverError, Lose
  <2>13. ASSUME NEW k \in Keys, Expire(k) PROVE MarkInv'
    BY <2>0, <2>13 DEF Expire, MarkInv, Fresh, Marks
  <2>14. ASSUME NEW k \in Keys, CleanupDelete(k) PROVE MarkInv'
    <3>1. \A j \in Keys : data'[j] \subseteq data[j]
      BY <2>0, <2>14, DeleteRowLess DEF CleanupDelete, MaybeKey
    <3>2. excused \subseteq excused'
      BY <2>14 DEF CleanupDelete
    <3> QED
      BY <2>0, <2>14, <3>1, <3>2 DEF CleanupDelete, MarkInv, Fresh, Marks
  <2>16. ASSUME NEW r \in Requests, Purge(r) PROVE MarkInv'
    <3>1. /\ \A j \in Keys : data'[j] \subseteq data[j]
          /\ pc[r] = "purging" /\ pc' = [pc EXCEPT ![r] = "handling"]
          /\ erased' = erased /\ session' = session
      BY <2>0, <2>16, RowsOf DEF Purge, TypeOK
    <3>2. Fresh'
      BY <2>0, <3>1, FreshStep DEF InFlight, Saving
    <3>3. Marks'
      BY <2>0, <2>16, <2>a, <3>1 DEF Purge, TypeOK, Marks
    <3> QED
      BY <3>2, <3>3 DEF MarkInv
  <2>15. CASE CleanupList \/ UNCHANGED vars
    BY <2>0, <2>15 DEF CleanupList, vars, MarkInv, Fresh, Marks
  <2> QED
    BY <2>1, <2>2, <2>3, <2>4, <2>5, <2>6, <2>7, <2>8, <2>9, <2>10, <2>11, <2>12, <2>13, <2>14, <2>15, <2>16
    DEF Next, Persist
<1> QED
  BY <1>1, <1>2, TypeInvariant, KeyInvariant, PTL DEF Spec

-----------------------------------------------------------------------------
\* Confirmed data is kept

Careful == Serial \ excused

\* What a request of the client c still carries of what was confirmed to c:
\* unless its handler emptied the session it saves all of it, under the key of
\* the cookie or when nothing was confirmed; and once the response went out, the
\* row of the cookie that it sets holds it, together with the item of r.
Carries(r, c) ==
    /\ pc[r] \in {"sent"} \cup Saving => key[r] = cookie[c] \/ known[c] = {}
    /\ pc[r] \in Saving /\ ~ emptied[r] => known[c] \subseteq session[r]
    /\ pc[r] = "responded" /\ sets[r] => known[c] \subseteq Content(key[r])
    /\ pc[r] = "responded" /\ r \in session[r] /\ ~ flushed[r] => sets[r] /\ r \in Content(key[r])

KeptFor(c) ==
    /\ known[c] \subseteq Content(cookie[c])
    /\ \A r \in Requests : owner[r] = c => Carries(r, c)

KnownInv == \A c \in Careful : KeptFor(c)

\* What the operations on rows do to what keys give access to.
LEMMA DeleteContent ==
    ASSUME TypeOK, NEW k \in MaybeKey, DeleteRow(k)
    PROVE  /\ \A j \in Keys \ {k} : Content(j)' = Content(j)
           /\ Content(k)' = {}
BY NamesAssumption DEF TypeOK, DeleteRow, Content, MaybeKey

LEMMA SaveContent ==
    ASSUME TypeOK, NEW r \in Requests, NEW k \in Keys, SaveRow(r, k)
    PROVE  /\ \A j \in Keys \ {k} : Content(j)' = Content(j)
           /\ Content(k)' = session[r]
BY DEF TypeOK, SaveRow, Content

LEMMA ErasedKnown ==
    ASSUME TypeOK, NEW r \in Requests, owner[r] \in Clients, Erase(r)
    PROVE  /\ \A c \in Clients \ {owner[r]} : known'[c] = known[c]
           /\ known'[owner[r]] = IF emptied[r] THEN known[owner[r]] \ Content(key[r])
                                               ELSE known[owner[r]]
BY DEF TypeOK, Erase

\* A step of r touches one row, whose key leads to no other client: what the
\* others were confirmed is where it was.
LEMMA OthersKept ==
    ASSUME TypeOK, TypeOK', KeyInv, KnownInv, NEW r \in Requests, owner[r] \in Clients,
           NEW k \in MaybeKey, k = key[r] \/ k \notin issued,
           owner' = owner, excused \subseteq excused',
           \A q \in Requests \ {r} :
                /\ pc'[q] = pc[q] /\ key'[q] = key[q] /\ session'[q] = session[q]
                /\ sets'[q] = sets[q] /\ flushed'[q] = flushed[q] /\ emptied'[q] = emptied[q],
           \A c \in Clients \ {owner[r]} : known'[c] = known[c] /\ cookie'[c] = cookie[c],
           \A j \in Keys \ {k} : Content(j)' = Content(j)
    PROVE  \A c \in Careful' \ {owner[r]} : KeptFor(c)'
<1> SUFFICES ASSUME NEW c \in Careful', c # owner[r] PROVE KeptFor(c)'
  OBVIOUS
<1>1. c \in Careful /\ c \in Clients /\ KeptFor(c)
  BY DEF Careful, Serial, KnownInv
<1>2. \A j \in MaybeKey : j \in Keys /\ j # k => Content(j)' = Content(j)
  OBVIOUS
<1>2a. Content(NoKey)' = Content(NoKey)
  BY NamesAssumption DEF TypeOK, Content
<1>3. \A x \in Owners : k \in Keys /\ Leads(k, x) => x = owner[r]
  <2>1. owner[r] \in Owners /\ OneClient /\ Unissued
    BY DEF Owners, KeyInv
  <2>2. CASE k = key[r]
    <3>1. Leads(k, owner[r])
      BY <2>2 DEF Leads
    <3> QED
      BY <2>1, <3>1 DEF OneClient
  <2>3. CASE k \notin issued
    BY <2>1, <2>3 DEF Unissued
  <2> QED
    BY <2>2, <2>3
<1>4. c \in Owners
  BY <1>1 DEF Owners
<1>5. Content(cookie[c])' = Content(cookie[c])
  <2>1. cookie[c] \in MaybeKey /\ cookie'[c] = cookie[c]
    BY <1>1 DEF TypeOK
  <2>2. cookie[c] \in Keys => cookie[c] # k
    BY <1>1, <1>3, <1>4 DEF Leads
  <2>3. \A j \in MaybeKey : j = cookie[c] => Content(j)' = Content(j)
    BY <1>2, <1>2a, <2>2 DEF MaybeKey
  <2> QED
    BY <2>1, <2>3 DEF Content
<1>6. ASSUME NEW q \in Requests, owner[q] = c PROVE Carries(q, c)'
  <2>1. q # r /\ key[q] \in MaybeKey /\ key'[q] = key[q]
    BY <1>6 DEF TypeOK
  <2>2. key[q] \in Keys => key[q] # k
    BY <1>3, <1>4, <1>6 DEF Leads
  <2>3. Content(key[q])' = Content(key[q])
    <3>1. \A j \in MaybeKey : j = key[q] => Content(j)' = Content(j)
      BY <1>2, <1>2a, <2>2 DEF MaybeKey
    <3> QED
      BY <2>1, <3>1 DEF Content
  <2>4. Carries(q, c)
    BY <1>1, <1>6 DEF KeptFor
  <2> QED
    BY <1>1, <2>1, <2>3, <2>4 DEF Carries
<1> QED
  BY <1>1, <1>5, <1>6 DEF KeptFor

\* A step of the one request r that its client has under way.
LEMMA StepKept ==
    ASSUME TypeOK, TypeOK', KeyInv, OneInFlight, KnownInv,
           NEW r \in Requests, pc[r] \in InFlight, owner[r] \in Clients,
           NEW k \in MaybeKey, k = key[r] \/ k \notin issued,
           owner' = owner, excused \subseteq excused',
           \A q \in Requests \ {r} :
                /\ pc'[q] = pc[q] /\ key'[q] = key[q] /\ session'[q] = session[q]
                /\ sets'[q] = sets[q] /\ flushed'[q] = flushed[q] /\ emptied'[q] = emptied[q],
           \A c \in Clients \ {owner[r]} : known'[c] = known[c] /\ cookie'[c] = cookie[c],
           \A j \in Keys \ {k} : Content(j)' = Content(j),
           NEW d \in Clients, d = owner[r],
           d \in Careful' /\ KeptFor(d) => known'[d] \subseteq Content(cookie[d])' /\ Carries(r, d)'
    PROVE  KnownInv'
<1>1. \A c \in Careful' \ {d} : KeptFor(c)'
  BY OthersKept
<1>2. ASSUME d \in Careful' PROVE KeptFor(d)'
  <2>1. d \in Careful /\ d \in Serial /\ KeptFor(d)
    BY <1>2 DEF Careful, Serial, KnownInv
  <2>2. ASSUME NEW q \in Requests, owner[q] = d, q # r PROVE Carries(q, d)'
    <3>1. pc'[q] \notin InFlight
      BY <2>1, <2>2 DEF OneInFlight
    <3> QED
      BY <3>1 DEF Carries, Saving, InFlight
  <2> QED
    BY <1>2, <2>1, <2>2 DEF KeptFor
<1> QED
  BY <1>1, <1>2 DEF KnownInv

\* The session of r is stored under its key, or under a new one.
LEMMA SavedKept ==
    ASSUME TypeOK, TypeOK', KeyInv, OneInFlight, KnownInv, Marks,
           NEW r \in Requests, pc[r] \in Saving, owner[r] \in Clients,
           NEW k \in Keys, k = key[r] \/ (key[r] = NoKey /\ k \notin issued),
           key' = [key EXCEPT ![r] = k], sets' = [sets EXCEPT ![r] = TRUE], ~ flushed[r],
           UNCHANGED <<cookie, owner, session, flushed, emptied, excused>>,
           SaveRow(r, k), Erase(r)
    PROVE  KnownInv'
<1>1. PICK d \in Clients : d = owner[r]
  OBVIOUS
<1>2. /\ pc' = [pc EXCEPT ![r] = "responded"]
      /\ \A j \in Keys \ {k} : Content(j)' = Content(j)
      /\ Content(k)' = session[r]
  BY SaveContent DEF SaveRow, Goto
<1>3. /\ \A c \in Clients \ {d} : known'[c] = known[c]
      /\ known'[d] = IF emptied[r] THEN known[d] \ Content(key[r]) ELSE known[d]
  BY <1>1, ErasedKnown
<1>4. Content(NoKey) = {} /\ key'[r] = k /\ pc'[r] = "responded" /\ sets'[r]
  BY <1>2, NamesAssumption DEF TypeOK, Content
<1>5. ASSUME KeptFor(d) PROVE known'[d] \subseteq Content(cookie[d])' /\ Carries(r, d)'
  <2>1. /\ known[d] \subseteq Content(cookie[d])
        /\ key[r] = cookie[d] \/ known[d] = {}
        /\ ~ emptied[r] => known[d] \subseteq session[r]
    BY <1>1, <1>5 DEF KeptFor, Carries
  <2>2. known'[d] \subseteq session[r]
    BY <1>3, <2>1
  <2>3. known'[d] = {} \/ k = cookie[d]
    BY <1>3, <1>4, <2>1
  <2>4. known'[d] \subseteq Content(cookie[d])'
    BY <1>2, <2>2, <2>3 DEF Content
  <2>5. Content(key[r])' = session[r]
    BY <1>2, <1>4 DEF Content
  <2> QED
    BY <1>4, <2>2, <2>4, <2>5 DEF Carries, Saving
<1>6. \A q \in Requests \ {r} : pc'[q] = pc[q] /\ key'[q] = key[q] /\ sets'[q] = sets[q]
  BY <1>2 DEF TypeOK
<1>7. pc[r] \in InFlight /\ k \in MaybeKey
  BY DEF Saving, InFlight, MaybeKey
<1> QED
  BY <1>1, <1>2, <1>3, <1>5, <1>6, <1>7, StepKept

\* What a careful client was confirmed is in the row of its cookie at every
\* moment, and the request it has under way carries it.
THEOREM KnownInvariant == Spec => []KnownInv
<1>1. Init => KnownInv
  BY DEF Init, KnownInv, KeptFor, Carries, Careful, Serial, Saving
<1>2. /\ TypeInv /\ TypeInv' /\ KeyInv /\ SaveInv /\ MarkInv /\ KnownInv /\ [Next]_vars
      => KnownInv'
  <2> SUFFICES ASSUME TypeInv, TypeInv', KeyInv, SaveInv, MarkInv, KnownInv, [Next]_vars
               PROVE  KnownInv'
    OBVIOUS
  <2>0. TypeOK /\ Under /\ OneInFlight /\ PurgesExpired /\ Marks
    BY DEF TypeInv, SaveInv, MarkInv
  <2>p. TypeOK'
    BY DEF TypeInv
  <2> USE DEF rowVars, requestVars, historyVars, Goto
  \* A step of r that stores and deletes nothing.
  <2>a. ASSUME NEW r \in Requests, pc[r] \in InFlight, NEW label \in InFlight \cup {"done"},
               pc' = [pc EXCEPT ![r] = label],
               UNCHANGED <<cookie, rowVars, owner, known, excused>>,
               \A q \in Requests \ {r} :
                    /\ key'[q] = key[q] /\ session'[q] = session[q]
                    /\ sets'[q] = sets[q] /\ flushed'[q] = flushed[q] /\ emptied'[q] = emptied[q],
               \A d \in Clients : d = owner[r] /\ KeptFor(d) => Carries(r, d)'
        PROVE  KnownInv'
    <3>1. PICK d \in Clients : d = owner[r]
      BY <2>0, <2>a DEF Under, InFlight
    <3>2. key[r] \in MaybeKey /\ \A q \in Requests \ {r} : pc'[q] = pc[q]
      BY <2>0, <2>a DEF TypeOK
    <3>3. \A j : Content(j)' = Content(j)
      BY <2>a DEF Content
    <3>4. KeptFor(d) => known'[d] \subseteq Content(cookie[d])'
      BY <2>a, <3>3 DEF KeptFor, Content
    <3> QED
      BY <2>p, <2>0, <2>a, <3>1, <3>2, <3>3, <3>4, StepKept
  <2>1. ASSUME NEW c \in Clients, NEW r \in Requests, Send(c, r) PROVE KnownInv'
    <3>0. /\ pc[r] = "new" /\ pc' = [pc EXCEPT ![r] = "sent"]
          /\ owner' = [owner EXCEPT ![r] = c] /\ key' = [key EXCEPT ![r] = cookie[c]]
          /\ UNCHANGED <<cookie, stored, data, expired, known, excused, session, sets, flushed, emptied>>
      BY <2>1 DEF Send
    <3> SUFFICES ASSUME NEW d \in Careful PROVE KeptFor(d)'
      BY <3>0 DEF KnownInv, Careful, Serial
    <3>1. KeptFor(d) /\ \A j : Content(j)' = Content(j)
      BY <3>0 DEF KnownInv, Content
    <3>2. ASSUME NEW q \in Requests, owner'[q] = d PROVE Carries(q, d)'
      <4>1. CASE q = r
        BY <2>0, <3>0, <3>2, <4>1 DEF Carries, TypeOK, Saving
      <4>2. CASE q # r
        <5>1. /\ owner[q] = d /\ pc'[q] = pc[q] /\ key'[q] = key[q] /\ Carries(q, d)
              /\ Content(key[q])' = Content(key[q])
          BY <2>0, <3>0, <3>1, <3>2, <4>2 DEF TypeOK, KeptFor, Content
        <5> QED
          BY <3>0, <5>1 DEF Carries
      <4> QED
        BY <4>1, <4>2
    <3> QED
      BY <3>0, <3>1, <3>2 DEF KeptFor, Content
  <2>2. ASSUME NEW r \in Requests, Load(r) PROVE KnownInv'
    <3>0. /\ pc[r] = "sent" /\ pc'[r] \in {"purging", "handling"} /\ pc[r] \in InFlight
          /\ \A q \in Requests \ {r} : pc'[q] = pc[q]
          /\ session' = [session EXCEPT ![r] = Content(key[r])]
          /\ UNCHANGED <<cookie, owner, key, sets, flushed, emptied, known, excused>>
      BY <2>0, <2>2 DEF Load, TypeOK, InFlight
    <3>1. PICK d \in Clients : d = owner[r]
      BY <2>0, <3>0 DEF Under
    <3>2. key[r] \in MaybeKey
      BY <2>0 DEF TypeOK
    <3>3. \A j : j \in Keys \ {key[r]} => Content(j)' = Content(j)
      BY <2>0, <2>2, <3>2, DeleteContent DEF Load, Content
    <3>4. Content(key[r])' = Content(key[r])
      <4>1. CASE key[r] \in expired
        BY <2>0, <2>2, <3>2, <4>1, DeleteContent DEF Load, Content
      <4>2. CASE key[r] \notin expired
        BY <2>2, <4>2 DEF Load, Content
      <4> QED
        BY <4>1, <4>2
    <3>5. ASSUME KeptFor(d) PROVE known'[d] \subseteq Content(cookie[d])' /\ Carries(r, d)'
      <4>1. known[d] \subseteq Content(cookie[d]) /\ (key[r] = cookie[d] \/ known[d] = {})
        BY <3>0, <3>1, <3>5 DEF KeptFor, Carries
      <4>2. known'[d] \subseteq Content(cookie[d])'
        BY <3>0, <3>4, <4>1 DEF Content
      <4>3. session'[r] = Content(key[r])
        BY <2>0, <3>0 DEF TypeOK
      <4> QED
        BY <3>0, <4>1, <4>2, <4>3 DEF Carries
    <3>6. \A q \in Requests \ {r} : pc'[q] = pc[q] /\ session'[q] = session[q]
      BY <2>0, <3>0 DEF TypeOK
    <3> QED
      BY <2>p, <2>0, <3>0, <3>1, <3>2, <3>3, <3>5, <3>6, StepKept
  <2>3. ASSUME NEW r \in Requests, Write(r) \/ Clear(r) PROVE KnownInv'
    <3>1. /\ pc[r] = "handling" /\ pc' = [pc EXCEPT ![r] = "handling"]
          /\ UNCHANGED <<cookie, rowVars, owner, key, sets, flushed, known, excused>>
          /\ \A q \in Requests \ {r} : session'[q] = session[q] /\ emptied'[q] = emptied[q]
          /\ emptied'[r] \/ (~ emptied[r] /\ session[r] \subseteq session'[r])
      <4>1. pc[r] = "handling" /\ pc' = [pc EXCEPT ![r] = "handling"]
        BY <2>0, <2>3 DEF Write, Clear, TypeOK
      <4>2. \A q \in Requests \ {r} : session'[q] = session[q] /\ emptied'[q] = emptied[q]
        BY <2>0, <2>3 DEF Write, Clear, TypeOK
      <4>3. CASE Write(r)
        <5>1. session[r] \subseteq session'[r] /\ emptied' = emptied
          BY <2>0, <4>3 DEF Write, TypeOK
        <5> QED
          BY <4>1, <4>2, <4>3, <5>1 DEF Write
      <4>4. CASE Clear(r)
        <5>1. emptied'[r]
          BY <2>0, <4>4 DEF Clear, TypeOK
        <5> QED
          BY <4>1, <4>2, <4>4, <5>1 DEF Clear
      <4> QED
        BY <2>3, <4>3, <4>4
    <3>2. \A d \in Clients : d = owner[r] /\ KeptFor(d) => Carries(r, d)'
      BY <2>0, <3>1 DEF KeptFor, Carries, Saving, TypeOK
    <3> QED
      BY <2>a, <3>1, <3>2 DEF InFlight
  <2>4. ASSUME NEW r \in Requests, Flush(r) PROVE KnownInv'
    <3>1. /\ pc[r] = "handling" /\ pc' = [pc EXCEPT ![r] = "handling"]
          /\ UNCHANGED <<cookie, rowVars, owner, key, sets, known, excused>>
          /\ \A q \in Requests \ {r} :
                session'[q] = session[q] /\ emptied'[q] = emptied[q] /\ flushed'[q] = flushed[q]
          /\ emptied'[r]
      BY <2>0, <2>4 DEF Flush, TypeOK
    <3>2. \A d \in Clients : d = owner[r] /\ KeptFor(d) => Carries(r, d)'
      BY <2>0, <3>1 DEF KeptFor, Carries, Saving, TypeOK
    <3> QED
      BY <2>a, <3>1, <3>2 DEF InFlight
  <2>5. ASSUME NEW r \in Requests, Login(r) PROVE KnownInv'
    <3>0. /\ pc[r] = "handling" /\ pc[r] \in InFlight /\ key[r] \in MaybeKey
          /\ UNCHANGED <<cookie, pc, owner, key, sets, flushed, emptied, known>>
      BY <2>0, <2>5 DEF Login, InFlight, TypeOK
    <3>1. PICK d \in Clients : d = owner[r]
      BY <2>0, <3>0 DEF Under
    <3>2. CASE key[r] # NoKey
      <4>1. excused' = excused \cup {d}
        BY <2>5, <3>1, <3>2 DEF Login
      <4>2. \A j \in Keys \ {key[r]} : Content(j)' = Content(j)
        BY <2>0, <2>5, <3>0, DeleteContent DEF Login, CycleKey, Content
      <4>3. \A q \in Requests \ {r} : session'[q] = session[q]
        BY <2>0, <2>5 DEF Login, TypeOK
      <4>4. d \notin Careful'
        BY <4>1 DEF Careful
      <4> QED
        BY <2>p, <2>0, <3>0, <3>1, <4>1, <4>2, <4>3, <4>4, StepKept
    <3>3. CASE key[r] = NoKey
      <4>1. UNCHANGED <<rowVars, excused>> /\ detached' = [detached EXCEPT ![r] = FALSE]
        BY <2>5, <3>3 DEF Login, CycleKey
      <4>2. session' = [session EXCEPT ![r] = @ \cup {r}]
        BY <2>0, <2>5, <4>1 DEF Login, TypeOK
      <4>3. /\ pc' = [pc EXCEPT ![r] = "handling"]
            /\ \A q \in Requests \ {r} : session'[q] = session[q]
            /\ session[r] \subseteq session'[r]
        BY <2>0, <3>0, <4>2 DEF TypeOK
      <4>4. \A x \in Clients : x = owner[r] /\ KeptFor(x) => Carries(r, x)'
        BY <2>0, <3>0, <4>1, <4>3 DEF KeptFor, Carries, Saving, TypeOK
      <4> QED
        BY <2>a, <3>0, <4>1, <4>3, <4>4 DEF InFlight
    <3> QED
      BY <3>2, <3>3
  <2>6. ASSUME NEW r \in Requests, HandlerRaises(r) \/ DeliverError(r) \/ Lose(r) PROVE KnownInv'
    <3>1. /\ pc[r] \in InFlight /\ pc' \in {[pc EXCEPT ![r] = "failed"], [pc EXCEPT ![r] = "done"]}
          /\ UNCHANGED <<cookie, rowVars, requestVars, known, excused>>
      BY <2>6 DEF HandlerRaises, DeliverError, Lose, InFlight
    <3>2. \A d \in Clients : Carries(r, d)'
      BY <2>0, <3>1 DEF Carries, Saving, TypeOK
    <3> QED
      BY <2>a, <3>1, <3>2 DEF InFlight
  <2>7. ASSUME NEW r \in Requests, RespondFlush(r) \/ RespondEmptied(r) PROVE KnownInv'
    <3>0. /\ pc[r] = "handling" /\ pc[r] \in InFlight /\ key[r] \in MaybeKey
          /\ pc' = [pc EXCEPT ![r] = "responded"] /\ key' = [key EXCEPT ![r] = NoKey]
          /\ DeleteRow(key[r]) /\ Erase(r)
          /\ UNCHANGED <<cookie, owner, session, flushed, emptied, excused>>
          /\ flushed[r] \/ session[r] = {}
          /\ \A q \in Requests \ {r} : sets'[q] = sets[q]
      BY <2>0, <2>7 DEF RespondFlush, RespondEmptied, TypeOK, InFlight
    <3>1. PICK d \in Clients : d = owner[r]
      BY <2>0, <3>0 DEF Under
    <3>2. \A j \in Keys \ {key[r]} : Content(j)' = Content(j)
      BY <2>0, <3>0, DeleteContent
    <3>3. /\ \A c \in Clients \ {d} : known'[c] = known[c]
          /\ known'[d] = IF emptied[r] THEN known[d] \ Content(key[r]) ELSE known[d]
      BY <2>0, <3>0, <3>1, ErasedKnown
    <3>4. ASSUME KeptFor(d) PROVE known'[d] \subseteq Content(cookie[d])' /\ Carries(r, d)'
      <4>1. /\ known[d] \subseteq Content(cookie[d]) /\ (key[r] = cookie[d] \/ known[d] = {})
            /\ ~ emptied[r] => known[d] \subseteq session[r]
        BY <3>0, <3>1, <3>4 DEF KeptFor, Carries, Saving
      <4>2. flushed[r] => emptied[r]
        BY <2>0 DEF Marks
      <4>3. known'[d] = {}
        BY <3>0, <3>3, <4>1, <4>2
      <4>4. pc'[r] = "responded" /\ (r \in session'[r] => flushed'[r])
        BY <2>0, <3>0 DEF TypeOK
      <4> QED
        BY <4>3, <4>4 DEF Carries, Saving
    <3>5. \A q \in Requests \ {r} : pc'[q] = pc[q] /\ key'[q] = key[q]
      BY <2>0, <3>0 DEF TypeOK
    <3> QED
      BY <2>p, <2>0, <3>0, <3>1, <3>2, <3>3, <3>4, <3>5, StepKept
  <2>8. ASSUME NEW r \in Requests, RespondUnmodified(r) PROVE KnownInv'
    <3>1. /\ pc[r] = "handling" /\ pc' = [pc EXCEPT ![r] = "responded"]
          /\ UNCHANGED <<cookie, rowVars, requestVars, known, excused>>
          /\ ~ modified[r]
      BY <2>8 DEF RespondUnmodified
    <3>2. ~ sets[r] /\ r \notin session[r] /\ pc'[r] = "responded"
      BY <2>0, <3>1 DEF Marks, TypeOK
    <3>3. \A d \in Clients : Carries(r, d)'
      BY <3>1, <3>2 DEF Carries, Saving
    <3> QED
      BY <2>a, <3>1, <3>3 DEF InFlight
  <2>9. ASSUME NEW r \in Requests, RespondSave(r) PROVE KnownInv'
    <3>0. /\ pc[r] = "handling" /\ owner[r] \in Clients /\ ~ flushed[r]
          /\ sets' = [sets EXCEPT ![r] = TRUE]
          /\ UNCHANGED <<cookie, owner, session, flushed, emptied, excused>>
      BY <2>0, <2>9 DEF RespondSave, Under
    <3>1. PICK k \in Keys : /\ key' = [key EXCEPT ![r] = k]
                            /\ k = key[r] \/ (key[r] = NoKey /\ k \notin issued)
      <4>1. CASE key[r] = NoKey
        BY <2>9, <4>1 DEF RespondSave, NewKey
      <4>2. CASE key[r] # NoKey
        <5>1. key[r] \in Keys /\ key' = [key EXCEPT ![r] = key[r]]
          BY <2>0, <2>9, <4>2 DEF RespondSave, TypeOK, MaybeKey
        <5> QED
          BY <5>1
      <4> QED
        BY <4>1, <4>2
    <3>2. key'[r] = k
      BY <2>0, <3>1 DEF TypeOK
    <3>3. CASE engine = "cache"
      <4>1. SaveRow(r, k) /\ Erase(r)
        BY <2>9, <3>2, <3>3 DEF RespondSave
      <4> QED
        BY <2>p, <2>0, <3>0, <3>1, <4>1, SavedKept DEF Saving
    <3>4. CASE engine # "cache"
      <4>1. /\ pc' \in {[pc EXCEPT ![r] = "updating"], [pc EXCEPT ![r] = "inserting"]}
            /\ UNCHANGED <<rowVars, known>>
        BY <2>9, <3>4 DEF RespondSave
      <4>2. pc'[r] \in {"updating", "inserting"}
            /\ \A q \in Requests \ {r} : key'[q] = key[q] /\ sets'[q] = sets[q]
        BY <2>0, <3>0, <3>1, <4>1 DEF TypeOK
      <4>3. ASSUME NEW d \in Clients, d = owner[r], KeptFor(d) PROVE Carries(r, d)'
        <5>1. /\ known[d] \subseteq Content(cookie[d]) /\ (key[r] = cookie[d] \/ known[d] = {})
              /\ ~ emptied[r] => known[d] \subseteq session[r]
          BY <3>0, <4>3 DEF KeptFor, Carries, Saving
        <5>2. Content(NoKey) = {}
          BY <2>0, NamesAssumption DEF TypeOK, Content
        <5>3. k = cookie[d] \/ known[d] = {}
          BY <3>1, <5>1, <5>2
        <5> QED
          BY <3>0, <3>2, <4>1, <4>2, <5>1, <5>3 DEF Carries, Saving
      <4> QED
        BY <2>a, <3>0, <4>1, <4>2, <4>3 DEF InFlight
    <3> QED
      BY <3>3, <3>4
  <2>10. ASSUME NEW r \in Requests, SaveUpdate(r) \/ SaveInsert(r) PROVE KnownInv'
    <3>0. /\ pc[r] \in {"updating", "inserting"} /\ owner[r] \in Clients /\ key[r] \in Keys
          /\ UNCHANGED <<cookie, requestVars, excused>>
      BY <2>0, <2>10 DEF SaveUpdate, SaveInsert, Under
    <3>1. CASE SaveRow(r, key[r]) /\ Erase(r)
      <4>1. key' = [key EXCEPT ![r] = key[r]] /\ sets' = [sets EXCEPT ![r] = TRUE] /\ ~ flushed[r]
        BY <2>0, <3>0 DEF TypeOK, Marks
      <4> QED
        BY <2>p, <2>0, <3>0, <3>1, <4>1, SavedKept DEF Saving
    <3>2. CASE /\ pc' \in {[pc EXCEPT ![r] = "failed"], [pc EXCEPT ![r] = "inserting"]}
               /\ UNCHANGED <<rowVars, erased, known>>
      <4>1. \A d \in Clients : d = owner[r] /\ KeptFor(d) => Carries(r, d)'
        BY <2>0, <3>0, <3>2 DEF KeptFor, Carries, Saving, TypeOK
      <4> QED
        BY <2>a, <3>0, <3>2, <4>1 DEF InFlight
    <3> QED
      BY <2>10, <3>1, <3>2 DEF SaveUpdate, SaveInsert
  <2>11. ASSUME NEW r \in Requests, Deliver(r) PROVE KnownInv'
    <3>0. /\ pc[r] = "responded" /\ pc[r] \in InFlight /\ pc' = [pc EXCEPT ![r] = "done"]
          /\ key[r] \in MaybeKey /\ UNCHANGED <<rowVars, requestVars, excused>>
      BY <2>0, <2>11 DEF Deliver, InFlight, TypeOK
    <3>1. PICK d \in Clients : d = owner[r]
      BY <2>0, <3>0 DEF Under
    <3>2. /\ \A c \in Clients \ {d} : known'[c] = known[c] /\ cookie'[c] = cookie[c]
          /\ cookie'[d] = IF sets[r] THEN key[r] ELSE cookie[d]
          /\ known'[d] \subseteq known[d] \cup {r}
          /\ r \in known'[d] \ known[d] => ~ flushed[r] /\ (r \in session[r] \/ detached[r])
      BY <2>0, <2>11, <3>1 DEF Deliver, TypeOK
    <3>3. \A j : Content(j)' = Content(j)
      BY <3>0 DEF Content
    <3>4. ASSUME d \in Careful', KeptFor(d)
          PROVE  known'[d] \subseteq Content(cookie[d])' /\ Carries(r, d)'
      <4>1. ~ detached[r]
        BY <2>0, <3>0, <3>1, <3>4 DEF Marks, Careful
      <4>2. /\ known[d] \subseteq Content(cookie[d])
            /\ sets[r] => known[d] \subseteq Content(key[r])
            /\ r \in session[r] /\ ~ flushed[r] => sets[r] /\ r \in Content(key[r])
        BY <3>0, <3>1, <3>4 DEF KeptFor, Carries
      <4>3. known'[d] \subseteq Content(cookie'[d])
        BY <3>2, <4>1, <4>2
      <4>4. known'[d] \subseteq Content(cookie[d])'
        BY <3>0, <4>3 DEF Content
      <4>5. Carries(r, d)'
        BY <2>0, <3>0 DEF Carries, Saving, TypeOK
      <4> QED
        BY <4>4, <4>5
    <3>5. \A q \in Requests \ {r} : pc'[q] = pc[q]
      BY <2>0, <3>0 DEF TypeOK
    <3> QED
      BY <2>p, <2>0, <3>0, <3>1, <3>2, <3>3, <3>4, <3>5, StepKept
  <2>12. ASSUME NEW k \in Keys, Expire(k) PROVE KnownInv'
    <3>0. /\ UNCHANGED <<stored, data, pc, requestVars, excused>> /\ expired' = expired \cup {k}
          /\ \A r \in Requests : pc[r] = "responded" => key[r] # k
          /\ \A c \in Clients : \/ known'[c] = {}
                                \/ cookie[c] # k /\ cookie'[c] = cookie[c] /\ known'[c] = known[c]
      BY <2>0, <2>12 DEF Expire, TypeOK
    <3>1. \A j : j # k => Content(j)' = Content(j)
      BY <3>0 DEF Content
    <3> SUFFICES ASSUME NEW c \in Careful PROVE KeptFor(c)'
      BY <3>0 DEF KnownInv, Careful, Serial
    <3>2. c \in Clients /\ KeptFor(c)
      BY DEF KnownInv, Careful, Serial
    <3>3. known'[c] \subseteq Content(cookie[c])'
      BY <3>0, <3>1, <3>2 DEF KeptFor, Content
    <3>4. ASSUME NEW r \in Requests, owner[r] = c PROVE Carries(r, c)'
      <4>1. pc[r] = "responded" => Content(key[r])' = Content(key[r])
        BY <3>0, <3>1 DEF Content
      <4>2. Carries(r, c)
        BY <3>2, <3>4 DEF KeptFor
      <4> QED
        BY <3>0, <3>2, <4>1, <4>2 DEF Carries, Saving
    <3> QED
      BY <3>0, <3>3, <3>4 DEF KeptFor
  <2>13. ASSUME NEW k \in Keys, CleanupDelete(k) PROVE KnownInv'
    <3>0. /\ UNCHANGED <<cookie, pc, requestVars, known>> /\ DeleteRow(k)
          /\ excused' = IF k \in expired THEN excused ELSE excused \cup Users(k)
      BY <2>13 DEF CleanupDelete
    <3>1. \A j \in Keys \ {k} : Content(j)' = Content(j)
      BY <2>0, <3>0, DeleteContent DEF MaybeKey
    <3>2. Content(NoKey)' = Content(NoKey)
      BY <2>0, <2>p, NamesAssumption DEF TypeOK, Content
    <3> SUFFICES ASSUME NEW c \in Careful' PROVE KeptFor(c)'
      BY DEF KnownInv
    <3>3. c \in Careful /\ c \in Clients /\ KeptFor(c) /\ c \notin excused'
      BY <3>0 DEF KnownInv, Careful, Serial
    <3>4. CASE k \in expired
      <4>1. Content(k) = {} /\ Content(k)' = {}
        BY <2>0, <3>0, <3>4, DeleteContent DEF Content, MaybeKey
      <4>2. \A j \in MaybeKey : Content(j)' = Content(j)
        BY <3>1, <3>2, <4>1 DEF MaybeKey
      <4>3. cookie[c] \in MaybeKey /\ \A r \in Requests : key[r] \in MaybeKey
        BY <2>0, <3>3 DEF TypeOK
      <4> QED
        BY <3>0, <3>3, <4>2, <4>3 DEF KeptFor, Carries, Content
    <3>5. CASE k \notin expired
      <4>1. cookie[c] # k /\ \A r \in Requests : owner[r] = c => key[r] # k
        BY <3>0, <3>3, <3>5 DEF Users
      <4>2. cookie[c] \in MaybeKey /\ \A r \in Requests : key[r] \in MaybeKey
        BY <2>0, <3>3 DEF TypeOK
      <4>3. /\ Content(cookie[c])' = Content(cookie[c])
            /\ \A r \in Requests : owner[r] = c => Content(key[r])' = Content(key[r])
        BY <3>0, <3>1, <3>2, <4>1, <4>2 DEF MaybeKey, Content
      <4> QED
        BY <3>0, <3>3, <4>3 DEF KeptFor, Carries
    <3> QED
      BY <3>4, <3>5
  <2>14. CASE CleanupList \/ UNCHANGED vars
    <3>1. UNCHANGED <<cookie, rowVars, requestVars, pc, known, excused>>
      BY <2>14 DEF CleanupList, vars
    <3>2. \A j : Content(j)' = Content(j)
      BY <3>1 DEF Content
    <3> QED
      BY <3>1, <3>2 DEF KnownInv, Careful, Serial, KeptFor, Carries, Content
  <2>15. ASSUME NEW r \in Requests, Purge(r) PROVE KnownInv'
    <3>0. /\ pc[r] = "purging" /\ pc' = [pc EXCEPT ![r] = "handling"] /\ pc[r] \in InFlight
          /\ UNCHANGED <<cookie, owner, key, session, sets, flushed, emptied, known, excused>>
      BY <2>15 DEF Purge, InFlight
    <3>1. PICK d \in Clients : d = owner[r]
      BY <2>0, <3>0 DEF Under
    <3>2. key[r] \in MaybeKey
      BY <2>0 DEF TypeOK
    <3>3. Content(key[r])' = {} /\ \A j \in Keys \ {key[r]} : Content(j)' = Content(j)
      BY <2>0, <2>15, <3>0, <3>2, DeleteContent DEF Purge, Content
    <3>4. ASSUME d \in Careful', KeptFor(d)
          PROVE  known'[d] \subseteq Content(cookie[d])' /\ Carries(r, d)'
      <4>1. /\ known[d] \subseteq Content(cookie[d])
            /\ key[r] = cookie[d] \/ known[d] = {}
            /\ ~ emptied[r] => known[d] \subseteq session[r]
        BY <3>0, <3>1, <3>4 DEF KeptFor, Carries, Saving
      <4>2. Content(key[r]) = {}
        BY <2>0, <3>0, <3>1, <3>4 DEF PurgesExpired, Careful, Serial, Content
      <4>3. known[d] = {}
        BY <4>1, <4>2
      <4>4. pc'[r] = "handling"
        BY <2>0, <3>0 DEF TypeOK
      <4> QED
        BY <3>0, <4>3, <4>4 DEF Carries
    <3>5. \A q \in Requests \ {r} : pc'[q] = pc[q]
      BY <2>0, <3>0 DEF TypeOK
    <3> QED
      BY <2>p, <2>0, <3>0, <3>1, <3>2, <3>3, <3>4, <3>5, StepKept
  <2> QED
    BY <2>1, <2>2, <2>3, <2>4, <2>5, <2>6, <2>7, <2>8, <2>9, <2>10, <2>11, <2>12, <2>13, <2>14, <2>15
    DEF Next, Persist
<1> QED
  BY <1>1, <1>2, TypeInvariant, KeyInvariant, SaveInvariant, MarkInvariant, PTL DEF Spec

\* A client that waits for its responses, and neither logs in on a session nor
\* is swept, finds what it was confirmed.
THEOREM KnownIsKeptHolds == Spec => []KnownIsKept
<1>1. KnownInv => KnownIsKept
  BY DEF KnownInv, KeptFor, Careful, KnownIsKept
<1> QED
  BY <1>1, KnownInvariant, PTL

-----------------------------------------------------------------------------
\* Erased data stays erased

\* An item of a client that waits is in one row at most, under the key of the
\* request that has it in the session it will save; it is erased from none of
\* them, and an erased item is in no session that will be saved.
OneRow(q) ==
    \A k \in Keys : q \in data[k] =>
        /\ q \notin erased
        /\ \A j \in Keys : q \in data[j] => j = k
        /\ \A r \in Requests : pc[r] \in Saving /\ q \in session[r] => key[r] = k
Gone(q) == q \in erased => \A r \in Requests : pc[r] \in Saving => q \notin session[r]

ErasedInv == \A q \in Requests : owner[q] \in Serial => OneRow(q) /\ Gone(q)

\* A step that erases nothing, and stores nothing but the item of a request in
\* its own session.
LEMMA NothingErased ==
    ASSUME ErasedInv, Fresh, UNCHANGED <<owner, erased>>,
           \A j \in Keys : data'[j] \subseteq data[j],
           \A r \in Requests : pc'[r] \in Saving =>
                /\ pc[r] \in Saving /\ session'[r] \subseteq session[r] \cup {r}
                /\ key'[r] = key[r] \/ key[r] = NoKey
    PROVE  ErasedInv'
<1> SUFFICES ASSUME NEW q \in Requests, owner[q] \in Serial PROVE OneRow(q)' /\ Gone(q)'
  BY DEF ErasedInv, Serial
<1>1. OneRow(q) /\ Gone(q)
  BY DEF ErasedInv
<1>2. \A r \in Requests : pc'[r] \in Saving /\ q \in session'[r] =>
        q \in session[r] \/ (q \notin erased /\ \A k \in Keys : q \notin data[k])
  BY DEF Fresh
<1>3. OneRow(q)'
  BY <1>1, <1>2, NamesAssumption DEF OneRow
<1>4. Gone(q)'
  BY <1>1, <1>2 DEF Gone
<1> QED
  BY <1>3, <1>4

\* The request r gives its row k up, or stores its session there.
LEMMA RowReplaced ==
    ASSUME TypeOK, KeyInv, OneInFlight, ErasedInv,
           NEW r \in Requests, pc[r] \in Saving, UNCHANGED <<owner, session>>,
           pc' = [pc EXCEPT ![r] = "responded"],
           \A x \in Requests \ {r} : key'[x] = key[x],
           NEW k \in MaybeKey, k = key[r] \/ key[r] = NoKey,
           \A j \in Keys : data'[j] \subseteq IF j = k THEN session[r] ELSE data[j],
           erased' \subseteq erased \cup (Content(key[r]) \ session[r])
    PROVE  ErasedInv'
<1> SUFFICES ASSUME NEW q \in Requests, owner[q] \in Serial PROVE OneRow(q)' /\ Gone(q)'
  BY DEF ErasedInv, Serial
<1>0. pc[r] \in InFlight
  BY DEF Saving, InFlight
<1>1. OneRow(q) /\ Gone(q)
  BY DEF ErasedInv
<1>2. q \in Content(key[r]) => key[r] \in Keys /\ q \in data[key[r]] /\ k = key[r]
  BY NamesAssumption DEF Content, TypeOK
<1>3. \A x \in Requests : pc'[x] \in Saving =>
        x # r /\ pc[x] \in Saving /\ pc[x] \in InFlight /\ key'[x] = key[x]
  BY DEF TypeOK, Saving, InFlight
<1>4. \A x \in Requests : q \in session[x] => owner[x] = owner[q]
  BY DEF KeyInv, Isolation
<1>5. CASE owner[q] = owner[r]
  <2>1. \A x \in Requests : pc'[x] \in Saving => q \notin session[x]
    BY <1>0, <1>3, <1>4, <1>5 DEF OneInFlight
  <2>2. Gone(q)'
    BY <2>1 DEF Gone
  <2>3. ASSUME NEW j \in Keys, q \in data'[j]
        PROVE  q \notin erased' /\ \A i \in Keys : q \in data'[i] => i = j
    <3>1. CASE j = k
      <4>1. q \in session[r] /\ q \notin erased
        BY <1>1, <2>3, <3>1 DEF Gone
      <4>2. \A i \in Keys : q \in data'[i] => i = j
        BY <1>1, <2>3, <3>1, <4>1, NamesAssumption DEF OneRow
      <4> QED
        BY <4>1, <4>2
    <3>2. CASE j # k
      <4>1. q \in data[j] /\ q \notin erased
        BY <1>1, <2>3, <3>2 DEF OneRow
      <4>2. q \notin Content(key[r])
        BY <1>1, <1>2, <3>2, <4>1 DEF OneRow
      <4>3. \A i \in Keys : q \in data'[i] => i = j
        BY <1>1, <2>3, <3>2, <4>1, NamesAssumption DEF OneRow
      <4> QED
        BY <4>1, <4>2, <4>3
    <3> QED
      BY <3>1, <3>2
  <2> QED
    BY <2>1, <2>2, <2>3 DEF OneRow
<1>6. CASE owner[q] # owner[r]
  <2>1. q \notin session[r]
    BY <1>4, <1>6
  <2>2. \A j \in Keys : q \in data'[j] => q \in data[j]
    BY <2>1
  <2>3. q \notin Content(key[r])
    <3> SUFFICES ASSUME q \in Content(key[r]) PROVE FALSE
      OBVIOUS
    <3>1. Leads(key[r], owner[q]) /\ Leads(key[r], owner[r])
      BY <1>2 DEF Leads
    <3>2. owner[q] \in Owners /\ owner[r] \in Owners
      BY DEF TypeOK, Owners
    <3> QED
      BY <1>2, <1>6, <3>1, <3>2 DEF KeyInv, OneClient
  <2>4. q \in erased' => q \in erased
    BY <2>3
  <2>5. OneRow(q)'
    BY <1>1, <1>3, <2>2, <2>4 DEF OneRow
  <2>6. Gone(q)'
    BY <1>1, <1>3, <2>4 DEF Gone
  <2> QED
    BY <2>5, <2>6
<1> QED
  BY <1>5, <1>6

\* What a flushed or emptied session contained is in no row and in no session
\* that will be saved.
THEOREM ErasedInvariant == Spec => []ErasedInv
<1>1. Init => ErasedInv
  BY DEF Init, ErasedInv, OneRow, Gone
<1>2. TypeInv /\ KeyInv /\ SaveInv /\ MarkInv /\ ErasedInv /\ [Next]_vars => ErasedInv'
  <2> SUFFICES ASSUME TypeInv, KeyInv, SaveInv, MarkInv, ErasedInv, [Next]_vars PROVE ErasedInv'
    OBVIOUS
  <2>0. TypeOK /\ Under /\ Traceless /\ OneInFlight /\ Fresh
    BY DEF TypeInv, KeyInv, SaveInv, MarkInv
  <2> USE DEF rowVars, requestVars, historyVars, Goto
  <2>1. ASSUME NEW c \in Clients, NEW r \in Requests, Send(c, r) PROVE ErasedInv'
    <3>1. /\ pc[r] = "new" /\ pc' = [pc EXCEPT ![r] = "sent"]
          /\ \A x \in Requests \ {r} : owner'[x] = owner[x] /\ key'[x] = key[x]
          /\ UNCHANGED <<data, erased, session>>
      BY <2>0, <2>1 DEF Send, TypeOK
    <3>2. /\ r \notin erased /\ \A k \in Keys : r \notin data[k]
          /\ \A x \in Requests : r \notin session[x]
      BY <2>0, <3>1 DEF Fresh, Traceless
    <3> SUFFICES ASSUME NEW q \in Requests, owner'[q] \in Serial PROVE OneRow(q)' /\ Gone(q)'
      BY DEF ErasedInv, Serial
    <3>3. \A x \in Requests : pc'[x] \in Saving => x # r /\ pc[x] \in Saving
      BY <2>0, <3>1 DEF TypeOK, Saving
    <3>4. CASE q = r
      BY <3>1, <3>2, <3>4 DEF OneRow, Gone
    <3>5. CASE q # r
      <4>1. OneRow(q) /\ Gone(q)
        BY <3>1, <3>5 DEF ErasedInv
      <4> QED
        BY <3>1, <3>3, <4>1 DEF OneRow, Gone
    <3> QED
      BY <3>4, <3>5
  <2>2. ASSUME NEW r \in Requests, Load(r) PROVE ErasedInv'
    <3>1. /\ \A j \in Keys : data'[j] \subseteq data[j]
          /\ \A q \in Content(key[r]) : key[r] \in Keys /\ q \in data[key[r]]
      BY <2>0, <2>2, RowsOf DEF Load, TypeOK
    <3>2. /\ session'[r] = Content(key[r])
          /\ \A x \in Requests \ {r} : pc'[x] = pc[x] /\ session'[x] = session[x]
          /\ UNCHANGED <<owner, key, erased>>
      BY <2>0, <2>2 DEF Load, TypeOK
    <3> SUFFICES ASSUME NEW q \in Requests, owner[q] \in Serial PROVE OneRow(q)' /\ Gone(q)'
      BY <3>2 DEF ErasedInv, Serial
    <3>3. OneRow(q) /\ Gone(q)
      BY DEF ErasedInv
    <3>4. OneRow(q)'
      BY <3>1, <3>2, <3>3 DEF OneRow
    <3>5. Gone(q)'
      BY <3>1, <3>2, <3>3 DEF OneRow, Gone
    <3> QED
      BY <3>4, <3>5
  <2>3. ASSUME NEW r \in Requests, Write(r) \/ Clear(r) \/ Flush(r) \/ Login(r) PROVE ErasedInv'
    <3>1. /\ pc[r] = "handling" /\ pc' = pc /\ UNCHANGED <<owner, key, erased>>
          /\ \A x \in Requests : session'[x] \subseteq session[x] \cup {x}
      <4>1. CASE Write(r)
        BY <2>0, <4>1 DEF Write, TypeOK
      <4>2. CASE Clear(r)
        BY <2>0, <4>2 DEF Clear, TypeOK
      <4>3. CASE Flush(r)
        BY <2>0, <4>3 DEF Flush, TypeOK
      <4>4. CASE Login(r)
        BY <2>0, <4>4 DEF Login, TypeOK
      <4> QED
        BY <2>3, <4>1, <4>2, <4>3, <4>4
    <3>2. \A j \in Keys : data'[j] \subseteq data[j]
      BY <2>0, <2>3, RowsOf DEF Write, Clear, Flush, Login, CycleKey, TypeOK
    <3> QED
      BY <2>0, <3>1, <3>2, NothingErased
  \* A step of r after which no more is saved than before.
  <2>a. ASSUME NEW r \in Requests, NEW label, pc' = [pc EXCEPT ![r] = label],
               label \in Saving => pc[r] \in Saving,
               UNCHANGED <<owner, session, erased, data>>,
               \A x \in Requests : key'[x] = key[x] \/ key[x] = NoKey
        PROVE  ErasedInv'
    <3>1. \A x \in Requests : pc'[x] \in Saving => pc[x] \in Saving
      BY <2>0, <2>a DEF TypeOK
    <3> QED
      BY <2>0, <2>a, <3>1, NothingErased
  <2>4. ASSUME NEW r \in Requests,
               \/ HandlerRaises(r) \/ RespondUnmodified(r)
               \/ Deliver(r) \/ DeliverError(r) \/ Lose(r)
        PROVE  ErasedInv'
    BY <2>4, <2>a DEF HandlerRaises, RespondUnmodified, Deliver, DeliverError, Lose, Saving
  <2>5. ASSUME NEW r \in Requests, RespondFlush(r) \/ RespondEmptied(r) PROVE ErasedInv'
    <3>1. /\ pc[r] \in Saving /\ pc' = [pc EXCEPT ![r] = "responded"]
          /\ UNCHANGED <<owner, session>> /\ DeleteRow(key[r]) /\ Erase(r)
          /\ key[r] \in MaybeKey /\ \A x \in Requests \ {r} : key'[x] = key[x]
      BY <2>0, <2>5 DEF RespondFlush, RespondEmptied, TypeOK, Saving
    <3>2. \A j \in Keys : data'[j] \subseteq IF j = key[r] THEN session[r] ELSE data[j]
      BY <2>0, <3>1 DEF DeleteRow, TypeOK
    <3>3. erased' \subseteq erased \cup (Content(key[r]) \ session[r])
      BY <3>1 DEF Erase
    <3> QED
      BY <2>0, <3>1, <3>2, <3>3, RowReplaced
  \* The session of r is stored.
  <2>b. ASSUME NEW r \in Requests, pc[r] \in Saving, UNCHANGED <<owner, session>>,
               NEW k \in Keys, k = key[r] \/ key[r] = NoKey,
               \A x \in Requests \ {r} : key'[x] = key[x],
               SaveRow(r, k), Erase(r)
        PROVE  ErasedInv'
    <3>1. /\ pc' = [pc EXCEPT ![r] = "responded"] /\ k \in MaybeKey
          /\ erased' \subseteq erased \cup (Content(key[r]) \ session[r])
      BY <2>b DEF SaveRow, Erase, MaybeKey
    <3>2. \A j \in Keys : data'[j] \subseteq IF j = k THEN session[r] ELSE data[j]
      BY <2>0, <2>b DEF SaveRow, TypeOK
    <3> QED
      BY <2>0, <2>b, <3>1, <3>2, RowReplaced
  <2>6. ASSUME NEW r \in Requests, RespondSave(r) PROVE ErasedInv'
    <3>1. pc[r] = "handling" /\ pc[r] \in Saving /\ UNCHANGED <<owner, session>>
      BY <2>6 DEF RespondSave, Saving
    <3>2. /\ key'[r] \in Keys /\ (key'[r] = key[r] \/ key[r] = NoKey)
          /\ \A x \in Requests \ {r} : key'[x] = key[x]
      BY <2>0, <2>6 DEF RespondSave, NewKey, TypeOK, MaybeKey
    <3>3. CASE engine = "cache"
      <4>1. SaveRow(r, key'[r]) /\ Erase(r)
        BY <2>6, <3>3 DEF RespondSave
      <4> QED
        BY <2>b, <3>1, <3>2, <4>1
    <3>4. CASE engine # "cache"
      <4>1. /\ pc' \in {[pc EXCEPT ![r] = "updating"], [pc EXCEPT ![r] = "inserting"]}
            /\ UNCHANGED <<erased, data>>
        BY <2>6, <3>4 DEF RespondSave
      <4> QED
        BY <2>a, <3>1, <3>2, <4>1
    <3> QED
      BY <3>3, <3>4
  <2>7. ASSUME NEW r \in Requests, SaveUpdate(r) \/ SaveInsert(r) PROVE ErasedInv'
    <3>1. pc[r] \in Saving /\ key[r] \in Keys /\ UNCHANGED requestVars
      BY <2>0, <2>7 DEF SaveUpdate, SaveInsert, Under, Saving
    <3>2. CASE SaveRow(r, key[r]) /\ Erase(r)
      BY <2>b, <3>1, <3>2
    <3>3. CASE /\ pc' \in {[pc EXCEPT ![r] = "failed"], [pc EXCEPT ![r] = "inserting"]}
               /\ UNCHANGED <<rowVars, erased, known>>
      BY <2>a, <3>1, <3>3
    <3> QED
      BY <2>7, <3>2, <3>3 DEF SaveUpdate, SaveInsert
  <2>8. ASSUME NEW k \in Keys, CleanupDelete(k) PROVE ErasedInv'
    <3>1. \A j \in Keys : data'[j] \subseteq data[j]
      BY <2>0, <2>8, DeleteRowLess DEF CleanupDelete, MaybeKey
    <3> QED
      BY <2>0, <2>8, <3>1, NothingErased DEF CleanupDelete
  <2>10. ASSUME NEW r \in Requests, Purge(r) PROVE ErasedInv'
    <3>1. \A j \in Keys : data'[j] \subseteq data[j]
      BY <2>0, <2>10, RowsOf DEF Purge, TypeOK
    <3>2. /\ pc[r] = "purging" /\ pc' = [pc EXCEPT ![r] = "handling"]
          /\ UNCHANGED <<owner, key, session, erased>>
      BY <2>10 DEF Purge
    <3> QED
      BY <2>0, <3>1, <3>2, NothingErased DEF TypeOK, Saving
  <2>9. CASE CleanupList \/ (\E k \in Keys : Expire(k)) \/ UNCHANGED vars
    BY <2>0, <2>9, NothingErased DEF CleanupList, Expire, vars
  <2> QED
    BY <2>1, <2>2, <2>3, <2>4, <2>5, <2>6, <2>7, <2>8, <2>9, <2>10 DEF Next, Persist
<1> QED
  BY <1>1, <1>2, TypeInvariant, KeyInvariant, SaveInvariant, MarkInvariant, PTL DEF Spec

\* What was flushed or emptied comes back for no client that waits.
THEOREM ErasedStaysErasedHolds == Spec => []ErasedStaysErased
<1>1. TypeInv /\ ErasedInv => ErasedStaysErased
  BY DEF TypeInv, TypeOK, ErasedInv, OneRow, ErasedStaysErased
<1> QED
  BY <1>1, TypeInvariant, ErasedInvariant, PTL
=============================================================================
