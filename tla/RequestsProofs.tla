--------------------------- MODULE RequestsProofs ---------------------------
(***************************************************************************)
(* Proofs about Requests, for any number of requests under way, messages,  *)
(* tokens, chunks and URLs: the invariant below, and from it the           *)
(* properties of Requests, with Inbox as what the storages of messages     *)
(* implement.                                                              *)
(***************************************************************************)
EXTENDS Requests, SequenceTheorems, WellFoundedInduction, TLAPS

\* The messages that wait in the browser.
InFlash == UNION {Range(flash[d]) : d \in Directories}
Waiting == InFlash \cup Range(cookie.msgs)

\* Those that have been listed.
Seen == {m \in Messages : seen[m] # 0}

\* The messages of its cookie that a request works on.
Cargo(r) == IF pending[r] = None THEN Range(carried[r]) ELSE Range(pending[r])

Active(r) == stage[r] # "idle"

\* All of the scope is gone, as after HandlerRaises.
Forgotten(r) ==
    /\ stage[r] = "respond"
    /\ pending[r] = None /\ shown[r] = <<>> /\ added[r] = {}
    /\ session[r] = Empty /\ loaded[r] = Empty
    /\ page[r] = None /\ flushed[r] = FALSE

Working(r) == Active(r) /\ ~ Forgotten(r)

\* A slot without a request has nothing of one, a request has a URL.
IdleClean ==
    \A r \in Slots :
        /\ ~ Active(r) =>
            /\ posted[r] = None /\ got[r] = 0 /\ gone[r] = FALSE
            /\ pending[r] = None /\ shown[r] = <<>> /\ added[r] = {}
            /\ page[r] = None /\ flushed[r] = FALSE
        /\ Active(r) => url[r] \in Urls

\* Every message anywhere has been added once.
UsedCovers ==
    /\ Waiting \cup Seen \subseteq used
    /\ \A r \in Slots :
        /\ Range(carried[r]) \cup Cargo(r) \subseteq used
        /\ Range(loaded[r].msgs) \cup Range(session[r].msgs) \subseteq used
        /\ Range(shown[r]) \cup added[r] \subseteq used

\* Each storage uses its own part.
StorageUse ==
    /\ storage = "cookie" =>
        /\ cookie.msgs = <<>>
        /\ \A r \in Slots : session[r].msgs = <<>> /\ loaded[r].msgs = <<>>
    /\ storage = "session" =>
        /\ \A d \in Directories : flash[d] = <<>>
        /\ \A r \in Slots : carried[r] = <<>> /\ pending[r] = None

\* No more is drained than there is, nor more than one chunk over the limit.
DrainBound ==
    \A r \in Slots :
        /\ got[r] <= body[r]
        /\ stage[r] = "drain" => got[r] <= BodyLimit + 1

\* A single request is under way, with the cookies the browser still has.
CalmAlone ==
    trouble # "disturbed" => \A r \in Slots : Active(r) =>
        /\ \A s \in Slots : Active(s) => s = r
        /\ Working(r) =>
            /\ loaded[r] = cookie
            /\ ~ Away(url[r]) => carried[r] = flash[HomeOf[url[r]]]

\* The forms of the browser, and that of the response, have the token of the
\* session; and so has the form that is posted.
CalmTokens ==
    trouble # "disturbed" =>
        /\ forms \subseteq {cookie.token}
        /\ \A r \in Slots : Active(r) =>
            /\ loaded[r].token # None => session[r].token = loaded[r].token
            /\ page[r] # None => page[r] = session[r].token
            /\ stage[r] = "drain" => posted[r] \in Tokens /\ posted[r] = session[r].token
            /\ flushed[r] = FALSE

Calm == trouble \in {"none", "copies"}

\* The request has added or shown messages.
Touched(r) == pending[r] # None \/ shown[r] # <<>> \/ added[r] # {}

\* A request touches messages where no cookie of another directory has any.
\* There it holds what waited and what it added, but for what it has shown.
CalmMessages ==
    Calm => \A r \in Slots : Working(r) =>
        /\ IF Touched(r) THEN ~ Away(url[r]) ELSE session[r].msgs = loaded[r].msgs
        /\ ~ Away(url[r]) =>
            /\ Cargo(r) \cup Range(session[r].msgs) \cup Range(shown[r]) = Waiting \cup added[r]
            /\ (Cargo(r) \cup Range(session[r].msgs)) \cap Range(shown[r]) = {}
            /\ shown[r] # <<>> => Waiting \subseteq Range(shown[r])
            /\ added[r] \cap (Waiting \cup Seen) = {}

\* No message is twice in the cookies, in what a request holds or has shown.
CalmOnce ==
    trouble = "none" =>
        /\ Tidy
        /\ \A r \in Slots : Working(r) =>
            /\ IsInjective(shown[r])
            /\ ~ Away(url[r]) => IsInjective(InCookie(r) \o session[r].msgs)

RequestsInv ==
    /\ TypeOK
    /\ IdleClean
    /\ UsedCovers
    /\ StorageUse
    /\ DrainBound
    /\ BodyIntact
    /\ CalmAlone
    /\ CalmTokens
    /\ CalmMessages
    /\ CalmOnce

-----------------------------------------------------------------------------
\* The sequences that the storages build.

LEMMA NoRange == Range(<<>>) = {}
BY DEF Range

LEMMA NothingConcat == ASSUME NEW s \in Seq(Messages) PROVE <<>> \o s = s /\ s \o <<>> = s
BY ConcatEmptySeq

LEMMA RangeOfAppend ==
    ASSUME NEW s \in Seq(Messages), NEW m \in Messages
    PROVE  Append(s, m) \in Seq(Messages) /\ Range(Append(s, m)) = Range(s) \cup {m}
<1>1. Append(s, m) = s \o <<m>> /\ <<m>> \in Seq(Messages)
  BY AppendIsConcat
<1>2. Range(<<m>>) = {m}
  BY DEF Range
<1>3. Range(s \o <<m>>) = Range(s) \cup Range(<<m>>)
  <2>1. <<m>> \in Seq(Messages)
    BY <1>1
  <2>. QED BY <2>1, RangeConcatenation, Zenon
<1>4. Append(s, m) \in Seq(Messages)
  BY AppendProperties
<1>. QED BY <1>1, <1>2, <1>3, <1>4

\* A list without duplicates is still without when another message joins it,
\* or a list of others; and so are its parts.
LEMMA OnceConcat ==
    ASSUME NEW s \in Seq(Messages), NEW t \in Seq(Messages), IsInjective(s), IsInjective(t),
           Range(s) \cap Range(t) = {}
    PROVE  IsInjective(s \o t)
<1> SUFFICES ASSUME NEW i \in 1..Len(s) + Len(t), NEW j \in 1..Len(s) + Len(t), (s \o t)[i] = (s \o t)[j]
             PROVE  i = j
  BY DEF IsInjective
<1>1. \A k \in 1..Len(s) + Len(t) : (s \o t)[k] = IF k <= Len(s) THEN s[k] ELSE t[k - Len(s)]
  OBVIOUS
<1>2. \A k \in 1..Len(s) : s[k] \in Range(s)
  BY DEF Range
<1>3. \A k \in 1..Len(t) : t[k] \in Range(t)
  BY DEF Range
<1>4. CASE i <= Len(s) /\ j <= Len(s)
  BY <1>1, <1>4 DEF IsInjective
<1>5. CASE i > Len(s) /\ j > Len(s)
  <2>1. t[i - Len(s)] = t[j - Len(s)] /\ i - Len(s) \in 1..Len(t) /\ j - Len(s) \in 1..Len(t)
    BY <1>1, <1>5
  <2>2. i - Len(s) = j - Len(s)
    BY <2>1 DEF IsInjective
  <2>. QED BY <2>2
<1>6. CASE i <= Len(s) /\ j > Len(s)
  <2>1. s[i] = t[j - Len(s)] /\ i \in 1..Len(s) /\ j - Len(s) \in 1..Len(t)
    BY <1>1, <1>6
  <2>. QED BY <1>2, <1>3, <2>1
<1>7. CASE i > Len(s) /\ j <= Len(s)
  <2>1. s[j] = t[i - Len(s)] /\ j \in 1..Len(s) /\ i - Len(s) \in 1..Len(t)
    BY <1>1, <1>7
  <2>. QED BY <1>2, <1>3, <2>1
<1>. QED BY <1>4, <1>5, <1>6, <1>7

LEMMA OnceAppend ==
    ASSUME NEW s \in Seq(Messages), NEW m \in Messages, IsInjective(s), m \notin Range(s)
    PROVE  IsInjective(Append(s, m))
<1>1. Append(s, m) = s \o <<m>> /\ <<m>> \in Seq(Messages) /\ IsInjective(<<m>>) /\ Range(<<m>>) = {m}
  BY AppendIsConcat DEF IsInjective, Range
<1>2. IsInjective(s \o <<m>>)
  <2>1. <<m>> \in Seq(Messages) /\ Range(s) \cap Range(<<m>>) = {}
    BY <1>1
  <2>. QED BY <1>1, <2>1, OnceConcat
<1>. QED BY <1>1, <1>2

LEMMA OnceRest ==
    ASSUME NEW s \in Seq(Messages), NEW t \in Seq(Messages), IsInjective(s \o t)
    PROVE  IsInjective(t)
<1> SUFFICES ASSUME NEW i \in 1..Len(t), NEW j \in 1..Len(t), t[i] = t[j] PROVE i = j
  BY DEF IsInjective
<1>1. /\ (s \o t)[Len(s) + i] = t[i] /\ (s \o t)[Len(s) + j] = t[j]
      /\ Len(s) + i \in 1..Len(s \o t) /\ Len(s) + j \in 1..Len(s \o t)
  OBVIOUS
<1>2. Len(s) + i = Len(s) + j
  <2>1. DOMAIN (s \o t) = 1..Len(s \o t)
    OBVIOUS
  <2>. QED BY <1>1, <2>1 DEF IsInjective
<1>. QED BY <1>2

-----------------------------------------------------------------------------
\* What a request carries and holds.

\* Of the cookies that are sent one is the last.
LEMMA OneIsLast ==
    ASSUME NEW D \in SUBSET Directories, D # {}
    PROVE  \E d \in D : \A e \in D : Depth[d] <= Depth[e]
<1>. DEFINE T == {Depth[d] : d \in D}
<1>1. T \subseteq Nat /\ T # {} /\ \A d \in D : Depth[d] \in Nat
  BY RequestsAssumption
<1>2. PICK x \in T : \A y \in T : ~ (<<y, x>> \in OpToRel(<, Nat))
  BY <1>1, NatLessThanWellFounded, WFMin
<1>3. \A y \in T : ~ (y < x)
  BY <1>1, <1>2 DEF OpToRel
<1>4. PICK d \in D : Depth[d] = x
  BY <1>2
<1>5. \A e \in D : Depth[e] \in T /\ Depth[e] \in Nat
  BY <1>1
<1>6. x \in Nat
  BY <1>1
<1>. HIDE DEF T
<1>7. \A e \in D : Depth[d] <= Depth[e]
  BY <1>3, <1>4, <1>5, <1>6
<1>. QED BY <1>7

\* A request carries one of the cookies or none, and that of its own directory
\* when the others are empty.
LEMMA CarriedIs ==
    ASSUME TypeOK, NEW u \in Urls
    PROVE  /\ Carried(u) = <<>> \/ \E d \in Directories : Carried(u) = flash[d]
           /\ Carried(u) \in Seq(Messages)
           /\ HomeOf[u] \in Directories
           /\ ~ Away(u) => Carried(u) = flash[HomeOf[u]]
<1>. DEFINE D == {d \in Sent[u] : flash[d] # <<>>}
<1>. DEFINE last == CHOOSE d \in D : \A e \in D : Depth[d] <= Depth[e]
<1>1. D \subseteq Directories /\ HomeOf[u] \in Sent[u]
  BY RequestsAssumption
<1>2. D # {} => last \in D
  BY <1>1, OneIsLast
<1>3. Carried(u) = IF D = {} THEN <<>> ELSE flash[last]
  BY DEF Carried
<1>4. HomeOf[u] \in Directories
  BY RequestsAssumption DEF Directories, Range
<1>5. ~ Away(u) => D \subseteq {HomeOf[u]}
  BY <1>1 DEF Away
<1>. HIDE DEF last
<1>6. ~ Away(u) => Carried(u) = flash[HomeOf[u]]
  <2>1. CASE D = {}
    BY <1>1, <1>3, <2>1
  <2>2. CASE D # {}
    BY <1>2, <1>3, <1>5, <2>2
  <2>. QED BY <2>1, <2>2
<1>7. Carried(u) = <<>> \/ \E d \in Directories : Carried(u) = flash[d]
  BY <1>1, <1>2, <1>3
<1>8. Carried(u) \in Seq(Messages)
  <2>1. <<>> \in Seq(Messages) /\ \A d \in Directories : flash[d] \in Seq(Messages)
    BY DEF TypeOK
  <2>. QED BY <1>7, <2>1
<1>. QED BY <1>4, <1>6, <1>7, <1>8

\* What add and read see of a request.
LEMMA HeldIs ==
    ASSUME TypeOK, StorageUse, NEW r \in Slots
    PROVE  /\ InCookie(r) \in Seq(Messages) /\ session[r].msgs \in Seq(Messages)
           /\ Held(r) = InCookie(r) \o session[r].msgs
           /\ Held(r) \in Seq(Messages)
           /\ Range(Held(r)) = Cargo(r) \cup Range(session[r].msgs)
<1>1. InCookie(r) \in Seq(Messages) /\ Range(InCookie(r)) = Cargo(r)
  BY DEF TypeOK, InCookie, Cargo
<1>2. session[r].msgs \in Seq(Messages)
  BY DEF TypeOK, Contents
<1>3. Held(r) = InCookie(r) \o session[r].msgs
  <2>1. CASE storage = "cookie"
    BY <1>1, <2>1, NothingConcat DEF StorageUse, Held
  <2>2. CASE storage = "session"
    BY <1>2, <2>2, NothingConcat DEF StorageUse, Held, InCookie
  <2>3. CASE storage = "fallback"
    BY <2>3 DEF Held
  <2>. QED BY <2>1, <2>2, <2>3, RequestsAssumption DEF TypeOK
<1>4. Held(r) \in Seq(Messages) /\ Range(Held(r)) = Cargo(r) \cup Range(session[r].msgs)
  BY <1>1, <1>2, <1>3, RangeConcatenation, ConcatProperties
<1>. QED BY <1>1, <1>2, <1>3, <1>4

-----------------------------------------------------------------------------
\* The steps of a request

\* What waits in the cookies when those of the other directories are empty.
LEMMA InFlashIs ==
    ASSUME NEW u \in Urls, ~ Away(u)
    PROVE  InFlash = Range(flash[HomeOf[u]])
<1>1. HomeOf[u] \in Directories
  BY RequestsAssumption DEF Directories, Range
<1>2. \A d \in Directories \ {HomeOf[u]} : Range(flash[d]) = {}
  BY NoRange DEF Away
<1>. QED BY <1>1, <1>2 DEF InFlash

\* Most steps leave the messages alone.
LEMMA SameMessages ==
    ASSUME RequestsInv,
           UNCHANGED <<storage, flash, cookie, url, carried, pending, loaded, shown, added, seen, trouble>>,
           used \subseteq used',
           \A r \in Slots : session'[r].msgs = session[r].msgs,
           \A r \in Slots : (Active(r)' => Active(r)) /\ (Working(r)' => Working(r))
    PROVE  UsedCovers' /\ StorageUse' /\ CalmAlone' /\ CalmMessages' /\ CalmOnce'
<1>1. /\ InFlash' = InFlash /\ Waiting' = Waiting /\ Seen' = Seen /\ Tidy' = Tidy /\ Calm' = Calm
      /\ \A r \in Slots : /\ Cargo(r)' = Cargo(r) /\ InCookie(r)' = InCookie(r)
                          /\ Away(url[r])' = Away(url[r]) /\ Touched(r)' = Touched(r)
  BY DEF InFlash, Waiting, Seen, Tidy, Calm, Cargo, InCookie, Away, Touched
<1>2. UsedCovers'
  BY <1>1 DEF RequestsInv, UsedCovers
<1>3. StorageUse'
  BY DEF RequestsInv, StorageUse
<1>4. CalmAlone'
  BY <1>1 DEF RequestsInv, CalmAlone
<1>5. CalmMessages'
  BY <1>1 DEF RequestsInv, CalmMessages
<1>6. CalmOnce'
  BY <1>1 DEF RequestsInv, CalmOnce
<1>. QED BY <1>2, <1>3, <1>4, <1>5, <1>6

\* A request comes with copies of the cookies.
LEMMA ArriveKeepsMessages ==
    ASSUME RequestsInv, NEW r \in Slots, NEW u \in Urls, NEW where \in {"drain", "handle"}, Arrive(r, u, where)
    PROVE  UsedCovers' /\ StorageUse' /\ CalmAlone' /\ CalmMessages' /\ CalmOnce'
<1>1. /\ UNCHANGED <<storage, flash, cookie, pending, shown, page, flushed, added, used, seen>>
      /\ carried' = [carried EXCEPT ![r] = Carried(u)] /\ url' = [url EXCEPT ![r] = u]
      /\ loaded' = [loaded EXCEPT ![r] = cookie] /\ session' = [session EXCEPT ![r] = cookie]
      /\ stage' = [stage EXCEPT ![r] = where]
  BY DEF Arrive, browserVars, pageVars
<1>2. /\ carried'[r] = Carried(u) /\ loaded'[r] = cookie /\ session'[r] = cookie /\ url'[r] = u
      /\ \A s \in Slots \ {r} : /\ carried'[s] = carried[s] /\ loaded'[s] = loaded[s]
                                /\ session'[s] = session[s] /\ url'[s] = url[s]
  BY <1>1 DEF RequestsInv, TypeOK
<1>3. pending[r] = None /\ shown[r] = <<>> /\ added[r] = {}
  BY DEF RequestsInv, IdleClean, Active, Arrive
<1>4. /\ Carried(u) = <<>> \/ \E d \in Directories : Carried(u) = flash[d]
      /\ ~ Away(u) => Carried(u) = flash[HomeOf[u]]
      /\ HomeOf[u] \in Directories
  BY CarriedIs DEF RequestsInv
<1>5. InFlash' = InFlash /\ Waiting' = Waiting /\ Seen' = Seen /\ Tidy' = Tidy
  BY <1>1 DEF InFlash, Waiting, Seen, Tidy
<1>6. /\ Cargo(r)' = Range(Carried(u)) /\ InCookie(r)' = Carried(u)
      /\ \A s \in Slots \ {r} : Cargo(s)' = Cargo(s)
  BY <1>1, <1>2, <1>3 DEF Cargo, InCookie
<1>7. Away(url[r])' = Away(u)
  BY <1>1, <1>2 DEF Away
<1>8. ASSUME trouble' # "disturbed"
      PROVE  trouble' = trouble /\ \A s \in Slots : Active(s)' => s = r
  BY <1>1, <1>8 DEF Arrive, Alone, Active, RequestsInv, TypeOK
<1>9. UsedCovers'
  <2>1. Range(Carried(u)) \subseteq Waiting
    BY <1>4, NoRange DEF Waiting, InFlash
  <2>2. Waiting \cup Seen \subseteq used /\ Range(cookie.msgs) \subseteq used
    BY DEF RequestsInv, UsedCovers, Waiting
  <2>3. ASSUME NEW s \in Slots
        PROVE  /\ Range(carried'[s]) \cup Cargo(s)' \subseteq used
               /\ Range(loaded'[s].msgs) \cup Range(session'[s].msgs) \subseteq used
               /\ Range(shown[s]) \cup added[s] \subseteq used
    <3>1. CASE s = r
      BY <1>2, <1>3, <1>6, <2>1, <2>2, <3>1, NoRange
    <3>2. CASE s # r
      BY <1>2, <1>6, <3>2 DEF RequestsInv, UsedCovers
    <3>. QED BY <3>1, <3>2
  <2>. QED BY <1>1, <1>5, <2>2, <2>3 DEF UsedCovers
<1>10. StorageUse'
  <2>1. storage = "session" => Carried(u) = <<>>
    BY <1>4 DEF RequestsInv, StorageUse
  <2>. QED BY <1>1, <1>2, <2>1 DEF RequestsInv, StorageUse
<1>11. CalmAlone'
  <2> SUFFICES ASSUME trouble' # "disturbed"
               PROVE  loaded'[r] = cookie /\ (~ Away(u) => carried'[r] = flash[HomeOf[u]])
    BY <1>1, <1>2, <1>7, <1>8 DEF CalmAlone
  <2>. QED BY <1>2, <1>4
<1>12. CalmMessages'
  <2> SUFFICES ASSUME Calm'
               PROVE  /\ ~ Touched(r)' /\ session'[r].msgs = loaded'[r].msgs
                      /\ ~ Away(u) =>
                          /\ Cargo(r)' \cup Range(session'[r].msgs) \cup Range(shown[r]) = Waiting \cup added[r]
                          /\ (Cargo(r)' \cup Range(session'[r].msgs)) \cap Range(shown[r]) = {}
                          /\ shown[r] # <<>> => Waiting \subseteq Range(shown[r])
                          /\ added[r] \cap (Waiting \cup Seen) = {}
    <3>1. ASSUME Calm', NEW s \in Slots, Working(s)' PROVE s = r
      BY <1>8, <3>1 DEF Calm, Working
    <3>. QED BY <1>1, <1>5, <1>7, <3>1 DEF CalmMessages
  <2>1. ~ Touched(r)' /\ session'[r].msgs = loaded'[r].msgs
    BY <1>1, <1>2, <1>3 DEF Touched
  <2>2. ASSUME ~ Away(u) PROVE Cargo(r)' \cup Range(session'[r].msgs) = Waiting
    BY <1>2, <1>4, <1>6, <2>2, InFlashIs DEF Waiting
  <2>. QED BY <1>3, <2>1, <2>2, NoRange
<1>13. CalmOnce'
  <2> SUFFICES ASSUME trouble' = "none"
               PROVE  /\ Tidy /\ IsInjective(shown[r])
                      /\ ~ Away(u) => IsInjective(Carried(u) \o cookie.msgs)
    <3>1. ASSUME trouble' = "none", NEW s \in Slots, Working(s)' PROVE s = r
      BY <1>8, <3>1 DEF Working
    <3>. QED BY <1>1, <1>2, <1>5, <1>6, <1>7, <3>1 DEF CalmOnce
  <2>1. Tidy
    BY <1>8 DEF RequestsInv, CalmOnce
  <2>2. IsInjective(shown[r])
    BY <1>3 DEF IsInjective
  <2>. QED BY <1>4, <2>1, <2>2 DEF Tidy
<1>. QED BY <1>9, <1>10, <1>11, <1>12, <1>13

LEMMA GetKeeps == ASSUME RequestsInv, NEW r \in Slots, NEW u \in Urls, Get(r, u) PROVE RequestsInv'
<1>a. Arrive(r, u, "handle") /\ Carried(u) \in Seq(Messages)
  BY CarriedIs DEF Get, RequestsInv
<1>1. TypeOK'
  BY <1>a DEF RequestsInv, TypeOK, Contents, Get, Arrive, browserVars, pageVars
<1>2. IdleClean'
  BY DEF RequestsInv, TypeOK, IdleClean, Active, Get, Arrive, pageVars
<1>3. UsedCovers' /\ StorageUse' /\ CalmAlone' /\ CalmMessages' /\ CalmOnce'
  BY <1>a, ArriveKeepsMessages
<1>4. DrainBound'
  BY DEF RequestsInv, TypeOK, DrainBound, Get, Arrive
<1>5. BodyIntact'
  BY DEF RequestsInv, TypeOK, BodyIntact, IdleClean, Active, Get, Arrive
<1>6. CalmTokens'
  BY DEF RequestsInv, TypeOK, CalmTokens, IdleClean, Active, Get, Arrive, Alone, browserVars, pageVars
<1>. QED BY <1>1, <1>2, <1>3, <1>4, <1>5, <1>6 DEF RequestsInv

\* So does one with a form.
LEMMA PostKeeps ==
    ASSUME RequestsInv, NEW r \in Slots, NEW u \in Urls, NEW token \in forms,
           NEW header \in BOOLEAN, NEW chunks \in {1, MaxBody}, Post(r, u, token, header, chunks)
    PROVE  RequestsInv'
<1>a. Arrive(r, u, "drain") /\ Carried(u) \in Seq(Messages)
  BY CarriedIs DEF Post, RequestsInv
<1>1. TypeOK'
  <2>1. chunks \in 1..MaxBody /\ token \in Tokens
    BY RequestsAssumption DEF RequestsInv, TypeOK
  <2>2. posted' \in [Slots -> Tokens \cup {None}] /\ inHeader' \in [Slots -> BOOLEAN] /\ body' \in [Slots -> 1..MaxBody]
    BY <2>1 DEF RequestsInv, TypeOK, Post
  <2>3. /\ stage' \in [Slots -> {"idle", "drain", "handle", "respond"}] /\ url' \in [Slots -> Urls \cup {None}]
        /\ trouble' \in {"none", "copies", "astray", "disturbed"}
    BY <1>a DEF RequestsInv, TypeOK, Arrive
  <2>4. carried' \in [Slots -> Seq(Messages)] /\ loaded' \in [Slots -> Contents] /\ session' \in [Slots -> Contents]
    BY <1>a DEF RequestsInv, TypeOK, Arrive
  <2>. QED BY <1>a, <2>2, <2>3, <2>4 DEF RequestsInv, TypeOK, Arrive, browserVars, pageVars
<1>2. IdleClean'
  BY DEF RequestsInv, TypeOK, IdleClean, Active, Post, Arrive, pageVars
<1>3. UsedCovers' /\ StorageUse' /\ CalmAlone' /\ CalmMessages' /\ CalmOnce'
  BY <1>a, ArriveKeepsMessages
<1>4. DrainBound'
  BY RequestsAssumption DEF RequestsInv, TypeOK, DrainBound, IdleClean, Active, Post, Arrive
<1>5. BodyIntact'
  BY DEF RequestsInv, TypeOK, BodyIntact, Post, Arrive
<1>6. CalmTokens'
  <2> SUFFICES ASSUME trouble' # "disturbed"
               PROVE  /\ forms \subseteq {cookie.token}
                      /\ \A s \in Slots : stage'[s] # "idle" =>
                          /\ loaded'[s].token # None => session'[s].token = loaded'[s].token
                          /\ page'[s] # None => page'[s] = session'[s].token
                          /\ stage'[s] = "drain" => posted'[s] \in Tokens /\ posted'[s] = session'[s].token
                          /\ flushed'[s] = FALSE
    BY DEF CalmTokens, Active, Post, Arrive, browserVars
  <2>1. trouble # "disturbed" /\ Alone(r) /\ ~ Active(r)
    BY DEF Post, Arrive, Active
  <2>2. forms \subseteq {cookie.token} /\ token = cookie.token /\ token \in Tokens
    BY <2>1 DEF RequestsInv, TypeOK, CalmTokens
  <2>3. \A s \in Slots : stage'[s] # "idle" => s = r
    BY <2>1 DEF RequestsInv, TypeOK, Post, Arrive, Alone
  <2>4. page'[r] = None /\ flushed'[r] = FALSE
    BY <2>1 DEF RequestsInv, IdleClean, Post, Arrive, pageVars
  <2>5. session'[r] = cookie /\ loaded'[r] = cookie /\ posted'[r] = token
    BY DEF RequestsInv, TypeOK, Post, Arrive
  <2>. QED BY <2>2, <2>3, <2>4, <2>5
<1>. QED BY <1>1, <1>2, <1>3, <1>4, <1>5, <1>6 DEF RequestsInv

\* One chunk is drained.
LEMMA ReceiveKeeps == ASSUME RequestsInv, NEW r \in Slots, Receive(r) PROVE RequestsInv'
<1>1. TypeOK'
  <2>1. got[r] \in 0..MaxBody /\ body[r] \in 1..MaxBody /\ got[r] <= body[r] /\ got[r] # body[r] /\ MaxBody \in Nat
    BY RequestsAssumption DEF RequestsInv, TypeOK, DrainBound, Receive, Drained
  <2>2. got[r] + 1 \in 0..MaxBody
    BY <2>1
  <2>. QED BY <2>2 DEF RequestsInv, TypeOK, Receive, browserVars, scopeVars, pageVars
<1>2. IdleClean'
  BY DEF RequestsInv, TypeOK, IdleClean, Active, Receive, scopeVars, pageVars
<1>3. UsedCovers' /\ StorageUse' /\ CalmAlone' /\ CalmMessages' /\ CalmOnce'
  BY SameMessages DEF Receive, Active, Working, Forgotten, browserVars, scopeVars, pageVars
<1>4. DrainBound'
  BY RequestsAssumption DEF RequestsInv, TypeOK, DrainBound, Receive, Drained
<1>5. BodyIntact'
  BY DEF RequestsInv, TypeOK, BodyIntact, Receive, Drained
<1>6. CalmTokens'
  BY DEF RequestsInv, TypeOK, CalmTokens, Active, Receive, browserVars, scopeVars, pageVars
<1>. QED BY <1>1, <1>2, <1>3, <1>4, <1>5, <1>6 DEF RequestsInv

\* The client goes.
LEMMA DisconnectKeeps == ASSUME RequestsInv, NEW r \in Slots, Disconnect(r) PROVE RequestsInv'
<1>1. TypeOK'
  BY DEF RequestsInv, TypeOK, Contents, Disconnect, browserVars, scopeVars, pageVars
<1>2. IdleClean'
  BY DEF RequestsInv, TypeOK, IdleClean, Active, Disconnect, scopeVars, pageVars
<1>3. UsedCovers' /\ StorageUse' /\ CalmAlone' /\ CalmMessages' /\ CalmOnce'
  BY SameMessages DEF Disconnect, Active, Working, Forgotten, browserVars, scopeVars, pageVars
<1>4. DrainBound'
  BY DEF RequestsInv, TypeOK, DrainBound, Disconnect
<1>5. BodyIntact'
  BY DEF RequestsInv, TypeOK, BodyIntact, Disconnect
<1>6. CalmTokens'
  BY DEF RequestsInv, TypeOK, CalmTokens, Active, Disconnect, browserVars, scopeVars, pageVars
<1>. QED BY <1>1, <1>2, <1>3, <1>4, <1>5, <1>6 DEF RequestsInv

\* The stage of a request that is not over moves on.
LEMMA MovesOn ==
    ASSUME TypeOK, NEW r \in Slots, stage[r] \in {"drain", "handle"}, NEW to, stage' = [stage EXCEPT ![r] = to],
           UNCHANGED <<pending, shown, added, session, loaded, page, flushed>>
    PROVE  \A s \in Slots : (Active(s)' => Active(s)) /\ (Working(s)' => Working(s))
<1>1. ASSUME NEW s \in Slots, s # r PROVE Active(s)' = Active(s) /\ Forgotten(s)' = Forgotten(s)
  BY <1>1 DEF TypeOK, Active, Forgotten
<1>2. Active(r) /\ ~ Forgotten(r)
  BY DEF Active, Forgotten
<1>. QED BY <1>1, <1>2 DEF Working

\* The form has the token of the session.
LEMMA AcceptKeeps == ASSUME RequestsInv, NEW r \in Slots, Accept(r) PROVE RequestsInv'
<1>1. TypeOK'
  BY DEF RequestsInv, TypeOK, Contents, Accept, browserVars, scopeVars, pageVars
<1>2. IdleClean'
  BY DEF RequestsInv, TypeOK, IdleClean, Active, Accept, scopeVars, pageVars
<1>3. UsedCovers' /\ StorageUse' /\ CalmAlone' /\ CalmMessages' /\ CalmOnce'
  BY SameMessages, MovesOn DEF RequestsInv, Accept, browserVars, scopeVars, pageVars
<1>4. DrainBound'
  BY DEF RequestsInv, TypeOK, DrainBound, Accept
<1>5. BodyIntact'
  BY RequestsAssumption DEF RequestsInv, TypeOK, BodyIntact, DrainBound, Accept, Drained
<1>6. CalmTokens'
  BY DEF RequestsInv, TypeOK, CalmTokens, Active, Accept, browserVars, scopeVars, pageVars
<1>. QED BY <1>1, <1>2, <1>3, <1>4, <1>5, <1>6 DEF RequestsInv

\* The form has not, or not yet.
LEMMA RejectKeeps == ASSUME RequestsInv, NEW r \in Slots, Reject(r) PROVE RequestsInv'
<1>1. TypeOK'
  BY RequestsAssumption DEF RequestsInv, TypeOK, Contents, Reject, NoForm, browserVars, scopeVars, pageVars
<1>2. IdleClean'
  BY DEF RequestsInv, TypeOK, IdleClean, Active, Reject, NoForm, scopeVars, pageVars
<1>3. UsedCovers' /\ StorageUse' /\ CalmAlone' /\ CalmMessages' /\ CalmOnce'
  BY SameMessages, MovesOn DEF RequestsInv, Reject, browserVars, scopeVars, pageVars
<1>4. DrainBound'
  BY DEF RequestsInv, TypeOK, DrainBound, Reject, NoForm
<1>5. BodyIntact'
  BY DEF RequestsInv, TypeOK, BodyIntact, Reject, NoForm
<1>6. CalmTokens'
  BY DEF RequestsInv, TypeOK, CalmTokens, Active, Reject, NoForm, browserVars, scopeVars, pageVars
<1>. QED BY <1>1, <1>2, <1>3, <1>4, <1>5, <1>6 DEF RequestsInv

\* A message joins those of the request.
LEMMA AddKeeps == ASSUME RequestsInv, NEW r \in Slots, NEW m \in Messages, Add(r, m) PROVE RequestsInv'
<1>. DEFINE list == Append(Held(r), m)
<1>. DEFINE small == storage # "session" /\ Fits(list)
<1>a. /\ Held(r) = InCookie(r) \o session[r].msgs /\ Held(r) \in Seq(Messages)
      /\ list \in Seq(Messages)
      /\ Range(Held(r)) = Cargo(r) \cup Range(session[r].msgs)
      /\ Range(list) = Cargo(r) \cup Range(session[r].msgs) \cup {m}
  BY HeldIs, RangeOfAppend DEF RequestsInv
<1>b. IF small THEN Keep(r, list) ELSE Overflow(r, list)
  BY DEF Add
<1>c. /\ pending' = [pending EXCEPT ![r] = IF small THEN list ELSE IF storage = "fallback" THEN None ELSE @]
      /\ session' = [session EXCEPT ![r].msgs = IF ~ small THEN list ELSE IF storage = "fallback" THEN <<>> ELSE @]
  <2>1. session[r].msgs = session[r].msgs
    OBVIOUS
  <2>. QED BY <1>b DEF Keep, Overflow, RequestsInv, TypeOK, Contents
<1>d. storage = "session" => ~ small
  OBVIOUS
<1>e. storage = "cookie" => small
  BY DEF Add
<1>f. UNCHANGED <<storage, flash, cookie, forms, stage, url, posted, inHeader, body, got, gone, carried, loaded, shown, page, flushed, seen>>
  BY DEF Add, browserVars, bodyVars, formVars, pageVars
<1>g. used' = used \cup {m} /\ added' = [added EXCEPT ![r] = @ \cup {m}] /\ m \notin used /\ stage[r] = "handle"
  BY DEF Add
<1>j. trouble' = Troubled(Strays(r) \/ (Doubles(r, small) /\ shown[r] # <<>>), Doubles(r, small))
  BY DEF Add
<1>. HIDE DEF list, small
<1>k. /\ trouble' # "disturbed" => trouble # "disturbed"
      /\ trouble # "disturbed" => trouble' # "disturbed"
      /\ Calm' => Calm /\ ~ Away(url[r]) /\ ~ (Doubles(r, small) /\ shown[r] # <<>>)
      /\ trouble' = "none" => trouble = "none" /\ ~ Doubles(r, small)
  <2>1. trouble \in {"none", "copies", "astray", "disturbed"}
    BY DEF RequestsInv, TypeOK
  <2>. QED BY <1>j, <2>1 DEF Troubled, Strays, Calm
<1>h. \A s \in Slots \ {r} : Cargo(s)' = Cargo(s) /\ session'[s] = session[s] /\ added'[s] = added[s]
  BY <1>c, <1>f, <1>g DEF Cargo, RequestsInv, TypeOK
<1>i. /\ Cargo(r)' = IF small THEN Range(list) ELSE IF storage = "fallback" THEN Range(carried[r]) ELSE Cargo(r)
      /\ InCookie(r)' = IF small THEN list ELSE IF storage = "fallback" THEN carried[r] ELSE InCookie(r)
      /\ session'[r].msgs = IF ~ small THEN list ELSE IF storage = "fallback" THEN <<>> ELSE session[r].msgs
      /\ session'[r].token = session[r].token
      /\ added'[r] = added[r] \cup {m}
  <2>1. pending'[r] = IF small THEN list ELSE IF storage = "fallback" THEN None ELSE pending[r]
    BY <1>c DEF RequestsInv, TypeOK
  <2>2. list # None
    BY <1>a, RequestsAssumption
  <2>3. Cargo(r)' = IF small THEN Range(list) ELSE IF storage = "fallback" THEN Range(carried[r]) ELSE Cargo(r)
    BY <2>1, <2>2, <1>f DEF Cargo
  <2>4. InCookie(r)' = IF small THEN list ELSE IF storage = "fallback" THEN carried[r] ELSE InCookie(r)
    BY <2>1, <2>2, <1>f DEF InCookie
  <2>. QED BY <1>c, <1>g, <2>3, <2>4 DEF RequestsInv, TypeOK, Contents
<1>l. /\ InFlash' = InFlash /\ Waiting' = Waiting /\ Seen' = Seen /\ Tidy' = Tidy
      /\ \A s \in Slots : Away(url[s])' = Away(url[s]) /\ Active(s)' = Active(s)
      /\ Working(r) /\ Working(r)' /\ Touched(r)'
  BY <1>f, <1>g, <1>i DEF InFlash, Waiting, Seen, Tidy, Away, Active, Working, Forgotten, Touched
<1>m. \A s \in Slots : trouble' # "disturbed" /\ Working(s)' => s = r
  BY <1>g, <1>k, <1>l DEF RequestsInv, CalmAlone, Active, Working
<1>1. TypeOK'
  <2>1. pending' \in [Slots -> Seq(Messages) \cup {None}]
    BY <1>a, <1>c DEF RequestsInv, TypeOK
  <2>2. session' \in [Slots -> Contents]
    <3>. DEFINE now == IF ~ small THEN list ELSE IF storage = "fallback" THEN <<>> ELSE session[r].msgs
    <3>1. session[r] \in Contents /\ now \in Seq(Messages)
      BY <1>a DEF RequestsInv, TypeOK, Contents
    <3>2. session' = [session EXCEPT ![r] = [session[r] EXCEPT !.msgs = now]]
      BY <1>c
    <3>. HIDE DEF now
    <3>3. [session[r] EXCEPT !.msgs = now] \in Contents
      BY <3>1 DEF Contents
    <3>. QED BY <3>2, <3>3 DEF RequestsInv, TypeOK
  <2>3. added' \in [Slots -> SUBSET Messages] /\ used' \subseteq Messages
    BY <1>g DEF RequestsInv, TypeOK
  <2>4. trouble' \in {"none", "copies", "astray", "disturbed"}
    BY <1>j DEF Troubled, RequestsInv, TypeOK
  <2>. QED BY <2>1, <2>2, <2>3, <2>4, <1>f DEF RequestsInv, TypeOK
<1>2. IdleClean'
  BY <1>c, <1>f, <1>g, <1>h DEF RequestsInv, TypeOK, IdleClean, Active
<1>3. UsedCovers'
  <2>1. /\ Cargo(r) \cup Range(carried[r]) \cup Range(session[r].msgs) \cup Range(loaded[r].msgs) \subseteq used
        /\ Range(shown[r]) \cup added[r] \cup Waiting \cup Seen \subseteq used
    BY DEF RequestsInv, UsedCovers
  <2>2. Range(list) \subseteq used'
    BY <1>a, <1>g, <2>1
  <2>3. Range(session'[r].msgs) \subseteq used' /\ Cargo(r)' \subseteq used' /\ added'[r] \subseteq used'
    BY <1>g, <1>i, <2>1, <2>2, NoRange
  <2>4. ASSUME NEW s \in Slots
        PROVE  /\ Range(carried[s]) \cup Cargo(s)' \subseteq used'
               /\ Range(loaded[s].msgs) \cup Range(session'[s].msgs) \subseteq used'
               /\ Range(shown[s]) \cup added'[s] \subseteq used'
    BY <1>g, <1>h, <2>1, <2>3 DEF RequestsInv, UsedCovers
  <2>. QED BY <1>f, <1>g, <1>l, <2>1, <2>4 DEF UsedCovers
<1>4. StorageUse'
  BY <1>c, <1>d, <1>e, <1>f, <1>h, <1>i DEF RequestsInv, TypeOK, StorageUse
<1>5. DrainBound'
  BY <1>f DEF RequestsInv, DrainBound
<1>6. BodyIntact'
  BY <1>f DEF RequestsInv, BodyIntact
<1>7. CalmAlone'
  BY <1>f, <1>k, <1>l, <1>m DEF RequestsInv, CalmAlone, Working
<1>8. CalmTokens'
  BY <1>f, <1>h, <1>i, <1>k DEF RequestsInv, CalmTokens, Active
<1>9. CalmMessages'
  <2> SUFFICES ASSUME Calm'
               PROVE  /\ Cargo(r)' \cup Range(session'[r].msgs) \cup Range(shown[r]) = Waiting \cup added'[r]
                      /\ (Cargo(r)' \cup Range(session'[r].msgs)) \cap Range(shown[r]) = {}
                      /\ shown[r] # <<>> => Waiting \subseteq Range(shown[r])
                      /\ added'[r] \cap (Waiting \cup Seen) = {}
    <3>1. ASSUME Calm', NEW s \in Slots, Working(s)' PROVE s = r
      BY <1>m, <3>1 DEF Calm
    <3>. QED BY <1>f, <1>k, <1>l, <3>1 DEF CalmMessages
  <2>1. Calm /\ ~ Away(url[r]) /\ ~ (Doubles(r, small) /\ shown[r] # <<>>)
    BY <1>k
  <2>2. /\ Cargo(r) \cup Range(session[r].msgs) \cup Range(shown[r]) = Waiting \cup added[r]
        /\ (Cargo(r) \cup Range(session[r].msgs)) \cap Range(shown[r]) = {}
        /\ shown[r] # <<>> => Waiting \subseteq Range(shown[r])
        /\ added[r] \cap (Waiting \cup Seen) = {}
    BY <1>l, <2>1 DEF RequestsInv, CalmMessages
  <2>3. Cargo(r)' \cup Range(session'[r].msgs) = Cargo(r) \cup Range(session[r].msgs) \cup {m}
    <3>1. CASE small /\ storage = "fallback"
      BY <1>a, <1>i, <3>1, NoRange
    <3>2. CASE small /\ storage # "fallback"
      <4>1. storage = "cookie"
        BY <1>d, <3>2, RequestsAssumption DEF RequestsInv, TypeOK
      <4>2. session[r].msgs = <<>>
        BY <4>1 DEF RequestsInv, StorageUse
      <4>. QED BY <1>a, <1>i, <3>2, <4>2, NoRange
    <3>3. CASE ~ small /\ storage = "fallback"
      <4>1. carried[r] = <<>> \/ shown[r] = <<>>
        BY <2>1, <3>3 DEF Doubles
      <4>2. carried[r] = flash[HomeOf[url[r]]] /\ url[r] \in Urls
        BY <1>k, <1>l, <2>1 DEF RequestsInv, CalmAlone, IdleClean, Calm, Working
      <4>3. Range(carried[r]) \subseteq Waiting
        BY <2>1, <4>2, InFlashIs DEF Waiting
      <4>4. Range(carried[r]) \subseteq Cargo(r) \cup Range(session[r].msgs)
        BY <2>2, <4>1, <4>3, NoRange
      <4>. QED BY <1>a, <1>i, <3>3, <4>4
    <3>4. CASE ~ small /\ storage # "fallback"
      <4>1. Cargo(r)' = Cargo(r) /\ session'[r].msgs = list
        BY <1>i, <3>4
      <4>. QED BY <1>a, <4>1
    <3>. QED BY <3>1, <3>2, <3>3, <3>4
  <2>4. m \notin Range(shown[r]) \cup Waiting \cup Seen
    BY <1>g DEF RequestsInv, UsedCovers
  <2>. QED BY <1>i, <2>2, <2>3, <2>4
<1>10. CalmOnce'
  <2> SUFFICES ASSUME trouble' = "none"
               PROVE  /\ Tidy /\ IsInjective(shown[r])
                      /\ IsInjective(InCookie(r)' \o session'[r].msgs)
    <3>1. ASSUME trouble' = "none", NEW s \in Slots, Working(s)' PROVE s = r
      BY <1>m, <3>1
    <3>. QED BY <1>f, <1>l, <3>1 DEF CalmOnce
  <2>1. trouble = "none" /\ ~ Doubles(r, small) /\ ~ Away(url[r])
    BY <1>k DEF Calm
  <2>2. Tidy /\ IsInjective(shown[r]) /\ IsInjective(Held(r))
    BY <1>a, <1>l, <2>1 DEF RequestsInv, CalmOnce
  <2>3. IsInjective(list)
    <3>1. m \notin Range(Held(r))
      BY <1>a, <1>g DEF RequestsInv, UsedCovers
    <3>. QED BY <1>a, <2>2, <3>1, OnceAppend DEF list
  <2>4. InCookie(r)' \o session'[r].msgs = list
    <3>1. CASE small
      <4>1. session'[r].msgs = <<>>
        BY <1>d, <1>i, <3>1, RequestsAssumption DEF RequestsInv, TypeOK, StorageUse
      <4>. QED BY <1>a, <1>i, <3>1, <4>1, NothingConcat
    <3>2. CASE ~ small
      <4>1. storage \in {"session", "fallback"}
        BY <1>e, <3>2, RequestsAssumption DEF RequestsInv, TypeOK
      <4>2. InCookie(r)' = <<>>
        BY <1>i, <2>1, <3>2, <4>1 DEF Doubles, RequestsInv, StorageUse, InCookie
      <4>. QED BY <1>a, <1>i, <3>2, <4>2, NothingConcat
    <3>. QED BY <3>1, <3>2
  <2>. QED BY <2>2, <2>3, <2>4
<1>. QED BY <1>1, <1>2, <1>3, <1>4, <1>5, <1>6, <1>7, <1>8, <1>9, <1>10 DEF RequestsInv

\* A message is lost before it is stored.
LEMMA AddFailsKeeps ==
    ASSUME RequestsInv, NEW r \in Slots, NEW m \in Messages, AddFails(r, m)
    PROVE  RequestsInv'
<1>1. TypeOK'
  BY DEF RequestsInv, TypeOK, Contents, AddFails, browserVars, formVars, bodyVars, scopeVars, pageVars
<1>2. IdleClean'
  BY DEF RequestsInv, TypeOK, IdleClean, Active, AddFails, formVars, bodyVars, scopeVars, pageVars
<1>3. UsedCovers' /\ StorageUse' /\ CalmAlone' /\ CalmMessages' /\ CalmOnce'
  BY SameMessages DEF AddFails, Active, Working, Forgotten, browserVars, scopeVars, pageVars
<1>4. DrainBound'
  BY DEF RequestsInv, TypeOK, DrainBound, AddFails, formVars, bodyVars
<1>5. BodyIntact'
  BY DEF RequestsInv, TypeOK, BodyIntact, AddFails, formVars, bodyVars
<1>6. CalmTokens'
  BY DEF RequestsInv, TypeOK, CalmTokens, Active, AddFails, browserVars, formVars, bodyVars, scopeVars, pageVars
<1>. QED BY <1>1, <1>2, <1>3, <1>4, <1>5, <1>6 DEF RequestsInv

\* All that the request holds is shown.
LEMMA ShowKeeps == ASSUME RequestsInv, NEW r \in Slots, Show(r) PROVE RequestsInv'
<1>a. /\ Held(r) = InCookie(r) \o session[r].msgs /\ Held(r) \in Seq(Messages) /\ Held(r) # <<>>
      /\ Range(Held(r)) = Cargo(r) \cup Range(session[r].msgs)
  BY HeldIs DEF RequestsInv, Show
<1>b. /\ shown' = [shown EXCEPT ![r] = @ \o Held(r)]
      /\ pending' = [pending EXCEPT ![r] = IF storage = "session" THEN @ ELSE <<>>]
      /\ session' = [session EXCEPT ![r].msgs = IF storage = "cookie" THEN @ ELSE <<>>]
      /\ stage[r] = "handle"
      /\ trouble' = Troubled(Strays(r), FALSE)
  BY DEF Show, ClearStored
<1>c. UNCHANGED <<storage, flash, cookie, forms, stage, url, posted, inHeader, body, got, gone, carried, loaded, page, flushed, added, used, seen>>
  BY DEF Show, browserVars, bodyVars, formVars
<1>d. shown'[r] = shown[r] \o Held(r) /\ shown'[r] \in Seq(Messages) /\ shown'[r] # <<>>
  <2>1. shown[r] \in Seq(Messages)
    BY DEF RequestsInv, TypeOK
  <2>2. shown'[r] = shown[r] \o Held(r)
    BY <1>b DEF RequestsInv, TypeOK
  <2>3. shown'[r] \in Seq(Messages)
    BY <1>a, <2>1, <2>2, ConcatProperties
  <2>4. Held(r) \in Seq(Messages) /\ Len(Held(r)) > 0
    BY <1>a, EmptySeq
  <2>5. Len(shown'[r]) > 0
    BY <2>1, <2>2, <2>4
  <2>. QED BY <2>2, <2>3, <2>5
<1>e. Range(shown'[r]) = Range(shown[r]) \cup Cargo(r) \cup Range(session[r].msgs)
  <2>1. shown[r] \in Seq(Messages) /\ Held(r) \in Seq(Messages)
    BY <1>a DEF RequestsInv, TypeOK
  <2>2. Range(shown[r] \o Held(r)) = Range(shown[r]) \cup Range(Held(r))
    BY <2>1, RangeConcatenation
  <2>. QED BY <1>a, <1>d, <2>2
<1>f. InCookie(r)' = <<>> /\ Cargo(r)' = {} /\ session'[r].msgs = <<>>
  <2>1. storage \in {"cookie", "session", "fallback"} /\ <<>> # None
    <3>1. <<>> \in Seq(Messages)
      OBVIOUS
    <3>. QED BY <3>1, RequestsAssumption DEF RequestsInv, TypeOK
  <2>2. CASE storage = "session"
    BY <1>b, <1>c, <2>2, NoRange DEF RequestsInv, TypeOK, Contents, StorageUse, Cargo, InCookie
  <2>3. CASE storage = "cookie"
    BY <1>b, <1>c, <2>1, <2>3, NoRange DEF RequestsInv, TypeOK, Contents, StorageUse, Cargo, InCookie
  <2>4. CASE storage = "fallback"
    BY <1>b, <1>c, <2>1, <2>4, NoRange DEF RequestsInv, TypeOK, Contents, Cargo, InCookie
  <2>. QED BY <2>1, <2>2, <2>3, <2>4
<1>g. \A s \in Slots \ {r} : Cargo(s)' = Cargo(s) /\ session'[s] = session[s] /\ shown'[s] = shown[s]
  BY <1>b, <1>c DEF Cargo, RequestsInv, TypeOK
<1>h. session' \in [Slots -> Contents] /\ session'[r].token = session[r].token
  <2>. DEFINE now == IF storage = "cookie" THEN session[r].msgs ELSE <<>>
  <2>1. session[r] \in Contents /\ now \in Seq(Messages)
    BY DEF RequestsInv, TypeOK, Contents
  <2>2. session' = [session EXCEPT ![r] = [session[r] EXCEPT !.msgs = now]]
    BY <1>b
  <2>. HIDE DEF now
  <2>3. [session[r] EXCEPT !.msgs = now] \in Contents /\ [session[r] EXCEPT !.msgs = now].token = session[r].token
    BY <2>1 DEF Contents
  <2>. QED BY <2>2, <2>3 DEF RequestsInv, TypeOK
<1>k. /\ trouble' # "disturbed" => trouble # "disturbed"
      /\ trouble # "disturbed" => trouble' # "disturbed"
      /\ Calm' => Calm /\ ~ Away(url[r])
      /\ trouble' = "none" => trouble = "none"
  <2>1. trouble \in {"none", "copies", "astray", "disturbed"}
    BY DEF RequestsInv, TypeOK
  <2>. QED BY <1>b, <2>1 DEF Troubled, Strays, Calm
<1>l. /\ InFlash' = InFlash /\ Waiting' = Waiting /\ Seen' = Seen /\ Tidy' = Tidy
      /\ \A s \in Slots : Away(url[s])' = Away(url[s]) /\ Active(s)' = Active(s)
      /\ Working(r) /\ Working(r)' /\ Touched(r)'
  BY <1>b, <1>c, <1>d DEF InFlash, Waiting, Seen, Tidy, Away, Active, Working, Forgotten, Touched
<1>m. \A s \in Slots : trouble' # "disturbed" /\ Working(s)' => s = r
  BY <1>b, <1>k, <1>l DEF RequestsInv, CalmAlone, Active, Working
<1>1. TypeOK'
  <2>1. pending' \in [Slots -> Seq(Messages) \cup {None}]
    BY <1>b DEF RequestsInv, TypeOK
  <2>2. shown' \in [Slots -> Seq(Messages)]
    BY <1>b, <1>d DEF RequestsInv, TypeOK
  <2>3. trouble' \in {"none", "copies", "astray", "disturbed"}
    BY <1>b DEF Troubled, RequestsInv, TypeOK
  <2>. QED BY <2>1, <2>2, <2>3, <1>c, <1>h DEF RequestsInv, TypeOK
<1>2. IdleClean'
  BY <1>b, <1>c DEF RequestsInv, TypeOK, IdleClean, Active
<1>3. UsedCovers'
  <2>1. ASSUME NEW s \in Slots
        PROVE  /\ Range(carried[s]) \cup Cargo(s)' \subseteq used
               /\ Range(loaded[s].msgs) \cup Range(session'[s].msgs) \subseteq used
               /\ Range(shown'[s]) \cup added[s] \subseteq used
    <3>1. CASE s = r
      BY <1>e, <1>f, <3>1, NoRange DEF RequestsInv, UsedCovers
    <3>2. CASE s # r
      BY <1>g, <3>2 DEF RequestsInv, UsedCovers
    <3>. QED BY <3>1, <3>2
  <2>. QED BY <1>c, <1>l, <2>1 DEF RequestsInv, UsedCovers
<1>4. StorageUse'
  BY <1>b, <1>c DEF RequestsInv, TypeOK, StorageUse
<1>5. DrainBound'
  BY <1>c DEF RequestsInv, DrainBound
<1>6. BodyIntact'
  BY <1>c DEF RequestsInv, BodyIntact
<1>7. CalmAlone'
  BY <1>c, <1>k, <1>l, <1>m DEF RequestsInv, CalmAlone, Working
<1>8. CalmTokens'
  BY <1>c, <1>g, <1>h, <1>k DEF RequestsInv, CalmTokens, Active
<1>9. CalmMessages'
  <2> SUFFICES ASSUME Calm'
               PROVE  /\ Cargo(r)' \cup Range(session'[r].msgs) \cup Range(shown'[r]) = Waiting \cup added[r]
                      /\ (Cargo(r)' \cup Range(session'[r].msgs)) \cap Range(shown'[r]) = {}
                      /\ shown'[r] # <<>> => Waiting \subseteq Range(shown'[r])
                      /\ added[r] \cap (Waiting \cup Seen) = {}
    <3>1. ASSUME Calm', NEW s \in Slots, Working(s)' PROVE s = r
      BY <1>m, <3>1 DEF Calm
    <3>. QED BY <1>c, <1>k, <1>l, <3>1 DEF CalmMessages
  <2>1. /\ Cargo(r) \cup Range(session[r].msgs) \cup Range(shown[r]) = Waiting \cup added[r]
        /\ added[r] \cap (Waiting \cup Seen) = {}
    BY <1>k, <1>l DEF RequestsInv, CalmMessages
  <2>. QED BY <1>e, <1>f, <2>1, NoRange
<1>10. CalmOnce'
  <2> SUFFICES ASSUME trouble' = "none"
               PROVE  /\ Tidy /\ IsInjective(shown'[r])
                      /\ IsInjective(InCookie(r)' \o session'[r].msgs)
    <3>1. ASSUME trouble' = "none", NEW s \in Slots, Working(s)' PROVE s = r
      BY <1>m, <3>1
    <3>. QED BY <1>c, <1>l, <3>1 DEF CalmOnce
  <2>1. trouble = "none" /\ Calm /\ ~ Away(url[r])
    BY <1>k DEF Calm
  <2>2. Tidy /\ IsInjective(shown[r]) /\ IsInjective(Held(r))
    BY <1>a, <1>l, <2>1 DEF RequestsInv, CalmOnce
  <2>3. Range(shown[r]) \cap Range(Held(r)) = {}
    BY <1>a, <1>l, <2>1 DEF RequestsInv, CalmMessages
  <2>4. IsInjective(shown'[r])
    <3>1. shown[r] \in Seq(Messages) /\ Held(r) \in Seq(Messages)
      BY <1>a DEF RequestsInv, TypeOK
    <3>2. IsInjective(shown[r] \o Held(r))
      BY <2>2, <2>3, <3>1, OnceConcat
    <3>. QED BY <1>d, <3>2
  <2>5. IsInjective(InCookie(r)' \o session'[r].msgs)
    BY <1>f DEF IsInjective
  <2>. QED BY <2>2, <2>4, <2>5
<1>. QED BY <1>1, <1>2, <1>3, <1>4, <1>5, <1>6, <1>7, <1>8, <1>9, <1>10 DEF RequestsInv

\* A form has the token of the session.
LEMMA RenderFormKeeps ==
    ASSUME RequestsInv, NEW r \in Slots, NEW fresh \in Tokens, RenderForm(r, fresh)
    PROVE  RequestsInv'
<1>1. TypeOK'
  BY DEF RequestsInv, TypeOK, Contents, RenderForm, browserVars, formVars, bodyVars
<1>2. IdleClean'
  BY DEF RequestsInv, TypeOK, IdleClean, Active, RenderForm, formVars, bodyVars
<1>3. UsedCovers' /\ StorageUse' /\ CalmAlone' /\ CalmMessages' /\ CalmOnce'
  <2>1. UNCHANGED <<storage, flash, cookie, stage, url, carried, pending, loaded, shown, added, used, seen, trouble>>
    BY DEF RenderForm, browserVars
  <2>2. \A s \in Slots : session'[s].msgs = session[s].msgs
    BY DEF RenderForm, RequestsInv, TypeOK, Contents
  <2>3. \A s \in Slots \ {r} : session'[s] = session[s] /\ page'[s] = page[s] /\ flushed'[s] = flushed[s]
    BY DEF RenderForm, RequestsInv, TypeOK
  <2>4. \A s \in Slots : (Active(s)' => Active(s)) /\ (Working(s)' => Working(s))
    <3>1. Working(r)
      BY DEF RenderForm, Active, Working, Forgotten
    <3>. QED BY <2>1, <2>3, <3>1 DEF Active, Working, Forgotten
  <2>. QED BY <2>1, <2>2, <2>4, SameMessages
<1>4. DrainBound'
  BY DEF RequestsInv, TypeOK, DrainBound, RenderForm, formVars, bodyVars
<1>5. BodyIntact'
  BY DEF RequestsInv, TypeOK, BodyIntact, RenderForm, formVars, bodyVars
<1>6. CalmTokens'
  BY DEF RequestsInv, TypeOK, CalmTokens, Active, RenderForm, browserVars, formVars, bodyVars
<1>. QED BY <1>1, <1>2, <1>3, <1>4, <1>5, <1>6 DEF RequestsInv

\* The session is emptied.
LEMMA FlushSessionKeeps == ASSUME RequestsInv, NEW r \in Slots, FlushSession(r) PROVE RequestsInv'
<1>1. TypeOK'
  BY DEF RequestsInv, TypeOK, Contents, FlushSession, Empty, browserVars, formVars, bodyVars
<1>2. IdleClean'
  BY DEF RequestsInv, TypeOK, IdleClean, Active, FlushSession, formVars, bodyVars
<1>3. UsedCovers'
  BY NoRange DEF RequestsInv, TypeOK, UsedCovers, Waiting, InFlash, Seen, Cargo, FlushSession, Empty, browserVars
<1>4. StorageUse'
  BY DEF RequestsInv, TypeOK, StorageUse, FlushSession, Empty, browserVars
<1>5. DrainBound'
  BY DEF RequestsInv, TypeOK, DrainBound, FlushSession, formVars, bodyVars
<1>6. BodyIntact'
  BY DEF RequestsInv, TypeOK, BodyIntact, FlushSession, formVars, bodyVars
<1>7. CalmAlone' /\ CalmTokens' /\ CalmMessages' /\ CalmOnce'
  BY DEF FlushSession, CalmAlone, CalmTokens, CalmMessages, CalmOnce, Calm
<1>. QED BY <1>1, <1>2, <1>3, <1>4, <1>5, <1>6, <1>7 DEF RequestsInv

\* What a request loses with its scope.
LEMMA ForgetIs ==
    ASSUME TypeOK, NEW r \in Slots, Forget(r)
    PROVE  /\ posted' \in [Slots -> Tokens \cup {None}] /\ inHeader' \in [Slots -> BOOLEAN]
           /\ body' \in [Slots -> 1..MaxBody] /\ got' \in [Slots -> 0..MaxBody]
           /\ carried' \in [Slots -> Seq(Messages)] /\ pending' \in [Slots -> Seq(Messages) \cup {None}]
           /\ loaded' \in [Slots -> Contents] /\ session' \in [Slots -> Contents]
           /\ shown' \in [Slots -> Seq(Messages)] /\ page' \in [Slots -> Tokens \cup {None}]
           /\ flushed' \in [Slots -> BOOLEAN] /\ added' \in [Slots -> SUBSET Messages]
           /\ posted'[r] = None /\ body'[r] = 1 /\ got'[r] = 0
           /\ carried'[r] = <<>> /\ pending'[r] = None /\ loaded'[r] = Empty /\ session'[r] = Empty
           /\ shown'[r] = <<>> /\ page'[r] = None /\ flushed'[r] = FALSE /\ added'[r] = {}
           /\ \A s \in Slots \ {r} :
               /\ posted'[s] = posted[s] /\ body'[s] = body[s] /\ got'[s] = got[s]
               /\ carried'[s] = carried[s] /\ pending'[s] = pending[s] /\ loaded'[s] = loaded[s]
               /\ session'[s] = session[s] /\ shown'[s] = shown[s] /\ page'[s] = page[s]
               /\ flushed'[s] = flushed[s] /\ added'[s] = added[s]
<1>1. <<>> \in Seq(Messages) /\ Empty \in Contents /\ 1 \in 1..MaxBody /\ 0 \in 0..MaxBody
  BY RequestsAssumption DEF Empty, Contents
<1>2. /\ posted' \in [Slots -> Tokens \cup {None}] /\ inHeader' \in [Slots -> BOOLEAN]
      /\ body' \in [Slots -> 1..MaxBody] /\ got' \in [Slots -> 0..MaxBody]
  BY <1>1 DEF TypeOK, Forget, NoForm
<1>3. /\ carried' \in [Slots -> Seq(Messages)] /\ pending' \in [Slots -> Seq(Messages) \cup {None}]
      /\ loaded' \in [Slots -> Contents] /\ session' \in [Slots -> Contents]
  BY <1>1 DEF TypeOK, Forget
<1>4. /\ shown' \in [Slots -> Seq(Messages)] /\ page' \in [Slots -> Tokens \cup {None}]
      /\ flushed' \in [Slots -> BOOLEAN] /\ added' \in [Slots -> SUBSET Messages]
  BY <1>1 DEF TypeOK, Forget
<1>5. /\ posted'[r] = None /\ body'[r] = 1 /\ got'[r] = 0
      /\ \A s \in Slots \ {r} : posted'[s] = posted[s] /\ body'[s] = body[s] /\ got'[s] = got[s]
  BY DEF TypeOK, Forget, NoForm
<1>6. /\ carried'[r] = <<>> /\ pending'[r] = None /\ loaded'[r] = Empty /\ session'[r] = Empty
      /\ \A s \in Slots \ {r} : /\ carried'[s] = carried[s] /\ pending'[s] = pending[s]
                                /\ loaded'[s] = loaded[s] /\ session'[s] = session[s]
  BY DEF TypeOK, Forget
<1>7. /\ shown'[r] = <<>> /\ page'[r] = None /\ flushed'[r] = FALSE /\ added'[r] = {}
      /\ \A s \in Slots \ {r} : /\ shown'[s] = shown[s] /\ page'[s] = page[s]
                                /\ flushed'[s] = flushed[s] /\ added'[s] = added[s]
  BY DEF TypeOK, Forget
<1>. QED BY <1>2, <1>3, <1>4, <1>5, <1>6, <1>7

\* A request without its scope, or without any, is what the invariant allows
\* when the browser is in order.
LEMMA ForgetKeeps ==
    ASSUME RequestsInv, NEW r \in Slots, Forget(r), storage' = storage, used' = used, trouble' = trouble,
           NEW to \in {"respond", "idle"}, stage' = [stage EXCEPT ![r] = to],
           Active(r), \A s \in Slots \ {r} : gone'[s] = gone[s]
    PROVE  /\ DrainBound' /\ BodyIntact'
           /\ (Waiting \cup Seen)' \subseteq used => UsedCovers'
           /\ (storage = "cookie" => cookie'.msgs = <<>>)
                /\ (storage = "session" => \A d \in Directories : flash'[d] = <<>>) => StorageUse'
           /\ CalmAlone' /\ CalmMessages'
           /\ (trouble # "disturbed" => forms' \subseteq {cookie'.token}) => CalmTokens'
           /\ (trouble = "none" => Tidy') => CalmOnce'
<1>a. TypeOK /\ \A s \in Slots : stage'[s] = IF s = r THEN to ELSE stage[s]
  BY DEF RequestsInv, TypeOK
<1>b. /\ posted'[r] = None /\ body'[r] = 1 /\ got'[r] = 0
      /\ carried'[r] = <<>> /\ pending'[r] = None /\ loaded'[r] = Empty /\ session'[r] = Empty
      /\ shown'[r] = <<>> /\ page'[r] = None /\ flushed'[r] = FALSE /\ added'[r] = {}
  BY <1>a, ForgetIs
<1>c. \A s \in Slots \ {r} :
        /\ posted'[s] = posted[s] /\ body'[s] = body[s] /\ got'[s] = got[s]
        /\ carried'[s] = carried[s] /\ pending'[s] = pending[s] /\ loaded'[s] = loaded[s]
        /\ session'[s] = session[s] /\ shown'[s] = shown[s] /\ added'[s] = added[s]
  BY <1>a DEF TypeOK, Forget, NoForm
<1>d. Cargo(r)' = {} /\ \A s \in Slots \ {r} : Cargo(s)' = Cargo(s)
  BY <1>b, <1>c, NoRange DEF Cargo
<1>e. ~ Working(r)'
  BY <1>a, <1>b DEF Working, Active, Forgotten
<1>f. trouble # "disturbed" => \A s \in Slots : ~ Working(s)' /\ (Active(s)' => s = r)
  BY <1>a, <1>e DEF RequestsInv, CalmAlone, Active, Working
<1>1. DrainBound' /\ BodyIntact'
  <2>1. ASSUME NEW s \in Slots
        PROVE  /\ got'[s] <= body'[s]
               /\ stage'[s] = "drain" => got'[s] <= BodyLimit + 1
               /\ stage'[s] # "handle" \/ s # r
    <3>1. CASE s = r
      BY <1>a, <1>b, <3>1
    <3>2. CASE s # r
      BY <1>a, <1>c, <3>2 DEF RequestsInv, DrainBound
    <3>. QED BY <3>1, <3>2
  <2>. QED BY <1>a, <1>c, <2>1 DEF RequestsInv, DrainBound, BodyIntact
<1>2. ASSUME (Waiting \cup Seen)' \subseteq used PROVE UsedCovers'
  <2>1. ASSUME NEW s \in Slots
        PROVE  /\ Range(carried'[s]) \cup Cargo(s)' \subseteq used
               /\ Range(loaded'[s].msgs) \cup Range(session'[s].msgs) \subseteq used
               /\ Range(shown'[s]) \cup added'[s] \subseteq used
    <3>1. CASE s = r
      BY <1>b, <1>d, <3>1, NoRange DEF Empty
    <3>2. CASE s # r
      BY <1>c, <1>d, <3>2 DEF RequestsInv, UsedCovers
    <3>. QED BY <3>1, <3>2
  <2>. QED BY <1>2, <2>1 DEF UsedCovers
<1>3. ASSUME storage = "cookie" => cookie'.msgs = <<>>, storage = "session" => \A d \in Directories : flash'[d] = <<>>
      PROVE  StorageUse'
  BY <1>3, <1>b, <1>c DEF RequestsInv, StorageUse, Empty
<1>4. CalmAlone' /\ CalmMessages'
  BY <1>a, <1>f DEF CalmAlone, CalmMessages, Calm
<1>5. ASSUME trouble # "disturbed" => forms' \subseteq {cookie'.token} PROVE CalmTokens'
  BY <1>5, <1>a, <1>b, <1>f DEF CalmTokens, Active, Empty
<1>6. ASSUME trouble = "none" => Tidy' PROVE CalmOnce'
  BY <1>6, <1>f DEF CalmOnce
<1>. QED BY <1>1, <1>2, <1>3, <1>4, <1>5, <1>6

\* An error page is the response.
LEMMA HandlerRaisesKeeps == ASSUME RequestsInv, NEW r \in Slots, HandlerRaises(r) PROVE RequestsInv'
<1>a. /\ stage[r] = "handle" /\ stage' = [stage EXCEPT ![r] = "respond"] /\ Forget(r) /\ Active(r)
      /\ UNCHANGED <<storage, flash, cookie, forms, url, gone, used, seen, trouble>>
  BY DEF HandlerRaises, browserVars, Active
<1>1. TypeOK'
  <2>1. stage' \in [Slots -> {"idle", "drain", "handle", "respond"}] /\ TypeOK
    BY <1>a DEF RequestsInv, TypeOK
  <2>2. /\ posted' \in [Slots -> Tokens \cup {None}] /\ inHeader' \in [Slots -> BOOLEAN]
        /\ body' \in [Slots -> 1..MaxBody] /\ got' \in [Slots -> 0..MaxBody]
        /\ carried' \in [Slots -> Seq(Messages)] /\ pending' \in [Slots -> Seq(Messages) \cup {None}]
        /\ loaded' \in [Slots -> Contents] /\ session' \in [Slots -> Contents]
        /\ shown' \in [Slots -> Seq(Messages)] /\ page' \in [Slots -> Tokens \cup {None}]
        /\ flushed' \in [Slots -> BOOLEAN] /\ added' \in [Slots -> SUBSET Messages]
    BY <1>a, <2>1, ForgetIs
  <2>. QED BY <1>a, <2>1, <2>2 DEF TypeOK
<1>2. IdleClean'
  BY <1>a DEF RequestsInv, TypeOK, IdleClean, Active, Forget, NoForm
<1>3. UNCHANGED <<Waiting, Seen, Tidy>>
  BY <1>a DEF Waiting, InFlash, Seen, Tidy
<1>4. DrainBound' /\ BodyIntact' /\ CalmAlone' /\ CalmMessages'
  BY <1>a, ForgetKeeps
<1>5. UsedCovers'
  BY <1>a, <1>3, ForgetKeeps DEF RequestsInv, UsedCovers
<1>6. StorageUse'
  BY <1>a, ForgetKeeps DEF RequestsInv, StorageUse
<1>7. CalmTokens'
  BY <1>a, ForgetKeeps DEF RequestsInv, CalmTokens
<1>8. CalmOnce'
  BY <1>a, <1>3, ForgetKeeps DEF RequestsInv, CalmOnce
<1>. QED BY <1>1, <1>2, <1>4, <1>5, <1>6, <1>7, <1>8 DEF RequestsInv

\* The handler returns.
LEMMA RespondKeeps == ASSUME RequestsInv, NEW r \in Slots, Respond(r) PROVE RequestsInv'
<1>1. TypeOK'
  BY RequestsAssumption DEF RequestsInv, TypeOK, Contents, Respond, NoForm, browserVars, scopeVars, pageVars
<1>2. IdleClean'
  BY DEF RequestsInv, TypeOK, IdleClean, Active, Respond, NoForm, scopeVars, pageVars
<1>3. UsedCovers' /\ StorageUse' /\ CalmAlone' /\ CalmMessages' /\ CalmOnce'
  BY SameMessages, MovesOn DEF RequestsInv, Respond, browserVars, scopeVars, pageVars
<1>4. DrainBound'
  BY DEF RequestsInv, TypeOK, DrainBound, Respond, NoForm
<1>5. BodyIntact'
  BY DEF RequestsInv, TypeOK, BodyIntact, Respond, NoForm
<1>6. CalmTokens'
  BY DEF RequestsInv, TypeOK, CalmTokens, Active, Respond, NoForm, browserVars, scopeVars, pageVars
<1>. QED BY <1>1, <1>2, <1>3, <1>4, <1>5, <1>6 DEF RequestsInv

\* The slot is free again.
LEMMA IdleTyped ==
    ASSUME TypeOK, NEW r \in Slots, Idle(r), storage' = storage, used' = used, trouble' = trouble,
           flash' \in [Directories -> Seq(Messages)], cookie' \in Contents, forms' \subseteq Tokens,
           seen' \in [Messages -> 0..2]
    PROVE  TypeOK'
<1>1. Forget(r)
  BY DEF Idle
<1>2. /\ stage' \in [Slots -> {"idle", "drain", "handle", "respond"}]
      /\ url' \in [Slots -> Urls \cup {None}] /\ gone' \in [Slots -> BOOLEAN]
  BY DEF TypeOK, Idle
<1>3. /\ posted' \in [Slots -> Tokens \cup {None}] /\ inHeader' \in [Slots -> BOOLEAN]
      /\ body' \in [Slots -> 1..MaxBody] /\ got' \in [Slots -> 0..MaxBody]
      /\ carried' \in [Slots -> Seq(Messages)] /\ pending' \in [Slots -> Seq(Messages) \cup {None}]
      /\ loaded' \in [Slots -> Contents] /\ session' \in [Slots -> Contents]
      /\ shown' \in [Slots -> Seq(Messages)] /\ page' \in [Slots -> Tokens \cup {None}]
      /\ flushed' \in [Slots -> BOOLEAN] /\ added' \in [Slots -> SUBSET Messages]
  BY <1>1, ForgetIs
<1>. QED BY <1>2, <1>3 DEF TypeOK

LEMMA IdleLeaves ==
    ASSUME RequestsInv, NEW r \in Slots, Idle(r)
    PROVE  IdleClean'
<1>1. Forget(r) /\ TypeOK
  BY DEF Idle, RequestsInv
<1>2. \A s \in Slots \ {r} : stage'[s] = stage[s] /\ url'[s] = url[s] /\ gone'[s] = gone[s]
  BY DEF Idle, RequestsInv, TypeOK
<1>3. stage'[r] = "idle" /\ gone'[r] = FALSE
  BY DEF Idle, RequestsInv, TypeOK
<1>4. /\ posted'[r] = None /\ got'[r] = 0 /\ pending'[r] = None
      /\ shown'[r] = <<>> /\ page'[r] = None /\ flushed'[r] = FALSE /\ added'[r] = {}
  BY <1>1, ForgetIs
<1>5. ASSUME NEW s \in Slots \ {r}
      PROVE  /\ posted'[s] = posted[s] /\ got'[s] = got[s] /\ pending'[s] = pending[s]
             /\ shown'[s] = shown[s] /\ page'[s] = page[s] /\ flushed'[s] = flushed[s] /\ added'[s] = added[s]
  <2>1. posted'[s] = posted[s] /\ got'[s] = got[s] /\ pending'[s] = pending[s]
    BY <1>1, ForgetIs
  <2>2. shown'[s] = shown[s] /\ page'[s] = page[s] /\ flushed'[s] = flushed[s] /\ added'[s] = added[s]
    BY <1>1, ForgetIs
  <2>. QED BY <2>1, <2>2
<1>6. ASSUME NEW s \in Slots, s # r, ~ Active(s)'
      PROVE  /\ posted'[s] = None /\ got'[s] = 0 /\ gone'[s] = FALSE
             /\ pending'[s] = None /\ shown'[s] = <<>> /\ added'[s] = {}
             /\ page'[s] = None /\ flushed'[s] = FALSE
  BY <1>2, <1>5, <1>6 DEF RequestsInv, IdleClean, Active
<1>7. ASSUME NEW s \in Slots, Active(s)' PROVE url'[s] \in Urls
  BY <1>2, <1>3, <1>7 DEF RequestsInv, IdleClean, Active
<1>. QED BY <1>3, <1>4, <1>6, <1>7 DEF IdleClean

\* Nothing of the request remains.
LEMMA LoseKeeps == ASSUME RequestsInv, NEW r \in Slots, Lose(r) PROVE RequestsInv'
<1>a. /\ stage' = [stage EXCEPT ![r] = "idle"] /\ Idle(r) /\ Forget(r) /\ Active(r)
      /\ UNCHANGED <<storage, flash, cookie, forms, used, seen, trouble>>
      /\ \A s \in Slots \ {r} : gone'[s] = gone[s]
  BY DEF Lose, Idle, browserVars, Active, RequestsInv, TypeOK
<1>1. TypeOK'
  BY <1>a, IdleTyped DEF RequestsInv, TypeOK
<1>2. IdleClean'
  BY <1>a, IdleLeaves
<1>3. UNCHANGED <<Waiting, Seen, Tidy>>
  BY <1>a DEF Waiting, InFlash, Seen, Tidy
<1>4. DrainBound' /\ BodyIntact' /\ CalmAlone' /\ CalmMessages'
  BY <1>a, ForgetKeeps
<1>5. UsedCovers'
  BY <1>a, <1>3, ForgetKeeps DEF RequestsInv, UsedCovers
<1>6. StorageUse'
  BY <1>a, ForgetKeeps DEF RequestsInv, StorageUse
<1>7. CalmTokens'
  BY <1>a, ForgetKeeps DEF RequestsInv, CalmTokens
<1>8. CalmOnce'
  BY <1>a, <1>3, ForgetKeeps DEF RequestsInv, CalmOnce
<1>. QED BY <1>1, <1>2, <1>4, <1>5, <1>6, <1>7, <1>8 DEF RequestsInv

\* What a response does to the messages of a browser that waited for it.
LEMMA DeliverBrings ==
    ASSUME RequestsInv, NEW r \in Slots, Deliver(r), Calm
    PROVE  \/ /\ Waiting' = Waiting /\ Tidy' = Tidy /\ shown[r] = <<>>
           \/ /\ Working(r) /\ Touched(r) /\ ~ Away(url[r])
              /\ Waiting' = Cargo(r) \cup Range(session[r].msgs)
              /\ IsInjective(InCookie(r) \o session[r].msgs) => Tidy'
<1>a. /\ Active(r) /\ url[r] \in Urls /\ HomeOf[url[r]] \in Directories
      /\ flash' = FlashSet(r) /\ cookie' = CookieSet(r)
  BY RequestsAssumption DEF Deliver, Active, RequestsInv, IdleClean, Directories, Range
<1>b. flash \in [Directories -> Seq(Messages)]
  BY DEF RequestsInv, TypeOK
<1>1. CASE Forgotten(r)
  BY <1>a, <1>1 DEF Forgotten, FlashSet, CookieSet, Waiting, InFlash, Tidy
<1>2. CASE Working(r) /\ ~ Touched(r)
  <2>1. pending[r] = None /\ shown[r] = <<>> /\ session[r].msgs = loaded[r].msgs /\ loaded[r] = cookie
    BY <1>2, <1>a DEF RequestsInv, CalmMessages, CalmAlone, Touched, Calm
  <2>2. flash' = flash /\ cookie'.msgs = cookie.msgs
    BY <1>a, <2>1 DEF FlashSet, CookieSet
  <2>. QED BY <2>1, <2>2 DEF Waiting, InFlash, Tidy
<1>3. CASE Working(r) /\ Touched(r)
  <2>1. ~ Away(url[r]) /\ carried[r] = flash[HomeOf[url[r]]] /\ loaded[r] = cookie
    BY <1>3, <1>a DEF RequestsInv, CalmMessages, CalmAlone, Calm
  <2>2. cookie' = session[r]
    BY <1>a, <2>1 DEF CookieSet
  <2>3. flash'[HomeOf[url[r]]] = InCookie(r) /\ \A d \in Directories \ {HomeOf[url[r]]} : flash'[d] = <<>>
    <3>1. CASE pending[r] = None
      BY <1>a, <2>1, <3>1 DEF FlashSet, InCookie, Away
    <3>2. CASE pending[r] # None
      BY <1>a, <1>b, <2>1, <3>2 DEF FlashSet, InCookie, Away
    <3>. QED BY <3>1, <3>2
  <2>4. Range(InCookie(r)) = Cargo(r)
    BY DEF InCookie, Cargo
  <2>5. InFlash' = Cargo(r)
    <3>1. Range(flash'[HomeOf[url[r]]]) = Cargo(r)
      BY <2>3, <2>4
    <3>2. \A d \in Directories \ {HomeOf[url[r]]} : Range(flash'[d]) = {}
      BY <2>3, NoRange
    <3>. QED BY <1>a, <3>1, <3>2 DEF InFlash
  <2>6. Waiting' = Cargo(r) \cup Range(session[r].msgs)
    BY <2>2, <2>5 DEF Waiting
  <2>7. ASSUME IsInjective(InCookie(r) \o session[r].msgs) PROVE Tidy'
    <3>1. InCookie(r) \in Seq(Messages) /\ session[r].msgs \in Seq(Messages)
      BY HeldIs DEF RequestsInv
    <3>2. IsInjective(session[r].msgs) /\ <<>> \o session[r].msgs = session[r].msgs
      BY <2>7, <3>1, OnceRest, NothingConcat
    <3>3. ASSUME NEW d \in Directories PROVE IsInjective(flash'[d] \o session[r].msgs)
      <4>1. CASE d = HomeOf[url[r]]
        BY <2>3, <2>7, <4>1
      <4>2. CASE d # HomeOf[url[r]]
        BY <2>3, <3>2, <4>2
      <4>. QED BY <4>1, <4>2
    <3>. QED BY <2>2, <3>3 DEF Tidy
  <2>. QED BY <1>3, <2>1, <2>6, <2>7
<1>. QED BY <1>1, <1>2, <1>3, <1>a DEF Working

\* How often a message has been listed is counted up to two.
LEMMA ListedIs ==
    ASSUME TypeOK, NEW m \in Messages, NEW list \in Seq(Messages)
    PROVE  /\ Listed(m, list) \in 0..2
           /\ m \notin Range(list) => Listed(m, list) = seen[m]
           /\ m \in Range(list) => Listed(m, list) # 0
           /\ m \in Range(list) /\ IsInjective(list) => Listed(m, list) = IF seen[m] = 0 THEN 1 ELSE 2
<1>1. seen[m] \in 0..2
  BY DEF TypeOK
<1>. QED BY <1>1 DEF Listed, IsInjective

\* The cookies of the response replace those of the browser.
LEMMA DeliverKeeps == ASSUME RequestsInv, NEW r \in Slots, Deliver(r) PROVE RequestsInv'
<1>a. /\ stage' = [stage EXCEPT ![r] = "idle"] /\ Idle(r) /\ Forget(r) /\ Active(r)
      /\ UNCHANGED <<storage, used, trouble>>
      /\ \A s \in Slots \ {r} : gone'[s] = gone[s]
  BY DEF Deliver, Idle, Active, RequestsInv, TypeOK
<1>b. /\ flash' = FlashSet(r) /\ cookie' = CookieSet(r)
      /\ forms' = (IF flushed[r] THEN {} ELSE forms) \cup ({page[r]} \ {None})
      /\ seen' = [m \in Messages |-> Listed(m, shown[r])]
  BY DEF Deliver
<1>c. /\ url[r] \in Urls /\ HomeOf[url[r]] \in Directories
      /\ flash \in [Directories -> Seq(Messages)] /\ shown[r] \in Seq(Messages)
  BY <1>a, RequestsAssumption DEF RequestsInv, TypeOK, IdleClean, Directories, Range
<1>d. /\ \A d \in Directories : flash'[d] = flash[d] \/ (pending[r] # None /\ flash'[d] = pending[r])
      /\ flash' \in [Directories -> Seq(Messages)]
  <2>1. CASE pending[r] = None
    BY <1>b, <1>c, <2>1 DEF FlashSet
  <2>2. CASE pending[r] # None
    BY <1>b, <1>c, <2>2 DEF FlashSet, RequestsInv, TypeOK
  <2>. QED BY <2>1, <2>2
<1>1. TypeOK'
  <2>1. cookie' \in Contents
    BY <1>b DEF RequestsInv, TypeOK, CookieSet
  <2>2. forms' \subseteq Tokens
    BY <1>b DEF RequestsInv, TypeOK
  <2>3. seen' \in [Messages -> 0..2]
    BY <1>b, <1>c, ListedIs DEF RequestsInv
  <2>. QED BY <1>a, <1>d, <2>1, <2>2, <2>3, IdleTyped DEF RequestsInv
<1>2. IdleClean'
  BY <1>a, IdleLeaves
<1>3. DrainBound' /\ BodyIntact' /\ CalmAlone' /\ CalmMessages'
  BY <1>a, ForgetKeeps
<1>4. UsedCovers'
  <2>1. /\ Waiting \cup Seen \subseteq used /\ Cargo(r) \cup Range(session[r].msgs) \cup Range(shown[r]) \subseteq used
    BY DEF RequestsInv, UsedCovers
  <2>2. \A d \in Directories : Range(flash'[d]) \subseteq used
    BY <1>d, <2>1 DEF Waiting, InFlash, Cargo
  <2>3. Range(cookie'.msgs) \subseteq used
    BY <1>b, <2>1 DEF CookieSet, Waiting
  <2>4. Seen' \subseteq used
    <3>1. ASSUME NEW m \in Messages, seen'[m] # 0 PROVE m \in used
      BY <1>b, <1>c, <2>1, <3>1, ListedIs DEF Seen, RequestsInv
    <3>. QED BY <3>1 DEF Seen
  <2>5. (Waiting \cup Seen)' \subseteq used
    BY <2>2, <2>3, <2>4 DEF Waiting, InFlash
  <2>. QED BY <1>a, <2>5, ForgetKeeps
<1>5. StorageUse'
  <2>1. storage = "cookie" => cookie'.msgs = <<>>
    BY <1>b DEF RequestsInv, StorageUse, CookieSet
  <2>2. storage = "session" => \A d \in Directories : flash'[d] = <<>>
    BY <1>d DEF RequestsInv, StorageUse
  <2>. QED BY <1>a, <2>1, <2>2, ForgetKeeps
<1>6. CalmTokens'
  <2> SUFFICES ASSUME trouble # "disturbed" PROVE forms' \subseteq {cookie'.token}
    BY <1>a, ForgetKeeps
  <2>1. forms \subseteq {cookie.token} /\ forms \subseteq Tokens
    BY DEF RequestsInv, TypeOK, CalmTokens
  <2>2. CASE Forgotten(r)
    BY <1>b, <2>1, <2>2 DEF Forgotten, CookieSet
  <2>3. CASE ~ Forgotten(r)
    <3>1. /\ loaded[r] = cookie
          /\ loaded[r].token # None => session[r].token = loaded[r].token
          /\ page[r] # None => page[r] = session[r].token
      BY <1>a, <2>3 DEF RequestsInv, CalmTokens, CalmAlone, Working
    <3>2. forms' \subseteq forms \cup ({page[r]} \ {None})
      BY <1>b
    <3>3. CASE forms \cup ({page[r]} \ {None}) = {}
      BY <3>2, <3>3
    <3>4. CASE forms \cup ({page[r]} \ {None}) # {}
      <4>1. session[r].token # None /\ forms \cup ({page[r]} \ {None}) \subseteq {session[r].token}
        BY <2>1, <3>1, <3>4, RequestsAssumption
      <4>2. cookie' = session[r]
        BY <1>b, <4>1 DEF CookieSet, Empty
      <4>. QED BY <3>2, <4>1, <4>2
    <3>. QED BY <3>3, <3>4
  <2>. QED BY <2>2, <2>3
<1>7. CalmOnce'
  <2>1. ASSUME trouble = "none" PROVE Tidy'
    <3>1. Calm /\ Tidy
      BY <2>1 DEF Calm, RequestsInv, CalmOnce
    <3>2. Working(r) /\ ~ Away(url[r]) => IsInjective(InCookie(r) \o session[r].msgs)
      BY <2>1 DEF RequestsInv, CalmOnce
    <3>. QED BY <3>1, <3>2, DeliverBrings
  <2>. QED BY <1>a, <2>1, ForgetKeeps
<1>. QED BY <1>1, <1>2, <1>3, <1>4, <1>5, <1>6, <1>7 DEF RequestsInv

\* The session is forgotten.
LEMMA ExpireKeeps == ASSUME RequestsInv, Expire PROVE RequestsInv'
<1>1. TypeOK'
  BY DEF RequestsInv, TypeOK, Contents, Expire, Empty, formVars, bodyVars, scopeVars, pageVars
<1>2. IdleClean'
  BY DEF RequestsInv, IdleClean, Active, Expire, formVars, bodyVars, scopeVars, pageVars
<1>3. UsedCovers'
  BY NoRange DEF RequestsInv, UsedCovers, Waiting, InFlash, Seen, Cargo, Expire, Empty, scopeVars, pageVars
<1>4. StorageUse'
  BY DEF RequestsInv, StorageUse, Expire, Empty, scopeVars
<1>5. DrainBound'
  BY DEF RequestsInv, DrainBound, Expire, formVars, bodyVars
<1>6. BodyIntact'
  BY DEF RequestsInv, BodyIntact, Expire, formVars, bodyVars
<1>7. CalmAlone' /\ CalmTokens' /\ CalmMessages' /\ CalmOnce'
  BY DEF Expire, CalmAlone, CalmTokens, CalmMessages, CalmOnce, Calm
<1>. QED BY <1>1, <1>2, <1>3, <1>4, <1>5, <1>6, <1>7 DEF RequestsInv

\* The trouble is over.
LEMMA SettleKeeps == ASSUME RequestsInv, Settle \/ Recover PROVE RequestsInv'
<1>a. /\ UNCHANGED <<storage, flash, cookie, stage, url, posted, inHeader, body, got, gone, carried, pending,
                     loaded, session, shown, page, flushed, added, used, seen>>
      /\ forms' = {} \/ (forms' = forms /\ trouble # "disturbed")
      /\ trouble' \in {"none", "copies"} /\ (trouble' = "none" => Tidy)
      /\ \A s \in Slots : ~ Active(s)
  BY DEF Settle, Recover, Quiet, Active, browserVars, formVars, bodyVars, scopeVars, pageVars
<1>b. \A s \in Slots : ~ Active(s)' /\ ~ Working(s)'
  BY <1>a DEF Active, Working
<1>1. TypeOK'
  BY <1>a DEF RequestsInv, TypeOK
<1>2. IdleClean'
  BY <1>a DEF RequestsInv, IdleClean, Active
<1>3. UsedCovers'
  BY <1>a DEF RequestsInv, UsedCovers, Waiting, InFlash, Seen, Cargo
<1>4. StorageUse' /\ DrainBound' /\ BodyIntact'
  BY <1>a DEF RequestsInv, StorageUse, DrainBound, BodyIntact
<1>5. CalmAlone' /\ CalmMessages'
  BY <1>b DEF CalmAlone, CalmMessages
<1>6. CalmTokens'
  BY <1>a, <1>b DEF RequestsInv, CalmTokens
<1>7. CalmOnce'
  BY <1>a, <1>b DEF CalmOnce, Tidy
<1>. QED BY <1>1, <1>2, <1>3, <1>4, <1>5, <1>6, <1>7 DEF RequestsInv

\* No request has been made.
LEMMA StartsRequests == ASSUME Init PROVE RequestsInv
<1>1. TypeOK
  <2>1. <<>> \in Seq(Messages) /\ Empty \in Contents /\ 1 \in 1..MaxBody /\ 0 \in 0..MaxBody
    BY RequestsAssumption DEF Empty, Contents
  <2>. QED BY <2>1 DEF Init, TypeOK
<1>2. IdleClean
  BY DEF Init, IdleClean, Active
<1>3. UsedCovers
  <2>1. Waiting = {} /\ Seen = {}
    BY NoRange DEF Init, Waiting, InFlash, Seen, Empty
  <2>. QED BY <2>1, NoRange DEF Init, UsedCovers, Cargo, Empty
<1>4. StorageUse
  BY DEF Init, StorageUse, Empty
<1>5. DrainBound
  BY DEF Init, DrainBound
<1>6. BodyIntact
  BY DEF Init, BodyIntact
<1>7. CalmAlone /\ CalmTokens /\ CalmMessages
  BY DEF Init, CalmAlone, CalmTokens, CalmMessages, Active, Working
<1>8. CalmOnce
  <2>1. Tidy
    BY NothingConcat, EmptySeq DEF Init, Tidy, Empty, IsInjective
  <2>. QED BY <2>1 DEF Init, CalmOnce, Active, Working
<1>. QED BY <1>1, <1>2, <1>3, <1>4, <1>5, <1>6, <1>7, <1>8 DEF RequestsInv

\* Every step of a request keeps the invariant.
LEMMA RequestsStepKeeps == RequestsInv /\ [Next]_vars => RequestsInv'
<1> SUFFICES ASSUME RequestsInv, [Next]_vars PROVE RequestsInv'
  OBVIOUS
<1>1. CASE UNCHANGED vars
  <2>. USE <1>1 DEF vars, browserVars, bodyVars, formVars, scopeVars, pageVars
  <2>1. TypeOK' /\ IdleClean' /\ DrainBound' /\ BodyIntact' /\ CalmTokens'
    BY DEF RequestsInv, TypeOK, IdleClean, DrainBound, BodyIntact, CalmTokens, Active
  <2>2. UsedCovers' /\ StorageUse' /\ CalmAlone' /\ CalmMessages' /\ CalmOnce'
    BY SameMessages DEF Active, Working, Forgotten
  <2>. QED BY <2>1, <2>2 DEF RequestsInv
<1>2. CASE \E r \in Slots : (\E u \in Urls : Get(r, u)) \/ Receive(r) \/ Disconnect(r) \/ Accept(r) \/ Reject(r)
  BY <1>2, GetKeeps, ReceiveKeeps, DisconnectKeeps, AcceptKeeps, RejectKeeps
<1>3. CASE \E r \in Slots, u \in Urls, token \in forms, header \in BOOLEAN, chunks \in {1, MaxBody} :
             Post(r, u, token, header, chunks)
  BY <1>3, PostKeeps
<1>4. CASE \E r \in Slots : (\E m \in Messages : Add(r, m) \/ AddFails(r, m)) \/ Show(r) \/ FlushSession(r)
  BY <1>4, AddKeeps, AddFailsKeeps, ShowKeeps, FlushSessionKeeps
<1>5. CASE \E r \in Slots : \E token \in Tokens : Fresh(token) /\ RenderForm(r, token)
  BY <1>5, RenderFormKeeps
<1>6. CASE \E r \in Slots : HandlerRaises(r) \/ Respond(r) \/ Deliver(r) \/ Lose(r)
  BY <1>6, HandlerRaisesKeeps, RespondKeeps, DeliverKeeps, LoseKeeps
<1>7. CASE Expire \/ Settle \/ Recover
  BY <1>7, ExpireKeeps, SettleKeeps
<1>. QED BY <1>1, <1>2, <1>3, <1>4, <1>5, <1>6, <1>7 DEF Next

\* The invariant holds in every state.
THEOREM RequestsKeep == Spec => []RequestsInv
<1>1. Init => RequestsInv
  BY StartsRequests
<1>. QED BY <1>1, RequestsStepKeeps, PTL DEF Spec

\* The cookies, the requests and the responses are of their types.
THEOREM RequestsTyped == Spec => []TypeOK
<1>1. RequestsInv => TypeOK
  BY DEF RequestsInv
<1>. QED BY <1>1, RequestsKeep, PTL

\* A handler gets the body that was sent, but for the limit and clients that
\* go (CsrfMiddleware._drain).
THEOREM BodiesAreIntact == Spec => []BodyIntact
<1>1. RequestsInv => BodyIntact
  BY DEF RequestsInv
<1>. QED BY <1>1, RequestsKeep, PTL

\* The form of a delivered page is accepted (csrf_token, CsrfMiddleware).
THEOREM FormsAreAccepted == Spec => FormAccepted
<1>. DEFINE Accepted == \A r \in Slots :
              stage[r] = "drain" /\ stage'[r] = "respond" /\ trouble # "disturbed"
                  => got[r] < body[r] /\ (gone[r] \/ got[r] > BodyLimit)
<1>1. ASSUME RequestsInv, [Next]_vars PROVE [Accepted]_vars
  <2> SUFFICES ASSUME NEW r \in Slots, stage[r] = "drain", stage'[r] = "respond", trouble # "disturbed"
               PROVE  got[r] < body[r] /\ (gone[r] \/ got[r] > BodyLimit)
    OBVIOUS
  <2>1. stage \in [Slots -> {"idle", "drain", "handle", "respond"}]
    BY <1>1 DEF RequestsInv, TypeOK
  <2>2. PICK s \in Slots : Reject(s) \/ HandlerRaises(s) \/ Respond(s)
    <3>1. \A s \in Slots : ~ Receive(s) /\ ~ Disconnect(s) /\ ~ Accept(s) /\ ~ Show(s) /\ ~ FlushSession(s)
      BY <2>1 DEF Receive, Disconnect, Accept, Show, FlushSession
    <3>2. \A s \in Slots : ~ Deliver(s) /\ ~ Lose(s)
      BY <2>1 DEF Deliver, Lose, Idle
    <3>3. \A s \in Slots : /\ \A u : ~ Get(s, u)
                           /\ \A u, token, header, chunks : ~ Post(s, u, token, header, chunks)
                           /\ \A m : ~ Add(s, m) /\ ~ AddFails(s, m)
                           /\ \A token : ~ RenderForm(s, token)
      BY <2>1 DEF Get, Post, Arrive, Add, AddFails, RenderForm
    <3>4. ~ UNCHANGED vars /\ ~ Expire /\ ~ Settle /\ ~ Recover
      BY DEF vars, Expire, Settle, Recover
    <3>. QED BY <1>1, <3>1, <3>2, <3>3, <3>4 DEF Next
  <2>3. s = r
    BY <2>1, <2>2 DEF Reject, HandlerRaises, Respond
  <2>4. Drained(r) /\ ~ Matches(r)
    BY <2>2, <2>3 DEF Reject, HandlerRaises, Respond
  <2>5. posted[r] \in Tokens /\ posted[r] = session[r].token
    BY <1>1 DEF RequestsInv, CalmTokens, Active
  <2>6. got[r] # body[r]
    BY <2>4, <2>5, RequestsAssumption DEF Matches, Submitted
  <2>7. got[r] \in Nat /\ body[r] \in Nat /\ got[r] <= body[r]
    BY <1>1, RequestsAssumption DEF RequestsInv, TypeOK, DrainBound
  <2>. QED BY <2>4, <2>6, <2>7 DEF Drained
<1>. QED BY <1>1, RequestsKeep, PTL DEF Spec, FormAccepted

-----------------------------------------------------------------------------
\* The storages implement the inbox

\* Nothing waits.
LEMMA StartsInbox == ASSUME Init PROVE Box!InboxInit
<1>1. Waiting = {}
  BY NoRange DEF Init, Waiting, InFlash, Empty
<1>. QED BY <1>1 DEF Init, Waiting, InFlash, Box!InboxInit

\* What the inbox is about.
LEMMA InboxTyped ==
    RequestsInv => /\ Waiting \subseteq Messages /\ seen \in [Messages -> 0..2]
                   /\ Calm \in BOOLEAN /\ (trouble = "copies") \in BOOLEAN
BY RangeOfSeq DEF RequestsInv, TypeOK, Contents, Waiting, InFlash, Calm

\* So after a step.
LEMMA InboxTypedNext ==
    RequestsInv' => /\ Waiting' \subseteq Messages /\ seen' \in [Messages -> 0..2]
                    /\ Calm' \in BOOLEAN /\ (trouble' = "copies") \in BOOLEAN
BY RangeOfSeq DEF RequestsInv, TypeOK, Contents, Waiting, InFlash, Calm

\* A response to a browser that waited for it is an exchange.
LEMMA DeliverExchanges ==
    ASSUME RequestsInv, RequestsInv', NEW r \in Slots, Deliver(r), Calm
    PROVE  Box!Exchange \/ UNCHANGED <<Waiting, seen, trouble>>
<1>1. /\ trouble' = trouble /\ seen' = [m \in Messages |-> Listed(m, shown[r])]
      /\ shown[r] \in Seq(Messages) /\ seen \in [Messages -> 0..2] /\ seen' \in [Messages -> 0..2]
  BY DEF Deliver, RequestsInv, TypeOK
<1>2. CASE Waiting' = Waiting /\ shown[r] = <<>>
  <2>1. \A m \in Messages : seen'[m] = seen[m]
    BY <1>1, <1>2, ListedIs, NoRange DEF RequestsInv
  <2>2. seen' = seen
    BY <1>1, <2>1
  <2>. QED BY <1>1, <1>2, <2>2
<1>3. CASE /\ Working(r) /\ Touched(r) /\ ~ Away(url[r])
           /\ Waiting' = Cargo(r) \cup Range(session[r].msgs)
  <2>1. /\ Cargo(r) \cup Range(session[r].msgs) \cup Range(shown[r]) = Waiting \cup added[r]
        /\ (Cargo(r) \cup Range(session[r].msgs)) \cap Range(shown[r]) = {}
        /\ shown[r] # <<>> => Waiting \subseteq Range(shown[r])
        /\ added[r] \cap (Waiting \cup Seen) = {}
        /\ added[r] \subseteq Messages
    BY <1>3 DEF RequestsInv, TypeOK, CalmMessages
  <2>2. Waiting' = (Waiting \cup added[r]) \ Range(shown[r])
    BY <1>3, <2>1
  <2>3. Range(shown[r]) = {} \/ \E n \in SUBSET added[r] : Range(shown[r]) = Waiting \cup n
    <3>1. CASE shown[r] = <<>>
      BY <3>1, NoRange
    <3>2. CASE shown[r] # <<>>
      <4>1. Range(shown[r]) = Waiting \cup (Range(shown[r]) \cap added[r])
        BY <2>1, <3>2
      <4>. QED BY <4>1
    <3>. QED BY <3>1, <3>2
  <2>4. added[r] \in SUBSET (Messages \ (Waiting \cup Seen)) /\ Box!Shown = Seen
    BY <2>1 DEF Box!Shown, Seen
  <2>5. Range(shown[r]) \in {{}} \cup {Waiting \cup n : n \in SUBSET added[r]}
    BY <2>3
  <2>6. Box!Lists(Range(shown[r]))
    <3>1. trouble # "copies" => IsInjective(shown[r])
      BY <1>3 DEF RequestsInv, CalmOnce, Calm
    <3>2. ASSUME NEW m \in Messages
          PROVE  IF m \notin Range(shown[r]) THEN seen'[m] = seen[m]
                 ELSE seen'[m] # 0 /\ (trouble # "copies" => seen'[m] = IF seen[m] = 0 THEN 1 ELSE 2)
      BY <1>1, <3>1, ListedIs DEF RequestsInv
    <3>. QED BY <1>1, <3>2 DEF Box!Lists
  <2>7. Box!Exchange
    <3>1. \E new \in SUBSET (Messages \ (Waiting \cup Box!Shown)) :
            \E out \in {{}} \cup {Waiting \cup n : n \in SUBSET new} :
                Waiting' = (Waiting \cup new) \ out /\ Box!Lists(out)
      BY <2>2, <2>4, <2>5, <2>6
    <3>2. UNCHANGED <<Calm, trouble = "copies">>
      BY <1>1 DEF Calm
    <3>. QED BY <3>1, <3>2 DEF Box!Exchange, Calm, Waiting, InFlash
  <2>. QED BY <2>7
<1>. QED BY <1>2, <1>3, DeliverBrings

\* The other steps leave the messages of the browser alone.
LEMMA OthersKeepInbox ==
    ASSUME [Next]_vars
    PROVE  \/ \E r \in Slots : Deliver(r)
           \/ Expire /\ ~ Calm' /\ seen' = seen
           \/ Settle /\ ~ Calm
           \/ UNCHANGED <<flash, cookie, seen>>
<1>1. CASE UNCHANGED vars
  BY <1>1 DEF vars, browserVars
<1>2. CASE Expire \/ Settle \/ Recover
  BY <1>2 DEF Expire, Settle, Recover, Calm, browserVars
<1>3. ASSUME NEW r \in Slots,
             Receive(r) \/ Disconnect(r) \/ Accept(r) \/ Reject(r) \/ Show(r) \/ FlushSession(r)
      PROVE  UNCHANGED <<flash, cookie, seen>>
  BY <1>3 DEF Receive, Disconnect, Accept, Reject, Show, FlushSession, browserVars
<1>4. ASSUME NEW r \in Slots, HandlerRaises(r) \/ Respond(r) \/ Lose(r)
      PROVE  UNCHANGED <<flash, cookie, seen>>
  BY <1>4 DEF HandlerRaises, Respond, Lose, browserVars
<1>5. ASSUME NEW r \in Slots, NEW u, Get(r, u) \/ \E token, header, chunks : Post(r, u, token, header, chunks)
      PROVE  UNCHANGED <<flash, cookie, seen>>
  BY <1>5 DEF Get, Post, Arrive, browserVars
<1>6. ASSUME NEW r \in Slots, NEW x, Add(r, x) \/ AddFails(r, x) \/ RenderForm(r, x)
      PROVE  UNCHANGED <<flash, cookie, seen>>
  BY <1>6 DEF Add, AddFails, RenderForm, browserVars
<1>. QED BY <1>1, <1>2, <1>3, <1>4, <1>5, <1>6 DEF Next

\* Every step of the browser and of its requests is one of the inbox.
LEMMA InboxSteps == RequestsInv /\ RequestsInv' /\ [Next]_vars => [Box!InboxNext]_Box!InboxVars
<1> SUFFICES ASSUME RequestsInv, RequestsInv', [Next]_vars PROVE Box!InboxNext \/ UNCHANGED Box!InboxVars
  OBVIOUS
<1>1. /\ Waiting' \in SUBSET Messages /\ seen' \in [Messages -> 0..2]
      /\ Calm' \in BOOLEAN /\ (trouble' = "copies") \in BOOLEAN
  BY InboxTypedNext
<1>2. CASE ~ Calm
  BY <1>1, <1>2 DEF Box!InboxNext, Box!Disturbed, Waiting, InFlash, Calm
<1>3. CASE Calm /\ ~ Calm'
  <2>1. \A r \in Slots : Deliver(r) => Calm' = Calm
    BY DEF Deliver, Calm
  <2>2. seen' = seen
    BY <1>3, <2>1, OthersKeepInbox
  <2>. QED BY <1>1, <1>3, <2>2 DEF Box!InboxNext, Box!Disturb, Waiting, InFlash, Calm
<1>4. CASE Calm /\ Calm'
  <2>1. CASE \E r \in Slots : Deliver(r)
    BY <1>4, <2>1, DeliverExchanges DEF Box!InboxNext, Box!InboxVars, Waiting, InFlash
  <2>2. CASE UNCHANGED <<flash, cookie, seen>>
    <3>1. CASE trouble' = trouble
      BY <2>2, <3>1 DEF Box!InboxVars
    <3>2. CASE trouble' # trouble
      <4>1. (trouble' = "copies") = ~ (trouble = "copies")
        BY <1>4, <3>2 DEF Calm
      <4>. QED BY <1>4, <2>2, <4>1 DEF Box!InboxNext, Box!Copy, Calm
    <3>. QED BY <3>1, <3>2
  <2>. QED BY <1>4, <2>1, <2>2, OthersKeepInbox
<1>. QED BY <1>2, <1>3, <1>4

\* The storages of messages implement the inbox, whichever is configured and
\* whichever responses fail or are lost (BaseStorage and its classes,
\* send_with_cookies): a message is shown by one response and listed once.
\* What Path and overflow do to that is in Strays and Doubles of Requests.
THEOREM StoragesImplementInbox == Spec => KeepsItsPromise
<1>1. Init => Box!InboxInit
  BY StartsInbox
<1>. QED BY <1>1, InboxSteps, RequestsKeep, PTL DEF Spec, KeepsItsPromise, Box!InboxSpec
=============================================================================
