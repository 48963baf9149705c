----------------------------- MODULE Requests -----------------------------
(***************************************************************************)
(* The requests of one browser to a ronnie application with the cookie     *)
(* engine of sessions, through the CSRF middleware (middleware/csrf.py)    *)
(* and the messages middleware, to handlers that add and show flash        *)
(* messages (contrib/messages) and render forms.                           *)
(*                                                                         *)
(* The browser has the cookie of the session, with its messages and its    *)
(* CSRF token, and cookies of messages.  The session's is set for all      *)
(* paths.  The middleware of the messages names no Path, so that theirs is *)
(* kept once for each directory whose pages have set it, and goes with the *)
(* requests below that directory only.  A request works on copies of its   *)
(* cookies, and its response brings them back.                             *)
(***************************************************************************)
EXTENDS Integers, Sequences, FiniteSets, Functions

CONSTANTS
    Slots,      \* the requests that can be under way at the same time
    Messages,   \* the messages that are ever added, each once
    Tokens,     \* the values of secrets.token_urlsafe
    None,       \* no token, no form, no cookie to set, no URL
    Urls,       \* the URLs of the application
    HomeOf,     \* HomeOf[u]: the directory of u, the path of the cookies it sets
    Sent,       \* Sent[u]: the directories whose cookies go with a request of u
    Depth,      \* Depth[d]: how deep d is, cookies of deeper ones are sent first
    Crowded,    \* bound: the URLs whose requests may overlap
    Storages,   \* the values of MESSAGE_STORAGE: "cookie", "session", "fallback"
    Capacity,   \* how many messages fit the cookie (MAX_COOKIE_SIZE)
    MaxBody,    \* bound: the chunks of a long body, a short one has one, as those
                \* have that arrive while others are under way
    BodyLimit,  \* how many chunks stay within MAX_BODY_BYTES
    Shared      \* bound: how many messages are added while requests overlap,
                \* or have been added when they arrive, or when one arrives
                \* while messages wait in the cookie of another directory

Directories == Range(HomeOf)

ASSUME RequestsAssumption ==
    /\ None \notin Tokens \cup Urls
    /\ None \notin Seq(Messages)
    /\ DOMAIN HomeOf = Urls
    /\ Sent \in [Urls -> SUBSET Directories]
    /\ \A u \in Urls : HomeOf[u] \in Sent[u]
    /\ Depth \in [Directories -> Nat]
    /\ Crowded \subseteq Urls
    /\ Storages \subseteq {"cookie", "session", "fallback"}
    /\ Capacity \in Nat /\ MaxBody \in Nat \ {0} /\ BodyLimit \in Nat /\ Shared \in Nat

VARIABLES
    storage,     \* MESSAGE_STORAGE
    flash,       \* the browser: flash[d], the messages of the cookie of directory d
    cookie,      \* the browser: the session of the cookie
    forms,       \* the browser: the tokens of the forms on its pages
    stage,       \* stage[r]: "idle", "drain", "handle" or "respond"
    url,         \* url[r]: what r asks for, or None
    posted,      \* posted[r]: the token of the form that r posts, or None
    inHeader,    \* inHeader[r]: the token is in the X-CSRFToken header
    body, got,   \* the chunks of the body of r, and those drained of it
    gone,        \* gone[r]: the client of r has disconnected
    carried,     \* carried[r]: the messages of the cookie that r carries
    pending,     \* pending[r]: scope[PENDING_KEY], or None
    loaded,      \* loaded[r]: the session that r carries
    session,     \* session[r]: scope["session"]
    shown,       \* shown[r]: the messages in the response
    page,        \* page[r]: the token of the form in the response, or None
    flushed,     \* flushed[r]: the handler has flushed the session
    added,       \* history: the messages that r has added
    used,        \* history: the messages ever added
    seen,        \* history: how often the responses have listed a message, up to 2
    trouble      \* history: "none", "copies", "astray" or "disturbed", see Trouble below

browserVars == <<flash, cookie, forms>>
formVars == <<posted, inHeader, body, got>>
bodyVars == <<formVars, gone>>
scopeVars == <<url, carried, pending, loaded, session>>
pageVars == <<shown, page, flushed>>
vars == <<storage, browserVars, stage, bodyVars, scopeVars, pageVars,
          added, used, seen, trouble>>

Contents == [msgs : Seq(Messages), token : Tokens \cup {None}]
Empty == [msgs |-> <<>>, token |-> None]

TypeOK ==
    /\ storage \in Storages
    /\ flash \in [Directories -> Seq(Messages)]
    /\ cookie \in Contents
    /\ forms \subseteq Tokens
    /\ stage \in [Slots -> {"idle", "drain", "handle", "respond"}]
    /\ url \in [Slots -> Urls \cup {None}]
    /\ posted \in [Slots -> Tokens \cup {None}]
    /\ inHeader \in [Slots -> BOOLEAN]
    /\ body \in [Slots -> 1..MaxBody]
    /\ got \in [Slots -> 0..MaxBody]
    /\ gone \in [Slots -> BOOLEAN]
    /\ carried \in [Slots -> Seq(Messages)]
    /\ pending \in [Slots -> Seq(Messages) \cup {None}]
    /\ loaded \in [Slots -> Contents]
    /\ session \in [Slots -> Contents]
    /\ shown \in [Slots -> Seq(Messages)]
    /\ page \in [Slots -> Tokens \cup {None}]
    /\ flushed \in [Slots -> BOOLEAN]
    /\ added \in [Slots -> SUBSET Messages]
    /\ used \subseteq Messages
    /\ seen \in [Messages -> 0..2]
    /\ trouble \in {"none", "copies", "astray", "disturbed"}

\* The body of a request is no longer needed.
NoForm(r) ==
    /\ posted' = [posted EXCEPT ![r] = None]
    /\ inHeader' = [inHeader EXCEPT ![r] = FALSE]
    /\ body' = [body EXCEPT ![r] = 1]
    /\ got' = [got EXCEPT ![r] = 0]

\* What the scope of a request has goes.
Forget(r) ==
    /\ NoForm(r)
    /\ carried' = [carried EXCEPT ![r] = <<>>]
    /\ pending' = [pending EXCEPT ![r] = None]
    /\ loaded' = [loaded EXCEPT ![r] = Empty]
    /\ session' = [session EXCEPT ![r] = Empty]
    /\ shown' = [shown EXCEPT ![r] = <<>>]
    /\ page' = [page EXCEPT ![r] = None]
    /\ flushed' = [flushed EXCEPT ![r] = FALSE]
    /\ added' = [added EXCEPT ![r] = {}]

\* A slot without a request.
Idle(r) ==
    /\ stage' = [stage EXCEPT ![r] = "idle"]
    /\ url' = [url EXCEPT ![r] = None]
    /\ gone' = [gone EXCEPT ![r] = FALSE]
    /\ Forget(r)

Init ==
    /\ storage \in Storages
    /\ flash = [d \in Directories |-> <<>>]
    /\ cookie = Empty
    /\ forms = {}
    /\ stage = [r \in Slots |-> "idle"]
    /\ url = [r \in Slots |-> None]
    /\ posted = [r \in Slots |-> None]
    /\ inHeader = [r \in Slots |-> FALSE]
    /\ body = [r \in Slots |-> 1]
    /\ got = [r \in Slots |-> 0]
    /\ gone = [r \in Slots |-> FALSE]
    /\ carried = [r \in Slots |-> <<>>]
    /\ pending = [r \in Slots |-> None]
    /\ loaded = [r \in Slots |-> Empty]
    /\ session = [r \in Slots |-> Empty]
    /\ shown = [r \in Slots |-> <<>>]
    /\ page = [r \in Slots |-> None]
    /\ flushed = [r \in Slots |-> FALSE]
    /\ added = [r \in Slots |-> {}]
    /\ used = {}
    /\ seen = [m \in Messages |-> 0]
    /\ trouble = "none"

Alone(r) == \A s \in Slots \ {r} : stage[s] = "idle"
Quiet == \A s \in Slots : stage[s] = "idle"

-----------------------------------------------------------------------------
\* A request arrives, with copies of the cookies of the browser.

\* The cookie of messages among those that a request of u carries: of several
\* with the same name SimpleCookie keeps the last.
Carried(u) ==
    LET D == {d \in Sent[u] : flash[d] # <<>>}
    IN  IF D = {} THEN <<>> ELSE flash[CHOOSE d \in D : \A e \in D : Depth[d] <= Depth[e]]

\* Messages wait in a cookie of another directory.
Away(u) == \E d \in Directories \ {HomeOf[u]} : flash[d] # <<>>

Arrive(r, u, where) ==
    /\ stage[r] = "idle"
    /\ Alone(r) \/ Range(url) \cup {u} \subseteq Crowded \cup {None}
    /\ Cardinality(used) <= Shared \/ (Alone(r) /\ ~ Away(u))
    /\ stage' = [stage EXCEPT ![r] = where]
    /\ url' = [url EXCEPT ![r] = u]
    /\ carried' = [carried EXCEPT ![r] = Carried(u)]
    /\ loaded' = [loaded EXCEPT ![r] = cookie]
    /\ session' = [session EXCEPT ![r] = cookie]
    /\ trouble' = IF Alone(r) THEN trouble ELSE "disturbed"
    /\ UNCHANGED <<storage, browserVars, got, gone, pending, pageVars, added, used, seen>>

\* A safe method, or an exempt path: it goes straight to the handler.
Get(r, u) ==
    /\ Arrive(r, u, "handle")
    /\ UNCHANGED <<posted, inHeader, body>>

\* A form of one of the pages is posted.
Post(r, u, token, header, chunks) ==
    /\ Arrive(r, u, "drain")
    /\ Alone(r) \/ chunks = 1
    /\ posted' = [posted EXCEPT ![r] = token]
    /\ inHeader' = [inHeader EXCEPT ![r] = header]
    /\ body' = [body EXCEPT ![r] = chunks]

-----------------------------------------------------------------------------
\* CsrfMiddleware

\* Mutant: more_body is not looked at.
DrainedAtOnce(r) == got[r] >= 1 \/ gone[r]

\* _drain has returned.
Drained(r) == got[r] = body[r] \/ got[r] > BodyLimit \/ gone[r]

\* _drain receives the next chunk ...
Receive(r) ==
    /\ stage[r] = "drain"
    /\ ~ Drained(r)
    /\ got' = [got EXCEPT ![r] = @ + 1]
    /\ UNCHANGED <<storage, browserVars, stage, posted, inHeader, body, gone, scopeVars,
                   pageVars, added, used, seen, trouble>>

\* ... or the news that the client is gone.
Disconnect(r) ==
    /\ stage[r] = "drain"
    /\ ~ Drained(r)
    /\ gone' = [gone EXCEPT ![r] = TRUE]
    /\ UNCHANGED <<storage, browserVars, stage, posted, inHeader, body, got, scopeVars,
                   pageVars, added, used, seen, trouble>>

\* The token that was submitted: the form field comes with the last chunk.
Submitted(r) == IF inHeader[r] \/ got[r] = body[r] THEN posted[r] ELSE None
Matches(r) == session[r].token # None /\ Submitted(r) = session[r].token

\* The drained body is replayed to the handler.
Accept(r) ==
    /\ stage[r] = "drain"
    /\ Drained(r)
    /\ Matches(r)
    /\ stage' = [stage EXCEPT ![r] = "handle"]
    /\ inHeader' = [inHeader EXCEPT ![r] = FALSE]
    /\ UNCHANGED <<storage, browserVars, posted, body, got, gone, scopeVars, pageVars, added, used, seen, trouble>>

\* 403
Reject(r) ==
    /\ stage[r] = "drain"
    /\ Drained(r)
    /\ ~ Matches(r)
    /\ stage' = [stage EXCEPT ![r] = "respond"]
    /\ NoForm(r)
    /\ UNCHANGED <<storage, browserVars, gone, scopeVars, pageVars, added, used, seen, trouble>>

-----------------------------------------------------------------------------
\* The storages of messages

\* CookieStorage._load
InCookie(r) == IF pending[r] = None THEN carried[r] ELSE pending[r]

\* _load
Held(r) ==
    CASE storage = "cookie" -> InCookie(r)
      [] storage = "session" -> session[r].msgs
      [] storage = "fallback" -> InCookie(r) \o session[r].msgs

Fits(list) == Len(list) <= Capacity

Keep(r, list) ==
    /\ pending' = [pending EXCEPT ![r] = list]
    /\ session' = [session EXCEPT ![r].msgs = IF storage = "fallback" THEN <<>> ELSE @]

\* After an overflow the request is without a cookie to set, and what the
\* cookie of the browser carries counts again.
Overflow(r, list) ==
    /\ pending' = [pending EXCEPT ![r] = IF storage = "fallback" THEN None ELSE @]
    /\ session' = [session EXCEPT ![r].msgs = list]

\* Trouble.  A request that touches the messages while a cookie of another
\* directory has some does not see that cookie or cannot replace it: messages
\* go "astray".  An overflow of FallbackStorage leaves the cookie of the browser
\* as it is and stores its messages in the session as well: they wait in
\* "copies", or come back if the request has shown them before.
Strays(r) == Away(url[r])
Doubles(r, small) == storage = "fallback" /\ ~ small /\ carried[r] # <<>>

Troubled(astray, copies) ==
    IF astray /\ trouble # "disturbed" THEN "astray"
    ELSE IF copies /\ trouble = "none" THEN "copies"
    ELSE trouble

\* add: _load, append and _persist.
Add(r, m) ==
    /\ stage[r] = "handle"
    /\ m \notin used
    /\ Alone(r) \/ Cardinality(used) < Shared
    /\ LET list == Append(Held(r), m)
           small == storage # "session" /\ Fits(list) IN
        /\ storage = "cookie" => small
        /\ IF small THEN Keep(r, list) ELSE Overflow(r, list)
        /\ trouble' = Troubled(Strays(r) \/ (Doubles(r, small) /\ shown[r] # <<>>), Doubles(r, small))
    /\ added' = [added EXCEPT ![r] = @ \cup {m}]
    /\ used' = used \cup {m}
    /\ UNCHANGED <<storage, browserVars, stage, bodyVars, url, carried, loaded, pageVars, seen>>

\* A message that does not fit a CookieStorage: messages.info and the others
\* swallow the failure, add_message raises it in the handler.
AddFails(r, m) ==
    /\ stage[r] = "handle"
    /\ m \notin used
    /\ storage = "cookie" /\ ~ Fits(Append(Held(r), m))
    /\ used' = used \cup {m}
    /\ UNCHANGED <<storage, browserVars, stage, bodyVars, scopeVars, pageVars, added, seen, trouble>>

\* Mutant: FallbackStorage forgets the part of the session.
ClearCookieOnly(r) ==
    /\ pending' = [pending EXCEPT ![r] = IF storage = "session" THEN @ ELSE <<>>]
    /\ UNCHANGED session

\* _clear
ClearStored(r) ==
    /\ pending' = [pending EXCEPT ![r] = IF storage = "session" THEN @ ELSE <<>>]
    /\ session' = [session EXCEPT ![r].msgs = IF storage = "cookie" THEN @ ELSE <<>>]

\* Alerts, get_messages: read with consume.
Show(r) ==
    /\ stage[r] = "handle"
    /\ Held(r) # <<>>
    /\ shown' = [shown EXCEPT ![r] = @ \o Held(r)]
    /\ ClearStored(r)
    /\ trouble' = Troubled(Strays(r), FALSE)
    /\ UNCHANGED <<storage, browserVars, stage, bodyVars, url, carried, loaded, page, flushed,
                   added, used, seen>>

-----------------------------------------------------------------------------
\* What else handlers do

\* Mutant: every form gets another token.
RenderAnew(r, fresh) ==
    /\ stage[r] = "handle"
    /\ session' = [session EXCEPT ![r].token = fresh]
    /\ page' = [page EXCEPT ![r] = fresh]
    /\ UNCHANGED <<storage, browserVars, stage, bodyVars, url, carried, pending, loaded, shown,
                   flushed, added, used, seen, trouble>>

\* CsrfToken(req): a form is rendered, with the token of the session, or with
\* a new one.
RenderForm(r, fresh) ==
    /\ stage[r] = "handle"
    /\ LET token == IF session[r].token = None THEN fresh ELSE session[r].token IN
        /\ session' = [session EXCEPT ![r].token = token]
        /\ page' = [page EXCEPT ![r] = token]
    /\ UNCHANGED <<storage, browserVars, stage, bodyVars, url, carried, pending, loaded, shown,
                   flushed, added, used, seen, trouble>>

\* No browser, no request and no page has the token.
Fresh(token) ==
    /\ token \notin forms \cup {cookie.token}
    /\ \A r \in Slots : token \notin {loaded[r].token, session[r].token, posted[r], page[r]}

\* flush(req), as on logout: with it go the messages of the session.
FlushSession(r) ==
    /\ stage[r] = "handle"
    /\ session' = [session EXCEPT ![r] = Empty]
    /\ page' = [page EXCEPT ![r] = None]
    /\ flushed' = [flushed EXCEPT ![r] = TRUE]
    /\ trouble' = "disturbed"
    /\ UNCHANGED <<storage, browserVars, stage, bodyVars, url, carried, pending, loaded, shown,
                   added, used, seen>>

\* The handler raises: the error page is made outside of all middleware, and
\* nothing of the scope gets into it.
HandlerRaises(r) ==
    /\ stage[r] = "handle"
    /\ stage' = [stage EXCEPT ![r] = "respond"]
    /\ Forget(r)
    /\ UNCHANGED <<storage, browserVars, url, gone, used, seen, trouble>>

Respond(r) ==
    /\ stage[r] = "handle"
    /\ stage' = [stage EXCEPT ![r] = "respond"]
    /\ NoForm(r)
    /\ UNCHANGED <<storage, browserVars, gone, scopeVars, pageVars, added, used, seen, trouble>>

-----------------------------------------------------------------------------
\* The response

\* Mutant: the cookie is set whether there is anything to set or not.
FlashAlways(r) == [flash EXCEPT ![HomeOf[url[r]]] = pending[r]]

\* The cookies of messages after the Set-Cookie header of send_with_cookies,
\* which without a Path sets or expires that of the directory of the URL.
FlashSet(r) ==
    IF pending[r] = None THEN flash ELSE [flash EXCEPT ![HomeOf[url[r]]] = pending[r]]

\* The session middleware sets its cookie when the session has content, and
\* clears it when it had some.
CookieSet(r) == IF session[r] = Empty /\ loaded[r] = Empty THEN cookie ELSE session[r]

\* How often m has been listed, after a response with this list.
Listed(m, list) ==
    IF m \notin Range(list) THEN seen[m]
    ELSE IF seen[m] = 0 /\ \A i, j \in DOMAIN list : list[i] = m /\ list[j] = m => i = j THEN 1
    ELSE 2

\* The browser receives the response, unless it has gone.
Deliver(r) ==
    /\ stage[r] = "respond"
    /\ ~ gone[r]
    /\ flash' = FlashSet(r)
    /\ cookie' = CookieSet(r)
    /\ forms' = (IF flushed[r] THEN {} ELSE forms) \cup ({page[r]} \ {None})
    /\ seen' = [m \in Messages |-> Listed(m, shown[r])]
    /\ Idle(r)
    /\ UNCHANGED <<storage, used, trouble>>

\* The response is lost.
Lose(r) ==
    /\ stage[r] = "respond"
    /\ Idle(r)
    /\ UNCHANGED <<storage, browserVars, used, seen, trouble>>

\* The session cookie expires.
Expire ==
    /\ cookie # Empty
    /\ cookie' = Empty
    /\ forms' = {}
    /\ trouble' = "disturbed"
    /\ UNCHANGED <<storage, flash, stage, bodyVars, scopeVars, pageVars, added, used, seen>>

\* No message waits twice.
Tidy == \A d \in Directories : IsInjective(flash[d] \o cookie.msgs)

\* The messages and the forms are "disturbed" by requests that overlap and by a
\* session that expires or is flushed.  That is over when no request is under
\* way and the pages are reloaded, but for the copies that it has left.
Settle ==
    /\ trouble = "disturbed"
    /\ Quiet
    /\ forms' = {}
    /\ trouble' = IF Tidy THEN "none" ELSE "copies"
    /\ UNCHANGED <<storage, flash, cookie, stage, bodyVars, scopeVars, pageVars, added, used, seen>>

\* Other trouble is over when no message waits twice any more.
Recover ==
    /\ trouble \in {"copies", "astray"}
    /\ Quiet /\ Tidy
    /\ trouble' = "none"
    /\ UNCHANGED <<storage, browserVars, stage, bodyVars, scopeVars, pageVars, added, used, seen>>

Next ==
    \/ \E r \in Slots :
        \/ \E u \in Urls :
            \/ Get(r, u)
            \/ \E token \in forms, header \in BOOLEAN, chunks \in {1, MaxBody} :
                Post(r, u, token, header, chunks)
        \/ Receive(r)
        \/ Disconnect(r)
        \/ Accept(r)
        \/ Reject(r)
        \/ \E m \in Messages : Add(r, m) \/ AddFails(r, m)
        \/ Show(r)
        \/ \E token \in Tokens : Fresh(token) /\ RenderForm(r, token)
        \/ FlushSession(r)
        \/ HandlerRaises(r)
        \/ Respond(r)
        \/ Deliver(r)
        \/ Lose(r)
    \/ Expire
    \/ Settle
    \/ Recover

Spec == Init /\ [][Next]_vars

-----------------------------------------------------------------------------
\* Properties

\* The messages keep their promise to a browser that waits for each response:
\* whatever the storage, however the messages move between the cookie and the
\* session, and whichever responses are lost or are error pages, a message of
\* a delivered response waits until one delivered response shows it, and that
\* lists it once.  It may list it more than once after an overflow of
\* FallbackStorage in a request that carried messages ("copies"); and the
\* promise does not hold for pages of different directories, nor when such a
\* request has shown its messages before the overflow ("astray").
Box == INSTANCE Inbox WITH
    waiting <- (UNION {Range(flash[d]) : d \in Directories}) \cup Range(cookie.msgs),
    seen <- seen,
    calm <- trouble \in {"none", "copies"},
    copies <- trouble = "copies"
KeepsItsPromise == Box!InboxSpec

\* A form of a page that the browser has is accepted when it is posted whole
\* by a browser that waits for each response, whatever happened since the
\* page was delivered: lost responses, error pages, other forms.
FormAccepted ==
    [][\A r \in Slots :
        stage[r] = "drain" /\ stage'[r] = "respond" /\ trouble # "disturbed"
            => got[r] < body[r] /\ (gone[r] \/ got[r] > BodyLimit)]_vars

\* A handler gets the body that was sent, unless more than the limit has
\* arrived while more was to come, or the client has gone: then it gets the
\* part that was drained, as if that were all.
BodyIntact ==
    \A r \in Slots :
        stage[r] = "handle" /\ posted[r] # None /\ got[r] # body[r]
            => got[r] = BodyLimit + 1 \/ gone[r]
=============================================================================
