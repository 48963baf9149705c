------------------------------- MODULE Inbox -------------------------------
(***************************************************************************)
(* What flash messages promise one browser: "one-shot notifications that   *)
(* survive a redirect" (docs/topics/messages.md).  A message waits from    *)
(* the response of the request that added it until one response shows it,  *)
(* and that lists it once.                                                 *)
(*                                                                         *)
(* The promise holds while nothing disturbs it, and but for the listing    *)
(* while messages may wait in copies: see Requests for both.               *)
(***************************************************************************)
EXTENDS Naturals

CONSTANT Messages

VARIABLES
    waiting,   \* the messages that wait
    seen,      \* seen[m]: how often responses have listed m to the user, up to 2
    calm,      \* nothing disturbs the exchange of messages
    copies     \* messages may wait in several copies

InboxVars == <<waiting, seen, calm, copies>>

InboxTypeOK ==
    /\ waiting \subseteq Messages
    /\ seen \in [Messages -> 0..2]
    /\ calm \in BOOLEAN
    /\ copies \in BOOLEAN

InboxInit ==
    /\ waiting = {}
    /\ seen = [m \in Messages |-> 0]
    /\ calm = TRUE
    /\ copies = FALSE

Shown == {m \in Messages : seen[m] # 0}

\* A response lists the messages of out.
Lists(out) ==
    /\ seen' \in [Messages -> 0..2]
    /\ \A m \in Messages :
        IF m \notin out THEN seen'[m] = seen[m]
        ELSE seen'[m] # 0 /\ (~ copies => seen'[m] = IF seen[m] = 0 THEN 1 ELSE 2)

\* A response brings some messages that were never shown: new ones, together
\* with all that waited.  It leaves the other new ones to wait.
Exchange ==
    /\ calm
    /\ \E new \in SUBSET (Messages \ (waiting \cup Shown)) :
        \E out \in {{}} \cup {waiting \cup n : n \in SUBSET new} :
            /\ waiting' = (waiting \cup new) \ out
            /\ Lists(out)
    /\ UNCHANGED <<calm, copies>>

\* Messages are copied, or no copies wait any more.
Copy ==
    /\ calm
    /\ copies' = ~ copies
    /\ UNCHANGED <<waiting, seen, calm>>

Disturb ==
    /\ calm
    /\ calm' = FALSE
    /\ waiting' \in SUBSET Messages
    /\ copies' \in BOOLEAN
    /\ UNCHANGED seen

\* Anything may happen to the messages then.
Disturbed ==
    /\ ~ calm
    /\ waiting' \in SUBSET Messages
    /\ seen' \in [Messages -> 0..2]
    /\ calm' \in BOOLEAN
    /\ copies' \in BOOLEAN

InboxNext == Exchange \/ Copy \/ Disturb \/ Disturbed
InboxSpec == InboxInit /\ [][InboxNext]_InboxVars
=============================================================================
