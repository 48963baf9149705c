----------------------------- MODULE MCProcess -----------------------------
(* Instances of Process for TLC. *)
EXTENDS Process

CONSTANTS r1, r2, r3, u1, u2, blog, shop, gone, e1, e2, e3, e4

\* r1 and r2 share a key.
MCUidOf == [r \in Receivers |-> IF r = r3 THEN u2 ELSE u1]
MCInstalled == <<blog, shop>>
MCHookOf == [a \in Apps |-> IF a = blog THEN r1 ELSE r3]

\* Two entries of installed applications, one of a task that is nowhere, one
\* that is disabled.
MCSchedule == <<e1, e2, e3, e4>>
MCEvery == [e \in Entries |-> CASE e = e1 -> 2 [] e = e2 -> 3 [] e = e3 -> 2 [] e = e4 -> 0]
MCAppOf == [e \in Entries |-> IF e = e1 THEN blog ELSE IF e = e3 THEN gone ELSE shop]
=============================================================================
