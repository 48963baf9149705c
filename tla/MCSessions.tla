----------------------------- MODULE MCSessions -----------------------------
(***************************************************************************)
(* Instances of Sessions for TLC: the client c1 waits for each response,   *)
(* the client c2 may have two requests under way.                          *)
(***************************************************************************)
EXTENDS Sessions, TLC

CONSTANTS c1, c2, r1, r2, r3, k1, k2, k3

MCMaxInFlight == [c \in Clients |-> IF c = c1 THEN 1 ELSE 2]

\* Requests and keys are interchangeable; every property here is an invariant.
Symmetry == Permutations(Requests) \cup Permutations(Keys)
=============================================================================
