---------------------------- MODULE MCRequests ----------------------------
(* Instances of Requests for TLC. *)
EXTENDS Requests, TLC

CONSTANTS front, draft, top, blog

\* The pages /front and /blog/draft.
MCHomeOf == [u \in Urls |-> IF u = front THEN top ELSE blog]
MCSent == [u \in Urls |-> IF u = front THEN {top} ELSE {top, blog}]
MCDepth == [d \in {top, blog} |-> IF d = top THEN 0 ELSE 1]

MCSymmetry == Permutations(Slots) \cup Permutations(Messages) \cup Permutations(Tokens)
=============================================================================
