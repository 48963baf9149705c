------------------------------- MODULE Lists -------------------------------
(***************************************************************************)
(* What the code does with lists: comprehensions and loops.  SelectSeq and *)
(* FoldLeft say the same of operators; these definitions take positions    *)
(* and functions, about which facts can be proved.                         *)
(***************************************************************************)
EXTENDS Integers, Sequences, FiniteSets

\* How many of the positions I are not after i.
Rank(I, i) == Cardinality({j \in I : j <= i})

\* The elements of s at the positions I, in their order.
Picked(s, I) == [n \in 1..Cardinality(I) |-> s[CHOOSE i \in I : Rank(I, i) = n]]

\* The elements of s that are in S, in their order.
Only(s, S) == Picked(s, {i \in DOMAIN s : s[i] \in S})

\* The value x taken through the steps, a sequence of functions.
Through(steps, x) ==
    LET after[i \in 0..Len(steps)] == IF i = 0 THEN x ELSE steps[i][after[i - 1]]
    IN  after[Len(steps)]
=============================================================================
