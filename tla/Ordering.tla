------------------------------ MODULE Ordering ------------------------------
(***************************************************************************)
(* The numbers of a set in their order: the places of a log, or of a       *)
(* list, at which a pass over it finds what it looks for (store.py reads   *)
(* lines of a kind, senser.py perceptions that are triggers).              *)
(***************************************************************************)
EXTENDS Integers, FiniteSets

(* How many of the numbers in S are not after i.                           *)
Rank(S, i) == Cardinality({j \in S : j <= i})

(* The elements of S upwards.                                              *)
Upwards(S) == [k \in 1..Cardinality(S) |-> CHOOSE i \in S : Rank(S, i) = k]

(* What a sequence holds at some places, in their order.                   *)
Picked(s, places) ==
    LET order == Upwards(places) IN [k \in DOMAIN order |-> s[order[k]]]
=============================================================================
