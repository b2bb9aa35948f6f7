---------------------------- MODULE MCMapObjects ----------------------------
(* A few threads that fill a map with a handful of ids, two of which       *)
(* characters have, too: the first one and one that wrapping comes back to. *)
EXTENDS MapObjects, TLC

CONSTANTS c0, c2
SomeIds == [c \in {c0, c2} |-> IF c = c0 THEN 0 ELSE 2]
OneId == [c \in {c2} |-> 2]

Symmetric == Permutations(Threads) \cup Permutations(Objects)
=============================================================================
