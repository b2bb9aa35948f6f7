------------------------------- MODULE MCLoot -------------------------------
(* Two sessions and two drops that look alike. *)
EXTENDS Loot, TLC

Symmetric == Permutations(Players) \cup Permutations(Drops)
=============================================================================
