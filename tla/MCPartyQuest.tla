---------------------------- MODULE MCPartyQuest ----------------------------
(* Two parties of a few players, with room for two instances. *)
EXTENDS PartyQuest, TLC

CONSTANTS k1, k2, p1, p2, p3

TwoAndOne == k1 :> {p1, p2} @@ k2 :> {p3}
FirstLeaders == k1 :> p1 @@ k2 :> p3

(* Instances differ only by the order in which they are made. *)
AnyInst == Permutations(Inst)
=============================================================================
