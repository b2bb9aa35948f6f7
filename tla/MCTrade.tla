------------------------------- MODULE MCTrade -------------------------------
(* Small worlds for the trade window. *)
EXTENDS TradeRefinesBarter, TLC

(* Stacks are alike when they are of the same kinds. *)
Alike == {f \in Permutations(Items) :
            \A k \in Restricted \cup {Wearable} : {f[i] : i \in k} = k}
(* Players differ by their level only. *)
Peers == {f \in Permutations(Players) : \A c \in LowLevel : f[c] \in LowLevel}
Symmetric == Alike \cup Permutations(Objs) \cup Peers

CONSTANTS i1, i2, i3
OnlyOne == {{i1, i2}}
NoKinds == {}

NoAmounts == {}

(* An amount that pays a fee, twice of which is above the newbie limit, and *)
(* a negative one.                                                          *)
SomeAmounts == {-50000, 600000}

(* Bounds: at most this much has been paid in fees, that is one or two      *)
(* completed exchanges of each kind, and a trade whose sum has overflowed   *)
(* was settled at most once.                                                *)
FeesPaid == SumFunction([c \in Players |-> (3000000 - purse[c] - MesoOffer(c)) % 50000])
FewFees == FeesPaid <= 10000
FewOverflows == \A c \in Players : mesosTraded[c] >= -1300000
Few == FewFees /\ FewOverflows
=============================================================================
