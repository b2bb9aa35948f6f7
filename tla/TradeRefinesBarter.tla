------------------------- MODULE TradeRefinesBarter -------------------------
(***************************************************************************)
(* A trade window of MapleTrade implements Barter: what a player owns is   *)
(* the inventory and what was taken out of it into the current trade.      *)
(***************************************************************************)
EXTENDS Trade

Owned  == [c \in Players |-> Holding(c)]
Tabled == [c \in Players |-> Offer(c)]

Dealing == [c \in Players |->
    IF trade[c] = Null THEN Null
    ELSE IF partner[trade[c]] = Null THEN Null ELSE chr[partner[trade[c]]]]

Agreed == [c \in Players |-> IF trade[c] = Null THEN FALSE ELSE locked[trade[c]]]

B == INSTANCE Barter WITH
        People <- Players, Goods <- Items, Kinds <- Restricted,
        Nobody <- Null,
        own <- Owned, offer <- Tabled, with <- Dealing, agreed <- Agreed

(* Every step of the handlers moves items the way a barter does: all of    *)
(* both offers at once after both confirmed, less the restricted doubles   *)
(* that addFromDrop refuses, or back to who offered them.                  *)
ImplementsBarter == B!BSpec
=============================================================================
