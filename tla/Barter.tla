------------------------------- MODULE Barter -------------------------------
(***************************************************************************)
(* What a trade window promises about items: goods pass between two        *)
(* players only in one swap of all that both offered, after both agreed;   *)
(* any other end of the deal leaves each with his own.  In a swap a good   *)
(* is spilled only if it is of a kind of which one may have only one, and  *)
(* its new owner has another; what goes back may be spilled for want of    *)
(* room, too.                                                              *)
(***************************************************************************)
CONSTANTS People, Goods, Kinds, Nobody

VARIABLES
    own,      \* the goods each player holds, offered or not
    offer,    \* the part of own that lies on the table
    with,     \* the player each deals with, or Nobody
    agreed    \* who has agreed to the deal

bvars == <<own, offer, with, agreed>>

BInit ==
    /\ own = [c \in People |-> {}]
    /\ offer = [c \in People |-> {}]
    /\ with = [c \in People |-> Nobody]
    /\ agreed = [c \in People |-> FALSE]

Meet(c, d) ==
    /\ c # d
    /\ with[c] = Nobody /\ with[d] = Nobody
    /\ ~agreed[c]
    /\ with' = [with EXCEPT ![c] = d, ![d] = c]
    /\ UNCHANGED <<own, offer, agreed>>

Put(c, g) ==
    /\ g \in own[c]
    /\ offer' = [offer EXCEPT ![c] = @ \cup {g}]
    /\ UNCHANGED <<own, with, agreed>>

Agree(c) ==
    /\ with[c] # Nobody
    /\ ~agreed[with[c]]
    /\ agreed' = [agreed EXCEPT ![c] = TRUE]
    /\ UNCHANGED <<own, offer, with>>

(* The deal between c and d is over, and the table is cleared. *)
Over(c, d) ==
    /\ offer' = [e \in People |-> IF e \in {c, d} THEN {} ELSE offer[e]]
    /\ with' = [e \in People |-> IF e \in {c, d} THEN Nobody ELSE with[e]]
    /\ agreed' = [e \in People |-> IF e \in {c, d} THEN FALSE ELSE agreed[e]]

Swap(c, d) ==
    /\ with[c] = d /\ with[d] = c
    /\ agreed[d]
    /\ \E spilled \in SUBSET (offer[c] \cup offer[d]) :
         /\ own' = [own EXCEPT
               ![c] = (@ \ offer[c]) \cup (offer[d] \ spilled),
               ![d] = (@ \ offer[d]) \cup (offer[c] \ spilled)]
         /\ \A g \in spilled : \E k \in Kinds :
               /\ g \in k
               /\ k \cap own'[IF g \in offer[c] THEN d ELSE c] # {}
    /\ Over(c, d)

(* Without a partner d is c itself. *)
Part(c, d) ==
    /\ d = IF with[c] = Nobody THEN c ELSE with[c]
    /\ \E spilled \in SUBSET (offer[c] \cup offer[d]) :
         own' = [e \in People |-> IF e \in {c, d} THEN own[e] \ (spilled \cap offer[e])
                                                 ELSE own[e]]
    /\ Over(c, d)

Gain(c, g) ==
    /\ \A d \in People : g \notin own[d]
    /\ own' = [own EXCEPT ![c] = @ \cup {g}]
    /\ UNCHANGED <<offer, with, agreed>>

Lose(c, g) ==
    /\ g \in own[c] \ offer[c]
    /\ own' = [own EXCEPT ![c] = @ \ {g}]
    /\ UNCHANGED <<offer, with, agreed>>

BNext ==
    \/ \E c, d \in People : Meet(c, d) \/ Swap(c, d) \/ Part(c, d)
    \/ \E c \in People : Agree(c)
    \/ \E c \in People, g \in Goods : Put(c, g) \/ Gain(c, g) \/ Lose(c, g)

BSpec == BInit /\ [][BNext]_bvars
=============================================================================
