-------------------------------- MODULE Trade --------------------------------
(***************************************************************************)
(* server.MapleTrade: the trade window of two players, driven by the       *)
(* handlers of PlayerInteractionHandler.  A MapleTrade is an object: it    *)
(* survives as long as some character or some other trade refers to it, so *)
(* trades are members of Objs with fields, and chr.trade and trade.partner *)
(* are references.                                                         *)
(*                                                                         *)
(* A handler is one step: this is what happens when the two sessions are   *)
(* served by one I/O processor, whose handlers run one after the other.    *)
(* An item is a stack that fills a slot of its owner's bag, the inventory  *)
(* tab in question, unless it is equipment the owner wears.                *)
(***************************************************************************)
EXTENDS Integers, FiniteSets, Functions

CONSTANTS
    Players,      \* the characters standing on one map
    Items,        \* the item stacks of the world
    Objs,         \* identities of MapleTrade objects
    Null,         \* Java's null
    Restricted,   \* the kinds of which nobody picks up a second stack,
                  \* each the set of its stacks (info/only of the item data)
    Wearable,     \* the stacks that are equipment
    Capacity,     \* slots of a bag
    MaxInt,       \* the largest value of a Java int
    Amounts,      \* the meso amounts a client enters
    LowLevel,     \* the players under level 15
    WealthBound   \* bound: no meso is earned by a player who owns this much

ASSUME ConstantsOK ==
    /\ Null \notin Players \cup Items \cup Objs
    /\ IsFiniteSet(Items)
    /\ Restricted \subseteq SUBSET Items
    /\ Wearable \subseteq Items
    /\ Capacity \in Nat
    /\ MaxInt \in Nat
    /\ Amounts \subseteq Int
    /\ LowLevel \subseteq Players
    /\ WealthBound \in Nat

(* What the mesos of all are added up over. *)
ASSUME FinitelyMany == IsFiniteSet(Players) /\ IsFiniteSet(Objs)

VARIABLES
    online,       \* players whose character is on the map
    trade,        \* MapleCharacter.trade
    chr,          \* MapleTrade.chr (Null: object never created)
    partner,      \* MapleTrade.partner
    items,        \* MapleTrade.items: what was taken out of the inventory
    meso,         \* MapleTrade.meso: what was taken out of the purse
    locked,       \* MapleTrade.locked
    inv,          \* the stacks of each player, in the bag or worn
    worn,         \* the stacks of inv that are worn
    purse,        \* MapleCharacter.meso
    mesosTraded,  \* MapleCharacter.mesosTraded
    ground        \* stacks in nobody's hands: on the map, or in those of an
                  \* NPC or a shop

objects == <<chr, partner, items, meso, locked>>
vars == <<online, trade, objects, inv, worn, purse, mesosTraded, ground>>

NewbieLimit == 1000000

(* The tiers of getFee.  Math.round of .06, .03 and .018 times meso rounds *)
(* half up.                                                                *)
Fee(m) ==
    IF m >= 100000000 THEN (m \div 100) * 6 + ((m % 100) * 6 + 50) \div 100
    ELSE IF m >= 25000000 THEN m \div 20
    ELSE IF m >= 10000000 THEN m \div 25
    ELSE IF m >= 5000000 THEN (m * 3 + 50) \div 100
    ELSE IF m >= 1000000 THEN (m * 18 + 500) \div 1000
    ELSE IF m >= 100000 THEN m \div 125
    ELSE 0

(* int addition, for operands that are not both negative *)
Wrap(n) == IF n > MaxInt THEN n - 2 * (MaxInt + 1) ELSE n

(* gainMeso of a positive gain: a sum that overflows is negative, and the  *)
(* gain is then dropped without a word.  Callers test gain > 0 first.      *)
Credit(balance, gain) ==
    IF gain > 0 /\ balance + gain <= MaxInt THEN balance + gain ELSE balance

Bag(c) == inv[c] \ worn
Room(c) == Capacity - Cardinality(Bag(c))

(* S holds another stack of a restricted kind that i is of. *)
Double(i, S) == \E k \in Restricted : i \in k /\ k \cap (S \ {i}) # {}

(* addFromDrop of each stack in turn, in the order the list happens to     *)
(* have: a stack of a restricted kind stays only if its player has no      *)
(* other, and any stack only if a slot is free.  The callers ignore the    *)
(* result, so that a stack which does not stay is gone.                    *)
Stored(c, stacks) ==
    {kept \in SUBSET stacks :
        /\ Cardinality(kept) <= Room(c)
        /\ \A i \in kept : ~Double(i, inv[c] \cup kept)
        /\ \A i \in stacks \ kept :
              Cardinality(kept) = Room(c) \/ Double(i, inv[c] \cup kept)}

(* Mutant: the margin of isFull is off by one. *)
FitsOffByOne(c, stacks) == stacks = {} \/ Cardinality(stacks) <= Room(c) + 1

(* fitsInInventory: one slot for each stack to be received *)
Fits(c, stacks) == stacks = {} \/ Cardinality(stacks) <= Room(c)

(* Mutants of setMeso's test of the amount: see MayAdd. *)
MayAddNegative(c, m) == purse[c] >= m
MayAddOnCredit(c, m) == m >= 0

(* setMeso ignores a negative amount and one the purse does not hold. *)
MayAdd(c, m) == m >= 0 /\ purse[c] >= m

(* Mutant: the fee is not taken. *)
GrossMeso(t) == meso[t]

(* What complete2 credits for the mesos of the other side's trade t. *)
NetMeso(t) == meso[t] - Fee(meso[t])

(* Mutants: the lock is taken for granted, or read before it is set. *)
ConfirmedAlways(t) == TRUE
ConfirmedNever(t) == FALSE

Confirmed(t) == locked[t]

Live == {trade[c] : c \in Players} \ {Null}
Fresh(t) == t \notin Live /\ \A u \in Live : partner[u] # t

Init ==
    /\ online = Players
    /\ trade = [c \in Players |-> Null]
    /\ chr = [t \in Objs |-> Null]
    /\ partner = [t \in Objs |-> Null]
    /\ items = [t \in Objs |-> {}]
    /\ meso = [t \in Objs |-> 0]
    /\ locked = [t \in Objs |-> FALSE]
    /\ inv = [c \in Players |-> {}]
    /\ worn = {}
    /\ purse = [c \in Players |-> 0]
    /\ mesosTraded = [c \in Players |-> 0]
    /\ ground = Items
-----------------------------------------------------------------------------
(* c.setTrade(new MapleTrade(number, c)): a new object is any identity      *)
(* nothing refers to; the caller sets its partner.                         *)
NewTrade(t, c) ==
    /\ Fresh(t)
    /\ chr' = [chr EXCEPT ![t] = c]
    /\ items' = [items EXCEPT ![t] = {}]
    /\ meso' = [meso EXCEPT ![t] = 0]
    /\ locked' = [locked EXCEPT ![t] = FALSE]
    /\ trade' = [trade EXCEPT ![c] = t]

StartTrade(c) ==
    /\ trade[c] = Null
    /\ \E t \in Objs :
         /\ NewTrade(t, c)
         /\ partner' = [partner EXCEPT ![t] = Null]
    /\ UNCHANGED <<online, inv, worn, purse, mesosTraded, ground>>

(* Player c receives stacks S and m mesos, player d stacks T and n mesos;  *)
(* d is c, and T empty, when there is nobody else.                         *)
Deliver(c, S, m, d, T, n) ==
    /\ \E kc \in Stored(c, S), kd \in Stored(d, T) :
         inv' = [e \in Players |-> inv[e] \cup (IF e = c THEN kc ELSE {})
                                         \cup (IF e = d THEN kd ELSE {})]
    /\ purse' = [e \in Players |-> IF e = c THEN Credit(purse[e], m)
                                   ELSE IF e = d THEN Credit(purse[e], n)
                                   ELSE purse[e]]

(* Mutants: one of the trades, or its mesos, are not reset. *)
EmptyOne(t, u) ==
    /\ items' = [items EXCEPT ![u] = {}]
    /\ meso' = [meso EXCEPT ![t] = 0, ![u] = 0]
EmptyItems(t, u) ==
    /\ items' = [items EXCEPT ![t] = {}, ![u] = {}]
    /\ meso' = meso

Empty(t, u) ==
    /\ items' = [items EXCEPT ![t] = {}, ![u] = {}]
    /\ meso' = [meso EXCEPT ![t] = 0, ![u] = 0]

(* Mutant: only one of the characters is told. *)
ForgetOne(c, d) == trade' = [trade EXCEPT ![c] = Null]

(* setTrade(null) of both *)
Forget(c, d) == trade' = [trade EXCEPT ![c] = Null, ![d] = Null]

(* cancel() of trade t, which belongs to c, and of trade u, which belongs  *)
(* to d; both characters then have no trade.                               *)
CancelBoth(c, t, d, u) ==
    /\ Deliver(c, items[t], meso[t], d, items[u], meso[u])
    /\ Empty(t, u)
    /\ Forget(c, d)
    /\ UNCHANGED <<chr, partner, worn, ground>>

CancelAlone(c, t) ==
    /\ Deliver(c, items[t], meso[t], c, {}, 0)
    /\ Empty(t, t)
    /\ Forget(c, c)
    /\ UNCHANGED <<chr, partner, worn, ground>>

CancelTrade(c) ==
    LET t == trade[c]
        p == partner[t]
    IN  IF p = Null THEN CancelAlone(c, t) ELSE CancelBoth(c, t, chr[p], p)

ExitTrade(c) == CancelTrade(c) /\ UNCHANGED <<online, mesosTraded, locked>>

(* inviteTrade: the invited player gets a trade at once, before accepting; *)
(* a locked trade does not change partners.                                *)
InviteTrade(c1, c2) ==
    \/ /\ trade[c2] = Null
       /\ \E t \in Objs :
            /\ NewTrade(t, c2)
            /\ partner' = [partner EXCEPT
                  ![t] = trade[c1],
                  ![trade[c1]] = IF locked[trade[c1]] THEN @ ELSE t]
       /\ UNCHANGED <<online, inv, worn, purse, mesosTraded, ground>>
    \/ /\ trade[c2] # Null
       /\ ExitTrade(c1)

(* declineTrade differs from cancelTrade in what it cancels on the other   *)
(* side: that character's current trade.                                   *)
DeclineTrade(c) ==
    LET t == trade[c]
        p == partner[t]
    IN  /\ IF p = Null THEN CancelAlone(c, t)
           ELSE CancelBoth(c, t, chr[p], trade[chr[p]])
        /\ UNCHANGED <<online, mesosTraded, locked>>

(* setMeso throws when locked.  The amounts put in a trade add up.         *)
SetMeso(c, m) ==
    LET t == trade[c] IN
    /\ ~locked[t]
    /\ MayAdd(c, m)
    /\ purse' = [purse EXCEPT ![c] = @ - m]
    /\ meso' = [meso EXCEPT ![t] = Wrap(@ + m)]
    /\ UNCHANGED <<online, trade, chr, partner, items, locked, inv, worn,
                   mesosTraded, ground>>

(* SET_ITEMS: the stack leaves the bag and enters the trade, locked or     *)
(* not.                                                                    *)
AddItem(c, i) ==
    /\ i \in Bag(c)
    /\ inv' = [inv EXCEPT ![c] = @ \ {i}]
    /\ items' = [items EXCEPT ![trade[c]] = @ \cup {i}]
    /\ UNCHANGED <<online, trade, chr, partner, meso, locked, worn, purse,
                   mesosTraded, ground>>

(* completeTrade by c, whose trade t meets the partner's trade p.  The     *)
(* first to confirm only waits.                                            *)
ConfirmFirst(p) ==
    /\ ~Confirmed(p)
    /\ UNCHANGED <<trade, chr, partner, items, meso, inv, worn, purse,
                   mesosTraded, ground>>

(* Only the second to confirm is held to the limit of a low level.         *)
OverLimit(c, p) ==
    /\ c \in LowLevel
    /\ Wrap(mesosTraded[c] + meso[p]) > NewbieLimit

ConfirmRefused(c, p) ==
    /\ Confirmed(p)
    /\ \/ ~Fits(c, items[p])
       \/ ~Fits(chr[p], items[partner[p]])
       \/ OverLimit(c, p)
    /\ CancelTrade(c)
    /\ UNCHANGED mesosTraded

(* complete1 of both, then complete2 of both: each side gets what the      *)
(* other's trade holds, the mesos less the fee.                            *)
Exchange(c, t, p) ==
    LET d == chr[p]
        q == partner[p]
    IN  /\ Confirmed(p)
        /\ Fits(c, items[p]) /\ Fits(d, items[q])
        /\ ~OverLimit(c, p)
        /\ Deliver(c, items[p], NetMeso(p), d, items[q], NetMeso(q))
        /\ Empty(t, p)
        /\ Forget(c, d)
        /\ mesosTraded' = [mesosTraded EXCEPT
              ![c] = IF c \in LowLevel THEN Wrap(@ + meso[p]) ELSE @]
        /\ UNCHANGED <<chr, partner, worn, ground>>

CompleteTrade(c) ==
    LET t == trade[c]
        p == partner[t]
    IN  /\ locked' = [locked EXCEPT ![t] = TRUE]
        /\ \/ ConfirmFirst(p)
           \/ ConfirmRefused(c, p)
           \/ Exchange(c, t, p)
        /\ UNCHANGED online

(* The connection closes or the player changes channel: the trade is       *)
(* cancelled and the character object goes away.  mesosTraded is not       *)
(* saved: a character that comes back starts from zero.                    *)
Leave(c) ==
    /\ \/ trade[c] # Null /\ CancelTrade(c)
       \/ /\ trade[c] = Null
          /\ UNCHANGED <<trade, objects, inv, worn, purse, ground>>
    /\ online' = online \ {c}
    /\ UNCHANGED <<locked, mesosTraded>>

Enter(c) ==
    /\ online' = online \cup {c}
    /\ mesosTraded' = [mesosTraded EXCEPT ![c] = 0]
    /\ UNCHANGED <<trade, objects, inv, worn, purse, ground>>

(* What else moves items and mesos while a trade is open. *)
TakeFromGround(c, i) ==
    /\ i \in ground
    /\ Room(c) > 0
    /\ ground' = ground \ {i}
    /\ inv' = [inv EXCEPT ![c] = @ \cup {i}]
    /\ UNCHANGED <<online, trade, objects, worn, purse, mesosTraded>>

PickUp(c, i) == ~Double(i, inv[c]) /\ TakeFromGround(c, i)

(* addById, by which an NPC, a quest or a shop gives a stack, does not ask *)
(* for doubles.                                                            *)
Receive(c, i) == TakeFromGround(c, i)

Drop(c, i) ==
    /\ i \in inv[c]
    /\ inv' = [inv EXCEPT ![c] = @ \ {i}]
    /\ worn' = worn \ {i}
    /\ ground' = ground \cup {i}
    /\ UNCHANGED <<online, trade, objects, purse, mesosTraded>>

(* What was worn in the same place goes to the bag, and so does what       *)
(* cannot be worn beside i, if there is a free slot for it.                *)
Equip(c, i) ==
    /\ i \in Bag(c) \cap Wearable
    /\ \E off \in SUBSET (inv[c] \cap worn) :
         /\ Cardinality(off) <= IF Room(c) > 0 THEN 2 ELSE 1
         /\ worn' = (worn \ off) \cup {i}
    /\ UNCHANGED <<online, trade, objects, inv, purse, mesosTraded, ground>>

Unequip(c, i) ==
    /\ i \in inv[c] \cap worn
    /\ Room(c) > 0
    /\ worn' = worn \ {i}
    /\ UNCHANGED <<online, trade, objects, inv, purse, mesosTraded, ground>>

EarnMeso(c, m) ==
    /\ m > 0
    /\ purse[c] < WealthBound
    /\ purse' = [purse EXCEPT ![c] = Credit(@, m)]
    /\ UNCHANGED <<online, trade, objects, inv, worn, mesosTraded, ground>>

(* The game client opens a window for each trade: it invites only from a   *)
(* window it has opened and in which nobody sits yet, puts things only in  *)
(* an open window, and confirms only once a partner sits in it.            *)
InWindow(c) == c \in online /\ trade[c] # Null
Alone(c) == InWindow(c) /\ partner[trade[c]] = Null
Paired(c) == InWindow(c) /\ partner[trade[c]] # Null

Next ==
    \/ \E c \in online : StartTrade(c)
    \/ \E c1 \in online : \E c2 \in online \ {c1} :
         Alone(c1) /\ InviteTrade(c1, c2)
    \/ \E c \in online : InWindow(c) /\ DeclineTrade(c)
    \/ \E c \in online : InWindow(c) /\ ExitTrade(c)
    \/ \E c \in online : \E m \in Amounts : InWindow(c) /\ SetMeso(c, m)
    \/ \E c \in online : \E i \in Items : InWindow(c) /\ AddItem(c, i)
    \/ \E c \in online : Paired(c) /\ CompleteTrade(c)
    \/ \E c \in online : Leave(c)
    \/ \E c \in Players \ online : Enter(c)
    \/ \E c \in online, i \in Items : PickUp(c, i)
    \/ \E c \in online, i \in Items : Receive(c, i)
    \/ \E c \in online, i \in Items : Drop(c, i)
    \/ \E c \in online, i \in Items : Equip(c, i)
    \/ \E c \in online, i \in Items : Unequip(c, i)
    \/ \E c \in online, m \in Amounts : EarnMeso(c, m)

Spec == Init /\ [][Next]_vars
-----------------------------------------------------------------------------
Offer(c) == IF trade[c] = Null THEN {} ELSE items[trade[c]]
MesoOffer(c) == IF trade[c] = Null THEN 0 ELSE meso[trade[c]]
Holding(c) == inv[c] \cup Offer(c)
Facing(c, d) ==
    /\ trade[c] # Null /\ trade[d] # Null /\ c # d
    /\ partner[trade[c]] = trade[d]
Somewhere(i) == i \in ground \/ \E c \in Players : i \in Holding(c)

TypeOK ==
    /\ online \subseteq Players
    /\ trade \in [Players -> Objs \cup {Null}]
    /\ chr \in [Objs -> Players \cup {Null}]
    /\ partner \in [Objs -> Objs \cup {Null}]
    /\ items \in [Objs -> SUBSET Items]
    /\ meso \in [Objs -> Int]
    /\ locked \in [Objs -> BOOLEAN]
    /\ inv \in [Players -> SUBSET Items]
    /\ worn \subseteq Items
    /\ purse \in [Players -> 0 .. MaxInt]
    /\ mesosTraded \in [Players -> Int]
    /\ ground \subseteq Items

(* The references of a trade are mutual and current: whatever cancel,      *)
(* decline or complete reach through partner and chr is the trade that the *)
(* other character is in now, not one it has left.                         *)
PartnersAgree ==
    \A c \in Players : trade[c] # Null =>
        LET t == trade[c]
            p == partner[t]
        IN  /\ c \in online
            /\ chr[t] = c
            /\ p # Null => /\ p # t
                           /\ partner[p] = t
                           /\ chr[p] # Null
                           /\ trade[chr[p]] = p

(* What a player put in a trade is never stranded in a trade object no     *)
(* character refers to any more.                                           *)
NothingStranded ==
    \A t \in Objs : t \notin Live => items[t] = {} /\ meso[t] = 0

(* Nobody has confirmed a trade with himself: a partner that comes in      *)
(* later could not be linked to a locked trade.                            *)
LockedHasPartner ==
    \A t \in Live : locked[t] => partner[t] # Null

(* A stack is never in two places: no sequence of invitations, cancels,    *)
(* declines and confirms duplicates an item.                               *)
NoDuplicate ==
    /\ \A c, d \in Players : c # d => inv[c] \cap inv[d] = {}
    /\ \A t, u \in Objs : t # u => items[t] \cap items[u] = {}
    /\ \A c \in Players, t \in Objs : inv[c] \cap items[t] = {}
    /\ \A c \in Players : inv[c] \cap ground = {}
    /\ \A t \in Objs : items[t] \cap ground = {}
    /\ worn \cap ground = {} /\ \A t \in Objs : worn \cap items[t] = {}

(* Two partners never wait on each other, both confirmed: the second       *)
(* confirm always ends the trade.                                          *)
NeverBothConfirmed ==
    \A t \in Live :
        partner[t] # Null => ~(locked[t] /\ locked[partner[t]])

(* While a trade lasts its offer only grows, so that a player who has      *)
(* confirmed never receives less than what the window showed (sums that    *)
(* overflow an int excepted).                                              *)
OfferOnlyGrows ==
    [][\A c \in Players :
        (trade[c] # Null /\ trade'[c] = trade[c]) =>
            /\ Offer(c) \subseteq Offer(c)'
            /\ \/ MesoOffer(c)' >= MesoOffer(c)
               \/ MesoOffer(c) + purse[c] > MaxInt]_vars

(* Trading destroys a stack in two cases only: the deal is off, and the    *)
(* bag of the owner has filled up meanwhile; or the stack is of a          *)
(* restricted kind of which the player who gets it, the owner or the       *)
(* partner, ends up with another one.  When anything has changed hands,    *)
(* nothing was lost for want of room.                                      *)
ChangedHands(c, d) == inv'[c] \cap Offer(d) # {} \/ inv'[d] \cap Offer(c) # {}
LostOnlyFullOrDouble ==
    [][\A i \in Items :
        (Somewhere(i) /\ ~Somewhere(i)') =>
            \E c \in Players :
                /\ i \in Offer(c)
                /\ trade'[c] = Null
                /\ \/ /\ Cardinality(Bag(c)') = Capacity
                      /\ \A d \in Players : Facing(c, d) => ~ChangedHands(c, d)
                   \/ \E d \in Players :
                        (d = c \/ Facing(c, d)) /\ Double(i, inv'[d])]_vars

(* When the trade of two facing players ends, either both take back their  *)
(* own mesos or each gets the other's less the fee, as long as both sums   *)
(* fit an int.                                                             *)
MesoSettled ==
    [][\A c, d \in Players :
        (/\ Facing(c, d)
         /\ trade'[c] = Null
         /\ \A a, b \in {c, d} : purse[a] + MesoOffer(b) <= MaxInt
         /\ \A a \in {c, d} : MesoOffer(a) >= 0) =>
            LET Net(b) == MesoOffer(b) - Fee(MesoOffer(b)) IN
            /\ trade'[d] = Null
            /\ \/ /\ purse'[c] = purse[c] + MesoOffer(c)
                  /\ purse'[d] = purse[d] + MesoOffer(d)
               \/ /\ locked[trade[c]] \/ locked[trade[d]]
                  /\ purse'[c] = purse[c] + Net(d)
                  /\ purse'[d] = purse[d] + Net(c)]_vars

(* Purses and trades together never gain a meso except by earning it, as   *)
(* long as no trade's sum has overflowed.                                  *)
Wealth == SumFunction(purse) + SumFunction(meso)
NoMesoFromNothing ==
    [][(Wealth' > Wealth /\ \A t \in Objs : meso[t] >= 0) =>
            UNCHANGED <<trade, objects, inv, worn, ground>>]_vars

(* The packet TRADE_MONEY_LIMIT stands for the rule that players under     *)
(* level 15 can only trade 1m per day.  completeTrade applies it to the    *)
(* player who confirms second and never to the other one.                  *)
NewbieLimitKept ==
    [][\A c \in LowLevel :
        (trade[c] # Null /\ trade'[c] = Null) =>
            purse'[c] - purse[c] - MesoOffer(c) <= NewbieLimit]_vars
=============================================================================
