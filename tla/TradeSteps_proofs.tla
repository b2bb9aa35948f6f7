-------------------------- MODULE TradeSteps_proofs --------------------------
(***************************************************************************)
(* What a step of the trade window may do, for any number of players,      *)
(* items and trade objects: it is a step of Barter or leaves Barter's view *)
(* alone, and the action properties of Trade.                              *)
(***************************************************************************)
EXTENDS TradeRefinesBarter, Trade_proofs, FiniteSetTheorems, WellFoundedInduction

(* What of a trade another player's step leaves alone. *)
Same(e) ==
    /\ trade'[e] = trade[e]
    /\ trade[e] # Null =>
         /\ items'[trade[e]] = items[trade[e]]
         /\ meso'[trade[e]] = meso[trade[e]]
         /\ partner'[trade[e]] = partner[trade[e]]
         /\ locked'[trade[e]] = locked[trade[e]]
         /\ partner[trade[e]] # Null => chr'[partner[trade[e]]] = chr[partner[trade[e]]]

(* Barter's view of a state is made of functions of the players. *)
LEMMA Views ==
    /\ Owned = [e \in Players |-> Owned[e]] /\ Owned' = [e \in Players |-> Owned'[e]]
    /\ Tabled = [e \in Players |-> Tabled[e]] /\ Tabled' = [e \in Players |-> Tabled'[e]]
    /\ Dealing = [e \in Players |-> Dealing[e]] /\ Dealing' = [e \in Players |-> Dealing'[e]]
    /\ Agreed = [e \in Players |-> Agreed[e]] /\ Agreed' = [e \in Players |-> Agreed'[e]]
BY DEF Owned, Tabled, Dealing, Agreed

LEMMA OwnedIs ==
    /\ \A e \in Players : Owned[e] = inv[e] \cup Tabled[e]
    /\ \A e \in Players : Owned'[e] = inv'[e] \cup Tabled'[e]
BY DEF Owned, Holding, Tabled, Offer

(* Whom a step leaves alone Barter sees unchanged. *)
LEMMA SameView ==
    ASSUME NEW e \in Players, Same(e)
    PROVE  /\ Tabled'[e] = Tabled[e]
           /\ Dealing'[e] = Dealing[e]
           /\ Agreed'[e] = Agreed[e]
           /\ inv'[e] = inv[e] => Owned'[e] = Owned[e]
BY DEF Owned, Holding, Tabled, Offer, Same, Dealing, Agreed

(* A trade that ends is over for both who face each other in it: each has  *)
(* what the delivery left him, and an empty table.                         *)
Ended(c, t, d, u) ==
    /\ c \in Players /\ d \in Players
    /\ d = IF Dealing[c] = Null THEN c ELSE Dealing[c]
    /\ c # d => Dealing[c] = d /\ Dealing[d] = c
    /\ trade'[c] = Null /\ trade'[d] = Null
    /\ Tabled[c] = items[t] /\ Tabled[d] = items[u]
    /\ Tabled'[c] = {} /\ Tabled'[d] = {}
    /\ Dealing'[c] = Null /\ Dealing'[d] = Null
    /\ Agreed'[c] = FALSE /\ Agreed'[d] = FALSE
    /\ \A e \in Players \ {c, d} : Same(e)

LEMMA EndView ==
    ASSUME IInv, NEW c, NEW t, NEW d, NEW u, Ends(c, t, d, u),
           Empty(t, u), Forget(c, d),
           UNCHANGED <<chr, partner, worn, ground>>,
           \A o \in Objs : o # t => locked'[o] = locked[o]
    PROVE  Ended(c, t, d, u)
<1> USE ConstantsOK
<1>0. /\ c \in Players /\ d \in Players /\ t \in Objs /\ u \in Objs
      /\ t = trade[c] /\ u = trade[d] /\ t # Null /\ u # Null
  BY DEF Ends, IInv, TypeOK
<1>1. trade'[c] = Null /\ trade'[d] = Null
  BY <1>0 DEF Forget, IInv, TypeOK
<1>2. /\ chr[t] = c /\ chr[u] = d
      /\ c = d => partner[t] = Null
      /\ c # d => partner[t] = u /\ partner[u] = t
  BY <1>0 DEF Ends, IInv, PartnersAgree
<1>3. ASSUME NEW e \in Players \ {c, d} PROVE Same(e)
  <2>1. trade'[e] = trade[e]
    BY <1>0 DEF Forget, IInv, TypeOK
  <2>2. trade[e] # Null => trade[e] \notin {t, u} /\ trade[e] \in Objs
    BY <1>0, TradeOwner DEF IInv, TypeOK
  <2>3. \A o \in Objs : o \notin {t, u} =>
            items'[o] = items[o] /\ meso'[o] = meso[o] /\ locked'[o] = locked[o]
    BY <1>0 DEF Empty, IInv, TypeOK
  <2> QED BY <2>1, <2>2, <2>3 DEF Same
<1>4. /\ d = IF Dealing[c] = Null THEN c ELSE Dealing[c]
      /\ c # d => Dealing[c] = d /\ Dealing[d] = c
  BY <1>0, <1>2 DEF Dealing
<1>5. /\ Tabled[c] = items[t] /\ Tabled[d] = items[u]
      /\ Tabled'[c] = {} /\ Tabled'[d] = {}
      /\ Dealing'[c] = Null /\ Dealing'[d] = Null
      /\ Agreed'[c] = FALSE /\ Agreed'[d] = FALSE
  BY <1>0, <1>1 DEF Tabled, Offer, Dealing, Agreed
<1> QED BY <1>0, <1>1, <1>3, <1>4, <1>5 DEF Ended

-----------------------------------------------------------------------------
(* The deal is over for the two, and goes on for everybody else. *)
LEMMA OverView ==
    ASSUME NEW c, NEW t, NEW d, NEW u, Ended(c, t, d, u)
    PROVE  B!Over(c, d)
<1>1. /\ Tabled'[c] = {} /\ Tabled'[d] = {}
      /\ Dealing'[c] = Null /\ Dealing'[d] = Null
      /\ Agreed'[c] = FALSE /\ Agreed'[d] = FALSE
  BY DEF Ended
<1>2. \A e \in Players \ {c, d} : /\ Tabled'[e] = Tabled[e] /\ Dealing'[e] = Dealing[e]
                                /\ Agreed'[e] = Agreed[e]
  BY SameView DEF Ended
<1> QED
  BY <1>1, <1>2, Views DEF B!Over

(* When a trade is cancelled, each of the two takes back of his own goods  *)
(* what there is room for: they part.                                      *)
LEMMA PartView ==
    ASSUME IInv, NEW c, NEW t, NEW d, NEW u, Ends(c, t, d, u),
           NEW T, T = IF c = d THEN {} ELSE items[u],
           NEW m, NEW n, Deliver(c, items[t], m, d, T, n),
           Empty(t, u), Forget(c, d),
           UNCHANGED <<chr, partner, worn, ground>>,
           \A o \in Objs : o # t => locked'[o] = locked[o]
    PROVE  B!Part(c, d)
<1> USE ConstantsOK
<1>e. Ended(c, t, d, u)
  BY EndView
<1>0. /\ c \in Players /\ d \in Players
      /\ d = IF Dealing[c] = Null THEN c ELSE Dealing[c]
      /\ trade'[c] = Null /\ trade'[d] = Null
      /\ Tabled[c] = items[t] /\ Tabled[d] = items[u]
      /\ Tabled'[c] = {} /\ Tabled'[d] = {}
      /\ Dealing'[c] = Null /\ Dealing'[d] = Null
      /\ Agreed'[c] = FALSE /\ Agreed'[d] = FALSE
      /\ \A e \in Players \ {c, d} : Same(e)
  BY <1>e DEF Ended
<1>1. t \in Objs /\ u \in Objs
  BY <1>0 DEF Ends, IInv, TypeOK
<1>2. PICK kc \in Stored(c, items[t]), kd \in Stored(d, T) :
        inv' = [e \in Players |-> inv[e] \cup (IF e = c THEN kc ELSE {})
                                        \cup (IF e = d THEN kd ELSE {})]
  BY DEF Deliver
<1>3. kc \subseteq items[t] /\ kd \subseteq T
  BY StoredSubset
<1>4. \A e \in Players \ {c, d} :
        /\ Tabled'[e] = Tabled[e] /\ Dealing'[e] = Dealing[e]
        /\ Agreed'[e] = Agreed[e] /\ Owned'[e] = Owned[e]
  <2> SUFFICES ASSUME NEW e \in Players \ {c, d}
               PROVE  /\ Tabled'[e] = Tabled[e] /\ Dealing'[e] = Dealing[e]
                      /\ Agreed'[e] = Agreed[e] /\ Owned'[e] = Owned[e]
    OBVIOUS
  <2>1. inv'[e] = inv[e]
    BY <1>0, <1>2 DEF IInv, TypeOK
  <2> QED BY <1>0, <2>1, SameView
<1>5. /\ inv[c] \cap items[t] = {} /\ inv[d] \cap items[u] = {}
      /\ c # d => items[t] \cap items[u] = {}
  BY <1>0, <1>1 DEF Ends, IInv, NoDuplicate
<1> DEFINE s == (items[t] \ kc) \cup (T \ kd)
<1>6. s \in SUBSET (Tabled[c] \cup Tabled[d])
  BY <1>0
<1>7. /\ Owned'[c] = Owned[c] \ (s \cap Tabled[c])
      /\ Owned'[d] = Owned[d] \ (s \cap Tabled[d])
  <2>1. CASE c = d
    <3>1. inv'[c] = inv[c] \cup kc
      BY <1>0, <1>2, <1>3, <2>1
    <3>2. T = {} /\ kd = {}
      BY <1>3, <2>1
    <3>3. inv[c] \cup kc = (inv[c] \cup items[t]) \ (s \cap items[t])
      BY <1>3, <1>5, <3>2
    <3> HIDE DEF s
    <3> QED BY <1>0, <2>1, <3>1, <3>3, OwnedIs
  <2>2. CASE c # d
    <3>1. inv'[c] = inv[c] \cup kc /\ inv'[d] = inv[d] \cup kd
      BY <1>0, <1>2, <2>2
    <3>2. /\ inv[c] \cup kc = (inv[c] \cup items[t]) \ (s \cap items[t])
          /\ inv[d] \cup kd = (inv[d] \cup items[u]) \ (s \cap items[u])
      BY <1>3, <1>5, <2>2
    <3> HIDE DEF s
    <3> QED BY <1>0, <3>1, <3>2, OwnedIs
  <2> QED BY <2>1, <2>2
<1> HIDE DEF s
<1>8. Owned' = [e \in Players |-> IF e \in {c, d} THEN Owned[e] \ (s \cap Tabled[e])
                                                 ELSE Owned[e]]
  BY <1>0, <1>4, <1>7, Views
<1>9. B!Over(c, d)
  BY <1>e, OverView
<1>10. d = IF Dealing[c] = Null THEN c ELSE Dealing[c]
  BY <1>0
<1> QED
  BY <1>6, <1>8, <1>9, <1>10 DEF B!Part

(* The trades of c and d end, and both take back what is their own. *)
Cancelled(c, d) ==
    LET t == trade[c]
        u == trade[d]
    IN  /\ Ends(c, t, d, u)
        /\ Deliver(c, items[t], meso[t], d, IF c = d THEN {} ELSE items[u],
                                           IF c = d THEN 0 ELSE meso[u])
        /\ Empty(t, u) /\ Forget(c, d) /\ UNCHANGED <<chr, partner, worn, ground>>
        /\ \A o \in Objs : o # t => locked'[o] = locked[o]

(* cancelTrade, whoever calls it, cancels the trades of two players who    *)
(* face each other, or of one who faces nobody.                            *)
LEMMA CancelIs ==
    ASSUME IInv, NEW c \in Players, trade[c] # Null, CancelTrade(c),
           \A o \in Objs : o # trade[c] => locked'[o] = locked[o]
    PROVE  \E d \in Players : Cancelled(c, d)
<1> DEFINE t == trade[c]
           p == partner[t]
<1>0. t \in Objs /\ p \in Objs \cup {Null}
  BY DEF IInv, TypeOK
<1>1. CASE p = Null
  <2>1. CancelAlone(c, t)
    BY <1>1 DEF CancelTrade
  <2>2. Ends(c, t, c, t)
    BY <1>0, <1>1 DEF Ends
  <2>3. Cancelled(c, c)
    BY <2>1, <2>2 DEF Cancelled, CancelAlone
  <2> QED BY <2>3
<1>2. CASE p # Null
  <2> DEFINE d == chr[p]
  <2>1. CancelBoth(c, t, d, p)
    BY <1>2 DEF CancelTrade
  <2>2. /\ p # t /\ partner[p] = t /\ d \in Players /\ trade[d] = p
        /\ chr[t] = c /\ p \in Objs
    BY <1>0, <1>2 DEF IInv, PartnersAgree, TypeOK
  <2>3. Ends(c, t, d, p) /\ c # d
    BY <1>2, <2>2 DEF Ends
  <2>4. Cancelled(c, d)
    BY <2>1, <2>2, <2>3 DEF Cancelled, CancelBoth
  <2> QED BY <2>2, <2>4
<1> QED
  BY <1>1, <1>2

(* It is a Part of Barter. *)
LEMMA CancelledView ==
    ASSUME IInv, NEW c \in Players, NEW d \in Players, Cancelled(c, d)
    PROVE  B!Part(c, d)
<1> DEFINE t == trade[c]
           u == trade[d]
           T == IF c = d THEN {} ELSE items[u]
           n == IF c = d THEN 0 ELSE meso[u]
<1>1. /\ Ends(c, t, d, u) /\ Deliver(c, items[t], meso[t], d, T, n)
      /\ Empty(t, u) /\ Forget(c, d) /\ UNCHANGED <<chr, partner, worn, ground>>
      /\ \A o \in Objs : o # t => locked'[o] = locked[o]
      /\ T = IF c = d THEN {} ELSE items[u]
  BY DEF Cancelled
<1> HIDE DEF t, u, T, n
<1> QED
  BY <1>1, PartView

LEMMA CancelView ==
    ASSUME IInv, NEW c \in Players, trade[c] # Null, CancelTrade(c),
           \A o \in Objs : o # trade[c] => locked'[o] = locked[o]
    PROVE  \E d \in Players : B!Part(c, d)
BY CancelIs, CancelledView

(* What fits is stored but for the doubles. *)
LEMMA StoredFits ==
    ASSUME NEW c, NEW S, NEW k \in Stored(c, S), IsFiniteSet(S), Room(c) \in Int,
           Fits(c, S), NEW i \in S \ k
    PROVE  Double(i, inv[c] \cup k)
<1>1. k \subseteq S /\ k # S
  BY DEF Stored
<1>2. /\ Cardinality(k) \in Nat /\ Cardinality(S) \in Nat
      /\ Cardinality(k) <= Cardinality(S) /\ Cardinality(k) # Cardinality(S)
  BY <1>1, FS_Subset, FS_CardinalityType
<1>3. Cardinality(S) <= Room(c)
  BY DEF Fits
<1>4. Cardinality(k) # Room(c)
  BY <1>2, <1>3
<1> QED
  BY <1>4 DEF Stored

(* An exchange gives each the whole offer of the other, but for stacks of  *)
(* which he ends up with another: they swap.                               *)
LEMMA SwapView ==
    ASSUME IInv, NEW c, NEW t, NEW d, NEW u, Ends(c, t, d, u), c # d,
           locked[u], Fits(c, items[u]), Fits(d, items[t]),
           NEW m, NEW n, Deliver(c, items[u], m, d, items[t], n),
           Empty(t, u), Forget(c, d),
           UNCHANGED <<chr, partner, worn, ground>>,
           \A o \in Objs : o # t => locked'[o] = locked[o]
    PROVE  B!Swap(c, d)
<1> USE ConstantsOK
<1>e. Ended(c, t, d, u)
  BY EndView
<1>0. /\ c \in Players /\ d \in Players
      /\ Dealing[c] = d /\ Dealing[d] = c
      /\ trade'[c] = Null /\ trade'[d] = Null
      /\ Tabled[c] = items[t] /\ Tabled[d] = items[u]
      /\ Tabled'[c] = {} /\ Tabled'[d] = {}
      /\ Dealing'[c] = Null /\ Dealing'[d] = Null
      /\ Agreed'[c] = FALSE /\ Agreed'[d] = FALSE
      /\ \A e \in Players \ {c, d} : Same(e)
  BY <1>e DEF Ended
<1>1. t \in Objs /\ u \in Objs /\ Agreed[d]
  BY <1>0 DEF Ends, IInv, TypeOK, Agreed
<1>2. PICK kc \in Stored(c, items[u]), kd \in Stored(d, items[t]) :
        inv' = [e \in Players |-> inv[e] \cup (IF e = c THEN kc ELSE {})
                                        \cup (IF e = d THEN kd ELSE {})]
  BY DEF Deliver
<1>3. /\ \A i \in items[u] \ kc : Double(i, inv[c] \cup kc)
      /\ \A i \in items[t] \ kd : Double(i, inv[d] \cup kd)
  <2>1. \A S \in SUBSET Items : IsFiniteSet(S)
    BY FS_Subset
  <2>2. \A e \in Players : Room(e) \in Int
    <3>1. \A e \in Players : Bag(e) \in SUBSET Items
      BY DEF Bag, IInv, TypeOK
    <3> QED BY <2>1, <3>1, FS_CardinalityType DEF Room
  <2>3. /\ IsFiniteSet(items[t]) /\ IsFiniteSet(items[u])
        /\ Room(c) \in Int /\ Room(d) \in Int
    BY <1>0, <1>1, <2>1, <2>2 DEF IInv, TypeOK
  <2> QED BY <2>3, StoredFits
<1>4. /\ inv'[c] = inv[c] \cup kc /\ inv'[d] = inv[d] \cup kd
      /\ kc \subseteq items[u] /\ kd \subseteq items[t]
  BY <1>0, <1>2, StoredSubset DEF IInv, TypeOK
<1>5. /\ Owned'[c] = inv[c] \cup kc
      /\ Owned'[d] = inv[d] \cup kd
  BY <1>0, <1>4, OwnedIs
<1>6. \A e \in Players \ {c, d} :
        /\ Tabled'[e] = Tabled[e] /\ Dealing'[e] = Dealing[e]
        /\ Agreed'[e] = Agreed[e] /\ Owned'[e] = Owned[e]
  <2> SUFFICES ASSUME NEW e \in Players \ {c, d}
               PROVE  /\ Tabled'[e] = Tabled[e] /\ Dealing'[e] = Dealing[e]
                      /\ Agreed'[e] = Agreed[e] /\ Owned'[e] = Owned[e]
    OBVIOUS
  <2>1. inv'[e] = inv[e]
    BY <1>0, <1>2 DEF IInv, TypeOK
  <2> QED BY <1>0, <2>1, SameView
<1>7. /\ inv[c] \cap items[t] = {} /\ inv[d] \cap items[u] = {}
      /\ items[t] \cap items[u] = {}
  BY <1>0, <1>1 DEF IInv, NoDuplicate, Ends
<1> DEFINE spilled == (items[u] \ kc) \cup (items[t] \ kd)
<1>8. /\ Owned'[c] = (Owned[c] \ Tabled[c]) \cup (Tabled[d] \ spilled)
      /\ Owned'[d] = (Owned[d] \ Tabled[d]) \cup (Tabled[c] \ spilled)
  <2>1. items[u] \ spilled = kc /\ items[t] \ spilled = kd
    BY <1>4, <1>7
  <2>2. /\ (inv[c] \cup items[t]) \ items[t] = inv[c]
        /\ (inv[d] \cup items[u]) \ items[u] = inv[d]
    BY <1>7
  <2> HIDE DEF spilled
  <2> QED BY <1>0, <1>5, <2>1, <2>2, OwnedIs
<1>9. B!Over(c, d)
  BY <1>e, OverView
<1>10. Owned' =
         [Owned EXCEPT ![c] = (@ \ Tabled[c]) \cup (Tabled[d] \ spilled),
                       ![d] = (@ \ Tabled[d]) \cup (Tabled[c] \ spilled)]
  <2> HIDE DEF spilled
  <2> QED BY <1>0, <1>6, <1>8, Views
<1>11. ASSUME NEW g \in spilled
       PROVE  \E k \in Restricted :
                g \in k /\ k \cap Owned'[IF g \in Tabled[c] THEN d ELSE c] # {}
  <2>1. CASE g \in items[t]
    <3>1. Double(g, inv[d] \cup kd)
      BY <1>3, <1>7, <2>1
    <3> QED BY <1>0, <1>5, <2>1, <3>1 DEF Double
  <2>2. CASE g \notin items[t]
    <3>1. Double(g, inv[c] \cup kc)
      BY <1>3, <2>2
    <3> QED BY <1>0, <1>5, <2>2, <3>1 DEF Double
  <2> QED BY <2>1, <2>2
<1>12. spilled \in SUBSET (Tabled[c] \cup Tabled[d])
  BY <1>0
<1> HIDE DEF spilled
<1> QED
  BY <1>0, <1>1, <1>9, <1>10, <1>11, <1>12 DEF B!Swap

(* The trades of c and d end, and each gets what the other offered. *)
Exchanged(c, d) ==
    LET t == trade[c]
        u == trade[d]
    IN  /\ Ends(c, t, d, u) /\ c # d
        /\ locked[u] /\ Fits(c, items[u]) /\ Fits(d, items[t])
        /\ Deliver(c, items[u], NetMeso(u), d, items[t], NetMeso(t))
        /\ Empty(t, u) /\ Forget(c, d) /\ UNCHANGED <<chr, partner, worn, ground>>
        /\ \A o \in Objs : o # t => locked'[o] = locked[o]

(* completeTrade leaves all as it is but the lock, cancels, or exchanges. *)
LEMMA CompleteIs ==
    ASSUME IInv, NEW c \in online, Paired(c), CompleteTrade(c)
    PROVE  \/ /\ UNCHANGED <<trade, chr, partner, items, meso, inv, ground>>
              /\ locked' = [locked EXCEPT ![trade[c]] = TRUE]
              /\ ~locked[partner[trade[c]]]
           \/ \E d \in Players : Cancelled(c, d) \/ Exchanged(c, d)
<1> DEFINE t == trade[c]
           p == partner[t]
           d == chr[p]
<1>0. /\ c \in Players /\ t # Null /\ t \in Objs /\ p # Null /\ p \in Objs
      /\ p # t /\ partner[p] = t /\ d \in Players /\ trade[d] = p /\ chr[t] = c
      /\ c # d
  BY DEF Paired, InWindow, IInv, TypeOK, PartnersAgree
<1>1. /\ locked' = [locked EXCEPT ![t] = TRUE]
      /\ \A o \in Objs : o # t => locked'[o] = locked[o]
  BY <1>0 DEF CompleteTrade, IInv, TypeOK
<1>2. CASE ConfirmFirst(p)
  BY <1>1, <1>2 DEF ConfirmFirst, Confirmed
<1>3. CASE ConfirmRefused(c, p)
  BY <1>0, <1>1, <1>3, CancelIs DEF ConfirmRefused
<1>4. CASE Exchange(c, t, p)
  <2>1. /\ Deliver(c, items[p], NetMeso(p), d, items[t], NetMeso(t))
        /\ Empty(t, p) /\ Forget(c, d) /\ UNCHANGED <<chr, partner, worn, ground>>
        /\ locked[p] /\ Fits(c, items[p]) /\ Fits(d, items[t])
    BY <1>0, <1>4 DEF Exchange, Confirmed
  <2>2. Ends(c, t, d, p)
    BY <1>0 DEF Ends
  <2>3. Exchanged(c, d)
    BY <1>0, <1>1, <2>1, <2>2 DEF Exchanged
  <2> QED BY <1>0, <2>3
<1> QED
  BY <1>2, <1>3, <1>4 DEF CompleteTrade

(* completeTrade: the first confirm agrees, a refused one parts, the       *)
(* second swaps.                                                           *)
LEMMA CompleteView ==
    ASSUME IInv, NEW c \in online, Paired(c), CompleteTrade(c)
    PROVE  \/ B!Agree(c)
           \/ \E d \in Players : B!Part(c, d) \/ B!Swap(c, d)
<1> DEFINE t == trade[c]
           p == partner[t]
<1>0. /\ c \in Players /\ t # Null /\ t \in Objs /\ p # Null /\ p \in Objs
      /\ chr[p] \in Players /\ trade[chr[p]] = p
  BY DEF Paired, InWindow, IInv, TypeOK, PartnersAgree
<1>2. ASSUME UNCHANGED <<trade, chr, partner, items, meso, inv, ground>>,
             locked' = [locked EXCEPT ![t] = TRUE],
             ~locked[p]
      PROVE  B!Agree(c)
  <2>1. /\ locked'[t] = TRUE
        /\ \A o \in Objs : o # t => locked'[o] = locked[o]
    BY <1>0, <1>2 DEF IInv, TypeOK
  <2>2. Dealing[c] = chr[p] /\ chr[p] # Null /\ ~Agreed[chr[p]]
    BY <1>0, <1>2, ConstantsOK DEF Dealing, Agreed
  <2>3. Owned' = Owned /\ Tabled' = Tabled /\ Dealing' = Dealing
    BY <1>2 DEF Owned, Holding, Tabled, Offer, Dealing
  <2>4. ASSUME NEW e \in Players
        PROVE  Agreed'[e] = IF e = c THEN TRUE ELSE Agreed[e]
    <3>1. CASE e = c
      BY <1>0, <1>2, <2>1, <3>1 DEF Agreed
    <3>2. CASE e # c
      <4>1. trade[e] # Null => trade[e] \in Objs /\ trade[e] # t
        BY <1>0, <3>2, TradeOwner DEF IInv, TypeOK
      <4> QED BY <1>2, <2>1, <3>2, <4>1 DEF Agreed
    <3> QED BY <3>1, <3>2
  <2>5. Agreed' = [Agreed EXCEPT ![c] = TRUE]
    BY <2>4, Views
  <2> QED
    BY <2>2, <2>3, <2>5 DEF B!Agree
<1>3. ASSUME NEW d \in Players, Cancelled(c, d) PROVE B!Part(c, d)
  BY <1>0, <1>3, CancelledView
<1>4. ASSUME NEW d \in Players, Exchanged(c, d) PROVE B!Swap(c, d)
  <2> DEFINE v == trade[d]
             m == NetMeso(v)
             n == NetMeso(t)
  <2>1. /\ Ends(c, t, d, v) /\ c # d
        /\ locked[v] /\ Fits(c, items[v]) /\ Fits(d, items[t])
        /\ Deliver(c, items[v], m, d, items[t], n)
        /\ Empty(t, v) /\ Forget(c, d) /\ UNCHANGED <<chr, partner, worn, ground>>
        /\ \A o \in Objs : o # t => locked'[o] = locked[o]
    BY <1>4 DEF Exchanged
  <2> HIDE DEF t, v, m, n
  <2> QED BY <2>1, SwapView
<1> QED
  BY <1>2, <1>3, <1>4, CompleteIs

(* A new trade without a partner is not seen by Barter; one that is linked *)
(* to another is a meeting.                                                *)
LEMMA NewTradeView ==
    ASSUME IInv, NEW c \in Players, NEW t \in Objs, NEW b \in Live \cup {Null},
           trade[c] = Null, NewTrade(t, c),
           b # Null => partner[b] = Null /\ ~locked[b],
           partner' = [o \in Objs |-> IF o = t THEN b
                                      ELSE IF o = b THEN t ELSE partner[o]],
           UNCHANGED inv
    PROVE  /\ b = Null => UNCHANGED B!bvars
           /\ b # Null => B!Meet(chr[b], c)
<1> USE ConstantsOK
<1>0. /\ t # Null /\ t \notin Live /\ b # t /\ Live \subseteq Objs
      /\ \A u \in Live : partner[u] # t
  BY DEF IInv, TypeOK, NewTrade, Fresh, Live
<1>1. /\ trade'[c] = t
      /\ \A e \in Players : e # c => trade'[e] = trade[e]
      /\ \A o \in Objs : o # t => /\ chr'[o] = chr[o] /\ items'[o] = items[o]
                                  /\ meso'[o] = meso[o] /\ locked'[o] = locked[o]
      /\ chr'[t] = c /\ items'[t] = {} /\ ~locked'[t]
  BY <1>0 DEF NewTrade, IInv, TypeOK
<1>2. ASSUME NEW e \in Players, e # c, trade[e] # b \/ b = Null
      PROVE  Same(e)
  <2>1. trade[e] # Null => /\ trade[e] \in Live /\ trade[e] \in Objs /\ trade[e] # t
                           /\ partner[trade[e]] # t
                           /\ partner[trade[e]] \in Objs \cup {Null}
    BY <1>0 DEF Live, IInv, TypeOK
  <2> QED
    BY <1>1, <1>2, <2>1 DEF Same
<1>3. Tabled[c] = {} /\ Tabled'[c] = {} /\ Dealing[c] = Null /\ Agreed[c] = FALSE /\ Agreed'[c] = FALSE
  BY <1>0, <1>1 DEF Tabled, Offer, Dealing, Agreed
<1>4. Owned'[c] = Owned[c]
  BY <1>3, OwnedIs
<1>5. ASSUME b = Null PROVE UNCHANGED B!bvars
  <2>1. Dealing'[c] = Null
    BY <1>0, <1>1, <1>5 DEF Dealing
  <2>2. \A e \in Players : /\ Tabled'[e] = Tabled[e] /\ Dealing'[e] = Dealing[e]
                           /\ Agreed'[e] = Agreed[e] /\ Owned'[e] = Owned[e]
    <3> SUFFICES ASSUME NEW e \in Players, e # c
                 PROVE  /\ Tabled'[e] = Tabled[e] /\ Dealing'[e] = Dealing[e]
                        /\ Agreed'[e] = Agreed[e] /\ Owned'[e] = Owned[e]
      BY <1>3, <1>4, <2>1 DEF Agreed
    <3> QED BY <1>2, <1>5, SameView
  <2> QED
    BY <2>2, Views DEF B!bvars
<1>6. ASSUME b # Null PROVE B!Meet(chr[b], c)
  <2> DEFINE f == chr[b]
  <2>1. /\ b \in Objs /\ f \in Players /\ trade[f] = b /\ f # c
        /\ partner[b] = Null /\ ~locked[b]
    BY <1>0, <1>6 DEF Live, IInv, TypeOK, PartnersAgree
  <2>2. /\ Dealing[f] = Null /\ Agreed[f] = FALSE /\ Agreed'[f] = FALSE
        /\ Tabled'[f] = Tabled[f]
    BY <1>0, <1>1, <1>6, <2>1 DEF Tabled, Offer, Dealing, Agreed
  <2>3. Dealing'[f] = c /\ Dealing'[c] = f
    BY <1>0, <1>1, <1>6, <2>1 DEF Dealing
  <2>4. \A e \in Players \ {c, f} :
          /\ Tabled'[e] = Tabled[e] /\ Dealing'[e] = Dealing[e]
          /\ Agreed'[e] = Agreed[e] /\ Owned'[e] = Owned[e]
    <3> SUFFICES ASSUME NEW e \in Players \ {c, f}
                 PROVE  /\ Tabled'[e] = Tabled[e] /\ Dealing'[e] = Dealing[e]
                        /\ Agreed'[e] = Agreed[e] /\ Owned'[e] = Owned[e]
      OBVIOUS
    <3>1. trade[e] # b
      BY <1>6, <2>1, TradeOwner DEF IInv
    <3> QED BY <1>2, <3>1, SameView
  <2>5. Owned'[f] = Owned[f]
    BY <2>1, <2>2, OwnedIs
  <2>6. Dealing' =
          [Dealing EXCEPT ![f] = c, ![c] = f]
    BY <2>1, <2>3, <2>4, Views
  <2>7. /\ Owned' = Owned
        /\ Tabled' = Tabled
        /\ Agreed' = Agreed
    <3>1. \A e \in Players : Owned'[e] = Owned[e] /\ Tabled'[e] = Tabled[e]
      BY <1>3, <1>4, <2>2, <2>4, <2>5
    <3>2. Agreed'[c] = Agreed[c] /\ Agreed'[f] = Agreed[f]
      BY <1>3, <2>2
    <3> QED BY <2>4, <3>1, <3>2, Views
  <2> QED
    BY <1>3, <2>1, <2>2, <2>6, <2>7 DEF B!Meet
<1> QED
  BY <1>5, <1>6


-----------------------------------------------------------------------------
(* The steps that move items or mesos under open windows. *)
LEMMA MoveView ==
    ASSUME IInv, NEW c \in Players
    PROVE  /\ \A m \in Amounts : SetMeso(c, m) \/ EarnMeso(c, m) => UNCHANGED B!bvars
           /\ \A i \in Items : /\ InWindow(c) /\ AddItem(c, i) => B!Put(c, i)
                               /\ PickUp(c, i) \/ Receive(c, i) => B!Gain(c, i)
                               /\ Drop(c, i) => B!Lose(c, i)
                               /\ Equip(c, i) \/ Unequip(c, i) => UNCHANGED B!bvars
<1> USE ConstantsOK
<1>1. ASSUME UNCHANGED <<trade, chr, partner, locked>>
      PROVE  /\ Dealing' = Dealing
             /\ Agreed' = Agreed
  BY <1>1 DEF Dealing, Agreed
<1>2. ASSUME UNCHANGED <<trade, items>>
      PROVE  Tabled' = Tabled
  BY <1>2 DEF Tabled, Offer
<1>3. ASSUME NEW m \in Amounts, SetMeso(c, m) \/ EarnMeso(c, m)
      PROVE  UNCHANGED B!bvars
  <2>1. UNCHANGED <<trade, chr, partner, locked, items, inv>>
    BY <1>3 DEF SetMeso, EarnMeso, objects
  <2>2. Owned' = Owned
    BY <2>1 DEF Owned, Holding, Tabled, Offer
  <2> QED BY <1>1, <1>2, <2>1, <2>2 DEF B!bvars
<1>4. ASSUME NEW i \in Items, InWindow(c), AddItem(c, i) PROVE B!Put(c, i)
  <2>1. /\ UNCHANGED <<trade, chr, partner, locked>>
        /\ i \in inv[c] /\ inv' = [inv EXCEPT ![c] = @ \ {i}]
        /\ items' = [items EXCEPT ![trade[c]] = @ \cup {i}]
    BY <1>4 DEF AddItem, Bag
  <2>2. trade[c] # Null /\ trade[c] \in Objs
    BY <1>4 DEF InWindow, IInv, TypeOK
  <2>3. \A e \in Players : Tabled'[e] = IF e = c THEN Tabled[e] \cup {i} ELSE Tabled[e]
    <3>1. \A e \in Players : e # c /\ trade[e] # Null =>
              trade[e] \in Objs /\ trade[e] # trade[c]
      BY TradeOwner DEF IInv, TypeOK
    <3> QED BY <2>1, <2>2, <3>1 DEF Tabled, Offer, IInv, TypeOK
  <2>4. \A e \in Players : Owned'[e] = Owned[e]
    <3>1. \A e \in Players : inv'[e] = IF e = c THEN inv[e] \ {i} ELSE inv[e]
      BY <2>1 DEF IInv, TypeOK
    <3>2. (inv[c] \ {i}) \cup (Tabled[c] \cup {i}) = inv[c] \cup Tabled[c]
      BY <2>1
    <3> QED BY <2>3, <3>1, <3>2, OwnedIs
  <2>5. Tabled' =
          [Tabled EXCEPT ![c] = @ \cup {i}]
    BY <2>3, Views
  <2>6. i \in Owned[c]
    BY <2>1, OwnedIs
  <2>7. Owned' = Owned
    BY <2>4, Views
  <2> QED
    BY <1>1, <2>1, <2>5, <2>6, <2>7 DEF B!Put
<1>5. ASSUME NEW i \in Items, PickUp(c, i) \/ Receive(c, i) PROVE B!Gain(c, i)
  <2>1. /\ UNCHANGED <<trade, chr, partner, locked, items>>
        /\ i \in ground /\ inv' = [inv EXCEPT ![c] = @ \cup {i}]
    BY <1>5 DEF PickUp, Receive, TakeFromGround, objects
  <2>2. \A e \in Players : i \notin Owned[e]
    BY <2>1 DEF Owned, Holding, Tabled, Offer, IInv, NoDuplicate, TypeOK
  <2>3. Owned' =
          [Owned EXCEPT ![c] = @ \cup {i}]
    <3>0. Tabled' = Tabled
      BY <1>2, <2>1
    <3>1. \A e \in Players : inv'[e] = IF e = c THEN inv[e] \cup {i} ELSE inv[e]
      BY <2>1 DEF IInv, TypeOK
    <3>2. (inv[c] \cup {i}) \cup Tabled[c] = (inv[c] \cup Tabled[c]) \cup {i}
      OBVIOUS
    <3>3. \A e \in Players : Owned'[e] = IF e = c THEN Owned[e] \cup {i} ELSE Owned[e]
      BY <3>0, <3>1, <3>2, OwnedIs
    <3> QED BY <3>3, Views
  <2> QED
    BY <1>1, <1>2, <2>1, <2>2, <2>3 DEF B!Gain
<1>6. ASSUME NEW i \in Items, Drop(c, i) PROVE B!Lose(c, i)
  <2>1. /\ UNCHANGED <<trade, chr, partner, locked, items>>
        /\ i \in inv[c] /\ inv' = [inv EXCEPT ![c] = @ \ {i}]
    BY <1>6 DEF Drop, objects
  <2>2. i \in Owned[c] \ Tabled[c]
    BY <2>1 DEF Owned, Holding, Tabled, Offer, IInv, NoDuplicate, TypeOK
  <2>3. Owned' =
          [Owned EXCEPT ![c] = @ \ {i}]
    <3>0. Tabled' = Tabled
      BY <1>2, <2>1
    <3>1. \A e \in Players : inv'[e] = IF e = c THEN inv[e] \ {i} ELSE inv[e]
      BY <2>1 DEF IInv, TypeOK
    <3>2. (inv[c] \ {i}) \cup Tabled[c] = (inv[c] \cup Tabled[c]) \ {i}
      BY <2>2
    <3>3. \A e \in Players : Owned'[e] = IF e = c THEN Owned[e] \ {i} ELSE Owned[e]
      BY <3>0, <3>1, <3>2, OwnedIs
    <3> QED BY <3>3, Views
  <2> QED
    BY <1>1, <1>2, <2>1, <2>2, <2>3 DEF B!Lose
<1>7. ASSUME NEW i \in Items, Equip(c, i) \/ Unequip(c, i) PROVE UNCHANGED B!bvars
  <2>1. UNCHANGED <<trade, chr, partner, locked, items, inv>>
    BY <1>7 DEF Equip, Unequip, objects
  <2>2. Owned' = Owned
    BY <2>1 DEF Owned, Holding, Tabled, Offer
  <2> QED BY <1>1, <1>2, <2>1, <2>2 DEF B!bvars
<1> QED
  BY <1>3, <1>4, <1>5, <1>6, <1>7

(* Every step of the trade window is one of Barter, or Barter sees nothing. *)
LEMMA StepView == IInv /\ [Next]_vars => [B!BNext]_(B!bvars)
<1> SUFFICES ASSUME IInv, [Next]_vars PROVE B!BNext \/ UNCHANGED B!bvars
  OBVIOUS
<1> USE ConstantsOK
<1>0. online \subseteq Players
  BY DEF IInv, TypeOK
<1>1. ASSUME NEW c \in online, StartTrade(c) PROVE UNCHANGED B!bvars
  <2>1. PICK t \in Objs : NewTrade(t, c) /\ partner' = [partner EXCEPT ![t] = Null]
    BY <1>1 DEF StartTrade
  <2>2. partner' = [o \in Objs |-> IF o = t THEN Null
                                   ELSE IF o = Null THEN t ELSE partner[o]]
    <3>1. t \in Objs /\ Null \notin Objs /\ partner \in [Objs -> Objs \cup {Null}]
      BY DEF IInv, TypeOK
    <3>2. partner' = [o \in Objs |-> IF o = t THEN Null ELSE partner[o]]
      BY <2>1, <3>1
    <3> QED BY <3>1, <3>2, Zenon
  <2>3. trade[c] = Null /\ UNCHANGED inv /\ c \in Players
    BY <1>0, <1>1 DEF StartTrade
  <2> QED
    BY <2>1, <2>2, <2>3, NewTradeView
<1>2. ASSUME NEW c1 \in online, NEW c2 \in online \ {c1},
             Alone(c1), InviteTrade(c1, c2)
      PROVE  B!BNext
  <2> DEFINE b == trade[c1]
  <2>0. /\ c1 \in Players /\ c2 \in Players /\ b # Null /\ b \in Live /\ b \in Objs
        /\ partner[b] = Null /\ ~locked[b] /\ chr[b] = c1
    BY <1>0, <1>2 DEF Alone, InWindow, IInv, TypeOK, Live, LockedHasPartner, PartnersAgree
  <2>1. CASE trade[c2] # Null
    <3>1. CancelTrade(c1) /\ UNCHANGED locked
      BY <1>2, <2>1 DEF InviteTrade, ExitTrade
    <3> QED BY <2>0, <3>1, CancelView DEF B!BNext
  <2>2. CASE trade[c2] = Null
    <3>1. PICK t \in Objs :
            /\ NewTrade(t, c2)
            /\ partner' = [partner EXCEPT ![t] = b, ![b] = IF locked[b] THEN @ ELSE t]
      BY <1>2, <2>2 DEF InviteTrade
    <3>2. t # b
      BY <2>0, <3>1 DEF NewTrade, Fresh
    <3>3. partner' = [o \in Objs |-> IF o = t THEN b
                                     ELSE IF o = b THEN t ELSE partner[o]]
      BY <2>0, <3>1, <3>2 DEF IInv, TypeOK
    <3>4. UNCHANGED inv
      BY <1>2, <2>2 DEF InviteTrade
    <3> HIDE DEF b
    <3>5. B!Meet(chr[b], c2)
      BY <2>0, <2>2, <3>1, <3>3, <3>4, NewTradeView
    <3> QED BY <2>0, <3>5 DEF B!BNext
  <2> QED BY <2>1, <2>2
<1>3. ASSUME NEW c \in online, InWindow(c), DeclineTrade(c) \/ ExitTrade(c)
      PROVE  B!BNext
  <2>1. c \in Players /\ trade[c] # Null
    BY <1>0, <1>3 DEF InWindow
  <2>2. CancelTrade(c) /\ UNCHANGED locked
    BY <1>3, <2>1, DeclineIsCancel DEF ExitTrade
  <2> QED BY <2>1, <2>2, CancelView DEF B!BNext
<1>4. ASSUME NEW c \in online, Paired(c), CompleteTrade(c) PROVE B!BNext
  BY <1>0, <1>4, CompleteView DEF B!BNext
<1>5. ASSUME NEW c \in online, Leave(c) PROVE B!BNext \/ UNCHANGED B!bvars
  <2>1. CASE trade[c] # Null
    BY <1>0, <1>5, <2>1, CancelView DEF Leave, B!BNext
  <2>2. CASE trade[c] = Null
    <3>1. UNCHANGED <<trade, chr, partner, items, locked, inv>>
      BY <1>5, <2>2 DEF Leave, objects
    <3> QED BY <3>1 DEF Owned, Holding, Tabled, Offer, B!bvars, Dealing, Agreed
  <2> QED BY <2>1, <2>2
<1>6. ASSUME NEW c \in Players \ online, Enter(c) PROVE UNCHANGED B!bvars
  <2>1. UNCHANGED <<trade, chr, partner, items, locked, inv>>
    BY <1>6 DEF Enter, objects
  <2> QED BY <2>1 DEF Owned, Holding, Tabled, Offer, B!bvars, Dealing, Agreed
<1>7. ASSUME NEW c \in online, NEW m \in Amounts,
             \/ InWindow(c) /\ SetMeso(c, m)
             \/ EarnMeso(c, m)
      PROVE UNCHANGED B!bvars
  BY <1>0, <1>7, MoveView
<1>8. ASSUME NEW c \in online, NEW i \in Items,
             \/ InWindow(c) /\ AddItem(c, i)
             \/ PickUp(c, i) \/ Receive(c, i)
             \/ Drop(c, i)
             \/ Equip(c, i) \/ Unequip(c, i)
      PROVE B!BNext \/ UNCHANGED B!bvars
  <2>1. c \in Players
    BY <1>0
  <2>2. B!Put(c, i) \/ B!Gain(c, i) \/ B!Lose(c, i) \/ UNCHANGED B!bvars
    BY <1>8, <2>1, MoveView
  <2> QED BY <2>1, <2>2 DEF B!BNext
<1>9. CASE UNCHANGED vars
  <2>1. UNCHANGED <<trade, chr, partner, items, locked, inv>>
    BY <1>9 DEF vars, objects
  <2> QED BY <2>1 DEF Owned, Holding, Tabled, Offer, B!bvars, Dealing, Agreed
<1> QED
  BY <1>1, <1>2, <1>3, <1>4, <1>5, <1>6, <1>7, <1>8, <1>9 DEF Next

(* The trade window implements Barter: whatever invitations, declines,     *)
(* disconnects and confirms came before, goods pass only in one swap of    *)
(* all that both offered, after the other side had confirmed.              *)
THEOREM TradeIsBarter == Spec => ImplementsBarter
<1>1. Init => B!BInit
  BY ConstantsOK DEF Owned, Holding, Tabled, Offer, Init, B!BInit, Dealing, Agreed
<1> QED
  BY <1>1, Inductive, StepView, PTL DEF Spec, ImplementsBarter, B!BSpec

-----------------------------------------------------------------------------
(* The steps that go on with every trade: offers grow, and no stack of the *)
(* world is lost.                                                          *)
GoesOn ==
    /\ \A e \in Players : trade[e] # Null =>
         /\ trade'[e] = trade[e]
         /\ items[trade[e]] \subseteq items'[trade[e]]
         /\ \/ meso'[trade[e]] >= meso[trade[e]]
            \/ meso[trade[e]] + purse[e] > MaxInt
    /\ \A i \in Items : Somewhere(i) => Somewhere(i)'

(* So does a step that leaves trades and inventories alone. *)
LEMMA NothingGoesOn ==
    ASSUME IInv, UNCHANGED <<trade, items, meso, inv, ground>>
    PROVE  GoesOn
<1>1. \A e \in Players : trade[e] # Null => meso[trade[e]] \in Int
  BY DEF IInv, TypeOK
<1>2. \A i \in Items : Somewhere(i) => Somewhere(i)'
  BY DEF Somewhere, Holding, Offer
<1> QED
  BY <1>1, <1>2 DEF GoesOn

(* So does a new trade. *)
LEMMA NewTradeGoesOn ==
    ASSUME IInv, NEW c \in Players, NEW t \in Objs, trade[c] = Null,
           NewTrade(t, c), UNCHANGED <<inv, ground>>
    PROVE  GoesOn
<1> USE ConstantsOK
<1>1. /\ t # Null /\ trade'[c] = t
      /\ \A e \in Players : e # c => trade'[e] = trade[e]
      /\ \A o \in Objs : o # t => items'[o] = items[o] /\ meso'[o] = meso[o]
  BY DEF NewTrade, IInv, TypeOK
<1>2. \A e \in Players : trade[e] # Null =>
        /\ e # c /\ trade[e] \in Objs /\ trade[e] # t /\ meso[trade[e]] \in Int
  BY DEF NewTrade, Fresh, Live, IInv, TypeOK
<1>3. \A e \in Players : trade[e] # Null =>
        /\ trade'[e] = trade[e]
        /\ items'[trade[e]] = items[trade[e]] /\ meso'[trade[e]] = meso[trade[e]]
  BY <1>1, <1>2
<1>4. ASSUME NEW i \in Items, Somewhere(i) PROVE Somewhere(i)'
  <2>1. \A e \in Players : Holding(e) \subseteq Holding(e)'
    BY <1>3 DEF Holding, Offer
  <2> QED BY <1>4, <2>1 DEF Somewhere
<1> QED
  BY <1>2, <1>3, <1>4 DEF GoesOn

(* So do the steps that move items or mesos under open windows. *)
LEMMA MoveGoesOn ==
    ASSUME IInv, NEW c \in Players,
           \/ \E m \in Amounts : InWindow(c) /\ SetMeso(c, m)
           \/ \E i \in Items : InWindow(c) /\ AddItem(c, i)
           \/ \E i \in Items : PickUp(c, i) \/ Receive(c, i)
           \/ \E i \in Items : Drop(c, i)
           \/ \E i \in Items : Equip(c, i) \/ Unequip(c, i)
           \/ \E m \in Amounts : EarnMeso(c, m)
    PROVE  GoesOn
<1> USE ConstantsOK
<1>0. \A e \in Players : trade[e] # Null => trade[e] \in Objs /\ meso[trade[e]] \in Int
  BY DEF IInv, TypeOK
<1>1. ASSUME NEW m \in Amounts, InWindow(c), SetMeso(c, m) PROVE GoesOn
  <2>1. /\ m \in Int /\ m >= 0 /\ m <= purse[c] /\ purse[c] \in Int
        /\ meso' = [meso EXCEPT ![trade[c]] = Wrap(@ + m)]
        /\ UNCHANGED <<trade, items, inv, ground>> /\ trade[c] # Null
    BY <1>1 DEF SetMeso, MayAdd, InWindow, IInv, TypeOK
  <2>2. \/ meso'[trade[c]] >= meso[trade[c]]
        \/ meso[trade[c]] + purse[c] > MaxInt
    <3>1. meso'[trade[c]] = Wrap(meso[trade[c]] + m)
      BY <1>0, <2>1 DEF IInv, TypeOK
    <3> QED BY <1>0, <2>1, <3>1 DEF Wrap
  <2>3. \A e \in Players : e # c /\ trade[e] # Null => meso'[trade[e]] = meso[trade[e]]
    <3>1. \A e \in Players : e # c /\ trade[e] # Null => trade[e] # trade[c]
      BY TradeOwner DEF IInv
    <3> QED BY <1>0, <2>1, <3>1 DEF IInv, TypeOK
  <2>4. \A i \in Items : Somewhere(i) => Somewhere(i)'
    BY <2>1 DEF Somewhere, Holding, Offer
  <2> QED
    BY <1>0, <2>1, <2>2, <2>3, <2>4 DEF GoesOn
<1>2. ASSUME NEW i \in Items, InWindow(c), AddItem(c, i) PROVE GoesOn
  <2>1. /\ i \in inv[c] /\ inv' = [inv EXCEPT ![c] = @ \ {i}]
        /\ items' = [items EXCEPT ![trade[c]] = @ \cup {i}]
        /\ UNCHANGED <<trade, meso, ground>> /\ trade[c] # Null /\ trade[c] \in Objs
    BY <1>2 DEF AddItem, Bag, InWindow, IInv, TypeOK
  <2>2. /\ \A o \in Objs : items[o] \subseteq items'[o]
        /\ i \in items'[trade[c]]
        /\ \A e \in Players : inv[e] \ {i} \subseteq inv'[e]
    BY <2>1 DEF IInv, TypeOK
  <2>3. ASSUME NEW j \in Items, Somewhere(j) PROVE Somewhere(j)'
    <3>1. \A e \in Players : Holding(e) \ {i} \subseteq Holding(e)'
      BY <1>0, <2>1, <2>2 DEF Holding, Offer
    <3>2. i \in Holding(c)'
      BY <2>1, <2>2 DEF Holding, Offer
    <3> QED BY <2>1, <2>3, <3>1, <3>2 DEF Somewhere
  <2> QED
    BY <1>0, <2>1, <2>2, <2>3 DEF GoesOn
<1>3. ASSUME NEW i \in Items, PickUp(c, i) \/ Receive(c, i) \/ Drop(c, i) PROVE GoesOn
  <2>1. /\ UNCHANGED <<trade, items, meso>>
        /\ \A e \in Players : inv[e] \ {i} \subseteq inv'[e]
        /\ ground \ {i} \subseteq ground'
        /\ i \in ground' \/ i \in inv'[c]
    BY <1>3 DEF PickUp, Receive, TakeFromGround, Drop, objects, IInv, TypeOK
  <2>2. ASSUME NEW j \in Items, Somewhere(j) PROVE Somewhere(j)'
    <3>1. \A e \in Players : /\ Holding(e) \ {i} \subseteq Holding(e)'
                             /\ inv'[e] \subseteq Holding(e)'
      BY <2>1 DEF Holding, Offer
    <3> QED BY <2>1, <2>2, <3>1 DEF Somewhere
  <2> QED
    BY <1>0, <2>1, <2>2 DEF GoesOn
<1>4. ASSUME NEW m \in Amounts, EarnMeso(c, m) PROVE GoesOn
  BY <1>4, NothingGoesOn DEF EarnMeso, objects
<1>5. ASSUME NEW i \in Items, Equip(c, i) \/ Unequip(c, i) PROVE GoesOn
  BY <1>5, NothingGoesOn DEF Equip, Unequip, objects
<1> QED
  BY <1>1, <1>2, <1>3, <1>4, <1>5

(* Every step goes on with all trades, or ends those of two who face each  *)
(* other, or of one who faces nobody.                                      *)
LEMMA StepEnds ==
    ASSUME IInv, [Next]_vars
    PROVE  \/ GoesOn
           \/ \E c, d \in Players : Cancelled(c, d) \/ Exchanged(c, d)
<1> DEFINE Ending == \E c, d \in Players : Cancelled(c, d) \/ Exchanged(c, d)
<1>0. online \subseteq Players
  BY DEF IInv, TypeOK
<1>1. ASSUME NEW c \in online, StartTrade(c) PROVE GoesOn
  BY <1>0, <1>1, NewTradeGoesOn DEF StartTrade
<1>2. ASSUME NEW c1 \in online, NEW c2 \in online \ {c1},
             Alone(c1), InviteTrade(c1, c2)
      PROVE  GoesOn \/ Ending
  <2>1. CASE trade[c2] = Null
    BY <1>0, <1>2, <2>1, NewTradeGoesOn DEF InviteTrade
  <2>2. CASE trade[c2] # Null
    <3>1. CancelTrade(c1) /\ UNCHANGED locked /\ trade[c1] # Null /\ c1 \in Players
      BY <1>0, <1>2, <2>2 DEF InviteTrade, ExitTrade, Alone, InWindow
    <3> QED BY <3>1, CancelIs
  <2> QED BY <2>1, <2>2
<1>3. ASSUME NEW c \in online, InWindow(c), DeclineTrade(c) \/ ExitTrade(c)
      PROVE  Ending
  <2>1. c \in Players /\ trade[c] # Null
    BY <1>0, <1>3 DEF InWindow
  <2>2. CancelTrade(c) /\ UNCHANGED locked
    BY <1>3, <2>1, DeclineIsCancel DEF ExitTrade
  <2> QED BY <2>1, <2>2, CancelIs
<1>4. ASSUME NEW c \in online, Paired(c), CompleteTrade(c)
      PROVE  GoesOn \/ Ending
  <2>1. \/ UNCHANGED <<trade, items, meso, inv, ground>>
        \/ \E d \in Players : Cancelled(c, d) \/ Exchanged(c, d)
    BY <1>4, CompleteIs
  <2> QED BY <1>0, <2>1, NothingGoesOn
<1>5. ASSUME NEW c \in online, Leave(c) PROVE GoesOn \/ Ending
  <2>1. CASE trade[c] # Null
    BY <1>0, <1>5, <2>1, CancelIs DEF Leave
  <2>2. CASE trade[c] = Null
    BY <1>5, <2>2, NothingGoesOn DEF Leave, objects
  <2> QED BY <2>1, <2>2
<1>6. ASSUME NEW c \in Players \ online, Enter(c) PROVE GoesOn
  BY <1>6, NothingGoesOn DEF Enter, objects
<1>7. ASSUME NEW c \in online,
             \/ \E m \in Amounts : InWindow(c) /\ SetMeso(c, m)
             \/ \E i \in Items : InWindow(c) /\ AddItem(c, i)
             \/ \E i \in Items : PickUp(c, i) \/ Receive(c, i)
             \/ \E i \in Items : Drop(c, i)
             \/ \E i \in Items : Equip(c, i) \/ Unequip(c, i)
             \/ \E m \in Amounts : EarnMeso(c, m)
      PROVE GoesOn
  BY <1>0, <1>7, MoveGoesOn
<1>8. CASE UNCHANGED vars
  BY <1>8, NothingGoesOn DEF vars, objects
<1> QED
  BY <1>1, <1>2, <1>3, <1>4, <1>5, <1>6, <1>7, <1>8 DEF Next


(* What the two get when their trades end. *)
LEMMA Delivered ==
    ASSUME IInv, NEW c \in Players, NEW d \in Players,
           Cancelled(c, d) \/ Exchanged(c, d)
    PROVE  /\ Ended(c, trade[c], d, trade[d])
           /\ trade[c] \in Objs /\ trade[d] \in Objs
           /\ c # d => partner[trade[c]] = trade[d] /\ partner[trade[d]] = trade[c]
           /\ c = d => partner[trade[c]] = Null
           /\ ground' = ground /\ worn' = worn
           /\ \A e \in Players \ {c, d} : inv'[e] = inv[e]
<1> DEFINE t == trade[c]
           u == trade[d]
<1>1. /\ Ends(c, t, d, u) /\ Empty(t, u) /\ Forget(c, d)
      /\ UNCHANGED <<chr, partner, worn, ground>>
      /\ \A o \in Objs : o # t => locked'[o] = locked[o]
  BY DEF Cancelled, Exchanged
<1>2. t \in Objs /\ u \in Objs /\ t # Null /\ u # Null
  BY <1>1 DEF Ends, IInv, TypeOK
<1>3. /\ c # d => partner[t] = u /\ partner[u] = t
      /\ c = d => partner[t] = Null
  BY <1>1 DEF Ends
<1>4. ASSUME NEW e \in Players \ {c, d} PROVE inv'[e] = inv[e]
  <2> DEFINE T == IF c = d THEN {} ELSE items[u]
  <2>1. CASE Cancelled(c, d)
    <3>1. PICK kc \in Stored(c, items[t]), kd \in Stored(d, T) :
            inv' = [f \in Players |-> inv[f] \cup (IF f = c THEN kc ELSE {})
                                            \cup (IF f = d THEN kd ELSE {})]
      BY <2>1 DEF Cancelled, Deliver
    <3> QED BY <3>1
  <2>2. CASE Exchanged(c, d)
    <3>1. PICK kc \in Stored(c, items[u]), kd \in Stored(d, items[t]) :
            inv' = [f \in Players |-> inv[f] \cup (IF f = c THEN kc ELSE {})
                                            \cup (IF f = d THEN kd ELSE {})]
      BY <2>2 DEF Exchanged, Deliver
    <3> QED BY <3>1
  <2> QED BY <2>1, <2>2
<1>5. Ended(c, t, d, u)
  <2> HIDE DEF t, u
  <2> QED BY <1>1, EndView
<1> QED
  BY <1>1, <1>2, <1>3, <1>4, <1>5

(* An offer that does not end only grows. *)
LEMMA StepGrows ==
    ASSUME IInv, [Next]_vars, NEW c \in Players,
           trade[c] # Null, trade'[c] = trade[c]
    PROVE  /\ Offer(c) \subseteq Offer(c)'
           /\ \/ MesoOffer(c)' >= MesoOffer(c)
              \/ MesoOffer(c) + purse[c] > MaxInt
<1>1. meso[trade[c]] \in Int
  BY DEF IInv, TypeOK
<1>2. CASE GoesOn
  BY <1>2 DEF GoesOn, Offer, MesoOffer
<1>3. ASSUME NEW x \in Players, NEW y \in Players, Cancelled(x, y) \/ Exchanged(x, y)
      PROVE  /\ Offer(c)' = Offer(c) /\ MesoOffer(c)' = MesoOffer(c)
  <2>1. Ended(x, trade[x], y, trade[y])
    BY <1>3, Delivered
  <2>2. Same(c)
    BY <2>1 DEF Ended
  <2> QED BY <2>2 DEF Same, Offer, MesoOffer
<1> QED
  BY <1>1, <1>2, <1>3, StepEnds DEF MesoOffer, Offer

(* While a trade lasts its offer only grows: no order of setMeso, addItem, *)
(* invitations and confirms makes a player who has confirmed get less than *)
(* the window showed.                                                      *)
THEOREM TradeOfferGrows == Spec => OfferOnlyGrows
<1>1. IInv /\ [Next]_vars =>
        [\A c \in Players :
            (trade[c] # Null /\ trade'[c] = trade[c]) =>
                /\ Offer(c) \subseteq Offer(c)'
                /\ \/ MesoOffer(c)' >= MesoOffer(c)
                   \/ MesoOffer(c) + purse[c] > MaxInt]_vars
  BY StepGrows
<1> QED
  BY <1>1, Inductive, PTL DEF Spec, OfferOnlyGrows

-----------------------------------------------------------------------------
(* Who does not get a stack he is given has a full bag, or another stack   *)
(* of its kind.                                                            *)
LEMMA LostWhy ==
    ASSUME IInv, NEW c \in Players, NEW S \in SUBSET Items, inv[c] \cap S = {},
           worn \cap S = {}, worn' = worn,
           NEW k \in Stored(c, S), NEW i \in S \ k, inv'[c] = inv[c] \cup k
    PROVE  Cardinality(Bag(c)') = Capacity \/ Double(i, inv'[c])
<1> SUFFICES ASSUME ~Double(i, inv'[c]) PROVE Cardinality(Bag(c)') = Capacity
  OBVIOUS
<1>1. k \subseteq S /\ Cardinality(k) = Room(c)
  BY DEF Stored
<1>2. Bag(c)' = Bag(c) \cup k /\ Bag(c) \cap k = {} /\ Bag(c) \in SUBSET Items
  BY <1>1 DEF Bag, IInv, TypeOK
<1>3. IsFiniteSet(Bag(c)) /\ IsFiniteSet(k)
  BY <1>1, <1>2, FS_Subset, ConstantsOK
<1>4. Cardinality(Bag(c) \cup k) = Cardinality(Bag(c)) + Cardinality(k)
  <2>1. Cardinality(Bag(c) \cup k) =
          Cardinality(Bag(c)) + Cardinality(k) - Cardinality(Bag(c) \cap k)
    BY <1>3, FS_Union
  <2>2. Cardinality(Bag(c) \cap k) = 0
    BY <1>2, FS_EmptySet
  <2> QED BY <1>3, <2>1, <2>2, FS_CardinalityType
<1> QED
  BY <1>1, <1>2, <1>3, <1>4, FS_CardinalityType, ConstantsOK DEF Room

(* Why trading loses stack i of c's offer: see LostOnlyFullOrDouble. *)
LostBy(i, c) ==
    /\ i \in Offer(c)
    /\ trade'[c] = Null
    /\ \/ /\ Cardinality(Bag(c)') = Capacity
          /\ \A d \in Players : Facing(c, d) => ~ChangedHands(c, d)
       \/ \E d \in Players : (d = c \/ Facing(c, d)) /\ Double(i, inv'[d])

(* A stack that a trade which is called off does not give back. *)
LEMMA CancelLoses ==
    ASSUME IInv, NEW c \in Players, NEW d \in Players, Cancelled(c, d),
           NEW i \in Items, NEW e \in {c, d}, i \in Offer(e), i \notin inv'[e]
    PROVE  LostBy(i, e)
<1> DEFINE t == trade[c]
           u == trade[d]
           T == IF c = d THEN {} ELSE items[u]
<1>1. /\ t \in Objs /\ u \in Objs /\ t # Null /\ u # Null
      /\ trade'[c] = Null /\ trade'[d] = Null /\ worn' = worn
      /\ c # d => partner[t] = u /\ partner[u] = t
      /\ c = d => partner[t] = Null
  <2>1. /\ Ended(c, t, d, u) /\ t \in Objs /\ u \in Objs /\ worn' = worn
        /\ c # d => partner[t] = u /\ partner[u] = t
        /\ c = d => partner[t] = Null
    BY Delivered
  <2> HIDE DEF t, u
  <2> QED BY <2>1, ConstantsOK DEF Ended
<1>2. Offer(c) = items[t] /\ Offer(d) = items[u]
  BY <1>1 DEF Offer
<1>3. /\ items[t] \in SUBSET Items /\ items[u] \in SUBSET Items
      /\ \A f \in Players : inv[f] \cap items[t] = {} /\ inv[f] \cap items[u] = {}
      /\ worn \cap items[t] = {} /\ worn \cap items[u] = {}
      /\ t # u => items[t] \cap items[u] = {}
  BY <1>1 DEF IInv, TypeOK, NoDuplicate
<1>4. PICK kc \in Stored(c, items[t]), kd \in Stored(d, T) :
        inv' = [f \in Players |-> inv[f] \cup (IF f = c THEN kc ELSE {})
                                        \cup (IF f = d THEN kd ELSE {})]
  BY DEF Cancelled, Deliver
<1>5. kc \subseteq items[t] /\ kd \subseteq T
  BY StoredSubset
<1>6. ASSUME NEW f \in Players, Facing(e, f) PROVE ~ChangedHands(e, f)
  <2>1. c # d /\ {e, f} = {c, d}
    BY <1>1, <1>6, TradeOwner DEF Facing, IInv
  <2>2. t # u /\ inv'[c] = inv[c] \cup kc /\ inv'[d] = inv[d] \cup kd /\ T = items[u]
    BY <1>1, <1>4, <2>1, TradeOwner DEF IInv
  <2>3. inv'[c] \cap items[u] = {} /\ inv'[d] \cap items[t] = {}
    BY <1>3, <1>5, <2>2
  <2> QED BY <1>2, <2>1, <2>3 DEF ChangedHands
<1>7. Cardinality(Bag(e)') = Capacity \/ Double(i, inv'[e])
  <2>1. CASE e = c
    <3>1. inv'[c] = inv[c] \cup kc
      BY <1>4, <1>5
    <3>2. i \in items[t] \ kc
      BY <1>2, <2>1, <3>1
    <3> QED BY <1>1, <1>3, <2>1, <3>1, <3>2, LostWhy
  <2>2. CASE e = d /\ c # d
    <3>1. inv'[d] = inv[d] \cup kd /\ T = items[u]
      BY <1>4, <2>2
    <3>2. i \in items[u] \ kd
      BY <1>2, <2>2, <3>1
    <3> QED BY <1>1, <1>3, <2>2, <3>1, <3>2, LostWhy
  <2> QED BY <2>1, <2>2
<1>8. trade'[e] = Null
  BY <1>1
<1> QED
  BY <1>6, <1>7, <1>8 DEF LostBy

(* A stack that an exchange does not hand over. *)
LEMMA ExchangeLoses ==
    ASSUME IInv, NEW c \in Players, NEW d \in Players, Exchanged(c, d),
           NEW i \in Items, NEW e \in {c, d}, i \in Offer(e),
           i \notin inv'[c], i \notin inv'[d]
    PROVE  LostBy(i, e)
<1> DEFINE t == trade[c]
           u == trade[d]
<1>1. /\ t \in Objs /\ u \in Objs /\ t # Null /\ u # Null /\ c # d
      /\ trade'[c] = Null /\ trade'[d] = Null
      /\ partner[t] = u /\ partner[u] = t
  <2>1. /\ Ended(c, t, d, u) /\ t \in Objs /\ u \in Objs /\ worn' = worn
        /\ c # d => partner[t] = u /\ partner[u] = t
        /\ c = d => partner[t] = Null
    BY Delivered
  <2>2. c # d
    BY DEF Exchanged
  <2> HIDE DEF t, u
  <2> QED BY <2>1, <2>2, ConstantsOK DEF Ended
<1>2. /\ Offer(c) = items[t] /\ Offer(d) = items[u]
      /\ Facing(c, d) /\ Facing(d, c)
  BY <1>1 DEF Offer, Facing
<1>3. PICK kc \in Stored(c, items[u]), kd \in Stored(d, items[t]) :
        inv' = [f \in Players |-> inv[f] \cup (IF f = c THEN kc ELSE {})
                                        \cup (IF f = d THEN kd ELSE {})]
  BY DEF Exchanged, Deliver
<1>4. inv'[c] = inv[c] \cup kc /\ inv'[d] = inv[d] \cup kd
  BY <1>1, <1>3
<1>5. /\ IsFiniteSet(items[t]) /\ IsFiniteSet(items[u])
      /\ Room(c) \in Int /\ Room(d) \in Int
  <2>1. \A S \in SUBSET Items : IsFiniteSet(S)
    BY FS_Subset, ConstantsOK
  <2>2. \A f \in Players : Bag(f) \in SUBSET Items
    BY DEF Bag, IInv, TypeOK
  <2>3. \A f \in Players : Room(f) \in Int
    BY <2>1, <2>2, FS_CardinalityType, ConstantsOK DEF Room
  <2> QED BY <1>1, <2>1, <2>3 DEF IInv, TypeOK
<1>6. Fits(c, items[u]) /\ Fits(d, items[t])
  BY DEF Exchanged
<1>7. CASE e = c
  <2>1. i \in items[t] \ kd
    BY <1>2, <1>4, <1>7
  <2>2. Double(i, inv'[d])
    BY <1>4, <1>5, <1>6, <2>1, StoredFits
  <2> QED BY <1>1, <1>2, <1>7, <2>2 DEF LostBy
<1>8. CASE e = d
  <2>1. i \in items[u] \ kc
    BY <1>2, <1>4, <1>8
  <2>2. Double(i, inv'[c])
    BY <1>4, <1>5, <1>6, <2>1, StoredFits
  <2> QED BY <1>1, <1>2, <1>8, <2>2 DEF LostBy
<1> QED
  BY <1>7, <1>8

(* Every step that loses a stack is one of these. *)
LEMMA StepLoses ==
    ASSUME IInv, [Next]_vars, NEW i \in Items, Somewhere(i), ~Somewhere(i)'
    PROVE  \E c \in Players : LostBy(i, c)
<1>1. PICK c \in Players, d \in Players : Cancelled(c, d) \/ Exchanged(c, d)
  BY StepEnds DEF GoesOn
<1>2. /\ Ended(c, trade[c], d, trade[d]) /\ ground' = ground
      /\ \A e \in Players \ {c, d} : inv'[e] = inv[e]
  BY <1>1, Delivered
<1>3. PICK e \in Players : i \in Holding(e)
  BY <1>2 DEF Somewhere
<1>4. \A f \in Players : i \notin inv'[f]
  BY DEF Somewhere, Holding
<1>5. e \in {c, d}
  BY <1>2, <1>3 DEF Ended, Same, Somewhere, Holding, Offer
<1>6. \A f \in Players : inv[f] \subseteq inv'[f]
  BY <1>1 DEF Cancelled, Exchanged, Deliver
<1>7. i \in Offer(e)
  BY <1>3, <1>4, <1>6 DEF Holding
<1> QED
  BY <1>1, <1>4, <1>5, <1>7, CancelLoses, ExchangeLoses

(* Trading destroys a stack only when the deal is off and the bag of the   *)
(* owner has filled up meanwhile, or when the one who gets it has another  *)
(* of a kind of which addFromDrop lets nobody hold two.                    *)
THEOREM TradeLosesFullOrDouble == Spec => LostOnlyFullOrDouble
<1>1. IInv /\ [Next]_vars =>
        [\A i \in Items :
            (Somewhere(i) /\ ~Somewhere(i)') =>
                \E c \in Players :
                    /\ i \in Offer(c)
                    /\ trade'[c] = Null
                    /\ \/ /\ Cardinality(Bag(c)') = Capacity
                          /\ \A d \in Players : Facing(c, d) => ~ChangedHands(c, d)
                       \/ \E d \in Players :
                            (d = c \/ Facing(c, d)) /\ Double(i, inv'[d])]_vars
  BY StepLoses DEF LostBy
<1> QED
  BY <1>1, Inductive, PTL DEF Spec, LostOnlyFullOrDouble

-----------------------------------------------------------------------------
(* A fee is at most what it is taken from. *)
LEMMA FeeBound == ASSUME NEW m \in Nat PROVE Fee(m) \in 0 .. m
<1>1. CASE m >= 100000000
  <2>1. /\ m = 100 * (m \div 100) + (m % 100)
        /\ 0 <= m % 100 /\ m % 100 <= 99
        /\ m % 100 \in Int /\ m \div 100 \in Int /\ 0 <= m \div 100
    <3>1. m = 100 * (m \div 100) + (m % 100)
      BY SMT
    <3>2. 0 <= m % 100 /\ m % 100 <= 99
      BY SMT
    <3>3. m % 100 \in Int /\ m \div 100 \in Int
      BY SMT
    <3>4. 0 <= m \div 100
      BY SMT
    <3> QED BY <3>1, <3>2, <3>3, <3>4
  <2>2. ((m % 100) * 6 + 50) \div 100 \in 0 .. 6
    BY <2>1
  <2>3. Fee(m) = (m \div 100) * 6 + ((m % 100) * 6 + 50) \div 100
    BY <1>1 DEF Fee
  <2> QED BY <1>1, <2>1, <2>2, <2>3
<1>2. CASE m < 100000000
  BY <1>2 DEF Fee
<1> QED
  BY <1>1, <1>2

(* gainMeso adds what does not overflow the purse. *)
LEMMA CreditSum ==
    ASSUME NEW b \in 0 .. MaxInt, NEW g \in Nat, b + g <= MaxInt
    PROVE  Credit(b, g) = b + g
  BY ConstantsOK DEF Credit

(* Two players whose trade ends both get their mesos or both the other's. *)
LEMMA StepSettles ==
    ASSUME IInv, [Next]_vars, NEW c \in Players, NEW d \in Players,
           Facing(c, d), trade'[c] = Null,
           \A a, b \in {c, d} : purse[a] + MesoOffer(b) <= MaxInt,
           \A a \in {c, d} : MesoOffer(a) >= 0
    PROVE  LET Net(b) == MesoOffer(b) - Fee(MesoOffer(b)) IN
           /\ trade'[d] = Null
           /\ \/ /\ purse'[c] = purse[c] + MesoOffer(c)
                 /\ purse'[d] = purse[d] + MesoOffer(d)
              \/ /\ locked[trade[c]] \/ locked[trade[d]]
                 /\ purse'[c] = purse[c] + Net(d)
                 /\ purse'[d] = purse[d] + Net(c)
<1> DEFINE t == trade[c]
           u == trade[d]
<1>1. PICK x \in Players, y \in Players : Cancelled(x, y) \/ Exchanged(x, y)
  BY StepEnds DEF GoesOn, Facing
<1>2. /\ Ended(x, trade[x], y, trade[y])
      /\ trade[x] \in Objs /\ trade[y] \in Objs
      /\ x # y => partner[trade[x]] = trade[y] /\ partner[trade[y]] = trade[x]
      /\ x = y => partner[trade[x]] = Null
  BY <1>1, Delivered
<1>3. c \in {x, y}
  BY <1>2 DEF Ended, Same, Facing
<1>4. x # y /\ {x, y} = {c, d} /\ trade'[d] = Null
  <2>1. x # y
    BY <1>2, <1>3 DEF Facing
  <2>2. d \in {x, y}
    BY <1>2, <1>3, <2>1, TradeOwner DEF Facing, IInv
  <2> QED BY <1>2, <1>3, <2>1, <2>2 DEF Facing, Ended
<1>5. /\ t \in Objs /\ u \in Objs /\ c # d
      /\ MesoOffer(c) = meso[t] /\ MesoOffer(d) = meso[u]
      /\ meso[t] \in Nat /\ meso[u] \in Nat
      /\ purse[c] \in 0 .. MaxInt /\ purse[d] \in 0 .. MaxInt
      /\ \A a \in {c, d} : purse[a] + meso[t] <= MaxInt /\ purse[a] + meso[u] <= MaxInt
  BY DEF Facing, MesoOffer, IInv, TypeOK
<1>6. CASE Cancelled(x, y)
  <2>1. /\ purse'[x] = Credit(purse[x], meso[trade[x]])
        /\ purse'[y] = Credit(purse[y], meso[trade[y]])
    BY <1>4, <1>6 DEF Cancelled, Deliver
  <2>2. /\ purse'[c] = Credit(purse[c], meso[t])
        /\ purse'[d] = Credit(purse[d], meso[u])
    BY <1>4, <2>1
  <2>3. /\ Credit(purse[c], meso[t]) = purse[c] + meso[t]
        /\ Credit(purse[d], meso[u]) = purse[d] + meso[u]
    BY <1>5, CreditSum
  <2> QED BY <1>4, <1>5, <2>2, <2>3
<1>7. CASE Exchanged(x, y)
  <2>1. /\ locked[trade[y]]
        /\ purse'[x] = Credit(purse[x], NetMeso(trade[y]))
        /\ purse'[y] = Credit(purse[y], NetMeso(trade[x]))
    BY <1>4, <1>7 DEF Exchanged, Deliver
  <2>2. /\ locked[t] \/ locked[u]
        /\ purse'[c] = Credit(purse[c], meso[u] - Fee(meso[u]))
        /\ purse'[d] = Credit(purse[d], meso[t] - Fee(meso[t]))
    BY <1>4, <2>1 DEF NetMeso
  <2>3. Fee(meso[t]) \in 0 .. meso[t] /\ Fee(meso[u]) \in 0 .. meso[u]
    BY <1>5, FeeBound
  <2>4. /\ meso[t] - Fee(meso[t]) \in 0 .. meso[t]
        /\ meso[u] - Fee(meso[u]) \in 0 .. meso[u]
    BY <1>5, <2>3
  <2>5. /\ purse[c] + (meso[u] - Fee(meso[u])) <= MaxInt
        /\ purse[d] + (meso[t] - Fee(meso[t])) <= MaxInt
    <3>1. purse[c] + meso[u] <= MaxInt /\ purse[d] + meso[t] <= MaxInt
      BY <1>5
    <3> QED BY <1>5, <2>4, <3>1, ConstantsOK
  <2>6. /\ purse'[c] = purse[c] + (meso[u] - Fee(meso[u]))
        /\ purse'[d] = purse[d] + (meso[t] - Fee(meso[t]))
    BY <1>5, <2>2, <2>4, <2>5, CreditSum
  <2> QED BY <1>4, <1>5, <2>2, <2>6
<1> QED
  BY <1>1, <1>6, <1>7

(* When the trade of two facing players ends, either both take back their  *)
(* own mesos or each gets the other's less the fee: no purse is paid by    *)
(* one rule and the other by the other.                                    *)
THEOREM TradeMesoSettled == Spec => MesoSettled
<1>1. IInv /\ [Next]_vars =>
        [\A c, d \in Players :
            (/\ Facing(c, d)
             /\ trade'[c] = Null
             /\ \A a, b \in {c, d} : purse[a] + MesoOffer(b) <= MaxInt
             /\ \A a \in {c, d} : MesoOffer(a) >= 0) =>
                LET Net(b) == MesoOffer(b) - Fee(MesoOffer(b)) IN
                /\ trade'[d] = Null
                /\ \/ /\ purse'[c] = purse[c] + MesoOffer(c)
                      /\ purse'[d] = purse[d] + MesoOffer(d)
                   \/ /\ locked[trade[c]] \/ locked[trade[d]]
                      /\ purse'[c] = purse[c] + Net(d)
                      /\ purse'[d] = purse[d] + Net(c)]_vars
  BY StepSettles
<1> QED
  BY <1>1, Inductive, PTL DEF Spec, MesoSettled

-----------------------------------------------------------------------------
(***************************************************************************)
(* Sums over finite sets, proved from the recursion of the community       *)
(* module Folds, and with them: no step of the trade window makes mesos.   *)
(***************************************************************************)
(* Induction over the naturals, for sets: a set that has 0 and with each   *)
(* number the next has them all.                                           *)
LEMMA Induction ==
    ASSUME NEW T, 0 \in T, \A n \in Nat : n \in T => n + 1 \in T
    PROVE  Nat \subseteq T
<1> DEFINE R == {ss \in Nat \X Nat : ss[1] < ss[2]}
           Bad == Nat \ T
<1>1. IsWellFoundedOn(R, Nat)
  BY NatLessThanWellFounded DEF OpToRel
<1>2. Bad # {} => \E n \in Bad : \A k \in Bad : <<k, n>> \notin R
  <2> HIDE DEF R
  <2> QED BY <1>1, WFMin
<1>3. ASSUME NEW n \in Bad PROVE n - 1 \in Bad /\ <<n - 1, n>> \in R
  <2>1. n \in Nat /\ n # 0
    OBVIOUS
  <2>2. n - 1 \in Nat /\ (n - 1) + 1 = n /\ n - 1 < n
    BY <2>1
  <2>3. n - 1 \notin T
    BY <2>1, <2>2
  <2> QED BY <2>1, <2>2, <2>3
<1>4. Bad = {}
  <2> HIDE DEF R, Bad
  <2> QED BY <1>2, <1>3
<1> QED BY <1>4

(* The element the fold of Folds.tla takes next, the equation it gives the   *)
(* sums over the sets of D, and that a sum can be split at any element.      *)
Pick(s) == CHOOSE x \in s : TRUE
Sums(F, f, D) ==
    F = [s \in D |-> IF s = {} THEN 0 ELSE f[Pick(s)] + F[s \ {Pick(s)}]]

Splits(F, f, D) ==
    \A s \in D : F[s] \in Int /\ \A x \in s : F[s] = f[x] + F[s \ {x}]

(* The subsets of a finite set, and what is left of them. *)
LEMMA Sizes ==
    ASSUME NEW S, IsFiniteSet(S), NEW s \in SUBSET S
    PROVE  /\ IsFiniteSet(s) /\ Cardinality(s) \in Nat
           /\ Cardinality(s) <= Cardinality(S)
           /\ s = {} <=> Cardinality(s) = 0
           /\ \A x \in s : /\ s \ {x} \in SUBSET S
                           /\ Cardinality(s \ {x}) = Cardinality(s) - 1
  BY FS_Subset, FS_CardinalityType, FS_EmptySet, FS_RemoveElement

(* Sums over the subsets of a finite set exist. *)
LEMMA SumExists ==
    ASSUME NEW f, NEW S, IsFiniteSet(S)
    PROVE  \E F : Sums(F, f, SUBSET S)
<1> DEFINE D(n) == {s \in SUBSET S : Cardinality(s) <= n}
           Good == {n \in Nat : \E F : Sums(F, f, D(n))}
<1>1. 0 \in Good
  <2> DEFINE F == [s \in D(0) |-> 0]
  <2>1. \A s \in D(0) : s = {}
    BY Sizes
  <2>2. Sums(F, f, D(0))
    BY <2>1 DEF Sums
  <2> QED BY <2>2
<1>2. ASSUME NEW n \in Nat, n \in Good PROVE n + 1 \in Good
  <2>1. PICK F : Sums(F, f, D(n))
    BY <1>2
  <2> DEFINE Rec(H, s) == IF s = {} THEN 0 ELSE f[Pick(s)] + H[s \ {Pick(s)}]
             G == [s \in D(n + 1) |-> Rec(F, s)]
  <2>2. \A s \in D(n) : s \in D(n + 1) /\ F[s] = Rec(F, s)
    <3>1. \A s \in D(n) : s \in D(n + 1)
      BY Sizes
    <3>2. \A s \in D(n) : F[s] = Rec(F, s)
      BY <2>1 DEF Sums
    <3> QED BY <3>1, <3>2
  <2>3. \A s \in D(n + 1) : s # {} => s \ {Pick(s)} \in D(n)
    BY Sizes DEF Pick
  <2>4. \A s \in D(n + 1) : Rec(F, s) = Rec(G, s)
    <3>1. \A s \in D(n) : G[s] = F[s]
      <4> HIDE DEF Rec, D
      <4> QED BY <2>2
    <3> HIDE DEF D, G
    <3> QED BY <3>1, <2>3
  <2>5. Sums(G, f, D(n + 1))
    <3>1. G = [s \in D(n + 1) |-> Rec(G, s)]
      <4> HIDE DEF Rec, D
      <4> QED BY <2>4
    <3> HIDE DEF D, G
    <3> QED BY <3>1 DEF Sums
  <2> HIDE DEF D
  <2> QED BY <2>5
<1>3. Cardinality(S) \in Good
  <2> HIDE DEF Good
  <2> QED BY <1>1, <1>2, Induction, Sizes
<1>4. D(Cardinality(S)) = SUBSET S
  BY Sizes
<1> QED
  <2> HIDE DEF D
  <2> QED BY <1>3, <1>4

(* The order in which the elements are added does not matter. *)
LEMMA SumAny ==
    ASSUME NEW S, IsFiniteSet(S), NEW f \in [S -> Int], NEW F, Sums(F, f, SUBSET S)
    PROVE  Splits(F, f, SUBSET S)
<1> DEFINE Fine(u) == F[u] \in Int /\ \A x \in u : F[u] = f[x] + F[u \ {x}]
           Good == {n \in Nat : \A u \in SUBSET S : Cardinality(u) <= n => Fine(u)}
<1>0. \A u \in SUBSET S :
          F[u] = IF u = {} THEN 0 ELSE f[Pick(u)] + F[u \ {Pick(u)}]
  BY DEF Sums
<1>1. 0 \in Good
  <2>1. \A u \in SUBSET S : Cardinality(u) <= 0 => u = {}
    BY Sizes
  <2>2. Fine({})
    <3>1. F[{}] = 0
      BY <1>0
    <3> QED BY <3>1
  <2> HIDE DEF Fine
  <2> QED BY <2>1, <2>2
<1>2. ASSUME NEW n \in Nat, n \in Good PROVE n + 1 \in Good
  <2>1. ASSUME NEW u \in SUBSET S, u # {}, Cardinality(u) <= n + 1 PROVE Fine(u)
    <3> DEFINE p == Pick(u)
    <3>1. p \in u /\ F[u] = f[p] + F[u \ {p}]
      <4>1. p \in u
        BY <2>1 DEF Pick
      <4> QED BY <4>1, <1>0, <2>1
    <3>2. \A x \in u : u \ {x} \in SUBSET S /\ Fine(u \ {x})
      <4>1. \A x \in u : u \ {x} \in SUBSET S /\ Cardinality(u \ {x}) <= n
        BY <2>1, Sizes
      <4> HIDE DEF Fine
      <4> QED BY <4>1, <1>2
    <3>3. ASSUME NEW x \in u, x # p PROVE F[u] = f[x] + F[u \ {x}]
      <4>1. F[u \ {p}] = f[x] + F[(u \ {p}) \ {x}]
        BY <3>1, <3>2, <3>3
      <4>2. F[u \ {x}] = f[p] + F[(u \ {x}) \ {p}]
        BY <3>1, <3>2, <3>3
      <4>3. (u \ {p}) \ {x} = (u \ {x}) \ {p}
        OBVIOUS
      <4>4. f[p] \in Int /\ f[x] \in Int
        BY <3>1
      <4>5. F[(u \ {x}) \ {p}] \in Int
        <5>1. (u \ {x}) \ {p} \in SUBSET S /\ Cardinality((u \ {x}) \ {p}) <= n
          <6>1. u \ {x} \in SUBSET S /\ p \in u \ {x} /\ Cardinality(u \ {x}) <= n
            BY <2>1, <3>1, <3>3, Sizes
          <6> HIDE DEF p
          <6> QED BY <6>1, Sizes
        <5> HIDE DEF p
        <5> QED BY <5>1, <1>2
      <4>6. F[u \ {p}] \in Int /\ F[u \ {x}] \in Int
        BY <3>1, <3>2
      <4> DEFINE r == F[(u \ {x}) \ {p}]
      <4>7. F[u \ {p}] = f[x] + r /\ F[u \ {x}] = f[p] + r /\ r \in Int
        BY <4>1, <4>2, <4>3, <4>5
      <4> HIDE DEF p, r
      <4> QED BY <3>1, <4>4, <4>6, <4>7
    <3>4. F[u] \in Int
      <4>1. f[p] \in Int /\ F[u \ {p}] \in Int
        BY <3>1, <3>2
      <4> HIDE DEF p
      <4> QED BY <3>1, <4>1
    <3> QED BY <3>1, <3>3, <3>4
  <2>2. Fine({})
    <3>1. F[{}] = 0
      BY <1>0
    <3> QED BY <3>1
  <2>3. \A u \in SUBSET S : Cardinality(u) <= n + 1 => Fine(u)
    <3> HIDE DEF Fine
    <3> QED BY <2>1, <2>2
  <2> HIDE DEF Fine
  <2> QED BY <2>3
<1> QED
  <2> SUFFICES ASSUME NEW s \in SUBSET S PROVE Fine(s)
    BY DEF Splits
  <2>1. Cardinality(s) \in Nat /\ Cardinality(s) <= Cardinality(s)
    BY Sizes
  <2>2. Cardinality(s) \in Good
    <3> HIDE DEF Good
    <3> QED BY <1>1, <1>2, <2>1, Induction
  <2> HIDE DEF Fine
  <2> QED BY <2>1, <2>2

(* Equal addends have equal sums. *)
LEMMA SumSame ==
    ASSUME NEW S, IsFiniteSet(S), NEW f \in [S -> Int], NEW F, Sums(F, f, SUBSET S),
           NEW g \in [S -> Int], NEW G, Sums(G, g, SUBSET S),
           NEW s \in SUBSET S, \A x \in s : f[x] = g[x]
    PROVE  F[s] = G[s]
<1> DEFINE Good == {n \in Nat : \A u \in SUBSET s : Cardinality(u) <= n => F[u] = G[u]}
<1>0. \A u \in SUBSET S :
         /\ F[u] = IF u = {} THEN 0 ELSE f[Pick(u)] + F[u \ {Pick(u)}]
         /\ G[u] = IF u = {} THEN 0 ELSE g[Pick(u)] + G[u \ {Pick(u)}]
  BY DEF Sums
<1>1. 0 \in Good
  <2>1. \A u \in SUBSET s : Cardinality(u) <= 0 => u = {}
    BY Sizes
  <2> QED BY <1>0, <2>1
<1>2. ASSUME NEW n \in Nat, n \in Good PROVE n + 1 \in Good
  <2>1. ASSUME NEW u \in SUBSET s, u # {}, Cardinality(u) <= n + 1 PROVE F[u] = G[u]
    <3>1. Pick(u) \in u
      BY <2>1 DEF Pick
    <3>2. u \ {Pick(u)} \in SUBSET s /\ Cardinality(u \ {Pick(u)}) <= n
      BY <2>1, <3>1, Sizes
    <3>3. F[u \ {Pick(u)}] = G[u \ {Pick(u)}]
      BY <1>2, <3>2
    <3> QED BY <1>0, <2>1, <3>1, <3>3
  <2>2. F[{}] = G[{}]
    BY <1>0
  <2> QED BY <2>1, <2>2
<1> QED
  <2>1. Cardinality(s) \in Nat
    BY Sizes
  <2>2. Cardinality(s) \in Good
    <3> HIDE DEF Good
    <3> QED BY <1>1, <1>2, <2>1, Induction
  <2> QED BY <2>1, <2>2

(* SumFunction is such a sum. *)
LEMMA SumIs ==
    ASSUME NEW S, IsFiniteSet(S), NEW f \in [S -> Int]
    PROVE  \E F : Sums(F, f, SUBSET S) /\ SumFunction(f) = F[S]
<1> DEFINE G == CHOOSE F : Sums(F, f, SUBSET S)
<1>1. SumFunction(f) = (CHOOSE F : Sums(F, f, SUBSET DOMAIN f))[DOMAIN f]
  BY DEF SumFunction, SumFunctionOnSet, FoldFunctionOnSet, MapThenFoldSet, Sums, Pick
<1>2. Sums(G, f, SUBSET S)
  BY SumExists
<1>3. DOMAIN f = S
  OBVIOUS
<1>4. SumFunction(f) = G[S]
  BY <1>1, <1>3
<1> QED BY <1>2, <1>4

(* Two functions that agree on D, and by how much g is ahead of f at a and b. *)
Agree(f, g, D) == \A x \in D : g[x] = f[x]
Gain(f, g, a, b) == (g[a] - f[a]) + (IF a = b THEN 0 ELSE g[b] - f[b])

(* The sums of functions that differ at two points only differ as they do    *)
(* there.                                                                    *)
LEMMA SumChange ==
    ASSUME NEW S, IsFiniteSet(S), NEW f \in [S -> Int], NEW g \in [S -> Int],
           NEW a \in S, NEW b \in S, Agree(f, g, S \ {a, b})
    PROVE  /\ SumFunction(f) \in Int /\ SumFunction(g) \in Int
           /\ SumFunction(g) - SumFunction(f) = Gain(f, g, a, b)
<1> USE DEF Agree, Gain
<1>1. PICK F : Sums(F, f, SUBSET S) /\ SumFunction(f) = F[S]
  BY SumIs
<1>2. PICK G : Sums(G, g, SUBSET S) /\ SumFunction(g) = G[S]
  BY SumIs
<1>3. \A s \in SUBSET S : F[s] \in Int /\ \A x \in s : F[s] = f[x] + F[s \ {x}]
  <2>1. Splits(F, f, SUBSET S)
    BY <1>1, SumAny
  <2> QED BY <2>1 DEF Splits
<1>4. \A s \in SUBSET S : G[s] \in Int /\ \A x \in s : G[s] = g[x] + G[s \ {x}]
  <2>1. Splits(G, g, SUBSET S)
    BY <1>2, SumAny
  <2> QED BY <2>1 DEF Splits
<1>5. /\ F[S] \in Int /\ F[S] = f[a] + F[S \ {a}] /\ F[S \ {a}] \in Int
      /\ G[S] \in Int /\ G[S] = g[a] + G[S \ {a}] /\ G[S \ {a}] \in Int
  <2>1. S \in SUBSET S /\ S \ {a} \in SUBSET S
    OBVIOUS
  <2>2. F[S] \in Int /\ F[S] = f[a] + F[S \ {a}] /\ F[S \ {a}] \in Int
    BY <1>3, <2>1
  <2>3. G[S] \in Int /\ G[S] = g[a] + G[S \ {a}] /\ G[S \ {a}] \in Int
    BY <1>4, <2>1
  <2> QED BY <2>2, <2>3
<1>6. f[a] \in Int /\ g[a] \in Int /\ f[b] \in Int /\ g[b] \in Int
  OBVIOUS
<1>7. CASE a = b
  <2>1. F[S \ {a}] = G[S \ {a}]
    BY <1>1, <1>2, <1>7, SumSame
  <2> QED BY <1>1, <1>2, <1>5, <1>6, <1>7, <2>1
<1>8. CASE a # b
  <2>1. /\ F[S \ {a}] = f[b] + F[(S \ {a}) \ {b}] /\ F[(S \ {a}) \ {b}] \in Int
        /\ G[S \ {a}] = g[b] + G[(S \ {a}) \ {b}] /\ G[(S \ {a}) \ {b}] \in Int
    <3>1. (S \ {a}) \in SUBSET S /\ b \in S \ {a} /\ (S \ {a}) \ {b} \in SUBSET S
      BY <1>8
    <3>2. F[S \ {a}] = f[b] + F[(S \ {a}) \ {b}] /\ F[(S \ {a}) \ {b}] \in Int
      BY <1>3, <3>1
    <3>3. G[S \ {a}] = g[b] + G[(S \ {a}) \ {b}] /\ G[(S \ {a}) \ {b}] \in Int
      BY <1>4, <3>1
    <3> QED BY <3>2, <3>3
  <2>2. F[(S \ {a}) \ {b}] = G[(S \ {a}) \ {b}]
    <3>1. (S \ {a}) \ {b} \in SUBSET S /\ \A x \in (S \ {a}) \ {b} : f[x] = g[x]
      OBVIOUS
    <3> QED BY <1>1, <1>2, <3>1, SumSame
  <2> QED BY <1>1, <1>2, <1>5, <1>6, <1>8, <2>1, <2>2
<1> QED BY <1>7, <1>8

(* The sum of integers is one. *)
LEMMA SumType ==
    ASSUME NEW S, IsFiniteSet(S), NEW f \in [S -> Int]
    PROVE  SumFunction(f) \in Int
<1>1. PICK F : Sums(F, f, SUBSET S) /\ SumFunction(f) = F[S]
  BY SumIs
<1>2. Splits(F, f, SUBSET S)
  BY <1>1, SumAny
<1> QED BY <1>1, <1>2 DEF Splits

-----------------------------------------------------------------------------
(* What a step changes in at most two purses and two trades is what it     *)
(* changes in all.                                                         *)
LEMMA WealthChange ==
    ASSUME TypeOK, TypeOK', NEW c \in Players, NEW d \in Players, NEW t \in Objs, NEW u \in Objs,
           \A e \in Players \ {c, d} : purse'[e] = purse[e],
           \A o \in Objs \ {t, u} : meso'[o] = meso[o]
    PROVE  /\ Wealth \in Int /\ Wealth' \in Int
           /\ Wealth' - Wealth =
                ((purse'[c] - purse[c]) + (IF c = d THEN 0 ELSE purse'[d] - purse[d]))
                + ((meso'[t] - meso[t]) + (IF t = u THEN 0 ELSE meso'[u] - meso[u]))
<1>1. /\ SumFunction(purse) \in Int /\ SumFunction(purse') \in Int
      /\ SumFunction(purse') - SumFunction(purse) = Gain(purse, purse', c, d)
  <2>1. purse \in [Players -> Int] /\ purse' \in [Players -> Int] /\ IsFiniteSet(Players)
    BY ConstantsOK, FinitelyMany DEF TypeOK
  <2>2. Agree(purse, purse', Players \ {c, d})
    BY DEF Agree
  <2> QED BY <2>1, <2>2, SumChange
<1>2. /\ SumFunction(meso) \in Int /\ SumFunction(meso') \in Int
      /\ SumFunction(meso') - SumFunction(meso) = Gain(meso, meso', t, u)
  <2>1. meso \in [Objs -> Int] /\ meso' \in [Objs -> Int] /\ IsFiniteSet(Objs)
    BY FinitelyMany DEF TypeOK
  <2>2. Agree(meso, meso', Objs \ {t, u})
    BY DEF Agree
  <2> QED BY <2>1, <2>2, SumChange
<1>3. Gain(purse, purse', c, d) \in Int /\ Gain(meso, meso', t, u) \in Int
  BY ConstantsOK DEF Gain, TypeOK
<1>4. Wealth = SumFunction(purse) + SumFunction(meso)
  BY DEF Wealth
<1>5. Wealth' = SumFunction(purse') + SumFunction(meso')
  BY DEF Wealth
<1>6. Wealth' - Wealth = Gain(purse, purse', c, d) + Gain(meso, meso', t, u)
  BY <1>1, <1>2, <1>3, <1>4, <1>5
<1> QED
  BY <1>1, <1>2, <1>4, <1>5, <1>6 DEF Gain

(* All the mesos there are add up to a number. *)
LEMMA WealthType ==
    /\ TypeOK => Wealth \in Int
    /\ TypeOK' => Wealth' \in Int
<1>1. ASSUME TypeOK PROVE Wealth \in Int
  <2>1. purse \in [Players -> Int] /\ meso \in [Objs -> Int]
    BY <1>1, ConstantsOK DEF TypeOK
  <2>2. SumFunction(purse) \in Int /\ SumFunction(meso) \in Int
    BY <2>1, FinitelyMany, SumType
  <2> QED BY <2>2 DEF Wealth
<1>2. ASSUME TypeOK' PROVE Wealth' \in Int
  <2>1. purse' \in [Players -> Int] /\ meso' \in [Objs -> Int]
    BY <1>2, ConstantsOK DEF TypeOK
  <2>2. SumFunction(purse') \in Int /\ SumFunction(meso') \in Int
    BY <2>1, FinitelyMany, SumType
  <2> QED BY <2>2 DEF Wealth
<1> QED BY <1>1, <1>2

(* A purse is credited at most what it is given, and nothing when that is  *)
(* negative.                                                               *)
LEMMA CreditBound ==
    ASSUME NEW b \in 0 .. MaxInt, NEW g \in Nat
    PROVE  Credit(b, g) \in b .. b + g
BY ConstantsOK DEF Credit

(* The end of a trade pays out at most what was in it. *)
LEMMA EndWealth ==
    ASSUME IInv, TypeOK', NEW c \in Players, NEW d \in Players,
           Cancelled(c, d) \/ Exchanged(c, d), \A o \in Objs : meso[o] >= 0
    PROVE  Wealth' <= Wealth
<1> DEFINE t == trade[c]
           u == trade[d]
<1>1. /\ t \in Objs /\ u \in Objs /\ Empty(t, u)
      /\ c = d <=> t = u
      /\ \A e \in Players \ {c, d} : purse'[e] = purse[e]
  <2>1. Ends(c, t, d, u) /\ Empty(t, u)
    BY DEF Cancelled, Exchanged
  <2>2. \A e \in Players \ {c, d} : purse'[e] = purse[e]
    BY DEF Cancelled, Exchanged, Deliver
  <2> QED BY <2>1, <2>2, ConstantsOK DEF Ends, IInv, TypeOK
<1>2. /\ Cancelled(c, d) =>
            /\ purse'[c] = Credit(purse[c], meso[t])
            /\ c # d => purse'[d] = Credit(purse[d], meso[u])
      /\ Exchanged(c, d) =>
            /\ c # d
            /\ purse'[c] = Credit(purse[c], NetMeso(u))
            /\ purse'[d] = Credit(purse[d], NetMeso(t))
  BY DEF Cancelled, Exchanged, Deliver
<1> HIDE DEF t, u
<1>3. /\ purse[c] \in 0 .. MaxInt /\ purse[d] \in 0 .. MaxInt
      /\ purse'[c] \in Int /\ purse'[d] \in Int
      /\ meso[t] \in Nat /\ meso[u] \in Nat
  BY <1>1 DEF IInv, TypeOK
<1>4. /\ meso'[t] = 0 /\ meso'[u] = 0
      /\ \A o \in Objs \ {t, u} : meso'[o] = meso[o]
  BY <1>1 DEF Empty, IInv, TypeOK
<1>5. /\ c = d => purse'[c] <= purse[c] + meso[t]
      /\ c # d => purse'[c] + purse'[d] <= purse[c] + purse[d] + meso[t] + meso[u]
  <2>1. CASE Cancelled(c, d)
    <3>1. /\ Credit(purse[c], meso[t]) \in purse[c] .. purse[c] + meso[t]
          /\ Credit(purse[d], meso[u]) \in purse[d] .. purse[d] + meso[u]
      BY <1>3, CreditBound
    <3> QED BY <1>2, <1>3, <2>1, <3>1
  <2>2. CASE Exchanged(c, d)
    <3>1. NetMeso(t) \in 0 .. meso[t] /\ NetMeso(u) \in 0 .. meso[u]
      <4>1. Fee(meso[t]) \in 0 .. meso[t]
        BY <1>3, FeeBound
      <4>2. Fee(meso[u]) \in 0 .. meso[u]
        BY <1>3, FeeBound
      <4> QED BY <1>3, <4>1, <4>2 DEF NetMeso
    <3>2. NetMeso(t) \in Nat /\ NetMeso(u) \in Nat
      BY <1>3, <3>1
    <3>3. /\ Credit(purse[c], NetMeso(u)) \in purse[c] .. purse[c] + NetMeso(u)
          /\ Credit(purse[d], NetMeso(t)) \in purse[d] .. purse[d] + NetMeso(t)
      BY <1>3, <3>2, CreditBound
    <3> QED BY <1>2, <1>3, <2>2, <3>1, <3>3
  <2> QED BY <2>1, <2>2
<1>6. /\ Wealth \in Int /\ Wealth' \in Int
      /\ Wealth' - Wealth =
            ((purse'[c] - purse[c]) + (IF c = d THEN 0 ELSE purse'[d] - purse[d]))
            + ((meso'[t] - meso[t]) + (IF t = u THEN 0 ELSE meso'[u] - meso[u]))
  BY <1>1, <1>4, WealthChange DEF IInv
<1>7. CASE c = d
  BY <1>1, <1>3, <1>4, <1>5, <1>6, <1>7
<1>8. CASE c # d
  BY <1>1, <1>3, <1>4, <1>5, <1>6, <1>8
<1> QED
  BY <1>7, <1>8

(* A new trade object has none, and who takes its identity over leaves     *)
(* none behind.                                                            *)
LEMMA NewTradeWealth ==
    ASSUME IInv, TypeOK', NEW c \in Players, NEW t \in Objs, NewTrade(t, c),
           UNCHANGED purse, \A o \in Objs : meso[o] >= 0
    PROVE  Wealth' <= Wealth
<1>1. /\ meso'[t] = 0 /\ \A o \in Objs \ {t} : meso'[o] = meso[o]
      /\ meso[t] \in Int /\ meso[t] >= 0
      /\ purse[c] \in Int
  BY DEF NewTrade, IInv, TypeOK
<1>2. /\ Wealth \in Int /\ Wealth' \in Int
      /\ Wealth' - Wealth = ((purse'[c] - purse[c]) + 0) + ((meso'[t] - meso[t]) + 0)
  BY <1>1, WealthChange DEF IInv
<1> QED
  BY <1>1, <1>2

(* Mesos that go from a purse to a trade are no more there than here. *)
LEMMA SetMesoWealth ==
    ASSUME IInv, TypeOK', NEW c \in Players, NEW m \in Amounts, InWindow(c), SetMeso(c, m)
    PROVE  Wealth' <= Wealth
<1> DEFINE t == trade[c]
<1>1. /\ t \in Objs /\ m \in Int /\ m >= 0
      /\ purse[c] \in Int /\ meso[t] \in Int
      /\ purse'[c] = purse[c] - m /\ meso'[t] = Wrap(meso[t] + m)
      /\ \A e \in Players \ {c} : purse'[e] = purse[e]
      /\ \A o \in Objs \ {t} : meso'[o] = meso[o]
  BY ConstantsOK DEF SetMeso, MayAdd, InWindow, IInv, TypeOK
<1>2. Wrap(meso[t] + m) \in Int /\ Wrap(meso[t] + m) <= meso[t] + m
  BY <1>1, ConstantsOK DEF Wrap
<1>3. /\ Wealth \in Int /\ Wealth' \in Int
      /\ Wealth' - Wealth = ((purse'[c] - purse[c]) + 0) + ((meso'[t] - meso[t]) + 0)
  <2> HIDE DEF t
  <2> QED BY <1>1, WealthChange DEF IInv
<1> QED
  BY <1>1, <1>2, <1>3

(* Other steps leave purses and trades alone, or earn. *)
LEMMA StepWealth ==
    ASSUME IInv, TypeOK', [Next]_vars, \A o \in Objs : meso[o] >= 0
    PROVE  \/ Wealth' <= Wealth
           \/ UNCHANGED <<trade, objects, inv, worn, ground>>
<1>0. online \subseteq Players
  BY DEF IInv, TypeOK
<1>1. ASSUME UNCHANGED <<purse, meso>> PROVE Wealth' <= Wealth
  <2>1. Wealth' = Wealth
    BY <1>1 DEF Wealth
  <2>2. Wealth \in Int
    BY WealthType DEF IInv
  <2> QED BY <2>1, <2>2
<1>2. ASSUME NEW c \in Players, NEW d \in Players, Cancelled(c, d) \/ Exchanged(c, d)
      PROVE  Wealth' <= Wealth
  BY <1>2, EndWealth
<1>3. ASSUME NEW c \in online, StartTrade(c) PROVE Wealth' <= Wealth
  BY <1>0, <1>3, NewTradeWealth DEF StartTrade
<1>4. ASSUME NEW c1 \in online, NEW c2 \in online \ {c1},
             Alone(c1), InviteTrade(c1, c2)
      PROVE  Wealth' <= Wealth
  <2>1. CASE trade[c2] = Null
    BY <1>0, <1>4, <2>1, NewTradeWealth DEF InviteTrade
  <2>2. CASE trade[c2] # Null
    <3>1. CancelTrade(c1) /\ UNCHANGED locked /\ trade[c1] # Null /\ c1 \in Players
      BY <1>0, <1>4, <2>2 DEF InviteTrade, ExitTrade, Alone, InWindow
    <3> QED BY <1>2, <3>1, CancelIs
  <2> QED BY <2>1, <2>2
<1>5. ASSUME NEW c \in online, InWindow(c), DeclineTrade(c) \/ ExitTrade(c)
      PROVE  Wealth' <= Wealth
  <2>1. c \in Players /\ trade[c] # Null
    BY <1>0, <1>5 DEF InWindow
  <2>2. CancelTrade(c) /\ UNCHANGED locked
    BY <1>5, <2>1, DeclineIsCancel DEF ExitTrade
  <2> QED BY <1>2, <2>1, <2>2, CancelIs
<1>6. ASSUME NEW c \in online, Paired(c), CompleteTrade(c) PROVE Wealth' <= Wealth
  <2>1. CASE ConfirmFirst(partner[trade[c]])
    BY <1>1, <2>1 DEF ConfirmFirst
  <2>2. CASE ~ConfirmFirst(partner[trade[c]])
    <3>1. locked[partner[trade[c]]] /\ c \in Players
      BY <1>0, <1>6, <2>2 DEF CompleteTrade, ConfirmRefused, Exchange, Confirmed
    <3>2. \E d \in Players : Cancelled(c, d) \/ Exchanged(c, d)
      BY <1>6, <3>1, CompleteIs
    <3> QED BY <1>2, <3>1, <3>2
  <2> QED BY <2>1, <2>2
<1>7. ASSUME NEW c \in online, Leave(c) PROVE Wealth' <= Wealth
  <2>1. CASE trade[c] # Null
    BY <1>0, <1>2, <1>7, <2>1, CancelIs DEF Leave
  <2>2. CASE trade[c] = Null
    BY <1>1, <1>7, <2>2 DEF Leave, objects
  <2> QED BY <2>1, <2>2
<1>8. ASSUME NEW c \in Players \ online, Enter(c) PROVE Wealth' <= Wealth
  BY <1>1, <1>8 DEF Enter, objects
<1>9. ASSUME NEW c \in online, NEW m \in Amounts, InWindow(c), SetMeso(c, m)
      PROVE  Wealth' <= Wealth
  BY <1>0, <1>9, SetMesoWealth
<1>10. ASSUME NEW c \in online, NEW i \in Items,
              \/ (InWindow(c) /\ AddItem(c, i)) \/ PickUp(c, i) \/ Receive(c, i)
              \/ Drop(c, i) \/ Equip(c, i) \/ Unequip(c, i)
       PROVE  Wealth' <= Wealth
  BY <1>1, <1>10 DEF AddItem, PickUp, Receive, TakeFromGround, Drop, Equip, Unequip,
                     objects
<1>11. ASSUME NEW c \in online, NEW m \in Amounts, EarnMeso(c, m)
       PROVE  UNCHANGED <<trade, objects, inv, worn, ground>>
  BY <1>11 DEF EarnMeso
<1>12. CASE UNCHANGED vars
  BY <1>1, <1>12 DEF vars, objects
<1> QED
  BY <1>3, <1>4, <1>5, <1>6, <1>7, <1>8, <1>9, <1>10, <1>11, <1>12 DEF Next

(* In every behaviour all purses and trades together gain a meso only when *)
(* somebody earns it, whatever is offered, cancelled, declined, exchanged  *)
(* or left, as long as no trade's sum has overflowed.                      *)
THEOREM TradeMakesNoMeso == Spec => NoMesoFromNothing
<1>1. IInv /\ IInv' /\ [Next]_vars =>
        [(Wealth' > Wealth /\ \A t \in Objs : meso[t] >= 0) =>
            UNCHANGED <<trade, objects, inv, worn, ground>>]_vars
  <2> SUFFICES ASSUME IInv, IInv', [Next]_vars, Wealth' > Wealth, \A t \in Objs : meso[t] >= 0
               PROVE  UNCHANGED <<trade, objects, inv, worn, ground>>
    OBVIOUS
  <2>1. Wealth' <= Wealth \/ UNCHANGED <<trade, objects, inv, worn, ground>>
    BY StepWealth DEF IInv
  <2>2. Wealth \in Int /\ Wealth' \in Int
    BY WealthType DEF IInv
  <2> QED BY <2>1, <2>2
<1> QED
  BY <1>1, Inductive, PTL DEF Spec, NoMesoFromNothing
=============================================================================
