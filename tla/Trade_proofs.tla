---------------------------- MODULE Trade_proofs ----------------------------
(***************************************************************************)
(* The trade window of MapleTrade, for any number of players, items and    *)
(* trade objects and any capacity: its references are mutual and current,  *)
(* no item is in two places, no escrow is stranded, and no two partners    *)
(* wait for each other.                                                    *)
(***************************************************************************)
EXTENDS Trade, TLAPS

IInv ==
    /\ TypeOK
    /\ PartnersAgree
    /\ NothingStranded
    /\ NoDuplicate
    /\ NeverBothConfirmed
    /\ LockedHasPartner

(* The fee of an int is an int. *)
LEMMA FeeType == ASSUME NEW m \in Int PROVE Fee(m) \in Int
BY DEF Fee

(* A balance stays within an int whatever is credited to it. *)
LEMMA CreditType ==
    ASSUME NEW b \in 0 .. MaxInt, NEW g \in Int
    PROVE  Credit(b, g) \in 0 .. MaxInt
BY ConstantsOK DEF Credit

LEMMA WrapType == ASSUME NEW n \in Int PROVE Wrap(n) \in Int
BY ConstantsOK DEF Wrap

(* What is stored is part of what was offered. *)
LEMMA StoredSubset ==
    ASSUME NEW c, NEW S, NEW k \in Stored(c, S)
    PROVE  k \subseteq S
BY DEF Stored

(* Different characters have different trades. *)
LEMMA TradeOwner ==
    ASSUME PartnersAgree, NEW c \in Players, NEW d \in Players,
           trade[c] # Null, trade[c] = trade[d]
    PROVE  c = d
BY DEF PartnersAgree

(* The initial state. *)
LEMMA InitIInv == Init => IInv
<1> SUFFICES ASSUME Init PROVE IInv
  OBVIOUS
<1> USE ConstantsOK DEF Init
<1>1. TypeOK
  BY DEF TypeOK
<1>2. PartnersAgree /\ NothingStranded /\ NoDuplicate
  BY DEF PartnersAgree, NothingStranded, NoDuplicate, Live
<1>3. NeverBothConfirmed /\ LockedHasPartner
  BY DEF NeverBothConfirmed, LockedHasPartner, Live
<1> QED
  BY <1>1, <1>2, <1>3 DEF IInv

-----------------------------------------------------------------------------
(* How a step may end a trade: c's trade t and d's trade u are two linked  *)
(* trades, or one trade without a partner.                                 *)
Ends(c, t, d, u) ==
    /\ c \in Players /\ d \in Players
    /\ t = trade[c] /\ u = trade[d]
    /\ t # Null /\ u # Null
    /\ \/ c = d /\ partner[t] = Null
       \/ c # d /\ t # u /\ partner[t] = u /\ partner[u] = t

(* Cancelling and exchanging alike: two characters receive disjoint parts  *)
(* of the two escrows, which are emptied and forgotten.                    *)
LEMMA EndTrade ==
    ASSUME IInv, NEW c, NEW t, NEW d, NEW u, Ends(c, t, d, u),
           NEW S, NEW T, NEW m \in Int, NEW n \in Int,
           S \subseteq items[t] \cup items[u],
           T \subseteq items[t] \cup items[u],
           S \cap T = {},
           Deliver(c, S, m, d, T, n), Empty(t, u), Forget(c, d),
           UNCHANGED <<chr, partner, worn, ground>>,
           locked' \in [Objs -> BOOLEAN],
           \A o \in Objs : o # t => locked'[o] = locked[o],
           online' \subseteq Players,
           \A e \in online : e \notin {c, d} => e \in online',
           mesosTraded' \in [Players -> Int]
    PROVE  IInv'
<1> USE ConstantsOK
<1>0. /\ c \in Players /\ d \in Players /\ t \in Objs /\ u \in Objs
      /\ t = trade[c] /\ u = trade[d] /\ t # Null /\ u # Null
  BY DEF Ends, IInv, TypeOK
<1>1. PICK kc \in Stored(c, S), kd \in Stored(d, T) :
        inv' = [e \in Players |-> inv[e] \cup (IF e = c THEN kc ELSE {})
                                        \cup (IF e = d THEN kd ELSE {})]
  BY DEF Deliver
<1>2. kc \subseteq S /\ kd \subseteq T
  BY StoredSubset
<1>3. purse' = [e \in Players |-> IF e = c THEN Credit(purse[e], m)
                                  ELSE IF e = d THEN Credit(purse[e], n)
                                  ELSE purse[e]]
  BY DEF Deliver
<1>4. /\ items' = [items EXCEPT ![t] = {}, ![u] = {}]
      /\ meso' = [meso EXCEPT ![t] = 0, ![u] = 0]
  BY DEF Empty
<1>5. trade' = [trade EXCEPT ![c] = Null, ![d] = Null]
  BY DEF Forget
<1>6. TypeOK'
  <2>1. purse' \in [Players -> 0 .. MaxInt]
    <3>1. Credit(purse[c], m) \in 0 .. MaxInt
      BY <1>0, CreditType DEF IInv, TypeOK
    <3>2. \A b \in 0 .. MaxInt : Credit(b, n) \in 0 .. MaxInt
      BY CreditType
    <3> QED BY <1>0, <1>3, <3>1, <3>2 DEF IInv, TypeOK
  <2>2. inv' \in [Players -> SUBSET Items]
    <3>1. kc \subseteq Items /\ kd \subseteq Items
      BY <1>0, <1>2 DEF IInv, TypeOK
    <3> QED BY <1>0, <1>1, <3>1 DEF IInv, TypeOK
  <2>3. /\ items' \in [Objs -> SUBSET Items] /\ meso' \in [Objs -> Int]
        /\ trade' \in [Players -> Objs \cup {Null}]
    BY <1>0, <1>4, <1>5 DEF IInv, TypeOK
  <2> QED BY <2>1, <2>2, <2>3 DEF IInv, TypeOK
<1>7. \A e \in Players : trade'[e] # Null =>
        /\ e \notin {c, d}
        /\ trade'[e] = trade[e]
        /\ trade[e] \notin {t, u}
  BY <1>0, <1>5, TradeOwner DEF IInv, TypeOK
<1>8. Live' = Live \ {t, u}
  <2>1. \A e \in Players : e \notin {c, d} => trade'[e] = trade[e]
    BY <1>0, <1>5 DEF IInv, TypeOK
  <2>2. trade'[c] = Null /\ trade'[d] = Null
    BY <1>0, <1>5 DEF IInv, TypeOK
  <2> QED BY <1>0, <1>7, <2>1, <2>2 DEF Live
<1>9. PartnersAgree'
  <2> SUFFICES ASSUME NEW e \in Players, trade'[e] # Null
               PROVE  /\ e \in online'
                      /\ chr[trade[e]] = e
                      /\ partner[trade[e]] # Null =>
                           /\ partner[trade[e]] # trade[e]
                           /\ partner[partner[trade[e]]] = trade[e]
                           /\ chr[partner[trade[e]]] # Null
                           /\ trade'[chr[partner[trade[e]]]] = partner[trade[e]]
    BY <1>7 DEF PartnersAgree
  <2>1. trade[e] # Null /\ e \notin {c, d} /\ trade[e] \notin {t, u}
    BY <1>7
  <2>2. e \in online' /\ chr[trade[e]] = e
    BY <2>1 DEF IInv, PartnersAgree
  <2>3. ASSUME partner[trade[e]] # Null
        PROVE  trade'[chr[partner[trade[e]]]] = partner[trade[e]]
    <3> DEFINE p == partner[trade[e]]
               f == chr[p]
    <3>1. p \in Objs /\ f \in Players /\ trade[f] = p /\ partner[p] = trade[e]
      BY <2>1, <2>3 DEF IInv, PartnersAgree, TypeOK
    <3>2. p \notin {t, u}
      BY <3>1, <2>1, <1>0 DEF Ends, IInv, TypeOK
    <3>3. f \notin {c, d}
      BY <3>1, <3>2, <1>0
    <3> QED BY <3>1, <3>3, <1>0, <1>5 DEF IInv, TypeOK
  <2> QED BY <2>1, <2>2, <2>3 DEF IInv, PartnersAgree
<1>10. NothingStranded'
  BY <1>0, <1>4, <1>8 DEF IInv, NothingStranded, TypeOK
<1>11. NoDuplicate'
  <2>1. \A o \in Objs : items'[o] = IF o \in {t, u} THEN {} ELSE items[o]
    BY <1>0, <1>4 DEF IInv, TypeOK
  <2>2. \A e \in Players : inv'[e] \subseteq
            inv[e] \cup (IF e = c THEN S ELSE {}) \cup (IF e = d THEN T ELSE {})
    BY <1>0, <1>1, <1>2 DEF IInv, TypeOK
  <2>3. /\ \A e, f \in Players : e # f => inv[e] \cap inv[f] = {}
        /\ \A o, q \in Objs : o # q => items[o] \cap items[q] = {}
        /\ \A e \in Players, o \in Objs : inv[e] \cap items[o] = {}
        /\ \A e \in Players : inv[e] \cap ground = {}
        /\ \A o \in Objs : items[o] \cap ground = {}
        /\ worn \cap ground = {} /\ \A o \in Objs : worn \cap items[o] = {}
    BY DEF IInv, NoDuplicate
  <2>4. \A e, f \in Players : e # f => inv'[e] \cap inv'[f] = {}
    BY <1>0, <2>2, <2>3
  <2>5. \A o, q \in Objs : o # q => items'[o] \cap items'[q] = {}
    BY <2>1, <2>3
  <2>6. \A e \in Players, o \in Objs : inv'[e] \cap items'[o] = {}
    BY <1>0, <2>1, <2>2, <2>3
  <2>7. \A e \in Players : inv'[e] \cap ground = {}
    BY <1>0, <2>2, <2>3
  <2>8. \A o \in Objs : items'[o] \cap ground = {} /\ worn \cap items'[o] = {}
    BY <2>1, <2>3
  <2> QED BY <2>3, <2>4, <2>5, <2>6, <2>7, <2>8 DEF NoDuplicate
<1>12. NeverBothConfirmed' /\ LockedHasPartner'
  <2>0. Live \subseteq Objs
    BY DEF Live, IInv, TypeOK
  <2>1. \A o \in Live' : o \in Live /\ o # t /\ o \in Objs
    BY <1>8, <2>0
  <2>2. \A o \in Live' : partner[o] # Null => partner[o] # t /\ partner[o] \in Objs
    <3> SUFFICES ASSUME NEW o \in Live', partner[o] # Null
                 PROVE  partner[o] # t /\ partner[o] \in Objs
      OBVIOUS
    <3>1. PICK e \in Players : o = trade[e] /\ trade[e] # Null
      BY <2>1 DEF Live
    <3>2. partner[partner[o]] = o /\ partner[o] \in Objs
      BY <2>1, <3>1 DEF IInv, PartnersAgree, TypeOK
    <3>3. o \notin {t, u}
      BY <1>8
    <3> QED BY <3>2, <3>3, <1>0, <3>1 DEF Ends
  <2> QED BY <2>1, <2>2 DEF IInv, NeverBothConfirmed, LockedHasPartner
<1> QED
  BY <1>6, <1>9, <1>10, <1>11, <1>12 DEF IInv

(* cancelTrade, whoever calls it. *)
LEMMA CancelStep ==
    ASSUME IInv, NEW c \in Players, trade[c] # Null, CancelTrade(c),
           locked' \in [Objs -> BOOLEAN],
           \A o \in Objs : o # trade[c] => locked'[o] = locked[o],
           online' \subseteq Players,
           \A e \in online : e # c => e \in online',
           mesosTraded' \in [Players -> Int]
    PROVE  IInv'
<1> DEFINE t == trade[c]
           p == partner[t]
<1>0. t \in Objs /\ meso[t] \in Int /\ p \in Objs \cup {Null}
  BY DEF IInv, TypeOK
<1>1. CASE p = Null
  <2>1. CancelAlone(c, t)
    BY <1>1 DEF CancelTrade
  <2>2. Ends(c, t, c, t)
    BY <1>0, <1>1 DEF Ends
  <2>3. /\ Deliver(c, items[t], meso[t], c, {}, 0)
        /\ Empty(t, t) /\ Forget(c, c) /\ UNCHANGED <<chr, partner, worn, ground>>
    BY <2>1 DEF CancelAlone
  <2> QED
    BY <1>0, <2>2, <2>3, EndTrade
<1>2. CASE p # Null
  <2> DEFINE d == chr[p]
  <2>1. CancelBoth(c, t, d, p)
    BY <1>2 DEF CancelTrade
  <2>2. /\ p # t /\ partner[p] = t /\ d \in Players /\ trade[d] = p
        /\ p \in Objs /\ meso[p] \in Int
    BY <1>0, <1>2 DEF IInv, PartnersAgree, TypeOK
  <2>3. Ends(c, t, d, p)
    BY <1>2, <2>2 DEF Ends
  <2>4. items[t] \cap items[p] = {}
    BY <1>0, <2>2 DEF IInv, NoDuplicate
  <2>5. /\ Deliver(c, items[t], meso[t], d, items[p], meso[p])
        /\ Empty(t, p) /\ Forget(c, d) /\ UNCHANGED <<chr, partner, worn, ground>>
    BY <2>1 DEF CancelBoth
  <2>6. \A e \in online : e \notin {c, d} => e \in online'
    OBVIOUS
  <2> HIDE DEF d, t, p
  <2>7. \A o \in Objs : o # t => locked'[o] = locked[o]
    BY DEF t
  <2> QED
    BY <1>0, <2>2, <2>3, <2>4, <2>5, <2>6, <2>7, EndTrade
<1> QED
  BY <1>1, <1>2

(* declineTrade cancels the same two trades as cancelTrade. *)
LEMMA DeclineIsCancel ==
    ASSUME IInv, NEW c \in Players, trade[c] # Null, DeclineTrade(c)
    PROVE  CancelTrade(c) /\ UNCHANGED <<online, mesosTraded, locked>>
BY DEF DeclineTrade, CancelTrade, IInv, PartnersAgree, TypeOK

-----------------------------------------------------------------------------
(* A new trade for c, without a partner (b = Null) or linked both ways to  *)
(* a trade b that has none.                                                *)
LEMMA NewTradeStep ==
    ASSUME IInv, NEW c \in online, NEW t \in Objs, NEW b \in Live \cup {Null},
           trade[c] = Null, NewTrade(t, c),
           b # Null => partner[b] = Null,
           partner' = [o \in Objs |-> IF o = t THEN b
                                      ELSE IF o = b THEN t ELSE partner[o]],
           UNCHANGED <<online, inv, worn, purse, mesosTraded, ground>>
    PROVE  IInv'
<1> USE ConstantsOK
<1>0. c \in Players /\ t # Null /\ t \notin Live /\ b # t
  BY DEF IInv, TypeOK, NewTrade, Fresh, Live
<1>1. Live \subseteq Objs /\ b \in Objs \cup {Null}
  BY DEF Live, IInv, TypeOK
<1>2. \A u \in Live : partner[u] # t
  BY DEF NewTrade, Fresh
<1>3. TypeOK'
  BY <1>0, <1>1 DEF NewTrade, IInv, TypeOK
<1>4. \A e \in Players : trade'[e] = IF e = c THEN t ELSE trade[e]
  BY <1>0 DEF NewTrade, IInv, TypeOK
<1>5. Live' = Live \cup {t}
  BY <1>0, <1>4 DEF Live
<1>6. /\ \A o \in Objs : chr'[o] = IF o = t THEN c ELSE chr[o]
      /\ \A o \in Objs : items'[o] = IF o = t THEN {} ELSE items[o]
      /\ \A o \in Objs : meso'[o] = IF o = t THEN 0 ELSE meso[o]
      /\ \A o \in Objs : locked'[o] = IF o = t THEN FALSE ELSE locked[o]
  BY <1>0 DEF NewTrade, IInv, TypeOK
<1>7. PartnersAgree'
  <2> SUFFICES ASSUME NEW e \in Players, trade'[e] # Null
               PROVE  /\ e \in online
                      /\ chr'[trade'[e]] = e
                      /\ partner'[trade'[e]] # Null =>
                           /\ partner'[trade'[e]] # trade'[e]
                           /\ partner'[partner'[trade'[e]]] = trade'[e]
                           /\ chr'[partner'[trade'[e]]] # Null
                           /\ trade'[chr'[partner'[trade'[e]]]] = partner'[trade'[e]]
    BY DEF PartnersAgree
  <2>1. b # Null => \E f \in Players : /\ f # c /\ trade[f] = b /\ chr[b] = f
                                       /\ b \in Objs
    BY <1>1 DEF Live, IInv, PartnersAgree
  <2>2. CASE e = c
    <3>1. trade'[c] = t /\ chr'[t] = c /\ partner'[t] = b
      BY <1>0, <1>4, <1>6
    <3>2. ASSUME b # Null
          PROVE  /\ partner'[b] = t /\ chr'[b] # Null
                 /\ trade'[chr'[b]] = b
      <4>1. PICK f \in Players : f # c /\ trade[f] = b /\ chr[b] = f /\ b \in Objs
        BY <2>1, <3>2
      <4>2. partner'[b] = t /\ chr'[b] = f /\ f # Null
        BY <4>1, <1>0, <1>6
      <4> QED BY <4>1, <4>2, <1>4
    <3> QED BY <3>1, <3>2, <2>2, <1>0
  <2>3. CASE e # c
    <3> DEFINE o == trade[e]
    <3>1. o # Null /\ trade'[e] = o /\ o \in Live /\ o \in Objs /\ o # t
      BY <2>3, <1>0, <1>1, <1>4 DEF Live
    <3>2. e \in online /\ chr'[o] = e
      BY <3>1, <1>6 DEF IInv, PartnersAgree
    <3>3. CASE o = b
      <4>1. partner'[o] = t /\ partner'[t] = o /\ chr'[t] = c /\ trade'[c] = t
        BY <3>1, <3>3, <1>0, <1>4, <1>6
      <4> QED BY <3>1, <3>2, <4>1, <1>0
    <3>4. CASE o # b
      <4>1. partner'[o] = partner[o]
        BY <3>1, <3>4
      <4>2. ASSUME partner[o] # Null
            PROVE  /\ partner[o] # o /\ partner[o] \in Objs
                   /\ partner'[partner[o]] = o
                   /\ chr'[partner[o]] # Null
                   /\ trade'[chr'[partner[o]]] = partner[o]
        <5> DEFINE q == partner[o]
        <5>1. /\ q # o /\ q \in Objs /\ partner[q] = o
              /\ chr[q] \in Players /\ trade[chr[q]] = q
          BY <4>2, <3>1 DEF IInv, PartnersAgree, TypeOK
        <5>2. q # t
          BY <3>1, <1>2
        <5>3. q # b
          BY <5>1, <3>1
        <5>4. partner'[q] = o /\ chr'[q] = chr[q] /\ chr[q] # c
          BY <5>1, <5>2, <5>3, <1>6
        <5> QED BY <5>1, <5>4, <1>4
      <4> QED BY <3>1, <3>2, <4>1, <4>2
    <3> QED BY <3>3, <3>4
  <2> QED BY <2>2, <2>3
<1>8. NothingStranded'
  BY <1>5, <1>6 DEF IInv, NothingStranded
<1>9. NoDuplicate'
  BY <1>6 DEF IInv, NoDuplicate
<1>10. NeverBothConfirmed' /\ LockedHasPartner'
  <2>1. \A o \in Live' : o \in Objs
    BY <1>1, <1>5
  <2>2. \A o \in Live' : partner'[o] # Null /\ o # t /\ o # b =>
            partner'[o] = partner[o] /\ partner[o] # t /\ partner[o] \in Objs
    BY <1>1, <1>2, <1>5 DEF IInv, TypeOK
  <2> QED
    BY <1>0, <1>1, <1>5, <1>6, <2>1, <2>2 DEF IInv, NeverBothConfirmed, LockedHasPartner
<1> QED
  BY <1>3, <1>7, <1>8, <1>9, <1>10 DEF IInv

-----------------------------------------------------------------------------
(* inviteTrade from a window in which nobody else sits. *)
LEMMA InviteStep ==
    ASSUME IInv, NEW c1 \in online, NEW c2 \in online, c1 # c2, Alone(c1),
           InviteTrade(c1, c2)
    PROVE  IInv'
<1>0. /\ c1 \in Players /\ c2 \in Players /\ trade[c1] # Null
      /\ trade[c1] \in Live /\ trade[c1] \in Objs /\ partner[trade[c1]] = Null
      /\ ~locked[trade[c1]]
  BY DEF Alone, InWindow, IInv, TypeOK, Live, LockedHasPartner
<1>1. CASE trade[c2] # Null
  BY <1>0, <1>1, CancelStep DEF InviteTrade, ExitTrade, IInv, TypeOK
<1>2. CASE trade[c2] = Null
  <2>1. PICK t \in Objs :
          /\ NewTrade(t, c2)
          /\ partner' = [partner EXCEPT
                ![t] = trade[c1],
                ![trade[c1]] = IF locked[trade[c1]] THEN @ ELSE t]
    BY <1>2 DEF InviteTrade
  <2>2. UNCHANGED <<online, inv, worn, purse, mesosTraded, ground>>
    BY <1>2 DEF InviteTrade
  <2>3. partner' = [o \in Objs |-> IF o = t THEN trade[c1]
                                   ELSE IF o = trade[c1] THEN t ELSE partner[o]]
    <3>1. t # trade[c1]
      BY <1>0, <2>1 DEF NewTrade, Fresh
    <3> QED BY <1>0, <2>1, <3>1 DEF IInv, TypeOK
  <2> QED
    BY <1>0, <1>2, <2>1, <2>2, <2>3, NewTradeStep, ZenonT(60)
<1> QED
  BY <1>1, <1>2

(* completeTrade with a partner in the window. *)
LEMMA CompleteStep ==
    ASSUME IInv, NEW c \in online, Paired(c), CompleteTrade(c)
    PROVE  IInv'
<1> DEFINE t == trade[c]
           p == partner[t]
           d == chr[p]
<1>0. /\ c \in Players /\ t # Null /\ t \in Objs /\ p # Null /\ p \in Objs
      /\ p # t /\ partner[p] = t /\ d \in Players /\ trade[d] = p /\ chr[t] = c
  BY DEF Paired, InWindow, IInv, TypeOK, PartnersAgree
<1>1. locked' = [locked EXCEPT ![t] = TRUE] /\ online' = online
  BY DEF CompleteTrade
<1>2. /\ locked' \in [Objs -> BOOLEAN]
      /\ \A o \in Objs : o # t => locked'[o] = locked[o]
      /\ online' \subseteq Players
  BY <1>0, <1>1 DEF IInv, TypeOK
<1>3. CASE ConfirmFirst(p)
  <2>1. UNCHANGED <<trade, chr, partner, items, meso, inv, worn, purse,
                    mesosTraded, ground>> /\ ~locked[p]
    BY <1>3 DEF ConfirmFirst, Confirmed
  <2>2. TypeOK'
    BY <1>2, <2>1 DEF IInv, TypeOK
  <2>3. PartnersAgree' /\ NothingStranded' /\ NoDuplicate'
    BY <1>1, <2>1 DEF IInv, PartnersAgree, NothingStranded, NoDuplicate, Live
  <2>4. Live' = Live /\ Live \subseteq Objs
    BY <2>1 DEF Live, IInv, TypeOK
  <2>5. \A o \in Live : partner[o] = t => o = p
    BY <1>0 DEF Live, IInv, PartnersAgree
  <2>6. NeverBothConfirmed'
    <3> SUFFICES ASSUME NEW o \in Live, partner[o] # Null
                 PROVE  ~(locked'[o] /\ locked'[partner[o]])
      BY <2>1, <2>4 DEF NeverBothConfirmed
    <3>1. partner[o] \in Objs /\ o \in Objs
      BY <2>4 DEF IInv, TypeOK
    <3>2. CASE o = t
      BY <3>2, <1>0, <1>1, <1>2, <2>1
    <3>3. CASE partner[o] = t
      BY <3>3, <1>0, <1>1, <1>2, <2>1, <2>5
    <3>4. CASE o # t /\ partner[o] # t
      BY <3>1, <3>4, <1>2 DEF IInv, NeverBothConfirmed
    <3> QED BY <3>2, <3>3, <3>4
  <2>7. LockedHasPartner'
    BY <1>0, <1>2, <2>1, <2>4 DEF IInv, LockedHasPartner
  <2> QED
    BY <2>2, <2>3, <2>6, <2>7 DEF IInv
<1>4. CASE ConfirmRefused(c, p)
  BY <1>0, <1>2, <1>1, <1>4, CancelStep DEF ConfirmRefused, IInv, TypeOK
<1>5. CASE Exchange(c, t, p)
  <2>1. /\ Deliver(c, items[p], NetMeso(p), d, items[t], NetMeso(t))
        /\ Empty(t, p) /\ Forget(c, d) /\ UNCHANGED <<chr, partner, worn, ground>>
    BY <1>0, <1>5 DEF Exchange
  <2>2. NetMeso(p) \in Int /\ NetMeso(t) \in Int
    BY <1>0, FeeType DEF NetMeso, IInv, TypeOK
  <2>3. Ends(c, t, d, p)
    BY <1>0 DEF Ends
  <2>4. items[p] \cap items[t] = {}
    BY <1>0 DEF IInv, NoDuplicate
  <2>5. mesosTraded' \in [Players -> Int]
    <3>1. mesosTraded' = [mesosTraded EXCEPT
              ![c] = IF c \in LowLevel THEN Wrap(@ + meso[p]) ELSE @]
      BY <1>5 DEF Exchange
    <3>2. Wrap(mesosTraded[c] + meso[p]) \in Int
      BY <1>0, WrapType DEF IInv, TypeOK
    <3> QED BY <3>1, <3>2 DEF IInv, TypeOK
  <2>6. \A e \in online : e \notin {c, d} => e \in online'
    BY <1>1
  <2> HIDE DEF d, t, p
  <2> QED
    BY <1>2, <2>1, <2>2, <2>3, <2>4, <2>5, <2>6, EndTrade
<1> QED
  BY <1>3, <1>4, <1>5 DEF CompleteTrade

(* The steps that move an item or mesos and leave the references alone. *)
LEMMA MoveStep ==
    ASSUME IInv, NEW c \in online,
           \/ \E m \in Amounts : InWindow(c) /\ SetMeso(c, m)
           \/ \E i \in Items : InWindow(c) /\ AddItem(c, i)
           \/ \E i \in Items : PickUp(c, i) \/ Receive(c, i)
           \/ \E i \in Items : Drop(c, i)
           \/ \E i \in Items : Equip(c, i) \/ Unequip(c, i)
           \/ \E m \in Amounts : EarnMeso(c, m)
    PROVE  IInv'
<1> USE ConstantsOK
<1>0. c \in Players
  BY DEF IInv, TypeOK
<1>1. UNCHANGED <<online, trade, chr, partner, locked, mesosTraded>>
  BY DEF SetMeso, AddItem, PickUp, Receive, TakeFromGround, Drop, Equip, Unequip,
         EarnMeso, objects
<1>2. PartnersAgree' /\ NeverBothConfirmed' /\ LockedHasPartner' /\ Live' = Live
  BY <1>1 DEF IInv, PartnersAgree, NeverBothConfirmed, LockedHasPartner, Live
<1>3. ASSUME NEW m \in Amounts, InWindow(c), SetMeso(c, m) PROVE IInv'
  <2>1. /\ trade[c] \in Objs /\ trade[c] \in Live
        /\ m \in Int /\ m >= 0 /\ m <= purse[c]
    BY <1>0, <1>3 DEF InWindow, SetMeso, MayAdd, IInv, TypeOK, Live
  <2>2. /\ purse' = [purse EXCEPT ![c] = @ - m]
        /\ meso' = [meso EXCEPT ![trade[c]] = Wrap(@ + m)]
        /\ UNCHANGED <<items, inv, worn, ground>>
    BY <1>3 DEF SetMeso
  <2>3. purse' \in [Players -> 0 .. MaxInt]
    BY <1>0, <2>1, <2>2 DEF IInv, TypeOK
  <2>4. meso' \in [Objs -> Int]
    <3>1. Wrap(meso[trade[c]] + m) \in Int
      BY <2>1, WrapType DEF IInv, TypeOK
    <3> QED BY <2>1, <2>2, <3>1 DEF IInv, TypeOK
  <2>5. TypeOK'
    BY <1>1, <2>2, <2>3, <2>4 DEF IInv, TypeOK
  <2>6. NothingStranded' /\ NoDuplicate'
    BY <1>2, <2>1, <2>2 DEF IInv, NothingStranded, NoDuplicate, TypeOK
  <2> QED
    BY <1>2, <2>5, <2>6 DEF IInv
<1>4. ASSUME NEW i \in Items, InWindow(c), AddItem(c, i) PROVE IInv'
  <2>1. trade[c] \in Objs /\ trade[c] \in Live
    BY <1>0, <1>4 DEF InWindow, IInv, TypeOK, Live
  <2>2. /\ i \in inv[c] /\ i \notin worn /\ inv' = [inv EXCEPT ![c] = @ \ {i}]
        /\ items' = [items EXCEPT ![trade[c]] = @ \cup {i}]
        /\ UNCHANGED <<meso, worn, purse, ground>>
    BY <1>4 DEF AddItem, Bag
  <2>3. TypeOK'
    BY <1>0, <1>1, <2>1, <2>2 DEF IInv, TypeOK
  <2>4. NothingStranded'
    BY <1>2, <2>1, <2>2 DEF IInv, NothingStranded, TypeOK
  <2>5. NoDuplicate'
    <3>1. \A e \in Players : inv'[e] = IF e = c THEN inv[e] \ {i} ELSE inv[e]
      BY <1>0, <2>2 DEF IInv, TypeOK
    <3>2. \A o \in Objs : items'[o] =
            IF o = trade[c] THEN items[o] \cup {i} ELSE items[o]
      BY <2>1, <2>2 DEF IInv, TypeOK
    <3>3. UNCHANGED <<worn, ground>> /\ i \notin worn /\ i \notin ground
      BY <1>0, <2>2 DEF IInv, NoDuplicate
    <3> QED BY <1>0, <2>1, <2>2, <3>1, <3>2, <3>3 DEF IInv, NoDuplicate
  <2> QED
    BY <1>2, <2>3, <2>4, <2>5 DEF IInv
<1>5. ASSUME NEW i \in Items, PickUp(c, i) \/ Receive(c, i) PROVE IInv'
  <2>1. /\ i \in ground /\ ground' = ground \ {i}
        /\ inv' = [inv EXCEPT ![c] = @ \cup {i}]
        /\ UNCHANGED <<items, meso, worn, purse>>
    BY <1>5 DEF PickUp, Receive, TakeFromGround, objects
  <2>2. TypeOK' /\ NothingStranded'
    BY <1>0, <1>1, <1>2, <2>1 DEF IInv, TypeOK, NothingStranded
  <2>3. NoDuplicate'
    BY <1>0, <2>1 DEF IInv, NoDuplicate, TypeOK
  <2> QED
    BY <1>2, <2>2, <2>3 DEF IInv
<1>6. ASSUME NEW i \in Items, Drop(c, i) PROVE IInv'
  <2>1. /\ i \in inv[c] /\ ground' = ground \cup {i}
        /\ inv' = [inv EXCEPT ![c] = @ \ {i}]
        /\ worn' = worn \ {i}
        /\ UNCHANGED <<items, meso, purse>>
    BY <1>6 DEF Drop, objects
  <2>2. TypeOK' /\ NothingStranded'
    BY <1>0, <1>1, <1>2, <2>1 DEF IInv, TypeOK, NothingStranded
  <2>3. NoDuplicate'
    BY <1>0, <2>1 DEF IInv, NoDuplicate, TypeOK
  <2> QED
    BY <1>2, <2>2, <2>3 DEF IInv
<1>7. ASSUME NEW m \in Amounts, EarnMeso(c, m) PROVE IInv'
  <2>1. purse' = [purse EXCEPT ![c] = Credit(@, m)] /\ UNCHANGED <<items, meso, inv, worn, ground>>
    BY <1>7 DEF EarnMeso, objects
  <2>2. purse' \in [Players -> 0 .. MaxInt]
    <3>1. Credit(purse[c], m) \in 0 .. MaxInt
      BY <1>0, CreditType DEF IInv, TypeOK
    <3> QED BY <1>0, <2>1, <3>1 DEF IInv, TypeOK
  <2>3. TypeOK' /\ NothingStranded' /\ NoDuplicate'
    BY <1>1, <1>2, <2>1, <2>2 DEF IInv, TypeOK, NothingStranded, NoDuplicate
  <2> QED
    BY <1>2, <2>3 DEF IInv
<1>8. ASSUME NEW i \in Items, Equip(c, i) \/ Unequip(c, i) PROVE IInv'
  <2>1. UNCHANGED <<items, meso, inv, purse, ground>>
    BY <1>8 DEF Equip, Unequip, objects
  <2>2. worn' \subseteq Items
    BY <1>8 DEF Equip, Unequip, IInv, TypeOK
  <2>3. worn' \cap ground = {} /\ \A o \in Objs : worn' \cap items[o] = {}
    <3>1. worn' \subseteq worn \cup inv[c]
      BY <1>8 DEF Equip, Unequip, Bag
    <3> QED BY <1>0, <3>1 DEF IInv, NoDuplicate
  <2>4. TypeOK' /\ NothingStranded'
    BY <1>1, <1>2, <2>1, <2>2 DEF IInv, TypeOK, NothingStranded
  <2>5. NoDuplicate'
    BY <2>1, <2>3 DEF IInv, NoDuplicate
  <2> QED
    BY <1>2, <2>4, <2>5 DEF IInv
<1> QED
  BY <1>3, <1>4, <1>5, <1>6, <1>7, <1>8

(* Every step of the trade window keeps the invariant. *)
LEMMA NextIInv == IInv /\ [Next]_vars => IInv'
<1> SUFFICES ASSUME IInv, [Next]_vars PROVE IInv'
  OBVIOUS
<1> USE ConstantsOK
<1>0. online \subseteq Players
  BY DEF IInv, TypeOK
<1>1. ASSUME NEW c \in online, StartTrade(c) PROVE IInv'
  <2>1. PICK t \in Objs : NewTrade(t, c) /\ partner' = [partner EXCEPT ![t] = Null]
    BY <1>1 DEF StartTrade
  <2>2. partner' = [o \in Objs |-> IF o = t THEN Null
                                   ELSE IF o = Null THEN t ELSE partner[o]]
    <3>1. t \in Objs /\ Null \notin Objs /\ partner \in [Objs -> Objs \cup {Null}]
      BY DEF IInv, TypeOK
    <3>2. partner' = [o \in Objs |-> IF o = t THEN Null ELSE partner[o]]
      BY <2>1, <3>1
    <3> QED BY <3>1, <3>2, Zenon
  <2>3. trade[c] = Null /\ UNCHANGED <<online, inv, worn, purse, mesosTraded, ground>>
    BY <1>1 DEF StartTrade
  <2>4. Null \in Live \cup {Null}
    OBVIOUS
  <2> QED
    BY <2>1, <2>2, <2>3, <2>4, NewTradeStep
<1>2. ASSUME NEW c1 \in online, NEW c2 \in online \ {c1},
             Alone(c1), InviteTrade(c1, c2)
      PROVE IInv'
  BY <1>2, InviteStep
<1>3. ASSUME NEW c \in online, InWindow(c), DeclineTrade(c) PROVE IInv'
  BY <1>0, <1>3, DeclineIsCancel, CancelStep DEF InWindow, IInv, TypeOK
<1>4. ASSUME NEW c \in online, InWindow(c), ExitTrade(c) PROVE IInv'
  BY <1>0, <1>4, CancelStep DEF InWindow, ExitTrade, IInv, TypeOK
<1>5. ASSUME NEW c \in online, Paired(c), CompleteTrade(c) PROVE IInv'
  BY <1>5, CompleteStep
<1>6. ASSUME NEW c \in online, Leave(c) PROVE IInv'
  <2>1. CASE trade[c] # Null
    BY <1>0, <1>6, <2>1, CancelStep DEF Leave, IInv, TypeOK
  <2>2. CASE trade[c] = Null
    <3>1. /\ UNCHANGED <<trade, chr, partner, items, meso, locked, inv, worn,
                         purse, ground, mesosTraded>>
          /\ online' = online \ {c}
      BY <1>6, <2>2 DEF Leave, objects
    <3>2. TypeOK' /\ PartnersAgree'
      BY <2>2, <3>1 DEF IInv, TypeOK, PartnersAgree
    <3> QED
      BY <3>1, <3>2 DEF IInv, NothingStranded, NoDuplicate, NeverBothConfirmed,
                        LockedHasPartner, Live
  <2> QED
    BY <2>1, <2>2
<1>7. ASSUME NEW c \in Players \ online, Enter(c) PROVE IInv'
  <2>1. /\ UNCHANGED <<trade, chr, partner, items, meso, locked, inv, worn, purse,
                       ground>>
        /\ online' = online \cup {c}
        /\ mesosTraded' = [mesosTraded EXCEPT ![c] = 0]
    BY <1>7 DEF Enter, objects
  <2>2. TypeOK' /\ PartnersAgree'
    <3>1. TypeOK'
      BY <1>0, <1>7, <2>1 DEF IInv, TypeOK
    <3>2. PartnersAgree'
      BY <2>1 DEF IInv, PartnersAgree
    <3> QED BY <3>1, <3>2
  <2> QED
    BY <2>1, <2>2 DEF IInv, NothingStranded, NoDuplicate, NeverBothConfirmed,
                      LockedHasPartner, Live
<1>8. ASSUME NEW c \in online,
             \/ \E m \in Amounts : InWindow(c) /\ SetMeso(c, m)
             \/ \E i \in Items : InWindow(c) /\ AddItem(c, i)
             \/ \E i \in Items : PickUp(c, i) \/ Receive(c, i)
             \/ \E i \in Items : Drop(c, i)
             \/ \E i \in Items : Equip(c, i) \/ Unequip(c, i)
             \/ \E m \in Amounts : EarnMeso(c, m)
      PROVE IInv'
  BY <1>8, MoveStep
<1>9. CASE UNCHANGED vars
  BY <1>9 DEF vars, objects, IInv, TypeOK, PartnersAgree, NothingStranded,
              NoDuplicate, NeverBothConfirmed, LockedHasPartner, Live
<1> QED
  BY <1>1, <1>2, <1>3, <1>4, <1>5, <1>6, <1>7, <1>8, <1>9 DEF Next

(* The inductive invariant holds in every reachable state. *)
LEMMA Inductive == Spec => []IInv
BY InitIInv, NextIInv, PTL DEF Spec

(* Every field keeps its type; in particular no purse leaves 0 .. MaxInt,  *)
(* whatever is put in, given back or paid out by setMeso, cancel and       *)
(* complete2.                                                              *)
THEOREM TradeTypes == Spec => []TypeOK
<1>1. IInv => TypeOK
  BY DEF IInv
<1> QED
  BY <1>1, Inductive, PTL

(* The trades that cancel, decline and complete reach through partner and  *)
(* chr are always the ones their characters are in now.                    *)
THEOREM TradePartners == Spec => []PartnersAgree
<1>1. IInv => PartnersAgree
  BY DEF IInv
<1> QED
  BY <1>1, Inductive, PTL

(* What a player has put in a trade is never left in a trade object that   *)
(* no character refers to: every way a trade ends empties it first.        *)
THEOREM TradeStrandsNothing == Spec => []NothingStranded
<1>1. IInv => NothingStranded
  BY DEF IInv
<1> QED
  BY <1>1, Inductive, PTL

(* No sequence of trade operations puts one stack in two places, and none  *)
(* leaves a stack or mesos in a trade object nobody refers to.             *)
THEOREM TradeKeepsItems == Spec => [](NoDuplicate /\ NothingStranded)
<1>1. IInv => NoDuplicate /\ NothingStranded
  BY DEF IInv
<1> QED
  BY <1>1, Inductive, PTL

(* Two partners never wait for each other after both have confirmed.       *)
THEOREM TradeConfirms == Spec => []NeverBothConfirmed
<1>1. IInv => NeverBothConfirmed
  BY DEF IInv
<1> QED
  BY <1>1, Inductive, PTL
=============================================================================
