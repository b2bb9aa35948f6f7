-------------------------- MODULE MapObjects_proofs --------------------------
(***************************************************************************)
(* Proof that the ids of a map's objects and characters lead to them, for  *)
(* any number of threads, objects and characters and any range of ids, but *)
(* for the ids that were contested.                                        *)
(***************************************************************************)
EXTENDS MapObjects, TLAPS

Busy(t) == at[t] # "idle"
Counting(t) == at[t] \in {"read", "write", "test", "wrap", "check"}

(* What the threads hold in their hands. *)
Hands ==
    /\ \A t \in Threads : Busy(t) <=> on[t] # None
    /\ \A t \in Threads : Busy(t) => id[on[t]] # None
    /\ \A t \in Threads : at[t] = "put" => on[t] \notin gone
    /\ \A t, u \in Threads : (Busy(t) /\ on[t] = on[u]) => t = u
    /\ \A o \in gone : id[o] # None

(* Threads that are busy at the same time have given contested ids; who    *)
(* has given another one enters the object under it.                       *)
Rivals ==
    /\ \A t, u \in Threads : (t # u /\ Busy(t) /\ Busy(u)) => id[on[t]] \in contested
    /\ \A t \in Threads :
          (at[t] = "put" /\ id[on[t]] \notin contested) => id[on[t]] = runningOid

(* The next id is free or contested, unless a thread is about to see.      *)
NextFree ==
    \/ runningOid \in DOMAIN table => runningOid \in contested
    \/ \E t \in Threads : Counting(t)

(* What the table holds, and under which id. *)
Entries ==
    /\ \A k \in DOMAIN table : table[k] \in Objects =>
          /\ id[table[k]] # None
          /\ id[table[k]] \notin contested => id[table[k]] = k
    /\ \A k \in DOMAIN table : table[k] \in Characters => CharId[table[k]] = k
    /\ FoundById

IdInv == TypeOK /\ Hands /\ Rivals /\ NextFree /\ Entries

LEMMA IdInit == Init => IdInv
<1> SUFFICES ASSUME Init PROVE IdInv
  OBVIOUS
<1>1. DOMAIN table = {}
  BY DEF Init
<1> QED
  BY <1>1, OidConstants DEF Init, IdInv, TypeOK, Hands, Rivals, Busy, NextFree,
     Entries, FoundById, Placed

LEMMA ContendTypes ==
    ASSUME IdInv, NEW t \in Threads
    PROVE  Contend(t) \subseteq Nat
<1>1. \A u \in Others(t) : id[on[u]] \in Nat
  BY OidConstants DEF IdInv, TypeOK, Others, Hands, Busy
<1>2. ASSUME NEW k \in Contend(t) PROVE k \in Nat
  <2>1. CASE k = runningOid
    BY <2>1 DEF IdInv, TypeOK
  <2>2. CASE k # runningOid
    BY <1>1, <1>2, <2>2, Zenon DEF Contend
  <2> QED BY <2>1, <2>2
<1> QED BY <1>2

(* A thread reads runningOid for a new object. *)
LEMMA SetIdKeeps ==
    ASSUME IdInv, NEW t \in Threads, NEW o \in Objects, SetId(t, o),
           writer' \in Threads \cup {None}
    PROVE  IdInv'
<1> USE OidConstants DEF IdInv, TypeOK
<1>1. /\ at[t] = "idle" /\ id[o] = None /\ runningOid \in Nat
      /\ at'[t] = "put" /\ on'[t] = o /\ id'[o] = runningOid
      /\ \A u \in Threads : u # t => at'[u] = at[u] /\ on'[u] = on[u]
      /\ \A p \in Objects : p # o => id'[p] = id[p]
      /\ contested \subseteq contested'
      /\ UNCHANGED <<table, runningOid, tmp, gone, present>>
  BY DEF SetId, Goto
<1>2. \A u \in Threads : u # t /\ Busy(u) =>
        id[on[u]] \in contested' /\ runningOid \in contested' /\ on[u] # o
  BY <1>1 DEF SetId, Contend, Others, Busy, Hands
<1>3. TypeOK'
  <2>1. contested' \subseteq Nat
    <3>1. contested' = contested \cup Contend(t)
      BY DEF SetId
    <3> QED BY <3>1, ContendTypes DEF IdInv
  <2> QED BY <1>1, <2>1 DEF SetId, Goto
<1>4. Hands'
  BY <1>1, <1>2 DEF Hands, Busy
<1>5. Rivals'
  BY <1>1, <1>2 DEF Rivals, Hands, Busy
<1>6. NextFree'
  BY <1>1 DEF NextFree, Counting
<1>7. \A p \in Objects : p # o => (Entering(p)' <=> Entering(p))
  BY <1>1 DEF Entering
<1>8. \A k \in DOMAIN table : table[k] # o
  BY <1>1 DEF Entries
<1>9. Entering(o)' /\ o \notin gone
  BY <1>1 DEF Entering, Hands
<1>10. Entries'
  <2>1. \A k \in DOMAIN table : table[k] \in Objects =>
          /\ id'[table[k]] # None
          /\ id'[table[k]] \notin contested' => id'[table[k]] = k
    BY <1>1, <1>8 DEF Entries
  <2>2. FoundById'
    <3>1. \A p \in Objects : Placed(p)' => p # o /\ Placed(p) /\ id'[p] = id[p]
      BY <1>1, <1>7, <1>9 DEF Placed
    <3>2. \A k \in DOMAIN table : table[k] \in gone =>
            id'[table[k]] \in contested'
      BY <1>1, <1>8 DEF Entries, FoundById
    <3>3. ASSUME NEW p \in Objects, Placed(p)', id'[p] \notin contested'
          PROVE  id'[p] \in DOMAIN table' /\ table'[id'[p]] = p
      <4>1. Placed(p) /\ id'[p] = id[p] /\ id[p] \notin contested
        BY <1>1, <3>1, <3>3
      <4>2. id[p] \in DOMAIN table /\ table[id[p]] = p
        BY <4>1, Zenon DEF Entries, FoundById
      <4> QED BY <1>1, <4>1, <4>2
    <3> QED BY <1>1, <3>2, <3>3, Zenon DEF Entries, FoundById
  <2> QED BY <1>1, <2>1, <2>2 DEF Entries
<1> QED BY <1>3, <1>4, <1>5, <1>6, <1>10

(* A thread enters its object. *)
LEMMA PutKeeps ==
    ASSUME IdInv, NEW t \in Threads, Put(t)
    PROVE  IdInv'
<1> USE OidConstants DEF IdInv, TypeOK
<1> DEFINE o == on[t]
<1>1. /\ at[t] = "put" /\ at'[t] = "read" /\ o \in Objects /\ o \notin gone
      /\ \A u \in Threads : u # t => at'[u] = at[u]
      /\ contested \subseteq contested'
      /\ UNCHANGED <<id, runningOid, writer, on, tmp, gone, present>>
  BY DEF Put, Goto, Hands, Busy
<1>2. /\ DOMAIN table' = DOMAIN table \cup {runningOid}
      /\ table'[runningOid] = o
      /\ \A k \in DOMAIN table : k # runningOid => table'[k] = table[k]
  BY DEF Put, Entered
<1>3. (\E u \in Threads : u # t /\ Busy(u)) => runningOid \in contested'
  BY DEF Put, Contend, Others, Busy
<1>4. runningOid \in DOMAIN table => runningOid \in contested'
  BY <1>1, <1>3 DEF NextFree, Counting, Busy
<1>5. TypeOK'
  <2>1. contested' \subseteq Nat
    <3>1. contested' = contested \cup Contend(t)
      BY DEF Put
    <3> QED BY <3>1, ContendTypes DEF IdInv
  <2>2. \A k \in DOMAIN table' : k \in Nat /\ table'[k] \in Objects \cup Characters
    BY <1>1, <1>2
  <2> QED BY <1>1, <2>1, <2>2 DEF Put, Goto
<1>6. Hands'
  BY <1>1 DEF Hands, Busy
<1>7. Rivals'
  BY <1>1 DEF Rivals, Busy
<1>8. NextFree'
  BY <1>1 DEF NextFree, Counting
<1>9. \A p \in Objects : Placed(p)' => p = o \/ Placed(p)
  BY <1>1 DEF Placed, Entering
<1>10. id[o] \notin contested' => id[o] = runningOid
  BY <1>1 DEF Rivals
<1>11. ASSUME NEW p \in Objects, Placed(p)', id[p] \notin contested'
       PROVE  id[p] \in DOMAIN table' /\ table'[id[p]] = p
  <2>1. CASE p = o
    BY <1>2, <1>10, <1>11, <2>1
  <2>2. CASE p # o
    <3>1. id[p] \in DOMAIN table /\ table[id[p]] = p
      BY <1>1, <1>9, <1>11, <2>2 DEF Entries, FoundById
    <3>2. id[p] # runningOid
      BY <1>4, <1>11, <3>1
    <3> QED BY <1>2, <3>1, <3>2
  <2> QED BY <2>1, <2>2
<1>12. ASSUME NEW c \in present, CharId[c] \notin contested'
       PROVE  CharId[c] \in DOMAIN table' /\ table'[CharId[c]] = c
  <2>1. CharId[c] \in DOMAIN table /\ table[CharId[c]] = c
    BY <1>1, <1>12 DEF Entries, FoundById
  <2>2. CharId[c] # runningOid
    BY <1>4, <1>12, <2>1
  <2> QED BY <1>2, <2>1, <2>2
<1>13. ASSUME NEW k \in DOMAIN table'
       PROVE  /\ table'[k] \in gone => id[table'[k]] \in contested'
              /\ table'[k] \in Objects =>
                   /\ id[table'[k]] # None
                   /\ id[table'[k]] \notin contested' => id[table'[k]] = k
              /\ table'[k] \in Characters =>
                   table'[k] \in present /\ CharId[table'[k]] = k
  <2>1. CASE k = runningOid
    BY <1>1, <1>2, <1>10, <2>1 DEF Hands, Busy
  <2>2. CASE k # runningOid
    BY <1>1, <1>2, <2>2 DEF Entries, FoundById
  <2> QED BY <2>1, <2>2
<1>14. Entries'
  BY <1>1, <1>11, <1>12, <1>13 DEF Entries, FoundById
<1> QED BY <1>5, <1>6, <1>7, <1>8, <1>14

(* A thread counts on: everything but runningOid stays, until the check.   *)
LEMMA CountKeeps ==
    ASSUME IdInv, NEW t \in Threads, Count(t)
    PROVE  IdInv'
<1> USE OidConstants DEF IdInv, TypeOK
<1>1. /\ UNCHANGED <<table, id, gone, present>>
      /\ Counting(t) /\ at'[t] # "put"
      /\ \A u \in Threads : u # t => at'[u] = at[u] /\ on'[u] = on[u]
      /\ contested \subseteq contested'
  BY DEF Count, Read, Write, Test, Wrap, Check, Goto, Counting
<1>2. \A o \in Objects : Placed(o)' <=> Placed(o)
  BY <1>1 DEF Placed, Entering, Counting
<1>3. Entries'
  BY <1>1, <1>2 DEF Entries, FoundById
<1>4. CASE Read(t) \/ Write(t) \/ Test(t) \/ Wrap(t)
  <2>1. /\ UNCHANGED <<on, writer, contested>> /\ Counting(t)'
    BY <1>4 DEF Read, Write, Test, Wrap, Goto, Counting
  <2>2. TypeOK'
    <3>1. runningOid' \in Nat /\ tmp' \in [Threads -> Nat]
      BY <1>4 DEF Read, Write, Test, Wrap
    <3>2. at' \in [Threads ->
                   {"idle", "put", "read", "write", "test", "wrap", "check"}]
      BY <1>4 DEF Read, Write, Test, Wrap, Goto
    <3> QED BY <1>1, <2>1, <3>1, <3>2
  <2>3. Hands'
    BY <1>1, <2>1 DEF Hands, Busy, Counting
  <2>4. Rivals'
    <3>1. \A u \in Threads : u # t /\ Busy(u) => id[on[u]] \in contested
      BY <1>1 DEF Rivals, Busy, Counting
    <3> QED BY <1>1, <2>1, <3>1 DEF Rivals, Busy, Counting
  <2>5. NextFree'
    BY <2>1 DEF NextFree
  <2> QED BY <1>3, <2>2, <2>3, <2>4, <2>5
<1>5. CASE Check(t)
  <2>1. /\ at'[t] = "idle" /\ on'[t] = None /\ runningOid' = runningOid
        /\ runningOid \in DOMAIN table => runningOid \in contested'
    BY <1>5 DEF Check, Goto, InUse
  <2>2. TypeOK'
    BY <1>5 DEF Check, Goto, EndOf
  <2>3. Hands'
    BY <1>1, <2>1 DEF Hands, Busy
  <2>4. Rivals'
    BY <1>1, <2>1 DEF Rivals, Busy
  <2>5. NextFree'
    BY <1>1, <2>1 DEF NextFree
  <2> QED BY <1>3, <2>2, <2>3, <2>4, <2>5
<1> QED BY <1>4, <1>5 DEF Count

(* What is removed under a key that is not contested had that key.         *)
LEMMA RemovedKeeps ==
    ASSUME NEW k
    PROVE  /\ DOMAIN Removed(k) = DOMAIN table \ {k}
           /\ \A j \in DOMAIN table \ {k} : Removed(k)[j] = table[j]
  BY DEF Removed

LEMMA RemoveKeeps ==
    ASSUME IdInv, NEW o \in Objects, Remove(o)
    PROVE  IdInv'
<1> USE OidConstants DEF IdInv, TypeOK
<1>1. /\ UNCHANGED <<id, runningOid, writer, at, on, tmp, present, contested>>
      /\ gone' = gone \cup {o} /\ id[o] # None /\ Placed(o) /\ ~Entering(o)
  BY DEF Remove, Placed
<1>2. /\ DOMAIN table' = DOMAIN table \ {id[o]}
      /\ \A k \in DOMAIN table' : table'[k] = table[k]
  BY RemovedKeeps DEF Remove
<1>3. TypeOK'
  BY <1>1, <1>2
<1>4. Hands'
  BY <1>1 DEF Hands, Busy, Entering
<1>5. Rivals' /\ NextFree'
  BY <1>1, <1>2 DEF Rivals, NextFree, Busy, Counting
<1>6. ASSUME NEW p \in Objects, Placed(p)', id[p] \notin contested
      PROVE  id[p] \in DOMAIN table' /\ table'[id[p]] = p
  <2>1. p # o /\ Placed(p)
    BY <1>1, <1>6 DEF Placed, Entering
  <2>2. id[p] \in DOMAIN table /\ table[id[p]] = p
    BY <1>6, <2>1 DEF Entries, FoundById
  <2>3. id[p] # id[o]
    BY <1>1, <1>6, <2>1, <2>2 DEF Entries, FoundById
  <2> QED BY <1>2, <2>2, <2>3
<1>7. ASSUME NEW c \in present, CharId[c] \notin contested
      PROVE  CharId[c] \in DOMAIN table' /\ table'[CharId[c]] = c
  <2>1. CharId[c] \in DOMAIN table /\ table[CharId[c]] = c /\ c # o
    BY <1>7 DEF Entries, FoundById
  <2>2. CharId[c] # id[o]
    BY <1>1, <1>7, <2>1 DEF Entries, FoundById
  <2> QED BY <1>2, <2>1, <2>2
<1>8. ASSUME NEW k \in DOMAIN table', table'[k] \in gone'
      PROVE  id[table'[k]] \in contested
  BY <1>1, <1>2, <1>8 DEF Entries, FoundById
<1>9. FoundById'
  BY <1>1, <1>2, <1>6, <1>7, <1>8 DEF Entries, FoundById
<1>10. Entries'
  BY <1>1, <1>2, <1>9 DEF Entries
<1> QED BY <1>3, <1>4, <1>5, <1>10

(* A character comes in, over whatever has its id. *)
LEMMA AddPlayerKeeps ==
    ASSUME IdInv, NEW c \in Characters, AddPlayer(c)
    PROVE  IdInv'
<1> USE OidConstants DEF IdInv, TypeOK
<1>1. /\ UNCHANGED <<id, runningOid, writer, at, on, tmp, gone>>
      /\ present' = present \cup {c} /\ CharId[c] \in Nat
      /\ contested \subseteq contested' /\ contested' \subseteq Nat
      /\ CharId[c] \in DOMAIN table \cup {runningOid} => CharId[c] \in contested'
  BY DEF AddPlayer
<1>2. /\ DOMAIN table' = DOMAIN table \cup {CharId[c]}
      /\ table'[CharId[c]] = c
      /\ \A k \in DOMAIN table : k # CharId[c] => table'[k] = table[k]
  BY DEF AddPlayer, Entered
<1>3. TypeOK'
  <2>1. \A k \in DOMAIN table' : k \in Nat /\ table'[k] \in Objects \cup Characters
    BY <1>1, <1>2
  <2> QED BY <1>1, <2>1
<1>4. Hands'
  BY <1>1 DEF Hands, Busy
<1>5. Rivals' /\ NextFree'
  BY <1>1, <1>2 DEF Rivals, NextFree, Busy, Counting
<1>6. \A p \in Objects : Placed(p)' <=> Placed(p)
  BY <1>1 DEF Placed, Entering
<1>7. ASSUME NEW p \in Objects, Placed(p), id[p] \notin contested'
      PROVE  id[p] \in DOMAIN table' /\ table'[id[p]] = p
  BY <1>1, <1>2, <1>7 DEF Entries, FoundById
<1>8. ASSUME NEW d \in present', CharId[d] \notin contested'
      PROVE  CharId[d] \in DOMAIN table' /\ table'[CharId[d]] = d
  BY <1>1, <1>2, <1>8 DEF Entries, FoundById
<1>9. ASSUME NEW k \in DOMAIN table'
      PROVE  /\ table'[k] \in gone => id[table'[k]] \in contested'
             /\ table'[k] \in Objects =>
                  /\ id[table'[k]] # None
                  /\ id[table'[k]] \notin contested' => id[table'[k]] = k
             /\ table'[k] \in Characters =>
                  table'[k] \in present' /\ CharId[table'[k]] = k
  <2>1. CASE k = CharId[c]
    BY <1>1, <1>2, <2>1
  <2>2. CASE k # CharId[c]
    BY <1>1, <1>2, <2>2 DEF Entries, FoundById
  <2> QED BY <2>1, <2>2
<1>10. Entries'
  BY <1>1, <1>6, <1>7, <1>8, <1>9 DEF Entries, FoundById
<1> QED BY <1>3, <1>4, <1>5, <1>10

(* A character leaves, and with it whatever has its id. *)
LEMMA RemovePlayerKeeps ==
    ASSUME IdInv, NEW c \in Characters, RemovePlayer(c)
    PROVE  IdInv'
<1> USE OidConstants DEF IdInv, TypeOK
<1>1. /\ UNCHANGED <<id, runningOid, writer, at, on, tmp, gone, contested>>
      /\ c \in present /\ present' = present \ {c}
  BY DEF RemovePlayer
<1>2. /\ DOMAIN table' = DOMAIN table \ {CharId[c]}
      /\ \A k \in DOMAIN table' : table'[k] = table[k]
  <2>1. table' = Removed(CharId[c])
    BY DEF RemovePlayer
  <2> HIDE DEF IdInv, TypeOK
  <2> QED BY <2>1, RemovedKeeps, Zenon
<1>3. TypeOK'
  BY <1>1, <1>2
<1>4. Hands' /\ Rivals' /\ NextFree'
  BY <1>1, <1>2 DEF Hands, Rivals, NextFree, Busy, Counting
<1>5. \A p \in Objects : Placed(p)' <=> Placed(p)
  BY <1>1 DEF Placed, Entering
<1>6. ASSUME NEW p \in Objects, Placed(p), id[p] \notin contested
      PROVE  id[p] \in DOMAIN table' /\ table'[id[p]] = p
  <2>1. id[p] \in DOMAIN table /\ table[id[p]] = p /\ p # c
    BY <1>6 DEF Entries, FoundById
  <2>2. id[p] # CharId[c]
    BY <1>1, <1>6, <2>1 DEF Entries, FoundById
  <2> QED BY <1>2, <2>1, <2>2
<1>7. ASSUME NEW d \in present', CharId[d] \notin contested
      PROVE  CharId[d] \in DOMAIN table' /\ table'[CharId[d]] = d
  BY <1>1, <1>2, <1>7 DEF Entries, FoundById
<1>8. \A k \in DOMAIN table' : table'[k] \in Characters => table'[k] \in present'
  BY <1>1, <1>2 DEF Entries, FoundById
<1>9. FoundById'
  BY <1>1, <1>2, <1>5, <1>6, <1>7, <1>8 DEF Entries, FoundById
<1>10. Entries'
  BY <1>1, <1>2, <1>9 DEF Entries
<1> QED BY <1>3, <1>4, <1>10

LEMMA IdNext == IdInv /\ [Next]_vars => IdInv'
<1> SUFFICES ASSUME IdInv, [Next]_vars PROVE IdInv'
  OBVIOUS
<1>1. ASSUME NEW t \in Threads, NEW o \in Objects, Add(t, o) \/ Spawn(t, o)
      PROVE  IdInv'
  BY <1>1, SetIdKeeps DEF Add, Spawn, IdInv, TypeOK
<1>2. ASSUME NEW t \in Threads, Put(t) \/ Count(t) PROVE IdInv'
  BY <1>2, PutKeeps, CountKeeps
<1>3. ASSUME NEW o \in Objects, Remove(o) PROVE IdInv'
  BY <1>3, RemoveKeeps
<1>4. ASSUME NEW c \in Characters, AddPlayer(c) \/ RemovePlayer(c) PROVE IdInv'
  BY <1>4, AddPlayerKeeps, RemovePlayerKeeps
<1>5. CASE UNCHANGED vars
  BY <1>5 DEF vars, IdInv, TypeOK, Hands, Rivals, NextFree, Entries, FoundById,
              Placed, Entering, Busy, Counting
<1> QED BY <1>1, <1>2, <1>3, <1>4, <1>5 DEF Next

LEMMA IdAlways == Spec => []IdInv
  BY IdInit, IdNext, PTL DEF Spec

(* The table of a map keeps its types, whoever races for the counter.      *)
THEOREM MapTypes == Spec => []TypeOK
<1>1. IdInv => TypeOK
  BY DEF IdInv
<1> QED BY <1>1, IdAlways, PTL

(* Ids lead to their objects and characters, and to nothing that was       *)
(* removed, but for the ids that two threads handed out at once, that the  *)
(* counter ran into, or that a character came in with.                     *)
THEOREM MapFoundById == Spec => []FoundById
<1>1. IdInv => FoundById
  BY DEF IdInv, Entries
<1> QED BY <1>1, IdAlways, PTL
=============================================================================
