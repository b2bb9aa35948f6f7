----------------------------- MODULE Loot_proofs -----------------------------
(***************************************************************************)
(* Proofs that a drop is given at most once and that the reactor misses an *)
(* offering only if it was taken, for any number of players and drops.     *)
(***************************************************************************)
EXTENDS Loot, TLAPS

(* The places of a session that is inside synchronized (mapitem). *)
Inside == {"give", "unmark", "mark", "remove"}

(* The session still has to mark the drop it is taking. *)
WillMark(p) == at[p] = "mark" \/ (at[p] = "remove" /\ ~MarksFirst(p))

Mutex == \A p \in Players : at[p] \in Inside => monitor[on[p]] = p

Known ==
    /\ \A d \in onMap : kind[d] # None
    /\ \A p \in Players : at[p] # "idle" => kind[on[p]] # None

Fresh ==
    \A p \in Players : at[p] \in {"give", "unmark"} => gains[on[p]] = 0

(* Who was given a drop has marked it, or is about to while inside. *)
Marked ==
    \A d \in Drops : gains[d] > 0 =>
        picked[d] \/ \E p \in Players : on[p] = d /\ WillMark(p)

OnceInv == TypeOK /\ Mutex /\ Known /\ Fresh /\ Marked /\ LootedOnce

LEMMA OnceInit == Init => OnceInv
<1> SUFFICES ASSUME Init PROVE OnceInv
  OBVIOUS
<1> USE LootConstants DEF Init
<1>1. TypeOK
  BY DEF TypeOK, SessionPlaces
<1>2. Mutex /\ Known /\ Fresh /\ Marked /\ LootedOnce
  BY DEF Mutex, Known, Fresh, Marked, LootedOnce, Inside
<1> QED BY <1>1, <1>2 DEF OnceInv

LEMMA OnceNext == OnceInv /\ [Next]_vars => OnceInv'
<1> SUFFICES ASSUME OnceInv, [Next]_vars PROVE OnceInv'
  OBVIOUS
<1> USE LootConstants DEF OnceInv, TypeOK, SessionPlaces, AllKinds
<1>1. ASSUME NEW p \in Players, NEW d \in Drops, NEW k \in Kinds, Spawn(p, d, k)
      PROVE  OnceInv'
  <2> USE <1>1 DEF Spawn, Goto, jobs, reactor, loot
  <2>1. TypeOK'
    OBVIOUS
  <2>2. \A q \in Players : at[q] # "idle" => on[q] # d
    BY DEF Known
  <2>3. Mutex' /\ Known' /\ Fresh' /\ LootedOnce'
    BY <2>2 DEF Mutex, Known, Fresh, LootedOnce, Inside
  <2>4. Marked'
    BY <2>2 DEF Marked, WillMark, MarksFirst
  <2> QED BY <2>1, <2>3, <2>4
<1>2. ASSUME NEW p \in Players, Schedule(p) PROVE OnceInv'
  <2> USE <1>2 DEF Schedule, Goto, Return, shared, reactor, loot
  <2>1. TypeOK'
    BY SMTT(60)
  <2>2. Mutex' /\ Known' /\ Fresh' /\ LootedOnce'
    BY DEF Mutex, Known, Fresh, LootedOnce, Inside
  <2>3. Marked'
    BY DEF Marked, WillMark, MarksFirst
  <2> QED BY <2>1, <2>2, <2>3
<1>3. ASSUME NEW p \in Players, Arm(p) PROVE OnceInv'
  <2> USE <1>3 DEF Arm, Return, shared, loot
  <2>1. TypeOK'
    OBVIOUS
  <2>2. Mutex' /\ Known' /\ Fresh' /\ LootedOnce'
    BY DEF Mutex, Known, Fresh, LootedOnce, Inside
  <2>3. Marked'
    BY DEF Marked, WillMark, MarksFirst
  <2> QED BY <2>1, <2>2, <2>3
<1>4. ASSUME NEW p \in Players, NEW d \in Drops, NEW how \in {"hand", "pet", "blast"},
             Look(p, d, how)
      PROVE  OnceInv'
  <2> USE <1>4 DEF Look, Goto, shared, jobs, reactor, loot
  <2>1. TypeOK'
    OBVIOUS
  <2>2. Mutex' /\ Fresh' /\ LootedOnce'
    BY DEF Mutex, Fresh, LootedOnce, Inside
  <2>3. Known'
    BY DEF Known
  <2>4. Marked'
    BY DEF Marked, WillMark, MarksFirst
  <2> QED BY <2>1, <2>2, <2>3, <2>4
<1>5. ASSUME NEW p \in Players, TurnedAway(p) PROVE OnceInv'
  <2> USE <1>5 DEF TurnedAway, Return, shared, jobs, reactor, loot
  <2>1. TypeOK'
    OBVIOUS
  <2>2. Mutex' /\ Known' /\ Fresh' /\ LootedOnce'
    BY DEF Mutex, Known, Fresh, LootedOnce, Inside
  <2>3. Marked'
    BY DEF Marked, WillMark, MarksFirst
  <2> QED BY <2>1, <2>2, <2>3
<1>6. ASSUME NEW p \in Players, Enter(p) PROVE OnceInv'
  <2> USE <1>6 DEF Enter, Goto, jobs, reactor, loot
  <2>1. TypeOK'
    OBVIOUS
  <2>2. \A q \in Players : at[q] \in Inside => on[q] # on[p]
    BY DEF Mutex
  <2>3. gains[on[p]] = 0
    BY <2>2 DEF Marked, WillMark, Inside, Taken
  <2>4. Mutex' /\ Known' /\ Fresh' /\ LootedOnce'
    BY <2>2, <2>3 DEF Mutex, Known, Fresh, LootedOnce, Inside
  <2>5. Marked'
    BY <2>3 DEF Marked, WillMark, MarksFirst
  <2> QED BY <2>1, <2>4, <2>5
<1>7. ASSUME NEW p \in Players, Ignite(p) PROVE OnceInv'
  <2> USE <1>7 DEF Ignite, Return, shared, reactor, loot
  <2>1. TypeOK'
    OBVIOUS
  <2>2. Mutex' /\ Known' /\ Fresh' /\ LootedOnce'
    BY DEF Mutex, Known, Fresh, LootedOnce, Inside
  <2>3. Marked'
    BY DEF Marked, WillMark, MarksFirst
  <2> QED BY <2>1, <2>2, <2>3
<1>8. ASSUME NEW p \in Players, Unmark(p) PROVE OnceInv'
  <2> USE <1>8 DEF Unmark, Leave, Return, jobs, reactor, loot
  <2>1. TypeOK'
    OBVIOUS
  <2>2. \A q \in Players : q # p /\ at[q] \in Inside => on[q] # on[p]
    BY DEF Mutex, Inside
  <2>3. Mutex' /\ Known' /\ Fresh' /\ LootedOnce'
    BY <2>2 DEF Mutex, Known, Fresh, LootedOnce, Inside
  <2>4. gains[on[p]] = 0
    BY DEF Fresh
  <2>5. Marked'
    BY <2>4 DEF Marked, WillMark, MarksFirst
  <2> QED BY <2>1, <2>3, <2>5
<1>9. ASSUME NEW p \in Players, Gain(p) PROVE OnceInv'
  <2> USE <1>9 DEF Gain, Goto, shared, jobs, reactor
  <2>1. TypeOK'
    OBVIOUS
  <2>2. \A q \in Players : q # p /\ at[q] \in Inside => on[q] # on[p]
    BY DEF Mutex, Inside
  <2>3. gains[on[p]] = 0
    BY DEF Fresh
  <2>4. Mutex' /\ Known' /\ Fresh' /\ LootedOnce'
    BY <2>2, <2>3 DEF Mutex, Known, Fresh, LootedOnce, Inside
  <2>5. WillMark(p)'
    BY DEF WillMark, MarksFirst
  <2>6. \A q \in Players : q # p => WillMark(q)' = WillMark(q)
    BY DEF WillMark, MarksFirst
  <2>7. Marked'
    BY <2>5, <2>6 DEF Marked, WillMark
  <2> QED BY <2>1, <2>4, <2>7
<1>10. ASSUME NEW p \in Players, Fail(p) PROVE OnceInv'
  <2> USE <1>10 DEF Fail, Leave, Return, Goto, jobs, reactor, loot
  <2>1. TypeOK'
    OBVIOUS
  <2>2. \A q \in Players : q # p /\ at[q] \in Inside => on[q] # on[p]
    BY DEF Mutex, Inside
  <2>3. Mutex' /\ Known' /\ Fresh' /\ LootedOnce'
    BY <2>2 DEF Mutex, Known, Fresh, LootedOnce, Inside
  <2>4. Marked'
    BY DEF Marked, WillMark, MarksFirst
  <2> QED BY <2>1, <2>3, <2>4
<1>11. ASSUME NEW p \in Players, Mark(p) PROVE OnceInv'
  <2> USE <1>11 DEF Mark, Leave, Return, Goto, jobs, reactor, loot
  <2>1. TypeOK'
    <3>1. UNCHANGED <<kind, onMap, itemLock, jobs, reactor, loot>>
      OBVIOUS
    <3>2. picked' \in [Drops -> BOOLEAN]
      OBVIOUS
    <3>3. monitor' \in [Drops -> Players \cup {None}]
      OBVIOUS
    <3>4. /\ at' \in [Players -> SessionPlaces]
          /\ on' \in [Players -> Drops \cup {None}]
          /\ by' \in [Players -> {"hand", "pet", "blast"}]
      BY SMTT(60)
    <3>5. \A q \in Players : at'[q] = "idle" <=> on'[q] = None
      OBVIOUS
    <3> QED BY <3>1, <3>2, <3>3, <3>4, <3>5
  <2>2. \A q \in Players : q # p /\ at[q] \in Inside => on[q] # on[p]
    BY DEF Mutex, Inside
  <2>3. Mutex' /\ Known' /\ Fresh' /\ LootedOnce'
    BY <2>2 DEF Mutex, Known, Fresh, LootedOnce, Inside
  <2>4. Marked'
    BY DEF Marked, WillMark, MarksFirst
  <2> QED BY <2>1, <2>3, <2>4
<1>12. ASSUME NEW p \in Players, Remove(p) PROVE OnceInv'
  <2> USE <1>12 DEF Remove, Leave, Return, Goto, jobs, reactor, loot
  <2>1. TypeOK'
    BY SMTT(30)
  <2>2. \A q \in Players : q # p /\ at[q] \in Inside => on[q] # on[p]
    BY DEF Mutex, Inside
  <2>3. Mutex' /\ Known' /\ Fresh' /\ LootedOnce'
    BY <2>2, SMTT(60) DEF Mutex, Known, Fresh, LootedOnce, Inside
  <2>4. Marked'
    BY DEF Marked, WillMark, MarksFirst
  <2> QED BY <2>1, <2>3, <2>4
<1>13. ASSUME NEW d \in Drops, Expire(d) \/ Activate(d) \/ Explode(d)
       PROVE OnceInv'
  <2> USE <1>13 DEF Expire, Activate, Explode, ExpireLook, ExpireLock,
          ExpireMark, ExpireRemove, OfferLook, OfferLock, OfferRemove,
          OfferHit, BlastRemove, BlastMark, shared, session, jobs, reactor, loot
  <2>1. UNCHANGED <<kind, monitor, session, loot>>
    OBVIOUS
  <2>2. \A e \in Drops : picked[e] => picked'[e]
    OBVIOUS
  <2>3. TypeOK'
    <3>1. onMap' \subseteq onMap
      OBVIOUS
    <3>2. expiry' \in [Drops ->
            {"none", "armed", "lock", "mark", "remove", "done"}]
      OBVIOUS
    <3>3. offer' \in [Drops ->
            {"none", "armed", "lock", "remove", "hit", "fed", "missed"}]
      OBVIOUS
    <3>4. blast' \in [Drops -> {"none", "armed", "mark", "done"}]
      OBVIOUS
    <3>5. picked' \in [Drops -> BOOLEAN]
      BY ZenonT(60)
    <3>6. itemLock' \in [Drops -> BOOLEAN]
      OBVIOUS
    <3>7. timerActive' \in BOOLEAN /\ ready' \in BOOLEAN
      OBVIOUS
    <3> QED BY <2>1, <3>1, <3>2, <3>3, <3>4, <3>5, <3>6, <3>7
  <2>4. Mutex' /\ Known' /\ Fresh' /\ LootedOnce'
    BY <2>1 DEF Mutex, Known, Fresh, LootedOnce
  <2>5. Marked'
    BY <2>1, <2>2 DEF Marked, WillMark, MarksFirst
  <2> QED BY <2>3, <2>4, <2>5
<1>14. CASE Reset
  BY <1>14 DEF Reset, shared, session, jobs, loot, Mutex, Known, Fresh, Marked,
     LootedOnce, WillMark, MarksFirst
<1>17. ASSUME NEW d \in Drops, Clear(d) PROVE OnceInv'
  <2> USE <1>17 DEF Clear, session, jobs, reactor
  <2>1. TypeOK'
    OBVIOUS
  <2>2. Mutex' /\ Known' /\ Fresh' /\ LootedOnce'
    BY DEF Mutex, Known, Fresh, LootedOnce
  <2>3. Marked'
    BY DEF Marked, WillMark, MarksFirst
  <2> QED BY <2>1, <2>2, <2>3
<1>15. CASE UNCHANGED vars
  BY <1>15 DEF vars, shared, session, jobs, reactor, loot, Mutex, Known, Fresh,
     Marked, LootedOnce, WillMark, MarksFirst
<1> HIDE DEF OnceInv
<1>16. ASSUME NEW p \in Players, Request(p) \/ Handle(p) PROVE OnceInv'
  BY <1>1, <1>2, <1>3, <1>4, <1>5, <1>6, <1>7, <1>8, <1>9, <1>10, <1>11,
     <1>12, <1>16 DEF Request, Handle
<1> QED BY <1>13, <1>14, <1>15, <1>16, <1>17 DEF Next

LEMMA OnceAlways == Spec => []OnceInv
  BY OnceInit, OnceNext, PTL DEF Spec

(* No interleaving of looters, timers and explosions leaves the types of   *)
(* the drop's fields, or lets a returned handler keep its drop.            *)
THEOREM LootTypes == Spec => []TypeOK
  BY OnceAlways, PTL DEF OnceInv

(* A drop is given at most once: the monitor makes the flag's test, the    *)
(* gift and the flag's write one critical section of the sessions, and     *)
(* the only code that clears the flag runs in it before any gift.          *)
THEOREM LootGivenOnce == Spec => []LootedOnce
  BY OnceAlways, PTL DEF OnceInv
-----------------------------------------------------------------------------
Offering(d) == kind[d] = "offering"

(* Which kinds of drops each job and each odd branch of a handler is for. *)
Sorts ==
    /\ \A p \in Players :
         /\ at[p] = "arm" => Offering(on[p])
         /\ (at[p] = "enter" /\ by[p] = "blast") => kind[on[p]] = "meso"
         /\ at[p] = "unmark" => kind[on[p]] = "meso"
    /\ \A d \in Drops :
         /\ offer[d] # "none" => Offering(d)
         /\ blast[d] # "none" => kind[d] = "meso"
         /\ kind[d] = None => ~picked[d] /\ expiry[d] = "none"

(* Whoever drops something is the only one to set its timers, once. *)
Spawning(p) == at[p] \in {"schedule", "arm"}

Spawners ==
    /\ \A p \in Players : at[p] = "schedule" => expiry[on[p]] = "none"
    /\ \A p \in Players : Spawning(p) => offer[on[p]] = "none"
    /\ \A p, q \in Players :
         (p # q /\ Spawning(p) /\ Spawning(q)) => on[p] # on[q]

(* Why an offering is marked, and why it is off the map. *)
Excuse(d) ==
    gains[d] = 1 \/ expiry[d] \in {"remove", "done"} \/ d \in cleared

Reasons ==
    /\ \A p \in Players :
         (at[p] \in {"mark", "remove"} /\ Offering(on[p])) => gains[on[p]] = 1
    /\ \A d \in Drops :
         /\ (Offering(d) /\ picked[d]) => Excuse(d)
         /\ (Offering(d) /\ d \notin onMap) =>
               Excuse(d) \/ offer[d] \in {"hit", "fed"}

OfferInv == OnceInv /\ Sorts /\ Spawners /\ Reasons /\ MissedOnlyIfTaken

LEMMA OfferInit == Init => OfferInv
<1> SUFFICES ASSUME Init PROVE OfferInv
  OBVIOUS
<1>1. OnceInv
  BY OnceInit
<1>2. Sorts /\ Spawners /\ Reasons /\ MissedOnlyIfTaken
  BY LootConstants DEF Init, Sorts, Spawners, Spawning, Reasons,
     MissedOnlyIfTaken, Offering, Excuse, AllKinds
<1> QED BY <1>1, <1>2 DEF OfferInv

LEMMA OfferNext == OfferInv /\ [Next]_vars => OfferInv'
<1> SUFFICES ASSUME OfferInv, [Next]_vars PROVE OfferInv'
  OBVIOUS
<1>1. OnceInv' /\ OnceInv
  BY OnceNext DEF OfferInv
<1>2. TypeOK /\ TypeOK' /\ Known /\ Fresh
  BY <1>1 DEF OnceInv
<1>3. \A d \in Drops : gains[d] = 1 => gains'[d] = 1
  <2>1. ASSUME NEW p \in Players, Gain(p) PROVE gains[on[p]] = 0
    BY <2>1, <1>2 DEF Gain, Fresh
  <2>2. UNCHANGED gains \/ \E p \in Players : Gain(p)
    BY DEF Next, Request, Handle, Spawn, Schedule, Arm, Look, TurnedAway, Enter,
       Ignite, Unmark, Fail, Mark, Remove, Expire, ExpireLook, ExpireLock,
       ExpireMark, ExpireRemove, Activate, OfferLook, OfferLock, OfferRemove,
       OfferHit, Explode, BlastRemove, BlastMark, Clear, Reset, vars, loot
  <2>3. ASSUME NEW p \in Players, Gain(p), NEW d \in Drops, gains[d] = 1
        PROVE  gains'[d] = 1
    <3>1. gains[on[p]] = 0
      BY <2>1, <2>3
    <3>2. gains' = [gains EXCEPT ![on[p]] = @ + 1]
      BY <2>3 DEF Gain
    <3> QED BY <2>3, <3>1, <3>2, <1>2 DEF TypeOK
  <2> QED BY <2>2, <2>3
<1> USE LootConstants, <1>2, <1>3 DEF OfferInv, TypeOK, AllKinds, Offering, Excuse,
        Spawning, Sorts, Spawners, Reasons, MissedOnlyIfTaken
<1> DEFINE Goal == Sorts' /\ Spawners' /\ Reasons' /\ MissedOnlyIfTaken'
<1>4. ASSUME NEW p \in Players, Request(p) PROVE Goal
  <2>1. ASSUME NEW d \in Drops, NEW k \in Kinds, Spawn(p, d, k) PROVE Goal
    <3>0. \A q \in Players : at[q] # "idle" => on[q] # d
      BY <2>1 DEF Spawn, Known
    <3> QED BY <2>1, <3>0 DEF Spawn, Goto, jobs, reactor, loot
  <2>2. ASSUME NEW d \in Drops, NEW how \in {"hand", "pet", "blast"}, Look(p, d, how)
        PROVE  Goal
    BY <2>2 DEF Look, Goto, shared, jobs, reactor, loot
  <2> HIDE DEF Goal
  <2> QED BY <1>4, <2>1, <2>2 DEF Request
<1>5. ASSUME NEW p \in Players, Handle(p) PROVE Goal
  <2>1. CASE Schedule(p)
    BY <2>1, SMTT(60) DEF Schedule, Goto, Return, shared, reactor, loot, Known
  <2>2. CASE Arm(p)
    BY <2>2 DEF Arm, Return, shared, loot
  <2>3. CASE TurnedAway(p)
    BY <2>3 DEF TurnedAway, Return, shared, jobs, reactor, loot
  <2>4. CASE Enter(p)
    BY <2>4 DEF Enter, Goto, jobs, reactor, loot
  <2>5. CASE Ignite(p)
    BY <2>5 DEF Ignite, Return, shared, reactor, loot
  <2>6. CASE Unmark(p)
    BY <2>6 DEF Unmark, Leave, Return, jobs, reactor, loot
  <2>7. CASE Gain(p)
    <3>0. gains'[on[p]] = 1
      BY <2>7 DEF Gain, Fresh
    <3> QED BY <2>7, <3>0 DEF Gain, Goto, shared, jobs, reactor
  <2>8. CASE Fail(p)
    BY <2>8, SMTT(30) DEF Fail, LostWhenFull, Leave, Return, Goto, jobs, reactor, loot
  <2>9. CASE Mark(p)
    <3> USE <2>9 DEF Mark, Leave, Return, Goto, jobs, reactor, loot
    <3>1. Sorts'
      BY DEF Known
    <3>2. MissedOnlyIfTaken'
      OBVIOUS
    <3>3. Spawners'
      BY SMTT(30)
    <3>4. Reasons'
      BY SMTT(30)
    <3> QED BY <3>1, <3>2, <3>3, <3>4
  <2>10. CASE Remove(p)
    <3>1. /\ UNCHANGED <<kind, picked, jobs, loot>>
          /\ at[p] = "remove" /\ at'[p] \in {"idle", "mark"}
          /\ at'[p] = "mark" => on'[p] = on[p]
          /\ \A d \in onMap : d \notin onMap' => d = on[p]
      BY <2>10 DEF Remove, Leave, Return, Goto
    <3>2. \A q \in Players : q # p => UNCHANGED <<at[q], on[q], by[q]>>
      BY <2>10 DEF Remove, Leave, Return, Goto
    <3>3. Sorts'
      BY <3>1, <3>2 DEF jobs
    <3>4. Spawners'
      BY <3>1, <3>2, SMTT(60) DEF jobs
    <3>5. MissedOnlyIfTaken'
      BY <3>1 DEF jobs, loot
    <3>6. Reasons'
      BY <3>1, <3>2 DEF jobs, loot
    <3> QED BY <3>3, <3>4, <3>5, <3>6
  <2> HIDE DEF Goal
  <2> QED
    BY <1>5, <2>1, <2>2, <2>3, <2>4, <2>5, <2>6, <2>7, <2>8, <2>9, <2>10
    DEF Handle
<1>6. ASSUME NEW d \in Drops, Expire(d) \/ Activate(d) \/ Explode(d) PROVE Goal
  <2> USE DEF shared, session, jobs, reactor, loot
  <2>1. CASE ExpireLook(d)
    BY <2>1 DEF ExpireLook
  <2>2. CASE ExpireLock(d)
    BY <2>2 DEF ExpireLock
  <2>3. CASE ExpireMark(d)
    BY <2>3 DEF ExpireMark
  <2>4. CASE ExpireRemove(d)
    BY <2>4 DEF ExpireRemove
  <2>5. CASE OfferLook(d)
    BY <2>5 DEF OfferLook
  <2>6. CASE OfferLock(d)
    BY <2>6 DEF OfferLock
  <2>7. CASE OfferRemove(d)
    BY <2>7 DEF OfferRemove
  <2>8. CASE OfferHit(d)
    BY <2>8 DEF OfferHit
  <2>9. CASE BlastRemove(d)
    BY <2>9 DEF BlastRemove
  <2>10. CASE BlastMark(d)
    BY <2>10 DEF BlastMark
  <2> HIDE DEF Goal
  <2> QED
    BY <1>6, <2>1, <2>2, <2>3, <2>4, <2>5, <2>6, <2>7, <2>8, <2>9, <2>10
    DEF Expire, Activate, Explode
<1>7. ASSUME Reset PROVE Goal
  BY <1>7 DEF Reset, shared, session, jobs, loot
<1>10. ASSUME NEW d \in Drops, Clear(d) PROVE Goal
  BY <1>10 DEF Clear, session, jobs, reactor
<1>8. ASSUME UNCHANGED vars PROVE Goal
  BY <1>8 DEF vars, shared, session, jobs, reactor, loot
<1>9. Goal
  <2> HIDE DEF Goal
  <2> QED BY <1>4, <1>5, <1>6, <1>7, <1>8, <1>10 DEF Next
<1> QED BY <1>1, <1>9

(* A reactor that was armed for an offering fails to get it only because   *)
(* a player was given it, its time on the map was over or the map was      *)
(* cleared: no handler takes an offering away and gives it to nobody.      *)
THEOREM LootOfferings == Spec => []MissedOnlyIfTaken
<1>1. OfferInv => MissedOnlyIfTaken
  BY DEF OfferInv
<1> QED BY <1>1, OfferInit, OfferNext, PTL DEF Spec
=============================================================================
