-------------------------------- MODULE Loot --------------------------------
(***************************************************************************)
(* The drops lying on one map (server.maps.MapleMapItem) and the threads   *)
(* that take them away: the session of each player, whose character loots  *)
(* by hand (ItemPickupHandler), by pet (PetLootHandler) or blows mesos up  *)
(* (AbstractDealDamageHandler), and the timer threads that run             *)
(* ExpireMapItemJob, ActivateItemReactor and the delayed meso explosion.   *)
(*                                                                         *)
(* Sessions synchronize on the drop's monitor, timer jobs on its itemLock: *)
(* two locks for one pickedUp flag.  Each access to shared state that      *)
(* another thread can see is one step.                                     *)
(***************************************************************************)
EXTENDS Naturals, FiniteSets

CONSTANTS
    Players,      \* the characters on the map
    Drops,        \* identities of MapleMapItem objects
    Kinds,        \* the kinds of drops of this instance
    None,         \* no drop, no player, no kind
    Capacity      \* free inventory slots of a player to begin with

AllKinds == {"meso", "item", "use", "script", "jewel", "pet", "offering"}

ASSUME LootConstants ==
    /\ None \notin Players \cup Drops \cup AllKinds
    /\ Kinds \subseteq AllKinds
    /\ Capacity \in Nat

VARIABLES
    kind,         \* the kind of each drop, None before it is dropped
    onMap,        \* MapleMap.mapobjects
    picked,       \* MapleMapItem.pickedUp
    monitor,      \* the player whose thread is in synchronized (mapitem)
    itemLock,     \* MapleMapItem.itemLock is held by a timer job
    at, on, by,   \* each session: where it is, with which drop, doing what
    expiry,       \* where the ExpireMapItemJob of each drop is
    offer,        \* where the ActivateItemReactor job of each drop is
    blast,        \* where the meso explosion job of each drop is
    timerActive,  \* MapleReactor.timerActive of the map's reactor
    ready,        \* the reactor's state is one that takes an offering
    bag,          \* the drops in each player's inventory
    gains,        \* history: how often each drop was given to someone
    cleared       \* history: the drops that clearDrops has removed

shared == <<kind, onMap, picked, monitor, itemLock>>
session == <<at, on, by>>
jobs == <<expiry, offer, blast>>
reactor == <<timerActive, ready>>
loot == <<bag, gains, cleared>>
vars == <<shared, session, jobs, reactor, loot>>

Init ==
    /\ kind = [d \in Drops |-> None]
    /\ onMap = {}
    /\ picked = [d \in Drops |-> FALSE]
    /\ monitor = [d \in Drops |-> None]
    /\ itemLock = [d \in Drops |-> FALSE]
    /\ at = [p \in Players |-> "idle"]
    /\ on = [p \in Players |-> None]
    /\ by = [p \in Players |-> "hand"]
    /\ expiry = [d \in Drops |-> "none"]
    /\ offer = [d \in Drops |-> "none"]
    /\ blast = [d \in Drops |-> "none"]
    /\ timerActive = FALSE
    /\ ready = TRUE
    /\ bag = [p \in Players |-> {}]
    /\ gains = [d \in Drops |-> 0]
    /\ cleared = {}

Goto(p, where) == at' = [at EXCEPT ![p] = where]

(* Mutant: the handler returns and keeps its drop in mind. *)
ReturnStale(p) ==
    /\ at' = [at EXCEPT ![p] = "idle"]
    /\ UNCHANGED <<on, by>>

(* A handler returns; what it was doing is forgotten. *)
Return(p) ==
    /\ at' = [at EXCEPT ![p] = "idle"]
    /\ on' = [on EXCEPT ![p] = None]
    /\ by' = [by EXCEPT ![p] = "hand"]

(* Mutant: an early return keeps the monitor. *)
LeaveLocked(p) == UNCHANGED monitor /\ Return(p)

Leave(p) == monitor' = [monitor EXCEPT ![on[p]] = None] /\ Return(p)
-----------------------------------------------------------------------------
(* A drop appears: put on the map, then its timer is set, then the reactor *)
(* is asked; isTimerActive is read one step before setTimerActive.         *)
Spawn(p, d, k) ==
    /\ at[p] = "idle"
    /\ kind[d] = None
    /\ kind' = [kind EXCEPT ![d] = k]
    /\ onMap' = onMap \cup {d}
    /\ Goto(p, "schedule")
    /\ on' = [on EXCEPT ![p] = d]
    /\ UNCHANGED <<picked, monitor, itemLock, by, jobs, reactor, loot>>

Schedule(p) ==
    /\ at[p] = "schedule"
    /\ expiry' = [expiry EXCEPT ![on[p]] = "armed"]
    /\ IF kind[on[p]] = "offering" /\ ready /\ ~timerActive
         THEN Goto(p, "arm") /\ UNCHANGED <<on, by>>
         ELSE Return(p)
    /\ UNCHANGED <<shared, offer, blast, reactor, loot>>

Arm(p) ==
    /\ at[p] = "arm"
    /\ offer' = [offer EXCEPT ![on[p]] = "armed"]
    /\ timerActive' = TRUE
    /\ Return(p)
    /\ UNCHANGED <<shared, expiry, blast, ready, loot>>

(* getMapObject: the object is found before its monitor is entered. *)
Look(p, d, how) ==
    /\ at[p] = "idle"
    /\ d \in onMap
    /\ how = "blast" => kind[d] = "meso"
    /\ Goto(p, "enter")
    /\ on' = [on EXCEPT ![p] = d]
    /\ by' = [by EXCEPT ![p] = how]
    /\ UNCHANGED <<shared, jobs, reactor, loot>>

(* Mutant: who waited for the monitor does not look at the flag again. *)
TakenUnseen(d) == FALSE

Taken(d) == picked[d]

(* synchronized (mapitem): the drop was taken meanwhile, or the player is  *)
(* turned away (a quest item he does not need, his own drop before his     *)
(* pet, mesos too many to share, an item his pet ignores).                 *)
TurnedAway(p) ==
    /\ at[p] = "enter"
    /\ monitor[on[p]] = None
    /\ Taken(on[p]) \/ by[p] \in {"hand", "pet"}
    /\ Return(p)
    /\ UNCHANGED <<shared, jobs, reactor, loot>>

Enter(p) ==
    /\ at[p] = "enter" /\ by[p] \in {"hand", "pet"}
    /\ monitor[on[p]] = None
    /\ ~Taken(on[p])
    /\ monitor' = [monitor EXCEPT ![on[p]] = p]
    /\ \/ Goto(p, "give")
       \* a pet without the meso magnet, of a player without a party
       \/ by[p] = "pet" /\ kind[on[p]] = "meso" /\ Goto(p, "unmark")
       \* a pet that wears the item ignore list, whose list lacks the item
       \/ by[p] = "pet" /\ kind[on[p]] = "pet" /\ Goto(p, "mark")
    /\ UNCHANGED <<kind, onMap, picked, itemLock, on, by, jobs, reactor, loot>>

(* Meso explosion only schedules the removal; a second job for the same    *)
(* drop does no more than the first.                                       *)
Ignite(p) ==
    /\ at[p] = "enter" /\ by[p] = "blast"
    /\ monitor[on[p]] = None
    /\ ~Taken(on[p])
    /\ blast' = [blast EXCEPT ![on[p]] = IF @ = "none" THEN "armed" ELSE @]
    /\ Return(p)
    /\ UNCHANGED <<shared, expiry, offer, reactor, loot>>

Unmark(p) ==
    /\ at[p] = "unmark"
    /\ picked' = [picked EXCEPT ![on[p]] = FALSE]
    /\ Leave(p)
    /\ UNCHANGED <<kind, onMap, itemLock, jobs, reactor, loot>>

(* By hand, and for what is consumed on pickup, the drop is marked first   *)
(* and then removed; a pet removes first.                                  *)
MarksFirst(p) == by[p] = "hand" \/ kind[on[p]] = "use"
NeedsSlot(d) == kind[d] \notin {"meso", "use"}
Full(p) == Cardinality(bag[p]) >= Capacity

(* Mutant: every caller ignores the result. *)
AlwaysLostWhenFull(p) == TRUE

(* addFromDrop fails, its result is ignored, and the drop is gone. *)
LostWhenFull(p) ==
    \/ by[p] = "pet" /\ kind[on[p]] = "script"
    \/ by[p] = "hand" /\ kind[on[p]] = "jewel"

Gain(p) ==
    LET d == on[p] IN
    /\ at[p] = "give"
    /\ NeedsSlot(d) => ~Full(p)
    /\ bag' = [bag EXCEPT ![p] = IF NeedsSlot(d) THEN @ \cup {d} ELSE @]
    /\ gains' = [gains EXCEPT ![d] = @ + 1]
    /\ Goto(p, IF MarksFirst(p) THEN "mark" ELSE "remove")
    /\ UNCHANGED <<shared, on, by, jobs, reactor, cleared>>

Fail(p) ==
    /\ at[p] = "give"
    /\ NeedsSlot(on[p]) /\ Full(p)
    /\ IF LostWhenFull(p)
         THEN /\ Goto(p, IF MarksFirst(p) THEN "mark" ELSE "remove")
              /\ UNCHANGED <<monitor, on, by>>
         ELSE Leave(p)
    /\ UNCHANGED <<kind, onMap, picked, itemLock, jobs, reactor, loot>>

Mark(p) ==
    /\ at[p] = "mark"
    /\ picked' = [picked EXCEPT ![on[p]] = TRUE]
    /\ IF MarksFirst(p) THEN Goto(p, "remove") /\ UNCHANGED <<monitor, on, by>>
                        ELSE Leave(p)
    /\ UNCHANGED <<kind, onMap, itemLock, jobs, reactor, loot>>

Remove(p) ==
    /\ at[p] = "remove"
    /\ onMap' = onMap \ {on[p]}
    /\ IF MarksFirst(p) THEN Leave(p)
                        ELSE Goto(p, "mark") /\ UNCHANGED <<monitor, on, by>>
    /\ UNCHANGED <<kind, picked, itemLock, jobs, reactor, loot>>
-----------------------------------------------------------------------------
(* ExpireMapItemJob: the drop is looked up, the lock taken, the flag read, *)
(* then set; removal comes last, in the finally block.                     *)
ExpireLook(d) ==
    /\ expiry[d] = "armed"
    /\ expiry' = [expiry EXCEPT ![d] = IF d \in onMap THEN "lock" ELSE "done"]
    /\ UNCHANGED <<shared, session, offer, blast, reactor, loot>>

(* Mutant: a drop that was taken is left alone, the finally forgotten. *)
ExpireLockOnly(d) ==
    /\ expiry[d] = "lock"
    /\ ~itemLock[d]
    /\ IF picked[d]
         THEN /\ expiry' = [expiry EXCEPT ![d] = "done"]
              /\ UNCHANGED itemLock
         ELSE /\ expiry' = [expiry EXCEPT ![d] = "mark"]
              /\ itemLock' = [itemLock EXCEPT ![d] = TRUE]
    /\ UNCHANGED <<kind, onMap, picked, monitor, session, offer, blast,
                   reactor, loot>>

ExpireLock(d) ==
    /\ expiry[d] = "lock"
    /\ ~itemLock[d]
    /\ IF picked[d]
         THEN /\ expiry' = [expiry EXCEPT ![d] = "remove"]
              /\ UNCHANGED itemLock
         ELSE /\ expiry' = [expiry EXCEPT ![d] = "mark"]
              /\ itemLock' = [itemLock EXCEPT ![d] = TRUE]
    /\ UNCHANGED <<kind, onMap, picked, monitor, session, offer, blast,
                   reactor, loot>>

ExpireMark(d) ==
    /\ expiry[d] = "mark"
    /\ picked' = [picked EXCEPT ![d] = TRUE]
    /\ itemLock' = [itemLock EXCEPT ![d] = FALSE]
    /\ expiry' = [expiry EXCEPT ![d] = "remove"]
    /\ UNCHANGED <<kind, onMap, monitor, session, offer, blast, reactor, loot>>

ExpireRemove(d) ==
    /\ expiry[d] = "remove"
    /\ onMap' = onMap \ {d}
    /\ expiry' = [expiry EXCEPT ![d] = "done"]
    /\ UNCHANGED <<kind, picked, monitor, itemLock, session, offer, blast,
                   reactor, loot>>

(* ActivateItemReactor takes the drop off the map without marking it; a    *)
(* drop that is gone leaves the reactor's timer active.                    *)
OfferLook(d) ==
    /\ offer[d] = "armed"
    /\ offer' = [offer EXCEPT ![d] = IF d \in onMap THEN "lock" ELSE "missed"]
    /\ UNCHANGED <<shared, session, expiry, blast, reactor, loot>>

OfferLock(d) ==
    /\ offer[d] = "lock"
    /\ ~itemLock[d]
    /\ IF picked[d]
         THEN /\ offer' = [offer EXCEPT ![d] = "missed"]
              /\ UNCHANGED itemLock
         ELSE /\ offer' = [offer EXCEPT ![d] = "remove"]
              /\ itemLock' = [itemLock EXCEPT ![d] = TRUE]
    /\ UNCHANGED <<kind, onMap, picked, monitor, session, expiry, blast,
                   reactor, loot>>

OfferRemove(d) ==
    /\ offer[d] = "remove"
    /\ onMap' = onMap \ {d}
    /\ offer' = [offer EXCEPT ![d] = "hit"]
    /\ UNCHANGED <<kind, picked, monitor, itemLock, session, expiry, blast,
                   reactor, loot>>

OfferHit(d) ==
    /\ offer[d] = "hit"
    /\ offer' = [offer EXCEPT ![d] = "fed"]
    /\ ready' = FALSE
    /\ timerActive' = FALSE
    /\ itemLock' = [itemLock EXCEPT ![d] = FALSE]
    /\ UNCHANGED <<kind, onMap, picked, monitor, session, expiry, blast, loot>>

(* The reactor's delay ends: setState(0). *)
Reset ==
    /\ ~ready
    /\ ready' = TRUE
    /\ UNCHANGED <<shared, session, jobs, timerActive, loot>>

BlastRemove(d) ==
    /\ blast[d] = "armed"
    /\ onMap' = onMap \ {d}
    /\ blast' = [blast EXCEPT ![d] = "mark"]
    /\ UNCHANGED <<kind, picked, monitor, itemLock, session, expiry, offer,
                   reactor, loot>>

BlastMark(d) ==
    /\ blast[d] = "mark"
    /\ picked' = [picked EXCEPT ![d] = TRUE]
    /\ blast' = [blast EXCEPT ![d] = "done"]
    /\ UNCHANGED <<kind, onMap, monitor, itemLock, session, expiry, offer,
                   reactor, loot>>
(* clearDrops, run by a timer that found the map empty: a player may have  *)
(* come in between that test and the removal of a drop.  Nothing is marked.*)
Clear(d) ==
    /\ d \in onMap
    /\ onMap' = onMap \ {d}
    /\ cleared' = cleared \cup {d}
    /\ UNCHANGED <<kind, picked, monitor, itemLock, session, jobs, reactor,
                   bag, gains>>
-----------------------------------------------------------------------------
Request(p) ==
    \/ \E d \in Drops, k \in Kinds : Spawn(p, d, k)
    \/ \E d \in Drops, how \in {"hand", "pet", "blast"} : Look(p, d, how)

Handle(p) ==
    \/ Schedule(p) \/ Arm(p)
    \/ TurnedAway(p) \/ Enter(p) \/ Ignite(p)
    \/ Unmark(p) \/ Gain(p) \/ Fail(p) \/ Mark(p) \/ Remove(p)

Expire(d) ==
    ExpireLook(d) \/ ExpireLock(d) \/ ExpireMark(d) \/ ExpireRemove(d)

Activate(d) == OfferLook(d) \/ OfferLock(d) \/ OfferRemove(d) \/ OfferHit(d)

Explode(d) == BlastRemove(d) \/ BlastMark(d)

Next ==
    \/ \E p \in Players : Request(p) \/ Handle(p)
    \/ \E d \in Drops : Expire(d) \/ Activate(d) \/ Explode(d) \/ Clear(d)
    \/ Reset

(* A thread that can run is run in the end: a handler that was called goes *)
(* on, a job whose time has come is run by the timer's pool.  Nobody is    *)
(* bound to send a packet, and monitors are not fair to those who wait.    *)
Fairness ==
    /\ \A p \in Players : WF_vars(Handle(p))
    /\ \A d \in Drops :
         WF_vars(Expire(d)) /\ WF_vars(Activate(d)) /\ WF_vars(Explode(d))

Spec == Init /\ [][Next]_vars
FairSpec == Spec /\ Fairness
-----------------------------------------------------------------------------
SessionPlaces ==
    {"idle", "schedule", "arm", "enter", "give", "unmark", "mark", "remove"}

TypeOK ==
    /\ kind \in [Drops -> Kinds \cup {None}]
    /\ onMap \subseteq Drops
    /\ picked \in [Drops -> BOOLEAN]
    /\ monitor \in [Drops -> Players \cup {None}]
    /\ itemLock \in [Drops -> BOOLEAN]
    /\ at \in [Players -> SessionPlaces]
    /\ on \in [Players -> Drops \cup {None}]
    /\ \A p \in Players : at[p] = "idle" <=> on[p] = None
    /\ by \in [Players -> {"hand", "pet", "blast"}]
    /\ expiry \in [Drops -> {"none", "armed", "lock", "mark", "remove", "done"}]
    /\ offer \in
         [Drops -> {"none", "armed", "lock", "remove", "hit", "fed", "missed"}]
    /\ blast \in [Drops -> {"none", "armed", "mark", "done"}]
    /\ timerActive \in BOOLEAN
    /\ ready \in BOOLEAN
    /\ bag \in [Players -> SUBSET Drops]
    /\ gains \in [Drops -> Nat]
    /\ cleared \subseteq Drops

(* However hands, pets, explosions, the expiry and the reactor race for a  *)
(* drop, it is given to a player at most once.                             *)
LootedOnce == \A d \in Drops : gains[d] <= 1

(* The reactor misses an offering it was armed for only because a player   *)
(* was given it, its time on the map ran out, or the map was cleared.      *)
MissedOnlyIfTaken ==
    \A d \in Drops : offer[d] = "missed" =>
        gains[d] = 1 \/ expiry[d] \in {"remove", "done"} \/ d \in cleared

(* No drop lies on the map for ever, whoever was disturbed while taking    *)
(* it, also one that was marked and not removed.                           *)
EventuallyGone == \A d \in Drops : (d \in onMap) ~> (d \notin onMap)

(* Every handler that goes for a drop returns, although the monitor it     *)
(* waits for is taken by others again and again.                           *)
HandlersReturn == \A p \in Players : (at[p] # "idle") ~> (at[p] = "idle")
=============================================================================
