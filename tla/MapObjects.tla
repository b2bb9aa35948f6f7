----------------------------- MODULE MapObjects -----------------------------
(***************************************************************************)
(* The objects of a map, server.maps.MapleMap.mapobjects: a table keyed by *)
(* object id.  The ids of most objects are handed out by runningOid.  Such *)
(* an object enters the table through addMapObject, which holds the write  *)
(* lock of the table all the time, or through spawnAndAddRangedMapObject,  *)
(* which reads runningOid under the read lock of the characters, enters    *)
(* the object under the write lock of the table, and counts on with no     *)
(* lock at all.  A character enters through addPlayer under the id it has  *)
(* in the database, whatever runningOid is and whatever is there.          *)
(*                                                                         *)
(* Each access to runningOid is a step; what a lock of the table covers    *)
(* and no unlocked code can see is part of the step that takes the lock.   *)
(***************************************************************************)
EXTENDS Naturals

CONSTANTS
    Threads,      \* sessions and timers that put objects on the map
    Objects,      \* identities of the objects that get an id from runningOid
    Characters,   \* the player characters
    CharId,       \* MapleCharacter.getObjectId: the id in the database
    None,         \* no object, no thread
    Start,        \* runningOid of a new map: 100
    Low,          \* where it begins again: 1000
    High          \* and when: 30000

ASSUME OidConstants ==
    /\ None \notin Threads \cup Objects \cup Characters \cup Nat
    /\ Objects \cap Characters = {}
    /\ CharId \in [Characters -> Nat]
    /\ \A c, d \in Characters : CharId[c] = CharId[d] => c = d
    /\ Start \in Nat /\ Low \in Nat /\ High \in Nat
    /\ Start < High /\ Low < High

VARIABLES
    table,        \* mapobjects: a function from some ids to objects
    id,           \* the objectId of each object, None before it has one
    runningOid,
    writer,       \* the thread that holds the write lock of the table
    at, on,       \* each thread: where it is, and with which object
    tmp,          \* each thread: what runningOid++ has read
    gone,         \* the objects that were removed
    present,      \* the characters on the map
    contested     \* history: the ids over which something went wrong, see
                  \* Contend, Check and AddPlayer

vars == <<table, id, runningOid, writer, at, on, tmp, gone, present, contested>>

Init ==
    /\ table = << >>
    /\ id = [o \in Objects |-> None]
    /\ runningOid = Start
    /\ writer = None
    /\ at = [t \in Threads |-> "idle"]
    /\ on = [t \in Threads |-> None]
    /\ tmp = [t \in Threads |-> 0]
    /\ gone = {}
    /\ present = {}
    /\ contested = {}

Entered(k, o) == [j \in DOMAIN table \cup {k} |-> IF j = k THEN o ELSE table[j]]
Goto(t, where) == at' = [at EXCEPT ![t] = where]
EndOf(t) == writer' = IF writer = t THEN None ELSE writer

(* The ids that are contested when t reads runningOid while others are     *)
(* busy with theirs: the one it reads, and the ones they have given.       *)
Others(t) == {u \in Threads \ {t} : at[u] # "idle"}
Contend(t) ==
    IF Others(t) = {} THEN {} ELSE {runningOid} \cup {id[on[u]] : u \in Others(t)}

(* mapobject.setObjectId(this.runningOid) *)
SetId(t, o) ==
    /\ at[t] = "idle"
    /\ id[o] = None
    /\ id' = [id EXCEPT ![o] = runningOid]
    /\ on' = [on EXCEPT ![t] = o]
    /\ Goto(t, "put")
    /\ contested' = contested \cup Contend(t)
    /\ UNCHANGED <<table, runningOid, tmp, gone, present>>

(* addMapObject *)
Add(t, o) == writer = None /\ SetId(t, o) /\ writer' = t

(* spawnAndAddRangedMapObject *)
Spawn(t, o) == SetId(t, o) /\ UNCHANGED writer

(* mapobjects.put(this.runningOid, mapobject): runningOid is read again *)
Put(t) ==
    /\ at[t] = "put"
    /\ writer \in {None, t}
    /\ table' = Entered(runningOid, on[t])
    /\ Goto(t, "read")
    /\ contested' = contested \cup Contend(t)
    /\ UNCHANGED <<id, runningOid, writer, on, tmp, gone, present>>

(* incrementRunningOid: runningOid++ reads and writes *)
Read(t) ==
    /\ at[t] = "read"
    /\ tmp' = [tmp EXCEPT ![t] = runningOid]
    /\ Goto(t, "write")
    /\ UNCHANGED <<table, id, runningOid, writer, on, gone, present, contested>>

Write(t) ==
    /\ at[t] = "write"
    /\ runningOid' = tmp[t] + 1
    /\ tmp' = [tmp EXCEPT ![t] = 0]
    /\ Goto(t, "test")
    /\ UNCHANGED <<table, id, writer, on, gone, present, contested>>

Test(t) ==
    /\ at[t] = "test"
    /\ Goto(t, IF runningOid >= High THEN "wrap" ELSE "check")
    /\ UNCHANGED <<table, id, runningOid, writer, on, tmp, gone, present, contested>>

Wrap(t) ==
    /\ at[t] = "wrap"
    /\ runningOid' = Low
    /\ Goto(t, "check")
    /\ UNCHANGED <<table, id, writer, on, tmp, gone, present, contested>>

(* Mutant: nobody looks whether the next id is in use. *)
NeverInUse(k) == FALSE

InUse(k) == k \in DOMAIN table

(* The exception is thrown after the object was entered: it stays.         *)
Check(t) ==
    /\ at[t] = "check"
    /\ writer \in {None, t}
    /\ contested' = IF InUse(runningOid) THEN contested \cup {runningOid}
                                        ELSE contested
    /\ Goto(t, "idle")
    /\ on' = [on EXCEPT ![t] = None]
    /\ EndOf(t)
    /\ UNCHANGED <<table, id, runningOid, tmp, gone, present>>

(* removeMapObject(int): whatever is there *)
Removed(k) == [j \in DOMAIN table \ {k} |-> table[j]]

(* removeMapObject(obj) of an object that was entered goes by its id.      *)
Entering(o) == \E t \in Threads : on[t] = o /\ at[t] = "put"
Remove(o) ==
    /\ id[o] # None /\ o \notin gone /\ ~Entering(o)
    /\ writer = None
    /\ table' = Removed(id[o])
    /\ gone' = gone \cup {o}
    /\ UNCHANGED <<id, runningOid, writer, at, on, tmp, present, contested>>

(* addPlayer: the id is contested when it is that of an object, or the     *)
(* next one to be handed out.                                              *)
AddPlayer(c) ==
    /\ c \notin present
    /\ writer = None
    /\ table' = Entered(CharId[c], c)
    /\ present' = present \cup {c}
    /\ contested' = contested \cup ({CharId[c]} \cap (DOMAIN table \cup {runningOid}))
    /\ UNCHANGED <<id, runningOid, writer, at, on, tmp, gone>>

(* removePlayer *)
RemovePlayer(c) ==
    /\ c \in present
    /\ writer = None
    /\ table' = Removed(CharId[c])
    /\ present' = present \ {c}
    /\ UNCHANGED <<id, runningOid, writer, at, on, tmp, gone, contested>>

Count(t) == Read(t) \/ Write(t) \/ Test(t) \/ Wrap(t) \/ Check(t)

Next ==
    \/ \E t \in Threads, o \in Objects : Add(t, o) \/ Spawn(t, o)
    \/ \E t \in Threads : Put(t) \/ Count(t)
    \/ \E o \in Objects : Remove(o)
    \/ \E c \in Characters : AddPlayer(c) \/ RemovePlayer(c)

Spec == Init /\ [][Next]_vars
-----------------------------------------------------------------------------
Placed(o) == id[o] # None /\ o \notin gone /\ ~Entering(o)

TypeOK ==
    /\ DOMAIN table \subseteq Nat
    /\ \A k \in DOMAIN table : table[k] \in Objects \cup Characters
    /\ id \in [Objects -> Nat \cup {None}]
    /\ runningOid \in Nat
    /\ writer \in Threads \cup {None}
    /\ at \in [Threads ->
               {"idle", "put", "read", "write", "test", "wrap", "check"}]
    /\ on \in [Threads -> Objects \cup {None}]
    /\ tmp \in [Threads -> Nat]
    /\ gone \subseteq Objects
    /\ present \subseteq Characters
    /\ contested \subseteq Nat

(* Whoever asks the map for an id gets the object or character that has it *)
(* (a monster is hit, a drop looted, a job finds its own drop, a player is *)
(* asked to a trade), and nothing that was removed is found any more.      *)
(* When two threads hand out ids at once, when incrementRunningOid finds   *)
(* an id in use, and when a character takes the id of an object or the     *)
(* next one, the damage stays with the ids in question.                    *)
FoundById ==
    /\ \A o \in Objects : (Placed(o) /\ id[o] \notin contested) =>
          id[o] \in DOMAIN table /\ table[id[o]] = o
    /\ \A c \in present : CharId[c] \notin contested =>
          CharId[c] \in DOMAIN table /\ table[CharId[c]] = c
    /\ \A k \in DOMAIN table :
          /\ table[k] \in gone => id[table[k]] \in contested
          /\ table[k] \in Characters => table[k] \in present

(* The comment in incrementRunningOid: no two monsters have the same oid.  *)
NoSameOid ==
    \A o1, o2 \in Objects :
        (o1 # o2 /\ Placed(o1) /\ Placed(o2)) => id[o1] # id[o2]
=============================================================================
