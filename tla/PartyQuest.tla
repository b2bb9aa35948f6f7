----------------------------- MODULE PartyQuest -----------------------------
(* The party quest of Kerning City.  Lakelis (9020000.js) lets one party in  *)
(* at a time: the leader's talk tests the party, makes an event instance and *)
(* registers the members with it one by one, and only then shuts the door,   *)
(* the property KPQOpen of the event.  Cloto (9020001.js) clears the stages, *)
(* portals (kpq0.js to kpq4.js) lead from one to the next, Nella             *)
(* (9020002.js) lets people out; KerningPQ.js is called back when a member   *)
(* leaves the party, is expelled, dies or disconnects, and when the time is  *)
(* up.                                                                       *)
(*                                                                           *)
(* A step is one callback or one click.  The talk that starts the quest and  *)
(* the walk through a portal are cut where other sessions get in between.    *)
(* What is dropped, handed over and counted (coupons, passes, the positions  *)
(* of the members on ropes and barrels) is a free choice.                    *)
EXTENDS Naturals, FiniteSets

CONSTANTS
    Players,
    Parties,
    Inst,        \* the instances there is room for
    Fit,         \* the players whose level is in minLevel..maxLevel
    Lineup,      \* the members of each party at first
    Founder,     \* who made it and leads it
    MinPlayers,  \* minPlayers of KerningPQ.js, 4
    ComboSize,   \* the ropes, platforms or barrels of a combination, 3
    LastStage,   \* 5
    MaxChanges,  \* a bound on the changes of parties and the disconnects
    Null

ASSUME NullAssumption == Null \notin Players \cup Parties \cup Inst
ASSUME LineupAssumption ==
    /\ Lineup \in [Parties -> SUBSET Players]
    /\ Founder \in [Parties -> Players]
    /\ \A k \in Parties : Founder[k] \in Lineup[k]
    /\ \A j, k \in Parties : j # k => Lineup[j] \cap Lineup[k] = {}

ASSUME StageAssumption == LastStage \in Nat \ {0}

VARIABLES
    kpqOpen,  \* the property KPQOpen of the event
    phase,    \* of an instance: unused, live, or disposed
    chars,    \* the list of an instance; getCharacterById may have put a null in it
    cleared,  \* the stages k with "kstageclear"
    armed,    \* the instances whose timeOut is scheduled
    at,       \* where a player is
    eim,      \* the event instance of a player
    party,    \* the party of a player
    members,  \* the members of a party
    leader,   \* the leader of a party
    listed,   \* the parties of World.parties
    start,    \* the talk of a leader that registers his party
    via,      \* where a portal, or Cloto, is about to take a player
    page,     \* a page of Cloto that waits for a click: the stage it is
              \* about, and the instance of the player when it was shown
    changes,  \* the changes of parties and the disconnects so far
    mishap,   \* has a registration thrown, or overlapped another?
    late,     \* who was taken into an instance that no longer had him
    strayed   \* history: who got the prize of an instance on a page that was
              \* shown in another one

door == <<kpqOpen, mishap>>
instances == <<phase, chars, cleared, armed>>
parties == <<party, members, leader, listed, changes>>
players == <<at, eim, via, page, late, strayed>>
vars == <<door, instances, parties, players, start>>

-----------------------------------------------------------------------------
(* The maps: stage k is 103000799 + k of an instance, the one after the last *)
(* the bonus.  Copy is the copy of Kerning that an instance makes for who is *)
(* warped there while registered; its portals lead to copies too.            *)

Stages == 1..LastStage
Bonus == LastStage + 1
Outside(name) == [map |-> name, inst |-> Null, stage |-> 0]
Kerning == Outside("Kerning")
Away == Outside("Away")
Exit == Outside("Exit")
Copy == Outside("Copy")
Off == Outside("Off")
Stage(i, k) == [map |-> "Quest", inst |-> i, stage |-> k]
Rooms == {Stage(i, k) : i \in Inst, k \in 1..Bonus}
Places == {Kerning, Away, Exit, Copy, Off} \cup Rooms

Inside(p, i) == at[p].inst = i
Live(i) == i \in Inst /\ phase[i] = "live"

(* A session handles one packet after the other. *)
Idle(p) == at[p] # Off /\ start[p] = Null /\ via[p] = Null

(* isLeader dereferences the party and its leader. *)
LeaderKnown(p) == party[p] # Null /\ leader[party[p]] # Null
IsLeader(p) == party[p] # Null /\ leader[party[p]] = p

Walks == [inst : Inst, party : Parties, seen : SUBSET Players,
          todo : SUBSET Players, stale : BOOLEAN]

Pages == [stage : {1, LastStage}, inst : Inst]

ASSUME WalkAssumption == Null \notin Walks \cup Pages

TypeOK ==
    /\ kpqOpen \in BOOLEAN /\ mishap \in BOOLEAN
    /\ phase \in [Inst -> {"unused", "live", "disposed"}]
    /\ chars \in [Inst -> SUBSET (Players \cup {Null})]
    /\ cleared \in [Inst -> SUBSET Stages]
    /\ armed \subseteq Inst
    /\ at \in [Players -> Places]
    /\ eim \in [Players -> Inst \cup {Null}]
    /\ party \in [Players -> Parties \cup {Null}]
    /\ members \in [Parties -> SUBSET Players]
    /\ leader \in [Parties -> Players \cup {Null}]
    /\ listed \subseteq Parties
    /\ changes \in Nat
    /\ start \in [Players -> Walks \cup {Null}]
    /\ via \in [Players -> Rooms \cup {Null}]
    /\ page \in [Players -> Pages \cup {Null}]
    /\ late \subseteq Players
    /\ strayed \subseteq Players \X Inst

Init ==
    /\ kpqOpen = TRUE /\ mishap = FALSE
    /\ phase = [i \in Inst |-> "unused"]
    /\ chars = [i \in Inst |-> {}]
    /\ cleared = [i \in Inst |-> {}]
    /\ armed = {}
    /\ at = [p \in Players |-> Kerning]
    /\ eim = [p \in Players |-> Null]
    /\ members = Lineup
    /\ leader = Founder
    /\ party = [p \in Players |->
            IF \E k \in Parties : p \in Lineup[k]
            THEN CHOOSE k \in Parties : p \in Lineup[k] ELSE Null]
    /\ listed = Parties
    /\ changes = 0
    /\ start = [p \in Players |-> Null]
    /\ via = [p \in Players |-> Null]
    /\ page = [p \in Players |-> Null]
    /\ late = {}
    /\ strayed = {}

-----------------------------------------------------------------------------
(* KerningPQ.js: how people get out of an instance. *)

(* playerExit, for each of some players: the exit map for who is online. *)
playerExit(S) ==
    /\ eim' = [p \in Players |-> IF p \in S THEN Null ELSE eim[p]]
    /\ at' = [p \in Players |-> IF p \in S /\ at[p] # Off THEN Exit ELSE at[p]]
    /\ late' = late \ S

(* Mutant: one of the players is not sent out. *)
disbandKeepsOne(i) ==
    LET one == CHOOSE p \in chars[i] : TRUE IN
    /\ playerExit(chars[i] \ {Null, one})
    /\ chars' = [chars EXCEPT ![i] = {}]
    /\ phase' = [phase EXCEPT ![i] = IF Null \in chars[i] THEN @ ELSE "disposed"]

(* disbandParty and clearPQ: everyone out, then dispose.  A null in the list *)
(* comes last, is taken off it, and throws before the dispose.               *)
disbandParty(i) ==
    /\ playerExit(chars[i] \ {Null})
    /\ chars' = [chars EXCEPT ![i] = {}]
    /\ phase' = [phase EXCEPT ![i] = IF Null \in chars[i] THEN @ ELSE "disposed"]

(* leftParty: the others may go on if there were enough of them. *)
leftParty(p, i) ==
    \/ /\ Cardinality(chars[i]) < MinPlayers
       /\ disbandParty(i)
    \/ /\ Cardinality(chars[i]) >= MinPlayers
       /\ playerExit({p})
       /\ chars' = [chars EXCEPT ![i] = @ \ {p}]
       /\ UNCHANGED phase

NothingEnds == UNCHANGED <<chars, phase, eim, at, late>>

(* Mutant: the players are not sent out. *)
timeOutUnheard(i) ==
    /\ i \in armed
    /\ armed' = armed \ {i}
    /\ phase' = [phase EXCEPT ![i] = "disposed"]
    /\ UNCHANGED <<door, chars, cleared, parties, players, start>>

(* timeOut, once per instance, and also when the instance has ended before:  *)
(* whoever is on its list, wherever he is, is sent out.                      *)
timeOut(i) ==
    /\ i \in armed
    /\ armed' = armed \ {i}
    /\ playerExit(chars[i] \ {Null})
    /\ chars' = [chars EXCEPT ![i] = {}]
    /\ phase' = [phase EXCEPT ![i] = IF Null \in chars[i] THEN @ ELSE "disposed"]
    /\ UNCHANGED <<door, cleared, parties, via, page, strayed, start>>

-----------------------------------------------------------------------------
(* Lakelis: the leader's talk.  It tests how many of the party are on the    *)
(* map and how many of it, present or not, have the level; setup makes the   *)
(* instance and schedules its timeOut.                                       *)
Lakelis(p, i) ==
    LET k == party[p]
        inMap == {q \in Players : at[q] = Kerning /\ party[q] = k}
        levelValid == members[k] \cap Fit IN
    /\ Idle(p) /\ page[p] = Null /\ at[p] = Kerning /\ IsLeader(p)
    /\ Cardinality(inMap) \in 1..4
    /\ Cardinality(levelValid) = Cardinality(inMap)
    /\ kpqOpen
    /\ phase[i] = "unused"
    /\ phase' = [phase EXCEPT ![i] = "live"]
    /\ armed' = armed \cup {i}
    /\ start' = [start EXCEPT ![p] = [inst |-> i, party |-> k, seen |-> members[k],
                                      todo |-> members[k], stale |-> FALSE]]
    /\ mishap' = (mishap \/ \E q \in Players : start[q] # Null)
    /\ UNCHANGED <<kpqOpen, chars, cleared, parties, players>>

(* registerParty goes through the members of the party as its list iterator  *)
(* does: a change of the list on the way throws at the next member.          *)
HasNext(w) ==
    IF w.stale THEN Cardinality(w.seen \ w.todo) < Cardinality(members[w.party])
    ELSE w.todo # {}

(* Whatever registerParty throws leaves the script before the door is shut. *)
Throws(p) == /\ start' = [start EXCEPT ![p] = Null]
             /\ mishap' = TRUE

(* registerPlayer for the next member: on the list, registered, and taken to *)
(* the first stage.  A member who is not on the map is a null.  An instance  *)
(* that has been disposed of has no event manager to call playerEntry on.    *)
registerPlayer(p, q) ==
    LET w == start[p] IN
    /\ w # Null /\ ~w.stale /\ q \in w.todo
    /\ \/ /\ at[q] = Kerning
          /\ chars' = [chars EXCEPT ![w.inst] = @ \cup {q}]
          /\ eim' = [eim EXCEPT ![q] = w.inst]
          /\ \/ /\ Live(w.inst)
                /\ at' = [at EXCEPT ![q] = Stage(w.inst, 1)]
                /\ start' = [start EXCEPT ![p].todo = @ \ {q}]
                /\ UNCHANGED mishap
             \/ /\ ~Live(w.inst)
                /\ Throws(p)
                /\ UNCHANGED at
       \/ /\ at[q] # Kerning
          /\ chars' = [chars EXCEPT ![w.inst] = @ \cup {Null}]
          /\ Throws(p)
          /\ UNCHANGED <<eim, at>>
    /\ UNCHANGED <<kpqOpen, phase, cleared, armed, parties, via, page, strayed, late>>

(* The list was changed since the talk began. *)
ListChanged(p) ==
    LET w == start[p] IN
    /\ w # Null /\ w.stale /\ HasNext(w)
    /\ Throws(p)
    /\ UNCHANGED <<kpqOpen, instances, parties, players>>

(* Mutant: the door stays open. *)
ShutNothing(p) ==
    /\ start[p] # Null /\ ~HasNext(start[p])
    /\ start' = [start EXCEPT ![p] = Null]
    /\ UNCHANGED <<door, instances, parties, players>>

(* Back in the script: the door is shut. *)
ShutDoor(p) ==
    /\ start[p] # Null /\ ~HasNext(start[p])
    /\ start' = [start EXCEPT ![p] = Null]
    /\ kpqOpen' = FALSE
    /\ UNCHANGED <<mishap, instances, parties, players>>

-----------------------------------------------------------------------------
(* Cloto: the leader clears the stage he stands in. *)

(* Stages 2 to 4 ask for three members on the right combination, wherever    *)
(* they are: a null in the list throws.  The others ask for passes.          *)
ComboStage(i, k) ==
    k \notin {1, LastStage} => Null \notin chars[i] /\ Cardinality(chars[i]) >= ComboSize

(* clear, after the talks in which she explains the stage. *)
Clear(p) ==
    LET i == eim[p]
        k == at[p].stage IN
    /\ Idle(p) /\ page[p] = Null /\ k \in Stages /\ i # Null
    /\ IsLeader(p)
    /\ k \notin cleared[i]
    /\ ComboStage(i, k)
    /\ cleared' = [cleared EXCEPT ![i] = @ \cup {k}]
    /\ UNCHANGED <<door, phase, chars, armed, parties, players, start>>

(* Mutant: kpq4 leads back. *)
KpqBack(k) == IF k = LastStage THEN [needs |-> k - 1, to |-> k - 1] ELSE [needs |-> k, to |-> k + 1]

(* The portal next00 of a stage: kpq0 in the first, the one clear names in   *)
(* the next; kpq4, in the 5th, leads to where it is.  The portal reads the   *)
(* instance of the player, and what it has cleared, before it moves him.     *)
Next00(k) == IF k = LastStage THEN [needs |-> k - 1, to |-> k] ELSE [needs |-> k, to |-> k + 1]

(* Mutant: the portal does not ask for "stageclear". *)
EnterUncleared(p) ==
    LET i == eim[p]
        k == at[p].stage IN
    /\ Idle(p) /\ k \in Stages /\ Live(i)
    /\ via' = [via EXCEPT ![p] = Stage(i, Next00(k).to)]
    /\ UNCHANGED <<door, instances, parties, at, eim, page, strayed, late, start>>

EnterPortal(p) ==
    LET i == eim[p]
        k == at[p].stage IN
    /\ Idle(p) /\ k \in Stages /\ Live(i)
    /\ k > 1 => k - 1 \in cleared[at[p].inst]
    /\ Next00(k).needs \in cleared[i]
    /\ via' = [via EXCEPT ![p] = Stage(i, Next00(k).to)]
    /\ UNCHANGED <<door, instances, parties, at, eim, page, strayed, late, start>>

(* changeMap, which does not ask whether the instance still has the player. *)
Arrive(p) ==
    /\ via[p] # Null
    /\ via' = [via EXCEPT ![p] = Null]
    /\ at' = [at EXCEPT ![p] = via[p]]
    /\ late' = IF p \in chars[via[p].inst] THEN late \ {p} ELSE late \cup {p}
    /\ UNCHANGED <<door, instances, parties, eim, page, strayed, start>>

(* Cloto's pages that wait for a click: the question to a member in the      *)
(* first stage, and the prize in the 5th, once cleared.                      *)
ShowPage(p) ==
    LET i == eim[p]
        k == at[p].stage IN
    /\ Idle(p) /\ page[p] = Null /\ i # Null
    /\ \/ k = 1 /\ LeaderKnown(p) /\ ~IsLeader(p)
       \/ k = LastStage /\ k \in cleared[i]
    /\ page' = [page EXCEPT ![p] = [stage |-> k, inst |-> i]]
    /\ UNCHANGED <<door, instances, parties, at, eim, via, late, strayed, start>>

(* Mutant: the prize does not ask for the instance. *)
ClickUnread(p) ==
    /\ Idle(p) /\ page[p] # Null
    /\ page' = [page EXCEPT ![p] = Null]
    /\ via' = [via EXCEPT ![p] = Stage(eim[p], Bonus)]
    /\ UNCHANGED <<door, instances, parties, at, eim, late, strayed, start>>

(* The click: the stage is still that of the page, the instance, what it has *)
(* cleared and the party are those of now.  The prize leads to the bonus     *)
(* stage; who leads the party by now may clear the stage of the page,        *)
(* wherever he is; or the page is closed, or nothing comes of it.            *)
ClickPage(p) ==
    LET i == eim[p]
        k == page[p].stage IN
    /\ Idle(p) /\ page[p] # Null
    /\ page' = [page EXCEPT ![p] = Null]
    /\ \/ /\ k = LastStage /\ Live(i) /\ k \in cleared[i]
          /\ via' = [via EXCEPT ![p] = Stage(i, Bonus)]
          /\ strayed' = IF page[p].inst = i THEN strayed ELSE strayed \cup {<<p, i>>}
          /\ UNCHANGED cleared
       \/ /\ i # Null /\ IsLeader(p) /\ k \notin cleared[i]
          /\ cleared' = [cleared EXCEPT ![i] = @ \cup {k}]
          /\ UNCHANGED <<via, strayed>>
       \/ UNCHANGED <<via, strayed, cleared>>
    /\ UNCHANGED <<door, phase, chars, armed, parties, at, eim, late, start>>

-----------------------------------------------------------------------------
(* The ways out. *)

(* Nella: in the exit map she leads to Kerning (its copy, for who is         *)
(* registered), elsewhere to the exit map.  The leader opens the door and    *)
(* takes everyone out.                                                       *)
Nella(p) ==
    LET i == eim[p] IN
    /\ Idle(p) /\ page[p] = Null
    /\ \/ /\ at[p] = Exit
          /\ i = Null \/ Live(i)
          /\ at' = [at EXCEPT ![p] = IF i = Null THEN Kerning ELSE Copy]
          /\ UNCHANGED <<kpqOpen, chars, phase, eim, late>>
       \/ /\ at[p] \in Rooms /\ i = Null
          /\ at' = [at EXCEPT ![p] = Exit]
          /\ late' = late \ {p}
          /\ UNCHANGED <<kpqOpen, chars, phase, eim>>
       \/ /\ at[p] \in Rooms /\ i # Null
          /\ IsLeader(p)
          /\ kpqOpen' = TRUE
          /\ \/ Live(i) /\ disbandParty(i)
             \/ ~Live(i) /\ NothingEnds
       \/ /\ at[p] \in Rooms /\ Live(i)
          /\ LeaderKnown(p) /\ ~IsLeader(p)
          /\ leftParty(p, i)
          /\ UNCHANGED kpqOpen
    /\ UNCHANGED <<mishap, cleared, armed, parties, via, page, strayed, start>>

(* playerRevive, when a dead player presses OK.  It asks for the size of a   *)
(* list that it has not fetched yet, so only a leader gets further: he ends  *)
(* the quest, and goes from the exit map to the map that one returns to.     *)
(* For anybody else the callback throws, and the way home is the usual one.  *)
playerRevive(p) ==
    LET i == eim[p] IN
    /\ Idle(p) /\ at[p] \in Rooms
    /\ \/ /\ i = Null
          /\ at' = [at EXCEPT ![p] = Exit]
          /\ late' = late \ {p}
          /\ UNCHANGED <<chars, phase, eim>>
       \/ /\ Live(i) /\ ~IsLeader(p)
          /\ at' = [at EXCEPT ![p] = Exit]
          /\ late' = late \ {p}
          /\ UNCHANGED <<chars, phase, eim>>
       \/ /\ Live(i) /\ IsLeader(p) /\ Null \notin chars[i]
          /\ eim' = [q \in Players |-> IF q \in chars[i] THEN Null ELSE eim[q]]
          /\ at' = [q \in Players |-> IF q = p THEN Kerning
                    ELSE IF q \in chars[i] /\ at[q] # Off THEN Exit ELSE at[q]]
          /\ late' = late \ (chars[i] \cup {p})
          /\ chars' = [chars EXCEPT ![i] = {}]
          /\ phase' = [phase EXCEPT ![i] = "disposed"]
    /\ UNCHANGED <<door, cleared, armed, parties, via, page, strayed, start>>

(* A party list that changes while registerParty walks it. *)
Restart(k) == [p \in Players |->
    IF start[p] # Null /\ start[p].party = k
    THEN [start[p] EXCEPT !.stale = TRUE] ELSE start[p]]

Change == changes < MaxChanges /\ changes' = changes + 1

(* PartyOperationHandler: leave, which for the leader is to disband.  The    *)
(* members lose the party before the event instance hears of it.             *)
LeaveParty(p) ==
    LET k == party[p]
        i == eim[p] IN
    /\ Change
    /\ Idle(p) /\ k # Null
    /\ \/ /\ leader[k] = p
          /\ party' = [q \in Players |->
                IF q \in members[k] /\ at[q] # Off THEN Null ELSE party[q]]
          /\ listed' = listed \ {k}
          /\ \/ Live(i) /\ disbandParty(i)
             \/ ~Live(i) /\ NothingEnds
          /\ UNCHANGED <<members, start>>
       \/ /\ leader[k] # p
          /\ party' = [party EXCEPT ![p] = Null]
          /\ members' = [members EXCEPT ![k] = @ \ {p}]
          /\ start' = Restart(k)
          /\ \/ Live(i) /\ leftParty(p, i)
             \/ ~Live(i) /\ NothingEnds
          /\ UNCHANGED listed
    /\ UNCHANGED <<door, cleared, armed, leader, via, page, strayed>>

(* Expel: the instance of the leader, if he has one, ends for everyone. *)
Expel(p, q) ==
    LET k == party[p]
        i == eim[p] IN
    /\ Change
    /\ Idle(p) /\ k # Null /\ leader[k] = p /\ q \in members[k] \ {p}
    /\ members' = [members EXCEPT ![k] = @ \ {q}]
    /\ party' = [party EXCEPT ![q] = IF at[q] = Off THEN @ ELSE Null]
    /\ start' = Restart(k)
    /\ \/ Live(i) /\ at[q] # Off /\ disbandParty(i)
       \/ ~(Live(i) /\ at[q] # Off) /\ NothingEnds
    /\ UNCHANGED <<door, cleared, armed, leader, listed, via, page, strayed>>

(* Change of leader: any member, to whatever id; nobody if that member is    *)
(* no longer there.                                                          *)
ChangeLeader(p, q) ==
    LET k == party[p] IN
    /\ Change
    /\ Idle(p) /\ k # Null /\ q \in members[k] \cup {Null}
    /\ leader' = [leader EXCEPT ![k] = q]
    /\ UNCHANGED <<door, instances, party, members, listed, players, start>>

Join(p, k) ==
    /\ Change
    /\ Idle(p) /\ party[p] = Null /\ k \in listed
    /\ Cardinality(members[k]) < 6
    /\ members' = [members EXCEPT ![k] = @ \cup {p}]
    /\ party' = [party EXCEPT ![p] = k]
    /\ start' = Restart(k)
    /\ UNCHANGED <<door, instances, leader, listed, players>>

(* MapleClient.disconnect: playerDisconnected sends the others out if the    *)
(* leader goes or too few stay (and throws for a player without a party, who *)
(* stays on the list, and at a null in it); then a leader is replaced by     *)
(* someone of the party who is still on the map he left.                     *)
GoesOff(p, S) ==
    /\ at' = [q \in Players |-> IF q = p THEN Off
              ELSE IF q \in S /\ at[q] # Off THEN Exit ELSE at[q]]
    /\ eim' = [q \in Players |-> IF q \in S THEN Null ELSE eim[q]]
    /\ late' = late \ (S \cup {p})

NewLeader(p) ==
    LET k == party[p]
        left == {q \in Players \ {p} : k # Null /\ q \in members[k] /\ at'[q] = at[p]} IN
    IF k # Null /\ leader[k] = p /\ left # {}
    THEN \E q \in left : leader' = [leader EXCEPT ![k] = q]
    ELSE UNCHANGED leader

Disconnect(p) ==
    LET i == eim[p]
        ends == IsLeader(p) \/ Cardinality(chars[i]) < MinPlayers IN
    /\ Change
    /\ Idle(p)
    /\ \/ /\ Live(i) /\ LeaderKnown(p) /\ ends
          /\ GoesOff(p, chars[i] \ {Null})
          /\ chars' = [chars EXCEPT ![i] = @ \cap {Null}]
          /\ phase' = [phase EXCEPT ![i] = IF Null \in chars[i] THEN @ ELSE "disposed"]
       \/ /\ Live(i) /\ LeaderKnown(p) /\ ~ends
          /\ GoesOff(p, {p})
          /\ chars' = [chars EXCEPT ![i] = @ \ {p}]
          /\ UNCHANGED phase
       \/ /\ ~(Live(i) /\ LeaderKnown(p))
          /\ GoesOff(p, {})
          /\ UNCHANGED <<chars, phase>>
    /\ NewLeader(p)
    /\ page' = [page EXCEPT ![p] = Null]
    /\ UNCHANGED <<door, cleared, armed, party, members, listed, via, strayed, start>>

(* Walking about in town. *)
Walk(p) ==
    /\ Change
    /\ Idle(p) /\ eim[p] = Null
    /\ \/ at[p] = Kerning /\ at' = [at EXCEPT ![p] = Away]
       \/ at[p] = Away /\ at' = [at EXCEPT ![p] = Kerning]
    /\ UNCHANGED <<door, instances, party, members, leader, listed, eim, via, page, strayed, late, start>>

Next ==
    \/ \E i \in Inst : timeOut(i)
    \/ \E p \in Players :
        \/ \E i \in Inst : Lakelis(p, i)
        \/ \E q \in Players : registerPlayer(p, q) \/ Expel(p, q)
        \/ ListChanged(p) \/ ShutDoor(p)
        \/ Clear(p)
        \/ EnterPortal(p) \/ Arrive(p)
        \/ ShowPage(p) \/ ClickPage(p)
        \/ Nella(p) \/ playerRevive(p)
        \/ LeaveParty(p) \/ Disconnect(p) \/ Walk(p)
        \/ \E q \in Players \cup {Null} : ChangeLeader(p, q)
        \/ \E k \in Parties : Join(p, k)

Spec == Init /\ [][Next]_vars

(* The TimerManager runs timeOut after 30 minutes. *)
TimedSpec == Spec /\ \A i \in Inst : WF_vars(timeOut(i))

(* A session that has begun a packet goes on with it. *)
FairSpec ==
    /\ TimedSpec
    /\ \A p \in Players :
        /\ WF_vars(ListChanged(p) \/ ShutDoor(p) \/ \E q \in Players : registerPlayer(p, q))
        /\ WF_vars(Arrive(p))

-----------------------------------------------------------------------------
(* Nobody is in a stage whose predecessors his instance has not cleared,     *)
(* through any order of portals, pages, clears, deaths and changes of leader *)
(* (kpq0.js to kpq4.js, clear and getPrize of 9020001.js), but for who came  *)
(* to the bonus stage on a page that Cloto had shown in another instance.    *)
StageOrder ==
    \A p \in Players, i \in Inst :
        Inside(p, i) /\ <<p, i>> \notin strayed =>
            \A k \in Stages : k < at[p].stage => k \in cleared[i]

(* An instance has everyone on its list who is in its maps, but for who was  *)
(* taken there when it no longer had him: so the end of an instance leaves   *)
(* nobody behind (disbandParty, timeOut, playerDisconnected of KerningPQ.js).*)
InsideIsListed ==
    \A p \in Players, i \in Inst : Inside(p, i) => p \in chars[i] \cup late

(* As long as no registration threw or overlapped another, the quest has one *)
(* party at a time (KPQOpen, 9020000.js:75).                                 *)
Occupied(i) == \E p \in Players : Inside(p, i) /\ p \notin late
OneParty ==
    ~mishap => \A i, j \in Inst : Occupied(i) /\ Occupied(j) => i = j

(* A stage left behind is not entered again in the same instance, so that    *)
(* the prize before the bonus stage is had once (getPrize, 9020001.js:338).  *)
Onward ==
    [][\A p \in Players :
        at[p].inst = at'[p].inst => at[p].stage <= at'[p].stage]_vars

(* Whoever is in the quest, and the instance knows of, has its timeOut still *)
(* to come, whatever has happened to his party: members without a party, or  *)
(* whose leader is nobody, are refused by Nella, but they do not stay for    *)
(* ever (timeOut, KerningPQ.js:147).                                         *)
TimeWillBeUp ==
    \A p \in Players, i \in Inst :
        Inside(p, i) /\ p \notin late => i \in armed /\ Live(i)

(* Lakelis tells a leader that there is another party inside and to wait     *)
(* (9020000.js:84), and the event opens the door again after a party         *)
(* (OpenKPQ, KerningPQ.js:143).                                              *)
Reopens == ~kpqOpen ~> kpqOpen
=============================================================================
