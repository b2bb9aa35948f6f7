------------------------------- MODULE Voyage -------------------------------
(***************************************************************************)
(* A scheduled service (a boat, train, subway, plane or elevator): the     *)
(* timer thread that runs the functions of its event script, and the       *)
(* sessions of the travellers who board, walk about, disconnect and talk   *)
(* to the people at the stops.  What the functions do is data (Routes).    *)
(*                                                                         *)
(* MapleMap.getCharacters() is a view of a LinkedHashSet: a script that    *)
(* walks over it changes it, and java.util's iterator throws               *)
(* ConcurrentModificationException when it is asked for one more.          *)
(***************************************************************************)
EXTENDS Naturals, Sequences, FiniteSets

CONSTANTS
    Travellers,   \* characters
    Jobs,         \* names of script functions
    Rooms,        \* names of maps
    Tickets,      \* ticket items
    Null,
    Lines         \* the services: what the functions of the script do
                  \* (code), where people get on (stops), the ways between
                  \* maps (doors), and where Bell lets them out (exits)

Keys == {"docked", "entry", "haveBalrog", "isUp", "isDown"}
Values == {"true", "false"}

Steps ==
         [do : {"put", "perhaps"}, key : Keys, val : Values]
    \cup [do : {"carry"}, from : Rooms, to : Rooms]
    \cup [do : {"arm"}, job : Jobs, in : Nat]

Iterators ==
    [room : Rooms, next : Travellers \cup {Null}, stale : BOOLEAN,
     came : SUBSET Travellers]

ASSUME VoyageConstants ==
    /\ IsFiniteSet(Travellers)
    /\ Null \notin Travellers \cup Jobs \cup Rooms \cup Values \cup Nat \cup Iterators
    /\ \A l \in Lines :
          /\ "init" \in DOMAIN l.code /\ DOMAIN l.code \subseteq Jobs
          /\ \A j \in DOMAIN l.code :
                /\ l.code[j] \in Seq(Steps)
                /\ \A i \in 1..Len(l.code[j]) :
                      l.code[j][i].do = "arm" => l.code[j][i].job \in DOMAIN l.code
          /\ \A s \in l.stops :
                /\ {s.dock, s.room} \subseteq Rooms
                /\ {s.takes, s.sells} \subseteq Tickets \cup {"none"}
          /\ l.doors \subseteq Rooms \X Rooms
          /\ \A m \in DOMAIN l.exits : l.exits[m] \in Rooms

(***************************************************************************)
(* How the functions of a script hang together.  The assumptions below     *)
(* hold of each transport script; TLC evaluates them on those of Routes.   *)
(***************************************************************************)
DocksOf(l) == {s.dock : s \in l.stops}
RoomsOf(l) == {s.room : s \in l.stops}
StepsOf(l, j, what) == {i \in 1..Len(l.code[j]) : l.code[j][i].do = what}
Armed(l, j) == {l.code[j][i].job : i \in StepsOf(l, j, "arm")}
Emptied(l, j) == {l.code[j][i].from : i \in StepsOf(l, j, "carry")}
ArmedAfter(l, j, i) == {l.code[j][a].job : a \in {b \in StepsOf(l, j, "arm") : b > i}}
Lasting(l) == {j \in DOMAIN l.code : Armed(l, j) # {}}
Departures(l) == {j \in DOMAIN l.code : Emptied(l, j) \cap RoomsOf(l) # {}}
SetsGate(l, j, kinds, val) ==
    {i \in 1..Len(l.code[j]) :
        l.code[j][i].do \in kinds /\ l.code[j][i].key = "entry" /\ l.code[j][i].val = val}
Openings(l, j) == SetsGate(l, j, {"put", "perhaps"}, "true")
Closings(l, j) == SetsGate(l, j, {"put"}, "false")

(* Nobody is carried into a waiting room, nor to where he is; Bell lets    *)
(* people out at the docks; the doors are on board.                        *)
ASSUME StopsAssumption ==
    \A l \in Lines :
        LET inside == Rooms \ (DocksOf(l) \cup RoomsOf(l))
        IN  /\ DocksOf(l) \cap RoomsOf(l) = {}
            /\ \A m \in DOMAIN l.exits : l.exits[m] \in DocksOf(l)
            /\ l.doors \subseteq inside \X inside
            /\ \A j \in DOMAIN l.code : \A i \in StepsOf(l, j, "carry") :
                  l.code[j][i].to \notin RoomsOf(l) \cup {l.code[j][i].from}

(* A function that schedules anything schedules one function that does so  *)
(* in its turn, and none twice.                                            *)
ASSUME RoundAssumption ==
    \A l \in Lines :
        /\ "init" \in Lasting(l)
        /\ \A j \in Lasting(l) : \E k \in Lasting(l) : Armed(l, j) \cap Lasting(l) = {k}
        /\ \A j \in DOMAIN l.code : \A a, b \in StepsOf(l, j, "arm") :
              l.code[j][a].job = l.code[j][b].job => a = b

(* A function that carries people aboard then schedules one that carries   *)
(* them off.  Behind a door only arrived carries, and both rooms.          *)
ASSUME LandingAssumption ==
    \A l \in Lines :
        /\ \A j \in DOMAIN l.code : \A i \in StepsOf(l, j, "carry") :
              \/ l.code[j][i].to \in DocksOf(l)
              \/ \E k \in ArmedAfter(l, j, i) : l.code[j][i].to \in Emptied(l, k)
        /\ \A d \in l.doors : \A j \in DOMAIN l.code :
              /\ d[2] \in Emptied(l, j) => j = "arrived"
              /\ d[1] \in Emptied(l, j) => d[2] \in Emptied(l, j)

(* A function that opens the gate then schedules departures from every     *)
(* waiting room.  Where there is a gate, a departure is scheduled with a   *)
(* closing before it, and takes part in the round.                         *)
ASSUME GateAssumption ==
    \A l \in Lines : \A o \in DOMAIN l.code : \A i \in Openings(l, o) :
        /\ \A m \in RoomsOf(l) : \E k \in ArmedAfter(l, o, i) : m \in Emptied(l, k)
        /\ Departures(l) \subseteq Lasting(l)
        /\ \A j \in DOMAIN l.code : \A a \in StepsOf(l, j, "arm") :
              l.code[j][a].job \in Departures(l) =>
                 \E b \in StepsOf(l, j, "arm") :
                    /\ b < a /\ l.code[j][b].in < l.code[j][a].in
                    /\ Closings(l, l.code[j][b].job) # {}

VARIABLES
    line,         \* the service this event manager runs
    props,        \* EventManager.props
    due,          \* tens of seconds until a scheduled function runs, or Null
    job, pc,      \* the function that runs, and its next step
    iter,         \* the iterator of its loop, or Null; history: who came in
    hand,         \* the character next() has returned, before changeMap
    where,        \* the map each traveller is on, Null when offline
    order,        \* the place of each among the characters of the map
    talk,         \* the conversation each is in, or Null
    bag,          \* the tickets each has
    broken,       \* history: a function of the script has thrown
    late,         \* history: who got in when the gate was not open
    slipped       \* history: who changed deck while arrived was running

timer == <<props, due, job, pc, iter, hand, broken>>
people == <<where, order, late, slipped>>
vars == <<line, timer, people, talk, bag>>

Program == line.code[job]
Step == Program[pc]
Running == job # Null
AtStep(what) == Running /\ pc <= Len(Program) /\ Step.do = what

Waiting == RoomsOf(line)
Docks == DocksOf(line)
Aboard(m) == m \in Rooms \ (Docks \cup Waiting)

(* Mutant: the characters of a map come in no order. *)
IsAny(p, ps) == IF ps = {} THEN p = Null ELSE p \in ps

(* MapleMap.characters, and of some of them the one who came first: the    *)
(* order of a LinkedHashSet.                                               *)
On(m) == {p \in Travellers : where[p] = m}
IsFirst(p, ps) ==
    IF ps = {} THEN p = Null ELSE p \in ps /\ \A q \in ps : order[p] <= order[q]

Init ==
    /\ line \in Lines
    /\ props = [k \in Keys |-> Null]
    /\ due = [j \in Jobs |-> Null]
    /\ job = "init" /\ pc = 1
    /\ iter = Null /\ hand = Null
    /\ where \in [Travellers -> Docks]
    /\ order \in [Travellers -> 1..Cardinality(Travellers)]
    /\ \A p \in Travellers :
          /\ order[p] <= Cardinality(On(where[p]))
          /\ \A q \in On(where[p]) \ {p} : order[q] # order[p]
    /\ talk = [p \in Travellers |-> Null]
    /\ bag = [p \in Travellers |-> {}]
    /\ broken = FALSE
    /\ late = {} /\ slipped = {}
-----------------------------------------------------------------------------
(* Mutant: everyone on the map that is left moves up. *)
ChangeMapShift(p, to) ==
    /\ where' = [where EXCEPT ![p] = to]
    /\ order' = [q \in Travellers |->
                   IF q = p THEN Cardinality(On(to) \ {p}) + 1
                   ELSE IF where[q] = where[p] THEN order[q] - 1 ELSE order[q]]
    /\ iter' = IF iter # Null /\ iter.room \in {where[p], to}
               THEN [room |-> iter.room, next |-> iter.next, stale |-> TRUE,
                     came |-> iter.came \cup (IF to = iter.room THEN {p} ELSE {})]
               ELSE iter

(* MapleCharacter.changeMap: out of the one map's characters, to the end   *)
(* of the other's; an iterator over either is out of date.                 *)
ChangeMap(p, to) ==
    /\ where' = [where EXCEPT ![p] = to]
    /\ order' = [q \in Travellers |->
                   IF q = p THEN Cardinality(On(to) \ {p}) + 1
                   ELSE IF where[q] = where[p] /\ order[q] > order[p]
                        THEN order[q] - 1 ELSE order[q]]
    /\ iter' = IF iter # Null /\ iter.room \in {where[p], to}
               THEN [room |-> iter.room, next |-> iter.next, stale |-> TRUE,
                     came |-> iter.came \cup (IF to = iter.room THEN {p} ELSE {})]
               ELSE iter

(* The timer thread calls the function that is due first. *)
Fire(j) ==
    /\ ~Running
    /\ due[j] # Null
    /\ \A k \in Jobs : due[k] # Null => due[j] <= due[k]
    /\ due' = [k \in Jobs |-> IF k = j \/ due[k] = Null THEN Null ELSE due[k] - due[j]]
    /\ job' = j /\ pc' = 1
    /\ UNCHANGED <<line, props, iter, hand, people, talk, bag, broken>>

DoPut ==
    /\ AtStep("put")
    /\ props' = [props EXCEPT ![Step.key] = Step.val]
    /\ pc' = pc + 1
    /\ UNCHANGED <<line, due, job, iter, hand, people, talk, bag, broken>>

DoPerhaps ==
    /\ AtStep("perhaps")
    /\ \/ props' = [props EXCEPT ![Step.key] = Step.val]
       \/ UNCHANGED props
    /\ pc' = pc + 1
    /\ UNCHANGED <<line, due, job, iter, hand, people, talk, bag, broken>>

(* Mutant: the delay is read as nothing. *)
DoArmNow ==
    /\ AtStep("arm")
    /\ due' = [due EXCEPT ![Step.job] = 0]
    /\ pc' = pc + 1
    /\ UNCHANGED <<line, props, job, iter, hand, people, talk, bag, broken>>

(* Mutant: there is one timer, and it is taken. *)
DoArmOne ==
    /\ AtStep("arm")
    /\ due' = IF \A k \in Jobs : due[k] = Null THEN [due EXCEPT ![Step.job] = Step.in] ELSE due
    /\ pc' = pc + 1
    /\ UNCHANGED <<line, props, job, iter, hand, people, talk, bag, broken>>

DoArm ==
    /\ AtStep("arm")
    /\ due' = [due EXCEPT ![Step.job] = Step.in]
    /\ pc' = pc + 1
    /\ UNCHANGED <<line, props, job, iter, hand, people, talk, bag, broken>>

Iterator ==
    /\ AtStep("carry")
    /\ iter = Null
    /\ \E p \in Travellers \cup {Null} :
          /\ IsFirst(p, On(Step.from))
          /\ iter' = [room |-> Step.from, next |-> p, stale |-> FALSE, came |-> {}]
    /\ UNCHANGED <<line, props, due, job, pc, hand, people, talk, bag, broken>>

(* next(), when nothing has changed the set since the iterator was made. *)
NextCharacter ==
    /\ AtStep("carry")
    /\ iter # Null /\ hand = Null
    /\ iter.next # Null /\ ~iter.stale
    /\ hand' = iter.next
    /\ \E p \in Travellers \cup {Null} :
          /\ IsFirst(p, {q \in On(iter.room) : order[q] > order[iter.next]})
          /\ iter' = [iter EXCEPT !.next = p]
    /\ UNCHANGED <<line, props, due, job, pc, people, talk, bag, broken>>

(* Mutant: the map one comes from is taken for the map one goes to. *)
CarryHandBack ==
    /\ hand # Null
    /\ IF where[hand] = Null
         THEN UNCHANGED <<iter, people>>
         ELSE /\ ChangeMap(hand, Step.from)
              /\ late' = late \ {hand} /\ slipped' = slipped \ {hand}
    /\ hand' = Null
    /\ UNCHANGED <<line, props, due, job, pc, talk, bag, broken>>

(* changeMap; one who disconnected meanwhile is not put on the new map. *)
CarryHand ==
    /\ hand # Null
    /\ IF where[hand] = Null
         THEN UNCHANGED <<iter, people>>
         ELSE /\ ChangeMap(hand, Step.to)
              /\ late' = late \ {hand} /\ slipped' = slipped \ {hand}
    /\ hand' = Null
    /\ UNCHANGED <<line, props, due, job, pc, talk, bag, broken>>

(* Mutant: the end of one loop ends those that follow it. *)
LoopEndsAll ==
    /\ AtStep("carry")
    /\ iter # Null /\ hand = Null
    /\ iter.next = Null
    /\ iter' = Null
    /\ pc' \in pc + 1..Len(Program) + 1
    /\ \A i \in pc + 1..pc' - 1 : Program[i].do = "carry"
    /\ pc' <= Len(Program) => Program[pc'].do # "carry"
    /\ UNCHANGED <<line, props, due, job, hand, people, talk, bag, broken>>

(* hasNext() is false: on to the next statement. *)
LoopEnds ==
    /\ AtStep("carry")
    /\ iter # Null /\ hand = Null
    /\ iter.next = Null
    /\ iter' = Null
    /\ pc' = pc + 1
    /\ UNCHANGED <<line, props, due, job, hand, people, talk, bag, broken>>

(* Mutant: the exception is caught around the loop. *)
LoopThrowsOn ==
    /\ AtStep("carry")
    /\ iter # Null /\ hand = Null
    /\ iter.next # Null /\ iter.stale
    /\ iter' = Null
    /\ pc' = pc + 1
    /\ UNCHANGED <<line, props, due, job, hand, people, talk, bag, broken>>

(* hasNext() is true and next() throws; the manager logs the exception. *)
LoopThrows ==
    /\ AtStep("carry")
    /\ iter # Null /\ hand = Null
    /\ iter.next # Null /\ iter.stale
    /\ broken' = TRUE
    /\ iter' = Null
    /\ job' = Null /\ pc' = 1
    /\ UNCHANGED <<line, props, due, hand, people, talk, bag>>

FunctionReturns ==
    /\ Running
    /\ pc > Len(Program)
    /\ job' = Null /\ pc' = 1
    /\ UNCHANGED <<line, props, due, iter, hand, people, talk, bag, broken>>
-----------------------------------------------------------------------------
Conversations == {"board", "buy", "leave"}

(* The reader at a stop looks at the ticket and the gate, then asks. *)
AskToBoard(p, s) ==
    /\ s.reader
    /\ talk[p] = Null /\ where[p] = s.dock
    /\ s.takes = "none" \/ s.takes \in bag[p]
    /\ props["entry"] = "true"
    /\ talk' = [talk EXCEPT ![p] = "board"]
    /\ UNCHANGED <<line, timer, people, bag>>

GetIn(p, room) ==
    /\ ChangeMap(p, room)
    /\ late' = IF props["entry"] = "true" THEN late \ {p} ELSE late \cup {p}
    /\ slipped' = slipped \ {p}

(* The answer: the ticket is taken and the traveller let in.  Neither the  *)
(* gate nor, at two stops, the answer is looked at again; a ticket that is *)
(* gone throws before the warp.                                            *)
Board(p, s) ==
    /\ s.reader
    /\ talk[p] = "board" /\ where[p] = s.dock
    /\ talk' = [talk EXCEPT ![p] = Null]
    /\ IF s.takes = "none" \/ s.takes \in bag[p]
         THEN bag' = [bag EXCEPT ![p] = @ \ {s.takes}] /\ GetIn(p, s.room)
         ELSE UNCHANGED <<bag, iter, people>>
    /\ UNCHANGED <<line, props, due, job, pc, hand, broken>>

SayNo(p) ==
    /\ talk[p] # Null
    /\ talk[p] = "board" => \E s \in line.stops : s.dock = where[p] /\ ~s.noIsYes
    /\ talk' = [talk EXCEPT ![p] = Null]
    /\ UNCHANGED <<line, timer, people, bag>>

(* A stop without a reader: in through a portal of the map, at any time. *)
WalkIn(p, s) ==
    /\ ~s.reader
    /\ talk[p] = Null /\ where[p] = s.dock
    /\ GetIn(p, s.room)
    /\ UNCHANGED <<line, props, due, job, pc, hand, broken, talk, bag>>

AskToBuy(p, s) ==
    /\ s.sells # "none"
    /\ talk[p] = Null /\ where[p] = s.dock
    /\ talk' = [talk EXCEPT ![p] = "buy"]
    /\ UNCHANGED <<line, timer, people, bag>>

(* Without 5000 mesos or room for the ticket there is none. *)
Buy(p, s) ==
    /\ s.sells # "none"
    /\ talk[p] \in {"buy", "leave"} /\ where[p] = s.dock
    /\ \/ bag' = [bag EXCEPT ![p] = @ \cup {s.sells}]
       \/ UNCHANGED bag
    /\ talk' = [talk EXCEPT ![p] = Null]
    /\ UNCHANGED <<line, timer, people>>

AskToLeave(p) ==
    /\ talk[p] = Null
    /\ where[p] \in Waiting /\ where[p] \in DOMAIN line.exits
    /\ talk' = [talk EXCEPT ![p] = "leave"]
    /\ UNCHANGED <<line, timer, people, bag>>

(* Bell looks at where the traveller is now, not at where she asked: one   *)
(* who sits in the train by now gets out of it under way.                  *)
LeaveRoom(p) ==
    /\ talk[p] = "leave"
    /\ where[p] \in DOMAIN line.exits
    /\ ChangeMap(p, line.exits[where[p]])
    /\ late' = late \ {p}
    /\ talk' = [talk EXCEPT ![p] = Null]
    /\ UNCHANGED <<line, props, due, job, pc, hand, broken, bag, slipped>>

Hop(p, door) ==
    /\ talk[p] = Null
    /\ where[p] = door[1]
    /\ ChangeMap(p, door[2])
    /\ slipped' = IF job = "arrived" THEN slipped \cup {p} ELSE slipped
    /\ UNCHANGED <<line, props, due, job, pc, hand, broken, late, talk, bag>>

(* A ticket can be dropped or traded away at any time; the bound: only the *)
(* time matters at which the reader waits for an answer.                   *)
DropTicket(p) ==
    /\ talk[p] = "board"
    /\ \E t \in bag[p] : bag' = [bag EXCEPT ![p] = @ \ {t}]
    /\ UNCHANGED <<line, timer, people, talk>>

Disconnect(p) ==
    /\ where[p] # Null
    /\ ChangeMap(p, Null)
    /\ talk' = [talk EXCEPT ![p] = Null]
    /\ late' = late \ {p} /\ slipped' = slipped \ {p}
    /\ UNCHANGED <<line, props, due, job, pc, hand, broken, bag>>

(* The map a character returns to is the map data's: one of the docks. *)
Reconnect(p) ==
    /\ where[p] = Null
    /\ \E m \in Docks : ChangeMap(p, m)
    /\ UNCHANGED <<line, props, due, job, pc, hand, broken, late, slipped, talk, bag>>
-----------------------------------------------------------------------------
TimerThread ==
    \/ \E j \in Jobs : Fire(j)
    \/ DoPut \/ DoPerhaps \/ DoArm
    \/ Iterator \/ NextCharacter \/ CarryHand \/ LoopEnds \/ LoopThrows
    \/ FunctionReturns

Session(p) ==
    \/ \E s \in line.stops :
          AskToBoard(p, s) \/ Board(p, s) \/ WalkIn(p, s) \/ AskToBuy(p, s) \/ Buy(p, s)
    \/ SayNo(p) \/ AskToLeave(p) \/ LeaveRoom(p)
    \/ \E door \in line.doors : Hop(p, door)
    \/ DropTicket(p) \/ Disconnect(p) \/ Reconnect(p)

Next == TimerThread \/ \E p \in Travellers : Session(p)

Spec == Init /\ [][Next]_vars

(* The timer thread runs what is due and finishes what it runs; nobody     *)
(* has to travel, answer or come back.                                     *)
FairSpec == Spec /\ WF_vars(TimerThread)
-----------------------------------------------------------------------------
Rests == job = Null /\ ~broken
WillCarry(m) == \E j \in DOMAIN line.code : due[j] # Null /\ m \in Emptied(line, j)

TypeOK ==
    /\ line \in Lines
    /\ props \in [Keys -> Values \cup {Null}]
    /\ due \in [Jobs -> Nat \cup {Null}]
    /\ \A j \in Jobs \ DOMAIN line.code : due[j] = Null
    /\ job \in DOMAIN line.code \cup {Null}
    /\ pc \in Nat \ {0}
    /\ iter \in Iterators \cup {Null}
    /\ hand \in Travellers \cup {Null}
    /\ where \in [Travellers -> Rooms \cup {Null}]
    /\ order \in [Travellers -> Nat]
    /\ talk \in [Travellers -> Conversations \cup {Null}]
    /\ bag \in [Travellers -> SUBSET Tickets]
    /\ broken \in BOOLEAN
    /\ late \subseteq Travellers /\ slipped \subseteq Travellers

(* Between two functions of the script, whoever is aboard will be taken    *)
(* off by a function that is already scheduled, unless he went from one    *)
(* deck to another in the middle of an arrival (Boats.js carries deck      *)
(* before cabin), or a function has thrown.                                *)
NobodyLeftAboard ==
    Rests => \A p \in Travellers : Aboard(where[p]) =>
                WillCarry(where[p]) \/ p \in slipped

(* A loop over the characters of a map that ends without throwing has      *)
(* carried everyone who was there when it began and has not left himself.  *)
LoopEmpties ==
    iter # Null => (iter.next = Null => On(iter.room) \subseteq iter.came \cup {hand})

(* Whoever sits in a waiting room while no departure from it is scheduled  *)
(* got in after the gate had closed: the ticket readers look at the gate   *)
(* when they ask and not when they are answered.                           *)
NobodyLeftWaiting ==
    Rests => \A p \in Travellers : where[p] \in Waiting =>
                WillCarry(where[p]) \/ p \in late

(* A service that has not thrown never forgets itself: a function of the   *)
(* script is running or scheduled.                                         *)
NeverForgotten == broken \/ job # Null \/ \E j \in Jobs : due[j] # Null

(* Whoever waits is taken aboard in the end, unless a function has thrown. *)
Departs ==
    \A p \in Travellers :
        (where[p] \in Waiting) ~> (where[p] \notin Waiting \/ broken)

(* Whoever is aboard gets off in the end, unless he slipped past the       *)
(* arrival or a function has thrown.                                       *)
Lands ==
    \A p \in Travellers :
        Aboard(where[p]) ~> (~Aboard(where[p]) \/ p \in slipped \/ broken)

(* The sellers tell their customers that the service takes off every so    *)
(* many minutes (npc/world0/9201057.js, 1032007.js).                       *)
TakesOffAgain == []<>(job = "takeoff")
=============================================================================
