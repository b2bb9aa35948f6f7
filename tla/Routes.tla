------------------------------- MODULE Routes -------------------------------
(***************************************************************************)
(* The scheduled services: what the functions of the transport scripts     *)
(* (src/scripts/event) do to the shared state of their event manager, as   *)
(* programs of four kinds of steps, and the stops where people get on.     *)
(*                                                                         *)
(*   Put      em.setProperty(key, value)                                   *)
(*   Perhaps  a setProperty behind a throw of the dice                     *)
(*   Carry    iterate over map.getCharacters() and changeMap each          *)
(*   Arm      em.schedule(function, delay), the delay in tens of seconds   *)
(*                                                                         *)
(* Broadcasts, clocks and the docked flag of a map, which nothing reads,   *)
(* are left out.  A map is known by the name of the variable that holds it.*)
(***************************************************************************)
EXTENDS Sequences

Put(key, val) == [do |-> "put", key |-> key, val |-> val]
Perhaps(key, val) == [do |-> "perhaps", key |-> key, val |-> val]
Carry(from, to) == [do |-> "carry", from |-> from, to |-> to]
Arm(job, delay) == [do |-> "arm", job |-> job, in |-> delay]

JobNames ==
    {"init", "stopentry", "stopEntry", "takeoff", "invasion", "arrived",
     "onDown", "goingUp", "onUp", "goingDown"}
-----------------------------------------------------------------------------
(* Boats: Ellinia - Orbis, with a cabin on each boat and now and then an   *)
(* attack of two Crimson Balrogs.                                          *)
Boats_scheduleNew ==
    << Put("docked", "true"), Put("entry", "true"), Put("haveBalrog", "false"),
       Arm("stopentry", 24), Arm("takeoff", 30) >>

Boats_stopentry == << Put("entry", "false") >>

Boats_takeoff ==
    << Put("docked", "false"),
       Carry("Orbis_btf", "Boat_to_Ellinia"),
       Carry("Ellinia_btf", "Boat_to_Orbis"),
       Arm("invasion", 6), Arm("arrived", 60) >>

Boats_invasion == << Perhaps("haveBalrog", "true") >>

Boats_arrived ==
    << Carry("Boat_to_Orbis", "Orbis_docked"),
       Carry("Orbis_Boat_Cabin", "Orbis_docked"),
       Carry("Boat_to_Ellinia", "Ellinia_docked"),
       Carry("Ellinia_Boat_Cabin", "Ellinia_docked") >> \o Boats_scheduleNew

Boats ==
    [init |-> Boats_scheduleNew, stopentry |-> Boats_stopentry,
     takeoff |-> Boats_takeoff, invasion |-> Boats_invasion,
     arrived |-> Boats_arrived]
-----------------------------------------------------------------------------
(* Trains: Orbis - Ludibrium. *)
Trains_scheduleNew ==
    << Put("docked", "true"), Put("entry", "true"),
       Arm("stopEntry", 24), Arm("takeoff", 30) >>

Trains_takeoff ==
    << Put("docked", "false"),
       Carry("Orbis_btf", "Train_to_Ludibrium"),
       Carry("Ludibrium_btf", "Train_to_Orbis"),
       Arm("arrived", 60) >>

Trains_arrived ==
    << Carry("Train_to_Orbis", "Orbis_docked"),
       Carry("Train_to_Ludibrium", "Ludibrium_docked") >> \o Trains_scheduleNew

Trains ==
    [init |-> Trains_scheduleNew, stopEntry |-> << Put("entry", "false") >>,
     takeoff |-> Trains_takeoff, arrived |-> Trains_arrived]
-----------------------------------------------------------------------------
(* Cabin: Orbis - Leafre. *)
Cabin_scheduleNew ==
    << Put("docked", "true"), Put("entry", "true"),
       Arm("stopEntry", 24), Arm("takeoff", 30) >>

Cabin_takeoff ==
    << Put("docked", "false"),
       Carry("Orbis_btf", "Cabin_to_Leafre"),
       Carry("Leafre_btf", "Cabin_to_Orbis"),
       Arm("arrived", 60) >>

Cabin_arrived ==
    << Carry("Cabin_to_Orbis", "Orbis_docked"),
       Carry("Cabin_to_Leafre", "Leafre_docked") >> \o Cabin_scheduleNew

Cabin ==
    [init |-> Cabin_scheduleNew, stopEntry |-> << Put("entry", "false") >>,
     takeoff |-> Cabin_takeoff, arrived |-> Cabin_arrived]
-----------------------------------------------------------------------------
(* Subway: Kerning City - New Leaf City, a ride of one minute. *)
Subway_scheduleNew ==
    << Put("docked", "true"), Put("entry", "true"),
       Arm("stopEntry", 24), Arm("takeoff", 30) >>

Subway_takeoff ==
    << Put("docked", "false"),
       Carry("KC_Waiting", "Subway_to_NLC"),
       Carry("NLC_Waiting", "Subway_to_KC"),
       Arm("arrived", 6) >>

Subway_arrived ==
    << Carry("Subway_to_KC", "KC_docked"),
       Carry("Subway_to_NLC", "NLC_docked") >> \o Subway_scheduleNew

Subway ==
    [init |-> Subway_scheduleNew, stopEntry |-> << Put("entry", "false") >>,
     takeoff |-> Subway_takeoff, arrived |-> Subway_arrived]
-----------------------------------------------------------------------------
(* AirPlane: Kerning City - Singapore.  The next flight is scheduled while *)
(* the present one is in the air, and nothing opens the first gate.        *)
AirPlane_scheduleNew == << Arm("stopEntry", 24), Arm("takeoff", 30) >>

AirPlane_takeoff ==
    << Put("entry", "true"),
       Carry("KC_bfd", "Plane_to_KC"),
       Carry("CBD_bfd", "Plane_to_CBD"),
       Arm("arrived", 6) >> \o AirPlane_scheduleNew

AirPlane_arrived ==
    << Carry("Plane_to_CBD", "CBD_docked"), Carry("Plane_to_KC", "KC_docked") >>

AirPlane ==
    [init |-> AirPlane_scheduleNew, stopEntry |-> << Put("entry", "false") >>,
     takeoff |-> AirPlane_takeoff, arrived |-> AirPlane_arrived]
-----------------------------------------------------------------------------
(* elevator: Eos Tower.  elevator_s and elevator_m, which the functions    *)
(* reassign, are named by their maps: the cage at a floor and the shaft.   *)
elevator_onDown ==
    << Carry("shaft_down", "floor_1"), Put("isDown", "true"), Arm("goingUp", 6) >>

elevator_goingUp ==
    << Carry("cage_1", "shaft_up"), Put("isDown", "false"), Arm("onUp", 5) >>

elevator_onUp ==
    << Carry("shaft_up", "floor_99"), Put("isUp", "true"), Arm("goingDown", 6) >>

elevator_goingDown ==
    << Carry("cage_99", "shaft_down"), Put("isUp", "false"), Arm("onDown", 5) >>

elevator ==
    [init |-> << Put("isUp", "false"), Put("isDown", "false") >> \o elevator_onDown,
     onDown |-> elevator_onDown, goingUp |-> elevator_goingUp,
     onUp |-> elevator_onUp, goingDown |-> elevator_goingDown]
-----------------------------------------------------------------------------
(* The stops: where the ticket reader stands, the room it sends people to, *)
(* the ticket it takes, the ticket the seller there sells, and whether     *)
(* "No" for an answer is taken for "Yes".  A stop that has no reader in    *)
(* the scripts is entered through a portal of the map's data.              *)
Stop(dock, room, takes, sells, noIsYes, reader) ==
    [dock |-> dock, room |-> room, takes |-> takes, sells |-> sells,
     noIsYes |-> noIsYes, reader |-> reader]

Gate(dock, room) == Stop(dock, room, "none", "none", FALSE, FALSE)

(* Cherry takes the ticket that Joel sells; Rini asks for a ticket but     *)
(* takes none, and Agatha's script throws before she sells one.            *)
Cherry == Stop("Ellinia_docked", "Ellinia_btf", "4031045", "4031045", TRUE, TRUE)
Rini == Stop("Orbis_docked", "Orbis_btf", "none", "none", TRUE, TRUE)

(* Bell sells 4031711 + mapid / 300000000 at both ends of the subway.      *)
SubwayKC == Stop("KC_docked", "KC_Waiting", "4031713", "4031711", FALSE, TRUE)
SubwayNLC == Stop("NLC_docked", "NLC_Waiting", "4031711", "4031713", FALSE, TRUE)

(* The scripted ways between cabin and deck (portals OBoat1, OBoat2,       *)
(* EBoat1, EBoat2) and, of the map's data, from deck to cabin.             *)
BoatDoors ==
    {<<"Orbis_Boat_Cabin", "Boat_to_Orbis">>, <<"Boat_to_Orbis", "Orbis_Boat_Cabin">>,
     <<"Ellinia_Boat_Cabin", "Boat_to_Ellinia">>, <<"Boat_to_Ellinia", "Ellinia_Boat_Cabin">>}

(* Bell lets people out of the waiting rooms of the subway.  Her script    *)
(* works out where to from the map they are on when they answer.           *)
BellExits ==
    [m \in {"NLC_Waiting", "KC_Waiting", "Subway_to_KC", "Subway_to_NLC"} |->
        IF m = "NLC_Waiting" THEN "NLC_docked" ELSE "KC_docked"]

(* The services that ServerConstants.EVENTS loads, then the two it does not. *)
Line(code, stops, doors, exits) ==
    [code |-> code, stops |-> stops, doors |-> doors, exits |-> exits]

BoatsLine == Line(Boats, {Cherry, Rini}, BoatDoors, <<>>)
SubwayLine == Line(Subway, {SubwayKC, SubwayNLC}, {}, BellExits)
AirPlaneLine ==
    Line(AirPlane, {Gate("CBD_docked", "KC_bfd"), Gate("KC_docked", "CBD_bfd")}, {}, <<>>)
elevatorLine ==
    Line(elevator, {Gate("floor_1", "cage_1"), Gate("floor_99", "cage_99")}, {}, <<>>)
TrainsLine ==
    Line(Trains, {Gate("Orbis_docked", "Orbis_btf"),
                  Gate("Ludibrium_docked", "Ludibrium_btf")}, {}, <<>>)
CabinLine ==
    Line(Cabin, {Gate("Orbis_docked", "Orbis_btf"),
                 Gate("Leafre_docked", "Leafre_btf")}, {}, <<>>)

RouteLines ==
    {BoatsLine, SubwayLine, AirPlaneLine, elevatorLine, TrainsLine, CabinLine}
SoldLines == {BoatsLine, SubwayLine}

RouteRooms ==
    {"Orbis_btf", "Boat_to_Orbis", "Orbis_Boat_Cabin", "Orbis_docked",
     "Ellinia_btf", "Boat_to_Ellinia", "Ellinia_Boat_Cabin", "Ellinia_docked",
     "Ludibrium_btf", "Train_to_Orbis", "Train_to_Ludibrium", "Ludibrium_docked",
     "Leafre_btf", "Cabin_to_Orbis", "Cabin_to_Leafre", "Leafre_docked",
     "KC_Waiting", "Subway_to_KC", "KC_docked",
     "NLC_Waiting", "Subway_to_NLC", "NLC_docked",
     "KC_bfd", "Plane_to_KC", "CBD_bfd", "Plane_to_CBD", "CBD_docked",
     "floor_1", "cage_1", "shaft_up", "floor_99", "cage_99", "shaft_down"}

RouteTickets == {"4031045", "4031711", "4031713"}
=============================================================================
