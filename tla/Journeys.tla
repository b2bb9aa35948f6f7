------------------------------ MODULE Journeys ------------------------------
(***************************************************************************)
(* The drivers, guides and gatekeepers: scripts that take the player       *)
(* somewhere, for a fare, for a ticket or for nothing.  Each is one        *)
(* definition, start included.  Two towns stand for the list of them; a    *)
(* price that depends on the player's job is one price.                    *)
(***************************************************************************)
EXTENDS Conversation

-----------------------------------------------------------------------------
(***************************************************************************)
(* Fares.                                                                  *)
(***************************************************************************)
(* The taxis: a greeting, the list, a question, the ride.                  *)
Taxi(t, mode, ride) ==
  CASE mode = Opening -> <<Say(More)>>
    [] mode = -1 \/ (mode = 0 /\ t.g.status <= 1) -> <<Dispose>>
    [] mode = 0 /\ t.g.status > 1 -> <<Say(More), Dispose>>
    [] OTHER -> Page(<<<<>>, <<Say(Menu({0, 1}))>>, <<Say(YesNo)>>, ride>>, t.g.status + 1)

\* Asks whether the player can pay cost[selection], and takes nothing.
N1012000(t, mode, sel) == Taxi(t, mode, <<Go("town", {"meso"}), Dispose>>)
N1022001(t, mode, sel) == Taxi(t, mode, <<Go("town", {"meso"}), Dispose>>)
\* cost[selection] is undefined by the time of the ride: nobody has too little.
N1032000(t, mode, sel) == Taxi(t, mode, <<Pay(1), Go("town", {"meso"}), Dispose>>)
N1052016(t, mode, sel) == Taxi(t, mode, <<Pay(1), Go("town", {"meso"}), Dispose>>)
N1092014(t, mode, sel) == Taxi(t, mode, <<Pay(1), Go("town", {"meso"}), Dispose>>)

(* Tells about the towns (pick 1) or drives to one; item is selectedMap    *)
(* plus one.  The talk about the towns also gets the answers meant for the *)
(* ride.                                                                   *)
TownTalk(t, status, sel) ==
  LET town == IF t.g.item = 0 THEN sel + 1 ELSE t.g.item IN
  CASE town = 0 -> <<Fail>>
    [] town # 0 /\ status = 3 -> <<Note("item", town), Say(More)>>
    [] town # 0 /\ status \in {4, 5} -> <<Note("item", town), Say(NextPrev)>>
    [] OTHER -> <<Dispose>>
N1002000(t, mode, sel) ==
  LET status == IF mode = 1 THEN t.g.status + 1 ELSE t.g.status - 1 IN
  CASE mode = Opening -> <<Say(More)>>
    [] mode = -1 \/ (mode = 0 /\ t.g.pick = 0) -> <<Dispose>>
    [] OTHER -> Turn(status,
         CASE status = 1 -> <<Say(Menu({0, 1}))>>
           [] status = 2 -> (IF sel = 0 THEN <<Note("pick", 1)>> ELSE <<>>) \o <<Say(Menu({0, 1}))>>
           [] status \notin {1, 2} /\ t.g.pick = 1 -> TownTalk(t, status, sel)
           [] status = 3 /\ t.g.pick = 0 -> <<Note("item", sel + 1), Say(YesNo)>>
           [] status = 4 /\ t.g.pick = 0 ->
                (IF Owns(t, "meso", 1) THEN <<Pay(1), Go("town", {"meso"})>> ELSE <<Say(More)>>)
                \o <<Dispose>>
           [] OTHER -> <<>>)

\* Every answer but the end of the chat is a yes.
N1002004(t, mode, sel) ==
  CASE mode = Opening -> <<Say(More)>>
    [] mode = -1 -> <<Dispose>>
    [] OTHER -> Page(<<<<>>, <<Say(YesNo)>>,
         (IF Owns(t, "meso", 1) THEN <<Pay(1), Go("tunnel", {"meso"})>> ELSE <<Say(More)>>)
         \o <<Dispose>>>>, t.g.status + 1)

\* Builds the question and does not send it.
N1032005(t, mode, sel) == Forward(t, mode, <<<<Say(More)>>, <<>>>>)

(* To Florina for a fare or on a ticket.  status is not declared anywhere: *)
(* every answer to the menu ends in an error.                              *)
Florina(mode) ==
  CASE mode = Opening -> <<Say(Menu({0, 1, 2}))>>
    [] mode = -1 -> <<Dispose>>
    [] OTHER -> <<Fail>>
N2010005(t, mode, sel) == Florina(mode)
N2040048(t, mode, sel) == Florina(mode)

\* Entry 0 comes to the ride at once; with the ticket entry 1 is turned away,
\* without it it rides.
N1002002(t, mode, sel) ==
  CASE mode = Opening -> <<Say(Menu({0, 1, 2}))>>
    [] mode = -1 \/ (mode = 0 /\ t.g.status = 0) \/ (mode = 0 /\ t.g.pick = 1) -> <<Dispose>>
    [] mode = 0 /\ t.g.status > 0 /\ t.g.pick # 1 -> Turn(t.g.status - 1, <<>>)
    [] mode = 1 /\ t.g.status = 0 /\ sel = 0 ->
         (IF Owns(t, "meso", 1) THEN <<Pay(1), Go("florina", {"meso"})>> ELSE <<Say(More)>>)
         \o <<Dispose>>
    [] mode = 1 /\ t.g.status = 0 /\ sel # 0 ->
         Turn(1, <<Note("pick", sel), Say(IF sel = 1 THEN YesNo ELSE More)>>)
    [] mode = 1 /\ t.g.status = 1 /\ t.g.pick = 1 ->
         (IF Owns(t, "ticket", 1) THEN <<Say(More)>> ELSE <<Go("florina", {"ticket"})>>)
         \o <<Dispose>>
    [] mode = 1 /\ t.g.status = 1 /\ t.g.pick = 2 -> Turn(2, <<Say(NextPrev)>>)
    [] OTHER -> Turn(t.g.status + 1, <<>>)

N1032003(t, mode, sel) ==
  CASE mode = Opening /\ t.level = 0 -> <<Say(Ok), Dispose>>
    [] mode = Opening /\ t.level > 0 -> <<Say(YesNo)>>
    [] mode < 1 \/ ~Owns(t, "meso", 1) -> <<Say(Ok), Dispose>>
    [] OTHER -> <<Go("forest", {"meso"}), Pay(1), Dispose>>

\* iwantreg is set before anybody chose: the better sauna is never entered.
N1061100(t, mode, sel) ==
  CASE mode = Opening -> <<Say(More)>>
    [] mode < 1 -> <<Dispose>>
    [] OTHER -> Page(<<<<>>, <<Say(Menu({0, 1}))>>, <<Note("pick", sel), Say(YesNo)>>,
         (IF Owns(t, "meso", 1)
            THEN <<Go(IF t.g.pick = 1 THEN "wrong" ELSE "sauna", {"meso"}), Pay(1)>>
            ELSE <<Say(More)>>) \o <<Dispose>>>>, t.g.status + 1)

\* Pays on an answer it never gets: the window before it is not a question.
N1100003(t, mode, sel) ==
  Forward(t, mode, <<<<Say(More)>>, <<Say(YesNo)>>,
    IF Owns(t, "meso", 1) THEN <<Say(More)>> ELSE <<Say(More), Dispose>>>>)

\* A refusal is answered and asked again; getMeso() < cost compares with a list.
N2023000(t, mode, sel) ==
  CASE mode = Opening -> <<Say(More)>>
    [] mode = -1 -> <<Dispose>>
    [] mode = 0 -> <<Say(More)>> \o (IF t.g.status = 1 THEN <<Say(YesNo)>> ELSE <<>>)
    [] OTHER -> Page(<<<<>>, <<Say(YesNo)>>, <<Go("town", {"meso"}), Pay(1), Dispose>>>>,
                     t.g.status + 1)

\* Says that the fare is missing and rides.
N2060009(t, mode, sel) ==
  CASE mode = Opening ->
         <<Note("pick", IF Owns(t, "ticket", 1) THEN 0 ELSE 1), Say(Menu({0, 1}))>>
    [] mode < 1 -> <<Dispose>>
    [] mode = 1 /\ sel = 0 /\ t.g.pick = 1 ->
         <<Pay(1), Go("sea", {"meso"}), Dispose>>
    [] mode = 1 /\ sel = 0 /\ t.g.pick = 0 ->
         <<Take("ticket", 1), Go("sea", {"ticket"}), Dispose>>
    [] mode = 1 /\ sel # 0 /\ Owns(t, "meso", 1) -> <<Pay(1), Go("sea", {"meso"}), Dispose>>
    [] OTHER -> <<Say(Ok), Dispose>>

N2081005(t, mode, sel) ==
  CASE mode = Opening -> <<Say(Menu({1, 2}))>>
    [] mode < 1 -> <<Dispose>>
    [] mode = 1 /\ sel = 1 ->
         (IF Owns(t, "meso", 1) /\ t.room THEN <<Pay(1), Give("goods", 1, {"meso"})>> ELSE <<>>)
         \o <<Say(Ok), Dispose>>
    [] OTHER -> (IF t.level > 0 THEN <<Go("cave", {})>> ELSE <<Say(Ok)>>) \o <<Dispose>>

N2093004(t, mode, sel) ==
  CASE mode = Opening -> <<Say(YesNo)>>
    [] mode = 1 /\ Owns(t, "meso", 1) -> <<Pay(1), Go("sea", {"meso"}), Dispose>>
    [] mode = -1 -> <<Dispose>>
    [] OTHER -> <<Say(Ok), Dispose>>

\* Asks for the fare and does not take it.
N2110005(t, mode, sel) ==
  CASE mode = Opening -> <<Say(YesNo)>>
    [] mode = 1 /\ Owns(t, "meso", 1) -> <<Go("desert", {"meso"}), Dispose>>
    [] OTHER -> <<Say(More), Dispose>>

\* The letter of recommendation is taken, the fare only asked for.
N22000(t, mode, sel) ==
  CASE mode = Opening -> <<Say(YesNo)>>
    [] mode = -1 \/ (mode = 0 /\ t.g.status = 0) -> <<Dispose>>
    [] mode = 0 /\ t.g.status > 0 -> Page(<<<<>>, <<Say(More)>>>>, t.g.status - 1)
    [] OTHER -> Page(<<<<>>, <<Say(More)>>,
         CASE Owns(t, "ticket", 1) -> <<Say(NextPrev)>>
           [] ~Owns(t, "ticket", 1) /\ t.level > 0 /\ Owns(t, "meso", 1) -> <<Say(More)>>
           [] OTHER -> <<Say(Ok), Dispose>>,
         (IF Owns(t, "ticket", 1) THEN <<Take("ticket", 1), Go("victoria", {"ticket"})>>
                                  ELSE <<Go("victoria", {"meso"})>>) \o <<Dispose>>>>,
         t.g.status + 1)

\* The fare is asked for on one page and taken on the next.
N9000020(t, mode, sel) ==
  LET home == <<<<Say(Menu({0, 1}))>>,
                IF sel = 0 THEN <<Say(More)>> ELSE <<Say(Ok), Dispose>>,
                <<Go("home", {}), Dispose>>>>
      tour == <<<<Say(More)>>, <<Say(Menu({0}))>>, <<Say(More)>>,
                IF Owns(t, "meso", 1) THEN <<Say(NextPrev)>> ELSE <<Say(More), Dispose>>,
                <<Pay(1), Go("shrine", {"meso"}), Dispose>>>>
  IN IF mode = 0 /\ t.g.status = 3 THEN Page(tour, 2)
     ELSE Forward(t, mode, IF t.place = 1 THEN home ELSE tour)

\* getMeso is not called: nobody has too little.
N9120003(t, mode, sel) ==
  CASE mode = Opening -> <<Say(YesNo)>>
    [] mode < 1 -> <<Dispose>>
    [] OTHER -> <<Pay(1), Go("sauna", {"meso"}), Dispose>>

\* getMesos does not exist: nobody has too little, or no room.
N9000012(t, mode, sel) ==
  Forward(t, mode, <<<<Say(Menu({0, 1}))>>,
    IF sel = 0 THEN <<Say(YesNo)>> ELSE <<Give("goods", 1, {"meso"}), Pay(1), Dispose>>,
    <<Go("event", {}), Dispose>>>>)
-----------------------------------------------------------------------------
(* The script by its name, as NPCScriptManager finds the file by the id.   *)
JourneyScripts ==
  {"N1012000", "N1022001", "N1032000", "N1052016", "N1092014",
   "N1002000", "N1002004", "N1032005", "N2010005", "N2040048",
   "N1002002", "N1032003", "N1061100", "N1100003", "N2023000",
   "N2060009", "N2081005", "N2093004", "N2110005", "N22000", "N9000020",
   "N9120003", "N9000012"}
JourneyOps(n, t, mode, sel) ==
  CASE n = "N1012000" -> N1012000(t, mode, sel)
    [] n = "N1022001" -> N1022001(t, mode, sel)
    [] n = "N1032000" -> N1032000(t, mode, sel)
    [] n = "N1052016" -> N1052016(t, mode, sel)
    [] n = "N1092014" -> N1092014(t, mode, sel)
    [] n = "N1002000" -> N1002000(t, mode, sel)
    [] n = "N1002004" -> N1002004(t, mode, sel)
    [] n = "N1032005" -> N1032005(t, mode, sel)
    [] n = "N2010005" -> N2010005(t, mode, sel)
    [] n = "N2040048" -> N2040048(t, mode, sel)
    [] n = "N1002002" -> N1002002(t, mode, sel)
    [] n = "N1032003" -> N1032003(t, mode, sel)
    [] n = "N1061100" -> N1061100(t, mode, sel)
    [] n = "N1100003" -> N1100003(t, mode, sel)
    [] n = "N2023000" -> N2023000(t, mode, sel)
    [] n = "N2060009" -> N2060009(t, mode, sel)
    [] n = "N2081005" -> N2081005(t, mode, sel)
    [] n = "N2093004" -> N2093004(t, mode, sel)
    [] n = "N2110005" -> N2110005(t, mode, sel)
    [] n = "N22000" -> N22000(t, mode, sel)
    [] n = "N9000020" -> N9000020(t, mode, sel)
    [] n = "N9120003" -> N9120003(t, mode, sel)
    [] n = "N9000012" -> N9000012(t, mode, sel)
=============================================================================
