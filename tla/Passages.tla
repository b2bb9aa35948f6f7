------------------------------ MODULE Passages ------------------------------
(***************************************************************************)
(* Gates, exits and tunnels: scripts that move the player for a token, a   *)
(* quest or on demand, some with a prize on the way out.  Each is one      *)
(* definition, start included.                                             *)
(***************************************************************************)
EXTENDS Conversation

(* Mutant: does not look at the answer. *)
OnDemandOrNot(mode, m) == IF mode = Opening THEN <<Say(YesNo)>> ELSE <<Go(m, {}), Dispose>>

(* A question, and off: any other answer just ends it.                     *)
OnDemand(mode, m) ==
  CASE mode = Opening -> <<Say(YesNo)>>
    [] mode = 1 -> <<Go(m, {}), Dispose>>
    [] OTHER -> <<Dispose>>

N1032004(t, mode, sel) == OnDemand(mode, "ellinia")
N1061007(t, mode, sel) == OnDemand(mode, "sleepywood")
N2001001(t, mode, sel) == OnDemand(mode, "hill")
\* Any answer will do.
Asked(mode, m) == IF mode = Opening THEN <<Say(YesNo)>> ELSE <<Go(m, {}), Dispose>>
N2001002(t, mode, sel) == Asked(mode, "hill")
N2001003(t, mode, sel) == Asked(mode, "hill")
N2002000(t, mode, sel) == OnDemand(mode, "happyville")
N2007(t, mode, sel)    == OnDemand(mode, "lith")
N2083002(t, mode, sel) == OnDemand(mode, "cave")
N2030010(t, mode, sel) == OnDemand(mode, "door")
N9120200(t, mode, sel) == OnDemand(mode, "shrine")
N9220005(t, mode, sel) == OnDemand(mode, "extra hill")
N9270038(t, mode, sel) == OnDemand(mode, "kerning")
N9270041(t, mode, sel) == OnDemand(mode, "airport")
\* A refusal leads to the map the player came from, or to Henesys.
N1103005(t, mode, sel) ==
  IF mode = Opening THEN <<Say(YesNo)>>
  ELSE <<Go(IF mode = 1 THEN "erev" ELSE "saved", {}), Dispose>>

(* Off without a question.                                                 *)
N9103002(t, mode, sel) == <<Go("ludibrium", {}), Dispose>>
N9120201(t, mode, sel) == <<Go("hideout", {}), Dispose>>
N9120202(t, mode, sel) == <<Go("hideout", {}), Dispose>>
N9270033(t, mode, sel) == <<Go("ship", {}), Dispose>>
N2030011(t, mode, sel) ==
  <<Go("door", {}), TakeAll("token"), TakeAll("extra"), Say(Menu({})), Dispose>>
\* The end of the chat is followed by the ride too.
N9000010(t, mode, sel) ==
  IF mode = Opening THEN <<Say(More)>> ELSE <<Go("saved", {}), Dispose>>

(* A greeting, and off at the next answer.                                 *)
Greeted(t, mode, m) == BackAndForth(t, mode, <<<<Say(More)>>, <<Go(m, {}), Dispose>>>>)
N9201123(t, mode, sel) == Greeted(t, mode, "perion")
N9201124(t, mode, sel) == Greeted(t, mode, "henesys")
N9201125(t, mode, sel) == Greeted(t, mode, "ellinia")
N9201126(t, mode, sel) == Greeted(t, mode, "kerning")
N2102001(t, mode, sel) == Greeted(t, mode, "amoria")

(* A try at being somebody: a greeting, a question, a locked screen.       *)
Glimpse(t, mode) ==
  CASE mode = 0 -> <<Say(More), Dispose>>
    [] OTHER -> Forward(t, mode, <<<<Say(More)>>, <<Say(YesNo)>>, <<Go("scene", {}), Dispose>>>>)
N10200(t, mode, sel) == Glimpse(t, mode)
N10201(t, mode, sel) == Glimpse(t, mode)
N10202(t, mode, sel) == Glimpse(t, mode)
N10203(t, mode, sel) == Glimpse(t, mode)
N10204(t, mode, sel) == Glimpse(t, mode)

-----------------------------------------------------------------------------
(***************************************************************************)
(* Longer talks.                                                           *)
(***************************************************************************)
N1012113(t, mode, sel) ==
  Forward(t, mode,
    CASE t.place = 1 -> <<<<Say(More)>>, <<Go("exit", {}), Dispose>>>>
      [] t.place = 2 -> <<<<Say(More)>>, <<Say(YesNo)>>,
           (IF t.party = "none" THEN <<Throw>> ELSE <<Go("bonus", {})>>) \o <<Dispose>>>>)

N1032009(t, mode, sel) ==
  Forward(t, mode, <<<<Say(YesNo)>>, <<Say(More)>>, <<Go("waiting", {}), Dispose>>>>)
N1052011(t, mode, sel) ==
  IF mode = 0 THEN <<Say(Ok), Dispose>>
  ELSE Forward(t, mode, <<<<Say(More)>>, <<Say(NextPrev)>>, <<Say(YesNo)>>,
                          <<Go("subway", {}), Dispose>>>>)
N1081001(t, mode, sel) ==
  IF mode = 0 THEN <<Say(More), Dispose>>
  ELSE Forward(t, mode, <<<<Say(More)>>, <<Say(YesNo)>>, <<Go("saved", {}), Dispose>>>>)
N2012006(t, mode, sel) ==
  Forward(t, mode, <<<<Say(More)>>, <<Say(Menu(0 .. 3))>>, <<Say(More)>>,
                     <<Go("platform", {}), Dispose>>>>)
N2101(t, mode, sel) ==
  Forward(t, mode, <<<<Say(YesNo)>>, <<Say(More)>>, <<Go("island", {}), Dispose>>>>)
N9101001(t, mode, sel) ==
  Forward(t, mode, <<<<Say(More)>>, <<Say(NextPrev)>>,
                     <<Go("island", {}), Reward({}), Dispose>>>>)
N2040002(t, mode, sel) ==
  Forward(t, mode, <<IF "a" \in t.begun THEN <<Say(More)>> ELSE <<Say(Ok), Dispose>>,
                     <<Say(YesNo)>>, <<Go("room", {}), Dispose>>>>)
N9201056(t, mode, sel) ==
  Forward(t, mode, IF t.place = 1
    THEN <<<<Say(Menu({0, 1}))>>, <<Say(YesNo)>>, <<Go("mansion", {}), Dispose>>>>
    ELSE <<<<Say(YesNo)>>, <<Go("mansion", {}), Dispose>>>>)
N9010022(t, mode, sel) ==
  Forward(t, mode, <<IF t.level = 0 THEN <<Say(Menu({})), Dispose>> ELSE <<Say(Menu({0, 1}))>>,
                     <<Go("mirror", {}), Dispose>>>>)
N9060000(t, mode, sel) ==
  Forward(t, mode, <<IF Owns(t, "token", 1) THEN <<Say(More)>> ELSE <<Say(YesNo)>>,
                     <<Go("aquarium", {}), Dispose>>>>)
N2030000(t, mode, sel) ==
  IF mode = 0 /\ t.g.status = 1 /\ t.level > 0 THEN <<Say(More), Dispose>>
  ELSE BackAndForth(t, mode, <<IF mode = Opening THEN <<Say(More)>> ELSE <<>>,
         IF t.level > 0 THEN <<Say(YesNo)>> ELSE <<Say(Prev)>>,
         (IF t.level > 0 THEN <<Go("cavern", {})>> ELSE <<>>) \o <<Dispose>>>>)
\* The menu of zones refused: a page before the first.
N1061006(t, mode, sel) ==
  BackAndForth(t, mode, <<IF mode = Opening THEN <<Say(More)>> ELSE <<>>,
    IF t.begun = {} THEN <<Dispose>> ELSE <<Say(Menu({0, 1}))>>,
    <<Go("temple", {}), Dispose>>>>)
\* The ride is tested before the refusal.
N2101018(t, mode, sel) ==
  CASE mode = Opening /\ t.level # 1 /\ ~t.gm -> <<Say(More), Dispose>>
    [] mode # Opening /\ t.g.status = 3 -> <<Go("arena", {}), Dispose>>
    [] mode = 0 /\ t.g.status = 1 -> Turn(0, <<Say(More)>>)
    [] OTHER -> Forward(t, mode, <<<<Say(More)>>, <<Say(NextPrev)>>, <<Say(Menu({0}))>>,
                                   <<Say(More)>>>>)
\* Statuses count from -2; entry 1 reads the notice first.
N2091006(t, mode, sel) ==
  LET status == IF mode = 0 /\ t.g.status = 2 /\ t.g.pick = 1 THEN 1 ELSE t.g.status + 1
      reads  == sel = 1 \/ t.g.pick = 1
  IN CASE mode = Opening -> <<Say(Menu({0, 1}))>>
       [] mode = -1 -> <<Dispose>>
       [] mode >= 0 /\ mode # Opening /\ reads /\ status = 1 -> Turn(1, <<Note("pick", 1), Say(More)>>)
       [] mode >= 0 /\ mode # Opening /\ reads /\ status = 2 -> Turn(2, <<Say(Prev)>>)
       [] mode >= 0 /\ mode # Opening /\ ~reads /\ status = 1 ->
            Turn(1, IF mode = 1 THEN <<Say(YesNo)>> ELSE <<>>)
       [] mode >= 0 /\ mode # Opening /\ ~reads /\ status = 2 ->
            (IF mode = 1 THEN <<Go("dojo", {})>> ELSE <<Say(More)>>) \o <<Dispose>>
       [] OTHER -> <<Dispose>>

-----------------------------------------------------------------------------
(***************************************************************************)
(* Talks that lose the player.                                             *)
(***************************************************************************)
\* chosen stays 0 for entry 2, and broadcastMessage is sent to geTMap.
N1012114(t, mode, sel) ==
  CASE mode = Opening /\ t.party = "none" -> <<Throw>>
    [] mode = Opening /\ t.party # "none" ->
         <<Say(Menu(IF t.party = "leader" THEN {0, 1, 2} ELSE {0, 2}))>>
    [] OTHER -> BackAndForth(t, mode, <<<<>>,
         CASE sel = 0 -> <<Say(More)>>
           [] sel = 1 /\ Owns(t, "token", 1) -> <<Note("pick", 1), Say(More)>>
           [] sel = 1 /\ ~Owns(t, "token", 1) -> <<Note("pick", 1), Say(Ok), Dispose>>
           [] sel = 2 -> <<Say(YesNo)>>
           [] OTHER -> <<>>,
         IF t.g.pick = 0 THEN <<Say(NextPrev)>>
         ELSE <<Say(NextPrev), Take("token", 1), Reward({"token"}), Fail>>,
         IF t.g.pick = 0 THEN <<Say(NextPrev)>> ELSE <<>>,
         IF t.g.pick = 0 THEN <<Say(NextPrev)>> ELSE <<>>>>)
\* status starts at -1 and the first page is 1.
N1092000(t, mode, sel) ==
  CASE mode = Opening -> <<Say(More)>>
    [] mode = -1 \/ (mode # Opening /\ t.begun = {}) -> <<Dispose>>
    [] OTHER -> Page(<<<<>>, <<>>, <<Say(NextPrev)>>,
         (IF t.room THEN <<Give("goods", 1, {}), Go("port", {})>> ELSE <<Say(NextPrev)>>)
         \o <<Dispose>>>>, t.g.status + 1)
\* dipose does not exist, and the first yes is the last.
N2012002(t, mode, sel) ==
  CASE mode = Opening -> <<Say(YesNo)>>
    [] mode = 1 -> <<Say(More), Dispose>>
    [] OTHER -> <<Fail>>
\* There is no event called Flights.
N2012021(t, mode, sel) ==
  CASE mode = Opening -> <<Say(YesNo)>>
    [] mode = 1 -> <<Fail>>
    [] OTHER -> <<Dispose>>
\* The first page counts twice.
N2012022(t, mode, sel) == Forward(t, mode, <<<<Say(YesNo)>>, <<Say(More)>>, <<>>>>)
\* status has no number to count from.
N2032003(t, mode, sel) == Forward(t, mode, <<<<Say(More)>>, <<>>>>)
\* status is not declared at all.
N9120015(t, mode, sel) ==
  Forward(t, mode, <<<<Say(Menu({0, 1, 2}))>>, <<Fail>>>>)
\* "mode > 1".
N9201010(t, mode, sel) ==
  Forward(t, mode, <<IF Owns(t, "token", 1) THEN <<Say(Ok), Dispose>> ELSE <<Say(More)>>,
                     <<Dispose>>>>)
N2082002(t, mode, sel) ==
  Forward(t, mode, <<<<Say(YesNo)>>, <<Say(More)>>, <<Go("cabin", {}), Dispose>>>>)
\* A menu refused is not a question refused: maps[-1] is map 0.
N2090005(t, mode, sel) ==
  CASE mode = Opening -> <<Say(Menu({0, 1}))>>
    [] mode = -1 -> <<Dispose>>
    [] OTHER -> Page(<<<<>>, <<Say(More), Note("pick", sel)>>,
         <<Go(IF t.g.pick = -1 THEN "wrong" ELSE "crane", {}), Dispose>>>>, t.g.status + 1)

-----------------------------------------------------------------------------
(***************************************************************************)
(* For a token, which is looked for when the talk begins and taken when it *)
(* ends.                                                                   *)
(***************************************************************************)
Token(t, asks) == IF Owns(t, "token", 1) THEN <<Say(asks)>> ELSE <<Say(Ok), Dispose>>
(* Mutants: the token is not taken; it is taken after the ride. *)
OffForNothing(m) == <<Go(m, {"token"}), Dispose>>
OffFirst(m) == <<Go(m, {"token"}), Take("token", 1), Dispose>>
Off(m) == <<Take("token", 1), Go(m, {"token"}), Dispose>>
N2012014(t, mode, sel) == Forward(t, mode, <<Token(t, YesNo), Off("tower")>>)
N2012015(t, mode, sel) == Forward(t, mode, <<Token(t, YesNo), Off("tower")>>)
N2040024(t, mode, sel) == Forward(t, mode, <<Token(t, YesNo), Off("eos")>>)
N2040025(t, mode, sel) == Forward(t, mode, <<Token(t, Menu({0, 1})), <<Say(YesNo)>>, Off("eos")>>)
N2040026(t, mode, sel) == Forward(t, mode, <<Token(t, Menu({0, 1})), <<Say(YesNo)>>, Off("eos")>>)
N2040027(t, mode, sel) == Forward(t, mode, <<Token(t, YesNo), Off("eos")>>)
N2102000(t, mode, sel) ==
  CASE mode = 0 -> <<Say(More), Dispose>>
    [] OTHER -> Forward(t, mode, <<<<Say(YesNo)>>,
         IF Owns(t, "token", 1) THEN Off("orbis") ELSE <<Say(More), Dispose>>>>)
\* The quest ends while the question is asked.
N2040028(t, mode, sel) ==
  CASE mode = Opening ->
         (IF "a" \in t.begun /\ Owns(t, "token", 1)
            THEN <<CompleteQuest("a", {"token"}), Take("token", 1)>> ELSE <<>>) \o <<Say(YesNo)>>
    [] mode = 1 -> <<Go("workshop", {}), Dispose>>
    [] OTHER -> <<Dispose>>
\* isMarried does not exist for scripts.
N9201043(t, mode, sel) ==
  CASE mode = 0 -> <<Say(Ok), Dispose>>
    [] OTHER -> Forward(t, mode, <<<<Say(Menu({0, 1}))>>,
         CASE sel = 0 /\ Owns(t, "token", 1) -> <<Fail>>
           [] sel = 1 /\ Owns(t, "extra", 1) -> <<Say(YesNo)>>
           [] OTHER -> <<Say(Ok), Dispose>>,
         <<Take("extra", 1), Give("token", 1, {"extra"}), Dispose>>>>)

(* Prizes on the way out of a dungeon; the quest's item comes with one of  *)
(* them or in its place.                                                   *)
Prize(t, both) ==
  (IF "a" \in t.begun THEN <<Give("token", 1, {})>> ELSE <<>>)
  \o (IF both \/ "a" \notin t.begun THEN <<Give("goods", 1, {})>> ELSE <<>>)
N1043000(t, mode, sel) == Prize(t, TRUE) \o <<Go("out", {}), Dispose>>
N1043001(t, mode, sel) == Prize(t, TRUE) \o <<Go("out", {}), Dispose>>
N1052008(t, mode, sel) == Prize(t, FALSE) \o <<Go("out", {}), Dispose>>
N1052009(t, mode, sel) == Prize(t, FALSE) \o <<Go("out", {}), Dispose>>
N1052010(t, mode, sel) == Prize(t, FALSE) \o <<Go("out", {}), Dispose>>
N1063000(t, mode, sel) == Prize(t, FALSE) \o <<Go("out", {}), Dispose>>
N1063001(t, mode, sel) == Prize(t, FALSE) \o <<Go("out", {}), Dispose>>
N1063002(t, mode, sel) == Prize(t, FALSE) \o <<Go("out", {}), Dispose>>
-----------------------------------------------------------------------------
(* The script by its name, as NPCScriptManager finds the file by the id.   *)
PassageScripts ==
  {"N1032004", "N1061007", "N2001001", "N2001002", "N2001003",
   "N2002000", "N2007", "N2083002", "N2030010", "N9120200", "N9220005",
   "N9270038", "N9270041", "N1103005", "N9103002", "N9120201",
   "N9120202", "N9270033", "N2030011", "N9000010", "N9201123",
   "N9201124", "N9201125", "N9201126", "N2102001", "N10200", "N10201",
   "N10202", "N10203", "N10204", "N1012113", "N1032009", "N1052011",
   "N1081001", "N2012006", "N2101", "N9101001", "N2040002", "N9201056",
   "N9010022", "N9060000", "N2030000", "N1061006", "N2101018",
   "N2091006", "N1012114", "N1092000", "N2012002", "N2012021",
   "N2012022", "N2032003", "N9120015", "N9201010", "N2082002",
   "N2090005", "N2012014", "N2012015", "N2040024", "N2040025",
   "N2040026", "N2040027", "N2102000", "N2040028", "N9201043",
   "N1043000", "N1043001", "N1052008", "N1052009", "N1052010",
   "N1063000", "N1063001", "N1063002"}
PassageOps(n, t, mode, sel) ==
  CASE n = "N1032004" -> N1032004(t, mode, sel)
    [] n = "N1061007" -> N1061007(t, mode, sel)
    [] n = "N2001001" -> N2001001(t, mode, sel)
    [] n = "N2001002" -> N2001002(t, mode, sel)
    [] n = "N2001003" -> N2001003(t, mode, sel)
    [] n = "N2002000" -> N2002000(t, mode, sel)
    [] n = "N2007" -> N2007(t, mode, sel)
    [] n = "N2083002" -> N2083002(t, mode, sel)
    [] n = "N2030010" -> N2030010(t, mode, sel)
    [] n = "N9120200" -> N9120200(t, mode, sel)
    [] n = "N9220005" -> N9220005(t, mode, sel)
    [] n = "N9270038" -> N9270038(t, mode, sel)
    [] n = "N9270041" -> N9270041(t, mode, sel)
    [] n = "N1103005" -> N1103005(t, mode, sel)
    [] n = "N9103002" -> N9103002(t, mode, sel)
    [] n = "N9120201" -> N9120201(t, mode, sel)
    [] n = "N9120202" -> N9120202(t, mode, sel)
    [] n = "N9270033" -> N9270033(t, mode, sel)
    [] n = "N2030011" -> N2030011(t, mode, sel)
    [] n = "N9000010" -> N9000010(t, mode, sel)
    [] n = "N9201123" -> N9201123(t, mode, sel)
    [] n = "N9201124" -> N9201124(t, mode, sel)
    [] n = "N9201125" -> N9201125(t, mode, sel)
    [] n = "N9201126" -> N9201126(t, mode, sel)
    [] n = "N2102001" -> N2102001(t, mode, sel)
    [] n = "N10200" -> N10200(t, mode, sel)
    [] n = "N10201" -> N10201(t, mode, sel)
    [] n = "N10202" -> N10202(t, mode, sel)
    [] n = "N10203" -> N10203(t, mode, sel)
    [] n = "N10204" -> N10204(t, mode, sel)
    [] n = "N1012113" -> N1012113(t, mode, sel)
    [] n = "N1032009" -> N1032009(t, mode, sel)
    [] n = "N1052011" -> N1052011(t, mode, sel)
    [] n = "N1081001" -> N1081001(t, mode, sel)
    [] n = "N2012006" -> N2012006(t, mode, sel)
    [] n = "N2101" -> N2101(t, mode, sel)
    [] n = "N9101001" -> N9101001(t, mode, sel)
    [] n = "N2040002" -> N2040002(t, mode, sel)
    [] n = "N9201056" -> N9201056(t, mode, sel)
    [] n = "N9010022" -> N9010022(t, mode, sel)
    [] n = "N9060000" -> N9060000(t, mode, sel)
    [] n = "N2030000" -> N2030000(t, mode, sel)
    [] n = "N1061006" -> N1061006(t, mode, sel)
    [] n = "N2101018" -> N2101018(t, mode, sel)
    [] n = "N2091006" -> N2091006(t, mode, sel)
    [] n = "N1012114" -> N1012114(t, mode, sel)
    [] n = "N1092000" -> N1092000(t, mode, sel)
    [] n = "N2012002" -> N2012002(t, mode, sel)
    [] n = "N2012021" -> N2012021(t, mode, sel)
    [] n = "N2012022" -> N2012022(t, mode, sel)
    [] n = "N2032003" -> N2032003(t, mode, sel)
    [] n = "N9120015" -> N9120015(t, mode, sel)
    [] n = "N9201010" -> N9201010(t, mode, sel)
    [] n = "N2082002" -> N2082002(t, mode, sel)
    [] n = "N2090005" -> N2090005(t, mode, sel)
    [] n = "N2012014" -> N2012014(t, mode, sel)
    [] n = "N2012015" -> N2012015(t, mode, sel)
    [] n = "N2040024" -> N2040024(t, mode, sel)
    [] n = "N2040025" -> N2040025(t, mode, sel)
    [] n = "N2040026" -> N2040026(t, mode, sel)
    [] n = "N2040027" -> N2040027(t, mode, sel)
    [] n = "N2102000" -> N2102000(t, mode, sel)
    [] n = "N2040028" -> N2040028(t, mode, sel)
    [] n = "N9201043" -> N9201043(t, mode, sel)
    [] n = "N1043000" -> N1043000(t, mode, sel)
    [] n = "N1043001" -> N1043001(t, mode, sel)
    [] n = "N1052008" -> N1052008(t, mode, sel)
    [] n = "N1052009" -> N1052009(t, mode, sel)
    [] n = "N1052010" -> N1052010(t, mode, sel)
    [] n = "N1063000" -> N1063000(t, mode, sel)
    [] n = "N1063001" -> N1063001(t, mode, sel)
    [] n = "N1063002" -> N1063002(t, mode, sel)
=============================================================================
