------------------------------ MODULE Vendors ------------------------------
(***************************************************************************)
(* The ticket sellers, alchemists, collectors and ushers: scripts that     *)
(* sell, swap or hand out an item.  Each is one definition, start          *)
(* included.  A price of several pieces is one "extra"; g.pick is the      *)
(* entry chosen and g.qty the number asked for.                            *)
(***************************************************************************)
EXTENDS Conversation

(* Mesos for an item, when there are enough and there is room.             *)
Counter(t, ops) ==
  (IF Owns(t, "meso", 1) /\ t.room THEN ops ELSE <<Say(Ok)>>) \o <<Dispose>>
Sold(q) == Give("goods", q, {"meso"})

-----------------------------------------------------------------------------
(***************************************************************************)
(* Sellers.                                                                *)
(***************************************************************************)
\* The item is given first.
N2102002(t, mode, sel) ==
  CASE mode = 0 -> <<Say(More), Dispose>>
    [] OTHER -> Forward(t, mode, <<<<Say(YesNo)>>, Counter(t, <<Sold(1), Pay(1)>>)>>)

(* Sellers whose status is not declared anywhere: they sell nothing.       *)
N2012000(t, mode, sel) == Forward(t, mode, <<<<Say(Menu({0, 1}))>>, <<Fail>>>>)
Ticket(t, mode) ==
  IF mode = 0 THEN <<Say(More), Dispose>> ELSE Forward(t, mode, <<<<Say(YesNo)>>, <<Fail>>>>)
N2082000(t, mode, sel) == Ticket(t, mode)
N2040000(t, mode, sel) == Ticket(t, mode)
N2020005(t, mode, sel) ==
  CASE mode = Opening -> IF "a" \in t.ended THEN <<Say(Menu({0, 1}))>> ELSE <<Say(More), Dispose>>
    [] mode = -1 -> <<Dispose>>
    [] OTHER -> <<Fail>>
N2081000(t, mode, sel) ==
  CASE mode = Opening -> <<Say(Menu({0, 1}))>>
    [] mode = -1 -> <<Dispose>>
    [] OTHER -> <<Fail>>

\* The text for a customer with too little names a variable that is not there.
N1002100(t, mode, sel) ==
  Forward(t, mode, <<IF "a" \in t.ended THEN <<Say(More)>> ELSE <<Say(Ok), Dispose>>,
    <<Say(Menu({0, 1}))>>, <<Say(Number)>>, <<Note("qty", sel), Say(YesNo)>>,
    IF Owns(t, "meso", t.g.qty)
      THEN (IF t.room THEN <<Pay(t.g.qty), Sold(t.g.qty)>> ELSE <<>>) \o <<Say(More), Dispose>>
      ELSE <<Fail>>>>)

\* Nobody asks for room.
N1052006(t, mode, sel) ==
  Forward(t, mode, <<<<Say(More)>>,
    IF t.begun \cup t.ended = {} THEN <<Dispose>> ELSE <<Say(Menu({0, 1}))>>,
    (IF Owns(t, "meso", 1) THEN <<Pay(1), Sold(1)>> ELSE <<Say(Ok)>>) \o <<Dispose>>>>)
N2032001(t, mode, sel) ==
  Forward(t, mode, <<IF "a" \in t.ended THEN <<Say(YesNo)>> ELSE <<Say(Ok), Dispose>>,
    <<Say(Number)>>,
    (IF Owns(t, "meso", sel) /\ Owns(t, "extra", sel)
       THEN <<Take("extra", sel), Pay(sel), Give("goods", sel, {"extra", "meso"})>>
       ELSE <<>>) \o <<Say(Ok), Dispose>>>>)

\* The talks about pets jump to a page that has none after it; so does the
\* lesson for sale, and nobody gets to its price.
N1012005(t, mode, sel) ==
  LET status == IF mode = 1 THEN t.g.status + 1 ELSE t.g.status - 1
      talks  == {0, 1, 2}
      jump   == [k \in {0, 1, 2, 27} |->
                   CASE k = 0 -> 3 [] k = 1 -> 6 [] k = 2 -> 11 [] k = 27 -> 14]
  IN CASE mode = Opening -> <<Goto(-1), Say(More)>>
       [] mode = -1 \/ (mode = 0 /\ t.g.status < 1) -> <<Dispose>>
       [] OTHER -> Turn(status,
            CASE status = 0 -> <<Say(Menu({0, 1, 2, 3, 27}))>>
              [] status = 1 /\ sel \in DOMAIN jump ->
                   <<Note("pick", sel), Goto(jump[sel]), Say(More)>>
              [] status = 1 /\ sel \notin DOMAIN jump -> <<Note("pick", sel), Say(More), Dispose>>
              [] status = 2 -> <<Say(IF t.g.pick = 27 THEN YesNo ELSE NextPrev)>>
              [] status = 3 /\ t.g.pick \in talks -> <<Say(NextPrev)>>
              [] status = 3 /\ t.g.pick = 27 -> Counter(t, <<Pay(1), Sold(1)>>)
              [] status = 4 -> (IF t.g.pick # 1 THEN <<Dispose>> ELSE <<>>) \o <<Say(NextPrev)>>
              [] status = 5 -> <<Say(NextPrev)>>
              [] status = 6 -> <<Dispose>>
              [] OTHER -> <<>>)

-----------------------------------------------------------------------------
(***************************************************************************)
(* Makers.                                                                 *)
(***************************************************************************)
\* Plates (ore) for entry 0; jewels (extra) for entry 1, whose loop runs from
\* 4021000 to 4011009; three things (ore) for entry 2, whose loop takes a
\* garnet (stray) it did not ask for and nothing else.
Rock(t) ==
  LET asked == IF t.g.pick = 1 THEN "extra" ELSE "ore" IN
  CASE t.g.pick \notin 0 .. 2 -> <<Dispose>>
    [] t.g.pick \in 0 .. 2 /\ Owns(t, asked, 1) /\ Owns(t, "meso", 1) ->
         <<Pay(1)>>
         \o (CASE t.g.pick = 0 -> <<Take("ore", 1)>>
               [] t.g.pick = 1 -> <<>>
               [] t.g.pick = 2 -> <<Take("stray", 1)>>)
         \o <<Give("goods", 1, {asked, "meso"}), Say(More), Dispose>>
    [] OTHER -> <<Say(More), Dispose>>
N1032100(t, mode, sel) ==
  IF mode = 0 /\ t.g.status = 2 THEN <<Say(More), Dispose>>
  ELSE Forward(t, mode, <<IF t.level > 0 THEN <<Say(More)>> ELSE <<Say(Ok), Dispose>>,
         <<Say(Menu(0 .. 2))>>, <<Note("pick", sel), Say(YesNo)>>, Rock(t)>>)

\* A refusal at the end goes on, over a recipe that is no table any more.
N2040050(t, mode, sel) ==
  IF mode = 0 /\ t.g.status = 2 THEN <<Say(More), Dispose, Fail>>
  ELSE Forward(t, mode, <<<<Say(Menu({0, 1}))>>, <<Say(Menu(0 .. 4))>>, <<Say(YesNo)>>,
         IF Owns(t, "extra", 1) /\ Owns(t, "ore", 1) /\ t.room /\ Owns(t, "meso", 1)
           THEN <<Say(Ok), Take("extra", 1), Take("ore", 1), Pay(1),
                  Give("goods", 1, {"extra", "ore", "meso"}), Dispose>>
           ELSE <<Say(More), Dispose>>>>)

\* hasItem is not a function.
N9120010(t, mode, sel) ==
  CASE mode = 0 /\ t.g.status = 0 -> <<Say(Ok), Dispose>>
    [] OTHER -> Forward(t, mode, <<<<Say(YesNo)>>, <<Say(Menu({0, 1}))>>,
                  IF t.room THEN <<Fail>> ELSE <<Say(More), Dispose>>>>)

\* Buys one piece (ore) of what was chosen and looked for two pages before.
\* The end of the chat counts as a yes; sel in the script is g.pick.
N9209000(t, mode, sel) ==
  LET back   == mode = 0 /\ t.g.pick = 2 /\ t.g.status >= 0
      status == IF back THEN t.g.status - 1 ELSE t.g.status + 1
      pick   == IF t.g.status = -1 /\ t.g.pick = 0 THEN sel ELSE t.g.pick
  IN CASE mode = Opening -> <<Goto(-1), Say(Menu(0 .. 2))>>
       [] mode = 0 /\ t.g.status = -1 -> <<Dispose>>
       [] mode = 0 /\ t.g.pick = 0 /\ t.g.status = 1 -> <<Say(More), Dispose>>
       [] OTHER -> Turn(status,
            CASE status = 0 /\ sel = 0 -> <<Say(Menu(0 .. 4))>>
              [] status = 0 /\ sel = 1 -> <<Say(More), Dispose>>
              [] status = 0 /\ sel \notin {0, 1} -> <<Note("pick", pick), Say(More)>>
              [] status = 1 /\ t.g.pick = 0 ->
                   IF sel >= 0 /\ Owns(t, "ore", 1) THEN <<Say(YesNo)>> ELSE <<Say(More), Dispose>>
              [] status = 1 /\ t.g.pick = 2 -> <<Say(NextPrev)>>
              [] status = 2 -> <<Say(IF t.g.pick = 0 THEN Number ELSE Prev)>>
              [] status = 3 ->
                   (IF t.g.pick = 0 /\ sel = 1 THEN <<Reward({"ore"}), Take("ore", 1)>> ELSE <<>>)
                   \o <<Say(More), Dispose>>
              [] OTHER -> <<>>)

-----------------------------------------------------------------------------
(***************************************************************************)
(* Weddings: the leaf is "goods", an engagement ring "token", a wedding    *)
(* ring or a receipt "proof", the keys to the presents "ore" and "extra".  *)
(***************************************************************************)
Goodbye == <<Say(Ok), Dispose>>

N9201005(t, mode, sel) ==
  CASE mode = Opening -> <<Say(Menu(0 .. 3))>>
    [] mode = 1 /\ sel = 1 /\ ~Owns(t, "goods", 1) /\ Owns(t, "token", 1) ->
         <<Give("goods", 1, {}), Dispose>>
    [] mode = 1 /\ sel = 2 /\ Owns(t, "token", 1) -> <<Go("chapel", {}), Dispose>>
    [] mode = 1 /\ sel = 3 /\ Owns(t, "goods", 1) -> <<Go("chapel", {}), Dispose>>
    [] OTHER -> Goodbye

N9201006(t, mode, sel) ==
  CASE mode = Opening -> <<Say(More)>>
    [] mode = 1 /\ ~(Owns(t, "goods", 1) /\ Owns(t, "token", 1)) -> <<Go("amoria", {}), Dispose>>
    [] OTHER -> Goodbye

N9201007(t, mode, sel) ==
  CASE mode = Opening /\ Owns(t, "goods", 1) /\ Owns(t, "token", 1) -> Goodbye
    [] mode = Opening /\ Owns(t, "goods", 1) /\ ~Owns(t, "token", 1) /\ Owns(t, "proof", 1) ->
         <<Say(Menu({0, 1}))>>
    [] mode = Opening /\ ~(Owns(t, "goods", 1) /\ (Owns(t, "token", 1) \/ Owns(t, "proof", 1))) ->
         <<Say(More)>>
    [] mode = 1 /\ sel # 1 -> <<Go(IF sel = 0 THEN "photos" ELSE "amoria", {}), Dispose>>
    [] OTHER -> Goodbye

\* Disposed of first.  Entries 2 to 4 belong to the wrong if.
N9201013(t, mode, sel) ==
  CASE mode = Opening -> <<Say(Menu(0 .. 4))>>
    [] sel = 0 /\ Owns(t, "proof", 1) -> <<Dispose, Give("token", 1, {})>>
    [] sel = 1 /\ Owns(t, "ticket", 1) -> <<Dispose, Give("proof", 1, {})>>
    [] OTHER -> <<Dispose>>

\* A key and the present it opens; after entry 0 nothing comes.
N9201014(t, mode, sel) ==
  CASE mode = Opening -> <<Say(Menu({0, 1}))>>
    [] mode = 1 /\ t.g.status = 0 /\ sel = 0 /\ Owns(t, "extra", 1) ->
         Turn(1, <<Give("goods", 1, {"extra"}), Take("extra", 1)>>)
    [] mode = 1 /\ t.g.status = 0 /\ sel = 1 /\ Owns(t, "ore", 1) -> Turn(1, <<Say(Menu(0 .. 3))>>)
    [] mode = 1 /\ t.g.status = 1 -> <<Give("goods", 1, {"ore"}), Take("ore", 1), Dispose>>
    [] OTHER -> Goodbye

\* Seven keys for nothing.
N9201021(t, mode, sel) ==
  CASE mode = Opening -> <<Say(Menu(0 .. 2))>>
    [] mode = 1 /\ sel = 1 /\ Owns(t, "extra", 1) -> <<Take("extra", 1), Dispose>>
    [] mode = 1 /\ sel # 1 -> <<Go(IF sel = 0 THEN "bonus" ELSE "amoria", {}), Dispose>>
    [] OTHER -> Goodbye

N9201022(t, mode, sel) ==
  Forward(t, mode, <<<<Say(YesNo)>>, <<Say(More)>>,
                     <<Go(IF t.place = 1 THEN "amoria" ELSE "henesys", {}), Dispose>>>>)

\* The first answer to a couple counts for status 0, its keys wait at 1.
N9201049(t, mode, sel) ==
  CASE mode = Opening ->
         <<Goto(CASE Owns(t, "proof", 1) -> -1
                  [] ~Owns(t, "proof", 1) /\ Owns(t, "goods", 1) -> 20
                  [] OTHER -> 21), Say(More)>>
    [] mode < 1 -> Goodbye
    [] OTHER -> Turn(t.g.status + 1,
         (IF t.g.status = 20 THEN <<Take("goods", 1), Give("ore", 1, {"goods"})>> ELSE <<>>)
         \o <<Go("amoria", {}), Dispose>>)

-----------------------------------------------------------------------------
\* Three hundred chickens (extra) for five questions and a marble (proof);
\* entry 0 is the right answer.  A refusal has no branch.
N9120013(t, mode, sel) ==
  LET wrong == <<Say(More), Dispose>> IN
  CASE mode = 0 -> Turn(t.g.status - 1, <<>>)
    [] mode = Opening /\ ~("a" \in t.begun /\ ~Owns(t, "proof", 1)) -> <<Dispose>>
    [] mode = 1 /\ t.g.status = 0 /\ ~Owns(t, "extra", 1) -> wrong
    [] mode = 1 /\ t.g.status \in 2 .. 6 /\ sel # 0 -> wrong
    [] OTHER -> Forward(t, mode, <<<<Say(YesNo)>>, <<Take("extra", 1), Say(More)>>>>
                  \o [i \in 1 .. 5 |-> <<Say(Menu({0, 1}))>>]
                  \o <<<<Say(More)>>, <<Give("proof", 1, {"extra"}), Say(Ok), Dispose>>>>)
-----------------------------------------------------------------------------
(* The script by its name, as NPCScriptManager finds the file by the id.   *)
VendorScripts ==
  {"N2102002", "N2012000", "N2082000", "N2040000", "N2020005",
   "N2081000", "N1002100", "N1052006", "N2032001", "N1012005",
   "N1032100", "N2040050", "N9120010", "N9209000", "N9201005",
   "N9201006", "N9201007", "N9201013", "N9201014", "N9201021",
   "N9201022", "N9201049", "N9120013"}
VendorOps(n, t, mode, sel) ==
  CASE n = "N2102002" -> N2102002(t, mode, sel)
    [] n = "N2012000" -> N2012000(t, mode, sel)
    [] n = "N2082000" -> N2082000(t, mode, sel)
    [] n = "N2040000" -> N2040000(t, mode, sel)
    [] n = "N2020005" -> N2020005(t, mode, sel)
    [] n = "N2081000" -> N2081000(t, mode, sel)
    [] n = "N1002100" -> N1002100(t, mode, sel)
    [] n = "N1052006" -> N1052006(t, mode, sel)
    [] n = "N2032001" -> N2032001(t, mode, sel)
    [] n = "N1012005" -> N1012005(t, mode, sel)
    [] n = "N1032100" -> N1032100(t, mode, sel)
    [] n = "N2040050" -> N2040050(t, mode, sel)
    [] n = "N9120010" -> N9120010(t, mode, sel)
    [] n = "N9209000" -> N9209000(t, mode, sel)
    [] n = "N9201005" -> N9201005(t, mode, sel)
    [] n = "N9201006" -> N9201006(t, mode, sel)
    [] n = "N9201007" -> N9201007(t, mode, sel)
    [] n = "N9201013" -> N9201013(t, mode, sel)
    [] n = "N9201014" -> N9201014(t, mode, sel)
    [] n = "N9201021" -> N9201021(t, mode, sel)
    [] n = "N9201022" -> N9201022(t, mode, sel)
    [] n = "N9201049" -> N9201049(t, mode, sel)
    [] n = "N9120013" -> N9120013(t, mode, sel)
=============================================================================
