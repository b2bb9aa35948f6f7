---------------------------- MODULE World1Talks -----------------------------
(***************************************************************************)
(* The rest of world 1's files that are the text of world 0's: the scripts *)
(* with a conversation of their own.                                       *)
(***************************************************************************)
EXTENDS World1, Journeys, Passages, Instructors, Vendors

-----------------------------------------------------------------------------
(* Journeys.                                                               *)
W1012000(t, mode, sel) == N1012000(t, mode, sel)
W1022001(t, mode, sel) == N1022001(t, mode, sel)
W1032000(t, mode, sel) == N1032000(t, mode, sel)
W1052016(t, mode, sel) == N1052016(t, mode, sel)
W1092014(t, mode, sel) == N1092014(t, mode, sel)
W1002000(t, mode, sel) == N1002000(t, mode, sel)
W1002004(t, mode, sel) == N1002004(t, mode, sel)
W1032005(t, mode, sel) == N1032005(t, mode, sel)
W2010005(t, mode, sel) == N2010005(t, mode, sel)
W2040048(t, mode, sel) == N2040048(t, mode, sel)
W1002002(t, mode, sel) == N1002002(t, mode, sel)
W1032003(t, mode, sel) == N1032003(t, mode, sel)
W1061100(t, mode, sel) == N1061100(t, mode, sel)
W1100003(t, mode, sel) == N1100003(t, mode, sel)
W2023000(t, mode, sel) == N2023000(t, mode, sel)
W2060009(t, mode, sel) == N2060009(t, mode, sel)
W2081005(t, mode, sel) == N2081005(t, mode, sel)
W2093004(t, mode, sel) == N2093004(t, mode, sel)
W2110005(t, mode, sel) == N2110005(t, mode, sel)
W22000(t, mode, sel) == N22000(t, mode, sel)
W9000020(t, mode, sel) == N9000020(t, mode, sel)
W9120003(t, mode, sel) == N9120003(t, mode, sel)
W9000012(t, mode, sel) == N9000012(t, mode, sel)
-----------------------------------------------------------------------------
(* Passages.                                                               *)
W1032004(t, mode, sel) == N1032004(t, mode, sel)
W1061007(t, mode, sel) == N1061007(t, mode, sel)
W2001001(t, mode, sel) == N2001001(t, mode, sel)
W2001002(t, mode, sel) == N2001002(t, mode, sel)
W2001003(t, mode, sel) == N2001003(t, mode, sel)
W2002000(t, mode, sel) == N2002000(t, mode, sel)
W2007(t, mode, sel) == N2007(t, mode, sel)
W2083002(t, mode, sel) == N2083002(t, mode, sel)
W2030010(t, mode, sel) == N2030010(t, mode, sel)
W9120200(t, mode, sel) == N9120200(t, mode, sel)
W9220005(t, mode, sel) == N9220005(t, mode, sel)
W9270038(t, mode, sel) == N9270038(t, mode, sel)
W9270041(t, mode, sel) == N9270041(t, mode, sel)
W1103005(t, mode, sel) == N1103005(t, mode, sel)
W9103002(t, mode, sel) == N9103002(t, mode, sel)
W9120201(t, mode, sel) == N9120201(t, mode, sel)
W9120202(t, mode, sel) == N9120202(t, mode, sel)
W9270033(t, mode, sel) == N9270033(t, mode, sel)
W2030011(t, mode, sel) == N2030011(t, mode, sel)
W9000010(t, mode, sel) == N9000010(t, mode, sel)
W9201123(t, mode, sel) == N9201123(t, mode, sel)
W9201124(t, mode, sel) == N9201124(t, mode, sel)
W9201125(t, mode, sel) == N9201125(t, mode, sel)
W9201126(t, mode, sel) == N9201126(t, mode, sel)
W2102001(t, mode, sel) == N2102001(t, mode, sel)
W10200(t, mode, sel) == N10200(t, mode, sel)
W10201(t, mode, sel) == N10201(t, mode, sel)
W10202(t, mode, sel) == N10202(t, mode, sel)
W10203(t, mode, sel) == N10203(t, mode, sel)
W10204(t, mode, sel) == N10204(t, mode, sel)
W1012113(t, mode, sel) == N1012113(t, mode, sel)
W1032009(t, mode, sel) == N1032009(t, mode, sel)
W1052011(t, mode, sel) == N1052011(t, mode, sel)
W1081001(t, mode, sel) == N1081001(t, mode, sel)
W2012006(t, mode, sel) == N2012006(t, mode, sel)
W2101(t, mode, sel) == N2101(t, mode, sel)
W9101001(t, mode, sel) == N9101001(t, mode, sel)
W2040002(t, mode, sel) == N2040002(t, mode, sel)
W9201056(t, mode, sel) == N9201056(t, mode, sel)
W9010022(t, mode, sel) == N9010022(t, mode, sel)
W9060000(t, mode, sel) == N9060000(t, mode, sel)
W2030000(t, mode, sel) == N2030000(t, mode, sel)
W1061006(t, mode, sel) == N1061006(t, mode, sel)
W2101018(t, mode, sel) == N2101018(t, mode, sel)
W2091006(t, mode, sel) == N2091006(t, mode, sel)
W1012114(t, mode, sel) == N1012114(t, mode, sel)
W1092000(t, mode, sel) == N1092000(t, mode, sel)
W2012002(t, mode, sel) == N2012002(t, mode, sel)
W2012021(t, mode, sel) == N2012021(t, mode, sel)
W2012022(t, mode, sel) == N2012022(t, mode, sel)
W2032003(t, mode, sel) == N2032003(t, mode, sel)
W9120015(t, mode, sel) == N9120015(t, mode, sel)
W9201010(t, mode, sel) == N9201010(t, mode, sel)
W2082002(t, mode, sel) == N2082002(t, mode, sel)
W2090005(t, mode, sel) == N2090005(t, mode, sel)
W2012014(t, mode, sel) == N2012014(t, mode, sel)
W2012015(t, mode, sel) == N2012015(t, mode, sel)
W2040024(t, mode, sel) == N2040024(t, mode, sel)
W2040025(t, mode, sel) == N2040025(t, mode, sel)
W2040026(t, mode, sel) == N2040026(t, mode, sel)
W2040027(t, mode, sel) == N2040027(t, mode, sel)
W2102000(t, mode, sel) == N2102000(t, mode, sel)
W2040028(t, mode, sel) == N2040028(t, mode, sel)
W9201043(t, mode, sel) == N9201043(t, mode, sel)
W1043000(t, mode, sel) == N1043000(t, mode, sel)
W1043001(t, mode, sel) == N1043001(t, mode, sel)
W1052008(t, mode, sel) == N1052008(t, mode, sel)
W1052009(t, mode, sel) == N1052009(t, mode, sel)
W1052010(t, mode, sel) == N1052010(t, mode, sel)
W1063000(t, mode, sel) == N1063000(t, mode, sel)
W1063001(t, mode, sel) == N1063001(t, mode, sel)
W1063002(t, mode, sel) == N1063002(t, mode, sel)
-----------------------------------------------------------------------------
(* Instructors.                                                            *)
W1012100(t, mode, sel) == N1012100(t, mode, sel)
W1032001(t, mode, sel) == N1032001(t, mode, sel)
W1022000(t, mode, sel) == N1022000(t, mode, sel)
W1090000(t, mode, sel) == N1090000(t, mode, sel)
W1072001(t, mode, sel) == N1072001(t, mode, sel)
W1072000(t, mode, sel) == N1072000(t, mode, sel)
W1072004(t, mode, sel) == N1072004(t, mode, sel)
W1072005(t, mode, sel) == N1072005(t, mode, sel)
W2020008(t, mode, sel) == N2020008(t, mode, sel)
W2081100(t, mode, sel) == N2081100(t, mode, sel)
W2081300(t, mode, sel) == N2081300(t, mode, sel)
W2081400(t, mode, sel) == N2081400(t, mode, sel)
-----------------------------------------------------------------------------
(* Vendors.                                                                *)
W2102002(t, mode, sel) == N2102002(t, mode, sel)
W2012000(t, mode, sel) == N2012000(t, mode, sel)
W2082000(t, mode, sel) == N2082000(t, mode, sel)
W2040000(t, mode, sel) == N2040000(t, mode, sel)
W2020005(t, mode, sel) == N2020005(t, mode, sel)
W2081000(t, mode, sel) == N2081000(t, mode, sel)
W1002100(t, mode, sel) == N1002100(t, mode, sel)
W1052006(t, mode, sel) == N1052006(t, mode, sel)
W2032001(t, mode, sel) == N2032001(t, mode, sel)
W1012005(t, mode, sel) == N1012005(t, mode, sel)
W1032100(t, mode, sel) == N1032100(t, mode, sel)
W2040050(t, mode, sel) == N2040050(t, mode, sel)
W9120010(t, mode, sel) == N9120010(t, mode, sel)
W9209000(t, mode, sel) == N9209000(t, mode, sel)
W9201005(t, mode, sel) == N9201005(t, mode, sel)
W9201006(t, mode, sel) == N9201006(t, mode, sel)
W9201007(t, mode, sel) == N9201007(t, mode, sel)
W9201013(t, mode, sel) == N9201013(t, mode, sel)
W9201014(t, mode, sel) == N9201014(t, mode, sel)
W9201021(t, mode, sel) == N9201021(t, mode, sel)
W9201022(t, mode, sel) == N9201022(t, mode, sel)
W9201049(t, mode, sel) == N9201049(t, mode, sel)
W9120013(t, mode, sel) == N9120013(t, mode, sel)

Talk1(n, t, mode, sel) ==
  CASE n = "N1012000" -> W1012000(t, mode, sel)
    [] n = "N1022001" -> W1022001(t, mode, sel)
    [] n = "N1032000" -> W1032000(t, mode, sel)
    [] n = "N1052016" -> W1052016(t, mode, sel)
    [] n = "N1092014" -> W1092014(t, mode, sel)
    [] n = "N1002000" -> W1002000(t, mode, sel)
    [] n = "N1002004" -> W1002004(t, mode, sel)
    [] n = "N1032005" -> W1032005(t, mode, sel)
    [] n = "N2010005" -> W2010005(t, mode, sel)
    [] n = "N2040048" -> W2040048(t, mode, sel)
    [] n = "N1002002" -> W1002002(t, mode, sel)
    [] n = "N1032003" -> W1032003(t, mode, sel)
    [] n = "N1061100" -> W1061100(t, mode, sel)
    [] n = "N1100003" -> W1100003(t, mode, sel)
    [] n = "N2023000" -> W2023000(t, mode, sel)
    [] n = "N2060009" -> W2060009(t, mode, sel)
    [] n = "N2081005" -> W2081005(t, mode, sel)
    [] n = "N2093004" -> W2093004(t, mode, sel)
    [] n = "N2110005" -> W2110005(t, mode, sel)
    [] n = "N22000" -> W22000(t, mode, sel)
    [] n = "N9000020" -> W9000020(t, mode, sel)
    [] n = "N9120003" -> W9120003(t, mode, sel)
    [] n = "N9000012" -> W9000012(t, mode, sel)
    [] n = "N1032004" -> W1032004(t, mode, sel)
    [] n = "N1061007" -> W1061007(t, mode, sel)
    [] n = "N2001001" -> W2001001(t, mode, sel)
    [] n = "N2001002" -> W2001002(t, mode, sel)
    [] n = "N2001003" -> W2001003(t, mode, sel)
    [] n = "N2002000" -> W2002000(t, mode, sel)
    [] n = "N2007" -> W2007(t, mode, sel)
    [] n = "N2083002" -> W2083002(t, mode, sel)
    [] n = "N2030010" -> W2030010(t, mode, sel)
    [] n = "N9120200" -> W9120200(t, mode, sel)
    [] n = "N9220005" -> W9220005(t, mode, sel)
    [] n = "N9270038" -> W9270038(t, mode, sel)
    [] n = "N9270041" -> W9270041(t, mode, sel)
    [] n = "N1103005" -> W1103005(t, mode, sel)
    [] n = "N9103002" -> W9103002(t, mode, sel)
    [] n = "N9120201" -> W9120201(t, mode, sel)
    [] n = "N9120202" -> W9120202(t, mode, sel)
    [] n = "N9270033" -> W9270033(t, mode, sel)
    [] n = "N2030011" -> W2030011(t, mode, sel)
    [] n = "N9000010" -> W9000010(t, mode, sel)
    [] n = "N9201123" -> W9201123(t, mode, sel)
    [] n = "N9201124" -> W9201124(t, mode, sel)
    [] n = "N9201125" -> W9201125(t, mode, sel)
    [] n = "N9201126" -> W9201126(t, mode, sel)
    [] n = "N2102001" -> W2102001(t, mode, sel)
    [] n = "N10200" -> W10200(t, mode, sel)
    [] n = "N10201" -> W10201(t, mode, sel)
    [] n = "N10202" -> W10202(t, mode, sel)
    [] n = "N10203" -> W10203(t, mode, sel)
    [] n = "N10204" -> W10204(t, mode, sel)
    [] n = "N1012113" -> W1012113(t, mode, sel)
    [] n = "N1032009" -> W1032009(t, mode, sel)
    [] n = "N1052011" -> W1052011(t, mode, sel)
    [] n = "N1081001" -> W1081001(t, mode, sel)
    [] n = "N2012006" -> W2012006(t, mode, sel)
    [] n = "N2101" -> W2101(t, mode, sel)
    [] n = "N9101001" -> W9101001(t, mode, sel)
    [] n = "N2040002" -> W2040002(t, mode, sel)
    [] n = "N9201056" -> W9201056(t, mode, sel)
    [] n = "N9010022" -> W9010022(t, mode, sel)
    [] n = "N9060000" -> W9060000(t, mode, sel)
    [] n = "N2030000" -> W2030000(t, mode, sel)
    [] n = "N1061006" -> W1061006(t, mode, sel)
    [] n = "N2101018" -> W2101018(t, mode, sel)
    [] n = "N2091006" -> W2091006(t, mode, sel)
    [] n = "N1012114" -> W1012114(t, mode, sel)
    [] n = "N1092000" -> W1092000(t, mode, sel)
    [] n = "N2012002" -> W2012002(t, mode, sel)
    [] n = "N2012021" -> W2012021(t, mode, sel)
    [] n = "N2012022" -> W2012022(t, mode, sel)
    [] n = "N2032003" -> W2032003(t, mode, sel)
    [] n = "N9120015" -> W9120015(t, mode, sel)
    [] n = "N9201010" -> W9201010(t, mode, sel)
    [] n = "N2082002" -> W2082002(t, mode, sel)
    [] n = "N2090005" -> W2090005(t, mode, sel)
    [] n = "N2012014" -> W2012014(t, mode, sel)
    [] n = "N2012015" -> W2012015(t, mode, sel)
    [] n = "N2040024" -> W2040024(t, mode, sel)
    [] n = "N2040025" -> W2040025(t, mode, sel)
    [] n = "N2040026" -> W2040026(t, mode, sel)
    [] n = "N2040027" -> W2040027(t, mode, sel)
    [] n = "N2102000" -> W2102000(t, mode, sel)
    [] n = "N2040028" -> W2040028(t, mode, sel)
    [] n = "N9201043" -> W9201043(t, mode, sel)
    [] n = "N1043000" -> W1043000(t, mode, sel)
    [] n = "N1043001" -> W1043001(t, mode, sel)
    [] n = "N1052008" -> W1052008(t, mode, sel)
    [] n = "N1052009" -> W1052009(t, mode, sel)
    [] n = "N1052010" -> W1052010(t, mode, sel)
    [] n = "N1063000" -> W1063000(t, mode, sel)
    [] n = "N1063001" -> W1063001(t, mode, sel)
    [] n = "N1063002" -> W1063002(t, mode, sel)
    [] n = "N1012100" -> W1012100(t, mode, sel)
    [] n = "N1032001" -> W1032001(t, mode, sel)
    [] n = "N1022000" -> W1022000(t, mode, sel)
    [] n = "N1090000" -> W1090000(t, mode, sel)
    [] n = "N1072001" -> W1072001(t, mode, sel)
    [] n = "N1072000" -> W1072000(t, mode, sel)
    [] n = "N1072004" -> W1072004(t, mode, sel)
    [] n = "N1072005" -> W1072005(t, mode, sel)
    [] n = "N2020008" -> W2020008(t, mode, sel)
    [] n = "N2081100" -> W2081100(t, mode, sel)
    [] n = "N2081300" -> W2081300(t, mode, sel)
    [] n = "N2081400" -> W2081400(t, mode, sel)
    [] n = "N2102002" -> W2102002(t, mode, sel)
    [] n = "N2012000" -> W2012000(t, mode, sel)
    [] n = "N2082000" -> W2082000(t, mode, sel)
    [] n = "N2040000" -> W2040000(t, mode, sel)
    [] n = "N2020005" -> W2020005(t, mode, sel)
    [] n = "N2081000" -> W2081000(t, mode, sel)
    [] n = "N1002100" -> W1002100(t, mode, sel)
    [] n = "N1052006" -> W1052006(t, mode, sel)
    [] n = "N2032001" -> W2032001(t, mode, sel)
    [] n = "N1012005" -> W1012005(t, mode, sel)
    [] n = "N1032100" -> W1032100(t, mode, sel)
    [] n = "N2040050" -> W2040050(t, mode, sel)
    [] n = "N9120010" -> W9120010(t, mode, sel)
    [] n = "N9209000" -> W9209000(t, mode, sel)
    [] n = "N9201005" -> W9201005(t, mode, sel)
    [] n = "N9201006" -> W9201006(t, mode, sel)
    [] n = "N9201007" -> W9201007(t, mode, sel)
    [] n = "N9201013" -> W9201013(t, mode, sel)
    [] n = "N9201014" -> W9201014(t, mode, sel)
    [] n = "N9201021" -> W9201021(t, mode, sel)
    [] n = "N9201022" -> W9201022(t, mode, sel)
    [] n = "N9201049" -> W9201049(t, mode, sel)
    [] n = "N9120013" -> W9120013(t, mode, sel)
=============================================================================
