------------------------------- MODULE World1 -------------------------------
(***************************************************************************)
(* NPCScriptManager looks a script up under the number of the client's     *)
(* world.  World 1 has files of its own, and a change to a script has to   *)
(* be made in both; at this commit those below are the same text as those  *)
(* of world 0, so each is the definition it was copied from.               *)
(***************************************************************************)
EXTENDS Salons, Smiths, Gachapons

-----------------------------------------------------------------------------
(* Salons.                                                                 *)
W1012103 == N1012103
W1012104 == N1012104
W1052100 == N1052100
W1052101 == N1052101
W2010001 == N2010001
W2012007 == N2012007
W2041007 == N2041007
W2041009 == N2041009
W2090100 == N2090100
W2090101 == N2090101
W2090103 == N2090103
W2090104 == N2090104
W9120100 == N9120100
W9120101 == N9120101
W9200100 == N9200100
W9200101 == N9200101
W9200102 == N9200102
W9201015 == N9201015
W9201016 == N9201016
W9201017 == N9201017
W9201063 == N9201063
W9201064 == N9201064
W1052004 == N1052004
W1052005 == N1052005
W2010002 == N2010002
W2012008 == N2012008
W2012009 == N2012009
W2040019 == N2040019
W2041010 == N2041010
W2041013 == N2041013
W2090102 == N2090102
W9201018 == N9201018
W9201019 == N9201019
W9201061 == N9201061
W9201062 == N9201062
W9201065 == N9201065
W9201069 == N9201069
W9201070 == N9201070

SalonOf1 == [
  N1012103 |-> W1012103, N1012104 |-> W1012104, N1052100 |-> W1052100,
  N1052101 |-> W1052101, N2010001 |-> W2010001, N2012007 |-> W2012007,
  N2041007 |-> W2041007, N2041009 |-> W2041009, N2090100 |-> W2090100,
  N2090101 |-> W2090101, N2090103 |-> W2090103, N2090104 |-> W2090104,
  N9120100 |-> W9120100, N9120101 |-> W9120101, N9200100 |-> W9200100,
  N9200101 |-> W9200101, N9200102 |-> W9200102, N9201015 |-> W9201015,
  N9201016 |-> W9201016, N9201017 |-> W9201017, N9201063 |-> W9201063,
  N9201064 |-> W9201064, N1052004 |-> W1052004, N1052005 |-> W1052005,
  N2010002 |-> W2010002, N2012008 |-> W2012008, N2012009 |-> W2012009,
  N2040019 |-> W2040019, N2041010 |-> W2041010, N2041013 |-> W2041013,
  N2090102 |-> W2090102, N9201018 |-> W9201018, N9201019 |-> W9201019,
  N9201061 |-> W9201061, N9201062 |-> W9201062, N9201065 |-> W9201065,
  N9201069 |-> W9201069, N9201070 |-> W9201070]

W1012105Start == N1012105Start
W9201039Start(t) == N9201039Start(t)
W9201039(t, mode) == N9201039(t, mode)
W9270023Start == N9270023Start
W9270023 == N9270023
W9270024Start == N9270024Start
W9270025Start == N9270025Start
W9270025(t, mode, sel) == N9270025(t, mode, sel)
W9270026Start == N9270026Start
W9270026(t, mode, sel) == N9270026(t, mode, sel)
W9270037Start == N9270037Start
W9270037(t, mode, sel) == N9270037(t, mode, sel)
W9900000Start == N9900000Start
W9900000(t, mode, sel) == N9900000(t, mode, sel)

Start1(n, t) ==
  CASE n = "N1012105" -> W1012105Start
    [] n = "N9201039" -> W9201039Start(t)
    [] n = "N9270023" -> W9270023Start
    [] n = "N9270024" -> W9270024Start
    [] n = "N9270025" -> W9270025Start
    [] n = "N9270026" -> W9270026Start
    [] n = "N9270037" -> W9270037Start
    [] n = "N9900000" -> W9900000Start
Page1(n, t, mode, sel) ==
  CASE n = "N9201039" -> W9201039(t, mode)
    [] n = "N9270023" -> W9270023
    [] n = "N9270025" -> W9270025(t, mode, sel)
    [] n = "N9270026" -> W9270026(t, mode, sel)
    [] n = "N9270037" -> W9270037(t, mode, sel)
    [] n = "N9900000" -> W9900000(t, mode, sel)

-----------------------------------------------------------------------------
(* Smiths.                                                                 *)
W1012002 == N1012002
W1022003 == N1022003
W1022004 == N1022004
W1032002 == N1032002
W1052002 == N1052002
W1052003 == N1052003
W1061000 == N1061000
W2010003 == N2010003
W2020000 == N2020000
W2020002 == N2020002
W2040016 == N2040016
W2040020 == N2040020
W2040021 == N2040021
W2040022 == N2040022
W2080000 == N2080000

SmithOf1 == [
  N1012002 |-> W1012002, N1022003 |-> W1022003, N1022004 |-> W1022004,
  N1032002 |-> W1032002, N1052002 |-> W1052002, N1052003 |-> W1052003,
  N1061000 |-> W1061000, N2010003 |-> W2010003, N2020000 |-> W2020000,
  N2020002 |-> W2020002, N2040016 |-> W2040016, N2040020 |-> W2040020,
  N2040021 |-> W2040021, N2040022 |-> W2040022, N2080000 |-> W2080000]

-----------------------------------------------------------------------------
(* Gachapons.                                                              *)
W9100100 == N9100100
W9100101 == N9100101
W9100102 == N9100102
W9100103 == N9100103
W9100104 == N9100104
W9100105 == N9100105
W9100106 == N9100106
W9100107 == N9100107
W9100108 == N9100108
W9100109 == N9100109
W9100110 == N9100110
W9100111 == N9100111
W9100112 == N9100112
W9100113 == N9100113
W9100114 == N9100114
W9100117 == N9100117
W9270043 == N9270043

GachaponOf1 == [
  N9100100 |-> W9100100, N9100101 |-> W9100101, N9100102 |-> W9100102,
  N9100103 |-> W9100103, N9100104 |-> W9100104, N9100105 |-> W9100105,
  N9100106 |-> W9100106, N9100107 |-> W9100107, N9100108 |-> W9100108,
  N9100109 |-> W9100109, N9100110 |-> W9100110, N9100111 |-> W9100111,
  N9100112 |-> W9100112, N9100113 |-> W9100113, N9100114 |-> W9100114,
  N9100117 |-> W9100117, N9270043 |-> W9270043]

=============================================================================
