------------------------------- MODULE Salons -------------------------------
(***************************************************************************)
(* The hair, face, lens and skin salons: scripts that sell coupons and     *)
(* change the player's looks against one.  Most of them are one of two     *)
(* shapes, filled in by a record each; the others have pages of their own. *)
(* The lists of styles and the texts are left out: a look is one the       *)
(* player chose from the window, one drawn from the list, or a wrong one.  *)
(***************************************************************************)
EXTENDS Conversation

(* What an entry of the menu leads to.                                     *)
Shop(a, b)  == [kind |-> "shop", sells |-> <<a, b>>]
Buy(c)      == [kind |-> "buy", sells |-> c]
Chosen(c)   == [kind |-> "wear", ask |-> Style, coupon |-> c, look |-> "chosen"]
Drawn(c)    == [kind |-> "wear", ask |-> YesNo, coupon |-> c, look |-> "drawn"]
WrongChosen(c) == [Chosen(c) EXCEPT !.look = "wrong"]
WrongDrawn(c)  == [Drawn(c) EXCEPT !.look = "wrong"]

(* A parlour has a shop of two coupons and a treatment for each; a clinic  *)
(* sells its one coupon from the menu.                                     *)
Parlour(a, b) == [k \in 0 .. 2 |-> <<Shop("regular", "special"), a, b>>[k + 1]]
Clinic(a)     == [k \in 1 .. 2 |-> <<Buy("regular"), a>>[k]]

(* Paying before the coupon is handed out: gainMeso, then gainItem.        *)
Sale(c) == <<Pay(1), Give(c, 1, {"meso"})>>

(* Mutant: every script does. *)
EndForgotten(s, outcome) == <<>>

(* A script that forgets dispose after an outcome leaves the last window   *)
(* to be answered by a status no page is written for.                      *)
End(s, outcome) == IF outcome \in s.forgets THEN <<>> ELSE <<Dispose>>

SalonMenu(s) == <<Say(Menu(DOMAIN s.menu))>>

(* Opened on the menu: start calls action(1, 0, 0) with status -1, so the  *)
(* menu is page 0; direct: start sends it with status 0, and no page 0 is  *)
(* written.                                                                *)
SalonStart(s) ==
  (IF s.opens = "page" THEN <<Goto(0)>> ELSE <<>>) \o SalonMenu(s)

SalonFirstPage(s, t, sel) ==
  LET e == s.menu[sel] IN
  CASE sel \notin DOMAIN s.menu -> <<>>
    [] e.kind = "shop" -> <<Note("pick", sel), Say(Menu({0, 1}))>>
    [] e.kind = "wear" -> <<Note("pick", sel), Say(e.ask)>>
    [] OTHER -> \* "buy"
         (IF Owns(t, "meso", 1) THEN Sale(e.sells) ELSE <<>>)
         \o <<Say(Ok), Dispose>>

(* The coupon is looked for again when it is used.                         *)
SalonSecondPage(s, t, sel) ==
  LET e == s.menu[t.g.pick] IN
  CASE e.kind = "wear" /\ Owns(t, e.coupon, 1) ->
         <<Take(e.coupon, 1), Wear(e.look, {e.coupon}), Say(Ok)>> \o End(s, "worn")
    [] e.kind = "wear" /\ ~Owns(t, e.coupon, 1) -> <<Say(Ok), Dispose>>
    [] e.kind = "shop" /\ sel \in {0, 1} /\ Owns(t, "meso", 1) ->
         Sale(e.sells[sel + 1]) \o <<Say(Ok)>> \o End(s, "sold")
    [] OTHER -> <<Say(Ok)>> \o End(s, "unsold")

SalonPage(s, t, mode, sel) ==
  LET status == IF s.nav = "back" THEN BackStep(t.g.status, mode)
                ELSE EndStep(t.g.status, mode)
  IN  IF status = Leave THEN <<Dispose>>
      ELSE <<Goto(status)>> \o
           CASE status = 0 /\ s.opens = "page" -> SalonMenu(s)
             [] status = 1 -> SalonFirstPage(s, t, sel)
             [] status = 2 -> SalonSecondPage(s, t, sel)
             [] OTHER -> <<>>

-----------------------------------------------------------------------------
N1012103 == [opens |-> "page", nav |-> "end", forgets |-> {},
             menu |-> Parlour(Chosen("regular"), Chosen("special"))]
N1012104 == [opens |-> "page", nav |-> "back", forgets |-> {},
             menu |-> Parlour(Drawn("regular"), Drawn("special"))]
N1052100 == [opens |-> "page", nav |-> "back", forgets |-> {},
             menu |-> Parlour(Chosen("regular"), Chosen("special"))]
N1052101 == [opens |-> "page", nav |-> "back", forgets |-> {},
             menu |-> Parlour(Drawn("regular"), Drawn("special"))]
N2010001 == [opens |-> "page", nav |-> "back", forgets |-> {},
             menu |-> Parlour(Chosen("regular"), Chosen("special"))]
\* The colours start at a tenth of the hair id: (hair / 10) | 0 is not put back.
N2012007 == [opens |-> "direct", nav |-> "end", forgets |-> {},
             menu |-> Parlour(Drawn("regular"), WrongDrawn("special"))]
N2041007 == [opens |-> "page", nav |-> "back", forgets |-> {},
             menu |-> Parlour(Chosen("regular"), Chosen("special"))]
N2041009 == [opens |-> "page", nav |-> "back", forgets |-> {},
             menu |-> Parlour(Drawn("regular"), Drawn("special"))]
N2090100 == [opens |-> "direct", nav |-> "back", forgets |-> {},
             menu |-> Parlour(Chosen("regular"), Chosen("special"))]
N2090101 == [opens |-> "page", nav |-> "back", forgets |-> {},
             menu |-> Parlour(Drawn("regular"), Drawn("special"))]
N2090103 == [opens |-> "page", nav |-> "back", forgets |-> {},
             menu |-> Parlour(Drawn("regular"), Chosen("special"))]
\* Sells 5152012 and asks for 5152027.
N2090104 == [opens |-> "page", nav |-> "back", forgets |-> {},
             menu |-> [Parlour(Drawn("regular"), Chosen("special")) EXCEPT ![0] = Shop("stray", "special")]]
N9120100 == [opens |-> "page", nav |-> "back", forgets |-> {},
             menu |-> Parlour(Chosen("regular"), Chosen("special"))]
N9120101 == [opens |-> "page", nav |-> "back", forgets |-> {},
             menu |-> Parlour(Chosen("regular"), Chosen("special"))]
N9200100 == [opens |-> "page", nav |-> "back", forgets |-> {},
             menu |-> Parlour(Drawn("regular"), Chosen("special"))]
N9200101 == [opens |-> "page", nav |-> "back", forgets |-> {},
             menu |-> Parlour(Drawn("regular"), Chosen("special"))]
N9200102 == [opens |-> "page", nav |-> "back", forgets |-> {"unsold"},
             menu |-> Parlour(Drawn("regular"), Chosen("special"))]
N9201015 == [opens |-> "page", nav |-> "back", forgets |-> {},
             menu |-> Parlour(Chosen("regular"), Chosen("special"))]
\* The file holds its functions twice.
N9201016 == [opens |-> "page", nav |-> "back", forgets |-> {},
             menu |-> Parlour(Drawn("regular"), Drawn("special"))]
N9201017 == [opens |-> "page", nav |-> "back", forgets |-> {"worn", "unsold"},
             menu |-> Parlour(Drawn("regular"), Chosen("special"))]
N9201063 == [opens |-> "page", nav |-> "back", forgets |-> {},
             menu |-> Parlour(Drawn("regular"), Drawn("special"))]
N9201064 == [opens |-> "direct", nav |-> "back", forgets |-> {},
             menu |-> Parlour(Chosen("regular"), Chosen("special"))]
(* Mutant: counts the styles from one. *)
N1052004FromOne == [opens |-> "page", nav |-> "back", forgets |-> {},
                    menu |-> Clinic(WrongChosen("regular"))]
N1052004 == [opens |-> "page", nav |-> "back", forgets |-> {},
             menu |-> Clinic(Chosen("regular"))]
N1052005 == [opens |-> "page", nav |-> "back", forgets |-> {},
             menu |-> Clinic(Drawn("regular"))]
N2010002 == [opens |-> "page", nav |-> "back", forgets |-> {},
             menu |-> Clinic(Chosen("regular"))]
\* Puts on selection + 1.
N2012008 == [opens |-> "direct", nav |-> "back", forgets |-> {},
             menu |-> Clinic(WrongChosen("regular"))]
N2012009 == [opens |-> "direct", nav |-> "end", forgets |-> {},
             menu |-> Clinic(Drawn("regular"))]
N2040019 == [opens |-> "page", nav |-> "back", forgets |-> {},
             menu |-> Clinic(Drawn("regular"))]
N2041010 == [opens |-> "page", nav |-> "back", forgets |-> {},
             menu |-> Clinic(Chosen("regular"))]
N2041013 == [opens |-> "page", nav |-> "back", forgets |-> {},
             menu |-> Clinic(Chosen("regular"))]
N2090102 == [opens |-> "page", nav |-> "back", forgets |-> {},
             menu |-> Clinic(Chosen("regular"))]
N9201018 == [opens |-> "page", nav |-> "back", forgets |-> {"worn"},
             menu |-> Clinic(Chosen("regular"))]
N9201019 == [opens |-> "page", nav |-> "back", forgets |-> {"worn"},
             menu |-> Clinic(Drawn("regular"))]
N9201061 == [opens |-> "page", nav |-> "back", forgets |-> {},
             menu |-> Clinic(Drawn("regular"))]
N9201062 == [opens |-> "page", nav |-> "back", forgets |-> {},
             menu |-> Clinic(Chosen("regular"))]
N9201065 == [opens |-> "direct", nav |-> "back", forgets |-> {},
             menu |-> Clinic(Chosen("regular"))]
N9201069 == [opens |-> "direct", nav |-> "back", forgets |-> {},
             menu |-> Clinic(Chosen("regular"))]
N9201070 == [opens |-> "direct", nav |-> "back", forgets |-> {},
             menu |-> Clinic(Drawn("regular"))]

SalonOf == [
  N1012103 |-> N1012103, N1012104 |-> N1012104, N1052100 |-> N1052100,
  N1052101 |-> N1052101, N2010001 |-> N2010001, N2012007 |-> N2012007,
  N2041007 |-> N2041007, N2041009 |-> N2041009, N2090100 |-> N2090100,
  N2090101 |-> N2090101, N2090103 |-> N2090103, N2090104 |-> N2090104,
  N9120100 |-> N9120100, N9120101 |-> N9120101, N9200100 |-> N9200100,
  N9200101 |-> N9200101, N9200102 |-> N9200102, N9201015 |-> N9201015,
  N9201016 |-> N9201016, N9201017 |-> N9201017, N9201063 |-> N9201063,
  N9201064 |-> N9201064, N1052004 |-> N1052004, N1052005 |-> N1052005,
  N2010002 |-> N2010002, N2012008 |-> N2012008, N2012009 |-> N2012009,
  N2040019 |-> N2040019, N2041010 |-> N2041010, N2041013 |-> N2041013,
  N2090102 |-> N2090102, N9201018 |-> N9201018, N9201019 |-> N9201019,
  N9201061 |-> N9201061, N9201062 |-> N9201062, N9201065 |-> N9201065,
  N9201069 |-> N9201069, N9201070 |-> N9201070]

-----------------------------------------------------------------------------
(***************************************************************************)
(* Salons with pages of their own: what start and action do, given the     *)
(* status before the answer.                                               *)
(***************************************************************************)
\* The text of the first window names a price the script does not define.
N1012105Start == <<Fail>>

\* One haircut against the quest's free coupon; start looks at the quest and
\* at the coupon.
N9201039Start(t) ==
  IF "a" \in t.ended /\ ~Owns(t, "regular", 1)
    THEN <<Say(More), Dispose>>
    ELSE <<Say(YesNo)>>
N9201039(t, mode) ==
  CASE mode = -1 -> <<Dispose>>
    [] mode = 0 -> <<Say(More), Dispose>>
    [] mode = 1 /\ t.g.status = 0 -> <<Goto(1), Say(More)>>
    [] mode = 1 /\ t.g.status > 0 /\ Owns(t, "regular", 1) ->
         <<Take("regular", 1), Wear("drawn", {"regular"}), Say(NextPrev), Dispose>>
    [] OTHER -> <<Say(More), Dispose>>

\* The first answer always ends it: the test for status 1 comes before the
\* one for the entry chosen.
N9270023Start == <<Say(Menu({2}))>>
N9270023 == <<Dispose>>

\* The menu is sent and the conversation disposed of in the same page.
N9270024Start == <<Say(Menu({2})), Dispose>>

\* Entry 1 and the second skin of the list are the same selection.
N9270025Start == <<Say(Menu({1}))>>
N9270025(t, mode, sel) ==
  CASE mode < 1 -> <<Dispose>>
    [] mode = 1 /\ sel = 1 -> <<Say(Style)>>
    [] mode = 1 /\ sel # 1 /\ Owns(t, "regular", 1) ->
         <<Take("regular", 1), Wear("chosen", {"regular"}), Say(Ok), Dispose>>
    [] OTHER -> <<Say(Ok), Dispose>>

\* Sells nothing; both coupons come from the cash shop.
N9270026Start == <<Say(Menu({1, 2}))>>
N9270026(t, mode, sel) ==
  LET status == EndStep(t.g.status, mode)
      coupon == IF t.g.pick = 1 THEN "regular" ELSE "special"
  IN CASE status = Leave -> <<Dispose>>
       [] status = 1 /\ sel = 1 -> <<Goto(1), Note("pick", 1), Say(YesNo)>>
       [] status = 1 /\ sel # 1 -> <<Goto(1), Note("pick", 2), Say(Style)>>
       [] status = 2 /\ Owns(t, coupon, 1) ->
            <<Take(coupon, 1),
              Wear(IF t.g.pick = 1 THEN "drawn" ELSE "chosen", {coupon}),
              Say(Ok), Dispose>>
       [] OTHER -> <<Say(Ok), Dispose>>

\* "id < gender == 0 ? m : f" is always true: the list of styles is filled
\* until the memory is.
N9270037Start == <<Say(Menu({1, 2}))>>
N9270037(t, mode, sel) ==
  CASE mode < 1 -> <<Dispose>>
    [] mode = 1 /\ sel = 1 -> <<Hang>>
    [] mode = 1 /\ sel = 2 -> <<Goto(t.g.status + 1), Say(YesNo)>>
    [] OTHER -> (IF Owns(t, "special", 1)
                   THEN <<Take("special", 1), Wear("drawn", {"special"})>>
                   ELSE <<>>)
                \o <<Say(Ok), Dispose>>

\* The game masters' stylist wants no coupon.  The colours of entries 2 and 4
\* are added to the present one instead of replacing it.
N9900000Start == <<Say(Menu(0 .. 7))>>
N9900000(t, mode, sel) ==
  CASE mode # 1 \/ ~t.gm -> <<Dispose>>
    [] mode = 1 /\ t.gm /\ t.g.status = 0 /\ sel = 7 -> <<Become("other", {}), Dispose>>
    [] mode = 1 /\ t.gm /\ t.g.status = 0 /\ sel # 7 ->
         <<Goto(1), Note("pick", sel), Say(Style)>>
    [] OTHER -> <<Wear(IF t.g.pick \in {2, 4} THEN "wrong" ELSE "chosen", {}), Dispose>>

(* The script by its name.                                                 *)
OwnSalons == {"N1012105", "N9201039", "N9270023", "N9270024", "N9270025", "N9270026",
              "N9270037", "N9900000"}
OwnStart(n, t) ==
  CASE n = "N1012105" -> N1012105Start
    [] n = "N9201039" -> N9201039Start(t)
    [] n = "N9270023" -> N9270023Start
    [] n = "N9270024" -> N9270024Start
    [] n = "N9270025" -> N9270025Start
    [] n = "N9270026" -> N9270026Start
    [] n = "N9270037" -> N9270037Start
    [] n = "N9900000" -> N9900000Start
OwnPage(n, t, mode, sel) ==
  CASE n = "N9201039" -> N9201039(t, mode)
    [] n = "N9270023" -> N9270023
    [] n = "N9270025" -> N9270025(t, mode, sel)
    [] n = "N9270026" -> N9270026(t, mode, sel)
    [] n = "N9270037" -> N9270037(t, mode, sel)
    [] n = "N9900000" -> N9900000(t, mode, sel)
=============================================================================
