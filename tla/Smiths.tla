------------------------------- MODULE Smiths -------------------------------
(***************************************************************************)
(* The refiners, forgers and shoemakers: scripts that turn materials and a *)
(* fee into goods.  They lead through a menu of trades, a menu of recipes, *)
(* for some trades the number to make, and a confirmation; the last page   *)
(* checks what the player has, takes it and hands the goods over.  A page  *)
(* is numbered as in the scripts that ask for a number.                    *)
(*                                                                         *)
(* Of the recipes only the shape is kept, for the scripts treat the shapes *)
(* differently: "ore" stands for the materials a recipe wants one piece    *)
(* of, "extra" for those it wants several pieces of, both counted in       *)
(* orders of one; a bare recipe is a number and not an array.              *)
(***************************************************************************)
EXTENDS Conversation

Bare  == [parts |-> <<"extra">>, array |-> FALSE]
Bulk  == [parts |-> <<"extra">>, array |-> TRUE]
Ones  == [parts |-> <<"ore">>, array |-> TRUE]
Mixed == [parts |-> <<"ore", "extra">>, array |-> TRUE]

(* A trade: its recipes, whether it asks for a number (the scripts'        *)
(* variable equip says that it does not), whether it has a price, whether  *)
(* it uses a stimulator.                                                   *)
Trade(recipes) == [kind |-> "work", recipes |-> recipes, counts |-> FALSE,
                   priced |-> TRUE, stimulated |-> FALSE]
Counted(recipes)    == [Trade(recipes) EXCEPT !.counts = TRUE]
Free(e)             == [e EXCEPT !.priced = FALSE]
Stimulated(recipes) == [Trade(recipes) EXCEPT !.stimulated = TRUE]
\* The entry that explains stimulators, the one that asks before the number,
\* and two that end in an error of the script.
Explained  == [kind |-> "tell"]
Offered(e) == [e EXCEPT !.kind = "offer"]
NoTable(recipes) == [Trade(recipes) EXCEPT !.kind = "no table"]
NoMenu     == [kind |-> "no menu"]

-----------------------------------------------------------------------------
(***************************************************************************)
(* The last page.  need says how a script checks the materials:            *)
(*   "times"    for the whole order;                                       *)
(*   "once"     for one piece of it;                                       *)
(*   "barely"   arrays for the whole order, bare recipes for one piece;    *)
(*   "unasked"  a part of which one piece is due is checked; any other one *)
(*              is looked for times the selection, which is -1 here, or by *)
(*              a quantity instead of an id, and is never missed;          *)
(*   "reversed" the same first case, and any other part must be missing;   *)
(*              a bare recipe names a variable that does not exist.        *)
(***************************************************************************)
Missing(s, t, r, x, q) ==
  LET single == x = "ore" /\ q = 1 IN
  CASE s.need = "times"    -> ~Owns(t, x, q)
    [] s.need = "once"     -> ~Owns(t, x, 1)
    [] s.need = "barely"   -> ~Owns(t, x, IF r.array THEN q ELSE 1)
    [] s.need = "unasked"  -> single /\ ~Owns(t, x, 1)
    [] s.need = "reversed" -> IF single THEN ~Owns(t, x, 1) ELSE Owns(t, x, q)

Affords(e, t, q) == ~e.priced \/ Owns(t, "meso", q)

(* The stimulator is not looked at by the loop over the materials, and the *)
(* materials not at all when the fee is missing: complete was set to true  *)
(* before.                                                                 *)
Complete(s, e, r, t, q) ==
  /\ Affords(e, t, q) => \A i \in DOMAIN r.parts : ~Missing(s, t, r, r.parts[i], q)
  /\ e.stimulated => Owns(t, "stimulator", 1)

Materials(r, q) == [i \in DOMAIN r.parts |-> Take(r.parts[i], q)]

Price(e, r) == {r.parts[i] : i \in DOMAIN r.parts}
               \cup (IF e.priced THEN {"meso"} ELSE {})
               \cup (IF e.stimulated THEN {"stimulator"} ELSE {})

(* With a stimulator one try in ten fails; of the other nine one script    *)
(* (s.newItem) names a variable and a function that do not exist.          *)
Goods(s, e, r, q, luck) ==
  CASE ~e.stimulated -> <<Give("goods", q, Price(e, r))>>
    [] e.stimulated /\ ~luck -> <<Take("stimulator", 1), Lose>>
    [] e.stimulated /\ luck /\ s.newItem -> <<Take("stimulator", 1), Fail>>
    [] OTHER -> <<Take("stimulator", 1), Give("goods", 1, Price(e, r))>>

Work(s, e, r, q, luck) ==
  Materials(r, q) \o (IF e.priced THEN <<Pay(q)>> ELSE <<>>)
    \o Goods(s, e, r, q, luck) \o <<Say(Ok)>>

(* Mutant: the bag is looked at when the materials are gone. *)
FinishFullBag(s, t, luck) ==
  LET e == s.menu[t.g.pick]
      r == e.recipes[t.g.item + 1]
      q == t.g.qty
  IN (IF ~Complete(s, e, r, t, q) THEN <<Say(Ok)>>
      ELSE IF ~t.room THEN Materials(r, q) \o <<Say(Ok)>>
      ELSE Work(s, e, r, q, luck)) \o <<Dispose>>

(* Every script but 1012002 says that the fee is missing and goes on.      *)
Finish(s, t, luck) ==
  LET e == s.menu[t.g.pick]
      r == e.recipes[t.g.item + 1]
      q == t.g.qty
  IN (CASE ~Affords(e, t, q) /\ s.stops -> <<Say(Ok)>>
        [] Affords(e, t, q) /\ s.need = "reversed" /\ ~r.array -> <<Fail>>
        [] ~Complete(s, e, r, t, q) -> <<Say(Ok)>>
        [] s.stops /\ ~t.room -> <<Say(Ok)>>
        [] OTHER -> Work(s, e, r, q, luck)) \o <<Dispose>>

-----------------------------------------------------------------------------
(***************************************************************************)
(* The pages before it.                                                    *)
(***************************************************************************)
SmithStart(s) == <<Goto(0), Say(Menu(DOMAIN s.menu))>>

Recipes(e) == Menu(0 .. Len(e.recipes) - 1)

(* A trade that asks for no number skips that page.                        *)
TradePage(s, sel) ==
  LET e == s.menu[sel] IN
  CASE e.kind = "tell" -> <<Say(More), Dispose>>
    [] e.kind = "no menu" -> <<Fail>>
    [] e.kind = "offer" -> <<Goto(1), Note("pick", sel), Note("item", 0), Say(YesNo)>>
    [] OTHER -> <<Goto(IF e.counts THEN 1 ELSE 2), Note("pick", sel), Say(Recipes(e))>>

NumberPage(s, t, sel) ==
  <<Goto(2)>> \o (IF s.menu[t.g.pick].kind = "offer" THEN <<>> ELSE <<Note("item", sel)>>)
  \o <<Say(Number)>>

ConfirmPage(s, t, sel) ==
  LET e == s.menu[t.g.pick] IN
  <<Goto(3)>> \o
  CASE e.kind = "no table" -> <<Fail>>
    [] e.kind # "no table" /\ e.counts -> <<Note("qty", sel), Say(YesNo)>>
    [] OTHER -> <<Note("item", sel), Note("qty", 1), Say(YesNo)>>

SmithPage(s, t, mode, sel, luck) ==
  CASE mode # 1 -> <<Dispose>>
    [] mode = 1 /\ t.g.status = 0 -> TradePage(s, sel)
    [] mode = 1 /\ t.g.status = 1 -> NumberPage(s, t, sel)
    [] mode = 1 /\ t.g.status = 2 -> ConfirmPage(s, t, sel)
    [] OTHER -> Finish(s, t, luck)

-----------------------------------------------------------------------------
(***************************************************************************)
(* The scripts.                                                            *)
(***************************************************************************)
Smith(need, menu) == [need |-> need, stops |-> FALSE, newItem |-> FALSE, menu |-> menu]

Listed(es) == [k \in 0 .. Len(es) - 1 |-> es[k + 1]]

\* Equipment is made from itemSet, which the script calls items; the menu of
\* arrows runs over a list that is called items too.
N1012002 == [Smith("once", Listed(<<NoTable(<<Mixed>>), NoTable(<<Mixed>>), NoTable(<<Mixed>>),
                                    NoTable(<<Mixed>>), Free(Counted(<<Bare, Ones>>)), NoMenu>>))
             EXCEPT !.stops = TRUE]
N1022003 == Smith("unasked", Listed(<<Counted(<<Bare>>), Counted(<<Bare>>),
                                      Trade(<<Ones, Mixed>>), Trade(<<Mixed>>)>>))
N1022004 == Smith("barely", Listed(<<Trade(<<Mixed, Bare, Bulk>>), Trade(<<Ones, Mixed>>),
                                     Free(Counted(<<Bare, Ones>>))>>))
N1032002 == Smith("times", Listed(<<Trade(<<Bare, Mixed, Bulk>>), Trade(<<Ones, Mixed>>),
                                    Trade(<<Mixed>>), Trade(<<Bare, Bulk, Mixed>>),
                                    Trade(<<Bare, Mixed>>)>>))
N1052002 == Smith("unasked", Listed(<<Trade(<<Bare, Bulk, Mixed>>), Trade(<<Ones, Mixed>>),
                                      Trade(<<Mixed, Bulk>>), Trade(<<Ones, Mixed>>),
                                      Free(Counted(<<Bare, Ones>>))>>))
N1052003 == Smith("unasked", Listed(<<Counted(<<Bare>>), Counted(<<Bare>>),
                                      Offered(Counted(<<Bare>>)), Trade(<<Mixed>>)>>))
N1061000 == Smith("unasked", Listed(<<Trade(<<Mixed, Bulk>>), Trade(<<Bulk, Mixed>>),
                                      Trade(<<Mixed, Bulk>>), Trade(<<Mixed, Bulk>>)>>))
N2010003 == Smith("times", Listed(<<Trade(<<Bulk, Mixed>>), Trade(<<Bulk, Mixed>>),
                                    Trade(<<Bulk, Mixed>>), Trade(<<Bulk, Mixed>>)>>))
N2020000 == Smith("unasked", Listed(<<Counted(<<Bare>>), Counted(<<Bare>>), Counted(<<Ones>>),
                                      Counted(<<Bare>>), Free(Counted(<<Bare, Ones>>)),
                                      Free(Trade(<<Ones, Mixed>>))>>))
N2020002 == Smith("times", Listed(<<Trade(<<Mixed, Bulk>>), Trade(<<Mixed, Bulk>>),
                                    Trade(<<Mixed, Bulk>>), Trade(<<Mixed, Bulk>>)>>))
N2040016 == Smith("reversed", Listed(<<Counted(<<Bare>>), Counted(<<Bare>>), Counted(<<Ones>>),
                                       Counted(<<Bare>>), Free(Counted(<<Bare, Ones>>)),
                                       Free(Trade(<<Ones, Mixed>>))>>))
N2040020 == [Smith("unasked", Listed(<<Explained, Trade(<<Bulk>>), Trade(<<Mixed>>),
                                       Trade(<<Mixed, Bulk>>), Trade(<<Bulk, Mixed>>),
                                       Stimulated(<<Ones, Mixed>>), Stimulated(<<Mixed, Ones>>),
                                       Stimulated(<<Mixed, Ones>>), Stimulated(<<Mixed, Ones>>)>>))
             EXCEPT !.newItem = TRUE]
N2040021 == Smith("times", Listed(<<Explained, Trade(<<Bulk, Mixed>>), Trade(<<Bulk, Mixed>>),
                                    Trade(<<Bulk, Mixed>>), Trade(<<Bulk, Mixed>>),
                                    Stimulated(<<Bulk, Mixed>>), Stimulated(<<Bulk, Mixed>>),
                                    Stimulated(<<Bulk, Mixed>>), Stimulated(<<Bulk, Mixed>>)>>))
N2040022 == Smith("unasked", Listed(<<Explained, Trade(<<Mixed>>), Trade(<<Mixed>>),
                                      Trade(<<Mixed>>), Trade(<<Mixed>>),
                                      Stimulated(<<Mixed>>), Stimulated(<<Mixed>>),
                                      Stimulated(<<Mixed>>), Stimulated(<<Mixed, Ones>>)>>))
N2080000 == Smith("unasked", Listed(<<Explained, Trade(<<Mixed>>), Trade(<<Mixed>>),
                                      Trade(<<Mixed>>), Trade(<<Mixed>>),
                                      Stimulated(<<Mixed>>), Stimulated(<<Mixed>>),
                                      Stimulated(<<Mixed>>), Stimulated(<<Mixed>>)>>))

SmithOf == [
  N1012002 |-> N1012002, N1022003 |-> N1022003, N1022004 |-> N1022004,
  N1032002 |-> N1032002, N1052002 |-> N1052002, N1052003 |-> N1052003,
  N1061000 |-> N1061000, N2010003 |-> N2010003, N2020000 |-> N2020000,
  N2020002 |-> N2020002, N2040016 |-> N2040016, N2040020 |-> N2040020,
  N2040021 |-> N2040021, N2040022 |-> N2040022, N2080000 |-> N2080000]
=============================================================================
