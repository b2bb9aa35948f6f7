---------------------------- MODULE Conversation ----------------------------
(***************************************************************************)
(* What a script of scripts/npc may do to the conversation it is part of   *)
(* and to the player it talks to.  A script is read as a sequence of       *)
(* effects for every answer it can be given: the calls it makes on "cm",   *)
(* in their order.  RunScript carries them out, as NPCScriptManager,       *)
(* NPCConversationManager, AbstractPlayerInteraction and MapleCharacter do:*)
(* a call that throws skips the rest of the script.                        *)
(***************************************************************************)
EXTENDS Integers, Sequences, FiniteSets

(* The things scripts ask for and hand out, one name for every part that   *)
(* plays a role in a script, whatever its item id: enough money for one    *)
(* purchase, coupons, materials, tickets, wares.                           *)
Wares == {"meso", "regular", "special", "stray", "ore", "extra", "stimulator",
          "ticket", "remote", "goods", "token", "proof"}

(* How many of each a player may own.                                      *)
CONSTANT Most
ASSUME MostAssumption == Most \in Nat \ {0}

Looks == {"own", "chosen", "drawn", "wrong"}

-----------------------------------------------------------------------------
(***************************************************************************)
(* Windows.  A window is the set of answers <<mode, selection>> it lets    *)
(* the player give; the selection is -1 when the packet has none.  What    *)
(* the client sends for each kind of window is outside the repository.     *)
(***************************************************************************)
NoWindow   == {}
More       == {<<1, -1>>, <<-1, -1>>}
NextPrev   == {<<1, -1>>, <<0, -1>>, <<-1, -1>>}
Prev       == {<<0, -1>>, <<-1, -1>>}
Ok         == {<<1, -1>>, <<-1, -1>>}
YesNo      == {<<1, -1>>, <<0, -1>>, <<-1, -1>>}
Menu(keys) == {<<1, k>> : k \in keys} \cup {<<0, -1>>}
Style      == Menu({0, 1})
Number     == Menu({1, Most})

-----------------------------------------------------------------------------
(***************************************************************************)
(* The effects of a script.                                                *)
(***************************************************************************)
Say(w)          == [op |-> "say", window |-> w]
Dispose         == [op |-> "dispose"]
Goto(s)         == [op |-> "goto", status |-> s]
Note(f, v)      == [op |-> "note", var |-> f, value |-> v]
Take(x, n)      == [op |-> "take", ware |-> x, n |-> n]
TakeAll(x)      == [op |-> "take all", ware |-> x]
Pay(n)          == [op |-> "pay", n |-> n]
\* Something the player gets for the wares in price.
Give(x, n, price) == [op |-> "give", ware |-> x, n |-> n, price |-> price]
Wear(l, price)    == [op |-> "wear", look |-> l, price |-> price]
Go(m, price)      == [op |-> "go", map |-> m, price |-> price]
Become(j, price)  == [op |-> "become", job |-> j, price |-> price]
\* Experience and the like, which need no room; a quest completed.
Reward(price)      == [op |-> "reward", price |-> price]
CompleteQuest(q, price) == [op |-> "complete", quest |-> q, price |-> price]
\* The script tells that the goods were lost in the making.
Lose            == [op |-> "lose"]
\* An error of the script itself, an exception of the code it calls, a loop
\* that does not end.
Fail            == [op |-> "fail"]
Throw           == [op |-> "throw"]
Hang            == [op |-> "hang"]

(* NPCScriptManager.dispose: the client leaves cms and scripts, and its    *)
(* engine is dropped with the script's variables, so that the next         *)
(* conversation starts afresh.                                             *)
Fresh == [status |-> 0, pick |-> 0, item |-> 0, qty |-> 1]
Disposed(t) == [t EXCEPT !.open = FALSE, !.window = NoWindow, !.g = Fresh]

(* A window sent when the conversation is already disposed of can be       *)
(* answered, but NPCMoreTalkHandler finds no conversation and ignores it.  *)
Said(t, w) == IF t.open THEN [t EXCEPT !.window = w] ELSE t

(* Mutant: what is taken is not compared with what there is. *)
TakenUnseen(t, x, n) == [t EXCEPT !.has[x] = @ - n, !.paid = @ \cup {x}]

(* gainItem with a negative quantity: removeById takes what there is and   *)
(* throws when that was not enough.                                        *)
Taken(t, x, n) ==
  IF t.has[x] >= n
    THEN [t EXCEPT !.has[x] = @ - n, !.paid = @ \cup {x}]
    ELSE [t EXCEPT !.has[x] = 0, !.halt = "thrown"]

(* removeAll takes what there is.                                          *)
AllTaken(t, x) ==
  [t EXCEPT !.has[x] = 0, !.paid = IF t.has[x] > 0 THEN @ \cup {x} ELSE @]

(* gainMeso with a negative amount: a player who has less keeps it all and *)
(* the script is not told.                                                 *)
Paid(t, n) ==
  IF t.has["meso"] >= n
    THEN [t EXCEPT !.has["meso"] = @ - n, !.paid = @ \cup {"meso"}]
    ELSE t

(* gainItem with a positive quantity: without room there is a notice and   *)
(* no item, and the script is not told either.                             *)
Given(t, x, n, price) ==
  IF t.room
    THEN [t EXCEPT !.has[x] = IF @ + n > Most THEN Most ELSE @ + n,
                   !.got = TRUE, !.owed = @ \cup price]
    ELSE [t EXCEPT !.full = TRUE]

Got(t, price) == [t EXCEPT !.got = TRUE, !.owed = @ \cup price]

Do(t, o) ==
  CASE o.op = "say"     -> Said(t, o.window)
    [] o.op = "dispose" -> Disposed(t)
    [] o.op = "goto"    -> [t EXCEPT !.g.status = o.status]
    [] o.op = "note"    -> [t EXCEPT !.g[o.var] = o.value]
    [] o.op = "take"    -> Taken(t, o.ware, o.n)
    [] o.op = "take all" -> AllTaken(t, o.ware)
    [] o.op = "pay"     -> Paid(t, o.n)
    [] o.op = "give"    -> Given(t, o.ware, o.n, o.price)
    [] o.op = "wear"    -> [Got(t, o.price) EXCEPT !.look = o.look]
    [] o.op = "go"      -> [Got(t, o.price) EXCEPT !.map = o.map]
    [] o.op = "become"  -> [Got(t, o.price) EXCEPT !.job = o.job]
    [] o.op = "reward"  -> Got(t, o.price)
    [] o.op = "complete" -> [Got(t, o.price) EXCEPT !.begun = @ \ {o.quest},
                                                    !.ended = @ \cup {o.quest}]
    [] o.op = "lose"    -> [t EXCEPT !.lost = TRUE]
    [] o.op = "fail"    -> [t EXCEPT !.halt = "failed"]
    [] o.op = "throw"   -> [t EXCEPT !.halt = "thrown"]
    [] o.op = "hang"    -> [t EXCEPT !.halt = "hung"]

(* The effects one after the other, up to the first that does not return.  *)
RunScript(t, ops) ==
  LET after[i \in 0 .. Len(ops)] ==
        IF i = 0 THEN t
        ELSE IF after[i - 1].halt # "no" THEN after[i - 1]
        ELSE Do(after[i - 1], ops[i])
  IN  after[Len(ops)]

-----------------------------------------------------------------------------
(***************************************************************************)
(* Steps that many scripts share.                                          *)
(***************************************************************************)
Owns(t, x, n) == t.has[x] >= n

(* "mode == -1" and a refused first page end it, a refused later page goes *)
(* one back: the status before the answer to the status after, or "leave". *)
Leave == -9
BackStep(status, mode) ==
  IF mode = -1 \/ (mode = 0 /\ status = 0) THEN Leave
  ELSE IF mode = 1 THEN status + 1 ELSE status - 1

(* "mode < 1" ends it.                                                     *)
EndStep(status, mode) == IF mode < 1 THEN Leave ELSE status + 1

(* In the scripts written as one definition, start is the answer Opening:  *)
(* a mode no packet carries.                                               *)
Opening == 9

Turn(status, ops) == <<Goto(status)>> \o ops

(* A script that is a row of pages, the first of them opened by start.     *)
(* Forward: a refusal ends it.  BackAndForth: a refusal goes one page back,*)
(* the end of the chat ends it.  A page that is not in the row does nothing*)
(* at all: the conversation stays open.                                    *)
Page(pages, status) ==
  Turn(status, IF status + 1 \in DOMAIN pages THEN pages[status + 1] ELSE <<>>)
Forward(t, mode, pages) ==
  CASE mode = Opening -> Page(pages, 0)
    [] mode < 1 -> <<Dispose>>
    [] OTHER -> Page(pages, t.g.status + 1)
BackAndForth(t, mode, pages) ==
  CASE mode = Opening -> Page(pages, 0)
    [] mode = -1 -> <<Dispose>>
    [] OTHER -> Page(pages, IF mode = 1 THEN t.g.status + 1 ELSE t.g.status - 1)
=============================================================================
