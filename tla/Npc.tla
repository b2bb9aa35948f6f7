-------------------------------- MODULE Npc --------------------------------
(***************************************************************************)
(* One player's conversations with one NPC.  NPCTalkHandler opens one,     *)
(* NPCMoreTalkHandler hands each answer to the script, and between two     *)
(* answers the player's other packets go on changing the inventory the     *)
(* script looked at: nothing in ItemMoveHandler, MesoDropHandler or        *)
(* ItemPickupHandler asks whether a conversation is open.                  *)
(***************************************************************************)
EXTENDS World1Talks

VARIABLES
  world,    \* the world of the client's channel
  npc,      \* the script of the NPC
  t         \* the client's conversation and what it is about:
            \*   open, window   an entry of cms; the answers on offer
            \*   g              the script's variables
            \*   has, room      the inventory: wares; room for one more
            \*   level, job     the player's
            \*   place, party   the map, and the player's part in a party
            \*   begun, ended   quests
            \*   gm             a game master
            \*   look, map      what this conversation changed
            \*   paid, owed     wares taken; the price of what was given
            \*   got, full      something given; something that had no room
            \*   lost, halt     the making failed; how the script broke off
vars == <<world, npc, t>>

Salon    == OwnSalons \cup DOMAIN SalonOf
Smithy   == DOMAIN SmithOf
Gachapon == DOMAIN GachaponOf
Scripts  == Salon \cup Smithy \cup Gachapon
            \cup JourneyScripts \cup PassageScripts \cup InstructorScripts
            \cup VendorScripts

(***************************************************************************)
(* What a script looks at; the rest of the player is left alone.  Salons   *)
(* and passages never want two of a ware.                                  *)
(***************************************************************************)
Wanted(n) ==
  CASE n \in Smithy -> {"meso", "ore", "extra", "stimulator"}
    [] n \in Gachapon -> {"ticket", "remote", "goods"}
    [] n \in Salon -> {"meso", "regular", "special"}
    [] n \in JourneyScripts -> {"meso", "ticket"}
    [] n \in PassageScripts -> {"token", "extra"}
    [] n \in InstructorScripts -> {"token", "proof"}
    [] n = "N1032100" -> {"meso", "ore", "extra", "stray"}
    [] n \in {"N9201005", "N9201006"} -> {"goods", "token"}
    [] n = "N9201007" -> {"goods", "token", "proof"}
    [] n = "N9201013" -> {"proof", "ticket"}
    [] n = "N9201014" -> {"ore", "extra"}
    [] n = "N9201049" -> {"proof", "goods"}
    [] n = "N9120013" -> {"extra", "proof"}
    [] OTHER -> {"meso", "ore", "extra"}
UpTo(n) == IF n \in Smithy \cup {"N1002100", "N2032001"} THEN Most ELSE 1

AsksRoom  == Salon \cup Smithy \cup Gachapon \cup InstructorScripts \cup VendorScripts
             \cup {"N2081005", "N9000012", "N1092000", "N9201043", "N1043000", "N1043001",
                   "N1052008", "N1052009", "N1052010", "N1063000", "N1063001", "N1063002"}
AsksLevel == InstructorScripts
             \cup {"N1032003", "N2081005", "N22000", "N9010022", "N2030000", "N2101018",
                   "N1032100"}
AsksPlace == {"N9000020", "N1012113", "N9201056", "N1072000", "N9201022"}
AsksQuest == {"N9201039", "N2040002", "N1061006", "N1092000", "N2040028", "N1043000",
              "N1043001", "N1052008", "N1052009", "N1052010", "N1063000", "N1063001",
              "N1063002", "N1052006", "N9120013"}
AsksEnded == {"N9201039", "N2020005", "N1002100", "N1052006", "N2032001"}

-----------------------------------------------------------------------------
(***************************************************************************)
(* NPCScriptManager evaluates the script of the NPC's id and calls its     *)
(* start function, which for most is action(1, 0, 0); later its action     *)
(* function.  luck is what Math.random decides.                            *)
(***************************************************************************)
SalonsOf(w)    == IF w = 0 THEN SalonOf ELSE SalonOf1
SmithsOf(w)    == IF w = 0 THEN SmithOf ELSE SmithOf1
GachaponsOf(w) == IF w = 0 THEN GachaponOf ELSE GachaponOf1

TalkOps(n, s, mode, sel) ==
  CASE world = 1 -> Talk1(n, s, mode, sel)
    [] world = 0 /\ n \in JourneyScripts -> JourneyOps(n, s, mode, sel)
    [] world = 0 /\ n \in PassageScripts -> PassageOps(n, s, mode, sel)
    [] world = 0 /\ n \in InstructorScripts -> InstructorOps(n, s, mode, sel)
    [] OTHER -> VendorOps(n, s, mode, sel)

StartOps(n, s) ==
  CASE n \in DOMAIN SalonOf -> SalonStart(SalonsOf(world)[n])
    [] n \in OwnSalons -> IF world = 0 THEN OwnStart(n, s) ELSE Start1(n, s)
    [] n \in Smithy -> SmithStart(SmithsOf(world)[n])
    [] n \in Gachapon -> GachaponStart(GachaponsOf(world)[n].town, s)
    [] OTHER -> TalkOps(n, s, Opening, -1)

PageOps(n, s, mode, sel, luck) ==
  CASE n \in DOMAIN SalonOf -> SalonPage(SalonsOf(world)[n], s, mode, sel)
    [] n \in OwnSalons ->
         IF world = 0 THEN OwnPage(n, s, mode, sel) ELSE Page1(n, s, mode, sel)
    [] n \in Smithy -> SmithPage(SmithsOf(world)[n], s, mode, sel, luck)
    [] n \in Gachapon -> GachaponPage(GachaponsOf(world)[n].town, s, mode, sel)
    [] OTHER -> TalkOps(n, s, mode, sel)

-----------------------------------------------------------------------------
(* What a conversation has done so far: nothing.                           *)
Untouched == [open |-> FALSE, window |-> NoWindow, g |-> Fresh,
              look |-> "own", map |-> "here",
              paid |-> {}, owed |-> {}, got |-> FALSE, full |-> FALSE,
              lost |-> FALSE, halt |-> "no"]

(* The fields of u, and those of s that u has not got. *)
Over(u, s) == [f \in DOMAIN u \cup DOMAIN s |-> IF f \in DOMAIN u THEN u[f] ELSE s[f]]

If(set, n, free, fixed) == IF n \in set THEN free ELSE {fixed}

Init ==
  /\ world \in {0, 1}
  /\ npc \in Scripts
  /\ \E has \in [Wanted(npc) -> 0 .. UpTo(npc)],
        room \in If(AsksRoom, npc, BOOLEAN, TRUE),
        level \in If(AsksLevel, npc, 0 .. 2, 0),
        job \in If(InstructorScripts, npc, {"beginner", "first", "other"}, "beginner"),
        place \in If(AsksPlace, npc, 1 .. 2, 1),
        party \in If({"N1012113", "N1012114"}, npc, {"none", "leader", "member"}, "none"),
        begun \in If(AsksQuest, npc, {{}, {"a"}}, {}),
        ended \in If(AsksEnded, npc, {{}, {"a"}}, {}),
        gm \in If({"N9900000", "N2101018"}, npc, BOOLEAN, FALSE) :
       t = Over(Untouched,
             [has |-> [x \in Wares |-> IF x \in Wanted(npc) THEN has[x] ELSE 0],
              room |-> room, level |-> level, job |-> job, place |-> place, party |-> party,
              begun |-> begun, ended |-> ended, gm |-> gm])

(* NPCTalkHandler.handlePacket: a client that has a conversation is turned *)
(* away.  NPCScriptManager.start answers every exception of the script by  *)
(* a notice and disposes of the conversation.                              *)
Talk ==
  LET s == [Over(Untouched, t) EXCEPT !.open = TRUE]
      r == RunScript(s, StartOps(npc, s))
  IN  /\ ~t.open
      /\ t' = IF r.halt \in {"failed", "thrown"} THEN Disposed(r) ELSE r
      /\ UNCHANGED <<world, npc>>

(* NPCMoreTalkHandler.handlePacket: the script is given the mode and the   *)
(* selection.  NPCScriptManager.action catches the script's own errors; an *)
(* exception of the code it called goes through, and nothing disposes of   *)
(* the conversation.                                                       *)
Answer(a) ==
  /\ t.open /\ a \in t.window
  /\ \E luck \in BOOLEAN :
       LET s == [t EXCEPT !.window = NoWindow]
           r == RunScript(s, PageOps(npc, s, a[1], a[2], luck))
       IN  t' = IF r.halt = "failed" THEN Disposed(r) ELSE r
  /\ UNCHANGED <<world, npc>>

(* Between two answers: an item or mesos dropped, picked up, slots filled  *)
(* or freed.                                                               *)
DropWare(x) ==
  /\ t.open /\ t.window # NoWindow /\ t.has[x] > 0
  /\ t' = [t EXCEPT !.has[x] = @ - 1]
  /\ UNCHANGED <<world, npc>>
PickUp(x) ==
  /\ t.open /\ t.window # NoWindow /\ t.has[x] < UpTo(npc)
  /\ t' = [t EXCEPT !.has[x] = @ + 1]
  /\ UNCHANGED <<world, npc>>
Rearrange ==
  /\ npc \in AsksRoom
  /\ t.open /\ t.window # NoWindow
  /\ t' = [t EXCEPT !.room = ~@]
  /\ UNCHANGED <<world, npc>>

(* What else ends a conversation: a start by another handler, which finds  *)
(* cms taken and disposes of it; the command "dispose"; the disconnect. A  *)
(* script that does not return keeps the session's thread.                 *)
Interrupt ==
  /\ t.open /\ t.halt # "hung"
  /\ t' = Disposed(t)
  /\ UNCHANGED <<world, npc>>

Next ==
  \/ Talk
  \/ \E a \in t.window : Answer(a)
  \/ \E x \in Wanted(npc) : DropWare(x) \/ PickUp(x)
  \/ Rearrange
  \/ Interrupt

Spec == Init /\ [][Next]_vars

-----------------------------------------------------------------------------
(***************************************************************************)
(* Properties.  A property that most scripts keep names, with the reason,  *)
(* the scripts that do not keep it.                                        *)
(***************************************************************************)
(* What the variables range over; no script takes more than there is.  A   *)
(* selection is an entry of a menu or a number to make.                    *)
TypeOK ==
  /\ world \in {0, 1} /\ npc \in Scripts
  /\ t.open \in BOOLEAN /\ t.window \subseteq (-1 .. 1) \X ((-1 .. 27) \cup {Most})
  /\ t.g \in [status : -2 .. 30, pick : -1 .. 27, item : -1 .. 4, qty : 1 .. Most]
  /\ t.has \in [Wares -> 0 .. Most] /\ t.room \in BOOLEAN
  /\ t.level \in 0 .. 2 /\ t.job \in {"beginner", "first", "second", "other", "lost"}
  /\ t.begun \cup t.ended \subseteq {"a"} /\ t.look \in Looks /\ t.map \in STRING
  /\ t.paid \cup t.owed \subseteq Wares /\ {t.got, t.full, t.lost} \subseteq BOOLEAN
  /\ t.halt \in {"no", "failed", "thrown", "hung"}

(* A client with an open conversation can talk to no NPC, and only an      *)
(* answer leads out of it.  So a script that returned has shown a window   *)
(* or disposed of the conversation, except for those with a page missing:  *)
(* for a refusal, for the first page when the player comes back to it,     *)
(* after the last one, or because status was counted wrongly.  (After an   *)
(* exception of the code a script called nothing leads out at all.)        *)
Forgetful ==
  {"N2012008", "N2090100", "N9201064", "N9201065", "N9201069", "N9201070", \* page 0
   "N1061006", "N2030000", "N2091006", "N9120013", "N1002002",             \* a refusal
   "N9200102", "N9201017", "N9201018", "N9201019", "N9201014",             \* the last page
   "N1012005", "N1012114", "N1032005", "N1092000", "N1100003", "N2012022",
   "N2032003", "N1012100", "N1022000", "N1032001"}                         \* status
  \cup Gachapon                                                            \* a refusal
Answerable == t.open /\ t.halt = "no" => t.window # NoWindow \/ npc \in Forgetful

(* Whatever the player is given has been paid for, although the purse and  *)
(* the bag may have changed between the page that looked and the page that *)
(* takes.  The smiths but one tell a poor customer so and go on; a meso    *)
(* fare is not asked for, not taken, or looked at one page too early; a    *)
(* loop runs over the wrong items; goods come before the price is taken.   *)
Unpaid(n) ==
  CASE n \in Smithy \ {"N1012002"} -> {"meso"}
    [] n \in {"N1012000", "N1022001", "N1032000", "N1052016", "N1092014", "N2023000",
              "N2060009", "N2110005", "N22000", "N9000012", "N9000020", "N9120003"} -> {"meso"}
    [] n = "N1002002" -> {"ticket"}
    [] n \in {"N1072004", "N1072005"} -> {"token"}
    [] n \in {"N1032100", "N9201014", "N9209000"} -> {"ore", "extra"}
    [] OTHER -> {}
PaidInFull == t.got => t.owed \subseteq t.paid \cup Unpaid(npc)

(* And who has paid gets something, unless his bag is full or the making   *)
(* failed: the smiths take what there is of materials that are missing,    *)
(* two takers give nothing back, and a quiz is paid for before it begins.  *)
TakesOnly == (Smithy \ {"N1012002"}) \cup {"N1032100", "N9120013", "N9201021"}
NotForNothing ==
  t.paid # {} /\ ~t.open => t.got \/ t.full \/ t.lost \/ npc \in TakesOnly

(* A script that is broken off has not begun to take or to give, except    *)
(* where it takes what it has not looked for on the same page, or where an *)
(* announcement or a missing function comes last.                          *)
BreaksOff == (Smithy \ {"N1012002"}) \cup Gachapon
             \cup {"N1012114", "N1022000", "N1032100", "N1072004", "N1072005", "N9201014",
                   "N9209000"}
Whole == t.halt # "no" => (t.paid = {} /\ ~t.got) \/ npc \in BreaksOff

(* The player gets the style, the place and the job the window showed:     *)
(* also after going back a page, and for an entry refused or never chosen. *)
Careless == {"N2012007", "N2012008", "N9900000", "N1061100", "N2090005", "N1012100",
             "N1022000", "N1032001"}
AsShown ==
  (t.look = "wrong" \/ t.map = "wrong" \/ t.job = "lost") => npc \in Careless

(* A refusal and the end of the chat leave the player as he is: no ware,   *)
(* map, look or job changes.  Some exits take any answer for a yes, and    *)
(* the way back through the instructors' pages passes what they do.        *)
AnyAnswer == {"N1002004", "N1103005", "N2001002", "N2001003", "N2101018", "N9000010",
              "N1012100", "N1022000", "N1032001"}
Person(s) == <<s.has, s.map, s.look, s.job>>
NoMeansNo ==
  [][\A a \in t.window :
       a[1] < 1 /\ npc \notin AnyAnswer /\ Answer(a) => Person(t') = Person(t)]_vars

(* One conversation gives once: after that no answer adds to the bag, on   *)
(* whichever page the script is left open.  The instructors' letter is     *)
(* written again when the player goes back and forth.                      *)
GivesOnce ==
  [][\A a \in t.window :
       t.got /\ npc \notin {"N1012100", "N1022000", "N1032001"} /\ Answer(a)
         => \A x \in Wares : t'.has[x] <= t.has[x]]_vars
=============================================================================
