----------------------------- MODULE Gachapons -----------------------------
(***************************************************************************)
(* The gachapons: scripts that take a ticket for one item drawn from a     *)
(* list.  They are the same script with other lists; what tells them apart *)
(* is the entry of processGachapon's table of towns they are looked up in. *)
(***************************************************************************)
EXTENDS Conversation

\* Ten towns; 9100110 to 9100114 and 9270043 lie beyond them.
Towns == 0 .. 9

(* The item is announced to the channel once the ticket is gone: the table *)
(* is indexed by the id of the script, and the item is looked for in the   *)
(* player's inventory, where it is not when there was no room for it.      *)
Announce(town, t) ==
  IF town \in Towns /\ (t.room \/ Owns(t, "goods", 1)) THEN <<>> ELSE <<Throw>>

processGachapon(town, t, remote) ==
  <<Give("goods", 1, {IF remote THEN "remote" ELSE "ticket"})>>
  \o (IF remote THEN <<>> ELSE <<Take("ticket", 1)>>)
  \o <<Say(More)>> \o Announce(town, t)

GachaponStart(town, t) ==
  CASE Owns(t, "remote", 1) ->
         <<Take("remote", 1)>> \o processGachapon(town, t, TRUE) \o <<Dispose>>
    [] ~Owns(t, "remote", 1) /\ Owns(t, "ticket", 1) -> <<Say(YesNo)>>
    [] OTHER -> <<Say(Menu({0, 1}))>>

(* Mutant: the conversation is not disposed of. *)
GachaponPageAgain(town, t, mode, sel) ==
  IF mode = 1 /\ Owns(t, "ticket", 1) THEN processGachapon(town, t, FALSE) ELSE <<Dispose>>

(* A ticket in the bag is used whichever window the answer belongs to; a   *)
(* refusal has no branch.                                                  *)
GachaponPage(town, t, mode, sel) ==
  CASE mode = 1 /\ Owns(t, "ticket", 1) ->
         processGachapon(town, t, FALSE) \o <<Dispose>>
    [] mode = 1 /\ ~Owns(t, "ticket", 1) ->
         LET status == t.g.status + 1 IN
         <<Goto(status)>> \o
         (CASE sel = 0 -> <<Say(More)>>
            [] sel = 1 \/ (sel # 0 /\ status = 2) -> <<Say(More), Dispose>>
            [] OTHER -> <<>>)
    [] OTHER -> <<>>

-----------------------------------------------------------------------------
N9100100 == [town |-> 0]
N9100101 == [town |-> 1]
N9100102 == [town |-> 2]
N9100103 == [town |-> 3]
N9100104 == [town |-> 4]
N9100105 == [town |-> 5]
N9100106 == [town |-> 6]
N9100107 == [town |-> 7]
N9100108 == [town |-> 8]
N9100109 == [town |-> 8]
N9100110 == [town |-> 10]
N9100111 == [town |-> 11]
N9100112 == [town |-> 12]
N9100113 == [town |-> 13]
N9100114 == [town |-> 14]
N9100117 == [town |-> 9]
N9270043 == [town |-> 169943]

GachaponOf == [
  N9100100 |-> N9100100, N9100101 |-> N9100101, N9100102 |-> N9100102,
  N9100103 |-> N9100103, N9100104 |-> N9100104, N9100105 |-> N9100105,
  N9100106 |-> N9100106, N9100107 |-> N9100107, N9100108 |-> N9100108,
  N9100109 |-> N9100109, N9100110 |-> N9100110, N9100111 |-> N9100111,
  N9100112 |-> N9100112, N9100113 |-> N9100113, N9100114 |-> N9100114,
  N9100117 |-> N9100117, N9270043 |-> N9270043]
=============================================================================
