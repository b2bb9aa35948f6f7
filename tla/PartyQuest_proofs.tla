-------------------------- MODULE PartyQuest_proofs --------------------------
(* What the party quest of Kerning City keeps, for any number of players,    *)
(* parties, instances, stages and changes.                                   *)
EXTENDS PartyQuest, TLAPS

(* A registered player is on the list of his instance, and not in town. *)
Registered ==
    \A p \in Players, i \in Inst :
        eim[p] = i /\ Live(i) => p \in chars[i] /\ at[p] # Kerning

(* A list with someone on it has its timeOut to come, and so has the one     *)
(* that is being filled, which has no null yet, by one talk.                 *)
Timed ==
    /\ \A i \in Inst : Live(i) /\ chars[i] # {} => i \in armed
    /\ \A p \in Players : start[p] # Null =>
        /\ phase[start[p].inst] # "unused"
        /\ Live(start[p].inst) => start[p].inst \in armed
        /\ Null \notin chars[start[p].inst]
    /\ \A p, q \in Players :
        start[p] # Null /\ start[q] # Null /\ start[p].inst = start[q].inst => p = q

(* Who is in an instance, or about to be taken into it, has no other one. *)
OneInstance ==
    /\ \A p \in Players, i \in Inst : Inside(p, i) => eim[p] \in {i, Null}
    /\ \A p \in Players : via[p] # Null =>
        /\ at[p] # Kerning
        /\ eim[p] \in {via[p].inst, Null}
        /\ phase[via[p].inst] # "unused"
        /\ p \in chars[via[p].inst] => Live(via[p].inst)

(* Where a portal or a prize is about to take a player, and where a prize is *)
(* shown, the stages before are cleared.                                     *)
WayCleared ==
    \A p \in Players :
        /\ via[p] # Null /\ <<p, via[p].inst>> \notin strayed =>
            \A k \in Stages : k < via[p].stage => k \in cleared[via[p].inst]
        /\ page[p] # Null /\ <<p, page[p].inst>> \notin strayed =>
            \A k \in Stages : k < page[p].stage => k \in cleared[page[p].inst]

(* Nobody has to do with an instance that is not made yet. *)
UnusedEmpty ==
    \A i \in Inst : phase[i] = "unused" =>
        chars[i] = {} /\ \A p \in Players : ~Inside(p, i) /\ eim[p] # i

IInv == TypeOK /\ StageOrder /\ InsideIsListed /\ TimeWillBeUp
        /\ Registered /\ Timed /\ OneInstance /\ WayCleared /\ UnusedEmpty

(* The places as the proofs use them. *)
LEMMA StageFacts ==
    ASSUME NEW i \in Inst, NEW k \in 1..Bonus
    PROVE  /\ Stage(i, k).inst = i /\ Stage(i, k).stage = k
           /\ Stage(i, k) \in Rooms
BY DEF Stage, Rooms

LEMMA OutsideFacts ==
    /\ \A x \in {Kerning, Away, Exit, Copy, Off} : x.inst = Null /\ x.stage = 0
    /\ Kerning \notin {Away, Exit, Copy, Off}
BY DEF Kerning, Away, Exit, Copy, Off, Outside

LEMMA PlaceFacts ==
    /\ \A i \in Inst, k \in 1..Bonus :
        Stage(i, k).inst = i /\ Stage(i, k).stage = k /\ Stage(i, k) \in Rooms
    /\ \A x \in {Kerning, Away, Exit, Copy, Off} :
        x.inst = Null /\ x.stage = 0 /\ x \in Places /\ x \notin Rooms
    /\ \A x \in Rooms : x.inst \in Inst /\ x.stage \in 1..Bonus /\ x \in Places
    /\ \A x \in Places : x.inst = Null \/ x \in Rooms
    /\ Kerning \notin {Away, Exit, Copy, Off}
    /\ Null \notin Inst
<1>1. Null \notin Inst
  BY NullAssumption
<1>2. \A x \in Rooms : x.inst \in Inst /\ x.stage \in 1..Bonus
  BY DEF Rooms, Stage
<1>3. \A x \in {Kerning, Away, Exit, Copy, Off} : x.inst = Null /\ x.stage = 0
  BY OutsideFacts
<1>4. \A x \in {Kerning, Away, Exit, Copy, Off} : x \notin Rooms
  BY <1>1, <1>2, <1>3
<1>5. \A x \in Places : x \in {Kerning, Away, Exit, Copy, Off} \/ x \in Rooms
  BY DEF Places
<1>6. \A x \in {Kerning, Away, Exit, Copy, Off} : x \in Places
  BY DEF Places
<1>7. \A x \in Rooms : x \in Places
  BY DEF Places
<1> QED
  BY <1>1, <1>2, <1>3, <1>4, <1>5, <1>6, <1>7, StageFacts, OutsideFacts

-----------------------------------------------------------------------------
(* What all the ways out have in common: nobody gets in, who loses his place *)
(* on a list is out, and an instance is disposed of when its list is empty.  *)
Leaves ==
    /\ \A q \in Players :
        /\ at'[q] = at[q] \/ at'[q] \in {Kerning, Away, Exit, Copy, Off}
        /\ eim'[q] \in {eim[q], Null}
        /\ at'[q] = Kerning => at[q] = Kerning \/ (eim'[q] = Null /\ via[q] = Null)
        /\ q \in late /\ q \notin late' => at'[q] \notin Rooms
        /\ \A j \in Inst :
            q \in chars[j] /\ q \notin chars'[j] => at'[q] \notin Rooms /\ eim'[q] = Null
    /\ \A j \in Inst :
        /\ \A x : x \in chars'[j] => x \in chars[j]
        /\ \/ phase'[j] = phase[j]
           \/ phase[j] = "live" /\ phase'[j] = "disposed" /\ chars'[j] = {}

(* The talks that register a party go on with the same instance. *)
TalksGoOn ==
    \A q \in Players :
        /\ start'[q] # Null => start[q] # Null /\ start'[q].inst = start[q].inst
        /\ start[q] # Null => start'[q] # Null

LEMMA LeavesKeeps ==
    ASSUME IInv, TypeOK', Leaves, TalksGoOn, UNCHANGED <<cleared, armed, via, strayed>>,
           \A q \in Players : page'[q] \in {page[q], Null}
    PROVE  IInv'
<1>1. ASSUME NEW q \in Players, NEW i \in Inst, Inside(q, i)'
      PROVE  /\ at'[q] = at[q] /\ Inside(q, i) /\ at'[q] \in Rooms
             /\ q \in late => q \in late'
             /\ \A j \in Inst : q \in chars[j] => q \in chars'[j]
  <2>1. at'[q].inst = i
    BY <1>1 DEF Inside
  <2>2. at'[q] \notin {Kerning, Away, Exit, Copy, Off}
    BY <2>1, PlaceFacts
  <2>3. at'[q] = at[q]
    BY <2>2 DEF Leaves
  <2>4. at'[q] \in Places
    BY DEF TypeOK
  <2>5. at'[q] \in Rooms
    BY <2>1, <2>4, PlaceFacts
  <2> QED
    BY <2>1, <2>3, <2>5 DEF Leaves, Inside
<1>2. StageOrder'
  BY <1>1 DEF IInv, StageOrder
<1>3. InsideIsListed'
  BY <1>1 DEF IInv, InsideIsListed, TypeOK
<1>4. TimeWillBeUp'
  BY <1>1 DEF IInv, TimeWillBeUp, InsideIsListed, Leaves, Live
<1>5. Registered'
  BY PlaceFacts DEF IInv, Leaves, TypeOK, Registered, Live
<1>6. Timed'
  <2>1. ASSUME NEW i \in Inst PROVE /\ chars'[i] # {} => chars[i] # {}
                                    /\ Null \in chars'[i] => Null \in chars[i]
                                    /\ phase'[i] = "live" => phase[i] = "live"
                                    /\ phase'[i] = "unused" => phase[i] = "unused"
    BY DEF Leaves
  <2>2. ASSUME NEW q \in Players, start'[q] # Null
        PROVE  start[q] # Null /\ start'[q].inst = start[q].inst /\ start[q].inst \in Inst
    BY <2>2 DEF TalksGoOn, IInv, TypeOK, Walks
  <2> QED
    BY <2>1, <2>2 DEF IInv, Timed, Live
<1>7. OneInstance'
  <2>1. ASSUME NEW q \in Players, via[q] # Null
        PROVE  via[q].inst \in Inst
    BY <2>1, PlaceFacts DEF IInv, TypeOK
  <2>2. ASSUME NEW q \in Players, NEW i \in Inst PROVE
          /\ eim'[q] \in {eim[q], Null}
          /\ q \in chars'[i] => q \in chars[i] /\ (Live(i) => Live(i)')
          /\ phase'[i] = "unused" => phase[i] = "unused"
          /\ at'[q] = Kerning => at[q] = Kerning \/ via[q] = Null
    BY DEF Leaves, Live
  <2> QED
    BY <1>1, <2>1, <2>2 DEF IInv, OneInstance
<1>8. WayCleared'
  BY DEF IInv, WayCleared
<1>9. UnusedEmpty'
  <2>1. ASSUME NEW i \in Inst, phase'[i] = "unused"
        PROVE  phase[i] = "unused" /\ chars'[i] \subseteq chars[i]
    BY <2>1 DEF Leaves
  <2> QED
    BY <1>1, <2>1, PlaceFacts DEF IInv, UnusedEmpty, Leaves
<1> QED
  BY <1>2, <1>3, <1>4, <1>5, <1>6, <1>7, <1>8, <1>9 DEF IInv

(* Who is sent out, and what it does to the lists. *)
LEMMA ExitLeaves ==
    ASSUME IInv, NEW i \in Inst, NEW S \in SUBSET Players, playerExit(S),
           NEW T, chars' = [chars EXCEPT ![i] = T], \A x : x \in T => x \in chars[i],
           \A q \in Players : q \in chars[i] /\ q \notin T => q \in S,
           \/ phase' = phase
           \/ Live(i) /\ phase' = [phase EXCEPT ![i] = "disposed"] /\ T = {}
    PROVE  Leaves
<1>1. ASSUME NEW j \in Inst
      PROVE  /\ \A x : x \in chars'[j] => x \in chars[j]
             /\ \A q \in Players : q \in chars[j] /\ q \notin chars'[j] => q \in S
  BY DEF IInv, TypeOK
<1>2. ASSUME NEW j \in Inst
      PROVE  \/ phase'[j] = phase[j]
             \/ phase[j] = "live" /\ phase'[j] = "disposed" /\ chars'[j] = {}
  BY DEF IInv, TypeOK, Live
<1>3. ASSUME NEW q \in Players
      PROVE  /\ at'[q] = at[q] \/ at'[q] = Exit
             /\ eim'[q] \in {eim[q], Null}
             /\ q \in late /\ q \notin late' => q \in S
             /\ q \in S => at'[q] \in {Exit, Off} /\ eim'[q] = Null
  BY DEF playerExit
<1>4. Exit # Kerning /\ Exit \notin Rooms /\ Off \notin Rooms
  BY PlaceFacts
<1> QED
  BY <1>1, <1>2, <1>3, <1>4 DEF Leaves

LEMMA DisbandLeaves ==
    ASSUME IInv, NEW i \in Inst, Live(i), disbandParty(i)
    PROVE  Leaves
<1>1. chars[i] \ {Null} \in SUBSET Players
  BY DEF IInv, TypeOK
<1>2. phase' = phase \/ phase' = [phase EXCEPT ![i] = "disposed"]
  BY DEF IInv, TypeOK, disbandParty
<1>3. \A q \in Players : q \in chars[i] /\ q \notin {} => q \in chars[i] \ {Null}
  BY NullAssumption
<1>4. playerExit(chars[i] \ {Null}) /\ chars' = [chars EXCEPT ![i] = {}]
  BY DEF disbandParty
<1>5. \A x : x \in {} => x \in chars[i]
  OBVIOUS
<1> QED
  BY <1>1, <1>2, <1>3, <1>4, <1>5, ExitLeaves

LEMMA LeftPartyLeaves ==
    ASSUME IInv, NEW i \in Inst, NEW p \in Players, eim[p] = i, Live(i), leftParty(p, i)
    PROVE  Leaves
BY PlaceFacts, DisbandLeaves, SMTT(60) DEF IInv, TypeOK, Leaves, leftParty, playerExit, Live

LEMMA NothingLeaves == ASSUME IInv, NothingEnds PROVE Leaves
BY DEF IInv, TypeOK, Leaves, NothingEnds

OutTyped ==
    /\ at' \in [Players -> Places]
    /\ eim' \in [Players -> Inst \cup {Null}]
    /\ late' \subseteq Players
    /\ chars' \in [Inst -> SUBSET (Players \cup {Null})]
    /\ phase' \in [Inst -> {"unused", "live", "disposed"}]

LEMMA ExitTyped ==
    ASSUME TypeOK, NEW S, playerExit(S)
    PROVE  /\ at' \in [Players -> Places]
           /\ eim' \in [Players -> Inst \cup {Null}]
           /\ late' \subseteq Players
BY PlaceFacts DEF TypeOK, playerExit

LEMMA DisbandTyped == ASSUME TypeOK, NEW i \in Inst, disbandParty(i) PROVE OutTyped
BY ExitTyped DEF disbandParty, OutTyped, TypeOK

LEMMA LeftPartyTyped ==
    ASSUME TypeOK, NEW i \in Inst, NEW p \in Players, leftParty(p, i) PROVE OutTyped
<1>1. CASE disbandParty(i)
  BY <1>1, DisbandTyped
<1>2. CASE playerExit({p}) /\ chars' = [chars EXCEPT ![i] = @ \ {p}] /\ UNCHANGED phase
  BY <1>2, ExitTyped DEF OutTyped, TypeOK
<1> QED
  BY <1>1, <1>2 DEF leftParty

LEMMA NothingTyped == ASSUME TypeOK, NothingEnds PROVE OutTyped
BY DEF TypeOK, NothingEnds, OutTyped

LEMMA RestartTyped ==
    ASSUME IInv, NEW k \in Parties, start' = Restart(k)
    PROVE  start' \in [Players -> Walks \cup {Null}] /\ TalksGoOn
<1>1. ASSUME NEW q \in Players, start[q] # Null
      PROVE  /\ start[q] \in Walks /\ [start[q] EXCEPT !.stale = TRUE] \in Walks
             /\ [start[q] EXCEPT !.stale = TRUE].inst = start[q].inst
  BY <1>1 DEF IInv, TypeOK, Walks
<1> QED
  BY <1>1, WalkAssumption DEF IInv, TypeOK, TalksGoOn, Restart

LEMMA TimeOutKeeps ==
    ASSUME IInv, NEW i \in Inst, timeOut(i) PROVE IInv'
<1>1. TypeOK'
  BY PlaceFacts, NullAssumption, StageAssumption DEF IInv, TypeOK, Walks, Pages, timeOut,
     playerExit, vars, door, instances, parties, players, Stages, Bonus
<1>2. StageOrder'
  BY PlaceFacts, NullAssumption, StageAssumption DEF IInv, TypeOK, StageOrder,
     WayCleared, Inside, timeOut, playerExit, vars, door, instances, parties,
     players, Stages, Bonus
<1>3. InsideIsListed'
  BY PlaceFacts, NullAssumption, StageAssumption DEF IInv, TypeOK, InsideIsListed,
     Inside, timeOut, playerExit, vars, door, instances, parties, players, Stages, Bonus
<1>4. TimeWillBeUp'
  BY PlaceFacts, NullAssumption, StageAssumption DEF IInv, TypeOK, TimeWillBeUp,
     InsideIsListed, Timed, Walks, Inside, Live, timeOut, playerExit, vars, door,
     instances, parties, players, Stages, Bonus
<1>5. Registered'
  BY PlaceFacts, NullAssumption, StageAssumption DEF IInv, TypeOK, Registered, Timed,
     OneInstance, Walks, Inside, Live, timeOut, playerExit, vars, door, instances,
     parties, players, Stages, Bonus
<1>6. Timed'
  BY PlaceFacts, NullAssumption, StageAssumption DEF IInv, TypeOK, Timed, UnusedEmpty,
     Walks, Live, timeOut, playerExit, vars, door, instances, parties, players, Stages,
     Bonus
<1>7. OneInstance'
  BY PlaceFacts, NullAssumption, StageAssumption DEF IInv, TypeOK, OneInstance,
     Registered, UnusedEmpty, Timed, Walks, Inside, Live, timeOut, playerExit, vars,
     door, instances, parties, players, Stages, Bonus
<1>8. WayCleared'
  BY PlaceFacts, NullAssumption, StageAssumption DEF IInv, TypeOK, WayCleared,
     StageOrder, OneInstance, Inside, timeOut, playerExit, vars, door, instances,
     parties, players, Stages, Bonus
<1>9. UnusedEmpty'
  BY PlaceFacts, NullAssumption, StageAssumption DEF IInv, TypeOK, UnusedEmpty,
     OneInstance, Timed, Walks, Inside, Live, timeOut, playerExit, vars, door,
     instances, parties, players, Stages, Bonus
<1> QED BY <1>1, <1>2, <1>3, <1>4, <1>5, <1>6, <1>7, <1>8, <1>9 DEF IInv

LEMMA LakelisKeeps ==
    ASSUME IInv, NEW p \in Players, NEW i \in Inst, Lakelis(p, i) PROVE IInv'
<1>1. TypeOK'
  BY PlaceFacts, NullAssumption, StageAssumption DEF IInv, TypeOK, Walks, Pages, Lakelis, Idle,
     IsLeader, vars, door, instances, parties, players, Stages, Bonus
<1>2. StageOrder'
  BY PlaceFacts, NullAssumption, StageAssumption DEF IInv, TypeOK, StageOrder,
     WayCleared, Inside, Lakelis, Idle, IsLeader, vars, door, instances, parties,
     players, Stages, Bonus
<1>3. InsideIsListed'
  BY PlaceFacts, NullAssumption, StageAssumption DEF IInv, TypeOK, InsideIsListed,
     Inside, Lakelis, Idle, IsLeader, vars, door, instances, parties, players, Stages,
     Bonus
<1>4. TimeWillBeUp'
  BY PlaceFacts, NullAssumption, StageAssumption DEF IInv, TypeOK, TimeWillBeUp,
     InsideIsListed, Timed, Walks, Inside, Live, Lakelis, Idle, IsLeader, vars, door,
     instances, parties, players, Stages, Bonus
<1>5. Registered'
  BY PlaceFacts, NullAssumption, StageAssumption DEF UnusedEmpty, IInv, TypeOK,
     Registered, Timed, OneInstance, Walks, Inside, Live, Lakelis, Idle, IsLeader, vars,
     door, instances, parties, players, Stages, Bonus
<1>6. Timed'
  BY PlaceFacts, NullAssumption, StageAssumption DEF IInv, TypeOK, Timed, UnusedEmpty,
     Walks, Live, Lakelis, Idle, IsLeader, vars, door, instances, parties, players,
     Stages, Bonus
<1>7. OneInstance'
  BY PlaceFacts, NullAssumption, StageAssumption DEF IInv, TypeOK, OneInstance,
     Registered, UnusedEmpty, Timed, Walks, Inside, Live, Lakelis, Idle, IsLeader, vars,
     door, instances, parties, players, Stages, Bonus
<1>8. WayCleared'
  BY PlaceFacts, NullAssumption, StageAssumption DEF IInv, TypeOK, WayCleared,
     StageOrder, OneInstance, Inside, Lakelis, Idle, IsLeader, vars, door, instances,
     parties, players, Stages, Bonus
<1>9. UnusedEmpty'
  BY PlaceFacts, NullAssumption, StageAssumption DEF IInv, TypeOK, UnusedEmpty,
     OneInstance, Timed, Walks, Inside, Live, Lakelis, Idle, IsLeader, vars, door,
     instances, parties, players, Stages, Bonus
<1> QED BY <1>1, <1>2, <1>3, <1>4, <1>5, <1>6, <1>7, <1>8, <1>9 DEF IInv

LEMMA RegisterPlayerKeeps ==
    ASSUME IInv, NEW p \in Players, NEW q \in Players, registerPlayer(p, q) PROVE IInv'
<1> DEFINE w == start[p]
           i == w.inst
<1>0. /\ w # Null /\ w \in Walks /\ i \in Inst /\ q \in Players /\ q # Null
      /\ Null \notin chars[i] /\ phase[i] # "unused" /\ (Live(i) => i \in armed)
      /\ 1 \in 1..Bonus
  BY NullAssumption, StageAssumption DEF IInv, TypeOK, Timed, registerPlayer, Walks, Bonus
<1>1. CASE at[q] = Kerning /\ Live(i)
  <2>0. /\ chars' = [chars EXCEPT ![i] = @ \cup {q}]
        /\ eim' = [eim EXCEPT ![q] = i]
        /\ at' = [at EXCEPT ![q] = Stage(i, 1)]
        /\ start' = [start EXCEPT ![p].todo = @ \ {q}]
        /\ UNCHANGED <<phase, cleared, armed, via, late, mishap, page, strayed, parties, kpqOpen>>
    BY <1>1 DEF registerPlayer, Throws
  <2>1. /\ start' \in [Players -> Walks \cup {Null}]
        /\ \A r \in Players : start'[r] # Null =>
              start[r] # Null /\ start'[r].inst = start[r].inst
    BY <1>0, <2>0 DEF IInv, TypeOK, Walks
  <2>2. Stage(i, 1).inst = i /\ Stage(i, 1).stage = 1 /\ Stage(i, 1) \in Rooms /\ Stage(i, 1) \in Places
    BY <1>0, PlaceFacts
  <2>3. TypeOK'
    BY <1>0, <2>0, <2>1, <2>2 DEF IInv, TypeOK, parties
  <2>4. StageOrder'
    BY <2>0, <2>2 DEF IInv, TypeOK, StageOrder, Inside, Stages
  <2>5. InsideIsListed'
    BY <1>0, <2>0, <2>2 DEF IInv, TypeOK, InsideIsListed, Inside
  <2>6. TimeWillBeUp'
    BY <1>0, <1>1, <2>0, <2>2 DEF IInv, TypeOK, TimeWillBeUp, Inside, Live
  <2>7. Registered'
    BY <1>0, <2>0, <2>2, PlaceFacts DEF IInv, TypeOK, Registered, Live
  <2>8. Timed'
    BY <1>0, <2>0, <2>1 DEF IInv, TypeOK, Timed, Live, Walks
  <2>9. OneInstance'
    <3>1. via[q] = Null
      BY <1>1 DEF IInv, OneInstance
    <3> QED
      BY <1>0, <2>0, <2>2, <3>1 DEF IInv, TypeOK, OneInstance, Inside, Live
  <2>10. WayCleared'
    BY <2>0 DEF IInv, WayCleared
  <2>11. UnusedEmpty'
    BY <1>0, <2>0, <2>2 DEF IInv, TypeOK, UnusedEmpty, Inside
  <2> QED
    BY <2>3, <2>4, <2>5, <2>6, <2>7, <2>8, <2>9, <2>10, <2>11 DEF IInv
<1>2. CASE ~(at[q] = Kerning /\ Live(i))
  <2>0. /\ \/ chars' = [chars EXCEPT ![i] = @ \cup {q}] /\ eim' = [eim EXCEPT ![q] = i]
              /\ ~Live(i) /\ at[q] = Kerning
           \/ chars' = [chars EXCEPT ![i] = @ \cup {Null}] /\ UNCHANGED eim
        /\ at' = at /\ mishap' = TRUE
        /\ start' = [start EXCEPT ![p] = Null]
        /\ UNCHANGED <<phase, cleared, armed, via, late, page, strayed, parties, kpqOpen>>
    BY <1>2 DEF registerPlayer, Throws
  <2>1. /\ start' \in [Players -> Walks \cup {Null}]
        /\ \A r \in Players : start'[r] # Null =>
              start[r] # Null /\ start'[r] = start[r] /\ start[r].inst # i
    BY <1>0, <2>0 DEF IInv, TypeOK, Timed
  <2>2. \A j \in Inst : chars[j] \subseteq chars'[j] /\ (j # i => chars'[j] = chars[j])
    BY <1>0, <2>0 DEF IInv, TypeOK
  <2>3. TypeOK'
    BY <1>0, <2>0, <2>1 DEF IInv, TypeOK, parties
  <2>4. StageOrder'
    BY <2>0 DEF IInv, StageOrder, Inside
  <2>5. InsideIsListed'
    BY <2>0, <2>2 DEF IInv, InsideIsListed, Inside
  <2>6. TimeWillBeUp'
    BY <2>0 DEF IInv, TimeWillBeUp, Inside, Live
  <2>7. Registered'
    BY <1>0, <2>0, <2>2 DEF IInv, TypeOK, Registered, Live
  <2>8. Timed'
    BY <1>0, <2>0, <2>1, <2>2 DEF IInv, TypeOK, Timed, Live, Walks
  <2>9. OneInstance'
    <3>1. ASSUME NEW r \in Players, via[r] # Null
          PROVE  /\ eim'[r] = eim[r] /\ via[r].inst \in Inst
                 /\ r \in chars'[via[r].inst] => r \in chars[via[r].inst]
      <4>1. at[r] # Kerning /\ r # Null /\ via[r].inst \in Inst
        BY <3>1, PlaceFacts, NullAssumption DEF IInv, OneInstance, TypeOK
      <4>2. \A j \in Inst : r \in chars'[j] /\ r \notin chars[j] => r = q /\ at[q] = Kerning
        BY <1>0, <2>0, <4>1 DEF IInv, TypeOK
      <4> QED
        BY <4>1, <4>2, <2>0 DEF IInv, TypeOK
    <3>2. ASSUME NEW r \in Players, NEW j \in Inst, Inside(r, j)
          PROVE  eim'[r] = eim[r]
      BY <3>2, <2>0, PlaceFacts DEF IInv, TypeOK, Inside
    <3> QED
      BY <2>0, <3>1, <3>2 DEF IInv, OneInstance, Inside, Live
  <2>10. WayCleared'
    BY <2>0 DEF IInv, WayCleared
  <2>11. UnusedEmpty'
    BY <1>0, <2>0, <2>2 DEF IInv, TypeOK, UnusedEmpty, Inside
  <2> QED
    BY <2>3, <2>4, <2>5, <2>6, <2>7, <2>8, <2>9, <2>10, <2>11 DEF IInv
<1> QED
  BY <1>1, <1>2

LEMMA ListChangedKeeps ==
    ASSUME IInv, NEW p \in Players, ListChanged(p) PROVE IInv'
<1>1. TypeOK'
  BY PlaceFacts, NullAssumption, StageAssumption DEF IInv, TypeOK, Walks, Pages, ListChanged,
     Throws, vars, door, instances, parties, players, Stages, Bonus
<1>2. StageOrder'
  BY PlaceFacts, NullAssumption, StageAssumption DEF IInv, TypeOK, StageOrder,
     WayCleared, Inside, ListChanged, Throws, vars, door, instances, parties,
     players, Stages, Bonus
<1>3. InsideIsListed'
  BY PlaceFacts, NullAssumption, StageAssumption DEF IInv, TypeOK, InsideIsListed,
     Inside, ListChanged, Throws, vars, door, instances, parties, players, Stages, Bonus
<1>4. TimeWillBeUp'
  BY PlaceFacts, NullAssumption, StageAssumption DEF IInv, TypeOK, TimeWillBeUp,
     InsideIsListed, Timed, Walks, Inside, Live, ListChanged, Throws, vars, door,
     instances, parties, players, Stages, Bonus
<1>5. Registered'
  BY PlaceFacts, NullAssumption, StageAssumption DEF IInv, TypeOK, Registered, Timed,
     OneInstance, Walks, Inside, Live, ListChanged, Throws, vars, door, instances,
     parties, players, Stages, Bonus
<1>6. Timed'
  BY PlaceFacts, NullAssumption, StageAssumption DEF IInv, TypeOK, Timed, UnusedEmpty,
     Walks, Live, ListChanged, Throws, vars, door, instances, parties, players, Stages,
     Bonus
<1>7. OneInstance'
  BY PlaceFacts, NullAssumption, StageAssumption DEF IInv, TypeOK, OneInstance,
     Registered, UnusedEmpty, Timed, Walks, Inside, Live, ListChanged, Throws, vars,
     door, instances, parties, players, Stages, Bonus
<1>8. WayCleared'
  BY PlaceFacts, NullAssumption, StageAssumption DEF IInv, TypeOK, WayCleared,
     StageOrder, OneInstance, Inside, ListChanged, Throws, vars, door, instances,
     parties, players, Stages, Bonus
<1>9. UnusedEmpty'
  BY PlaceFacts, NullAssumption, StageAssumption DEF IInv, TypeOK, UnusedEmpty,
     OneInstance, Timed, Walks, Inside, Live, ListChanged, Throws, vars, door,
     instances, parties, players, Stages, Bonus
<1> QED BY <1>1, <1>2, <1>3, <1>4, <1>5, <1>6, <1>7, <1>8, <1>9 DEF IInv

LEMMA ShutDoorKeeps ==
    ASSUME IInv, NEW p \in Players, ShutDoor(p) PROVE IInv'
<1>1. TypeOK'
  BY PlaceFacts, NullAssumption, StageAssumption DEF IInv, TypeOK, Walks, Pages, ShutDoor,
     vars, door, instances, parties, players, Stages, Bonus
<1>2. StageOrder'
  BY PlaceFacts, NullAssumption, StageAssumption DEF IInv, TypeOK, StageOrder,
     WayCleared, Inside, ShutDoor, vars, door, instances, parties, players, Stages,
     Bonus
<1>3. InsideIsListed'
  BY PlaceFacts, NullAssumption, StageAssumption DEF IInv, TypeOK, InsideIsListed,
     Inside, ShutDoor, vars, door, instances, parties, players, Stages, Bonus
<1>4. TimeWillBeUp'
  BY PlaceFacts, NullAssumption, StageAssumption DEF IInv, TypeOK, TimeWillBeUp,
     InsideIsListed, Timed, Walks, Inside, Live, ShutDoor, vars, door, instances,
     parties, players, Stages, Bonus
<1>5. Registered'
  BY PlaceFacts, NullAssumption, StageAssumption DEF IInv, TypeOK, Registered, Timed,
     OneInstance, Walks, Inside, Live, ShutDoor, vars, door, instances, parties,
     players, Stages, Bonus
<1>6. Timed'
  BY PlaceFacts, NullAssumption, StageAssumption DEF IInv, TypeOK, Timed, UnusedEmpty,
     Walks, Live, ShutDoor, vars, door, instances, parties, players, Stages, Bonus
<1>7. OneInstance'
  BY PlaceFacts, NullAssumption, StageAssumption DEF IInv, TypeOK, OneInstance,
     Registered, UnusedEmpty, Timed, Walks, Inside, Live, ShutDoor, vars, door,
     instances, parties, players, Stages, Bonus
<1>8. WayCleared'
  BY PlaceFacts, NullAssumption, StageAssumption DEF IInv, TypeOK, WayCleared,
     StageOrder, OneInstance, Inside, ShutDoor, vars, door, instances, parties, players,
     Stages, Bonus
<1>9. UnusedEmpty'
  BY PlaceFacts, NullAssumption, StageAssumption DEF IInv, TypeOK, UnusedEmpty,
     OneInstance, Timed, Walks, Inside, Live, ShutDoor, vars, door, instances, parties,
     players, Stages, Bonus
<1> QED BY <1>1, <1>2, <1>3, <1>4, <1>5, <1>6, <1>7, <1>8, <1>9 DEF IInv

(* Who is in a stage, and registered, is in a stage of his instance. *)
LEMMA InItsInstance ==
    ASSUME IInv, NEW p \in Players, at[p].stage \in Stages, eim[p] # Null
    PROVE  Inside(p, eim[p]) /\ eim[p] \in Inst
<1>1. at[p].stage # 0 /\ at[p] \in Places
  BY StageAssumption DEF Stages, IInv, TypeOK
<1>2. at[p] \in Rooms
  BY <1>1, PlaceFacts DEF Places
<1> QED
  BY <1>2, PlaceFacts DEF IInv, OneInstance, Inside

LEMMA ClearKeeps ==
    ASSUME IInv, NEW p \in Players, Clear(p) PROVE IInv'
<1>0. Inside(p, eim[p]) /\ eim[p] \in Inst /\ at[p].stage \in Stages
  BY InItsInstance DEF Clear
<1>1. TypeOK'
  BY PlaceFacts, NullAssumption, StageAssumption DEF IInv, TypeOK, Walks, Pages, Clear, Idle,
     vars, door, instances, parties, players, Stages, Bonus
<1>2. StageOrder'
  <2>1. \A i \in Inst : cleared[i] \subseteq cleared'[i]
    BY DEF Clear, IInv, TypeOK
  <2>2. at' = at /\ strayed' = strayed
    BY DEF Clear, players
  <2> QED
    BY <2>1, <2>2 DEF IInv, StageOrder, Inside
<1>3. InsideIsListed'
  BY PlaceFacts, NullAssumption, StageAssumption DEF IInv, TypeOK, InsideIsListed,
     Inside, Clear, Idle, vars, door, instances, parties, players, Stages, Bonus
<1>4. TimeWillBeUp'
  BY PlaceFacts, NullAssumption, StageAssumption DEF IInv, TypeOK, TimeWillBeUp,
     InsideIsListed, Timed, Walks, Inside, Live, Clear, Idle, vars, door, instances,
     parties, players, Stages, Bonus
<1>5. Registered'
  BY PlaceFacts, NullAssumption, StageAssumption DEF IInv, TypeOK, Registered, Timed,
     OneInstance, Walks, Inside, Live, Clear, Idle, vars, door, instances, parties,
     players, Stages, Bonus
<1>6. Timed'
  BY PlaceFacts, NullAssumption, StageAssumption DEF IInv, TypeOK, Timed, UnusedEmpty,
     Walks, Live, Clear, Idle, vars, door, instances, parties, players, Stages, Bonus
<1>7. OneInstance'
  BY PlaceFacts, NullAssumption, StageAssumption DEF IInv, TypeOK, OneInstance,
     Registered, UnusedEmpty, Timed, Walks, Inside, Live, Clear, Idle, vars, door,
     instances, parties, players, Stages, Bonus
<1>8. WayCleared'
  <2>1. \A i \in Inst : cleared[i] \subseteq cleared'[i]
    BY DEF Clear, IInv, TypeOK
  <2>2. UNCHANGED <<via, page, strayed>>
    BY DEF Clear, players
  <2>3. \A r \in Players : (via[r] # Null => via[r].inst \in Inst)
                            /\ (page[r] # Null => page[r].inst \in Inst)
    BY PlaceFacts DEF IInv, TypeOK, Pages
  <2> QED
    BY <2>1, <2>2, <2>3 DEF IInv, WayCleared
<1>9. UnusedEmpty'
  BY PlaceFacts, NullAssumption, StageAssumption DEF IInv, TypeOK, UnusedEmpty,
     OneInstance, Timed, Walks, Inside, Live, Clear, Idle, vars, door, instances,
     parties, players, Stages, Bonus
<1> QED BY <1>1, <1>2, <1>3, <1>4, <1>5, <1>6, <1>7, <1>8, <1>9 DEF IInv

LEMMA EnterPortalKeeps ==
    ASSUME IInv, NEW p \in Players, EnterPortal(p) PROVE IInv'
<1>0. /\ eim[p] \in Inst /\ Next00(at[p].stage).to \in 1..Bonus /\ at[p].stage \in Stages
      /\ via' = [via EXCEPT ![p] = Stage(eim[p], Next00(at[p].stage).to)]
  BY StageAssumption DEF EnterPortal, Live, Next00, Stages, Bonus
<1>1. TypeOK'
  <2>1. Stage(eim[p], Next00(at[p].stage).to) \in Rooms
    BY <1>0, PlaceFacts
  <2>2. via' \in [Players -> Rooms \cup {Null}]
    BY <1>0, <2>1 DEF IInv, TypeOK
  <2> QED
    BY <2>2 DEF IInv, TypeOK, EnterPortal, door, instances, parties
<1>2. StageOrder'
  BY PlaceFacts, NullAssumption, StageAssumption DEF IInv, TypeOK, StageOrder,
     WayCleared, Inside, EnterPortal, Idle, Next00, vars, door, instances, parties,
     players, Stages, Bonus
<1>3. InsideIsListed'
  BY PlaceFacts, NullAssumption, StageAssumption DEF IInv, TypeOK, InsideIsListed,
     Inside, EnterPortal, Idle, Next00, vars, door, instances, parties, players, Stages,
     Bonus
<1>4. TimeWillBeUp'
  BY PlaceFacts, NullAssumption, StageAssumption DEF IInv, TypeOK, TimeWillBeUp,
     InsideIsListed, Timed, Walks, Inside, Live, EnterPortal, Idle, Next00, vars, door,
     instances, parties, players, Stages, Bonus
<1>5. Registered'
  BY PlaceFacts, NullAssumption, StageAssumption DEF IInv, TypeOK, Registered, Timed,
     OneInstance, Walks, Inside, Live, EnterPortal, Idle, Next00, vars, door, instances,
     parties, players, Stages, Bonus
<1>6. Timed'
  BY PlaceFacts, NullAssumption, StageAssumption DEF IInv, TypeOK, Timed, UnusedEmpty,
     Walks, Live, EnterPortal, Idle, Next00, vars, door, instances, parties, players,
     Stages, Bonus
<1>7. OneInstance'
  BY PlaceFacts, NullAssumption, StageAssumption DEF IInv, TypeOK, OneInstance,
     Registered, UnusedEmpty, Timed, Walks, Inside, Live, EnterPortal, Idle, Next00,
     vars, door, instances, parties, players, Stages, Bonus
<1>8. WayCleared'
  <2>1. Stage(eim[p], Next00(at[p].stage).to).inst = eim[p]
        /\ Stage(eim[p], Next00(at[p].stage).to).stage = Next00(at[p].stage).to
    BY <1>0, PlaceFacts
  <2>2. <<p, eim[p]>> \notin strayed =>
          \A k \in Stages : k < Next00(at[p].stage).to => k \in cleared[eim[p]]
    <3>1. Next00(at[p].stage).needs \in cleared[eim[p]]
      BY DEF EnterPortal
    <3>2. \A k \in Stages : k < Next00(at[p].stage).to =>
            k = Next00(at[p].stage).needs \/ k < at[p].stage
      BY <1>0, StageAssumption DEF Next00, Stages
    <3>3. Inside(p, eim[p])
      BY <1>0, NullAssumption, InItsInstance
    <3> QED
      BY <1>0, <3>1, <3>2, <3>3 DEF IInv, StageOrder
  <2>3. UNCHANGED <<cleared, page, strayed>>
    BY DEF EnterPortal, instances
  <2>4. \A r \in Players : via'[r] = via[r] \/ (r = p /\ via'[p] = Stage(eim[p], Next00(at[p].stage).to))
    BY <1>0 DEF IInv, TypeOK
  <2> QED
    BY <2>1, <2>2, <2>3, <2>4 DEF IInv, WayCleared
<1>9. UnusedEmpty'
  BY PlaceFacts, NullAssumption, StageAssumption DEF IInv, TypeOK, UnusedEmpty,
     OneInstance, Timed, Walks, Inside, Live, EnterPortal, Idle, Next00, vars, door,
     instances, parties, players, Stages, Bonus
<1> QED BY <1>1, <1>2, <1>3, <1>4, <1>5, <1>6, <1>7, <1>8, <1>9 DEF IInv

LEMMA ArriveKeeps ==
    ASSUME IInv, NEW p \in Players, Arrive(p) PROVE IInv'
<1>1. TypeOK'
  BY PlaceFacts, NullAssumption, StageAssumption DEF IInv, TypeOK, Walks, Pages, Arrive, vars,
     door, instances, parties, players, Stages, Bonus
<1>2. StageOrder'
  <2>1. /\ via[p] # Null /\ at'[p] = via[p] /\ \A q \in Players : q # p => at'[q] = at[q]
        /\ UNCHANGED <<cleared, strayed>>
    BY DEF Arrive, instances, IInv, TypeOK
  <2>2. ASSUME NEW i \in Inst, via[p].inst = i, <<p, i>> \notin strayed
        PROVE  \A k \in Stages : k < via[p].stage => k \in cleared[i]
    BY <2>1, <2>2 DEF IInv, WayCleared
  <2> QED BY <2>1, <2>2 DEF IInv, StageOrder, Inside
<1>3. InsideIsListed'
  BY PlaceFacts, NullAssumption, StageAssumption DEF IInv, TypeOK, InsideIsListed,
     Inside, Arrive, vars, door, instances, parties, players, Stages, Bonus
<1>4. TimeWillBeUp'
  <2>1. via[p] \in Rooms /\ via[p].inst \in Inst
    BY PlaceFacts DEF IInv, TypeOK, Arrive
  <2>2. p \in chars[via[p].inst] => Live(via[p].inst) /\ via[p].inst \in armed
    BY <2>1 DEF IInv, OneInstance, Timed, Arrive
  <2>3. \A r \in Players, i \in Inst : Inside(r, i)' =>
          (r # p /\ Inside(r, i)) \/ (r = p /\ i = via[p].inst)
    BY DEF Arrive, Inside, IInv, TypeOK
  <2>4. p \notin late' => p \in chars[via[p].inst]
    BY DEF Arrive
  <2>5. \A r \in Players : r # p /\ r \notin late' => r \notin late
    BY DEF Arrive
  <2>6. UNCHANGED <<armed, phase>>
    BY DEF Arrive, instances
  <2> QED
    BY <2>2, <2>3, <2>4, <2>5, <2>6 DEF IInv, TimeWillBeUp, Live
<1>5. Registered'
  BY PlaceFacts, NullAssumption, StageAssumption DEF IInv, TypeOK, Registered, Timed,
     OneInstance, Walks, Inside, Live, Arrive, vars, door, instances, parties, players,
     Stages, Bonus
<1>6. Timed'
  BY PlaceFacts, NullAssumption, StageAssumption DEF IInv, TypeOK, Timed, UnusedEmpty,
     Walks, Live, Arrive, vars, door, instances, parties, players, Stages, Bonus
<1>7. OneInstance'
  BY PlaceFacts, NullAssumption, StageAssumption DEF IInv, TypeOK, OneInstance,
     Registered, UnusedEmpty, Timed, Walks, Inside, Live, Arrive, vars, door, instances,
     parties, players, Stages, Bonus
<1>8. WayCleared'
  <2>1. /\ via'[p] = Null /\ \A q \in Players : q # p => via'[q] = via[q]
        /\ UNCHANGED <<cleared, page, strayed>>
    BY DEF Arrive, instances, IInv, TypeOK
  <2> QED BY <2>1 DEF IInv, WayCleared
<1>9. UnusedEmpty'
  BY PlaceFacts, NullAssumption, StageAssumption DEF IInv, TypeOK, UnusedEmpty,
     OneInstance, Timed, Walks, Inside, Live, Arrive, vars, door, instances, parties,
     players, Stages, Bonus
<1> QED BY <1>1, <1>2, <1>3, <1>4, <1>5, <1>6, <1>7, <1>8, <1>9 DEF IInv

LEMMA ShowPageKeeps ==
    ASSUME IInv, NEW p \in Players, ShowPage(p) PROVE IInv'
<1> DEFINE k == at[p].stage
<1>0. /\ k \in Stages /\ k \in {1, LastStage} /\ Inside(p, eim[p]) /\ eim[p] \in Inst
      /\ page' = [page EXCEPT ![p] = [stage |-> k, inst |-> eim[p]]]
      /\ UNCHANGED <<door, instances, parties, at, eim, via, late, strayed, start>>
  BY InItsInstance, StageAssumption DEF ShowPage, Stages
<1>1. TypeOK'
  <2>1. page' \in [Players -> Pages \cup {Null}]
    BY <1>0 DEF Pages, IInv, TypeOK
  <2> QED BY <1>0, <2>1 DEF IInv, TypeOK, door, instances, parties
<1>2. /\ StageOrder' /\ InsideIsListed' /\ TimeWillBeUp' /\ Registered'
      /\ Timed' /\ OneInstance' /\ UnusedEmpty'
  BY <1>0 DEF IInv, StageOrder, InsideIsListed, TimeWillBeUp, Registered, Timed,
              OneInstance, UnusedEmpty, Inside, Live, instances
<1>3. WayCleared'
  <2>1. /\ page'[p] = [stage |-> k, inst |-> eim[p]]
        /\ \A q \in Players : q # p => page'[q] = page[q]
        /\ UNCHANGED <<cleared, via, strayed>>
    BY <1>0 DEF IInv, TypeOK, instances
  <2>2. <<p, eim[p]>> \notin strayed => \A j \in Stages : j < k => j \in cleared[eim[p]]
    BY <1>0 DEF IInv, StageOrder
  <2>3. page'[p].stage = k /\ page'[p].inst = eim[p]
    BY <2>1
  <2> HIDE DEF k
  <2> QED BY <2>1, <2>2, <2>3 DEF IInv, WayCleared
<1> QED BY <1>1, <1>2, <1>3 DEF IInv

(* The click on the page of a prize. *)
LEMMA PrizeKeeps ==
    ASSUME IInv, NEW p \in Players,
           page[p] # Null, page[p].stage = LastStage, Live(eim[p]),
           LastStage \in cleared[eim[p]],
           page' = [page EXCEPT ![p] = Null],
           via' = [via EXCEPT ![p] = Stage(eim[p], Bonus)],
           strayed' = IF page[p].inst = eim[p] THEN strayed
                      ELSE strayed \cup {<<p, eim[p]>>},
           UNCHANGED <<door, instances, parties, at, eim, late, start>>
    PROVE  IInv'
<1> DEFINE i == eim[p]
           x == Stage(i, Bonus)
<1>0. i \in Inst /\ x \in Rooms /\ x.inst = i /\ x.stage = Bonus
  <2>1. Bonus \in 1..Bonus
    BY StageAssumption DEF Bonus
  <2> QED BY <2>1, PlaceFacts DEF Live
<1>1. /\ via'[p] = x /\ page'[p] = Null
      /\ \A q \in Players : q # p => via'[q] = via[q] /\ page'[q] = page[q]
      /\ strayed \subseteq strayed'
      /\ <<p, i>> \notin strayed' => page[p].inst = i
  BY DEF IInv, TypeOK
<1> HIDE DEF x
<1>2. TypeOK'
  <2>1. via' \in [Players -> Rooms \cup {Null}] /\ page' \in [Players -> Pages \cup {Null}]
    BY <1>0 DEF IInv, TypeOK, x
  <2>2. strayed' \subseteq Players \X Inst
    BY <1>0 DEF IInv, TypeOK
  <2> QED BY <2>1, <2>2 DEF IInv, TypeOK, door, instances, parties
<1>3. /\ StageOrder' /\ InsideIsListed' /\ TimeWillBeUp' /\ Registered'
      /\ Timed' /\ UnusedEmpty'
  BY <1>1 DEF IInv, StageOrder, InsideIsListed, TimeWillBeUp, Registered, Timed,
              UnusedEmpty, Inside, Live, instances
<1>4. OneInstance'
  <2>1. at[p] # Kerning /\ phase[i] = "live"
    BY <1>0 DEF IInv, Registered, Live
  <2> QED BY <1>0, <1>1, <2>1 DEF IInv, OneInstance, Inside, Live, instances
<1>5. WayCleared'
  <2>1. <<p, i>> \notin strayed' => \A k \in Stages : k < Bonus => k \in cleared[i]
    <3>1. \A k \in Stages : k < Bonus => k = LastStage \/ k < LastStage
      BY StageAssumption DEF Stages, Bonus
    <3> QED BY <1>1, <3>1 DEF IInv, WayCleared
  <2>2. cleared' = cleared
    BY DEF instances
  <2> QED BY <1>0, <1>1, <2>1, <2>2 DEF IInv, WayCleared
<1> QED BY <1>2, <1>3, <1>4, <1>5 DEF IInv

LEMMA ClickPageKeeps ==
    ASSUME IInv, NEW p \in Players, ClickPage(p) PROVE IInv'
<1>1. CASE via' = via /\ strayed' = strayed
  <2>1. /\ page' = [page EXCEPT ![p] = Null]
        /\ cleared' \in [Inst -> SUBSET Stages]
        /\ \A i \in Inst : cleared[i] \subseteq cleared'[i]
        /\ UNCHANGED <<door, phase, chars, armed, parties, at, eim, late, start>>
    <3>1. page[p] \in Pages
      BY DEF ClickPage, IInv, TypeOK
    <3>2. page[p].stage \in Stages
      BY <3>1, StageAssumption DEF Pages, Stages
    <3> QED BY <3>2 DEF ClickPage, IInv, TypeOK
  <2>2. TypeOK'
    BY <1>1, <2>1 DEF IInv, TypeOK, door, parties
  <2>3. StageOrder'
    BY <1>1, <2>1 DEF IInv, StageOrder, Inside
  <2>4. /\ InsideIsListed' /\ TimeWillBeUp' /\ Registered'
        /\ Timed' /\ OneInstance' /\ UnusedEmpty'
    BY <1>1, <2>1 DEF IInv, InsideIsListed, TimeWillBeUp, Registered, Timed, OneInstance,
                      UnusedEmpty, Inside, Live
  <2>5. WayCleared'
    <3>1. \A r \in Players : via[r] # Null => via[r].inst \in Inst
      BY PlaceFacts DEF IInv, TypeOK
    <3>2. \A r \in Players : page[r] # Null => page[r].inst \in Inst
      BY DEF IInv, TypeOK, Pages
    <3>3. \A r \in Players : page'[r] # Null => page'[r] = page[r]
      BY <2>1 DEF IInv, TypeOK
    <3>4. ASSUME NEW r \in Players, via[r] # Null, <<r, via[r].inst>> \notin strayed
          PROVE  \A k \in Stages : k < via[r].stage => k \in cleared'[via[r].inst]
      BY <2>1, <3>1, <3>4 DEF IInv, WayCleared
    <3>5. ASSUME NEW r \in Players, page'[r] # Null, <<r, page[r].inst>> \notin strayed
          PROVE  \A k \in Stages : k < page[r].stage => k \in cleared'[page[r].inst]
      <4>1. page[r] # Null
        BY <3>3, <3>5
      <4> QED BY <2>1, <3>2, <3>5, <4>1 DEF IInv, WayCleared
    <3> QED BY <1>1, <3>3, <3>4, <3>5 DEF WayCleared
  <2> QED BY <2>2, <2>3, <2>4, <2>5 DEF IInv
<1>2. CASE ~(via' = via /\ strayed' = strayed)
  BY <1>2, PrizeKeeps DEF ClickPage, instances
<1> QED BY <1>1, <1>2

LEMMA NellaKeeps ==
    ASSUME IInv, NEW p \in Players, Nella(p)
    PROVE  IInv' /\ Leaves /\ TalksGoOn
<1>1. TalksGoOn /\ UNCHANGED <<cleared, armed, via, page, strayed>>
  BY DEF Nella, TalksGoOn
<1>2. Leaves
  <2>1. CASE at[p] = Exit /\ eim[p] = Null
    BY <2>1, PlaceFacts, NullAssumption DEF IInv, TypeOK, Nella, Idle, Leaves
  <2>2. CASE at[p] = Exit /\ eim[p] # Null
    BY <2>2, PlaceFacts, NullAssumption DEF IInv, TypeOK, Nella, Idle, Leaves
  <2>3. CASE at[p] \in Rooms /\ eim[p] = Null
    BY <2>3, PlaceFacts, NullAssumption DEF IInv, TypeOK, Nella, Idle, Leaves, Live
  <2>4. CASE at[p] \in Rooms /\ eim[p] # Null
    BY <2>4, PlaceFacts, DisbandLeaves, LeftPartyLeaves, NothingLeaves DEF Nella, Live
  <2> QED
    BY <2>1, <2>2, <2>3, <2>4 DEF Nella
<1>3. OutTyped
  <2>1. CASE at[p] = Exit
    BY <2>1, PlaceFacts, NullAssumption DEF IInv, TypeOK, Nella, OutTyped
  <2>2. CASE at[p] \in Rooms /\ eim[p] = Null
    BY <2>2, PlaceFacts, NullAssumption DEF IInv, TypeOK, Nella, OutTyped, Live
  <2>3. CASE at[p] \in Rooms /\ eim[p] # Null
    BY <2>3, PlaceFacts, DisbandTyped, LeftPartyTyped, NothingTyped DEF IInv, Nella, Live
  <2> QED
    BY <2>1, <2>2, <2>3 DEF Nella
<1>4. TypeOK'
  BY <1>3 DEF OutTyped, IInv, TypeOK, Nella, parties
<1> QED
  BY <1>1, <1>2, <1>4, LeavesKeeps

LEMMA PlayerReviveKeeps ==
    ASSUME IInv, NEW p \in Players, playerRevive(p)
    PROVE  IInv' /\ Leaves /\ TalksGoOn
<1>1. TalksGoOn /\ UNCHANGED <<cleared, armed, via, page, strayed>>
  BY DEF playerRevive, TalksGoOn
<1>2. CASE UNCHANGED <<chars, phase, eim>>
  <2>1. at' = [at EXCEPT ![p] = Exit] /\ late' = late \ {p}
    BY <1>2 DEF playerRevive, IInv, TypeOK, Live
  <2>2. Leaves
    BY <1>2, <2>1, PlaceFacts DEF IInv, TypeOK, Leaves
  <2>3. TypeOK'
    BY <1>2, <2>1, PlaceFacts DEF IInv, TypeOK, playerRevive, door, parties
  <2> QED
    BY <1>1, <2>2, <2>3, LeavesKeeps
<1>3. CASE ~UNCHANGED <<chars, phase, eim>>
  <2> DEFINE i == eim[p]
             S == chars[i]
  <2>1. /\ Live(i) /\ i \in Inst
        /\ eim' = [q \in Players |-> IF q \in S THEN Null ELSE eim[q]]
        /\ at' = [q \in Players |-> IF q = p THEN Kerning
                    ELSE IF q \in S /\ at[q] # Off THEN Exit ELSE at[q]]
        /\ late' = late \ (S \cup {p})
        /\ chars' = [chars EXCEPT ![i] = {}]
        /\ phase' = [phase EXCEPT ![i] = "disposed"]
        /\ via[p] = Null
    BY <1>3 DEF playerRevive, Live, Idle
  <2>2. p \in S
    BY <2>1 DEF IInv, Registered
  <2>3. Leaves
    <3>1. ASSUME NEW j \in Inst
          PROVE  /\ \A x : x \in chars'[j] => x \in chars[j]
                 /\ \A q \in Players : q \in chars[j] /\ q \notin chars'[j] => q \in S
                 /\ \/ phase'[j] = phase[j]
                    \/ phase[j] = "live" /\ phase'[j] = "disposed" /\ chars'[j] = {}
      BY <2>1 DEF IInv, TypeOK, Live
    <3>2. ASSUME NEW q \in Players
          PROVE  /\ q = p => at'[q] = Kerning
                 /\ q # p => at'[q] = at[q] \/ at'[q] = Exit
                 /\ eim'[q] \in {eim[q], Null}
                 /\ q \in late /\ q \notin late' => q \in S
                 /\ q \in S => at'[q] \in {Kerning, Exit, Off} /\ eim'[q] = Null
      BY <2>1, <2>2
    <3>3. Exit # Kerning /\ Exit \notin Rooms /\ Off \notin Rooms /\ Kerning \notin Rooms
      BY PlaceFacts
    <3> QED
      BY <2>1, <2>2, <3>1, <3>2, <3>3 DEF Leaves
  <2>4. TypeOK'
    <3>1. OutTyped
      BY <2>1, PlaceFacts DEF IInv, TypeOK, OutTyped
    <3> QED
      BY <3>1 DEF OutTyped, IInv, TypeOK, playerRevive, door, parties
  <2> QED
    BY <1>1, <2>3, <2>4, LeavesKeeps
<1> QED
  BY <1>2, <1>3

LEMMA LeavePartyKeeps ==
    ASSUME IInv, NEW p \in Players, LeaveParty(p)
    PROVE  IInv' /\ Leaves /\ TalksGoOn
<1>0. party[p] \in Parties /\ changes' \in Nat /\ UNCHANGED <<cleared, armed, via, page, strayed>>
  BY DEF LeaveParty, IInv, TypeOK, Change
<1>1. Leaves /\ OutTyped
  <2>1. CASE Live(eim[p]) /\ disbandParty(eim[p])
    BY <2>1, DisbandLeaves, DisbandTyped DEF IInv, Live
  <2>2. CASE Live(eim[p]) /\ leftParty(p, eim[p])
    BY <2>2, LeftPartyLeaves, LeftPartyTyped DEF IInv, Live
  <2>3. CASE NothingEnds
    BY <2>3, NothingLeaves, NothingTyped DEF IInv
  <2> QED
    BY <2>1, <2>2, <2>3 DEF LeaveParty
<1>2. start' \in [Players -> Walks \cup {Null}] /\ TalksGoOn
  BY <1>0, RestartTyped DEF LeaveParty, IInv, TypeOK, TalksGoOn
<1>3. /\ party' \in [Players -> Parties \cup {Null}]
      /\ members' \in [Parties -> SUBSET Players] /\ listed' \subseteq Parties
  BY <1>0 DEF LeaveParty, IInv, TypeOK
<1>4. TypeOK'
  BY <1>0, <1>1, <1>2, <1>3 DEF OutTyped, IInv, TypeOK, LeaveParty, door
<1> QED
  BY <1>0, <1>1, <1>2, <1>4, LeavesKeeps

LEMMA ExpelKeeps ==
    ASSUME IInv, NEW p \in Players, NEW q \in Players, Expel(p, q)
    PROVE  IInv' /\ Leaves /\ TalksGoOn
<1>0. party[p] \in Parties /\ changes' \in Nat /\ UNCHANGED <<cleared, armed, via, page, strayed>>
  BY DEF Expel, IInv, TypeOK, Change
<1>1. Leaves /\ OutTyped
  <2>1. CASE Live(eim[p]) /\ disbandParty(eim[p])
    BY <2>1, DisbandLeaves, DisbandTyped DEF IInv, Live
  <2>2. CASE NothingEnds
    BY <2>2, NothingLeaves, NothingTyped DEF IInv
  <2> QED
    BY <2>1, <2>2 DEF Expel
<1>2. start' \in [Players -> Walks \cup {Null}] /\ TalksGoOn
  BY <1>0, RestartTyped DEF Expel
<1>3. /\ party' \in [Players -> Parties \cup {Null}]
      /\ members' \in [Parties -> SUBSET Players]
  BY <1>0 DEF Expel, IInv, TypeOK
<1>4. TypeOK'
  BY <1>0, <1>1, <1>2, <1>3 DEF OutTyped, IInv, TypeOK, Expel, door
<1> QED
  BY <1>0, <1>1, <1>2, <1>4, LeavesKeeps

LEMMA ChangeLeaderKeeps ==
    ASSUME IInv, NEW p \in Players, NEW q \in Players \cup {Null}, ChangeLeader(p, q)
    PROVE  IInv'
<1>1. TypeOK'
  BY PlaceFacts, NullAssumption, StageAssumption DEF IInv, TypeOK, Walks, Pages, ChangeLeader,
     Change, vars, door, instances, parties, players, Stages, Bonus
<1>2. StageOrder'
  BY PlaceFacts, NullAssumption, StageAssumption DEF IInv, TypeOK, StageOrder,
     WayCleared, Inside, ChangeLeader, Change, vars, door, instances, parties,
     players, Stages, Bonus
<1>3. InsideIsListed'
  BY PlaceFacts, NullAssumption, StageAssumption DEF IInv, TypeOK, InsideIsListed,
     Inside, ChangeLeader, Change, vars, door, instances, parties, players, Stages,
     Bonus
<1>4. TimeWillBeUp'
  BY PlaceFacts, NullAssumption, StageAssumption DEF IInv, TypeOK, TimeWillBeUp,
     InsideIsListed, Timed, Walks, Inside, Live, ChangeLeader, Change, vars, door,
     instances, parties, players, Stages, Bonus
<1>5. Registered'
  BY PlaceFacts, NullAssumption, StageAssumption DEF IInv, TypeOK, Registered, Timed,
     OneInstance, Walks, Inside, Live, ChangeLeader, Change, vars, door, instances,
     parties, players, Stages, Bonus
<1>6. Timed'
  BY PlaceFacts, NullAssumption, StageAssumption DEF IInv, TypeOK, Timed, UnusedEmpty,
     Walks, Live, ChangeLeader, Change, vars, door, instances, parties, players, Stages,
     Bonus
<1>7. OneInstance'
  BY PlaceFacts, NullAssumption, StageAssumption DEF IInv, TypeOK, OneInstance,
     Registered, UnusedEmpty, Timed, Walks, Inside, Live, ChangeLeader, Change, vars,
     door, instances, parties, players, Stages, Bonus
<1>8. WayCleared'
  BY PlaceFacts, NullAssumption, StageAssumption DEF IInv, TypeOK, WayCleared,
     StageOrder, OneInstance, Inside, ChangeLeader, Change, vars, door, instances,
     parties, players, Stages, Bonus
<1>9. UnusedEmpty'
  BY PlaceFacts, NullAssumption, StageAssumption DEF IInv, TypeOK, UnusedEmpty,
     OneInstance, Timed, Walks, Inside, Live, ChangeLeader, Change, vars, door,
     instances, parties, players, Stages, Bonus
<1> QED BY <1>1, <1>2, <1>3, <1>4, <1>5, <1>6, <1>7, <1>8, <1>9 DEF IInv

LEMMA JoinKeeps ==
    ASSUME IInv, NEW p \in Players, NEW k \in Parties, Join(p, k)
    PROVE  IInv' /\ Leaves /\ TalksGoOn
<1>1. Leaves
  BY DEF Join, IInv, TypeOK, Leaves, instances, players
<1>2. start' \in [Players -> Walks \cup {Null}] /\ TalksGoOn
  BY RestartTyped DEF Join
<1>3. /\ party' \in [Players -> Parties \cup {Null}]
      /\ members' \in [Parties -> SUBSET Players] /\ changes' \in Nat
  BY DEF Join, Change, IInv, TypeOK
<1>4. TypeOK'
  BY <1>2, <1>3 DEF IInv, TypeOK, Join, door, instances, players
<1> QED
  BY <1>1, <1>2, <1>4, LeavesKeeps DEF Join, instances, players

LEMMA DisconnectKeeps ==
    ASSUME IInv, NEW p \in Players, Disconnect(p)
    PROVE  IInv' /\ Leaves /\ TalksGoOn
<1>0. /\ changes' \in Nat /\ TalksGoOn /\ UNCHANGED <<cleared, armed, via, strayed>>
      /\ page' \in [Players -> Pages \cup {Null}]
      /\ \A q \in Players : page'[q] \in {page[q], Null}
  BY DEF Disconnect, IInv, TypeOK, Change, TalksGoOn
<1>1. PICK S \in SUBSET Players :
        /\ GoesOff(p, S)
        /\ \/ /\ eim[p] \in Inst /\ Live(eim[p]) /\ S = chars[eim[p]] \ {Null}
              /\ chars' = [chars EXCEPT ![eim[p]] = @ \cap {Null}]
              /\ phase' = [phase EXCEPT ![eim[p]] = IF Null \in chars[eim[p]] THEN @ ELSE "disposed"]
           \/ /\ eim[p] \in Inst /\ S = {p}
              /\ chars' = [chars EXCEPT ![eim[p]] = @ \ {p}] /\ phase' = phase
           \/ chars' = chars /\ phase' = phase /\ S = {}
  BY DEF Disconnect, IInv, TypeOK, Live
<1>2. Leaves
  <2>1. ASSUME NEW j \in Inst
        PROVE  /\ \A x : x \in chars'[j] => x \in chars[j]
               /\ \A q \in Players : q \in chars[j] /\ q \notin chars'[j] => q \in S
               /\ \/ phase'[j] = phase[j]
                  \/ phase[j] = "live" /\ phase'[j] = "disposed" /\ chars'[j] = {}
    BY <1>1, NullAssumption DEF IInv, TypeOK, Live
  <2>2. ASSUME NEW q \in Players
        PROVE  /\ at'[q] = at[q] \/ at'[q] = Exit \/ at'[q] = Off
               /\ eim'[q] \in {eim[q], Null}
               /\ q \in late /\ q \notin late' => q \in S \cup {p}
               /\ q \in S => at'[q] \in {Exit, Off} /\ eim'[q] = Null
               /\ q = p => at'[q] = Off
    BY <1>1 DEF GoesOff
  <2>3. Exit # Kerning /\ Off # Kerning /\ Exit \notin Rooms /\ Off \notin Rooms
    BY PlaceFacts
  <2> QED
    BY <2>1, <2>2, <2>3 DEF Leaves
<1>3. OutTyped
  <2>1. /\ at' \in [Players -> Places] /\ eim' \in [Players -> Inst \cup {Null}]
        /\ late' \subseteq Players
    BY <1>1, PlaceFacts DEF IInv, TypeOK, GoesOff
  <2>2. chars' \in [Inst -> SUBSET (Players \cup {Null})]
    BY <1>1 DEF IInv, TypeOK
  <2>3. phase' \in [Inst -> {"unused", "live", "disposed"}]
    BY <1>1 DEF IInv, TypeOK
  <2> QED
    BY <2>1, <2>2, <2>3 DEF OutTyped
<1>4. leader' \in [Parties -> Players \cup {Null}]
  BY DEF Disconnect, NewLeader, IInv, TypeOK
<1>5. TypeOK'
  BY <1>0, <1>3, <1>4 DEF OutTyped, IInv, TypeOK, Disconnect, door
<1> QED
  BY <1>0, <1>2, <1>5, LeavesKeeps

LEMMA WalkKeeps ==
    ASSUME IInv, NEW p \in Players, Walk(p)
    PROVE  IInv' /\ Leaves /\ TalksGoOn
<1>0. /\ eim[p] = Null /\ via[p] = Null /\ changes' \in Nat /\ TalksGoOn
      /\ \/ at' = [at EXCEPT ![p] = Away]
         \/ at' = [at EXCEPT ![p] = Kerning]
  BY DEF Walk, Idle, Change, TalksGoOn, IInv, TypeOK
<1>1. Leaves
  BY <1>0, PlaceFacts DEF Walk, IInv, TypeOK, Leaves, instances
<1>2. TypeOK'
  BY <1>0, PlaceFacts DEF Walk, IInv, TypeOK, door, instances
<1> QED
  BY <1>0, <1>1, <1>2, LeavesKeeps DEF Walk, instances

-----------------------------------------------------------------------------
LEMMA InitInv == Init => IInv
<1> SUFFICES ASSUME Init PROVE IInv
  OBVIOUS
<1>1. TypeOK
  BY PlaceFacts, LineupAssumption DEF Init, TypeOK
<1>2. \A p \in Players, i \in Inst : ~Inside(p, i) /\ eim[p] # i /\ ~Live(i)
  BY PlaceFacts DEF Init, Inside, Live
<1>3. StageOrder /\ InsideIsListed /\ TimeWillBeUp /\ Registered /\ OneInstance
  BY <1>2 DEF Init, StageOrder, InsideIsListed, TimeWillBeUp, Registered, OneInstance
<1>4. Timed /\ WayCleared /\ UnusedEmpty
  BY <1>2 DEF Init, Timed, WayCleared, UnusedEmpty
<1> QED
  BY <1>1, <1>3, <1>4 DEF IInv

LEMMA StutterKeeps == ASSUME IInv, UNCHANGED vars PROVE IInv'
<1>1. UNCHANGED <<kpqOpen, mishap, phase, chars, cleared, armed, party, members, leader,
                  listed, changes, at, eim, via, page, late, strayed, start>>
  BY DEF vars, door, instances, parties, players
<1> QED
  BY <1>1 DEF IInv, TypeOK, StageOrder, InsideIsListed, TimeWillBeUp, Registered, Timed,
              OneInstance, WayCleared, UnusedEmpty, Inside, Live

LEMMA NextKeeps == ASSUME IInv, Next PROVE IInv'
BY TimeOutKeeps, LakelisKeeps, RegisterPlayerKeeps, ListChangedKeeps, ShutDoorKeeps,
   ClearKeeps, EnterPortalKeeps, ArriveKeeps, ShowPageKeeps, ClickPageKeeps,
   NellaKeeps, PlayerReviveKeeps, LeavePartyKeeps, ExpelKeeps, ChangeLeaderKeeps,
   JoinKeeps, DisconnectKeeps, WalkKeeps DEF Next

(* The invariant of the quest. *)
THEOREM QuestInvariant == Spec => []IInv
<1>1. IInv /\ [Next]_vars => IInv'
  BY NextKeeps, StutterKeeps
<1> QED
  BY <1>1, InitInv, PTL DEF Spec

(* The variables of the quest keep their types. *)
THEOREM QuestTypes == Spec => []TypeOK
<1>1. IInv => TypeOK
  BY DEF IInv
<1> QED
  BY <1>1, QuestInvariant, PTL

(* Nobody is in a stage before the ones that lead to it are cleared.         *)
THEOREM QuestStages == Spec => []StageOrder
<1>1. IInv => StageOrder
  BY DEF IInv
<1> QED
  BY <1>1, QuestInvariant, PTL

(* An instance that ends leaves nobody behind whom it was to send out.       *)
THEOREM QuestLists == Spec => []InsideIsListed
<1>1. IInv => InsideIsListed
  BY DEF IInv
<1> QED
  BY <1>1, QuestInvariant, PTL

(* Everyone an instance keeps inside has its timeOut before him.             *)
THEOREM QuestTimes == Spec => []TimeWillBeUp
<1>1. IInv => TimeWillBeUp
  BY DEF IInv
<1> QED
  BY <1>1, QuestInvariant, PTL

-----------------------------------------------------------------------------
(* One party at a time, and no way back: the door of the Kerning party quest *)
(* and the order in which its stages are entered.                            *)

NoTalk == \A p \in Players : start[p] = Null

(* What the door is for.  A single talk registers a party, with an instance  *)
(* while no other has anybody on its list; an open door with nobody talking  *)
(* means that all lists are empty; who is registered has a live instance.    *)
OneTalk == \A p, q \in Players : start[p] # Null /\ start[q] # Null => p = q
TalkFirst == \A p \in Players, i \in Inst :
                start[p] # Null /\ chars[i] # {} => i = start[p].inst
DoorShut == kpqOpen /\ NoTalk => \A i \in Inst : chars[i] = {}
OneList == \A i, j \in Inst : chars[i] # {} /\ chars[j] # {} => i = j
LiveOnly == \A p \in Players : eim[p] # Null => Live(eim[p])

Sole == ~mishap => OneTalk /\ TalkFirst /\ DoorShut /\ OneList /\ LiveOnly

(* A portal leads on. *)
ViaOnward ==
    \A p \in Players : via[p] # Null /\ at[p].inst = via[p].inst =>
        at[p].stage <= via[p].stage

DoorInv == IInv /\ Sole /\ ViaOnward

-----------------------------------------------------------------------------
LEMMA SoleSame ==
    ASSUME Sole, UNCHANGED <<kpqOpen, mishap, phase, chars, eim, start>>
    PROVE  Sole'
BY DEF Sole, OneTalk, TalkFirst, DoorShut, OneList, LiveOnly, NoTalk, Live

(* Who leaves opens no door, and whose instance is disposed of is registered *)
(* no more.                                                                  *)
LEMMA LiveLeaves ==
    ASSUME IInv, LiveOnly, Leaves
    PROVE  LiveOnly'
<1> SUFFICES ASSUME NEW q \in Players, eim'[q] # Null PROVE Live(eim[q])'
  BY DEF LiveOnly
<1>1. eim'[q] = eim[q] /\ Live(eim[q]) /\ eim[q] \in Inst
  BY DEF Leaves, LiveOnly, Live
<1>2. q \in chars[eim[q]]
  BY <1>1 DEF IInv, Registered
<1>3. chars'[eim[q]] # {}
  BY <1>1, <1>2 DEF Leaves
<1> QED
  BY <1>1, <1>3 DEF Leaves, Live

LEMMA ListsLeave ==
    ASSUME Leaves, TalksGoOn
    PROVE  /\ \A i \in Inst : chars'[i] # {} => chars[i] # {}
           /\ OneTalk => OneTalk'
           /\ TalkFirst => TalkFirst'
           /\ OneList => OneList'
           /\ NoTalk' => NoTalk
<1>1. \A i \in Inst : chars'[i] # {} => chars[i] # {}
  BY DEF Leaves
<1>2. OneTalk => OneTalk'
  BY DEF OneTalk, TalksGoOn
<1>3. TalkFirst => TalkFirst'
  BY <1>1 DEF TalkFirst, TalksGoOn
<1>4. OneList => OneList'
  BY <1>1 DEF OneList
<1>5. NoTalk' => NoTalk
  BY DEF NoTalk, TalksGoOn
<1> QED
  BY <1>1, <1>2, <1>3, <1>4, <1>5

LEMMA SoleLeaves ==
    ASSUME IInv, Sole, Leaves, TalksGoOn, UNCHANGED <<kpqOpen, mishap>>
    PROVE  Sole'
<1>1. DoorShut => DoorShut'
  BY ListsLeave DEF DoorShut
<1> QED
  BY <1>1, LiveLeaves, ListsLeave DEF Sole

(* Nella opens the door for a leader whose instance is the only one with     *)
(* anybody on its list, and empties it.                                      *)
LEMMA SoleNella ==
    ASSUME IInv, Sole, NEW p \in Players, Nella(p)
    PROVE  Sole'
<1>1. Leaves /\ TalksGoOn /\ mishap' = mishap
  BY NellaKeeps DEF Nella
<1>2. CASE kpqOpen' = kpqOpen
  BY <1>1, <1>2, SoleLeaves
<1>3. CASE kpqOpen' # kpqOpen
  <2> SUFFICES ASSUME ~mishap PROVE Sole'
    BY <1>1 DEF Sole
  <2> DEFINE i == eim[p]
  <2>1. i # Null /\ (Live(i) => disbandParty(i))
    BY <1>3 DEF Nella
  <2>2. Live(i) /\ i \in Inst /\ chars' = [chars EXCEPT ![i] = {}]
    BY <2>1 DEF Sole, LiveOnly, Live, disbandParty
  <2>3. \A j \in Inst : chars[j] # {} => j = i
    BY <2>2 DEF IInv, Registered, Sole, OneList
  <2>4. \A j \in Inst : chars'[j] = {}
    BY <2>2, <2>3 DEF IInv, TypeOK
  <2> QED
    BY <1>1, <2>4, LiveLeaves, ListsLeave DEF Sole, DoorShut
<1> QED
  BY <1>2, <1>3

LEMMA SoleTimeOut ==
    ASSUME IInv, Sole, NEW i \in Inst, timeOut(i)
    PROVE  Sole'
<1> SUFFICES ASSUME ~mishap PROVE Sole'
  BY DEF timeOut, door, Sole
<1>1. /\ UNCHANGED <<kpqOpen, mishap, start>>
      /\ chars' = [chars EXCEPT ![i] = {}]
      /\ eim' = [q \in Players |-> IF q \in chars[i] \ {Null} THEN Null ELSE eim[q]]
      /\ phase' = [phase EXCEPT ![i] = IF Null \in chars[i] THEN @ ELSE "disposed"]
  BY DEF timeOut, door, playerExit
<1>2. \A j \in Inst : chars'[j] # {} => chars[j] # {}
  BY <1>1 DEF IInv, TypeOK
<1>3. OneTalk' /\ TalkFirst' /\ DoorShut' /\ OneList'
  BY <1>1, <1>2 DEF Sole, OneTalk, TalkFirst, DoorShut, OneList, NoTalk
<1>4. ASSUME NEW q \in Players, eim'[q] # Null PROVE Live(eim[q])'
  <2>1. eim'[q] = eim[q] /\ q \notin chars[i] \ {Null} /\ Live(eim[q])
    BY <1>1, <1>4 DEF Sole, LiveOnly
  <2>2. q \in chars[eim[q]] /\ eim[q] \in Inst /\ q # Null
    BY <2>1, NullAssumption DEF IInv, Registered, Live
  <2>3. eim[q] # i
    BY <2>1, <2>2
  <2> QED
    BY <1>1, <2>1, <2>2, <2>3 DEF Live, IInv, TypeOK
<1> QED
  BY <1>3, <1>4 DEF Sole, LiveOnly

(* A talk that begins alone, with the door open, finds all lists empty. *)
LEMMA SoleLakelis ==
    ASSUME IInv, Sole, NEW p \in Players, NEW i \in Inst, Lakelis(p, i)
    PROVE  Sole'
<1> SUFFICES ASSUME ~mishap' PROVE Sole'
  BY DEF Sole
<1> DEFINE w == [inst |-> i, party |-> party[p], seen |-> members[party[p]],
                 todo |-> members[party[p]], stale |-> FALSE]
<1>1. /\ ~mishap /\ NoTalk /\ kpqOpen /\ UNCHANGED <<kpqOpen, chars, eim>>
      /\ phase' = [phase EXCEPT ![i] = "live"]
      /\ start' = [start EXCEPT ![p] = w]
  BY DEF Lakelis, NoTalk, players
<1>2. w # Null
  <2>1. party[p] \in Parties
    BY DEF Lakelis, IsLeader, IInv, TypeOK
  <2>2. w \in Walks
    BY <2>1 DEF Walks, IInv, TypeOK
  <2> QED
    BY <2>2, WalkAssumption
<1> HIDE DEF w
<1>3. \A j \in Inst : chars'[j] = {}
  BY <1>1 DEF Sole, DoorShut
<1>4. \A q \in Players : start'[q] # Null => q = p
  BY <1>1 DEF NoTalk, IInv, TypeOK
<1>5. LiveOnly'
  BY <1>1 DEF Sole, LiveOnly, Live, IInv, TypeOK
<1> QED
  BY <1>3, <1>4, <1>5 DEF Sole, OneTalk, TalkFirst, DoorShut, OneList

(* A member is put on the list of the instance of the only talk. *)
LEMMA SoleRegister ==
    ASSUME IInv, Sole, NEW p \in Players, NEW q \in Players, registerPlayer(p, q)
    PROVE  Sole'
<1> SUFFICES ASSUME ~mishap' PROVE Sole'
  BY DEF Sole
<1> DEFINE i == start[p].inst
<1>1. /\ ~mishap /\ start[p] # Null /\ Live(i) /\ UNCHANGED <<kpqOpen, phase>>
      /\ chars' = [chars EXCEPT ![i] = @ \cup {q}]
      /\ eim' = [eim EXCEPT ![q] = i]
      /\ start' = [start EXCEPT ![p].todo = @ \ {q}]
  BY DEF registerPlayer, Throws
<1>2. i \in Inst /\ start[p] \in Walks
  BY <1>1 DEF IInv, TypeOK, Walks
<1>3. /\ start'[p] # Null /\ start'[p].inst = i
      /\ \A r \in Players : r # p => start'[r] = start[r]
  <2>1. /\ start'[p] = [start[p] EXCEPT !.todo = @ \ {q}]
        /\ \A r \in Players : r # p => start'[r] = start[r]
    BY <1>1 DEF IInv, TypeOK
  <2>2. start'[p] \in Walks /\ start'[p].inst = i
    BY <1>2, <2>1 DEF Walks
  <2> QED
    BY <2>1, <2>2, WalkAssumption
<1>4. \A r \in Players : start'[r] # Null => r = p
  BY <1>1, <1>3 DEF Sole, OneTalk
<1>5. \A j \in Inst : chars'[j] # {} => j = i
  BY <1>1, <1>2 DEF Sole, TalkFirst, IInv, TypeOK
<1>6. LiveOnly'
  BY <1>1, <1>2 DEF Sole, LiveOnly, Live, IInv, TypeOK
<1> QED
  BY <1>3, <1>4, <1>5, <1>6 DEF Sole, OneTalk, TalkFirst, DoorShut, OneList, NoTalk

LEMMA SoleShut ==
    ASSUME IInv, Sole, NEW p \in Players, ShutDoor(p)
    PROVE  Sole'
<1>1. /\ start' = [start EXCEPT ![p] = Null] /\ kpqOpen' = FALSE
      /\ UNCHANGED <<mishap, chars, eim, phase>>
  BY DEF ShutDoor, instances, players
<1>2. \A r \in Players : start'[r] # Null => start'[r] = start[r]
  BY <1>1 DEF IInv, TypeOK
<1> QED
  BY <1>1, <1>2 DEF Sole, OneTalk, TalkFirst, DoorShut, OneList, LiveOnly, Live

LEMMA SoleStep == ASSUME IInv, Sole, [Next]_vars PROVE Sole'
<1>1. ASSUME NEW i \in Inst, timeOut(i) PROVE Sole'
  BY <1>1, SoleTimeOut
<1>2. ASSUME NEW p \in Players, NEW i \in Inst, Lakelis(p, i) PROVE Sole'
  BY <1>2, SoleLakelis
<1>3. ASSUME NEW p \in Players, NEW q \in Players, registerPlayer(p, q) PROVE Sole'
  BY <1>3, SoleRegister
<1>4. ASSUME NEW p \in Players, ListChanged(p) PROVE Sole'
  BY <1>4 DEF ListChanged, Throws, Sole
<1>5. ASSUME NEW p \in Players, ShutDoor(p) PROVE Sole'
  BY <1>5, SoleShut
<1>6. ASSUME NEW p \in Players,
             \/ Clear(p) \/ EnterPortal(p) \/ Arrive(p) \/ ShowPage(p) \/ ClickPage(p)
             \/ \E q \in Players \cup {Null} : ChangeLeader(p, q)
      PROVE  Sole'
  <2>1. UNCHANGED <<kpqOpen, mishap, phase, chars, eim, start>>
    BY <1>6 DEF Clear, EnterPortal, Arrive, ShowPage, ClickPage, ChangeLeader, door,
                instances, players
  <2> QED
    BY <2>1, SoleSame
<1>7. ASSUME NEW p \in Players, Nella(p) PROVE Sole'
  BY <1>7, SoleNella
<1>8. ASSUME NEW p \in Players,
             \/ playerRevive(p) \/ LeaveParty(p) \/ Disconnect(p) \/ Walk(p)
             \/ \E q \in Players : Expel(p, q)
             \/ \E k \in Parties : Join(p, k)
      PROVE  Sole'
  <2>1. Leaves /\ TalksGoOn
    BY <1>8, PlayerReviveKeeps, LeavePartyKeeps, DisconnectKeeps, WalkKeeps, ExpelKeeps,
       JoinKeeps
  <2>2. UNCHANGED <<kpqOpen, mishap>>
    BY <1>8 DEF playerRevive, LeaveParty, Disconnect, Walk, Expel, Join, door
  <2> QED
    BY <2>1, <2>2, SoleLeaves
<1>9. CASE UNCHANGED vars
  BY <1>9, SoleSame DEF vars, door, instances, players
<1> QED
  BY <1>1, <1>2, <1>3, <1>4, <1>5, <1>6, <1>7, <1>8, <1>9 DEF Next

-----------------------------------------------------------------------------
LEMMA RoomFacts ==
    ASSUME TypeOK, NEW p \in Players, via[p] # Null
    PROVE  via[p] \in Rooms /\ via[p].inst \in Inst /\ via[p].stage \in 1..Bonus
BY PlaceFacts DEF TypeOK

(* Who leaves does not get into a stage. *)
LEMMA OnwardLeaves ==
    ASSUME IInv, ViaOnward, Leaves, via' = via
    PROVE  /\ ViaOnward'
           /\ \A p \in Players, i \in Inst : Inside(p, i)' => at'[p] = at[p]
<1>1. ASSUME NEW p \in Players, NEW i \in Inst, at'[p].inst = i PROVE at'[p] = at[p]
  BY <1>1, PlaceFacts DEF Leaves
<1>2. \A p \in Players : via[p] # Null => via[p].inst \in Inst
  BY RoomFacts DEF IInv
<1> QED
  BY <1>1, <1>2 DEF ViaOnward, Inside

(* A stage that does not change. *)
LEMMA OnwardSame ==
    ASSUME ViaOnward, UNCHANGED <<at, via>>
    PROVE  ViaOnward'
BY DEF ViaOnward

LEMMA OnwardTimeOut ==
    ASSUME IInv, ViaOnward, NEW j \in Inst, timeOut(j)
    PROVE  /\ ViaOnward'
           /\ \A p \in Players, i \in Inst : Inside(p, i)' => at'[p] = at[p]
<1>1. via' = via /\ \A p \in Players : at'[p] = at[p] \/ at'[p] = Exit
  BY DEF timeOut, playerExit
<1>2. Exit.inst \notin Inst
  BY PlaceFacts
<1>3. \A p \in Players : via[p] # Null => via[p].inst \in Inst
  BY RoomFacts DEF IInv
<1> QED
  BY <1>1, <1>2, <1>3 DEF ViaOnward, Inside

(* Who is registered comes from Kerning, where no portal leads from. *)
LEMMA OnwardRegister ==
    ASSUME IInv, ViaOnward, NEW r \in Players, NEW q \in Players, registerPlayer(r, q)
    PROVE  /\ ViaOnward'
           /\ \A p \in Players, i \in Inst :
                Inside(p, i) /\ Inside(p, i)' => at'[p] = at[p]
<1>1. /\ via' = via
      /\ at' = at \/ (at[q] = Kerning /\ \A p \in Players : p # q => at'[p] = at[p])
  BY DEF registerPlayer, IInv, TypeOK
<1>2. at[q] = Kerning => via[q] = Null /\ at[q].inst \notin Inst
  BY PlaceFacts DEF IInv, OneInstance
<1> QED
  BY <1>1, <1>2 DEF ViaOnward, Inside

LEMMA OnwardPortal ==
    ASSUME IInv, ViaOnward, NEW p \in Players, EnterPortal(p) \/ ClickPage(p)
    PROVE  ViaOnward' /\ at' = at
<1>0. at[p] \in Places /\ at' = at
  BY DEF EnterPortal, ClickPage, IInv, TypeOK
<1>1. CASE via' = via
  BY <1>0, <1>1, OnwardSame
<1>2. ASSUME NEW k \in 1..Bonus, eim[p] \in Inst, via' = [via EXCEPT ![p] = Stage(eim[p], k)],
             at[p].stage <= k
      PROVE  ViaOnward'
  <2>1. via'[p].stage = k /\ \A q \in Players : q # p => via'[q] = via[q]
    BY <1>2, PlaceFacts DEF IInv, TypeOK
  <2> QED
    BY <1>0, <1>2, <2>1 DEF ViaOnward
<1>3. CASE EnterPortal(p)
  <2> DEFINE k == at[p].stage
  <2>1. /\ k \in Stages /\ eim[p] \in Inst
        /\ via' = [via EXCEPT ![p] = Stage(eim[p], Next00(k).to)]
    BY <1>3 DEF EnterPortal, Live
  <2>2. Next00(k).to \in 1..Bonus /\ k <= Next00(k).to
    BY <2>1, StageAssumption DEF Next00, Stages, Bonus
  <2> QED
    BY <1>0, <1>2, <2>1, <2>2
<1>4. CASE ClickPage(p) /\ via' # via
  <2>1. eim[p] \in Inst /\ via' = [via EXCEPT ![p] = Stage(eim[p], Bonus)]
    BY <1>4 DEF ClickPage, Live
  <2>2. Bonus \in 1..Bonus /\ at[p].stage <= Bonus
    BY <1>0, PlaceFacts, StageAssumption DEF Bonus, Places
  <2> QED
    BY <1>0, <1>2, <2>1, <2>2
<1> QED
  BY <1>0, <1>1, <1>3, <1>4

LEMMA OnwardArrive ==
    ASSUME IInv, ViaOnward, NEW p \in Players, Arrive(p)
    PROVE  /\ ViaOnward'
           /\ \A q \in Players, i \in Inst :
                Inside(q, i) /\ Inside(q, i)' => at[q].stage <= at'[q].stage
<1>1. /\ via[p] # Null /\ via'[p] = Null /\ at'[p] = via[p]
      /\ \A q \in Players : q # p => at'[q] = at[q] /\ via'[q] = via[q]
  BY DEF Arrive, IInv, TypeOK
<1>2. \A q \in Players : at[q].stage <= at[q].stage
  <2>1. \A x \in Places : x.stage \in Nat
    BY PlaceFacts, StageAssumption DEF Places, Bonus
  <2> QED
    BY <2>1 DEF IInv, TypeOK
<1> QED
  BY <1>1, <1>2 DEF ViaOnward, Inside

(* What a step does to the stages people are in. *)
GoesForward ==
    /\ ViaOnward'
    /\ \A p \in Players, i \in Inst :
        Inside(p, i) /\ Inside(p, i)' => at[p].stage <= at'[p].stage

LEMMA OnwardStep == ASSUME IInv, ViaOnward, [Next]_vars PROVE GoesForward
<1>0. ASSUME ViaOnward',
             \A p \in Players, i \in Inst : Inside(p, i) /\ Inside(p, i)' => at'[p] = at[p]
      PROVE  GoesForward
  <2>1. \A x \in Places : x.stage \in Nat
    BY PlaceFacts, StageAssumption DEF Places, Bonus
  <2>2. \A p \in Players : at[p].stage <= at[p].stage
    BY <2>1 DEF IInv, TypeOK
  <2> QED
    BY <1>0, <2>2 DEF GoesForward
<1>1. ASSUME NEW i \in Inst, timeOut(i) PROVE GoesForward
  BY <1>0, <1>1, OnwardTimeOut
<1>2. ASSUME NEW p \in Players, NEW q \in Players, registerPlayer(p, q) PROVE GoesForward
  BY <1>0, <1>2, OnwardRegister
<1>3. ASSUME NEW p \in Players, EnterPortal(p) \/ ClickPage(p) PROVE GoesForward
  BY <1>0, <1>3, OnwardPortal DEF Inside
<1>4. ASSUME NEW p \in Players, Arrive(p) PROVE GoesForward
  BY <1>4, OnwardArrive DEF GoesForward
<1>5. ASSUME UNCHANGED <<at, via>> PROVE GoesForward
  BY <1>0, <1>5, OnwardSame
<1>6. ASSUME NEW p \in Players,
             \/ ListChanged(p) \/ ShutDoor(p) \/ Clear(p) \/ ShowPage(p)
             \/ \E i \in Inst : Lakelis(p, i)
             \/ \E q \in Players \cup {Null} : ChangeLeader(p, q)
      PROVE  GoesForward
  <2>1. UNCHANGED <<at, via>>
    BY <1>6 DEF ListChanged, ShutDoor, Clear, ShowPage, Lakelis, ChangeLeader, players
  <2> QED
    BY <1>5, <2>1
<1>7. ASSUME NEW p \in Players,
             \/ Nella(p) \/ playerRevive(p) \/ LeaveParty(p) \/ Disconnect(p) \/ Walk(p)
             \/ \E q \in Players : Expel(p, q)
             \/ \E k \in Parties : Join(p, k)
      PROVE  GoesForward
  <2>1. Leaves
    BY <1>7, NellaKeeps, PlayerReviveKeeps, LeavePartyKeeps, DisconnectKeeps, WalkKeeps,
       ExpelKeeps, JoinKeeps
  <2>2. via' = via
    BY <1>7 DEF Nella, playerRevive, LeaveParty, Disconnect, Walk, Expel, Join, players
  <2> QED
    BY <1>0, <2>1, <2>2, OnwardLeaves
<1>8. CASE UNCHANGED vars
  BY <1>5, <1>8 DEF vars, players
<1> QED
  BY <1>1, <1>2, <1>3, <1>4, <1>6, <1>7, <1>8 DEF Next

-----------------------------------------------------------------------------
LEMMA DoorInit == Init => DoorInv
<1>1. Init => Sole
  BY DEF Init, Sole, OneTalk, TalkFirst, DoorShut, OneList, LiveOnly
<1>2. Init => ViaOnward
  BY DEF Init, ViaOnward
<1> QED
  BY <1>1, <1>2, InitInv DEF DoorInv

LEMMA DoorKeeps == DoorInv /\ [Next]_vars => DoorInv'
<1>1. IInv /\ [Next]_vars => IInv'
  BY NextKeeps, StutterKeeps
<1>2. IInv /\ Sole /\ [Next]_vars => Sole'
  BY SoleStep
<1>3. IInv /\ ViaOnward /\ [Next]_vars => ViaOnward'
  BY OnwardStep DEF GoesForward
<1> QED
  BY <1>1, <1>2, <1>3 DEF DoorInv

LEMMA DoorAlways == Spec => []DoorInv
  BY DoorInit, DoorKeeps, PTL DEF Spec

(* One party is in the quest at a time, however many instances there are, as *)
(* long as no registration has thrown or overlapped another (9020000.js:75). *)
THEOREM QuestOneParty == Spec => []OneParty
<1>1. DoorInv => OneParty
  BY DEF DoorInv, IInv, InsideIsListed, Sole, OneList, OneParty, Occupied
<1> QED
  BY <1>1, DoorAlways, PTL

(* Nobody enters a stage of an instance that he has left behind: the prize   *)
(* before the bonus stage is not had twice (getPrize, 9020001.js:338).       *)
THEOREM QuestOnward == Spec => Onward
<1>1. DoorInv /\ [Next]_vars =>
        [\A p \in Players :
            at[p].inst = at'[p].inst => at[p].stage <= at'[p].stage]_vars
  <2> SUFFICES ASSUME DoorInv, [Next]_vars, NEW p \in Players, at[p].inst = at'[p].inst
               PROVE  at[p].stage <= at'[p].stage
    OBVIOUS
  <2>1. GoesForward
    BY OnwardStep DEF DoorInv
  <2>2. at[p] \in Places /\ at'[p] \in Places
    BY DoorKeeps DEF DoorInv, IInv, TypeOK
  <2>3. CASE at[p].inst \in Inst
    BY <2>1, <2>3 DEF GoesForward, Inside
  <2>4. CASE at[p].inst \notin Inst
    <3>1. \A x \in Places : x.inst \notin Inst => x.stage = 0
      BY PlaceFacts DEF Places
    <3> QED BY <2>2, <2>4, <3>1
  <2> QED BY <2>3, <2>4
<1> QED
  BY <1>1, DoorAlways, PTL DEF Spec, Onward
=============================================================================
