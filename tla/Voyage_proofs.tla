---------------------------- MODULE Voyage_proofs ----------------------------
(***************************************************************************)
(* For any services, travellers, maps and tickets: the state keeps its     *)
(* types, and a loop over the characters of a map that ends without        *)
(* throwing has emptied it of those who were there.                        *)
(***************************************************************************)
EXTENDS Voyage, FiniteSetTheorems, TLAPS

(* The characters of a map are numbered without gaps above or repetition.  *)
PlacesOK ==
    /\ \A p \in Travellers : 1 <= order[p] /\ order[p] <= Cardinality(On(where[p]))
    /\ \A p, q \in Travellers :
          where[p] = where[q] /\ order[p] = order[q] => p = q

(* While nothing has changed the map, the iterator's link is the first of  *)
(* those it has not returned; it has returned at most one.                 *)
LinkOK ==
    (iter # Null /\ ~iter.stale) =>
        /\ hand = Null => IsFirst(iter.next, On(iter.room))
        /\ hand # Null =>
              /\ hand \in On(iter.room)
              /\ IsFirst(hand, On(iter.room))
              /\ IsFirst(iter.next, {q \in On(iter.room) : order[q] > order[hand]})

HandOK == hand # Null => iter # Null /\ AtStep("carry")

IInv == TypeOK /\ PlacesOK /\ LinkOK /\ HandOK /\ LoopEmpties

(* The step the function is at is a step of the script. *)
LEMMA StepType ==
    ASSUME TypeOK, Running, pc <= Len(Program)
    PROVE  /\ Step \in Steps
           /\ Step.do = "arm" => Step.job \in DOMAIN line.code
           /\ DOMAIN line.code \subseteq Jobs
<1>1. line \in Lines /\ job \in DOMAIN line.code /\ pc \in Nat \ {0}
  BY DEF TypeOK, Running
<1>2. pc \in 1..Len(line.code[job])
  <2>1. Len(line.code[job]) \in Nat \/ pc \in 1..Len(line.code[job])
    BY <1>1 DEF Program
  <2> QED BY <1>1, <2>1 DEF Program
<1> QED BY <1>1, <1>2, VoyageConstants DEF Step, Program

(* The characters of the maps after a change of map. *)
LEMMA OnAfter ==
    ASSUME TypeOK, NEW p \in Travellers, NEW to \in Rooms \cup {Null}, ChangeMap(p, to)
    PROVE  /\ where' \in [Travellers -> Rooms \cup {Null}]
           /\ On(to)' = On(to) \cup {p}
           /\ \A m : m # to => On(m)' = On(m) \ {p}
           /\ \A q \in Travellers \ {p} : where'[q] = where[q]
           /\ where'[p] = to
BY DEF TypeOK, ChangeMap, On

LEMMA OnFinite == \A m : IsFiniteSet(On(m)) /\ Cardinality(On(m)) \in Nat
<1> SUFFICES ASSUME NEW m PROVE IsFiniteSet(On(m)) /\ Cardinality(On(m)) \in Nat
  OBVIOUS
<1>1. On(m) \subseteq Travellers
  BY DEF On
<1> QED BY <1>1, VoyageConstants, FS_Subset, FS_CardinalityType

(* Whoever changes the map comes last on the new one, and those behind him *)
(* on the old one move up.                                                 *)
LEMMA PlacesKept ==
    ASSUME TypeOK, PlacesOK, NEW p \in Travellers, NEW to \in Rooms \cup {Null},
           ChangeMap(p, to)
    PROVE  order' \in [Travellers -> Nat] /\ PlacesOK'
<1> DEFINE old == where[p]
           n(m) == Cardinality(On(m))
           rest == Cardinality(On(to) \ {p})
<1>1. /\ where' \in [Travellers -> Rooms \cup {Null}]
      /\ On(to)' = On(to) \cup {p}
      /\ \A m : m # to => On(m)' = On(m) \ {p}
      /\ \A q \in Travellers \ {p} : where'[q] = where[q]
      /\ where'[p] = to
  BY OnAfter
<1>2. \A m : IsFiniteSet(On(m)) /\ n(m) \in Nat
  BY OnFinite
<1>3. p \in On(old)
  BY DEF On
<1>4. Cardinality(On(old) \ {p}) = n(old) - 1
  BY <1>2, <1>3, FS_RemoveElement
<1>5. rest \in Nat /\ Cardinality(On(to)') = rest + 1
  <2>1. IsFiniteSet(On(to) \ {p})
    BY <1>2, FS_RemoveElement
  <2>2. On(to)' = (On(to) \ {p}) \cup {p}
    BY <1>1
  <2> QED BY <2>1, <2>2, FS_AddElement, FS_CardinalityType
<1>6. rest = IF to = old THEN n(old) - 1 ELSE n(to)
  <2>1. CASE to = old
    BY <2>1, <1>4
  <2>2. CASE to # old
    <3>1. p \notin On(to)
      BY <2>2 DEF On
    <3>2. On(to) \ {p} = On(to)
      BY <3>1
    <3> QED BY <2>2, <3>2
  <2> QED BY <2>1, <2>2
<1>7. \A q \in Travellers : order[q] \in Nat /\ 1 <= order[q] /\ order[q] <= n(where[q])
  BY DEF TypeOK, PlacesOK
<1>8. order' = [q \in Travellers |->
                   IF q = p THEN rest + 1
                   ELSE IF where[q] = old /\ order[q] > order[p]
                        THEN order[q] - 1 ELSE order[q]]
  BY DEF ChangeMap
<1> HIDE DEF old, n, rest
<1>9. order' \in [Travellers -> Nat]
  BY <1>5, <1>7, <1>8
(* The others on a map: how far their numbers go. *)
<1>10. ASSUME NEW q \in Travellers, q # p, NEW m \in Rooms \cup {Null}, where[q] = m
       PROVE  /\ 1 <= order'[q]
              /\ order'[q] <= Cardinality(On(m)')
              /\ m = to => order'[q] <= rest
  <2>1. n(m) \in Nat /\ n(old) \in Nat /\ order[p] \in Nat /\ order[q] \in Nat
    BY <1>2, <1>7
  <2>2. 1 <= order[q] /\ order[q] <= n(m)
    BY <1>7, <1>10
  <2>3. m = old => order[q] # order[p]
    BY <1>10 DEF PlacesOK, old
  <2>4. 1 <= order[p] /\ order[p] <= n(old)
    BY <1>7 DEF old
  <2>5. order'[q] = IF m = old /\ order[q] > order[p] THEN order[q] - 1 ELSE order[q]
    BY <1>8, <1>10
  <2>6. 1 <= order'[q]
    BY <2>1, <2>2, <2>4, <2>5
  <2>7. CASE m = to
    <3>1. order'[q] <= rest
      BY <1>6, <2>1, <2>2, <2>3, <2>4, <2>5, <2>7
    <3>2. order'[q] \in Nat
      BY <1>9
    <3> QED BY <1>5, <2>6, <2>7, <3>1, <3>2
  <2>8. CASE m # to
    <3>1. Cardinality(On(m)') = IF m = old THEN n(m) - 1 ELSE n(m)
      <4>1. On(m)' = On(m) \ {p}
        BY <1>1, <2>8
      <4>2. CASE m = old
        BY <1>4, <4>1, <4>2
      <4>3. CASE m # old
        <5>1. p \notin On(m)
          BY <4>3 DEF On, old
        <5>2. On(m) \ {p} = On(m)
          BY <5>1
        <5> QED BY <4>1, <4>3, <5>2 DEF n
      <4> QED BY <4>2, <4>3
    <3> QED BY <2>1, <2>2, <2>3, <2>4, <2>5, <2>6, <2>8, <3>1
  <2> QED BY <2>7, <2>8
<1>11. order'[p] = rest + 1
  BY <1>8
<1>12. ASSUME NEW q \in Travellers PROVE 1 <= order'[q] /\ order'[q] <= Cardinality(On(where[q]))'
  <2>1. CASE q = p
    <3>1. Cardinality(On(where[q]))' = Cardinality(On(to)')
      BY <1>1, <2>1 DEF On
    <3> QED BY <1>5, <1>11, <2>1, <3>1
  <2>2. CASE q # p
    <3>1. PICK m \in Rooms \cup {Null} : m = where[q]
      BY DEF TypeOK
    <3>2. Cardinality(On(where[q]))' = Cardinality(On(m)')
      BY <1>1, <2>2, <3>1 DEF On
    <3> QED BY <1>10, <2>2, <3>1, <3>2
  <2> QED BY <2>1, <2>2
<1>13. ASSUME NEW q \in Travellers, NEW r \in Travellers,
              where'[q] = where'[r], order'[q] = order'[r]
       PROVE  q = r
  <2>1. ASSUME NEW s \in Travellers, s # p, where'[s] = to PROVE order'[s] # rest + 1
    <3>1. where[s] = to
      BY <1>1, <2>1
    <3>2. order'[s] <= rest
      BY <1>10, <2>1, <3>1
    <3> QED BY <1>5, <1>9, <3>2
  <2>2. CASE q = p \/ r = p
    BY <1>1, <1>11, <1>13, <2>1, <2>2
  <2>3. CASE q # p /\ r # p
    <3>1. where[q] = where[r]
      BY <1>1, <1>13, <2>3
    <3>2. /\ order[q] \in Nat /\ order[r] \in Nat /\ order[p] \in Nat
          /\ order[q] = order[r] => q = r
          /\ where[q] = old => order[q] # order[p] /\ order[r] # order[p]
      BY <1>7, <2>3, <3>1 DEF PlacesOK, old
    <3>3. /\ order'[q] = IF where[q] = old /\ order[q] > order[p] THEN order[q] - 1 ELSE order[q]
          /\ order'[r] = IF where[q] = old /\ order[r] > order[p] THEN order[r] - 1 ELSE order[r]
      BY <1>8, <2>3, <3>1
    <3>4. order'[q] = order'[r]
      BY <1>13
    <3>5. order[q] = order[r]
      BY <3>2, <3>3, <3>4
    <3> QED BY <3>2, <3>5
  <2> QED BY <2>2, <2>3
<1> QED BY <1>9, <1>12, <1>13 DEF PlacesOK

(* A traveller who changes map by himself leaves the loop's promise good.  *)
LEMMA LoopKept ==
    ASSUME IInv, NEW p \in Travellers, NEW to \in Rooms \cup {Null},
           ChangeMap(p, to), hand' = hand
    PROVE  /\ iter' \in Iterators \cup {Null}
           /\ iter' = Null <=> iter = Null
           /\ LinkOK' /\ LoopEmpties'
<1> USE DEF IInv
<1>1. /\ On(to)' = On(to) \cup {p}
      /\ \A m : m # to => On(m)' = On(m) \ {p}
      /\ \A q \in Travellers \ {p} : where'[q] = where[q]
  BY OnAfter
<1>2. CASE iter = Null
  BY <1>2 DEF ChangeMap, LinkOK, LoopEmpties
<1>3. CASE iter # Null /\ iter.room \in {where[p], to}
  <2>1. /\ iter \in Iterators
        /\ iter' = [room |-> iter.room, next |-> iter.next, stale |-> TRUE,
                    came |-> iter.came \cup (IF to = iter.room THEN {p} ELSE {})]
    BY <1>3 DEF TypeOK, ChangeMap
  <2>2. /\ iter' \in Iterators
        /\ iter'.stale /\ iter'.room = iter.room /\ iter'.next = iter.next
        /\ iter'.came = iter.came \cup (IF to = iter.room THEN {p} ELSE {})
    BY <2>1 DEF Iterators
  <2>3. LinkOK'
    BY <2>2 DEF LinkOK
  <2>4. On(iter.room)' \subseteq On(iter.room) \cup (IF to = iter.room THEN {p} ELSE {})
    <3>1. PICK m \in Rooms : m = iter.room
      BY <2>1 DEF Iterators
    <3>2. m = iter'.room
      BY <3>1, <2>2
    <3>3. On(m)' \subseteq On(m) \cup (IF to = m THEN {p} ELSE {})
      BY <1>1
    <3> QED BY <3>1, <3>2, <3>3 DEF On
  <2>5. LoopEmpties'
    BY <1>3, <2>2, <2>4 DEF LoopEmpties
  <2>6. iter' # Null
    BY <2>2, VoyageConstants
  <2> QED BY <1>3, <2>2, <2>3, <2>5, <2>6
<1>4. CASE iter # Null /\ iter.room \notin {where[p], to}
  <2>1. iter' = iter
    BY <1>4 DEF ChangeMap
  <2>2. iter \in Iterators
    BY <1>4 DEF TypeOK
  <2>3. On(iter.room)' = On(iter.room) /\ p \notin On(iter.room)
    <3>1. PICK m \in Rooms : m = iter.room
      BY <2>2 DEF Iterators
    <3>2. p \notin On(m) /\ On(m)' = On(m) \ {p}
      BY <1>1, <1>4, <3>1 DEF On
    <3>3. On(m)' = On(m)
      BY <3>2
    <3> QED BY <2>1, <3>1, <3>2, <3>3 DEF On
  <2>4. \A q \in On(iter.room) : order'[q] = order[q]
    BY <1>4, <2>3 DEF ChangeMap, On
  <2>5. LoopEmpties'
    BY <2>1, <2>3 DEF LoopEmpties
  <2>6. LinkOK'
    BY <2>1, <2>3, <2>4 DEF LinkOK, IsFirst
  <2> QED BY <2>1, <2>2, <2>5, <2>6
<1> QED BY <1>2, <1>3, <1>4

LEMMA InvInit == Init => IInv
<1> SUFFICES ASSUME Init PROVE IInv
  OBVIOUS
<1>1. Cardinality(Travellers) \in Nat
  BY VoyageConstants, FS_CardinalityType
<1>2. line \in Lines /\ "init" \in DOMAIN line.code /\ Docks \subseteq Rooms
  BY VoyageConstants DEF Init, Docks, DocksOf
<1>3. where \in [Travellers -> Rooms \cup {Null}]
  BY <1>2 DEF Init
<1>4. order \in [Travellers -> Nat] /\ \A p \in Travellers : 1 <= order[p]
  BY <1>1 DEF Init
<1>5. /\ props \in [Keys -> Values \cup {Null}]
      /\ due \in [Jobs -> Nat \cup {Null}] /\ \A j \in Jobs : due[j] = Null
      /\ talk \in [Travellers -> Conversations \cup {Null}]
      /\ bag \in [Travellers -> SUBSET Tickets]
  BY DEF Init
<1>6. TypeOK
  <2>1. /\ job \in DOMAIN line.code /\ pc \in Nat \ {0} /\ iter = Null /\ hand = Null
        /\ late \subseteq Travellers /\ slipped \subseteq Travellers
    BY <1>2 DEF Init
  <2>2. broken \in BOOLEAN
    BY DEF Init
  <2> QED BY <1>2, <1>3, <1>4, <1>5, <2>1, <2>2 DEF TypeOK
<1>7. ASSUME NEW p \in Travellers, NEW q \in Travellers,
             where[p] = where[q], order[p] = order[q]
      PROVE  p = q
  <2>1. q \in On(where[p])
    BY <1>7 DEF On
  <2> QED BY <1>7, <2>1 DEF Init
<1>8. PlacesOK
  BY <1>4, <1>7 DEF Init, PlacesOK
<1> QED BY <1>6, <1>8 DEF Init, IInv, LinkOK, HandOK, LoopEmpties

(* The timer thread between two statements of its function. *)
LEMMA TimerKeeps ==
    ASSUME IInv,
           (\E j \in Jobs : Fire(j)) \/ DoPut \/ DoPerhaps \/ DoArm
              \/ LoopEnds \/ LoopThrows \/ FunctionReturns
    PROVE  IInv'
<1> USE VoyageConstants DEF IInv, people
<1>1. ASSUME NEW j \in Jobs, Fire(j) PROVE IInv'
  <2>1. TypeOK'
    BY <1>1 DEF Fire, TypeOK
  <2>2. hand = Null
    BY <1>1 DEF HandOK, AtStep, Fire
  <2>3. PlacesOK' /\ LinkOK' /\ LoopEmpties'
    BY <1>1, <2>2 DEF Fire, PlacesOK, LinkOK, LoopEmpties, On, IsFirst
  <2> QED BY <1>1, <2>1, <2>2, <2>3 DEF HandOK, Fire
<1>2. ASSUME DoPut \/ DoPerhaps \/ DoArm PROVE IInv'
  <2>1. Running /\ pc <= Len(Program) /\ Step.do # "carry"
    BY <1>2 DEF DoPut, DoPerhaps, DoArm, AtStep
  <2>2. /\ Step \in Steps
        /\ Step.do = "arm" => Step.job \in DOMAIN line.code
        /\ DOMAIN line.code \subseteq Jobs
    BY <2>1, StepType
  <2>3. hand = Null
    BY <2>1 DEF HandOK, AtStep
  <2>4. TypeOK'
    <3>1. CASE DoPut \/ DoPerhaps
      <4>1. Step.key \in Keys /\ Step.val \in Values
        BY <2>2, <3>1 DEF DoPut, DoPerhaps, AtStep, Steps
      <4>2. props' \in [Keys -> Values \cup {Null}] /\ pc' \in Nat \ {0}
        <5>1. /\ props \in [Keys -> Values \cup {Null}] /\ pc \in Nat \ {0}
              /\ props' = [props EXCEPT ![Step.key] = Step.val] \/ props' = props
              /\ pc' = pc + 1
          BY <3>1 DEF DoPut, DoPerhaps, TypeOK
        <5> HIDE VoyageConstants
        <5> QED BY <4>1, <5>1
      <4> QED BY <3>1, <4>2 DEF DoPut, DoPerhaps, TypeOK
    <3>2. CASE DoArm
      <4>1. Step.job \in DOMAIN line.code /\ Step.in \in Nat
        BY <2>2, <3>2 DEF DoArm, AtStep, Steps
      <4> QED BY <2>2, <3>2, <4>1 DEF DoArm, TypeOK
    <3> QED BY <1>2, <3>1, <3>2
  <2>5. UNCHANGED <<iter, hand, where, order>>
    BY <1>2 DEF DoPut, DoPerhaps, DoArm
  <2>6. PlacesOK' /\ LinkOK' /\ LoopEmpties'
    BY <2>5 DEF PlacesOK, LinkOK, LoopEmpties, On, IsFirst
  <2> QED BY <2>3, <2>4, <2>5, <2>6 DEF HandOK
<1>3. ASSUME LoopEnds \/ LoopThrows \/ FunctionReturns PROVE IInv'
  <2>1. hand = Null
    BY <1>3 DEF LoopEnds, LoopThrows, FunctionReturns, HandOK, AtStep, TypeOK
  <2>2. TypeOK'
    <3>1. CASE LoopEnds
      BY <3>1 DEF LoopEnds, TypeOK
    <3>2. CASE LoopThrows
      BY <3>2 DEF LoopThrows, TypeOK
    <3>3. CASE FunctionReturns
      BY <3>3 DEF FunctionReturns, TypeOK
    <3> QED BY <1>3, <3>1, <3>2, <3>3
  <2>3. UNCHANGED <<hand, where, order>> /\ iter' \in {iter, Null}
    BY <1>3 DEF LoopEnds, LoopThrows, FunctionReturns
  <2>4. PlacesOK' /\ LinkOK' /\ LoopEmpties'
    BY <2>3 DEF PlacesOK, LinkOK, LoopEmpties, On, IsFirst
  <2> QED BY <2>1, <2>2, <2>3, <2>4 DEF HandOK
<1> QED BY <1>1, <1>2, <1>3

(* The loop over the characters of a map. *)
LEMMA IteratorKeeps == ASSUME IInv, Iterator PROVE IInv'
<1> USE VoyageConstants DEF IInv, people
<1>1. hand = Null /\ iter = Null
  BY DEF HandOK, Iterator
<1>2. Step.from \in Rooms
  BY StepType DEF Iterator, AtStep, Steps
<1>3. PICK p \in Travellers \cup {Null} :
         /\ IsFirst(p, On(Step.from))
         /\ iter' = [room |-> Step.from, next |-> p, stale |-> FALSE, came |-> {}]
  BY DEF Iterator
<1>4. /\ iter' \in Iterators /\ iter'.room = Step.from /\ iter'.next = p
      /\ ~iter'.stale /\ iter'.came = {}
  BY <1>2, <1>3 DEF Iterators
<1>5. UNCHANGED <<line, props, due, job, pc, hand, where, order>>
  BY DEF Iterator
<1>6. TypeOK'
  BY <1>4 DEF Iterator, TypeOK
<1>7. PICK m \in Rooms : m = Step.from
  BY <1>2
<1>8. On(m)' = On(m)
  BY <1>5 DEF On
<1>9. LinkOK'
  BY <1>1, <1>3, <1>4, <1>5, <1>7, <1>8 DEF LinkOK, IsFirst
<1>10. LoopEmpties'
  BY <1>3, <1>4, <1>5, <1>7, <1>8 DEF LoopEmpties, IsFirst, On
<1>11. PlacesOK'
  BY <1>5 DEF PlacesOK, On
<1> QED BY <1>1, <1>5, <1>6, <1>9, <1>10, <1>11 DEF HandOK

LEMMA NextKeeps == ASSUME IInv, NextCharacter PROVE IInv'
<1> USE VoyageConstants DEF IInv, people
<1>1. /\ hand = Null /\ iter # Null /\ iter.next # Null /\ ~iter.stale /\ iter \in Iterators
      /\ hand' = iter.next
      /\ UNCHANGED <<line, props, due, job, pc, where, order>>
      /\ AtStep("carry")
  BY DEF NextCharacter, TypeOK
<1>2. PICK p \in Travellers \cup {Null} :
         /\ IsFirst(p, {q \in On(iter.room) : order[q] > order[iter.next]})
         /\ iter' = [iter EXCEPT !.next = p]
  BY DEF NextCharacter
<1>3. /\ iter' \in Iterators /\ iter'.room = iter.room /\ iter'.next = p
      /\ ~iter'.stale /\ iter'.came = iter.came
  BY <1>1, <1>2 DEF Iterators
<1>4. IsFirst(iter.next, On(iter.room))
  BY <1>1 DEF LinkOK
<1>5. iter.next \in On(iter.room) /\ iter.next \in Travellers
  BY <1>1, <1>4 DEF IsFirst, On
<1>6. On(iter.room)' = On(iter.room)
  BY <1>1, <1>3 DEF On
<1>7. TypeOK'
  BY <1>1, <1>3, <1>5 DEF NextCharacter, TypeOK
<1>8. LinkOK'
  BY <1>1, <1>2, <1>3, <1>4, <1>5, <1>6 DEF LinkOK, IsFirst
<1>9. ASSUME p = Null, NEW q \in On(iter.room) PROVE q = iter.next
  <2>1. ~(order[q] > order[iter.next])
    BY <1>2, <1>9 DEF IsFirst, On
  <2>2. order[iter.next] <= order[q]
    BY <1>4, <1>9 DEF IsFirst
  <2>3. q \in Travellers /\ order[q] \in Nat /\ order[iter.next] \in Nat
    BY <1>5, <1>9 DEF On, TypeOK
  <2>4. order[q] = order[iter.next] /\ where[q] = where[iter.next]
    BY <1>5, <1>9, <2>1, <2>2, <2>3 DEF On
  <2> QED BY <1>5, <2>3, <2>4 DEF PlacesOK
<1>10. LoopEmpties'
  BY <1>1, <1>3, <1>6, <1>9 DEF LoopEmpties
<1>11. PlacesOK'
  BY <1>1 DEF PlacesOK, On
<1>12. HandOK'
  BY <1>1, <1>3 DEF HandOK, AtStep, Running, Step, Program
<1> QED BY <1>7, <1>8, <1>10, <1>11, <1>12

LEMMA CarryKeeps == ASSUME IInv, CarryHand PROVE IInv'
<1> USE VoyageConstants DEF IInv, people
<1>1. /\ hand \in Travellers /\ hand # Null /\ hand' = Null /\ iter # Null /\ iter \in Iterators
      /\ UNCHANGED <<line, props, due, job, pc, talk, bag, broken>>
  BY DEF CarryHand, TypeOK, HandOK
<1>2. Step.to \in Rooms
  BY <1>1, StepType DEF HandOK, AtStep, Steps
<1>3. PICK p \in Travellers : p = hand
  BY <1>1
<1>4. ~iter.stale => where[p] = iter.room
  BY <1>1, <1>3 DEF LinkOK, On
<1>5. CASE where[p] = Null
  <2>1. UNCHANGED <<iter, where, order, late, slipped>>
    BY <1>1, <1>3, <1>5 DEF CarryHand
  <2>2. TypeOK'
    BY <1>1, <2>1 DEF TypeOK
  <2>3. iter.stale
    BY <1>1, <1>4, <1>5 DEF Iterators
  <2>4. p \notin On(iter.room)
    BY <1>1, <1>5 DEF On, Iterators
  <2>5. LinkOK' /\ PlacesOK' /\ HandOK'
    BY <1>1, <2>1, <2>3 DEF LinkOK, PlacesOK, On, HandOK
  <2>6. LoopEmpties'
    BY <1>3, <2>1, <2>4 DEF LoopEmpties, On
  <2> QED BY <2>2, <2>5, <2>6
<1>6. CASE where[p] # Null
  <2>1. PICK m \in Rooms : m = Step.to
    BY <1>2
  <2>2. ChangeMap(p, m) /\ late' \subseteq late /\ slipped' \subseteq slipped
    BY <1>1, <1>3, <1>6, <2>1 DEF CarryHand
  <2>3. order' \in [Travellers -> Nat] /\ PlacesOK'
    BY <2>2, PlacesKept
  <2>4. /\ where' \in [Travellers -> Rooms \cup {Null}]
        /\ On(m)' = On(m) \cup {p}
        /\ \A k : k # m => On(k)' = On(k) \ {p}
    BY <2>2, OnAfter
  <2>5. CASE iter.room \in {where[p], m}
    <3>1. /\ iter' \in Iterators /\ iter'.stale
          /\ iter'.room = iter.room /\ iter'.next = iter.next
          /\ iter'.came = iter.came \cup (IF m = iter.room THEN {p} ELSE {})
      BY <1>1, <2>2, <2>5 DEF ChangeMap, Iterators
    <3>2. TypeOK'
      BY <1>1, <2>2, <2>3, <2>4, <3>1 DEF TypeOK
    <3>3. PICK k \in Rooms : k = iter.room
      BY <1>1 DEF Iterators
    <3>4. On(iter.room)' = On(k)'
      BY <3>1, <3>3 DEF On
    <3>5. LoopEmpties'
      BY <1>1, <1>3, <2>4, <3>1, <3>3, <3>4 DEF LoopEmpties
    <3> QED BY <1>1, <2>3, <3>1, <3>2, <3>5 DEF LinkOK, HandOK
  <2>6. CASE iter.room \notin {where[p], m}
    <3>1. iter' = iter /\ iter.stale
      BY <1>4, <1>1, <2>2, <2>6 DEF ChangeMap, Iterators
    <3>2. TypeOK'
      BY <1>1, <2>2, <2>3, <2>4, <3>1 DEF TypeOK
    <3>3. PICK k \in Rooms : k = iter.room
      BY <1>1 DEF Iterators
    <3>4. On(iter.room)' = On(k)'
      BY <3>1, <3>3 DEF On
    <3>5. LoopEmpties'
      BY <1>1, <1>3, <2>4, <2>6, <3>1, <3>3, <3>4 DEF LoopEmpties
    <3> QED BY <1>1, <2>3, <3>1, <3>2, <3>5 DEF LinkOK, HandOK
  <2> QED BY <2>5, <2>6
<1> QED BY <1>5, <1>6

(* What a session does, in terms of the map its traveller goes to. *)
LEMMA SessionKeeps ==
    ASSUME IInv, NEW p \in Travellers, Session(p)
    PROVE  IInv'
<1> USE VoyageConstants DEF IInv, people, timer
<1>1. line \in Lines /\ \A s \in line.stops :
         s.dock \in Rooms /\ s.room \in Rooms /\ (s.sells # "none" => s.sells \in Tickets)
  BY DEF TypeOK
<1>2. ASSUME NEW to \in Rooms \cup {Null}, ChangeMap(p, to),
             UNCHANGED <<line, props, due, job, pc, hand, broken>>,
             late' \subseteq Travellers, slipped' \subseteq Travellers,
             talk' \in [Travellers -> Conversations \cup {Null}],
             bag' \in [Travellers -> SUBSET Tickets]
      PROVE  IInv'
  <2>1. order' \in [Travellers -> Nat] /\ PlacesOK'
    BY <1>2, PlacesKept
  <2>2. where' \in [Travellers -> Rooms \cup {Null}]
    BY <1>2, OnAfter
  <2>3. /\ iter' \in Iterators \cup {Null}
        /\ iter' = Null <=> iter = Null
        /\ LinkOK' /\ LoopEmpties'
    BY <1>2, LoopKept
  <2>4. TypeOK'
    BY <1>2, <2>1, <2>2, <2>3 DEF TypeOK
  <2>5. HandOK'
    BY <1>2, <2>3 DEF HandOK, AtStep, Running, Step, Program
  <2> QED BY <2>1, <2>3, <2>4, <2>5
<1>3. ASSUME UNCHANGED <<line, timer, people>>,
             talk' \in [Travellers -> Conversations \cup {Null}],
             bag' \in [Travellers -> SUBSET Tickets]
      PROVE  IInv'
  <2>1. TypeOK'
    BY <1>3 DEF TypeOK
  <2>2. PlacesOK' /\ LinkOK' /\ LoopEmpties' /\ HandOK'
    BY <1>3, ZenonT(60) DEF PlacesOK, LinkOK, LoopEmpties, HandOK, On, IsFirst, AtStep, Running, Step, Program
  <2> QED BY <2>1, <2>2
<1>4. ASSUME NEW s \in line.stops,
             AskToBoard(p, s) \/ Board(p, s) \/ WalkIn(p, s) \/ AskToBuy(p, s) \/ Buy(p, s)
      PROVE  IInv'
  <2>1. CASE AskToBoard(p, s) \/ AskToBuy(p, s)
    BY <1>3, <2>1 DEF AskToBoard, AskToBuy, TypeOK, Conversations
  <2>2. CASE Buy(p, s)
    <3>1. s.sells \in Tickets
      BY <1>1, <1>4, <2>2 DEF Buy
    <3>2. /\ bag' \in [Travellers -> SUBSET Tickets]
          /\ talk' \in [Travellers -> Conversations \cup {Null}]
      <4>1. talk' \in [Travellers -> Conversations \cup {Null}]
        BY <2>2 DEF Buy, TypeOK
      <4>2. bag \in [Travellers -> SUBSET Tickets]
        BY DEF TypeOK
      <4>3. bag' = bag \/ bag' = [bag EXCEPT ![p] = @ \cup {s.sells}]
        BY <2>2 DEF Buy
      <4>4. bag' \in [Travellers -> SUBSET Tickets]
        BY <3>1, <4>2, <4>3
      <4> QED BY <4>1, <4>4
    <3>3. UNCHANGED <<line, timer, people>>
      BY <2>2 DEF Buy
    <3> QED BY <1>3, <3>2, <3>3
  <2>3. CASE WalkIn(p, s)
    <3>1. ChangeMap(p, s.room) /\ late' \subseteq Travellers /\ slipped' \subseteq Travellers
      BY <2>3 DEF WalkIn, GetIn, TypeOK
    <3>2. s.room \in Rooms
      BY <1>1, <1>4
    <3>3. UNCHANGED <<line, props, due, job, pc, hand, broken>>
      BY <2>3 DEF WalkIn
    <3>4. /\ talk' \in [Travellers -> Conversations \cup {Null}]
          /\ bag' \in [Travellers -> SUBSET Tickets]
      BY <2>3 DEF WalkIn, TypeOK
    <3> QED BY <1>2, <3>1, <3>2, <3>3, <3>4
  <2>4. CASE Board(p, s)
    <3>1. talk' \in [Travellers -> Conversations \cup {Null}]
      BY <2>4 DEF Board, TypeOK
    <3>2. CASE s.takes = "none" \/ s.takes \in bag[p]
      <4>1. ChangeMap(p, s.room) /\ late' \subseteq Travellers /\ slipped' \subseteq Travellers
        BY <2>4, <3>2 DEF Board, GetIn, TypeOK
      <4>4. bag' \in [Travellers -> SUBSET Tickets]
        BY <2>4, <3>2, SMTT(60) DEF Board, TypeOK
      <4>2. s.room \in Rooms
        BY <1>1, <1>4
      <4>3. UNCHANGED <<line, props, due, job, pc, hand, broken>>
        BY <2>4 DEF Board
      <4> QED BY <1>2, <3>1, <4>1, <4>2, <4>3, <4>4
    <3>3. CASE ~(s.takes = "none" \/ s.takes \in bag[p])
      BY <1>3, <2>4, <3>1, <3>3 DEF Board, TypeOK
    <3> QED BY <3>2, <3>3
  <2> QED BY <1>4, <2>1, <2>2, <2>3, <2>4
<1>5. CASE SayNo(p) \/ AskToLeave(p)
  BY <1>3, <1>5 DEF SayNo, AskToLeave, TypeOK, Conversations
<1>6. CASE DropTicket(p)
  BY <1>3, <1>6 DEF DropTicket, TypeOK
<1>7. CASE LeaveRoom(p)
  <2>1. line.exits[where[p]] \in Rooms
    BY <1>1, <1>7 DEF LeaveRoom
  <2>2. /\ ChangeMap(p, line.exits[where[p]])
        /\ late' \subseteq Travellers /\ slipped' \subseteq Travellers
        /\ talk' \in [Travellers -> Conversations \cup {Null}]
        /\ bag' \in [Travellers -> SUBSET Tickets]
        /\ UNCHANGED <<line, props, due, job, pc, hand, broken>>
    BY <1>7 DEF LeaveRoom, TypeOK
  <2>3. PICK to \in Rooms : to = line.exits[where[p]]
    BY <2>1
  <2>4. ChangeMap(p, to)
    BY <2>2, <2>3 DEF ChangeMap, On
  <2> QED BY <1>2, <2>2, <2>4
<1>8. ASSUME NEW door \in line.doors, Hop(p, door) PROVE IInv'
  <2>1. door[2] \in Rooms
    BY <1>1, <1>8
  <2>2. /\ ChangeMap(p, door[2])
        /\ late' \subseteq Travellers /\ slipped' \subseteq Travellers
        /\ UNCHANGED <<line, props, due, job, pc, hand, broken, talk, bag>>
    BY <1>8 DEF Hop, TypeOK
  <2> QED BY <1>2, <2>1, <2>2 DEF TypeOK
<1>9. CASE Disconnect(p)
  <2>1. /\ ChangeMap(p, Null)
        /\ late' \subseteq Travellers /\ slipped' \subseteq Travellers
        /\ talk' \in [Travellers -> Conversations \cup {Null}]
        /\ UNCHANGED <<line, props, due, job, pc, hand, broken, bag>>
    BY <1>9 DEF Disconnect, TypeOK
  <2> QED BY <1>2, <2>1 DEF TypeOK
<1>10. CASE Reconnect(p)
  <2>1. PICK m \in Docks : ChangeMap(p, m)
    BY <1>10 DEF Reconnect
  <2>2. m \in Rooms
    BY <1>1 DEF Docks, DocksOf
  <2>3. UNCHANGED <<line, props, due, job, pc, hand, broken, late, slipped, talk, bag>>
    BY <1>10 DEF Reconnect
  <2> QED BY <1>2, <2>1, <2>2, <2>3 DEF TypeOK
<1> QED BY <1>4, <1>5, <1>6, <1>7, <1>8, <1>9, <1>10 DEF Session

LEMMA InvNext == IInv /\ [Next]_vars => IInv'
<1> SUFFICES ASSUME IInv, [Next]_vars PROVE IInv'
  OBVIOUS
<1>1. CASE TimerThread
  BY <1>1, TimerKeeps, IteratorKeeps, NextKeeps, CarryKeeps DEF TimerThread
<1>2. CASE \E p \in Travellers : Session(p)
  BY <1>2, SessionKeeps
<1>3. CASE UNCHANGED vars
  BY <1>3 DEF vars, timer, people, IInv, TypeOK, PlacesOK, LinkOK, HandOK, LoopEmpties,
     On, IsFirst, AtStep, Running, Step, Program
<1> QED BY <1>1, <1>2, <1>3 DEF Next

(* In every behaviour, of any services and any number of travellers, the   *)
(* state keeps its types: the timer thread runs functions the script has,  *)
(* and what is armed is one of them.                                       *)
THEOREM VoyageTypes == Spec => []TypeOK
<1>1. Spec => []IInv
  BY InvInit, InvNext, PTL DEF Spec
<1> QED BY <1>1, PTL DEF IInv

(* In every behaviour a loop over a map's characters that comes to its end *)
(* has carried all who were there when it began and have not left by       *)
(* themselves (Boats.js, Trains.js, Cabin.js, Subway.js, AirPlane.js and   *)
(* elevator.js, and any script with the same kind of loop).                *)
THEOREM VoyageLoops == Spec => []LoopEmpties
<1>1. Spec => []IInv
  BY InvInit, InvNext, PTL DEF Spec
<1> QED BY <1>1, PTL DEF IInv
=============================================================================
