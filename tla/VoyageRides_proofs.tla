------------------------- MODULE VoyageRides_proofs -------------------------
(***************************************************************************)
(* For any number of travellers, and any services whose functions hang     *)
(* together as the transport scripts' do (the assumptions of Voyage): a    *)
(* service does not forget itself, and as long as no function has thrown   *)
(* nobody is left aboard or in a waiting room, but for those who slipped   *)
(* past an arrival or came in late.                                        *)
(***************************************************************************)
EXTENDS Voyage_proofs

(* What the running function has still to do. *)
Ahead(what) == {i \in StepsOf(line, job, what) : pc <= i}
WillArm(m) == Running /\ \E i \in Ahead("arm") : m \in Emptied(line, Program[i].job)
WillEmpty(m) == Running /\ \E i \in Ahead("carry") : Program[i].from = m
IsClosing == Running /\ \E i \in Closings(line, job) : pc <= i

(* A function that carries from a map is scheduled, or will be by the one  *)
(* that runs.                                                              *)
Promised(m) == WillCarry(m) \/ WillArm(m)

(* The round goes on: a function that schedules another is scheduled or    *)
(* about to be; there is one, as far as it is scheduled.                   *)
Lasts ==
    \/ broken
    \/ \E k \in Lasting(line) : due[k] # Null
    \/ Running /\ \E i \in Ahead("arm") : Program[i].job \in Lasting(line)

Alone ==
    \A k \in Lasting(line) : due[k] # Null =>
        IF Running /\ job \in Lasting(line)
        THEN \E i \in StepsOf(line, job, "arm") : i < pc /\ Program[i].job = k
        ELSE \A j \in Lasting(line) : due[j] # Null => j = k

(* No time passes while a function runs.                                   *)
ArmedOK ==
    Running => \A i \in StepsOf(line, job, "arm") :
        i < pc => due[Program[i].job] = Program[i].in

(* The gate is open only while there are departures to come, and it will   *)
(* be closed before any of them: that is why nobody is let in without      *)
(* being late while a departure is under way.                              *)
GateOpen == ~broken /\ props["entry"] = "true"
GateOK ==
    GateOpen => /\ \E j \in DOMAIN line.code : Openings(line, j) # {}
                /\ \A m \in Waiting : Promised(m)

ClosesBefore(k) ==
    \E c \in DOMAIN line.code :
        Closings(line, c) # {} /\ due[c] # Null /\ due[c] < due[k]
ClosingOK ==
    GateOpen => \A k \in Departures(line) : due[k] # Null =>
        (Running /\ job \in Lasting(line)) \/ IsClosing \/ ClosesBefore(k)

Sched == Lasts /\ ArmedOK /\ Alone /\ GateOK /\ ClosingOK

(* The loop is at its room. *)
IterOK == iter # Null => AtStep("carry") /\ iter.room = Step.from

(* Whoever is aboard or waits will be fetched; and those who came into the *)
(* room of a loop while it runs are accounted for without it.              *)
AboardOK ==
    broken \/ \A p \in Travellers : Aboard(where[p]) =>
        Promised(where[p]) \/ WillEmpty(where[p]) \/ p \in slipped

CameAboard ==
    iter # Null /\ Aboard(iter.room) =>
        \A p \in iter.came : where[p] = iter.room => p \in slipped

WaitOK ==
    broken \/ \A p \in Travellers : where[p] \in Waiting =>
        Promised(where[p]) \/ WillEmpty(where[p]) \/ p \in late

CameWaiting ==
    ~broken /\ iter # Null /\ iter.room \in Waiting =>
        \A p \in iter.came : where[p] = iter.room => p \in late \/ Promised(iter.room)

Riding == IterOK /\ AboardOK /\ CameAboard /\ WaitOK /\ CameWaiting

RideInv == IInv /\ Sched /\ Riding

(* The kinds of steps of the timer thread, as far as the schedule is       *)
(* concerned: perhaps the next step, the next step, or the last.           *)
Goes ==
    /\ UNCHANGED <<line, job>>
    /\ \/ UNCHANGED <<pc, due>>
       \/ /\ Running /\ pc <= Len(Program) /\ pc' = pc + 1
          /\ due' = IF Step.do = "arm" THEN [due EXCEPT ![Step.job] = Step.in] ELSE due

Advances ==
    /\ UNCHANGED <<line, job, broken>>
    /\ Running /\ pc <= Len(Program) /\ pc' = pc + 1
    /\ due' = IF Step.do = "arm" THEN [due EXCEPT ![Step.job] = Step.in] ELSE due
    /\ \/ UNCHANGED props /\ Step.do # "put"
       \/ Step.do \in {"put", "perhaps"} /\ props' = [props EXCEPT ![Step.key] = Step.val]

Stops ==
    /\ UNCHANGED <<line, props, due>>
    /\ Running /\ job' = Null /\ pc' = 1
    /\ broken' \/ (pc > Len(Program) /\ broken' = broken)
-----------------------------------------------------------------------------
(* What the constants say of the service's functions. *)
LEMMA CodeFacts ==
    ASSUME TypeOK
    PROVE  /\ line \in Lines
           /\ \A j \in DOMAIN line.code :
                 /\ j \in Jobs /\ j # Null
                 /\ line.code[j] \in Seq(Steps) /\ Len(line.code[j]) \in Nat
                 /\ \A i \in StepsOf(line, j, "arm") :
                       line.code[j][i].job \in DOMAIN line.code /\ line.code[j][i].in \in Nat
           /\ Running => job \in DOMAIN line.code
           /\ pc \in Nat /\ pc >= 1
           /\ \A k \in DOMAIN line.code : due[k] \in Nat \cup {Null}
<1>1. /\ line \in Lines /\ (Running => job \in DOMAIN line.code) /\ pc \in Nat /\ pc >= 1
      /\ due \in [Jobs -> Nat \cup {Null}]
  BY DEF TypeOK, Running
<1>2. ASSUME NEW j \in DOMAIN line.code
      PROVE  /\ j \in Jobs /\ j # Null
             /\ line.code[j] \in Seq(Steps) /\ Len(line.code[j]) \in Nat
             /\ \A i \in StepsOf(line, j, "arm") :
                   line.code[j][i].job \in DOMAIN line.code /\ line.code[j][i].in \in Nat
  <2>1. /\ j \in Jobs /\ Null \notin Jobs /\ line.code[j] \in Seq(Steps)
        /\ \A i \in 1..Len(line.code[j]) :
              line.code[j][i].do = "arm" => line.code[j][i].job \in DOMAIN line.code
    BY <1>1, VoyageConstants
  <2>2. ASSUME NEW i \in StepsOf(line, j, "arm")
        PROVE  line.code[j][i].job \in DOMAIN line.code /\ line.code[j][i].in \in Nat
    <3>1. i \in 1..Len(line.code[j]) /\ line.code[j][i].do = "arm" /\ line.code[j][i] \in Steps
      BY <2>1 DEF StepsOf
    <3>2. line.code[j][i].in \in Nat
      BY <3>1 DEF Steps
    <3> QED BY <2>1, <3>1, <3>2
  <2> QED BY <2>1, <2>2
<1> QED BY <1>1, <1>2

(* The step the function is at, among those it has ahead of it. *)
LEMMA StepHere ==
    ASSUME TypeOK, NEW what, AtStep(what)
    PROVE  /\ pc \in StepsOf(line, job, what) /\ pc \in Ahead(what)
           /\ job \in DOMAIN line.code /\ Step = line.code[job][pc]
BY CodeFacts DEF AtStep, Step, Program, StepsOf, Ahead

(* What is scheduled stays so while a function runs. *)
LEMMA DueKept ==
    ASSUME TypeOK, Goes
    PROVE  \A k \in DOMAIN line.code : due[k] # Null => due'[k] # Null
<1>1. \A k \in DOMAIN line.code : k \in Jobs
  BY CodeFacts
<1>2. CASE UNCHANGED due
  BY <1>2
<1>3. CASE ~UNCHANGED due
  <2>1. AtStep("arm") /\ due' = [due EXCEPT ![Step.job] = Step.in]
    BY <1>3 DEF Goes, AtStep
  <2>2. Step.in \in Nat
    BY <2>1, StepHere, CodeFacts
  <2>3. Step.in # Null
    BY <2>2, VoyageConstants
  <2> QED BY <1>1, <2>1, <2>3 DEF TypeOK
<1> QED BY <1>2, <1>3

(* A step ahead is ahead still, or it is the one that was taken. *)
LEMMA AheadAfter ==
    ASSUME TypeOK, Goes, NEW what, NEW i \in Ahead(what)
    PROVE  /\ Ahead(what)' = {n \in StepsOf(line, job, what) : pc' <= n}
           /\ i \in Ahead(what)' \/ (i = pc /\ (Running => AtStep(what)) /\ pc' = pc + 1)
<1>1. Ahead(what)' = {n \in StepsOf(line, job, what) : pc' <= n}
  BY DEF Ahead, Goes, StepsOf
<1>2. i \in StepsOf(line, job, what) /\ pc <= i /\ i \in Int
  BY DEF Ahead, StepsOf
<1>3. CASE UNCHANGED pc
  BY <1>1, <1>2, <1>3
<1>4. CASE Running /\ pc <= Len(Program) /\ pc' = pc + 1
  <2>1. pc \in Nat
    BY CodeFacts
  <2>2. i = pc \/ pc' <= i
    BY <1>2, <1>4, <2>1
  <2>3. i = pc => AtStep(what)
    BY <1>2, <1>4 DEF AtStep, Step, Program, StepsOf
  <2> QED BY <1>1, <1>2, <1>4, <2>2, <2>3
<1> QED BY <1>3, <1>4 DEF Goes

(* From one step of the function to the next what was promised is so       *)
(* still: a function that is scheduled takes the place of the step that    *)
(* schedules it.                                                           *)
LEMMA PromiseKept ==
    ASSUME TypeOK, Goes, NEW m, Promised(m)
    PROVE  Promised(m)'
<1>1. CASE WillCarry(m)
  <2>1. PICK k \in DOMAIN line.code : due[k] # Null /\ m \in Emptied(line, k)
    BY <1>1 DEF WillCarry
  <2>2. due'[k] # Null /\ line' = line
    BY <2>1, DueKept DEF Goes
  <2> QED BY <2>1, <2>2 DEF Promised, WillCarry
<1>2. CASE WillArm(m)
  <2>1. PICK i \in Ahead("arm") : m \in Emptied(line, Program[i].job)
    BY <1>2 DEF WillArm
  <2>2. Running /\ job' = job /\ line' = line
    BY <1>2 DEF WillArm, Goes
  <2>3. CASE i \in Ahead("arm")'
    <3>1. WillArm(m)'
      BY <2>1, <2>2, <2>3 DEF WillArm, Program, Running
    <3> QED BY <3>1 DEF Promised
  <2>4. CASE i = pc /\ AtStep("arm") /\ pc' = pc + 1
    <3>1. Step.job \in DOMAIN line.code /\ Step.in \in Nat /\ Step = Program[i] /\ pc \in Nat
      BY <2>4, StepHere, CodeFacts DEF Step
    <3>2. Step.job \in Jobs /\ Step.in # Null
      BY <3>1, CodeFacts, VoyageConstants
    <3>3. due' = [due EXCEPT ![Step.job] = Step.in]
      BY <2>4, <3>1 DEF Goes, AtStep
    <3>4. due'[Step.job] # Null
      BY <3>2, <3>3 DEF TypeOK
    <3> QED BY <2>1, <2>2, <3>1, <3>4 DEF Promised, WillCarry
  <2> QED BY <2>1, <2>2, <2>3, <2>4, AheadAfter
<1> QED BY <1>1, <1>2 DEF Promised

(* A loop ahead stays ahead until it is gone through. *)
LEMMA EmptyingKept ==
    ASSUME TypeOK, Goes, NEW m, WillEmpty(m)
    PROVE  WillEmpty(m)' \/ (AtStep("carry") /\ Step.from = m /\ pc' = pc + 1)
<1>1. PICK i \in Ahead("carry") : Program[i].from = m
  BY DEF WillEmpty
<1>2. Running /\ job' = job /\ line' = line
  BY DEF WillEmpty, Goes
<1>3. CASE i \in Ahead("carry")'
  BY <1>1, <1>2, <1>3 DEF WillEmpty, Program, Running
<1>4. CASE i = pc /\ AtStep("carry") /\ pc' = pc + 1
  BY <1>1, <1>4 DEF Step
<1> QED BY <1>1, <1>2, <1>3, <1>4, AheadAfter

(* The schedule does not depend on the travellers. *)
LEMMA SchedStays ==
    ASSUME Sched, UNCHANGED <<line, props, due, job, pc, broken>>
    PROVE  Sched'
BY DEF Sched, Lasts, ArmedOK, Alone, GateOK, ClosingOK, GateOpen, ClosesBefore, IsClosing,
       Promised, WillCarry, WillArm, Ahead, Running, Program, Waiting

(* A function of which a step schedules something is one of the round. *)
LEMMA LastingHere ==
    ASSUME TypeOK, NEW j \in DOMAIN line.code, NEW i \in StepsOf(line, j, "arm")
    PROVE  j \in Lasting(line)
BY DEF Lasting, Armed

(* What GateAssumption says of the service. *)
LEMMA OpeningArms ==
    ASSUME TypeOK, NEW o \in DOMAIN line.code, NEW i \in Openings(line, o)
    PROVE  /\ \A m \in Waiting : \E a \in StepsOf(line, o, "arm") :
                 a > i /\ m \in Emptied(line, line.code[o][a].job)
           /\ Departures(line) \subseteq Lasting(line)
           /\ \A j \in DOMAIN line.code : \A a \in StepsOf(line, j, "arm") :
                 line.code[j][a].job \in Departures(line) =>
                    \E b \in StepsOf(line, j, "arm") :
                       /\ b < a /\ line.code[j][b].in < line.code[j][a].in
                       /\ Closings(line, line.code[j][b].job) # {}
<1>1. line \in Lines
  BY DEF TypeOK
<1>2. \A m \in RoomsOf(line) : \E k \in ArmedAfter(line, o, i) : m \in Emptied(line, k)
  BY <1>1, GateAssumption
<1>3. Departures(line) \subseteq Lasting(line)
  BY <1>1, GateAssumption
<1>4. \A j \in DOMAIN line.code : \A a \in StepsOf(line, j, "arm") :
                 line.code[j][a].job \in Departures(line) =>
                    \E b \in StepsOf(line, j, "arm") :
                       /\ b < a /\ line.code[j][b].in < line.code[j][a].in
                       /\ Closings(line, line.code[j][b].job) # {}
  BY <1>1, GateAssumption
<1>5. \A m \in Waiting : \E a \in StepsOf(line, o, "arm") :
                 a > i /\ m \in Emptied(line, line.code[o][a].job)
  BY <1>2 DEF Waiting, ArmedAfter
<1> QED BY <1>3, <1>4, <1>5

(* The timer thread calls a function.  A departure is not called while the *)
(* gate is open: a closing is due before it.                               *)
LEMMA SchedFire ==
    ASSUME TypeOK, Sched, NEW j \in Jobs, Fire(j)
    PROVE  Sched'
<1> DEFINE after(k) == IF k = j \/ due[k] = Null THEN Null ELSE due[k] - due[j]
<1>1. /\ ~Running /\ due[j] # Null /\ job' = j /\ pc' = 1 /\ Running'
      /\ UNCHANGED <<line, props, broken>>
      /\ \A k \in Jobs : due[k] # Null => due[j] <= due[k]
      /\ \A k \in Jobs : due'[k] = after(k)
  BY VoyageConstants DEF Fire, Running
<1>2. /\ j \in DOMAIN line.code /\ due[j] \in Nat /\ j # Null
      /\ \A k \in DOMAIN line.code : k \in Jobs /\ due[k] \in Nat \cup {Null}
      /\ Null \notin Nat
  BY <1>1, CodeFacts, VoyageConstants DEF TypeOK
<1>3. \A k \in DOMAIN line.code : due[k] # Null /\ k # j => due'[k] # Null /\ due'[k] = due[k] - due[j]
  <2> SUFFICES ASSUME NEW k \in DOMAIN line.code, due[k] # Null, k # j
               PROVE  due'[k] # Null /\ due'[k] = due[k] - due[j]
    OBVIOUS
  <2>1. due[k] \in Nat /\ due[j] <= due[k] /\ due'[k] = due[k] - due[j]
    BY <1>1, <1>2
  <2>2. due[k] - due[j] \in Nat
    BY <1>2, <2>1
  <2> QED BY <1>2, <2>1, <2>2
<1>4. \A k \in DOMAIN line.code : due'[k] # Null => due[k] # Null /\ k # j
  BY <1>1, <1>2
<1> HIDE DEF after
<1>5. Lasts'
  <2>1. CASE broken
    BY <1>1, <2>1 DEF Lasts
  <2>2. CASE \E k \in Lasting(line) : due[k] # Null /\ k # j
    <3>1. PICK k \in Lasting(line) : due[k] # Null /\ k # j
      BY <2>2
    <3>2. k \in DOMAIN line.code
      BY DEF Lasting
    <3>3. due'[k] # Null
      BY <1>3, <3>1, <3>2
    <3> QED BY <1>1, <3>3 DEF Lasts
  <2>3. CASE j \in Lasting(line)
    <3>1. PICK k \in Lasting(line) : k \in Armed(line, j)
      BY <2>3, RoundAssumption DEF TypeOK
    <3>2. PICK i \in StepsOf(line, j, "arm") : line.code[j][i].job = k
      BY <3>1 DEF Armed
    <3>3. i \in Int /\ 1 <= i
      BY DEF StepsOf
    <3>4. i \in Ahead("arm")'
      BY <1>1, <3>3 DEF Ahead
    <3>5. Program'[i].job \in Lasting(line')
      BY <1>1, <3>1, <3>2 DEF Program
    <3> QED BY <1>1, <3>4, <3>5 DEF Lasts
  <2> QED BY <1>1, <2>1, <2>2, <2>3 DEF Sched, Lasts
<1>6. ArmedOK'
  BY <1>1 DEF ArmedOK, StepsOf
<1>7. Alone'
  <2> SUFFICES ASSUME NEW k \in Lasting(line), due'[k] # Null
               PROVE  /\ j \notin Lasting(line)
                      /\ \A l \in Lasting(line) : due'[l] # Null => l = k
    BY <1>1 DEF Alone
  <2>1. \A l \in Lasting(line) : l \in DOMAIN line.code
    BY DEF Lasting
  <2>2. due[k] # Null /\ k # j
    BY <1>4, <2>1
  <2>3. \A l \in Lasting(line) : due[l] # Null => l = k
    BY <1>1, <2>2 DEF Sched, Alone
  <2> QED BY <1>1, <1>4, <2>1, <2>2, <2>3
<1>8. GateOpen' => GateOpen
  BY <1>1 DEF GateOpen
<1>9. ASSUME GateOpen PROVE j \notin Departures(line)
  <2>1. SUFFICES ASSUME j \in Departures(line) PROVE FALSE
    OBVIOUS
  <2>2. ClosesBefore(j)
    BY <1>1, <1>9, <2>1 DEF Sched, ClosingOK, IsClosing
  <2>3. PICK c \in DOMAIN line.code : due[c] # Null /\ due[c] < due[j]
    BY <2>2 DEF ClosesBefore
  <2> QED BY <1>1, <1>2, <2>3
<1>10. GateOK'
  <2> SUFFICES ASSUME GateOpen'
               PROVE  /\ \E o \in DOMAIN line.code : Openings(line, o) # {}
                      /\ \A m \in Waiting : Promised(m)'
    BY <1>1 DEF GateOK, Waiting
  <2>1. GateOpen
    BY <1>8
  <2>2. ASSUME NEW m \in Waiting PROVE Promised(m)'
    <3>1. Promised(m)
      BY <2>1 DEF Sched, GateOK
    <3>2. PICK k \in DOMAIN line.code : due[k] # Null /\ m \in Emptied(line, k)
      BY <1>1, <3>1 DEF Promised, WillCarry, WillArm
    <3>3. k \in Departures(line)
      BY <2>2, <3>2 DEF Departures, Waiting
    <3>4. due'[k] # Null
      BY <1>3, <1>9, <2>1, <3>2, <3>3
    <3> QED BY <1>1, <3>2, <3>4 DEF Promised, WillCarry
  <2> QED BY <2>1, <2>2 DEF Sched, GateOK
<1>11. ClosingOK'
  <2> SUFFICES ASSUME GateOpen, NEW k \in Departures(line), due'[k] # Null
               PROVE  IsClosing' \/ ClosesBefore(k)'
    BY <1>1, <1>8 DEF ClosingOK
  <2>1. k \in DOMAIN line.code
    BY DEF Departures
  <2>2. due[k] # Null /\ k # j
    BY <1>4, <2>1
  <2>3. ClosesBefore(k)
    BY <1>1, <2>2 DEF Sched, ClosingOK, IsClosing
  <2>4. PICK c \in DOMAIN line.code : Closings(line, c) # {} /\ due[c] # Null /\ due[c] < due[k]
    BY <2>3 DEF ClosesBefore
  <2>5. CASE c = j
    <3>1. PICK i \in Closings(line, j) : TRUE
      BY <2>4, <2>5
    <3>2. 1 <= i
      BY DEF Closings, SetsGate
    <3> QED BY <1>1, <3>1, <3>2 DEF IsClosing
  <2>6. CASE c # j
    <3>1. due'[c] # Null /\ due'[c] = due[c] - due[j] /\ due'[k] = due[k] - due[j]
      BY <1>3, <2>1, <2>2, <2>4, <2>6
    <3>2. due[c] \in Nat /\ due[k] \in Nat
      BY <1>2, <2>1, <2>2, <2>4
    <3>3. due'[c] < due'[k]
      BY <1>2, <2>4, <3>1, <3>2
    <3> QED BY <1>1, <2>4, <3>1, <3>3 DEF ClosesBefore
  <2> QED BY <2>5, <2>6
<1> QED BY <1>5, <1>6, <1>7, <1>10, <1>11 DEF Sched

(* A function that goes on keeps the schedule: its steps schedule the      *)
(* rest of the round, the closing before the departure.                    *)
LEMMA SchedAdvances == ASSUME TypeOK, Sched, Advances PROVE Sched'
<1>1. /\ Goes /\ Running' /\ job' = job /\ line' = line /\ broken' = broken /\ pc' = pc + 1
      /\ Program' = Program
  BY DEF Advances, Goes, Running, Program
<1>2. /\ job \in DOMAIN line.code /\ pc \in Nat /\ pc >= 1 /\ pc \in 1..Len(line.code[job])
      /\ Step = line.code[job][pc] /\ Program = line.code[job] /\ AtStep(Step.do)
  BY <1>1, CodeFacts DEF Advances, Program, Step, AtStep
<1>3. \A k \in DOMAIN line.code : due[k] # Null => due'[k] # Null
  BY <1>1, DueKept
<1>4. Step.do # "arm" => due' = due
  BY DEF Advances
<1>5. ASSUME Step.do = "arm"
      PROVE  /\ pc \in StepsOf(line, job, "arm") /\ job \in Lasting(line)
             /\ Step.job \in DOMAIN line.code /\ Step.in \in Nat /\ Step.in # Null
             /\ due'[Step.job] = Step.in
             /\ \A k \in DOMAIN line.code \ {Step.job} : due'[k] = due[k]
  <2>1. pc \in StepsOf(line, job, "arm")
    BY <1>2, <1>5 DEF StepsOf
  <2>2. Step.job \in DOMAIN line.code /\ Step.in \in Nat
    BY <1>2, <2>1, CodeFacts
  <2>3. Step.job \in Jobs /\ Step.in # Null /\ \A k \in DOMAIN line.code : k \in Jobs
    BY <2>2, CodeFacts, VoyageConstants
  <2>4. due' = [due EXCEPT ![Step.job] = Step.in] /\ due \in [Jobs -> Nat \cup {Null}]
    BY <1>5 DEF Advances, TypeOK
  <2>5. /\ due'[Step.job] = Step.in
        /\ \A k \in DOMAIN line.code \ {Step.job} : due'[k] = due[k]
    BY <2>3, <2>4
  <2> QED BY <1>2, <2>1, <2>2, <2>3, <2>5, LastingHere
<1>6. Lasts'
  <2>1. CASE broken \/ \E k \in Lasting(line) : due[k] # Null
    BY <1>1, <1>3, <2>1 DEF Lasts, Lasting
  <2>2. ASSUME NEW i \in Ahead("arm"), Program[i].job \in Lasting(line)
        PROVE  Lasts'
    <3>1. CASE i \in Ahead("arm")'
      BY <1>1, <2>2, <3>1 DEF Lasts
    <3>2. CASE i \notin Ahead("arm")'
      <4>0. i = pc /\ AtStep("arm")
        <5>1. i \in Ahead("arm")' \/ (i = pc /\ (Running => AtStep("arm")))
          BY <1>1, <2>2, AheadAfter
        <5> QED BY <3>2, <5>1 DEF Advances
      <4>1. Step.do = "arm" /\ Step.job \in Lasting(line)
        BY <2>2, <4>0 DEF AtStep, Step
      <4>2. due'[Step.job] # Null
        BY <1>5, <4>1
      <4> QED BY <1>1, <4>1, <4>2 DEF Lasts
    <3> QED BY <3>1, <3>2
  <2> QED BY <2>1, <2>2 DEF Sched, Lasts
<1>7. ArmedOK'
  <2> SUFFICES ASSUME NEW i \in StepsOf(line, job, "arm"), i < pc'
               PROVE  due'[Program[i].job] = Program[i].in
    BY <1>1 DEF ArmedOK, StepsOf
  <2>0. i \in Int /\ Program[i].job \in DOMAIN line.code
    BY <1>2, CodeFacts DEF StepsOf
  <2>1. CASE i = pc
    <3>1. Step = Program[i] /\ Step.do = "arm"
      BY <1>2, <2>1 DEF StepsOf
    <3> QED BY <1>5, <3>1
  <2>2. CASE i # pc
    <3>1. i < pc
      BY <1>1, <1>2, <2>0, <2>2
    <3>2. due[Program[i].job] = Program[i].in
      BY <1>1, <3>1 DEF Sched, ArmedOK, Advances
    <3>3. CASE Step.do = "arm"
      <4>1. pc \in StepsOf(line, job, "arm")
        BY <1>5, <3>3
      <4>2. Program[i].job = Step.job => i = pc
        BY <1>2, <4>1, RoundAssumption DEF TypeOK
      <4> QED BY <1>5, <2>0, <2>2, <3>2, <3>3, <4>2
    <3> QED BY <1>4, <3>2, <3>3 DEF Advances
  <2> QED BY <2>1, <2>2
<1>8. Alone'
  <2> SUFFICES ASSUME NEW k \in Lasting(line), due'[k] # Null
               PROVE  IF job \in Lasting(line)
                      THEN \E i \in StepsOf(line, job, "arm") : i < pc' /\ Program[i].job = k
                      ELSE \A j \in Lasting(line) : due'[j] # Null => j = k
    BY <1>1 DEF Alone
  <2>1. k \in DOMAIN line.code
    BY DEF Lasting
  <2>2. CASE job \in Lasting(line)
    <3>1. CASE due[k] # Null
      <4>1. PICK i \in StepsOf(line, job, "arm") : i < pc /\ Program[i].job = k
        BY <1>1, <2>2, <3>1 DEF Sched, Alone, Advances
      <4>2. i \in Int
        BY DEF StepsOf
      <4> QED BY <1>1, <1>2, <2>2, <4>1, <4>2
    <3>2. CASE due[k] = Null
      <4>1. Step.do = "arm"
        BY <1>4, <3>2 DEF Advances
      <4>2. k = Step.job /\ pc \in StepsOf(line, job, "arm")
        BY <1>5, <2>1, <3>2, <4>1
      <4> QED BY <1>1, <1>2, <2>2, <4>2
    <3> QED BY <3>1, <3>2
  <2>3. CASE job \notin Lasting(line)
    <3>1. due' = due
      BY <1>5, <2>3 DEF Advances
    <3> QED BY <2>3, <3>1 DEF Sched, Alone
  <2> QED BY <2>2, <2>3
<1>9. ASSUME GateOpen', ~GateOpen PROVE pc \in Openings(line, job)
  <2>1. props'["entry"] = "true" /\ props["entry"] # "true"
    BY <1>1, <1>9 DEF GateOpen
  <2>2. Step.do \in {"put", "perhaps"} /\ props' = [props EXCEPT ![Step.key] = Step.val]
    BY <2>1 DEF Advances
  <2>3. "entry" \in Keys /\ props \in [Keys -> Values \cup {Null}]
    BY DEF TypeOK, Keys
  <2>4. Step.key = "entry" /\ Step.val = "true"
    BY <2>1, <2>2, <2>3
  <2> QED BY <1>2, <2>2, <2>4 DEF Openings, SetsGate
<1>10. GateOK'
  <2> SUFFICES ASSUME GateOpen'
               PROVE  /\ \E j \in DOMAIN line.code : Openings(line, j) # {}
                      /\ \A m \in Waiting : Promised(m)'
    BY <1>1 DEF GateOK, Waiting
  <2>1. CASE GateOpen
    <3>1. \A m \in Waiting : Promised(m)
      BY <2>1 DEF Sched, GateOK
    <3>2. \A m : Promised(m) => Promised(m)'
      BY <1>1, PromiseKept
    <3> QED BY <2>1, <3>1, <3>2 DEF Sched, GateOK
  <2>2. CASE ~GateOpen
    <3>1. pc \in Openings(line, job)
      BY <1>9, <2>2
    <3>2. ASSUME NEW m \in Waiting PROVE Promised(m)'
      <4>1. PICK a \in StepsOf(line, job, "arm") : a > pc /\ m \in Emptied(line, Program[a].job)
        BY <1>2, <3>1, <3>2, OpeningArms
      <4>2. a \in Int /\ pc' <= a
        BY <1>1, <1>2, <4>1 DEF StepsOf
      <4>3. a \in Ahead("arm")'
        BY <1>1, <4>2 DEF Ahead, StepsOf
      <4>4. WillArm(m)'
        BY <1>1, <4>1, <4>3 DEF WillArm
      <4> QED BY <4>4 DEF Promised
    <3> QED BY <1>2, <3>1, <3>2
  <2> QED BY <2>1, <2>2
<1>11. ClosingOK'
  <2> SUFFICES ASSUME GateOpen', NEW k \in Departures(line), due'[k] # Null,
                      job \notin Lasting(line)
               PROVE  IsClosing' \/ ClosesBefore(k)'
    BY <1>1 DEF ClosingOK
  <2>1. due' = due
    BY <1>5 DEF Advances
  <2>2. GateOpen
    <3>1. SUFFICES ASSUME ~GateOpen PROVE FALSE
      OBVIOUS
    <3>2. pc \in Openings(line, job)
      BY <1>9, <3>1
    <3>3. PICK m \in Waiting : TRUE
      BY DEF Departures, Waiting
    <3>4. PICK a \in StepsOf(line, job, "arm") : TRUE
      BY <1>2, <3>2, <3>3, OpeningArms
    <3> QED BY <1>2, LastingHere
  <2>3. IsClosing \/ ClosesBefore(k)
    BY <2>1, <2>2 DEF Sched, ClosingOK
  <2>4. CASE ClosesBefore(k)
    BY <1>1, <2>1, <2>4 DEF ClosesBefore
  <2>5. CASE IsClosing
    <3>1. PICK i \in Closings(line, job) : pc <= i
      BY <2>5 DEF IsClosing
    <3>2. i \in Int /\ line.code[job][i].do = "put" /\ line.code[job][i].key = "entry"
          /\ line.code[job][i].val = "false"
      BY DEF Closings, SetsGate
    <3>3. CASE i = pc
      <4>1. props' = [props EXCEPT !["entry"] = "false"]
        BY <1>2, <3>2, <3>3 DEF Advances
      <4>2. props'["entry"] = "false"
        BY <4>1 DEF TypeOK, Keys
      <4> QED BY <4>2 DEF GateOpen
    <3>4. CASE i # pc
      <4>1. pc' <= i
        BY <1>1, <1>2, <3>1, <3>2, <3>4
      <4> QED BY <1>1, <4>1 DEF IsClosing
    <3> QED BY <3>3, <3>4
  <2> QED BY <2>3, <2>4, <2>5
<1> QED BY <1>6, <1>7, <1>8, <1>10, <1>11 DEF Sched

(* A function that returns has nothing more to do. *)
LEMMA NothingAhead ==
    ASSUME TypeOK, Running, pc > Len(Program)
    PROVE  \A what : Ahead(what) = {}
<1>1. Len(Program) \in Nat /\ pc \in Nat
  BY CodeFacts DEF Program
<1> SUFFICES ASSUME NEW what, NEW i \in Ahead(what) PROVE FALSE
  OBVIOUS
<1>2. i \in 1..Len(Program) /\ pc <= i
  BY DEF Ahead, StepsOf, Program
<1> QED BY <1>1, <1>2

(* A function that has returned has scheduled the rest of its round. One   *)
(* that throws breaks the service, and the round may end with it.          *)
LEMMA SchedStops == ASSUME TypeOK, Sched, Stops PROVE Sched'
<1>1. /\ Running /\ ~Running' /\ UNCHANGED <<line, props, due>>
      /\ broken' \/ (pc > Len(Program) /\ broken' = broken)
  BY DEF Stops, Running
<1>2. job \in DOMAIN line.code /\ pc \in Nat /\ Len(Program) \in Nat
  BY <1>1, CodeFacts DEF Program
<1>3. Lasts'
  <2>1. CASE broken'
    BY <2>1 DEF Lasts
  <2>2. CASE ~broken'
    <3>1. Ahead("arm") = {} /\ ~broken
      BY <1>1, <2>2, NothingAhead
    <3> QED BY <1>1, <3>1 DEF Sched, Lasts
  <2> QED BY <2>1, <2>2
<1>4. ArmedOK'
  BY <1>1 DEF ArmedOK
<1>5. Alone'
  <2> SUFFICES ASSUME NEW k \in Lasting(line), due[k] # Null,
                      NEW j \in Lasting(line), due[j] # Null
               PROVE  j = k
    BY <1>1 DEF Alone
  <2>1. CASE job \in Lasting(line)
    <3>1. PICK r \in Lasting(line) : Armed(line, job) \cap Lasting(line) = {r}
      BY <2>1, RoundAssumption DEF TypeOK
    <3>2. \A l \in Lasting(line) : due[l] # Null => l \in Armed(line, job)
      BY <1>1, <2>1 DEF Sched, Alone, Armed, Program
    <3> QED BY <3>1, <3>2
  <2>2. CASE job \notin Lasting(line)
    BY <2>2 DEF Sched, Alone
  <2> QED BY <2>1, <2>2
<1>6. ASSUME GateOpen' PROVE GateOpen /\ pc > Len(Program)
  BY <1>1, <1>6 DEF GateOpen
<1>7. GateOK'
  <2> SUFFICES ASSUME GateOpen'
               PROVE  /\ \E j \in DOMAIN line.code : Openings(line, j) # {}
                      /\ \A m \in Waiting : Promised(m)'
    BY <1>1 DEF GateOK, Waiting
  <2>1. Ahead("arm") = {}
    BY <1>1, <1>6, NothingAhead
  <2>2. ASSUME NEW m \in Waiting PROVE Promised(m)'
    <3>1. WillCarry(m)
      BY <1>6, <2>1, <2>2 DEF Sched, GateOK, Promised, WillArm
    <3> QED BY <1>1, <3>1 DEF Promised, WillCarry
  <2> QED BY <1>6, <2>2 DEF Sched, GateOK
<1>8. ClosingOK'
  <2> SUFFICES ASSUME GateOpen', NEW k \in Departures(line), due[k] # Null
               PROVE  ClosesBefore(k)
    BY <1>1 DEF ClosingOK, ClosesBefore
  <2>1. GateOpen /\ pc > Len(Program)
    BY <1>6
  <2>2. ~IsClosing
    <3> SUFFICES ASSUME NEW i \in Closings(line, job) PROVE ~(pc <= i)
      BY DEF IsClosing
    <3>1. i \in 1..Len(Program)
      BY DEF Closings, SetsGate, Program
    <3> QED BY <1>2, <2>1, <3>1
  <2>3. CASE job \in Lasting(line)
    <3>1. PICK o \in DOMAIN line.code : Openings(line, o) # {}
      BY <2>1 DEF Sched, GateOK
    <3> PICK i \in Openings(line, o) : TRUE
      BY <3>1
    <3>2. k \in Lasting(line)
      BY OpeningArms
    <3>3. PICK a \in StepsOf(line, job, "arm") : a < pc /\ Program[a].job = k
      BY <1>1, <2>3, <3>2 DEF Sched, Alone
    <3>4. PICK b \in StepsOf(line, job, "arm") :
             /\ b < a /\ Program[b].in < Program[a].in
             /\ Closings(line, Program[b].job) # {}
      BY <1>2, <3>3, OpeningArms DEF Program
    <3>5. b < pc
      <4>1. a \in Int /\ b \in Int
        BY DEF StepsOf
      <4> QED BY <1>2, <3>3, <3>4, <4>1
    <3>6. due[Program[a].job] = Program[a].in /\ due[Program[b].job] = Program[b].in
      BY <1>1, <3>3, <3>5 DEF Sched, ArmedOK
    <3>7. Program[b].job \in DOMAIN line.code /\ Program[b].in \in Nat
      BY <1>2, CodeFacts DEF Program
    <3>8. Program[b].in # Null
      BY <3>7, VoyageConstants
    <3> QED BY <3>3, <3>4, <3>6, <3>7, <3>8 DEF ClosesBefore
  <2>4. CASE job \notin Lasting(line)
    BY <2>1, <2>2, <2>4 DEF Sched, ClosingOK
  <2> QED BY <2>3, <2>4
<1> QED BY <1>3, <1>4, <1>5, <1>7, <1>8 DEF Sched

(* Docks, waiting rooms and what is aboard are different maps. *)
LEMMA RoomsApart ==
    ASSUME TypeOK
    PROVE  /\ Docks \subseteq Rooms /\ Waiting \subseteq Rooms /\ Docks \cap Waiting = {}
           /\ Null \notin Rooms
           /\ \A m : Aboard(m) => m \in Rooms /\ m \notin Docks /\ m \notin Waiting
<1>1. line \in Lines /\ Null \notin Rooms
  BY VoyageConstants DEF TypeOK
<1>2. \A s \in line.stops : s.dock \in Rooms /\ s.room \in Rooms
  BY <1>1, VoyageConstants
<1>3. DocksOf(line) \cap RoomsOf(line) = {}
  BY <1>1, StopsAssumption
<1> QED BY <1>1, <1>2, <1>3 DEF Docks, Waiting, DocksOf, RoomsOf, Aboard

(* Nobody is left behind by a step that moves nobody and goes not on. *)
LEMMA RidingStays ==
    ASSUME Riding, UNCHANGED <<line, due, job, pc, broken, iter, where, late, slipped>>
    PROVE  Riding'
BY DEF Riding, IterOK, AboardOK, CameAboard, WaitOK, CameWaiting, Promised, WillCarry, WillArm,
       WillEmpty, Ahead, AtStep, Running, Step, Program, Waiting, Docks, Aboard

(* Someone changes the map while the script does not go on.  He is all     *)
(* right where he comes to.                                                *)
LEMMA RidingChange ==
    ASSUME TypeOK, Riding,
           NEW p \in Travellers, NEW to \in Rooms \cup {Null}, ChangeMap(p, to),
           UNCHANGED <<line, due, job, pc, broken>>,
           late \ {p} \subseteq late', slipped \ {p} \subseteq slipped',
           ~broken /\ Aboard(to) => p \in slipped' \/ Promised(to),
           iter # Null /\ iter.room = to /\ Aboard(to) => p \in slipped',
           ~broken /\ to \in Waiting => p \in late' \/ Promised(to)
    PROVE  Riding'
<1>1. /\ \A m : Aboard(m)' <=> Aboard(m)
      /\ \A m : Promised(m)' <=> Promised(m)
      /\ \A m : WillEmpty(m)' <=> WillEmpty(m)
      /\ Waiting' = Waiting /\ (AtStep("carry")' <=> AtStep("carry")) /\ Step' = Step
      /\ line' = line /\ broken' = broken
  BY DEF Promised, WillCarry, WillArm, WillEmpty, Ahead, AtStep, Running, Step, Program,
         Waiting, Docks, Aboard
<1>2. where'[p] = to /\ \A q \in Travellers \ {p} : where'[q] = where[q]
  BY OnAfter
<1>3. \/ iter' = iter /\ (iter # Null => iter.room # to)
      \/ /\ iter # Null /\ iter' # Null /\ iter'.room = iter.room
         /\ iter'.came = iter.came \cup (IF to = iter.room THEN {p} ELSE {})
  <2>1. CASE iter # Null /\ iter.room \in {where[p], to}
    <3>1. iter' = [room |-> iter.room, next |-> iter.next, stale |-> TRUE,
                   came |-> iter.came \cup (IF to = iter.room THEN {p} ELSE {})]
      BY <2>1 DEF ChangeMap
    <3>2. iter \in Iterators
      BY <2>1 DEF TypeOK
    <3>3. iter' \in Iterators
      BY <3>1, <3>2 DEF Iterators
    <3>4. iter' # Null
      BY <3>3, VoyageConstants
    <3> QED BY <2>1, <3>1, <3>4
  <2>2. CASE ~(iter # Null /\ iter.room \in {where[p], to})
    BY <2>2 DEF ChangeMap
  <2> QED BY <2>1, <2>2
<1>4. iter' # Null => iter # Null /\ iter'.room = iter.room
  BY <1>3
<1>5. IterOK'
  BY <1>1, <1>4 DEF Riding, IterOK
<1>6. AboardOK'
  <2> SUFFICES ASSUME ~broken, NEW q \in Travellers, NEW m, m = where'[q], Aboard(m)
               PROVE  Promised(m) \/ WillEmpty(m) \/ q \in slipped'
    <3> SUFFICES ASSUME ~broken, NEW q \in Travellers, Aboard(where[q])'
                 PROVE  Promised(where[q])' \/ WillEmpty(where[q])' \/ q \in slipped'
      BY <1>1 DEF AboardOK
    <3>1. PICK m : m = where'[q]
      OBVIOUS
    <3>2. /\ Aboard(where[q])' = Aboard(m)' /\ Promised(where[q])' = Promised(m)'
          /\ WillEmpty(where[q])' = WillEmpty(m)'
      BY <3>1 DEF Aboard, Promised, WillCarry, WillArm, WillEmpty
    <3> QED BY <1>1, <3>1, <3>2
  <2>1. CASE q = p
    BY <1>2, <2>1
  <2>2. CASE q # p
    <3>1. m = where[q]
      BY <1>2, <2>2
    <3>2. Promised(m) \/ WillEmpty(m) \/ q \in slipped
      BY <3>1 DEF Riding, AboardOK
    <3> QED BY <2>2, <3>2
  <2> QED BY <2>1, <2>2
<1>7. WaitOK'
  <2> SUFFICES ASSUME ~broken, NEW q \in Travellers, NEW m, m = where'[q], m \in Waiting
               PROVE  Promised(m) \/ WillEmpty(m) \/ q \in late'
    <3> SUFFICES ASSUME ~broken, NEW q \in Travellers, where'[q] \in Waiting
                 PROVE  Promised(where[q])' \/ WillEmpty(where[q])' \/ q \in late'
      BY <1>1 DEF WaitOK
    <3>1. PICK m : m = where'[q]
      OBVIOUS
    <3>2. /\ Promised(where[q])' = Promised(m)' /\ WillEmpty(where[q])' = WillEmpty(m)'
      BY <3>1 DEF Promised, WillCarry, WillArm, WillEmpty
    <3> QED BY <1>1, <3>1, <3>2
  <2>1. CASE q = p
    BY <1>2, <2>1
  <2>2. CASE q # p
    <3>1. m = where[q]
      BY <1>2, <2>2
    <3>2. Promised(m) \/ WillEmpty(m) \/ q \in late
      BY <3>1 DEF Riding, WaitOK
    <3> QED BY <2>2, <3>2
  <2> QED BY <2>1, <2>2
(* Who came into the room of the loop. *)
<1>8. ASSUME iter' # Null, NEW q \in iter'.came, where'[q] = iter'.room
      PROVE  \/ q = p /\ iter.room = to
             \/ q # p /\ q \in iter.came /\ where[q] = iter.room
  <2>1. q \in iter.came \/ (q = p /\ iter.room = to)
    BY <1>3, <1>4, <1>8
  <2>2. CASE q = p
    BY <1>2, <1>4, <1>8, <2>2
  <2>3. CASE q # p
    <3>1. q \in Travellers
      BY <1>4, <1>8, <2>1 DEF TypeOK, Iterators
    <3> QED BY <1>2, <1>4, <1>8, <2>1, <2>3, <3>1
  <2> QED BY <2>2, <2>3
<1>9. CameAboard'
  <2> SUFFICES ASSUME iter' # Null, Aboard(iter.room),
                      NEW q \in iter'.came, where'[q] = iter'.room
               PROVE  q \in slipped'
    BY <1>1, <1>4 DEF CameAboard, Aboard, Docks, Waiting
  <2>1. CASE q = p /\ iter.room = to
    BY <1>4, <2>1
  <2>2. CASE q # p /\ q \in iter.came /\ where[q] = iter.room
    BY <1>4, <2>2 DEF Riding, CameAboard
  <2> QED BY <1>8, <2>1, <2>2
<1>10. CameWaiting'
  <2> SUFFICES ASSUME ~broken, iter' # Null, iter.room \in Waiting,
                      NEW q \in iter'.came, where'[q] = iter'.room
               PROVE  q \in late' \/ Promised(iter.room)
    <3>1. iter' # Null => (Promised(iter.room)' <=> Promised(iter.room)) /\ iter'.room = iter.room
      <4>1. ASSUME iter' # Null PROVE Promised(iter.room)' <=> Promised(iter.room)
        <5>1. PICK m : m = iter.room
          OBVIOUS
        <5>2. m = iter'.room
          BY <1>4, <4>1, <5>1
        <5>3. Promised(iter.room)' = Promised(m)'
          BY <5>2 DEF Promised, WillCarry, WillArm
        <5> QED BY <1>1, <5>1, <5>3
      <4> QED BY <1>4, <4>1
    <3> QED BY <1>1, <3>1 DEF CameWaiting
  <2>1. CASE q = p /\ iter.room = to
    BY <2>1
  <2>2. CASE q # p /\ q \in iter.came /\ where[q] = iter.room
    BY <1>4, <2>2 DEF Riding, CameWaiting
  <2> QED BY <1>8, <2>1, <2>2
<1> QED BY <1>5, <1>6, <1>7, <1>9, <1>10 DEF Riding

(* The function that is called will carry those it was scheduled for. *)
LEMMA RideFire ==
    ASSUME RideInv, NEW j \in Jobs, Fire(j)
    PROVE  Riding'
<1> USE DEF RideInv, IInv
<1>1. /\ ~Running /\ due[j] # Null /\ job' = j /\ pc' = 1 /\ Running'
      /\ UNCHANGED <<line, broken, iter, where, late, slipped>>
      /\ \A k \in Jobs : due'[k] = IF k = j \/ due[k] = Null THEN Null ELSE due[k] - due[j]
      /\ \A k \in Jobs : due[k] # Null => due[j] <= due[k]
  BY VoyageConstants DEF Fire, Running, people
<1>2. iter = Null
  BY <1>1 DEF Riding, IterOK, AtStep
<1>3. j \in DOMAIN line.code /\ due[j] \in Nat
  BY <1>1, CodeFacts DEF TypeOK
<1>4. \A k \in DOMAIN line.code : due[k] # Null /\ k # j => due'[k] # Null
  <2> SUFFICES ASSUME NEW k \in DOMAIN line.code, due[k] # Null, k # j PROVE due'[k] # Null
    OBVIOUS
  <2>1. k \in Jobs /\ due[k] \in Nat
    BY CodeFacts
  <2>2. due'[k] \in Nat
    BY <1>1, <1>3, <2>1
  <2> QED BY <2>2, VoyageConstants
<1>5. ASSUME NEW m, Promised(m) PROVE Promised(m)' \/ WillEmpty(m)'
  <2>1. PICK k \in DOMAIN line.code : due[k] # Null /\ m \in Emptied(line, k)
    BY <1>1, <1>5 DEF Promised, WillCarry, WillArm
  <2>2. CASE k # j
    BY <1>1, <1>4, <2>1, <2>2 DEF Promised, WillCarry
  <2>3. CASE k = j
    <3>1. PICK i \in StepsOf(line, j, "carry") : line.code[j][i].from = m
      BY <2>1, <2>3 DEF Emptied
    <3>2. 1 <= i
      BY DEF StepsOf
    <3> QED BY <1>1, <3>1, <3>2 DEF WillEmpty, Ahead, Program
  <2> QED BY <2>2, <2>3
<1>6. AboardOK'
  <2> SUFFICES ASSUME ~broken, NEW p \in Travellers, NEW m, m = where[p], Aboard(m)
               PROVE  Promised(m)' \/ WillEmpty(m)' \/ p \in slipped
    BY <1>1 DEF AboardOK, Aboard, Docks, Waiting, Promised, WillCarry, WillArm, WillEmpty
  <2>1. Promised(m) \/ p \in slipped
    BY <1>1 DEF Riding, AboardOK, WillEmpty
  <2> QED BY <1>5, <2>1
<1>7. WaitOK'
  <2> SUFFICES ASSUME ~broken, NEW p \in Travellers, NEW m, m = where[p], m \in Waiting
               PROVE  Promised(m)' \/ WillEmpty(m)' \/ p \in late
    BY <1>1 DEF WaitOK, Waiting, Promised, WillCarry, WillArm, WillEmpty
  <2>1. Promised(m) \/ p \in late
    BY <1>1 DEF Riding, WaitOK, WillEmpty
  <2> QED BY <1>5, <2>1
<1> QED BY <1>1, <1>2, <1>6, <1>7 DEF Riding, IterOK, CameAboard, CameWaiting

(* A step of the function that is no loop. *)
LEMMA RideAdvances ==
    ASSUME RideInv, Goes, Running, ~AtStep("carry"), UNCHANGED <<broken, iter, where, late, slipped>>
    PROVE  Riding'
<1> USE DEF RideInv, IInv
<1>1. iter = Null /\ line' = line
  BY DEF Riding, IterOK, Goes
<1>2. \A m : Promised(m) => Promised(m)'
  BY PromiseKept
<1>3. \A m : WillEmpty(m) => WillEmpty(m)'
  BY EmptyingKept
<1>4. AboardOK'
  <2> SUFFICES ASSUME ~broken, NEW p \in Travellers, NEW m, m = where[p], Aboard(m)
               PROVE  Promised(m)' \/ WillEmpty(m)' \/ p \in slipped
    BY <1>1 DEF AboardOK, Aboard, Docks, Waiting, Promised, WillCarry, WillArm, WillEmpty
  <2>1. Promised(m) \/ WillEmpty(m) \/ p \in slipped
    BY DEF Riding, AboardOK
  <2> QED BY <1>2, <1>3, <2>1
<1>5. WaitOK'
  <2> SUFFICES ASSUME ~broken, NEW p \in Travellers, NEW m, m = where[p], m \in Waiting
               PROVE  Promised(m)' \/ WillEmpty(m)' \/ p \in late
    BY <1>1 DEF WaitOK, Waiting, Promised, WillCarry, WillArm, WillEmpty
  <2>1. Promised(m) \/ WillEmpty(m) \/ p \in late
    BY DEF Riding, WaitOK
  <2> QED BY <1>2, <1>3, <2>1
<1> QED BY <1>1, <1>4, <1>5 DEF Riding, IterOK, CameAboard, CameWaiting

(* A loop that comes to its end leaves only those in its room who came in  *)
(* while it ran; they have slipped past it or will be fetched.             *)
LEMMA RideLoopEnds == ASSUME RideInv, LoopEnds PROVE Riding'
<1> USE DEF RideInv, IInv
<1>1. /\ AtStep("carry") /\ iter # Null /\ hand = Null /\ iter.next = Null /\ iter' = Null
      /\ pc' = pc + 1 /\ UNCHANGED <<line, due, job, broken, where, late, slipped>>
      /\ iter.room = Step.from
  BY DEF LoopEnds, people, Riding, IterOK
<1>2. Goes /\ Running
  BY <1>1 DEF Goes, AtStep
<1>3. \A p \in Travellers : where[p] = Step.from => p \in iter.came
  <2>1. On(iter.room) \subseteq iter.came \cup {hand}
    BY <1>1 DEF LoopEmpties
  <2>2. hand \notin Travellers
    BY <1>1, VoyageConstants
  <2> QED BY <1>1, <2>1, <2>2 DEF On
<1>4. \A m : Promised(m) => Promised(m)'
  BY <1>2, PromiseKept
<1>5. \A m : WillEmpty(m) => WillEmpty(m)' \/ m = Step.from
  BY <1>2, EmptyingKept
<1>6. AboardOK'
  <2> SUFFICES ASSUME ~broken, NEW p \in Travellers, NEW m, m = where[p], Aboard(m)
               PROVE  Promised(m)' \/ WillEmpty(m)' \/ p \in slipped
    BY <1>1 DEF AboardOK, Aboard, Docks, Waiting, Promised, WillCarry, WillArm, WillEmpty
  <2>1. Promised(m) \/ WillEmpty(m) \/ p \in slipped
    BY DEF Riding, AboardOK
  <2>2. m = Step.from => p \in slipped
    BY <1>1, <1>3 DEF Riding, CameAboard
  <2> QED BY <1>4, <1>5, <2>1, <2>2
<1>7. WaitOK'
  <2> SUFFICES ASSUME ~broken, NEW p \in Travellers, NEW m, m = where[p], m \in Waiting
               PROVE  Promised(m)' \/ WillEmpty(m)' \/ p \in late
    BY <1>1 DEF WaitOK, Waiting, Promised, WillCarry, WillArm, WillEmpty
  <2>1. Promised(m) \/ WillEmpty(m) \/ p \in late
    BY DEF Riding, WaitOK
  <2>2. m = Step.from => p \in late \/ Promised(m)
    BY <1>1, <1>3 DEF Riding, CameWaiting
  <2> QED BY <1>4, <1>5, <2>1, <2>2
<1> QED BY <1>1, <1>6, <1>7 DEF Riding, IterOK, CameAboard, CameWaiting

(* When a function is over, all it has not carried will be by another. *)
LEMMA RideStops ==
    ASSUME RideInv, Stops, iter' = Null, UNCHANGED <<where, late, slipped>>
    PROVE  Riding'
<1> USE DEF RideInv, IInv
<1>1. /\ Running /\ ~Running' /\ UNCHANGED <<line, due>>
      /\ broken' \/ (pc > Len(Program) /\ broken' = broken)
  BY DEF Stops, Running
<1>2. ASSUME ~broken', NEW m PROVE ~WillEmpty(m) /\ (Promised(m) => Promised(m)')
  <2>1. Ahead("arm") = {} /\ Ahead("carry") = {}
    BY <1>1, <1>2, NothingAhead
  <2> QED BY <1>1, <2>1 DEF WillEmpty, Promised, WillArm, WillCarry
<1>3. AboardOK'
  <2> SUFFICES ASSUME ~broken', NEW p \in Travellers, NEW m, m = where[p], Aboard(m)
               PROVE  Promised(m)' \/ p \in slipped
    BY <1>1 DEF AboardOK, Aboard, Docks, Waiting, Promised, WillCarry, WillArm
  <2>1. Promised(m) \/ WillEmpty(m) \/ p \in slipped
    BY <1>1 DEF Riding, AboardOK
  <2> QED BY <1>2, <2>1
<1>4. WaitOK'
  <2> SUFFICES ASSUME ~broken', NEW p \in Travellers, NEW m, m = where[p], m \in Waiting
               PROVE  Promised(m)' \/ p \in late
    BY <1>1 DEF WaitOK, Waiting, Promised, WillCarry, WillArm
  <2>1. Promised(m) \/ WillEmpty(m) \/ p \in late
    BY <1>1 DEF Riding, WaitOK
  <2> QED BY <1>2, <2>1
<1> QED BY <1>3, <1>4 DEF Riding, IterOK, CameAboard, CameWaiting

(* In the beginning the service is about to schedule its first round. *)
LEMMA RideInit == Init => RideInv
<1> SUFFICES ASSUME Init PROVE RideInv
  OBVIOUS
<1>1. IInv
  BY InvInit
<1>2. /\ line \in Lines /\ job = "init" /\ pc = 1 /\ iter = Null /\ broken = FALSE
      /\ \A k \in Jobs : due[k] = Null
      /\ props = [k \in Keys |-> Null] /\ \A p \in Travellers : where[p] \in Docks
  BY DEF Init
<1>3. /\ "init" \in Lasting(line) /\ "init" \in DOMAIN line.code /\ "init" # Null
      /\ \A k \in DOMAIN line.code : k \in Jobs
  BY <1>1, <1>2, RoundAssumption, CodeFacts DEF IInv, Lasting
<1>4. Lasts
  <2>1. PICK k \in Lasting(line) : k \in Armed(line, "init")
    BY <1>2, <1>3, RoundAssumption
  <2>2. PICK i \in StepsOf(line, "init", "arm") : line.code["init"][i].job = k
    BY <2>1 DEF Armed
  <2>3. i \in Ahead("arm")
    BY <1>2 DEF Ahead, StepsOf
  <2> QED BY <1>2, <1>3, <2>1, <2>2, <2>3 DEF Lasts, Running, Program
<1>5. ArmedOK /\ Alone
  BY <1>2, <1>3 DEF ArmedOK, Alone, StepsOf, Lasting
<1>6. ~GateOpen
  <2>1. "entry" \in Keys /\ Null # "true"
    BY VoyageConstants DEF Keys, Values
  <2> QED BY <1>2, <2>1 DEF GateOpen
<1>7. Riding
  <2>1. \A p \in Travellers : ~Aboard(where[p]) /\ where[p] \notin Waiting
    BY <1>1, <1>2, RoomsApart DEF IInv
  <2> QED BY <1>2, <2>1 DEF Riding, IterOK, AboardOK, CameAboard, WaitOK, CameWaiting
<1> QED BY <1>1, <1>4, <1>5, <1>6, <1>7 DEF RideInv, Sched, GateOK, ClosingOK

(* The timer thread between two statements, or from one function to the next. *)
LEMMA RideTimer ==
    ASSUME RideInv,
           (\E j \in Jobs : Fire(j)) \/ DoPut \/ DoPerhaps \/ DoArm
              \/ LoopEnds \/ LoopThrows \/ FunctionReturns
    PROVE  Sched' /\ Riding'
<1>1. TypeOK /\ Sched /\ Riding
  BY DEF RideInv, IInv
<1>2. ASSUME NEW j \in Jobs, Fire(j) PROVE Sched' /\ Riding'
  BY <1>1, <1>2, SchedFire, RideFire
<1>3. ASSUME DoPut \/ DoPerhaps \/ DoArm PROVE Sched' /\ Riding'
  <2>1. Advances /\ Goes /\ UNCHANGED <<broken, iter, where, late, slipped>>
    BY <1>3 DEF DoPut, DoPerhaps, DoArm, Advances, Goes, AtStep, people
  <2>2. Running /\ ~AtStep("carry")
    BY <1>3 DEF DoPut, DoPerhaps, DoArm, AtStep
  <2> QED BY <1>1, <2>1, <2>2, SchedAdvances, RideAdvances
<1>4. CASE LoopEnds
  <2>1. Advances
    BY <1>4 DEF LoopEnds, Advances, AtStep
  <2> QED BY <1>1, <1>4, <2>1, SchedAdvances, RideLoopEnds
<1>5. CASE LoopThrows
  <2>1. Stops /\ iter' = Null /\ UNCHANGED <<where, late, slipped>>
    BY <1>5 DEF LoopThrows, Stops, AtStep, people
  <2> QED BY <1>1, <2>1, SchedStops, RideStops
<1>6. CASE FunctionReturns
  <2>1. Len(Program) \in Nat /\ pc \in Nat
    BY <1>1, <1>6, CodeFacts DEF FunctionReturns, Program
  <2>2. iter = Null
    BY <1>1, <1>6, <2>1 DEF FunctionReturns, Riding, IterOK, AtStep
  <2>3. Stops /\ iter' = Null /\ UNCHANGED <<where, late, slipped>>
    BY <1>6, <2>2 DEF FunctionReturns, Stops, people
  <2> QED BY <1>1, <2>3, SchedStops, RideStops
<1> QED BY <1>2, <1>3, <1>4, <1>5, <1>6

(* Whoever is carried goes to a dock, or to where he will be fetched. *)
LEMMA RideCarry == ASSUME RideInv, CarryHand PROVE Riding'
<1>1. TypeOK /\ Riding /\ HandOK
  BY DEF RideInv, IInv
<1>2. /\ hand \in Travellers /\ iter # Null /\ AtStep("carry") /\ iter.room = Step.from
      /\ UNCHANGED <<line, due, job, pc, broken>>
  BY <1>1 DEF CarryHand, HandOK, TypeOK, Riding, IterOK
<1>3. CASE where[hand] = Null
  BY <1>1, <1>2, <1>3, RidingStays DEF CarryHand, people
<1>4. CASE where[hand] # Null
  <2>1. /\ pc \in StepsOf(line, job, "carry") /\ job \in DOMAIN line.code
        /\ Step = line.code[job][pc] /\ line \in Lines
    BY <1>1, <1>2, StepHere DEF TypeOK
  <2>2. Step.to \notin Waiting /\ Step.to # Step.from
    BY <2>1, StopsAssumption DEF Waiting
  <2>3. Step.to \in Docks \/ \E k \in ArmedAfter(line, job, pc) : Step.to \in Emptied(line, k)
    BY <2>1, LandingAssumption DEF Docks
  <2>4. Step.to \in Rooms
    BY <1>1, <1>2, StepType DEF AtStep, Steps
  <2>5. PICK p \in Travellers, to \in Rooms : p = hand /\ to = Step.to
    BY <1>2, <2>4
  <2>6. ChangeMap(p, to) /\ late' = late \ {p} /\ slipped' = slipped \ {p}
    BY <1>4, <2>5 DEF CarryHand
  <2>7. Aboard(to) => Promised(to)
    <3> SUFFICES ASSUME Aboard(to) PROVE WillArm(to)
      BY DEF Promised
    <3>1. PICK k \in ArmedAfter(line, job, pc) : to \in Emptied(line, k)
      BY <1>1, <2>3, <2>5, RoomsApart
    <3>2. PICK a \in StepsOf(line, job, "arm") : a > pc /\ k = line.code[job][a].job
      BY DEF ArmedAfter
    <3>3. pc \in Int /\ a \in Int
      BY <1>1, CodeFacts DEF StepsOf
    <3> QED BY <1>2, <3>1, <3>2, <3>3 DEF WillArm, Ahead, AtStep, Program
  <2>8. iter.room # to /\ to \notin Waiting
    BY <1>2, <2>2, <2>5
  <2> QED BY <1>1, <1>2, <2>6, <2>7, <2>8, RidingChange
<1> QED BY <1>3, <1>4

(* Sessions.  Whoever gets in is late or finds a departure scheduled;      *)
(* whoever takes a door is fetched there as well as here, or slips past    *)
(* the arrival that is under way.                                          *)
LEMMA RideGetIn ==
    ASSUME RideInv, NEW p \in Travellers, NEW s \in line.stops, GetIn(p, s.room),
           UNCHANGED <<line, due, job, pc, broken>>
    PROVE  Riding'
<1>1. TypeOK /\ Riding /\ GateOK
  BY DEF RideInv, IInv, Sched
<1>2. PICK to \in Rooms : to = s.room
  BY <1>1, RoomsApart DEF Waiting, RoomsOf
<1>3. to \in Waiting /\ ~Aboard(to)
  BY <1>1, <1>2, RoomsApart DEF Waiting, RoomsOf
<1>4. ChangeMap(p, to) /\ slipped' = slipped \ {p} /\ late \ {p} \subseteq late'
  BY <1>2 DEF GetIn
<1>5. ~broken => p \in late' \/ Promised(to)
  <2>1. CASE props["entry"] = "true"
    BY <1>1, <1>3, <2>1 DEF GateOK, GateOpen
  <2>2. CASE props["entry"] # "true"
    BY <2>2 DEF GetIn
  <2> QED BY <2>1, <2>2
<1> QED BY <1>1, <1>3, <1>4, <1>5, RidingChange

(* Through a door, between deck and cabin. *)
LEMMA RideHop ==
    ASSUME RideInv, NEW p \in Travellers, NEW door \in line.doors, Hop(p, door)
    PROVE  Riding'
<1>1. TypeOK /\ Riding /\ line \in Lines
  BY DEF RideInv, IInv, TypeOK
<1>2. door[1] \in Rooms /\ door[2] \in Rooms /\ Aboard(door[1]) /\ Aboard(door[2])
  BY <1>1, StopsAssumption DEF Aboard, Docks, Waiting
<1>3. PICK m \in Rooms, to \in Rooms : m = door[1] /\ to = door[2]
  BY <1>2
<1>4. \A j \in DOMAIN line.code :
         /\ to \in Emptied(line, j) => j = "arrived"
         /\ m \in Emptied(line, j) => to \in Emptied(line, j)
  BY <1>1, <1>3, LandingAssumption
<1>5. /\ ChangeMap(p, to) /\ where[p] = m /\ late' = late
      /\ slipped' = IF job = "arrived" THEN slipped \cup {p} ELSE slipped
      /\ UNCHANGED <<line, due, job, pc, broken>>
  BY <1>3 DEF Hop
<1>6. to \notin Waiting
  BY <1>1, <1>2, <1>3, RoomsApart
<1>7. ASSUME NEW r, WillEmpty(r) PROVE job \in DOMAIN line.code /\ r \in Emptied(line, job)
  <2>1. PICK i \in Ahead("carry") : Program[i].from = r
    BY <1>7 DEF WillEmpty
  <2> QED BY <1>1, <1>7, <2>1, CodeFacts DEF WillEmpty, Ahead, Emptied, Program
<1>8. Promised(m) => Promised(to)
  <2>1. WillCarry(m) => WillCarry(to)
    BY <1>4 DEF WillCarry
  <2>2. ASSUME WillArm(m) PROVE WillArm(to)
    <3>1. PICK i \in Ahead("arm") : m \in Emptied(line, Program[i].job)
      BY <2>2 DEF WillArm
    <3>2. Program[i].job \in DOMAIN line.code
      BY <1>1, <2>2, CodeFacts DEF WillArm, Ahead, Program
    <3> QED BY <1>4, <2>2, <3>1, <3>2 DEF WillArm
  <2> QED BY <2>1, <2>2 DEF Promised
<1>9. ~broken => p \in slipped' \/ Promised(to)
  <2>1. CASE job = "arrived"
    BY <1>5, <2>1
  <2>2. CASE job # "arrived"
    <3>1. ~broken => Promised(m) \/ WillEmpty(m) \/ p \in slipped
      BY <1>1, <1>2, <1>3, <1>5 DEF Riding, AboardOK
    <3>2. ~WillEmpty(m)
      BY <1>4, <1>7, <2>2
    <3> QED BY <1>5, <1>8, <3>1, <3>2
  <2> QED BY <2>1, <2>2
<1>10. iter # Null /\ iter.room = to => p \in slipped'
  <2> SUFFICES ASSUME iter # Null, iter.room = to PROVE job = "arrived"
    BY <1>5
  <2>1. AtStep("carry") /\ Step.from = to
    BY <1>1 DEF Riding, IterOK
  <2>2. pc \in StepsOf(line, job, "carry") /\ job \in DOMAIN line.code /\ Step = line.code[job][pc]
    BY <1>1, <2>1, StepHere
  <2> QED BY <1>4, <2>1, <2>2 DEF Emptied
<1> QED BY <1>1, <1>5, <1>6, <1>9, <1>10, RidingChange

(* What the travellers do themselves. *)
LEMMA RideSession ==
    ASSUME RideInv, NEW p \in Travellers, Session(p)
    PROVE  Sched' /\ Riding'
<1>1. TypeOK /\ Sched /\ Riding /\ line \in Lines
  BY DEF RideInv, IInv, TypeOK
<1>2. UNCHANGED <<line, props, due, job, pc, broken>>
  BY DEF Session, AskToBoard, Board, WalkIn, AskToBuy, Buy, SayNo, AskToLeave, LeaveRoom, Hop,
         DropTicket, Disconnect, Reconnect, timer
<1>3. Sched'
  BY <1>1, <1>2, SchedStays
<1>4. ASSUME NEW s \in line.stops, Board(p, s) \/ WalkIn(p, s) PROVE Riding'
  <2>1. CASE GetIn(p, s.room)
    BY <1>2, <2>1, RideGetIn
  <2>2. CASE UNCHANGED <<iter, people>>
    BY <1>1, <1>2, <2>2, RidingStays DEF people
  <2> QED BY <1>4, <2>1, <2>2 DEF Board, WalkIn
<1>5. ASSUME UNCHANGED <<iter, people>> PROVE Riding'
  <2>1. UNCHANGED <<iter, where, late, slipped>>
    BY <1>5 DEF people
  <2> QED BY <1>1, <1>2, <2>1, RidingStays
<1>6. ASSUME NEW m \in Docks \cup {Null}, ChangeMap(p, m),
             late \ {p} \subseteq late', slipped \ {p} \subseteq slipped'
      PROVE  Riding'
  <2>1. m \in Rooms \cup {Null} /\ ~Aboard(m) /\ m \notin Waiting
    BY <1>1, RoomsApart
  <2> QED BY <1>1, <1>2, <1>6, <2>1, RidingChange
<1>7. CASE LeaveRoom(p)
  <2>1. line.exits[where[p]] \in Docks
    BY <1>1, <1>7, StopsAssumption DEF LeaveRoom, Docks
  <2>2. PICK m \in Docks : m = line.exits[where[p]]
    BY <2>1
  <2>3. ChangeMap(p, m) /\ late \ {p} \subseteq late' /\ slipped \ {p} \subseteq slipped'
    BY <1>7, <2>2 DEF LeaveRoom
  <2> QED BY <1>3, <1>6, <2>3
<1>8. CASE Disconnect(p) \/ Reconnect(p)
  <2>1. PICK m \in Docks \cup {Null} : ChangeMap(p, m)
    BY <1>8 DEF Disconnect, Reconnect
  <2>2. late \ {p} \subseteq late' /\ slipped \ {p} \subseteq slipped'
    BY <1>8 DEF Disconnect, Reconnect
  <2> QED BY <1>3, <1>6, <2>1, <2>2
<1>9. ASSUME NEW door \in line.doors, Hop(p, door) PROVE Riding'
  BY <1>9, RideHop
<1>10. ASSUME NEW s \in line.stops, AskToBoard(p, s) \/ AskToBuy(p, s) \/ Buy(p, s) PROVE Riding'
  BY <1>5, <1>10 DEF AskToBoard, AskToBuy, Buy, timer
<1>11. CASE SayNo(p) \/ AskToLeave(p) \/ DropTicket(p)
  BY <1>3, <1>5, <1>11 DEF SayNo, AskToLeave, DropTicket, timer
<1> QED BY <1>3, <1>4, <1>7, <1>8, <1>9, <1>10, <1>11 DEF Session

(* Every step keeps the invariant. *)
LEMMA RideNext == RideInv /\ [Next]_vars => RideInv'
<1> SUFFICES ASSUME RideInv, [Next]_vars PROVE RideInv'
  OBVIOUS
<1>1. IInv'
  BY InvNext DEF RideInv
<1>2. TypeOK /\ Sched /\ Riding
  BY DEF RideInv, IInv
<1>3. CASE (\E j \in Jobs : Fire(j)) \/ DoPut \/ DoPerhaps \/ DoArm
              \/ LoopEnds \/ LoopThrows \/ FunctionReturns
  BY <1>1, <1>3, RideTimer DEF RideInv
<1>4. CASE Iterator \/ NextCharacter
  <2>1. /\ UNCHANGED <<line, props, due, job, pc, broken, where, late, slipped>>
        /\ AtStep("carry")
    BY <1>4 DEF Iterator, NextCharacter, people
  <2>2. /\ iter'.room = Step.from
        /\ iter'.came = {} \/ (iter # Null /\ iter'.came = iter.came /\ iter'.room = iter.room)
    <3>1. CASE Iterator
      BY <3>1 DEF Iterator
    <3>2. CASE NextCharacter
      <4>1. iter \in Iterators /\ iter # Null /\ iter.room = Step.from
        BY <1>2, <3>2 DEF NextCharacter, Riding, IterOK, TypeOK
      <4>2. PICK q : iter' = [iter EXCEPT !.next = q]
        BY <3>2 DEF NextCharacter
      <4> QED BY <4>1, <4>2 DEF Iterators
    <3> QED BY <1>4, <3>1, <3>2
  <2>4. Sched'
    BY <1>2, <2>1, SchedStays
  <2>5. IterOK'
    BY <2>1, <2>2 DEF IterOK, AtStep, Running, Step, Program
  <2>6. AboardOK' /\ WaitOK'
    BY <1>2, <2>1 DEF Riding, AboardOK, WaitOK, Promised, WillCarry, WillArm, WillEmpty, Ahead,
       Running, Program, Waiting, Docks, Aboard
  <2>7. CameAboard' /\ CameWaiting'
    BY <1>2, <2>1, <2>2 DEF Riding, CameAboard, CameWaiting, Promised, WillCarry, WillArm, Ahead,
       Running, Program, Waiting, Docks, Aboard
  <2> QED BY <1>1, <2>4, <2>5, <2>6, <2>7 DEF RideInv, Riding
<1>5. CASE CarryHand
  <2>1. Sched'
    BY <1>2, <1>5, SchedStays DEF CarryHand
  <2> QED BY <1>1, <1>5, <2>1, RideCarry DEF RideInv
<1>6. CASE \E p \in Travellers : Session(p)
  BY <1>1, <1>6, RideSession DEF RideInv
<1>7. CASE UNCHANGED vars
  <2>1. Sched' /\ Riding'
    BY <1>2, <1>7, SchedStays, RidingStays DEF vars, timer, people
  <2> QED BY <1>1, <2>1 DEF RideInv
<1> QED BY <1>3, <1>4, <1>5, <1>6, <1>7 DEF Next, TimerThread

(* The inductive invariant holds in every behaviour. *)
LEMMA RideInvariant == Spec => []RideInv
BY RideInit, RideNext, PTL DEF Spec

(* Between two functions nothing is left to be done. *)
LEMMA AtRest ==
    ASSUME RideInv, Rests, NEW m
    PROVE  ~broken /\ ~WillEmpty(m) /\ (Promised(m) => WillCarry(m))
BY DEF Rests, Running, WillEmpty, Promised, WillArm

(* In every behaviour of such a service, for any number of travellers, a   *)
(* function of the script is running or scheduled unless one has thrown    *)
(* (EventManager.schedule is the only thing that keeps a service alive:    *)
(* stopentry, invasion and the arrival of the plane schedule nothing).     *)
THEOREM VoyageNeverForgotten == Spec => []NeverForgotten
<1>1. RideInv => NeverForgotten
  <2> SUFFICES ASSUME RideInv PROVE NeverForgotten
    OBVIOUS
  <2>1. \A k \in Lasting(line) : k \in Jobs
    BY CodeFacts DEF RideInv, IInv, Lasting
  <2> QED BY <2>1 DEF RideInv, Sched, Lasts, NeverForgotten, Running
<1> QED BY <1>1, RideInvariant, PTL

(* In every behaviour, whoever is aboard between two functions will be     *)
(* taken off by a function already scheduled, unless he changed deck       *)
(* while an arrival was under way or a function has thrown: takeoff,       *)
(* which brings people aboard, schedules the arrival that carries from     *)
(* there, and the cabins are emptied with their decks.                     *)
THEOREM VoyageAboard == Spec => []NobodyLeftAboard
<1>1. RideInv => NobodyLeftAboard
  <2> SUFFICES ASSUME RideInv, Rests, NEW p \in Travellers, Aboard(where[p])
               PROVE  WillCarry(where[p]) \/ p \in slipped
    BY DEF NobodyLeftAboard
  <2>1. Promised(where[p]) \/ WillEmpty(where[p]) \/ p \in slipped
    BY AtRest DEF RideInv, Riding, AboardOK
  <2> QED BY <2>1, AtRest
<1> QED BY <1>1, RideInvariant, PTL

(* In every behaviour, whoever waits between two functions will be         *)
(* fetched by a departure already scheduled, unless he got in when the     *)
(* gate was not open or a function has thrown: the gate is closed before   *)
(* each departure and opened by a function that then schedules the next.   *)
THEOREM VoyageWaiting == Spec => []NobodyLeftWaiting
<1>1. RideInv => NobodyLeftWaiting
  <2> SUFFICES ASSUME RideInv, Rests, NEW p \in Travellers, where[p] \in Waiting
               PROVE  WillCarry(where[p]) \/ p \in late
    BY DEF NobodyLeftWaiting
  <2>1. Promised(where[p]) \/ WillEmpty(where[p]) \/ p \in late
    BY AtRest DEF RideInv, Riding, WaitOK
  <2> QED BY <2>1, AtRest
<1> QED BY <1>1, RideInvariant, PTL
=============================================================================
