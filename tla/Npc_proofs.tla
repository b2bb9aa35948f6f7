----------------------------- MODULE Npc_proofs -----------------------------
(***************************************************************************)
(* What the scripts give is paid for, for every script and every purse and *)
(* bag: PaidInFull is an invariant.                                        *)
(*                                                                         *)
(* A script is a sequence of effects, so the proof is about sequences: how *)
(* they are run, when running one leaves nobody in debt (Fair), and that   *)
(* each script is put together from parts that do not.  What the last page *)
(* of a smith and of a quiz relies on was seen to by the pages before      *)
(* (Ready).  The inductive invariant is IInv.                              *)
(***************************************************************************)
EXTENDS Npc, TLAPS, WellFoundedInduction

(* Induction over the naturals, for sets: a set that has 0 and with each   *)
(* number the next has them all.                                           *)
LEMMA Induction ==
    ASSUME NEW T, 0 \in T, \A n \in Nat : n \in T => n + 1 \in T
    PROVE  Nat \subseteq T
<1> DEFINE R == {ss \in Nat \X Nat : ss[1] < ss[2]}
           Bad == Nat \ T
<1>1. IsWellFoundedOn(R, Nat)
  BY NatLessThanWellFounded DEF OpToRel
<1>2. Bad # {} => \E n \in Bad : \A k \in Bad : <<k, n>> \notin R
  <2> HIDE DEF R
  <2> QED BY <1>1, WFMin
<1>3. ASSUME NEW n \in Bad PROVE n - 1 \in Bad /\ <<n - 1, n>> \in R
  <2>1. n \in Nat /\ n # 0
    OBVIOUS
  <2>2. n - 1 \in Nat /\ (n - 1) + 1 = n /\ n - 1 < n
    BY <2>1
  <2>3. n - 1 \notin T
    BY <2>1, <2>2
  <2> QED BY <2>1, <2>2, <2>3
<1>4. Bad = {}
  <2> HIDE DEF R, Bad
  <2> QED BY <1>2, <1>3
<1> QED BY <1>4

-----------------------------------------------------------------------------
(* Scripts are sequences, whatever they consist of. *)
IsOps(ops) == \E A : ops \in Seq(A)

Next1(s, o) == IF s.halt # "no" THEN s ELSE Do(s, o)

(* A row of states, one for each effect. *)
Run(F, s, ops, n) ==
    F = [i \in 0 .. n |-> IF i = 0 THEN s
                          ELSE IF F[i - 1].halt # "no" THEN F[i - 1]
                          ELSE Do(F[i - 1], ops[i])]

(* RunScript goes through a script once: the row of states it defines      *)
(* recursively exists.                                                     *)
LEMMA RunExists ==
    ASSUME NEW s, NEW ops, NEW n \in Nat
    PROVE  \E F : Run(F, s, ops, n)
<1> DEFINE Good == {k \in Nat : \E F : Run(F, s, ops, k)}
<1>1. 0 \in Good
  <2> DEFINE F == [i \in 0 .. 0 |-> s]
  <2>1. Run(F, s, ops, 0)
    BY DEF Run
  <2> QED BY <2>1
<1>2. ASSUME NEW k \in Nat, k \in Good PROVE k + 1 \in Good
  <2>1. PICK F : Run(F, s, ops, k)
    BY <1>2
  <2> DEFINE G == [i \in 0 .. k + 1 |-> IF i = k + 1 THEN Next1(F[k], ops[k + 1]) ELSE F[i]]
             Rec(H, i) == IF i = 0 THEN s
                          ELSE IF H[i - 1].halt # "no" THEN H[i - 1]
                          ELSE Do(H[i - 1], ops[i])
  <2>2. \A i \in 0 .. k : G[i] = F[i] /\ F[i] = Rec(F, i)
    <3>1. \A i \in 0 .. k : G[i] = F[i]
      OBVIOUS
    <3>2. \A i \in 0 .. k : F[i] = Rec(F, i)
      BY <2>1 DEF Run
    <3> QED BY <3>1, <3>2
  <2>3. \A i \in 0 .. k + 1 : G[i] = Rec(G, i)
    <3>1. ASSUME NEW i \in 0 .. k PROVE G[i] = Rec(G, i)
      <4>1. i # 0 => i - 1 \in 0 .. k
        OBVIOUS
      <4> HIDE DEF G
      <4> QED BY <2>2, <4>1
    <3>2. G[k + 1] = Rec(G, k + 1)
      <4>1. G[k + 1] = Next1(F[k], ops[k + 1])
        OBVIOUS
      <4>2. G[(k + 1) - 1] = F[k] /\ k + 1 # 0 /\ (k + 1) - 1 = k
        OBVIOUS
      <4> HIDE DEF G
      <4> QED BY <4>1, <4>2 DEF Next1
    <3> HIDE DEF G, Rec
    <3> QED BY <3>1, <3>2
  <2>4. G = [i \in 0 .. k + 1 |-> Rec(G, i)]
    <3>1. G = [i \in 0 .. k + 1 |-> G[i]]
      OBVIOUS
    <3> HIDE DEF G, Rec
    <3> QED BY <2>3, <3>1
  <2>5. Run(G, s, ops, k + 1)
    <3> HIDE DEF G
    <3> QED BY <2>4 DEF Run
  <2> HIDE DEF G
  <2> QED BY <2>5
<1> QED
  <2> HIDE DEF Good
  <2>1. n \in Good
    BY <1>1, <1>2, Induction
  <2> QED BY <2>1 DEF Good

(* What a script does, row by row. *)
Rows(F, s, ops) ==
    /\ F[0] = s
    /\ \A i \in 1 .. Len(ops) : F[i] = Next1(F[i - 1], ops[i])
    /\ RunScript(s, ops) = F[Len(ops)]

(* It begins with the state before the script, goes on with one effect     *)
(* after the other and ends with RunScript's.                              *)
LEMMA RunIs ==
    ASSUME NEW s, NEW ops, Len(ops) \in Nat
    PROVE  \E F : Rows(F, s, ops)
<1> DEFINE n == Len(ops)
           G == CHOOSE F : Run(F, s, ops, n)
<1>1. Run(G, s, ops, n)
  BY RunExists
<1>2. RunScript(s, ops) = G[n]
  BY DEF RunScript, Run
<1>3. G[0] = s /\ \A i \in 1 .. n : G[i] = Next1(G[i - 1], ops[i])
  <2> HIDE DEF G
  <2> QED BY <1>1 DEF Run, Next1
<1>4. Rows(G, s, ops)
  <2> HIDE DEF G
  <2> QED BY <1>2, <1>3 DEF Rows
<1> QED BY <1>4

(* What is known of a script joined of two. *)
LEMMA Cat ==
    ASSUME NEW p, NEW q, IsOps(p), IsOps(q)
    PROVE  /\ IsOps(p \o q)
           /\ Len(p) \in Nat /\ Len(q) \in Nat /\ Len(p \o q) = Len(p) + Len(q)
           /\ \A i \in 1 .. Len(p) : (p \o q)[i] = p[i]
           /\ \A i \in 1 .. Len(q) : (p \o q)[Len(p) + i] = q[i]
<1>1. PICK A : p \in Seq(A)
  BY DEF IsOps
<1>2. PICK B : q \in Seq(B)
  BY DEF IsOps
<1>3. p \in Seq(A \cup B) /\ q \in Seq(A \cup B)
  BY <1>1, <1>2
<1>4. p \o q \in Seq(A \cup B)
  BY <1>3
<1> QED BY <1>3, <1>4 DEF IsOps

(* One part of a script after the other. *)
LEMMA RunCat ==
    ASSUME NEW s, NEW p, NEW q, IsOps(p), IsOps(q)
    PROVE  RunScript(s, p \o q) = RunScript(RunScript(s, p), q)
<1> DEFINE m == Len(p)
           k == Len(q)
           r == p \o q
           u == RunScript(s, p)
<1>0. /\ m \in Nat /\ k \in Nat /\ Len(r) = m + k
      /\ \A i \in 1 .. m : r[i] = p[i]
      /\ \A i \in 1 .. k : r[m + i] = q[i]
  BY Cat
<1> HIDE DEF r
<1>a. PICK F : Rows(F, s, r)
  <2>1. Len(r) \in Nat
    BY <1>0
  <2> QED BY <2>1, RunIs
<1>1. /\ F[0] = s /\ \A i \in 1 .. m + k : F[i] = Next1(F[i - 1], r[i])
      /\ RunScript(s, r) = F[m + k]
  BY <1>0, <1>a DEF Rows
<1>b. PICK G : Rows(G, s, p)
  BY <1>0, RunIs
<1>2. /\ G[0] = s /\ \A i \in 1 .. m : G[i] = Next1(G[i - 1], p[i])
      /\ u = G[m]
  BY <1>0, <1>b DEF Rows
<1> HIDE DEF u
<1>c. PICK H : Rows(H, u, q)
  BY <1>0, RunIs
<1>3. /\ H[0] = u /\ \A i \in 1 .. k : H[i] = Next1(H[i - 1], q[i])
      /\ RunScript(u, q) = H[k]
  BY <1>0, <1>c DEF Rows
<1> HIDE DEF m, k
<1>4. F[m] = G[m]
  <2> DEFINE T == {n \in Nat : n <= m => F[n] = G[n]}
  <2>1. 0 \in T
    BY <1>0, <1>1, <1>2
  <2>2. ASSUME NEW n \in Nat, n \in T PROVE n + 1 \in T
    <3> SUFFICES ASSUME n + 1 <= m PROVE F[n + 1] = G[n + 1]
      OBVIOUS
    <3>1. n + 1 \in 1 .. m /\ n + 1 \in 1 .. m + k /\ (n + 1) - 1 = n /\ n <= m
      BY <1>0
    <3>2. F[n] = G[n]
      BY <2>2, <3>1
    <3> QED BY <1>0, <1>1, <1>2, <3>1, <3>2
  <2>3. m \in T
    <3> HIDE DEF T
    <3> QED BY <1>0, <2>1, <2>2, Induction
  <2> QED BY <2>3
<1>5. F[m + k] = H[k]
  <2> DEFINE T == {n \in Nat : n <= k => F[m + n] = H[n]}
  <2>1. 0 \in T
    <3>1. m + 0 = m
      BY <1>0
    <3> QED BY <1>0, <1>2, <1>3, <1>4, <3>1
  <2>2. ASSUME NEW n \in Nat, n \in T PROVE n + 1 \in T
    <3> SUFFICES ASSUME n + 1 <= k PROVE F[m + (n + 1)] = H[n + 1]
      OBVIOUS
    <3>1. /\ n + 1 \in 1 .. k /\ m + (n + 1) \in 1 .. m + k
          /\ (n + 1) - 1 = n /\ (m + (n + 1)) - 1 = m + n /\ n <= k
      BY <1>0
    <3>2. F[m + n] = H[n]
      BY <2>2, <3>1
    <3>3. F[m + (n + 1)] = Next1(F[m + n], r[m + (n + 1)])
      BY <1>1, <3>1
    <3>4. H[n + 1] = Next1(H[n], q[n + 1]) /\ r[m + (n + 1)] = q[n + 1]
      BY <1>0, <1>3, <3>1
    <3> QED BY <3>2, <3>3, <3>4
  <2>3. k \in T
    <3> HIDE DEF T
    <3> QED BY <1>0, <2>1, <2>2, Induction
  <2> QED BY <1>0, <2>3
<1> QED BY <1>1, <1>3, <1>5 DEF r, u

(* No effect, one effect. *)
LEMMA RunOne ==
    ASSUME NEW s
    PROVE  /\ RunScript(s, <<>>) = s
           /\ \A o : RunScript(s, <<o>>) = Next1(s, o)
<1>1. RunScript(s, <<>>) = s
  <2>1. Len(<<>>) = 0
    OBVIOUS
  <2> QED BY <2>1, RunIs DEF Rows
<1>2. ASSUME NEW o PROVE RunScript(s, <<o>>) = Next1(s, o)
  <2>1. Len(<<o>>) = 1 /\ <<o>>[1] = o
    OBVIOUS
  <2>2. PICK F : Rows(F, s, <<o>>)
    BY <2>1, RunIs
  <2>3. F[1] = Next1(F[1 - 1], <<o>>[1]) /\ F[0] = s /\ RunScript(s, <<o>>) = F[1]
    BY <2>1, <2>2 DEF Rows
  <2> QED BY <2>1, <2>3
<1> QED BY <1>1, <1>2

(* Two effects, the second on what the first has left. *)
LEMMA RunTwo ==
    ASSUME NEW s, NEW a, NEW b
    PROVE  RunScript(s, <<a, b>>) = Next1(Next1(s, a), b)
<1> DEFINE p == <<a, b>>
<1>1. Len(p) = 2 /\ p[1] = a /\ p[2] = b
  OBVIOUS
<1> HIDE DEF p
<1>2. PICK F : Rows(F, s, p)
  BY <1>1, RunIs
<1>3. F[0] = s /\ RunScript(s, p) = F[2] /\ F[1] = Next1(F[0], p[1]) /\ F[2] = Next1(F[1], p[2])
  <2>1. 1 \in 1 .. 2 /\ 2 \in 1 .. 2 /\ 1 - 1 = 0 /\ 2 - 1 = 1
    OBVIOUS
  <2> QED BY <1>1, <1>2, <2>1 DEF Rows
<1> QED BY <1>1, <1>3 DEF p

(* Whatever is written out as a list of calls is a script. *)
LEMMA Lists ==
    /\ IsOps(<<>>)
    /\ \A a : IsOps(<<a>>)
    /\ \A a, b : IsOps(<<a, b>>)
    /\ \A a, b, c : IsOps(<<a, b, c>>)
    /\ \A a, b, c, d : IsOps(<<a, b, c, d>>)
<1>1. IsOps(<<>>)
  <2>1. <<>> \in Seq({})
    OBVIOUS
  <2> QED BY <2>1 DEF IsOps
<1>2. ASSUME NEW a PROVE IsOps(<<a>>)
  <2>1. <<a>> \in Seq({a})
    OBVIOUS
  <2> QED BY <2>1 DEF IsOps
<1>3. ASSUME NEW a, NEW b PROVE IsOps(<<a, b>>)
  <2>1. <<a, b>> \in Seq({a, b})
    OBVIOUS
  <2> QED BY <2>1 DEF IsOps
<1>4. ASSUME NEW a, NEW b, NEW c PROVE IsOps(<<a, b, c>>)
  <2>1. <<a, b, c>> \in Seq({a, b, c})
    OBVIOUS
  <2> QED BY <2>1 DEF IsOps
<1>5. ASSUME NEW a, NEW b, NEW c, NEW d PROVE IsOps(<<a, b, c, d>>)
  <2>1. <<a, b, c, d>> \in Seq({a, b, c, d})
    OBVIOUS
  <2> QED BY <2>1 DEF IsOps
<1> QED BY <1>1, <1>2, <1>3, <1>4, <1>5

-----------------------------------------------------------------------------
(* What a conversation has at all times, whatever it is about. *)
Shaped(s) ==
    /\ {"open", "window", "g", "has", "look", "map", "job", "begun", "ended",
        "paid", "owed", "got", "full", "lost", "halt", "place"} \subseteq DOMAIN s
    /\ Wares \subseteq DOMAIN s.has
    /\ {"status", "pick", "item", "qty"} \subseteq DOMAIN s.g
    /\ s.place \in 1 .. 2

(* From u to r nothing was run up that is not paid, but for what is on the *)
(* list U.                                                                 *)
Settled(u, r, U) ==
    /\ Shaped(r)
    /\ u.paid \subseteq r.paid
    /\ r.owed \subseteq u.owed \cup r.paid \cup U

(* Effects that give nothing, and those that give at the expense of U. *)
Plain  == {"say", "dispose", "goto", "note", "take", "take all", "pay",
           "lose", "fail", "throw", "hang"}
Giving == {"give", "wear", "go", "become", "reward", "complete"}
Tame(o, U) == o.op \in Plain \/ (o.op \in Giving /\ o.price \subseteq U)

(* Taking, paying and talking run up no debt and keep what was paid. *)
LEMMA DoPlain ==
    ASSUME NEW s, NEW o, Shaped(s), o.op \in Plain
    PROVE  /\ Shaped(Do(s, o))
           /\ Do(s, o).owed = s.owed /\ s.paid \subseteq Do(s, o).paid
<1> USE DEF Shaped
<1>1. CASE o.op = "say"
  BY <1>1 DEF Do, Said
<1>2. CASE o.op = "dispose"
  BY <1>2 DEF Do, Disposed, Fresh
<1>3. CASE o.op = "goto"
  BY <1>3 DEF Do
<1>4. CASE o.op = "note"
  BY <1>4 DEF Do
<1>5. CASE o.op = "take"
  BY <1>5 DEF Do, Taken
<1>6. CASE o.op = "take all"
  BY <1>6, ZenonT(60) DEF Do, AllTaken
<1>7. CASE o.op = "pay"
  BY <1>7 DEF Do, Paid
<1>8. CASE o.op \in {"lose", "fail", "throw", "hang"}
  BY <1>8 DEF Do
<1> QED BY <1>1, <1>2, <1>3, <1>4, <1>5, <1>6, <1>7, <1>8 DEF Plain

(* Giving runs up no more than the price it is written with. *)
LEMMA DoGiving ==
    ASSUME NEW s, NEW o, Shaped(s), o.op \in Giving
    PROVE  /\ Shaped(Do(s, o))
           /\ Do(s, o).owed \subseteq s.owed \cup o.price /\ Do(s, o).paid = s.paid
<1> USE DEF Shaped
<1>1. CASE o.op = "give"
  BY <1>1 DEF Do, Given
<1>2. CASE o.op = "wear"
  BY <1>2 DEF Do, Got
<1>3. CASE o.op = "go"
  BY <1>3 DEF Do, Got
<1>4. CASE o.op = "become"
  BY <1>4 DEF Do, Got
<1>5. CASE o.op = "reward"
  BY <1>5 DEF Do, Got
<1>6. CASE o.op = "complete"
  BY <1>6 DEF Do, Got
<1> QED BY <1>1, <1>2, <1>3, <1>4, <1>5, <1>6 DEF Giving

(* So one effect that is plain, or given at the expense of U, leaves no    *)
(* more than U unpaid; a script broken off before does nothing.            *)
LEMMA TameSettles ==
    ASSUME NEW s, NEW o, NEW U, Shaped(s), Tame(o, U)
    PROVE  Settled(s, Next1(s, o), U)
<1>1. CASE s.halt # "no"
  BY <1>1 DEF Next1, Settled
<1>2. CASE s.halt = "no"
  BY <1>2, DoPlain, DoGiving DEF Next1, Settled, Tame
<1> QED BY <1>1, <1>2

(* What holds from one state to the next and on to a third holds from the  *)
(* first to the third.                                                     *)
LEMMA SettledOn ==
    ASSUME NEW s, NEW u, NEW r, NEW U, Settled(s, u, U), Settled(u, r, U)
    PROVE  Settled(s, r, U)
BY DEF Settled

-----------------------------------------------------------------------------
(* Scripts that consist of such effects. *)
AllTame(ops, U) == IsOps(ops) /\ \A i \in 1 .. Len(ops) : Tame(ops[i], U)

(* And so does a whole script of such effects. *)
LEMMA TameKeeps ==
    ASSUME NEW s, NEW ops, NEW U, AllTame(ops, U), Shaped(s)
    PROVE  Settled(s, RunScript(s, ops), U)
<1>1. Len(ops) \in Nat /\ \A i \in 1 .. Len(ops) : Tame(ops[i], U)
  BY DEF AllTame, IsOps
<1>2. PICK F : Rows(F, s, ops)
  BY <1>1, RunIs
<1>3. /\ F[0] = s /\ RunScript(s, ops) = F[Len(ops)]
      /\ \A i \in 1 .. Len(ops) : F[i] = Next1(F[i - 1], ops[i])
  BY <1>2 DEF Rows
<1> DEFINE T == {n \in Nat : n <= Len(ops) => Settled(s, F[n], U)}
<1>4. 0 \in T
  BY <1>3 DEF Settled
<1>5. ASSUME NEW n \in Nat, n \in T PROVE n + 1 \in T
  <2> SUFFICES ASSUME n + 1 <= Len(ops) PROVE Settled(s, F[n + 1], U)
    OBVIOUS
  <2>1. n + 1 \in 1 .. Len(ops) /\ (n + 1) - 1 = n /\ n <= Len(ops)
    BY <1>1
  <2>2. Settled(s, F[n], U)
    BY <1>5, <2>1
  <2>3. F[n + 1] = Next1(F[n], ops[n + 1]) /\ Tame(ops[n + 1], U)
    BY <1>1, <1>3, <2>1
  <2>4. Settled(F[n], F[n + 1], U)
    BY <2>2, <2>3, TameSettles DEF Settled
  <2> QED BY <2>2, <2>4, SettledOn
<1>6. Len(ops) \in T
  <2> HIDE DEF T
  <2> QED BY <1>1, <1>4, <1>5, Induction
<1> QED BY <1>1, <1>3, <1>6

(* Lists of such effects, and two scripts of them joined. *)
LEMMA TameLists ==
    ASSUME NEW U
    PROVE  /\ AllTame(<<>>, U)
           /\ \A a : Tame(a, U) => AllTame(<<a>>, U)
           /\ \A a, b : Tame(a, U) /\ Tame(b, U) => AllTame(<<a, b>>, U)
           /\ \A a, b, c : Tame(a, U) /\ Tame(b, U) /\ Tame(c, U) => AllTame(<<a, b, c>>, U)
           /\ \A a, b, c, d : Tame(a, U) /\ Tame(b, U) /\ Tame(c, U) /\ Tame(d, U)
                                => AllTame(<<a, b, c, d>>, U)
           /\ \A a, b, c, d, e : Tame(a, U) /\ Tame(b, U) /\ Tame(c, U) /\ Tame(d, U)
                /\ Tame(e, U) => AllTame(<<a, b, c, d, e>>, U)
           /\ \A p, q : AllTame(p, U) /\ AllTame(q, U) => AllTame(p \o q, U)
<1>0. AllTame(<<>>, U)
  <2>1. <<>> \in Seq({}) /\ Len(<<>>) = 0
    OBVIOUS
  <2> QED BY <2>1 DEF AllTame, IsOps
<1>1. ASSUME NEW a, Tame(a, U) PROVE AllTame(<<a>>, U)
  <2> DEFINE l == <<a>>
  <2>1. l \in Seq({a}) /\ Len(l) = 1 /\ l[1] = a
    OBVIOUS
  <2> HIDE DEF l
  <2>2. AllTame(l, U)
    BY <1>1, <2>1 DEF AllTame, IsOps
  <2> QED BY <2>2 DEF l
<1>6. ASSUME NEW p, NEW q, AllTame(p, U), AllTame(q, U) PROVE AllTame(p \o q, U)
  <2>1. IsOps(p) /\ IsOps(q)
    BY <1>6 DEF AllTame
  <2>2. /\ IsOps(p \o q)
        /\ Len(p) \in Nat /\ Len(q) \in Nat /\ Len(p \o q) = Len(p) + Len(q)
        /\ \A i \in 1 .. Len(p) : (p \o q)[i] = p[i]
        /\ \A i \in 1 .. Len(q) : (p \o q)[Len(p) + i] = q[i]
    BY <2>1, Cat
  <2>3. ASSUME NEW i \in 1 .. Len(p \o q) PROVE Tame((p \o q)[i], U)
    <3>1. CASE i <= Len(p)
      BY <1>6, <2>2, <3>1 DEF AllTame
    <3>2. CASE i > Len(p)
      <4>1. i - Len(p) \in 1 .. Len(q) /\ i = Len(p) + (i - Len(p))
        BY <2>2, <3>2
      <4> QED BY <1>6, <2>2, <4>1 DEF AllTame
    <3> QED BY <2>2, <3>1, <3>2
  <2> QED BY <2>2, <2>3 DEF AllTame
<1>2. ASSUME NEW a, NEW b, Tame(a, U), Tame(b, U) PROVE AllTame(<<a, b>>, U)
  <2> DEFINE l == <<a, b>>
  <2>1. l \in Seq({a, b}) /\ Len(l) = 2 /\ l[1] = a /\ l[2] = b
    OBVIOUS
  <2> HIDE DEF l
  <2>2. AllTame(l, U)
    BY <1>2, <2>1 DEF AllTame, IsOps
  <2> QED BY <2>2 DEF l
<1>3. ASSUME NEW a, NEW b, NEW c, Tame(a, U), Tame(b, U), Tame(c, U)
      PROVE  AllTame(<<a, b, c>>, U)
  <2> DEFINE l == <<a, b, c>>
  <2>1. l \in Seq({a, b, c}) /\ Len(l) = 3 /\ l[1] = a /\ l[2] = b /\ l[3] = c
    OBVIOUS
  <2> HIDE DEF l
  <2>2. AllTame(l, U)
    BY <1>3, <2>1 DEF AllTame, IsOps
  <2> QED BY <2>2 DEF l
<1>4. ASSUME NEW a, NEW b, NEW c, NEW d, Tame(a, U), Tame(b, U), Tame(c, U), Tame(d, U)
      PROVE  AllTame(<<a, b, c, d>>, U)
  <2> DEFINE l == <<a, b, c, d>>
  <2>1. l \in Seq({a, b, c, d}) /\ Len(l) = 4 /\ l[1] = a /\ l[2] = b /\ l[3] = c /\ l[4] = d
    OBVIOUS
  <2> HIDE DEF l
  <2>2. AllTame(l, U)
    BY <1>4, <2>1 DEF AllTame, IsOps
  <2> QED BY <2>2 DEF l
<1>5. ASSUME NEW a, NEW b, NEW c, NEW d, NEW e,
             Tame(a, U), Tame(b, U), Tame(c, U), Tame(d, U), Tame(e, U)
      PROVE  AllTame(<<a, b, c, d, e>>, U)
  <2> DEFINE l == <<a, b, c, d, e>>
  <2>1. /\ l \in Seq({a, b, c, d, e}) /\ Len(l) = 5
        /\ l[1] = a /\ l[2] = b /\ l[3] = c /\ l[4] = d /\ l[5] = e
    OBVIOUS
  <2> HIDE DEF l
  <2>2. AllTame(l, U)
    BY <1>5, <2>1 DEF AllTame, IsOps
  <2> QED BY <2>2 DEF l
<1> QED BY <1>0, <1>1, <1>2, <1>3, <1>4, <1>5, <1>6

(* What scripts are made of. *)
LEMMA TameOps ==
    ASSUME NEW U
    PROVE  /\ \A w : Tame(Say(w), U)
           /\ Tame(Dispose, U) /\ Tame(Lose, U) /\ Tame(Fail, U) /\ Tame(Throw, U) /\ Tame(Hang, U)
           /\ \A st : Tame(Goto(st), U)
           /\ \A f, v : Tame(Note(f, v), U)
           /\ \A x, n : Tame(Take(x, n), U)
           /\ \A x : Tame(TakeAll(x), U)
           /\ \A n : Tame(Pay(n), U)
<1> USE DEF Tame, Plain
<1>1. \A w : Tame(Say(w), U)
  BY DEF Say
<1>2. Tame(Dispose, U) /\ Tame(Lose, U) /\ Tame(Fail, U) /\ Tame(Throw, U) /\ Tame(Hang, U)
  BY DEF Dispose, Lose, Fail, Throw, Hang
<1>3. (\A st : Tame(Goto(st), U)) /\ \A f, v : Tame(Note(f, v), U)
  BY DEF Goto, Note
<1>4. (\A x, n : Tame(Take(x, n), U)) /\ (\A x : Tame(TakeAll(x), U)) /\ \A n : Tame(Pay(n), U)
  BY DEF Take, TakeAll, Pay
<1> QED BY <1>1, <1>2, <1>3, <1>4

(* Gifts whose price is part of U: goods, a look, a place, a job,          *)
(* experience, a quest.                                                    *)
LEMMA TameGifts ==
    ASSUME NEW U, NEW p, p \subseteq U
    PROVE  /\ \A x, n : Tame(Give(x, n, p), U)
           /\ \A l : Tame(Wear(l, p), U)
           /\ \A m : Tame(Go(m, p), U)
           /\ \A j : Tame(Become(j, p), U)
           /\ Tame(Reward(p), U)
           /\ \A q : Tame(CompleteQuest(q, p), U)
BY DEF Tame, Giving, Give, Wear, Go, Become, Reward, CompleteQuest

(* Rows of pages. *)
PagesTame(pages, U) == \A k \in DOMAIN pages : AllTame(pages[k], U)

(* A row of pages is made of such effects if each page is. *)
LEMMA TamePages ==
    ASSUME NEW U
    PROVE  /\ \A a : AllTame(a, U) => PagesTame(<<a>>, U)
           /\ \A a, b : AllTame(a, U) /\ AllTame(b, U) => PagesTame(<<a, b>>, U)
           /\ \A a, b, c : AllTame(a, U) /\ AllTame(b, U) /\ AllTame(c, U)
                => PagesTame(<<a, b, c>>, U)
           /\ \A a, b, c, d : AllTame(a, U) /\ AllTame(b, U) /\ AllTame(c, U) /\ AllTame(d, U)
                => PagesTame(<<a, b, c, d>>, U)
           /\ \A a, b, c, d, e : AllTame(a, U) /\ AllTame(b, U) /\ AllTame(c, U)
                /\ AllTame(d, U) /\ AllTame(e, U) => PagesTame(<<a, b, c, d, e>>, U)
           /\ \A a, b, c, d, e, f : AllTame(a, U) /\ AllTame(b, U) /\ AllTame(c, U)
                /\ AllTame(d, U) /\ AllTame(e, U) /\ AllTame(f, U)
                => PagesTame(<<a, b, c, d, e, f>>, U)
BY DEF PagesTame

(* Then so is every answer of a script that turns its pages, forward only  *)
(* or back and forth.                                                      *)
LEMMA TameTalks ==
    ASSUME NEW U, NEW pages, PagesTame(pages, U)
    PROVE  /\ \A st : AllTame(Page(pages, st), U)
           /\ \A s, mode : AllTame(Forward(s, mode, pages), U)
           /\ \A s, mode : AllTame(BackAndForth(s, mode, pages), U)
<1>1. \A st : AllTame(Page(pages, st), U)
  BY TameLists, TameOps DEF Page, Turn, PagesTame
<1>2. \A s, mode : AllTame(Forward(s, mode, pages), U)
  BY <1>1, TameLists, TameOps DEF Forward
<1>3. \A s, mode : AllTame(BackAndForth(s, mode, pages), U)
  BY <1>1, TameLists, TameOps DEF BackAndForth
<1> QED BY <1>1, <1>2, <1>3

-----------------------------------------------------------------------------
(* Scripts that sell: whoever runs them with the wares s has keeps out of  *)
(* debt.                                                                   *)
Fair(s, ops, U) ==
    /\ IsOps(ops)
    /\ \A u : u.has = s.has /\ Shaped(u) => Settled(u, RunScript(u, ops), U)

(* A script of such effects sells to anybody. *)
LEMMA FairTame ==
    ASSUME NEW s, NEW ops, NEW U, AllTame(ops, U)
    PROVE  Fair(s, ops, U)
BY TameKeeps DEF Fair, AllTame

(* More may be left unpaid than is. *)
LEMMA FairMore ==
    ASSUME NEW s, NEW ops, NEW U, NEW V, U \subseteq V, Fair(s, ops, U)
    PROVE  Fair(s, ops, V)
BY DEF Fair, Settled

(* What is sold and then talked about; what is talked about and then sold. *)
LEMMA FairThenTame ==
    ASSUME NEW s, NEW p, NEW q, NEW U, Fair(s, p, U), AllTame(q, U)
    PROVE  Fair(s, p \o q, U)
<1>1. IsOps(p) /\ IsOps(q)
  BY DEF Fair, AllTame
<1>2. IsOps(p \o q)
  BY <1>1, Cat
<1>3. ASSUME NEW u, u.has = s.has, Shaped(u) PROVE Settled(u, RunScript(u, p \o q), U)
  <2>1. Settled(u, RunScript(u, p), U)
    BY <1>3 DEF Fair
  <2>2. Settled(RunScript(u, p), RunScript(RunScript(u, p), q), U)
    BY <2>1, TameKeeps DEF Settled
  <2>3. RunScript(u, p \o q) = RunScript(RunScript(u, p), q)
    BY <1>1, RunCat
  <2> QED BY <2>1, <2>2, <2>3, SettledOn
<1> QED BY <1>2, <1>3 DEF Fair

(* Effects that leave the bag alone. *)
Talk1Op(o) == o.op \in {"say", "goto", "note"}

(* Saying, turning the page and noting an answer leave the bag and the     *)
(* debts as they are.                                                      *)
LEMMA TalkKeeps ==
    ASSUME NEW u, NEW o, Shaped(u), Talk1Op(o)
    PROVE  Next1(u, o).has = u.has /\ \A U : Settled(u, Next1(u, o), U)
<1>1. Next1(u, o).has = u.has
  <2>1. CASE u.halt # "no"
    BY <2>1 DEF Next1
  <2>2. CASE u.halt = "no" /\ o.op = "say"
    BY <2>2 DEF Next1, Do, Said, Shaped
  <2>3. CASE u.halt = "no" /\ o.op = "goto"
    BY <2>3 DEF Next1, Do, Shaped
  <2>4. CASE u.halt = "no" /\ o.op = "note"
    BY <2>4 DEF Next1, Do, Shaped
  <2> QED BY <2>1, <2>2, <2>3, <2>4 DEF Talk1Op
<1>2. ASSUME NEW U PROVE Settled(u, Next1(u, o), U)
  BY TameSettles DEF Tame, Plain, Talk1Op
<1> QED BY <1>1, <1>2

(* So a sale may come after them. *)
LEMMA TalkThenFair ==
    ASSUME NEW s, NEW o, NEW q, NEW U, Talk1Op(o), Fair(s, q, U)
    PROVE  Fair(s, <<o>> \o q, U)
<1> DEFINE p == <<o>>
<1>1. IsOps(p) /\ IsOps(q) /\ \A u : RunScript(u, p) = Next1(u, o)
  BY Lists, RunOne DEF Fair
<1> HIDE DEF p
<1>2. IsOps(p \o q)
  BY <1>1, Cat
<1>3. ASSUME NEW u, u.has = s.has, Shaped(u) PROVE Settled(u, RunScript(u, p \o q), U)
  <2>1. RunScript(u, p \o q) = RunScript(Next1(u, o), q)
    BY <1>1, RunCat
  <2>2. Next1(u, o).has = u.has /\ Settled(u, Next1(u, o), U)
    BY <1>3, TalkKeeps
  <2>3. Settled(Next1(u, o), RunScript(Next1(u, o), q), U)
    BY <1>3, <2>2 DEF Fair, Settled
  <2> QED BY <2>1, <2>2, <2>3, SettledOn
<1>4. Fair(s, p \o q, U)
  BY <1>2, <1>3 DEF Fair
<1> QED BY <1>4 DEF p

(* k pays for x with what s has; g gives at the expense of P.              *)
Pays(s, k, x) ==
    \/ k.op = "take" /\ k.ware = x
    \/ k.op = "pay" /\ x = "meso" /\ Owns(s, "meso", k.n)
Sells(g, P) == g.op \in Giving /\ g.price \subseteq P

(* Whoever has paid has done so, or the script was broken off. *)
Covered(u, P) == u.halt # "no" \/ P \subseteq u.paid

(* What was taken is paid for, or the call has thrown; so are the mesos of *)
(* a player who has them.                                                  *)
LEMMA Paying ==
    ASSUME NEW u, NEW k, NEW x, Shaped(u), Pays(u, k, x)
    PROVE  /\ Covered(Next1(u, k), {x})
           /\ \A U : Settled(u, Next1(u, k), U)
<1>1. ASSUME NEW U PROVE Settled(u, Next1(u, k), U)
  BY TameSettles DEF Tame, Plain, Pays
<1>2. CASE u.halt # "no"
  BY <1>1, <1>2 DEF Next1, Covered
<1>3. CASE u.halt = "no" /\ k.op = "take" /\ k.ware = x
  BY <1>1, <1>3 DEF Next1, Do, Taken, Shaped, Covered
<1>4. CASE u.halt = "no" /\ k.op = "pay" /\ x = "meso" /\ Owns(u, "meso", k.n)
  BY <1>1, <1>4 DEF Next1, Do, Paid, Shaped, Covered, Owns
<1> QED BY <1>2, <1>3, <1>4 DEF Pays

(* A ware taken is no mesos. *)
LEMMA TakingKeepsPurse ==
    ASSUME NEW u, NEW k, Shaped(u), k.op = "take", k.ware # "meso"
    PROVE  Next1(u, k).has["meso"] = u.has["meso"]
<1>1. CASE u.halt # "no"
  BY <1>1 DEF Next1
<1>2. CASE u.halt = "no"
  BY <1>2 DEF Next1, Do, Taken, Shaped
<1> QED BY <1>1, <1>2

(* What is given at a price that was covered leaves no debt. *)
LEMMA Selling ==
    ASSUME NEW u, NEW g, NEW P, NEW U, Shaped(u), Covered(u, P), Sells(g, U \cup P)
    PROVE  Settled(u, Next1(u, g), U)
<1>1. CASE u.halt # "no"
  BY <1>1 DEF Next1, Settled
<1>2. CASE u.halt = "no"
  BY <1>2, DoGiving DEF Next1, Sells, Covered, Settled
<1> QED BY <1>1, <1>2

(* Paid for first. *)
LEMMA FairBuy ==
    ASSUME NEW s, NEW k, NEW g, NEW x, NEW U, Pays(s, k, x), Sells(g, U \cup {x})
    PROVE  Fair(s, <<k, g>>, U)
<1>1. ASSUME NEW u, u.has = s.has, Shaped(u) PROVE Settled(u, RunScript(u, <<k, g>>), U)
  <2>1. RunScript(u, <<k, g>>) = Next1(Next1(u, k), g)
    BY RunTwo
  <2>2. Pays(u, k, x)
    BY <1>1 DEF Pays, Owns
  <2> DEFINE v == Next1(u, k)
  <2>3. Covered(v, {x}) /\ Settled(u, v, U)
    BY <1>1, <2>2, Paying
  <2> HIDE DEF v
  <2>4. Settled(v, Next1(v, g), U)
    BY <2>3, Selling DEF Settled
  <2>5. Settled(u, Next1(v, g), U)
    BY <2>3, <2>4, SettledOn
  <2> QED BY <2>1, <2>5 DEF v
<1> QED BY <1>1, Lists DEF Fair

(* Given first. *)
LEMMA GivingKeeps ==
    ASSUME NEW u, NEW g, NEW x, Shaped(u), g.op \in Giving, g.op = "give" => g.ware # x
    PROVE  Next1(u, g).has[x] = u.has[x] /\ Next1(u, g).halt = u.halt
<1>1. CASE u.halt # "no"
  BY <1>1 DEF Next1
<1>2. CASE u.halt = "no"
  <2>0. Next1(u, g) = Do(u, g)
    BY <1>2 DEF Next1
  <2> USE <2>0 DEF Shaped
  <2>1. CASE g.op = "give"
    BY <2>1 DEF Do, Given
  <2>2. CASE g.op = "wear"
    BY <2>2 DEF Do, Got
  <2>3. CASE g.op = "go"
    BY <2>3 DEF Do, Got
  <2>4. CASE g.op = "become"
    BY <2>4 DEF Do, Got
  <2>5. CASE g.op = "reward"
    BY <2>5 DEF Do, Got
  <2>6. CASE g.op = "complete"
    BY <2>6 DEF Do, Got
  <2> QED BY <2>1, <2>2, <2>3, <2>4, <2>5, <2>6 DEF Giving
<1> QED BY <1>1, <1>2

(* Goods given before their price is taken: the script has looked whether  *)
(* it is there, and giving them takes nothing of it.                       *)
LEMMA FairSell ==
    ASSUME NEW s, NEW k, NEW g, NEW x, NEW U,
           (k.op = "take" /\ k.ware = x) \/ (k.op = "pay" /\ x = "meso"),
           Owns(s, x, k.n), Sells(g, U \cup {x}), g.op = "give" => g.ware # x
    PROVE  Fair(s, <<g, k>>, U)
<1>1. ASSUME NEW u, u.has = s.has, Shaped(u) PROVE Settled(u, RunScript(u, <<g, k>>), U)
  <2>1. RunScript(u, <<g, k>>) = Next1(Next1(u, g), k)
    BY RunTwo
  <2> DEFINE v == Next1(u, g)
  <2>2. v.has[x] = u.has[x] /\ v.halt = u.halt
    BY <1>1, GivingKeeps DEF Sells
  <2>3. Settled(u, v, U \cup {x})
    BY <1>1, TameSettles DEF Sells, Tame
  <2> HIDE DEF v
  <2>4. CASE u.halt # "no"
    BY <1>1, <2>1, <2>4 DEF Next1, Settled
  <2>5. CASE u.halt = "no"
    <3>1. Pays(v, k, x) /\ Shaped(v)
      BY <1>1, <2>2, <2>3 DEF Pays, Owns, Settled
    <3>2. Covered(Next1(v, k), {x}) /\ Settled(v, Next1(v, k), U)
      BY <3>1, Paying
    <3>3. Next1(v, k).halt = "no"
      <4>1. v.halt = "no" /\ v.has[x] >= k.n
        BY <1>1, <2>2, <2>5 DEF Owns
      <4>2. CASE k.op = "take" /\ k.ware = x
        BY <3>1, <4>1, <4>2 DEF Next1, Do, Taken, Shaped
      <4>3. CASE k.op = "pay" /\ x = "meso"
        BY <3>1, <4>1, <4>3 DEF Next1, Do, Paid, Shaped
      <4> QED BY <4>2, <4>3
    <3>4. Settled(u, Next1(v, k), U)
      BY <2>3, <3>2, <3>3 DEF Settled, Covered
    <3> QED BY <2>1, <3>4 DEF v
  <2> QED BY <2>4, <2>5
<1> QED BY <1>1, Lists DEF Fair

(* Sales and what is said about them. *)
LEMMA FairLists ==
    ASSUME NEW s, NEW U, NEW a, NEW b, Fair(s, <<a, b>>, U)
    PROVE  /\ \A c : Tame(c, U) => Fair(s, <<a, b, c>>, U)
           /\ \A c, d : Tame(c, U) /\ Tame(d, U) => Fair(s, <<a, b, c, d>>, U)
<1> DEFINE p == <<a, b>>
<1>1. ASSUME NEW c, Tame(c, U) PROVE Fair(s, <<a, b, c>>, U)
  <2> DEFINE q == <<c>>
  <2>1. AllTame(q, U)
    BY <1>1, TameLists
  <2>3. <<a, b, c>> = p \o q
    OBVIOUS
  <2> HIDE DEF p, q
  <2>2. Fair(s, p, U)
    BY DEF p
  <2> QED BY <2>1, <2>2, <2>3, FairThenTame
<1>2. ASSUME NEW c, NEW d, Tame(c, U), Tame(d, U) PROVE Fair(s, <<a, b, c, d>>, U)
  <2> DEFINE q == <<c, d>>
  <2>1. AllTame(q, U)
    BY <1>2, TameLists
  <2>3. <<a, b, c, d>> = p \o q
    OBVIOUS
  <2> HIDE DEF p, q
  <2>2. Fair(s, p, U)
    BY DEF p
  <2> QED BY <2>1, <2>2, <2>3, FairThenTame
<1> QED BY <1>1, <1>2

-----------------------------------------------------------------------------
(* Talks of several pages. *)
PagesFair(s, pages, U) == \A k \in DOMAIN pages : Fair(s, pages[k], U)

(* A row of pages, each of them a sale or a talk. *)
LEMMA FairPages ==
    ASSUME NEW s, NEW U
    PROVE  /\ \A a : Fair(s, a, U) => PagesFair(s, <<a>>, U)
           /\ \A a, b : Fair(s, a, U) /\ Fair(s, b, U) => PagesFair(s, <<a, b>>, U)
           /\ \A a, b, c : Fair(s, a, U) /\ Fair(s, b, U) /\ Fair(s, c, U)
                => PagesFair(s, <<a, b, c>>, U)
           /\ \A a, b, c, d : Fair(s, a, U) /\ Fair(s, b, U) /\ Fair(s, c, U) /\ Fair(s, d, U)
                => PagesFair(s, <<a, b, c, d>>, U)
           /\ \A a, b, c, d, e : Fair(s, a, U) /\ Fair(s, b, U) /\ Fair(s, c, U)
                /\ Fair(s, d, U) /\ Fair(s, e, U) => PagesFair(s, <<a, b, c, d, e>>, U)
BY DEF PagesFair

(* Turning to a page and selling. *)
LEMMA FairTurn ==
    ASSUME NEW s, NEW ops, NEW U, Fair(s, ops, U)
    PROVE  \A st : Fair(s, Turn(st, ops), U)
<1> SUFFICES ASSUME NEW st PROVE Fair(s, Turn(st, ops), U)
  OBVIOUS
<1>1. Talk1Op(Goto(st))
  BY DEF Talk1Op, Goto
<1> QED BY <1>1, TalkThenFair DEF Turn

(* A script that turns such pages. *)
LEMMA FairTalks ==
    ASSUME NEW s, NEW U, NEW pages, PagesFair(s, pages, U)
    PROVE  /\ \A st : Fair(s, Page(pages, st), U)
           /\ \A mode : Fair(s, Forward(s, mode, pages), U)
           /\ \A mode : Fair(s, BackAndForth(s, mode, pages), U)
<1>0. Fair(s, <<>>, U) /\ Fair(s, <<Dispose>>, U)
  BY TameLists, TameOps, FairTame
<1>1. \A st : Fair(s, Page(pages, st), U)
  BY <1>0, FairTurn DEF Page, PagesFair
<1>2. \A mode : Fair(s, Forward(s, mode, pages), U)
  BY <1>0, <1>1 DEF Forward
<1>3. \A mode : Fair(s, BackAndForth(s, mode, pages), U)
  BY <1>0, <1>1 DEF BackAndForth
<1> QED BY <1>1, <1>2, <1>3

(* What sales are made of. *)
LEMMA SellsGifts ==
    ASSUME NEW P, NEW p, p \subseteq P
    PROVE  /\ \A x, n : Sells(Give(x, n, p), P)
           /\ \A l : Sells(Wear(l, p), P)
           /\ \A m : Sells(Go(m, p), P)
           /\ \A j : Sells(Become(j, p), P)
           /\ Sells(Reward(p), P)
           /\ \A q : Sells(CompleteQuest(q, p), P)
BY DEF Sells, Giving, Give, Wear, Go, Become, Reward, CompleteQuest

(* Sales as the scripts write them: taken, given and talked about. *)
LEMMA FairDeals ==
    ASSUME NEW s, NEW U
    PROVE  /\ \A x, n, g : Sells(g, U \cup {x}) => Fair(s, <<Take(x, n), g>>, U)
           /\ \A n, g : Sells(g, U \cup {"meso"}) /\ Owns(s, "meso", n)
                => Fair(s, <<Pay(n), g>>, U)
           /\ \A x, n, g : Sells(g, U \cup {x}) /\ Owns(s, x, n)
                /\ (g.op = "give" => g.ware # x) => Fair(s, <<g, Take(x, n)>>, U)
           /\ \A n, g : Sells(g, U \cup {"meso"}) /\ Owns(s, "meso", n)
                /\ (g.op = "give" => g.ware # "meso") => Fair(s, <<g, Pay(n)>>, U)
<1>1. \A x, n : Take(x, n).op = "take" /\ Take(x, n).ware = x /\ Take(x, n).n = n
  BY DEF Take
<1>2. \A n : Pay(n).op = "pay" /\ Pay(n).n = n
  BY DEF Pay
<1>3. ASSUME NEW x, NEW n, NEW g, Sells(g, U \cup {x}) PROVE Fair(s, <<Take(x, n), g>>, U)
  <2>1. Pays(s, Take(x, n), x)
    BY <1>1 DEF Pays
  <2> QED BY <1>3, <2>1, FairBuy
<1>4. ASSUME NEW n, NEW g, Sells(g, U \cup {"meso"}), Owns(s, "meso", n)
      PROVE  Fair(s, <<Pay(n), g>>, U)
  <2>1. Pays(s, Pay(n), "meso")
    BY <1>2, <1>4 DEF Pays
  <2> QED BY <1>4, <2>1, FairBuy
<1>5. ASSUME NEW x, NEW n, NEW g, Sells(g, U \cup {x}), Owns(s, x, n),
             g.op = "give" => g.ware # x
      PROVE  Fair(s, <<g, Take(x, n)>>, U)
  <2> DEFINE k == Take(x, n)
  <2>1. k.op = "take" /\ k.ware = x /\ Owns(s, x, k.n)
    BY <1>1, <1>5
  <2> HIDE DEF k
  <2>2. (k.op = "take" /\ k.ware = x) \/ (k.op = "pay" /\ x = "meso")
    BY <2>1
  <2>3. Fair(s, <<g, k>>, U)
    BY <1>5, <2>1, <2>2, FairSell
  <2> QED BY <2>3 DEF k
<1>6. ASSUME NEW n, NEW g, Sells(g, U \cup {"meso"}), Owns(s, "meso", n),
             g.op = "give" => g.ware # "meso"
      PROVE  Fair(s, <<g, Pay(n)>>, U)
  <2> DEFINE k == Pay(n)
  <2>1. k.op = "pay" /\ Owns(s, "meso", k.n)
    BY <1>2, <1>6
  <2> HIDE DEF k
  <2>2. Fair(s, <<g, k>>, U)
    BY <1>6, <2>1, FairSell
  <2> QED BY <2>2 DEF k
<1> QED BY <1>3, <1>4, <1>5, <1>6

-----------------------------------------------------------------------------
(* Gates, exits and tunnels. *)
LEMMA TalksOnDemand ==
    ASSUME NEW s, NEW mode, s.place \in 1 .. 2
    PROVE  /\ \A m : Fair(s, OnDemand(mode, m), {})
           /\ \A m : Fair(s, Asked(mode, m), {})
           /\ \A m : Fair(s, Greeted(s, mode, m), {})
           /\ Fair(s, Glimpse(s, mode), {})
<1> USE FairTame, TameLists, TameOps, TameGifts, TamePages, TameTalks
<1>1. \A m : AllTame(OnDemand(mode, m), {})
  BY DEF OnDemand
<1>2. \A m : AllTame(Asked(mode, m), {})
  BY DEF Asked
<1>3. \A m : AllTame(Greeted(s, mode, m), {})
  BY DEF Greeted
<1>4. AllTame(Glimpse(s, mode), {})
  BY DEF Glimpse
<1> QED BY <1>1, <1>2, <1>3, <1>4

(* They give nothing, or what has no price. *)
LEMMA TalksFree ==
    ASSUME NEW s, NEW mode, NEW sel, s.place \in 1 .. 2
    PROVE  /\ Fair(s, N1032004(s, mode, sel), {}) /\ Fair(s, N1061007(s, mode, sel), {})
           /\ Fair(s, N2001001(s, mode, sel), {}) /\ Fair(s, N2001002(s, mode, sel), {})
           /\ Fair(s, N2001003(s, mode, sel), {}) /\ Fair(s, N2002000(s, mode, sel), {})
           /\ Fair(s, N2007(s, mode, sel), {})    /\ Fair(s, N2083002(s, mode, sel), {})
           /\ Fair(s, N2030010(s, mode, sel), {}) /\ Fair(s, N9120200(s, mode, sel), {})
           /\ Fair(s, N9220005(s, mode, sel), {}) /\ Fair(s, N9270038(s, mode, sel), {})
           /\ Fair(s, N9270041(s, mode, sel), {}) /\ Fair(s, N1103005(s, mode, sel), {})
           /\ Fair(s, N9103002(s, mode, sel), {}) /\ Fair(s, N9120201(s, mode, sel), {})
           /\ Fair(s, N9120202(s, mode, sel), {}) /\ Fair(s, N9270033(s, mode, sel), {})
           /\ Fair(s, N2030011(s, mode, sel), {}) /\ Fair(s, N9000010(s, mode, sel), {})
           /\ Fair(s, N9201123(s, mode, sel), {}) /\ Fair(s, N9201124(s, mode, sel), {})
           /\ Fair(s, N9201125(s, mode, sel), {}) /\ Fair(s, N9201126(s, mode, sel), {})
           /\ Fair(s, N2102001(s, mode, sel), {}) /\ Fair(s, N10200(s, mode, sel), {})
           /\ Fair(s, N10201(s, mode, sel), {})   /\ Fair(s, N10202(s, mode, sel), {})
           /\ Fair(s, N10203(s, mode, sel), {})   /\ Fair(s, N10204(s, mode, sel), {})
<1>1. /\ Fair(s, N1032004(s, mode, sel), {}) /\ Fair(s, N1061007(s, mode, sel), {})
      /\ Fair(s, N2001001(s, mode, sel), {}) /\ Fair(s, N2001002(s, mode, sel), {})
      /\ Fair(s, N2001003(s, mode, sel), {}) /\ Fair(s, N2002000(s, mode, sel), {})
      /\ Fair(s, N2007(s, mode, sel), {})    /\ Fair(s, N2083002(s, mode, sel), {})
      /\ Fair(s, N2030010(s, mode, sel), {}) /\ Fair(s, N9120200(s, mode, sel), {})
      /\ Fair(s, N9220005(s, mode, sel), {}) /\ Fair(s, N9270038(s, mode, sel), {})
      /\ Fair(s, N9270041(s, mode, sel), {})
  BY TalksOnDemand DEF N1032004, N1061007, N2001001, N2001002, N2001003, N2002000, N2007,
     N2083002, N2030010, N9120200, N9220005, N9270038, N9270041
<1>2. /\ Fair(s, N9201123(s, mode, sel), {}) /\ Fair(s, N9201124(s, mode, sel), {})
      /\ Fair(s, N9201125(s, mode, sel), {}) /\ Fair(s, N9201126(s, mode, sel), {})
      /\ Fair(s, N2102001(s, mode, sel), {}) /\ Fair(s, N10200(s, mode, sel), {})
      /\ Fair(s, N10201(s, mode, sel), {})   /\ Fair(s, N10202(s, mode, sel), {})
      /\ Fair(s, N10203(s, mode, sel), {})   /\ Fair(s, N10204(s, mode, sel), {})
  BY TalksOnDemand DEF N9201123, N9201124, N9201125, N9201126, N2102001, N10200, N10201, N10202,
     N10203, N10204
<1> USE FairTame, TameLists, TameOps, TameGifts, TamePages, TameTalks
<1>3. AllTame(N1103005(s, mode, sel), {}) /\ AllTame(N9000010(s, mode, sel), {})
  BY DEF N1103005, N9000010
<1>4. /\ AllTame(N9103002(s, mode, sel), {}) /\ AllTame(N9120201(s, mode, sel), {})
      /\ AllTame(N9120202(s, mode, sel), {}) /\ AllTame(N9270033(s, mode, sel), {})
  BY DEF N9103002, N9120201, N9120202, N9270033
<1>5. AllTame(N2030011(s, mode, sel), {})
  BY DEF N2030011
<1> QED BY <1>1, <1>2, <1>3, <1>4, <1>5


(* Longer talks. *)
LEMMA TalksLong ==
    ASSUME NEW s, NEW mode, NEW sel, s.place \in 1 .. 2
    PROVE  /\ Fair(s, N1012113(s, mode, sel), {}) /\ Fair(s, N1032009(s, mode, sel), {})
           /\ Fair(s, N1052011(s, mode, sel), {}) /\ Fair(s, N1081001(s, mode, sel), {})
           /\ Fair(s, N2012006(s, mode, sel), {}) /\ Fair(s, N2101(s, mode, sel), {})
           /\ Fair(s, N9101001(s, mode, sel), {}) /\ Fair(s, N2040002(s, mode, sel), {})
           /\ Fair(s, N9201056(s, mode, sel), {}) /\ Fair(s, N9010022(s, mode, sel), {})
           /\ Fair(s, N9060000(s, mode, sel), {}) /\ Fair(s, N2030000(s, mode, sel), {})
           /\ Fair(s, N1061006(s, mode, sel), {}) /\ Fair(s, N2101018(s, mode, sel), {})
           /\ Fair(s, N2091006(s, mode, sel), {})
<1> USE FairTame, TameLists, TameOps, TameGifts, TamePages, TameTalks
<1>1. AllTame(N1012113(s, mode, sel), {})
  <2>1. AllTame(<<Say(More)>>, {}) /\ AllTame(<<Say(YesNo)>>, {})
    OBVIOUS
  <2>2. AllTame(<<Go("exit", {}), Dispose>>, {})
    OBVIOUS
  <2>3. AllTame((IF s.party = "none" THEN <<Throw>> ELSE <<Go("bonus", {})>>) \o <<Dispose>>, {})
    OBVIOUS
  <2>4. s.place = 1 \/ s.place = 2
    OBVIOUS
  <2>5. \A a, b, c, d, e :
           /\ PagesTame(<<a, b>>, {}) /\ PagesTame(<<c, d, e>>, {})
           => PagesTame(CASE s.place = 1 -> <<a, b>> [] s.place = 2 -> <<c, d, e>>, {})
    BY <2>4
  <2> QED BY <2>1, <2>2, <2>3, <2>5 DEF N1012113
<1>2. AllTame(N1032009(s, mode, sel), {}) /\ AllTame(N2101(s, mode, sel), {})
  BY DEF N1032009, N2101
<1>3. AllTame(N1052011(s, mode, sel), {})
  BY DEF N1052011
<1>4. AllTame(N1081001(s, mode, sel), {})
  BY DEF N1081001
<1>5. AllTame(N2012006(s, mode, sel), {})
  BY DEF N2012006
<1>6. AllTame(N9101001(s, mode, sel), {})
  BY DEF N9101001
<1>7. AllTame(N2040002(s, mode, sel), {})
  BY DEF N2040002
<1>8. AllTame(N9201056(s, mode, sel), {})
  BY DEF N9201056
<1>9. AllTame(N9010022(s, mode, sel), {})
  BY DEF N9010022
<1>10. AllTame(N9060000(s, mode, sel), {})
  BY DEF N9060000
<1>11. AllTame(N2030000(s, mode, sel), {})
  BY DEF N2030000
<1>12. AllTame(N1061006(s, mode, sel), {})
  BY DEF N1061006
<1>13. AllTame(N2101018(s, mode, sel), {})
  BY DEF N2101018, Turn
<1>14. AllTame(N2091006(s, mode, sel), {})
  <2>1. AllTame(Turn(1, <<Note("pick", 1), Say(More)>>), {})
    BY DEF Turn
  <2>2. AllTame(Turn(2, <<Say(Prev)>>), {})
    BY DEF Turn
  <2>3. AllTame(Turn(1, IF mode = 1 THEN <<Say(YesNo)>> ELSE <<>>), {})
    BY DEF Turn
  <2>4. AllTame((IF mode = 1 THEN <<Go("dojo", {})>> ELSE <<Say(More)>>) \o <<Dispose>>, {})
    OBVIOUS
  <2>5. AllTame(<<Say(Menu({0, 1}))>>, {}) /\ AllTame(<<Dispose>>, {})
    OBVIOUS
  <2> QED BY ONLY <2>1, <2>2, <2>3, <2>4, <2>5 DEF N2091006
<1> QED BY <1>1, <1>2, <1>3, <1>4, <1>5, <1>6, <1>7, <1>8, <1>9, <1>10, <1>11, <1>12,
           <1>13, <1>14

(* Talks that lose the player; one of them takes a token for experience. *)
LEMMA TalksLost ==
    ASSUME NEW s, NEW mode, NEW sel
    PROVE  /\ Fair(s, N1012114(s, mode, sel), {}) /\ Fair(s, N1092000(s, mode, sel), {})
           /\ Fair(s, N2012002(s, mode, sel), {}) /\ Fair(s, N2012021(s, mode, sel), {})
           /\ Fair(s, N2012022(s, mode, sel), {}) /\ Fair(s, N2032003(s, mode, sel), {})
           /\ Fair(s, N9120015(s, mode, sel), {}) /\ Fair(s, N9201010(s, mode, sel), {})
           /\ Fair(s, N2082002(s, mode, sel), {}) /\ Fair(s, N2090005(s, mode, sel), {})
<1> USE FairTame, TameLists, TameOps, TameGifts
<1>1. Fair(s, N1012114(s, mode, sel), {})
  <2> DEFINE p2 == CASE sel = 0 -> <<Say(More)>>
                     [] sel = 1 /\ Owns(s, "token", 1) -> <<Note("pick", 1), Say(More)>>
                     [] sel = 1 /\ ~Owns(s, "token", 1) ->
                          <<Note("pick", 1), Say(Ok), Dispose>>
                     [] sel = 2 -> <<Say(YesNo)>>
                     [] OTHER -> <<>>
             sold == <<Say(NextPrev), Take("token", 1), Reward({"token"}), Fail>>
             p3 == IF s.g.pick = 0 THEN <<Say(NextPrev)>> ELSE sold
             p4 == IF s.g.pick = 0 THEN <<Say(NextPrev)>> ELSE <<>>
  <2>1. Fair(s, <<>>, {}) /\ Fair(s, p4, {})
    OBVIOUS
  <2>2. AllTame(p2, {})
    OBVIOUS
  <2>3. Fair(s, sold, {})
    <3>1. Fair(s, <<Take("token", 1), Reward({"token"})>>, {})
      BY FairDeals, SellsGifts
    <3>2. Fair(s, <<Take("token", 1), Reward({"token"}), Fail>>, {})
      BY <3>1, FairLists
    <3> DEFINE q == <<Take("token", 1), Reward({"token"}), Fail>>
    <3>3. sold = <<Say(NextPrev)>> \o q
      OBVIOUS
    <3>4. Talk1Op(Say(NextPrev))
      BY DEF Talk1Op, Say
    <3>5. Fair(s, q, {})
      BY <3>2
    <3> HIDE DEF q, sold
    <3> QED BY <3>3, <3>4, <3>5, TalkThenFair
  <2>4. Fair(s, p3, {})
    BY <2>3
  <2> DEFINE pages == <<<<>>, p2, p3, p4, p4>>
  <2>5. PagesFair(s, pages, {})
    <3> HIDE DEF p2, p3, p4
    <3> QED BY <2>1, <2>2, <2>4, FairPages
  <2>6. Fair(s, BackAndForth(s, mode, pages), {})
    <3> HIDE DEF pages
    <3> QED BY <2>5, FairTalks
  <2>7. /\ Fair(s, <<Throw>>, {})
        /\ Fair(s, <<Say(Menu(IF s.party = "leader" THEN {0, 1, 2} ELSE {0, 2}))>>, {})
    OBVIOUS
  <2>8. N1012114(s, mode, sel) =
          CASE mode = Opening /\ s.party = "none" -> <<Throw>>
            [] mode = Opening /\ s.party # "none" ->
                 <<Say(Menu(IF s.party = "leader" THEN {0, 1, 2} ELSE {0, 2}))>>
            [] OTHER -> BackAndForth(s, mode, pages)
    BY DEF N1012114
  <2> HIDE DEF pages
  <2> QED BY ONLY <2>6, <2>7, <2>8
<1> USE TamePages, TameTalks
<1>2. AllTame(N1092000(s, mode, sel), {})
  BY DEF N1092000
<1>3. AllTame(N2012002(s, mode, sel), {}) /\ AllTame(N2012021(s, mode, sel), {})
  BY DEF N2012002, N2012021
<1>4. AllTame(N2012022(s, mode, sel), {}) /\ AllTame(N2032003(s, mode, sel), {})
  BY DEF N2012022, N2032003
<1>5. AllTame(N9120015(s, mode, sel), {})
  BY DEF N9120015
<1>6. AllTame(N9201010(s, mode, sel), {})
  BY DEF N9201010
<1>7. AllTame(N2082002(s, mode, sel), {})
  BY DEF N2082002
<1>8. AllTame(N2090005(s, mode, sel), {})
  BY DEF N2090005
<1> QED BY <1>1, <1>2, <1>3, <1>4, <1>5, <1>6, <1>7, <1>8

(* For a token. *)
LEMMA TalksForToken ==
    ASSUME NEW s, NEW mode, NEW sel
    PROVE  /\ Fair(s, N2012014(s, mode, sel), {}) /\ Fair(s, N2012015(s, mode, sel), {})
           /\ Fair(s, N2040024(s, mode, sel), {}) /\ Fair(s, N2040025(s, mode, sel), {})
           /\ Fair(s, N2040026(s, mode, sel), {}) /\ Fair(s, N2040027(s, mode, sel), {})
           /\ Fair(s, N2102000(s, mode, sel), {}) /\ Fair(s, N2040028(s, mode, sel), {})
           /\ Fair(s, N9201043(s, mode, sel), {})
<1>1. \A m : Fair(s, Off(m), {})
  BY FairDeals, SellsGifts, FairLists, TameOps DEF Off
<1>2. \A asks : Fair(s, Token(s, asks), {})
  BY FairTame, TameLists, TameOps DEF Token
<1>3. Fair(s, <<Say(YesNo)>>, {}) /\ Fair(s, <<Say(More), Dispose>>, {})
  BY FairTame, TameLists, TameOps
<1>4. Fair(s, N2012014(s, mode, sel), {}) /\ Fair(s, N2012015(s, mode, sel), {})
  BY <1>1, <1>2, FairPages, FairTalks DEF N2012014, N2012015
<1>5. Fair(s, N2040024(s, mode, sel), {}) /\ Fair(s, N2040027(s, mode, sel), {})
  BY <1>1, <1>2, FairPages, FairTalks DEF N2040024, N2040027
<1>6. Fair(s, N2040025(s, mode, sel), {}) /\ Fair(s, N2040026(s, mode, sel), {})
  BY <1>1, <1>2, <1>3, FairPages, FairTalks DEF N2040025, N2040026
<1>7. Fair(s, N2102000(s, mode, sel), {})
  BY <1>1, <1>3, FairPages, FairTalks DEF N2102000
<1>8. Fair(s, N2040028(s, mode, sel), {})
  <2> DEFINE deal == <<CompleteQuest("a", {"token"}), Take("token", 1)>>
             first == IF "a" \in s.begun /\ Owns(s, "token", 1) THEN deal ELSE <<>>
  <2>1. Owns(s, "token", 1) => Fair(s, deal, {})
    BY FairDeals, SellsGifts DEF CompleteQuest
  <2>2. Fair(s, first, {})
    BY <2>1, FairTame, TameLists
  <2>3. AllTame(<<Say(YesNo)>>, {})
    BY TameLists, TameOps
  <2>4. Fair(s, first \o <<Say(YesNo)>>, {})
    <3> HIDE DEF first
    <3> QED BY <2>2, <2>3, FairThenTame
  <2>5. Fair(s, <<Go("workshop", {}), Dispose>>, {}) /\ Fair(s, <<Dispose>>, {})
    BY FairTame, TameLists, TameOps, TameGifts
  <2> QED BY <2>4, <2>5 DEF N2040028
<1>9. Fair(s, N9201043(s, mode, sel), {})
  <2>1. Fair(s, <<Take("extra", 1), Give("token", 1, {"extra"})>>, {})
    BY FairDeals, SellsGifts
  <2>2. Fair(s, <<Take("extra", 1), Give("token", 1, {"extra"}), Dispose>>, {})
    BY <2>1, FairLists, TameOps
  <2>3. Fair(s, CASE sel = 0 /\ Owns(s, "token", 1) -> <<Fail>>
                  [] sel = 1 /\ Owns(s, "extra", 1) -> <<Say(YesNo)>>
                  [] OTHER -> <<Say(Ok), Dispose>>, {})
    BY FairTame, TameLists, TameOps
  <2>4. Fair(s, <<Say(Menu({0, 1}))>>, {}) /\ Fair(s, <<Say(Ok), Dispose>>, {})
    BY FairTame, TameLists, TameOps
  <2> QED BY <2>2, <2>3, <2>4, FairPages, FairTalks DEF N9201043
<1> QED BY <1>4, <1>5, <1>6, <1>7, <1>8, <1>9

(* Prizes. *)
LEMMA TalksForPrize ==
    ASSUME NEW s, NEW mode, NEW sel
    PROVE  /\ Fair(s, N1043000(s, mode, sel), {}) /\ Fair(s, N1043001(s, mode, sel), {})
           /\ Fair(s, N1052008(s, mode, sel), {}) /\ Fair(s, N1052009(s, mode, sel), {})
           /\ Fair(s, N1052010(s, mode, sel), {}) /\ Fair(s, N1063000(s, mode, sel), {})
           /\ Fair(s, N1063001(s, mode, sel), {}) /\ Fair(s, N1063002(s, mode, sel), {})
<1>1. \A both : AllTame(Prize(s, both), {})
  BY TameLists, TameGifts DEF Prize
<1>2. \A both : AllTame(Prize(s, both) \o <<Go("out", {}), Dispose>>, {})
  BY <1>1, TameLists, TameOps, TameGifts
<1>3. \A both : Fair(s, Prize(s, both) \o <<Go("out", {}), Dispose>>, {})
  BY <1>2, FairTame
<1> QED BY <1>3 DEF N1043000, N1043001, N1052008, N1052009, N1052010, N1063000, N1063001, N1063002

-----------------------------------------------------------------------------
(* Drivers, guides and gatekeepers: those who ride for nothing or on a     *)
(* price they do not ask for.                                              *)
LEMMA RidesUnpaid ==
    ASSUME NEW s, NEW mode, NEW sel
    PROVE  /\ Fair(s, N1012000(s, mode, sel), {"meso"}) /\ Fair(s, N1022001(s, mode, sel), {"meso"})
           /\ Fair(s, N1032000(s, mode, sel), {"meso"}) /\ Fair(s, N1052016(s, mode, sel), {"meso"})
           /\ Fair(s, N1092014(s, mode, sel), {"meso"}) /\ Fair(s, N2023000(s, mode, sel), {"meso"})
           /\ Fair(s, N2110005(s, mode, sel), {"meso"}) /\ Fair(s, N9120003(s, mode, sel), {"meso"})
           /\ Fair(s, N9000020(s, mode, sel), {"meso"}) /\ Fair(s, N9000012(s, mode, sel), {"meso"})
<1> USE FairTame, TameLists, TameOps, TameGifts, TamePages, TameTalks
<1>1. \A ride : AllTame(ride, {"meso"}) => AllTame(Taxi(s, mode, ride), {"meso"})
  BY DEF Taxi
<1>2. AllTame(N1012000(s, mode, sel), {"meso"}) /\ AllTame(N1022001(s, mode, sel), {"meso"})
  BY <1>1 DEF N1012000, N1022001
<1>3. /\ AllTame(N1032000(s, mode, sel), {"meso"}) /\ AllTame(N1052016(s, mode, sel), {"meso"})
      /\ AllTame(N1092014(s, mode, sel), {"meso"})
  BY <1>1 DEF N1032000, N1052016, N1092014
<1>4. AllTame(N2023000(s, mode, sel), {"meso"})
  BY DEF N2023000
<1>5. AllTame(N2110005(s, mode, sel), {"meso"})
  BY DEF N2110005
<1>6. AllTame(N9120003(s, mode, sel), {"meso"})
  BY DEF N9120003
<1>7. AllTame(N9000020(s, mode, sel), {"meso"})
  BY DEF N9000020
<1>8. AllTame(N9000012(s, mode, sel), {"meso"})
  BY DEF N9000012
<1> QED BY <1>2, <1>3, <1>4, <1>5, <1>6, <1>7, <1>8

(* Those who take nobody anywhere for mesos. *)
LEMMA RidesIdle ==
    ASSUME NEW s, NEW mode, NEW sel
    PROVE  /\ Fair(s, N1032005(s, mode, sel), {}) /\ Fair(s, N2010005(s, mode, sel), {})
           /\ Fair(s, N2040048(s, mode, sel), {}) /\ Fair(s, N1100003(s, mode, sel), {})
           /\ Fair(s, N1002002(s, mode, sel), {"ticket"})
<1> USE FairTame, TameLists, TameOps, TameGifts, TamePages, TameTalks
<1>1. AllTame(N1032005(s, mode, sel), {})
  BY DEF N1032005
<1>2. AllTame(N2010005(s, mode, sel), {}) /\ AllTame(N2040048(s, mode, sel), {})
  BY DEF N2010005, N2040048, Florina
<1>3. AllTame(N1100003(s, mode, sel), {})
  BY DEF N1100003
<1>4. Fair(s, N1002002(s, mode, sel), {"ticket"})
  <2> DEFINE ride == IF Owns(s, "meso", 1) THEN <<Pay(1), Go("florina", {"meso"})>>
                                           ELSE <<Say(More)>>
             free == IF Owns(s, "ticket", 1) THEN <<Say(More)>> ELSE <<Go("florina", {"ticket"})>>
  <2>1. Fair(s, ride, {"ticket"})
    <3>1. Owns(s, "meso", 1) => Fair(s, <<Pay(1), Go("florina", {"meso"})>>, {"ticket"})
      BY FairDeals, SellsGifts
    <3> QED BY <3>1
  <2>2. Fair(s, ride \o <<Dispose>>, {"ticket"})
    <3>1. AllTame(<<Dispose>>, {"ticket"})
      OBVIOUS
    <3> HIDE DEF ride
    <3> QED BY <2>1, <3>1, FairThenTame
  <2>3. Fair(s, free \o <<Dispose>>, {"ticket"})
    OBVIOUS
  <2>4. /\ Fair(s, <<Say(Menu({0, 1, 2}))>>, {"ticket"}) /\ Fair(s, <<Dispose>>, {"ticket"})
        /\ Fair(s, Turn(s.g.status - 1, <<>>), {"ticket"})
        /\ Fair(s, Turn(1, <<Note("pick", sel), Say(IF sel = 1 THEN YesNo ELSE More)>>), {"ticket"})
        /\ Fair(s, Turn(2, <<Say(NextPrev)>>), {"ticket"})
        /\ Fair(s, Turn(s.g.status + 1, <<>>), {"ticket"})
    BY DEF Turn
  <2> QED BY ONLY <2>2, <2>3, <2>4 DEF N1002002
<1> QED BY <1>1, <1>2, <1>3, <1>4

(* Those who take the fare.                                                *)
LEMMA Rides ==
    ASSUME NEW s, NEW mode, NEW sel
    PROVE  /\ Fair(s, N1002000(s, mode, sel), {}) /\ Fair(s, N1002004(s, mode, sel), {})
           /\ Fair(s, N1032003(s, mode, sel), {}) /\ Fair(s, N1061100(s, mode, sel), {})
           /\ Fair(s, N2081005(s, mode, sel), {}) /\ Fair(s, N2093004(s, mode, sel), {})
           /\ Fair(s, N2060009(s, mode, sel), {"meso"}) /\ Fair(s, N22000(s, mode, sel), {"meso"})
<1>1. \A m, w : Fair(s, (IF Owns(s, "meso", 1) THEN <<Pay(1), Go(m, {"meso"})>>
                                               ELSE <<Say(w)>>) \o <<Dispose>>, {})
  <2> SUFFICES ASSUME NEW m, NEW w
               PROVE  Fair(s, (IF Owns(s, "meso", 1) THEN <<Pay(1), Go(m, {"meso"})>>
                                               ELSE <<Say(w)>>) \o <<Dispose>>, {})
    OBVIOUS
  <2> DEFINE ride == IF Owns(s, "meso", 1) THEN <<Pay(1), Go(m, {"meso"})>> ELSE <<Say(w)>>
  <2>1. Owns(s, "meso", 1) => Fair(s, <<Pay(1), Go(m, {"meso"})>>, {})
    BY FairDeals, SellsGifts
  <2>2. Fair(s, ride, {}) /\ AllTame(<<Dispose>>, {})
    BY <2>1, FairTame, TameLists, TameOps
  <2> HIDE DEF ride
  <2>3. Fair(s, ride \o <<Dispose>>, {})
    BY <2>2, FairThenTame
  <2> QED BY <2>3 DEF ride
<1>2. \A m : Owns(s, "meso", 1) => Fair(s, <<Pay(1), Go(m, {"meso"}), Dispose>>, {})
  BY FairDeals, SellsGifts, FairLists, TameOps
<1>3. \A U : /\ Fair(s, <<>>, U) /\ Fair(s, <<Dispose>>, U) /\ Fair(s, <<Fail>>, U)
             /\ \A w : Fair(s, <<Say(w)>>, U) /\ Fair(s, <<Say(w), Dispose>>, U)
             /\ \A f, v, w : Fair(s, <<Note(f, v), Say(w)>>, U)
  BY FairTame, TameLists, TameOps
<1>4. Fair(s, N1002000(s, mode, sel), {})
  <2>1. \A st : Fair(s, TownTalk(s, st, sel), {})
    BY <1>3 DEF TownTalk
  <2>2. Fair(s, (IF sel = 0 THEN <<Note("pick", 1)>> ELSE <<>>) \o <<Say(Menu({0, 1}))>>, {})
    BY FairTame, TameLists, TameOps
  <2> QED BY <1>1, <1>3, <2>1, <2>2, FairTurn DEF N1002000
<1>5. Fair(s, N1002004(s, mode, sel), {})
  BY <1>1, <1>3, FairPages, FairTalks DEF N1002004
<1>6. Fair(s, N1032003(s, mode, sel), {})
  <2>1. Owns(s, "meso", 1) => Fair(s, <<Go("forest", {"meso"}), Pay(1)>>, {})
    BY FairDeals, SellsGifts DEF Go
  <2>2. Owns(s, "meso", 1) => Fair(s, <<Go("forest", {"meso"}), Pay(1), Dispose>>, {})
    BY <2>1, FairLists, TameOps
  <2> QED BY <1>3, <2>2 DEF N1032003
<1>7. Fair(s, N1061100(s, mode, sel), {})
  <2> DEFINE m == IF s.g.pick = 1 THEN "wrong" ELSE "sauna"
             ride == IF Owns(s, "meso", 1) THEN <<Go(m, {"meso"}), Pay(1)>> ELSE <<Say(More)>>
  <2>1. Owns(s, "meso", 1) => Fair(s, <<Go(m, {"meso"}), Pay(1)>>, {})
    <3> HIDE DEF m
    <3> QED BY FairDeals, SellsGifts DEF Go
  <2>2. Fair(s, ride, {}) /\ AllTame(<<Dispose>>, {})
    <3> HIDE DEF m
    <3> QED BY <1>3, <2>1, TameLists, TameOps
  <2>3. Fair(s, ride \o <<Dispose>>, {})
    <3> HIDE DEF ride
    <3> QED BY <2>2, FairThenTame
  <2> QED BY <1>3, <2>3, FairPages, FairTalks DEF N1061100
<1>8. Fair(s, N2081005(s, mode, sel), {})
  <2> DEFINE deal == IF Owns(s, "meso", 1) /\ s.room THEN <<Pay(1), Give("goods", 1, {"meso"})>>
                                                     ELSE <<>>
  <2>1. Owns(s, "meso", 1) => Fair(s, <<Pay(1), Give("goods", 1, {"meso"})>>, {})
    BY FairDeals, SellsGifts
  <2>2. Fair(s, deal, {}) /\ AllTame(<<Say(Ok), Dispose>>, {})
    BY <1>3, <2>1, TameLists, TameOps
  <2>3. Fair(s, deal \o <<Say(Ok), Dispose>>, {})
    <3> HIDE DEF deal
    <3> QED BY <2>2, FairThenTame
  <2>4. Fair(s, (IF s.level > 0 THEN <<Go("cave", {})>> ELSE <<Say(Ok)>>) \o <<Dispose>>, {})
    BY FairTame, TameLists, TameOps, TameGifts
  <2> QED BY <1>3, <2>3, <2>4 DEF N2081005
<1>9. Fair(s, N2093004(s, mode, sel), {})
  BY <1>2, <1>3 DEF N2093004
<1>10. Fair(s, N2060009(s, mode, sel), {"meso"})
  <2>1. Fair(s, <<Pay(1), Go("sea", {"meso"}), Dispose>>, {"meso"})
    BY FairTame, TameLists, TameOps, TameGifts
  <2>2. Fair(s, <<Take("ticket", 1), Go("sea", {"ticket"})>>, {"meso"})
    BY FairDeals, SellsGifts
  <2>3. Fair(s, <<Take("ticket", 1), Go("sea", {"ticket"}), Dispose>>, {"meso"})
    BY <2>2, FairLists, TameOps
  <2> QED BY <1>3, <2>1, <2>3 DEF N2060009
<1>11. Fair(s, N22000(s, mode, sel), {"meso"})
  <2> DEFINE ride == IF Owns(s, "ticket", 1) THEN <<Take("ticket", 1), Go("victoria", {"ticket"})>>
                                             ELSE <<Go("victoria", {"meso"})>>
             page == CASE Owns(s, "ticket", 1) -> <<Say(NextPrev)>>
                       [] ~Owns(s, "ticket", 1) /\ s.level > 0 /\ Owns(s, "meso", 1) ->
                            <<Say(More)>>
                       [] OTHER -> <<Say(Ok), Dispose>>
  <2>1. Fair(s, <<Take("ticket", 1), Go("victoria", {"ticket"})>>, {"meso"})
    BY FairDeals, SellsGifts
  <2>2. Fair(s, <<Go("victoria", {"meso"})>>, {"meso"}) /\ AllTame(<<Dispose>>, {"meso"})
    BY FairTame, TameLists, TameOps, TameGifts
  <2>3. Fair(s, ride, {"meso"})
    BY <2>1, <2>2
  <2>4. Fair(s, ride \o <<Dispose>>, {"meso"})
    <3> HIDE DEF ride
    <3> QED BY <2>2, <2>3, FairThenTame
  <2>5. Fair(s, page, {"meso"})
    BY <1>3
  <2> DEFINE pages == <<<<>>, <<Say(More)>>, page, ride \o <<Dispose>>>>
  <2>6. \A st : Fair(s, Page(pages, st), {"meso"})
    <3>1. PagesFair(s, pages, {"meso"})
      <4> HIDE DEF page, ride
      <4> QED BY <1>3, <2>4, <2>5, FairPages
    <3> HIDE DEF pages
    <3> QED BY <3>1, FairTalks
  <2>7. \A st : Fair(s, Page(<<<<>>, <<Say(More)>>>>, st), {"meso"})
    BY <1>3, FairPages, FairTalks
  <2>8. N22000(s, mode, sel) =
          CASE mode = Opening -> <<Say(YesNo)>>
            [] mode = -1 \/ (mode = 0 /\ s.g.status = 0) -> <<Dispose>>
            [] mode = 0 /\ s.g.status > 0 -> Page(<<<<>>, <<Say(More)>>>>, s.g.status - 1)
            [] OTHER -> Page(pages, s.g.status + 1)
    BY DEF N22000
  <2> HIDE DEF pages
  <2> QED BY <1>3, <2>6, <2>7, <2>8
<1> QED BY <1>4, <1>5, <1>6, <1>7, <1>8, <1>9, <1>10, <1>11

-----------------------------------------------------------------------------
(* What is sold whatever the bag holds, because taking it throws.          *)
LEMMA TameThenFree ==
    ASSUME NEW s, NEW p, NEW q, NEW U, AllTame(p, U), \A u : Fair(u, q, U)
    PROVE  Fair(s, p \o q, U)
<1>1. IsOps(p) /\ IsOps(q)
  BY DEF Fair, AllTame
<1>2. IsOps(p \o q)
  BY <1>1, Cat
<1>3. ASSUME NEW u, Shaped(u) PROVE Settled(u, RunScript(u, p \o q), U)
  <2> DEFINE v == RunScript(u, p)
  <2>1. Settled(u, v, U)
    BY <1>3, TameKeeps
  <2>2. RunScript(u, p \o q) = RunScript(v, q)
    BY <1>1, RunCat
  <2> HIDE DEF v
  <2>3. Settled(v, RunScript(v, q), U)
    BY <2>1 DEF Fair, Settled
  <2> QED BY <2>1, <2>2, <2>3, SettledOn
<1> QED BY <1>2, <1>3 DEF Fair

(* Job advancement. *)
LEMMA Advancement ==
    ASSUME NEW s
    PROVE  /\ \A st, sel, tells : Fair(s, Second(s, st, sel, tells), {})
           /\ \A st, letter : Fair(s, Letter(s, st, letter), {})
           /\ \A st, sel : Fair(s, Adept(s, st, sel), {})
<1>0. /\ Fair(s, <<>>, {}) /\ Fair(s, <<Dispose>>, {})
      /\ \A w : Fair(s, <<Say(w)>>, {})
      /\ \A f, v, w : Fair(s, <<Note(f, v), Say(w)>>, {})
  BY FairTame, TameLists, TameOps
<1>1. \A st, sel, tells : Fair(s, Second(s, st, sel, tells), {})
  <2> SUFFICES ASSUME NEW st, NEW sel, NEW tells PROVE Fair(s, Second(s, st, sel, tells), {})
    OBVIOUS
  <2> DEFINE told == IF s.g.item \in tells THEN <<Say(More)>> ELSE <<>>
             deal == <<Take("proof", 1), Become(Chosen2(s), {"proof"})>>
  <2>1. \A u : Fair(u, deal, {})
    BY FairDeals, SellsGifts
  <2>2. AllTame(told, {})
    BY TameLists, TameOps
  <2>3. Fair(s, told \o deal, {})
    <3> HIDE DEF told, deal
    <3> QED BY <2>1, <2>2, TameThenFree
  <2> QED BY <1>0, <2>3 DEF Second, Jobs
<1>2. \A st, letter : Fair(s, Letter(s, st, letter), {})
  <2>1. \A letter, w : Fair(s, <<Give(letter, 1, {}), Say(w)>>, {})
    BY FairTame, TameLists, TameOps, TameGifts
  <2> QED BY <1>0, <2>1 DEF Letter
<1>3. \A st, sel : Fair(s, Adept(s, st, sel), {})
  BY <1>0, <1>1, <1>2 DEF Adept
<1> QED BY <1>1, <1>2, <1>3

(* The instructors of the first jobs. *)
LEMMA Trainings ==
    ASSUME NEW s, NEW mode, NEW sel
    PROVE  /\ Fair(s, N1012100(s, mode, sel), {}) /\ Fair(s, N1032001(s, mode, sel), {})
           /\ Fair(s, N1022000(s, mode, sel), {}) /\ Fair(s, N1090000(s, mode, sel), {})
<1>0. /\ Fair(s, <<>>, {}) /\ Fair(s, <<Dispose>>, {})
      /\ \A w : Fair(s, <<Say(w)>>, {}) /\ Fair(s, <<Say(w), Dispose>>, {})
      /\ \A f, v, w : Fair(s, <<Note(f, v), Say(w)>>, {})
  BY FairTame, TameLists, TameOps
<1>1. ASSUME NEW question, NEW others, Fair(s, question, {}), Fair(s, others, {})
      PROVE  Fair(s, Master(s, mode, sel, question, others), {})
  BY <1>0, <1>1, Advancement, FairTurn DEF Master
<1>2. Fair(s, N1012100(s, mode, sel), {}) /\ Fair(s, N1032001(s, mode, sel), {})
  BY <1>0, <1>1 DEF N1012100, N1032001
<1>3. Fair(s, N1022000(s, mode, sel), {})
  <2>1. Fair(s, WarriorTalk(s), {})
    BY <1>0 DEF WarriorTalk
  <2>2. \A st : Fair(s, FirstJob(s, st), {})
    <3>1. Fair(s, (IF s.job \in {"beginner", "lost"}
                     THEN <<Become("first", {}), Give("goods", 1, {})>> ELSE <<>>)
                  \o <<Say(NextPrev)>>, {})
      BY FairTame, TameLists, TameOps, TameGifts
    <3> QED BY <1>0, <3>1 DEF FirstJob
  <2>3. \A st : Fair(s, WarriorsTold(s, st, sel), {})
    <3>1. Fair(s, <<Say(More)>> \o (IF sel > -1 THEN <<Note("item", sel + 1)>> ELSE <<>>), {})
      BY FairTame, TameLists, TameOps
    <3> QED BY <1>0, <3>1 DEF WarriorsTold
  <2> QED BY <1>0, <2>1, <2>2, <2>3, Advancement, FairTurn DEF N1022000
<1>4. Fair(s, N1090000(s, mode, sel), {})
  <2>1. Fair(s, (IF s.job = "beginner" THEN <<Become("first", {})>> ELSE <<>>)
                \o <<Say(Ok), Dispose>>, {})
    BY FairTame, TameLists, TameOps, TameGifts
  <2> QED BY <1>0, <2>1, FairPages, FairTalks DEF N1090000
<1> QED BY <1>2, <1>3, <1>4

(* A sequence is what it holds. *)
LEMMA SameSeq ==
    ASSUME NEW A, NEW r \in Seq(A), NEW w \in Seq(A), NEW n \in Nat, Len(r) = n, Len(w) = n,
           \A i \in 1 .. n : r[i] = w[i]
    PROVE  r = w
<1>1. r \in [1 .. n -> A] /\ w \in [1 .. n -> A]
  OBVIOUS
<1> QED BY <1>1

(* Two sequences of effects as one. *)
LEMMA Joined ==
    /\ \A a, b : <<a>> \o <<b>> = <<a, b>>
    /\ \A a, b, c : <<a, b>> \o <<c>> = <<a, b, c>>
    /\ \A a, b, c, d : <<a, b, c>> \o <<d>> = <<a, b, c, d>>
    /\ \A a, b, c, d, e : <<a, b, c, d>> \o <<e>> = <<a, b, c, d, e>>
    /\ \A a, b, c, d, e : <<a, b>> \o <<c, d, e>> = <<a, b, c, d, e>>
    /\ \A a, b, c : <<a>> \o <<b, c>> = <<a, b, c>>
    /\ \A a, b, c, d, e, f : <<a>> \o <<b, c, d, e, f>> = <<a, b, c, d, e, f>>
<1>1. ASSUME NEW a, NEW b PROVE <<a>> \o <<b>> = <<a, b>>
  <2> DEFINE p == <<a>>
             q == <<b>>
             r == p \o q
             w == <<a, b>>
             A == {a, b}
  <2>1. p \in Seq(A) /\ q \in Seq(A) /\ w \in Seq(A) /\ Len(w) = 2
    OBVIOUS
  <2>2. r \in Seq(A) /\ Len(r) = 2
    BY <2>1
  <2>3. /\ r[1] = a /\ r[2] = b
        /\ w[1] = a /\ w[2] = b
    OBVIOUS
  <2> HIDE DEF r, w
  <2>4. \A i \in 1 .. 2 : r[i] = w[i]
    BY <2>3
  <2>5. r = w
    <3> HIDE DEF A, p, q
    <3> QED BY <2>1, <2>2, <2>4, SameSeq
  <2> QED BY <2>5 DEF r, w
<1>2. ASSUME NEW a, NEW b, NEW c PROVE <<a, b>> \o <<c>> = <<a, b, c>>
  <2> DEFINE p == <<a, b>>
             q == <<c>>
             r == p \o q
             w == <<a, b, c>>
             A == {a, b, c}
  <2>1. p \in Seq(A) /\ q \in Seq(A) /\ w \in Seq(A) /\ Len(w) = 3
    OBVIOUS
  <2>2. r \in Seq(A) /\ Len(r) = 3
    BY <2>1
  <2>3. /\ r[1] = a /\ r[2] = b /\ r[3] = c
        /\ w[1] = a /\ w[2] = b /\ w[3] = c
    OBVIOUS
  <2> HIDE DEF r, w
  <2>4. \A i \in 1 .. 3 : r[i] = w[i]
    BY <2>3
  <2>5. r = w
    <3> HIDE DEF A, p, q
    <3> QED BY <2>1, <2>2, <2>4, SameSeq
  <2> QED BY <2>5 DEF r, w
<1>3. ASSUME NEW a, NEW b, NEW c, NEW d PROVE <<a, b, c>> \o <<d>> = <<a, b, c, d>>
  <2> DEFINE p == <<a, b, c>>
             q == <<d>>
             r == p \o q
             w == <<a, b, c, d>>
             A == {a, b, c, d}
  <2>1. p \in Seq(A) /\ q \in Seq(A) /\ w \in Seq(A) /\ Len(w) = 4
    OBVIOUS
  <2>2. r \in Seq(A) /\ Len(r) = 4
    BY <2>1
  <2>3. /\ r[1] = a /\ r[2] = b /\ r[3] = c /\ r[4] = d
        /\ w[1] = a /\ w[2] = b /\ w[3] = c /\ w[4] = d
    OBVIOUS
  <2> HIDE DEF r, w
  <2>4. \A i \in 1 .. 4 : r[i] = w[i]
    BY <2>3
  <2>5. r = w
    <3> HIDE DEF A, p, q
    <3> QED BY <2>1, <2>2, <2>4, SameSeq
  <2> QED BY <2>5 DEF r, w
<1>4. ASSUME NEW a, NEW b, NEW c, NEW d, NEW e PROVE <<a, b, c, d>> \o <<e>> = <<a, b, c, d, e>>
  <2> DEFINE p == <<a, b, c, d>>
             q == <<e>>
             r == p \o q
             w == <<a, b, c, d, e>>
             A == {a, b, c, d, e}
  <2>1. p \in Seq(A) /\ q \in Seq(A) /\ w \in Seq(A) /\ Len(w) = 5
    OBVIOUS
  <2>2. r \in Seq(A) /\ Len(r) = 5
    BY <2>1
  <2>3. /\ r[1] = a /\ r[2] = b /\ r[3] = c /\ r[4] = d /\ r[5] = e
        /\ w[1] = a /\ w[2] = b /\ w[3] = c /\ w[4] = d /\ w[5] = e
    OBVIOUS
  <2> HIDE DEF r, w
  <2>4. \A i \in 1 .. 5 : r[i] = w[i]
    BY <2>3
  <2>5. r = w
    <3> HIDE DEF A, p, q
    <3> QED BY <2>1, <2>2, <2>4, SameSeq
  <2> QED BY <2>5 DEF r, w
<1>5. ASSUME NEW a, NEW b, NEW c, NEW d, NEW e PROVE <<a, b>> \o <<c, d, e>> = <<a, b, c, d, e>>
  <2> DEFINE p == <<a, b>>
             q == <<c, d, e>>
             r == p \o q
             w == <<a, b, c, d, e>>
             A == {a, b, c, d, e}
  <2>1. p \in Seq(A) /\ q \in Seq(A) /\ w \in Seq(A) /\ Len(w) = 5
    OBVIOUS
  <2>2. r \in Seq(A) /\ Len(r) = 5
    BY <2>1
  <2>3. /\ r[1] = a /\ r[2] = b /\ r[3] = c /\ r[4] = d /\ r[5] = e
        /\ w[1] = a /\ w[2] = b /\ w[3] = c /\ w[4] = d /\ w[5] = e
    OBVIOUS
  <2> HIDE DEF r, w
  <2>4. \A i \in 1 .. 5 : r[i] = w[i]
    BY <2>3
  <2>5. r = w
    <3> HIDE DEF A, p, q
    <3> QED BY <2>1, <2>2, <2>4, SameSeq
  <2> QED BY <2>5 DEF r, w
<1>6. ASSUME NEW a, NEW b, NEW c PROVE <<a>> \o <<b, c>> = <<a, b, c>>
  <2> DEFINE p == <<a>>
             q == <<b, c>>
             r == p \o q
             w == <<a, b, c>>
             A == {a, b, c}
  <2>1. p \in Seq(A) /\ q \in Seq(A) /\ w \in Seq(A) /\ Len(w) = 3
    OBVIOUS
  <2>2. r \in Seq(A) /\ Len(r) = 3
    BY <2>1
  <2>3. /\ r[1] = a /\ r[2] = b /\ r[3] = c
        /\ w[1] = a /\ w[2] = b /\ w[3] = c
    OBVIOUS
  <2> HIDE DEF r, w
  <2>4. \A i \in 1 .. 3 : r[i] = w[i]
    BY <2>3
  <2>5. r = w
    <3> HIDE DEF A, p, q
    <3> QED BY <2>1, <2>2, <2>4, SameSeq
  <2> QED BY <2>5 DEF r, w
<1>7. ASSUME NEW a, NEW b, NEW c, NEW d, NEW e, NEW f PROVE <<a>> \o <<b, c, d, e, f>> = <<a, b, c, d, e, f>>
  <2> DEFINE p == <<a>>
             q == <<b, c, d, e, f>>
             r == p \o q
             w == <<a, b, c, d, e, f>>
             A == {a, b, c, d, e, f}
  <2>1. p \in Seq(A) /\ q \in Seq(A) /\ w \in Seq(A) /\ Len(w) = 6
    OBVIOUS
  <2>2. r \in Seq(A) /\ Len(r) = 6
    BY <2>1
  <2>3. /\ r[1] = a /\ r[2] = b /\ r[3] = c /\ r[4] = d /\ r[5] = e /\ r[6] = f
        /\ w[1] = a /\ w[2] = b /\ w[3] = c /\ w[4] = d /\ w[5] = e /\ w[6] = f
    OBVIOUS
  <2> HIDE DEF r, w
  <2>4. \A i \in 1 .. 6 : r[i] = w[i]
    BY <2>3
  <2>5. r = w
    <3> HIDE DEF A, p, q
    <3> QED BY <2>1, <2>2, <2>4, SameSeq
  <2> QED BY <2>5 DEF r, w
<1> QED BY <1>1, <1>2, <1>3, <1>4, <1>5, <1>6, <1>7

(* Tests between two jobs. *)
LEMMA Tests ==
    ASSUME NEW s, NEW mode, NEW sel
    PROVE  /\ Fair(s, N1072001(s, mode, sel), {}) /\ Fair(s, N1072000(s, mode, sel), {})
           /\ Fair(s, N1072004(s, mode, sel), {"token"})
           /\ Fair(s, N1072005(s, mode, sel), {"token"})
           /\ Fair(s, N2020008(s, mode, sel), {}) /\ Fair(s, N2081100(s, mode, sel), {})
           /\ Fair(s, N2081300(s, mode, sel), {}) /\ Fair(s, N2081400(s, mode, sel), {})
<1>0. \A w : AllTame(<<Say(w)>>, {}) /\ AllTame(<<Say(w), Dispose>>, {})
  BY TameLists, TameOps
<1>1. Fair(s, Inside(s, mode), {})
  <2> DEFINE in  == <<<<Say(More)>>, <<Say(NextPrev)>>, <<Say(NextPrev)>>, <<Say(YesNo)>>,
                      <<Say(More)>>, <<Go("test", {}), Dispose>>>>
             out == [i \in 1 .. 6 |-> <<Say(Ok), Dispose>>]
  <2>1. AllTame(<<Go("test", {}), Dispose>>, {})
    BY TameLists, TameOps, TameGifts
  <2>2. PagesTame(in, {})
    BY <1>0, <2>1, TamePages
  <2>4. PagesTame(out, {})
    BY <1>0 DEF PagesTame
  <2> HIDE DEF in, out
  <2>3. AllTame(BackAndForth(s, mode, IF Owns(s, "proof", 1) THEN in ELSE out), {})
    BY <2>2, <2>4, TameTalks
  <2> QED BY <2>3, FairTame DEF Inside, in, out
<1>2. Fair(s, N1072000(s, mode, sel), {})
  <2> DEFINE in  == <<<<Say(More)>>, <<Fail>>>>
             out == [i \in 1 .. 2 |-> <<Say(Ok), Dispose>>]
  <2>1. AllTame(<<Fail>>, {})
    BY TameLists, TameOps
  <2>2. PagesTame(in, {})
    BY <1>0, <2>1, TamePages
  <2>4. PagesTame(out, {})
    BY <1>0 DEF PagesTame
  <2> HIDE DEF in, out
  <2>3. AllTame(BackAndForth(s, mode, IF Owns(s, "token", 1) THEN in ELSE out), {})
    BY <2>2, <2>4, TameTalks
  <2> QED BY <1>1, <2>3, FairTame DEF N1072000, in, out
<1>3. Fair(s, OutOfTest(s, mode), {"token"})
  <2> DEFINE p == <<Go("town", {}), TakeAll("token")>>
             q == <<Take("proof", 1), Give("goods", 1, {"token", "proof"}), Dispose>>
  <2>1. AllTame(p, {"token"})
    BY TameLists, TameOps, TameGifts
  <2>2. ASSUME NEW u PROVE Fair(u, q, {"token"})
    <3>1. Fair(u, <<Take("proof", 1), Give("goods", 1, {"token", "proof"})>>, {"token"})
      BY FairDeals, SellsGifts
    <3> QED BY <3>1, FairLists, TameOps
  <2>3. Fair(s, p \o q, {"token"})
    <3> HIDE DEF p, q
    <3> QED BY <2>1, <2>2, TameThenFree
  <2>6. p \o q = <<Go("town", {}), TakeAll("token"), Take("proof", 1),
                   Give("goods", 1, {"token", "proof"}), Dispose>>
    BY Joined
  <2>5. Fair(s, <<Say(More)>>, {"token"}) /\ Fair(s, <<Say(Ok), Dispose>>, {"token"})
        /\ Fair(s, <<Dispose>>, {"token"})
    BY FairTame, TameLists, TameOps
  <2> QED BY <2>3, <2>5, <2>6 DEF OutOfTest
<1>4. Fair(s, FourthJob(s, mode), {}) /\ Fair(s, <<Fail>>, {})
  BY FairTame, TameLists, TameOps, TamePages, TameTalks DEF FourthJob
<1> QED BY <1>1, <1>2, <1>3, <1>4
        DEF N1072001, N1072004, N1072005, N2020008, N2081100, N2081300, N2081400

-----------------------------------------------------------------------------
(* A price of several wares, taken one after the other.  After the calls   *)
(* ks everything in P is paid, or the script was broken off; the purse is  *)
(* as full as before.                                                      *)
Payments(s, ks, P) ==
    /\ IsOps(ks)
    /\ \A u : u.has = s.has /\ Shaped(u) =>
         /\ Settled(u, RunScript(u, ks), {})
         /\ Covered(RunScript(u, ks), P)
PurseKept(s, ks) ==
    \A u : u.has = s.has /\ Shaped(u) => RunScript(u, ks).has["meso"] = s.has["meso"]

(* One effect more. *)
LEMMA RunMore ==
    ASSUME NEW s, NEW p, NEW k, IsOps(p)
    PROVE  IsOps(p \o <<k>>) /\ RunScript(s, p \o <<k>>) = Next1(RunScript(s, p), k)
<1> DEFINE q == <<k>>
<1>1. IsOps(q) /\ \A u : RunScript(u, q) = Next1(u, k)
  BY Lists, RunOne
<1> HIDE DEF q
<1>2. IsOps(p \o q) /\ RunScript(s, p \o q) = RunScript(RunScript(s, p), q)
  BY <1>1, Cat, RunCat
<1> QED BY <1>1, <1>2 DEF q

(* Nothing is a payment for nothing. *)
LEMMA PayNothing ==
    ASSUME NEW s
    PROVE  Payments(s, <<>>, {}) /\ PurseKept(s, <<>>)
BY Lists, RunOne DEF Payments, PurseKept, Settled, Covered

(* A payment and one more effect that covers Q pay for P and Q. *)
LEMMA PayStep ==
    ASSUME NEW s, NEW ks, NEW k, NEW P, NEW Q, Payments(s, ks, P),
           \A u : u.has = s.has /\ Shaped(u) =>
             /\ Settled(RunScript(u, ks), Next1(RunScript(u, ks), k), {})
             /\ Covered(Next1(RunScript(u, ks), k), Q)
    PROVE  Payments(s, ks \o <<k>>, P \cup Q)
<1>1. IsOps(ks)
  BY DEF Payments
<1>2. IsOps(ks \o <<k>>)
  BY <1>1, RunMore
<1>3. ASSUME NEW u, u.has = s.has, Shaped(u)
      PROVE  /\ Settled(u, RunScript(u, ks \o <<k>>), {})
             /\ Covered(RunScript(u, ks \o <<k>>), P \cup Q)
  <2> DEFINE v == RunScript(u, ks)
             r == Next1(v, k)
  <2>1. RunScript(u, ks \o <<k>>) = r
    BY <1>1, RunMore
  <2>2. Settled(u, v, {}) /\ Covered(v, P)
    BY <1>3 DEF Payments
  <2>3. Settled(v, r, {}) /\ Covered(r, Q)
    BY <1>3
  <2>4. Covered(r, P)
    <3>1. CASE v.halt # "no"
      BY <3>1 DEF Next1, Covered
    <3>2. CASE v.halt = "no"
      BY <2>2, <2>3, <3>2 DEF Settled, Covered
    <3> QED BY <3>1, <3>2
  <2> HIDE DEF v, r
  <2>5. Settled(u, r, {}) /\ Covered(r, P \cup Q)
    BY <2>2, <2>3, <2>4, SettledOn DEF Covered
  <2> QED BY <2>1, <2>5
<1> QED BY <1>2, <1>3 DEF Payments

(* The next effect takes a ware: it is paid, or the script is broken off;  *)
(* a ware is no mesos.                                                     *)
LEMMA PayWare ==
    ASSUME NEW s, NEW ks, NEW P, Payments(s, ks, P), NEW x, NEW n
    PROVE  /\ Payments(s, ks \o <<Take(x, n)>>, P \cup {x})
           /\ PurseKept(s, ks) /\ x # "meso" => PurseKept(s, ks \o <<Take(x, n)>>)
<1> DEFINE k == Take(x, n)
<1>1. k.op = "take" /\ k.ware = x
  BY DEF Take
<1> HIDE DEF k
<1>2. ASSUME NEW u, u.has = s.has, Shaped(u)
      PROVE  /\ Settled(RunScript(u, ks), Next1(RunScript(u, ks), k), {})
             /\ Covered(Next1(RunScript(u, ks), k), {x})
  <2> DEFINE v == RunScript(u, ks)
  <2>1. Shaped(v)
    BY <1>2 DEF Payments, Settled
  <2>3. Pays(v, k, x)
    BY <1>1 DEF Pays
  <2> HIDE DEF v
  <2>4. Covered(Next1(v, k), {x}) /\ Settled(v, Next1(v, k), {})
    BY <2>1, <2>3, Paying
  <2> QED BY <2>4 DEF v
<1>3. Payments(s, ks \o <<k>>, P \cup {x})
  BY <1>2, PayStep
<1>4. ASSUME PurseKept(s, ks), x # "meso" PROVE PurseKept(s, ks \o <<k>>)
  <2>1. ASSUME NEW u, u.has = s.has, Shaped(u)
        PROVE  RunScript(u, ks \o <<k>>).has["meso"] = s.has["meso"]
    <3> DEFINE v == RunScript(u, ks)
    <3>1. Shaped(v) /\ v.has["meso"] = s.has["meso"]
      BY <1>4, <2>1 DEF Payments, Settled, PurseKept
    <3>2. RunScript(u, ks \o <<k>>) = Next1(v, k)
      BY RunMore DEF Payments
    <3> HIDE DEF v
    <3> QED BY <1>1, <1>4, <3>1, <3>2, TakingKeepsPurse
  <2> QED BY <2>1 DEF PurseKept
<1> QED BY <1>3, <1>4 DEF k

(* The next effect takes the fee: it is paid if the purse, which nothing   *)
(* before has touched, has it.                                             *)
LEMMA PayFee ==
    ASSUME NEW s, NEW ks, NEW P, Payments(s, ks, P), NEW n
    PROVE  /\ PurseKept(s, ks) /\ Owns(s, "meso", n)
                => Payments(s, ks \o <<Pay(n)>>, P \cup {"meso"})
           /\ Payments(s, ks \o <<Pay(n)>>, P)
<1> DEFINE k == Pay(n)
<1>1. k.op = "pay" /\ k.n = n
  BY DEF Pay
<1> HIDE DEF k
<1>2. ASSUME PurseKept(s, ks), Owns(s, "meso", n)
      PROVE  Payments(s, ks \o <<k>>, P \cup {"meso"})
  <2>1. ASSUME NEW u, u.has = s.has, Shaped(u)
        PROVE  /\ Settled(RunScript(u, ks), Next1(RunScript(u, ks), k), {})
               /\ Covered(Next1(RunScript(u, ks), k), {"meso"})
    <3> DEFINE v == RunScript(u, ks)
    <3>1. Shaped(v)
      BY <2>1 DEF Payments, Settled
    <3>2. v.has["meso"] = s.has["meso"]
      BY <1>2, <2>1 DEF PurseKept
    <3> HIDE DEF v
    <3>3. Pays(v, k, "meso")
      BY <1>1, <1>2, <3>2 DEF Pays, Owns
    <3>4. Settled(v, Next1(v, k), {}) /\ Covered(Next1(v, k), {"meso"})
      BY <3>1, <3>3, Paying
    <3> QED BY <3>4 DEF v
  <2> QED BY <2>1, PayStep
<1>3. Payments(s, ks \o <<k>>, P)
  <2>1. ASSUME NEW u, u.has = s.has, Shaped(u)
        PROVE  /\ Settled(RunScript(u, ks), Next1(RunScript(u, ks), k), {})
               /\ Covered(Next1(RunScript(u, ks), k), {})
    <3> DEFINE v == RunScript(u, ks)
    <3>1. Shaped(v)
      BY <2>1 DEF Payments, Settled
    <3> HIDE DEF v
    <3>2. Settled(v, Next1(v, k), {})
      BY <1>1, <3>1, TameSettles DEF Tame, Plain
    <3>3. Covered(Next1(v, k), {})
      BY DEF Covered
    <3> QED BY <3>2, <3>3 DEF v
  <2>2. Payments(s, ks \o <<k>>, P \cup {})
    BY <2>1, PayStep
  <2>3. P \cup {} = P
    OBVIOUS
  <2> QED BY <2>2, <2>3
<1> QED BY <1>2, <1>3 DEF k

(* And what is given for it. *)
LEMMA PaidThenSold ==
    ASSUME NEW s, NEW ks, NEW P, NEW U, Payments(s, ks, P), NEW g, Sells(g, U \cup P)
    PROVE  Fair(s, ks \o <<g>>, U)
<1>1. IsOps(ks)
  BY DEF Payments
<1>2. IsOps(ks \o <<g>>)
  BY <1>1, RunMore
<1>3. ASSUME NEW u, u.has = s.has, Shaped(u) PROVE Settled(u, RunScript(u, ks \o <<g>>), U)
  <2> DEFINE v == RunScript(u, ks)
  <2>1. RunScript(u, ks \o <<g>>) = Next1(v, g)
    BY <1>1, RunMore
  <2>2. Settled(u, v, {}) /\ Covered(v, P)
    BY <1>3 DEF Payments
  <2> HIDE DEF v
  <2>3. Settled(v, Next1(v, g), U)
    BY <2>2, Selling DEF Settled
  <2>4. Settled(u, v, U)
    BY <2>2 DEF Settled
  <2>5. Settled(u, Next1(v, g), U)
    BY <2>3, <2>4, SettledOn
  <2> QED BY <2>1, <2>5 DEF v
<1> QED BY <1>2, <1>3 DEF Fair

-----------------------------------------------------------------------------
(* Sellers, alchemists and ushers.  First those who sell nothing, who hand *)
(* out what has no price, and who give before they look.                   *)
LEMMA SellsNothing ==
    ASSUME NEW s, NEW mode, NEW sel
    PROVE  /\ Fair(s, N2012000(s, mode, sel), {}) /\ Fair(s, N2082000(s, mode, sel), {})
           /\ Fair(s, N2040000(s, mode, sel), {}) /\ Fair(s, N2020005(s, mode, sel), {})
           /\ Fair(s, N2081000(s, mode, sel), {}) /\ Fair(s, N9120010(s, mode, sel), {})
           /\ Fair(s, N9201005(s, mode, sel), {}) /\ Fair(s, N9201006(s, mode, sel), {})
           /\ Fair(s, N9201007(s, mode, sel), {}) /\ Fair(s, N9201013(s, mode, sel), {})
           /\ Fair(s, N9201021(s, mode, sel), {}) /\ Fair(s, N9201022(s, mode, sel), {})
           /\ Fair(s, N9209000(s, mode, sel), {"ore", "extra"})
           /\ Fair(s, N9201014(s, mode, sel), {"ore", "extra"})
<1> USE FairTame, TameLists, TameOps, TameGifts, TamePages, TameTalks
<1>1. AllTame(N2012000(s, mode, sel), {})
  BY DEF N2012000
<1>2. AllTame(N2082000(s, mode, sel), {}) /\ AllTame(N2040000(s, mode, sel), {})
  BY DEF N2082000, N2040000, Ticket
<1>3. AllTame(N2020005(s, mode, sel), {})
  BY DEF N2020005
<1>4. AllTame(N2081000(s, mode, sel), {})
  BY DEF N2081000
<1>5. AllTame(N9120010(s, mode, sel), {})
  BY DEF N9120010
<1>6. AllTame(N9201005(s, mode, sel), {})
  BY DEF N9201005, Goodbye
<1>7. AllTame(N9201006(s, mode, sel), {})
  BY DEF N9201006, Goodbye
<1>8. AllTame(N9201007(s, mode, sel), {})
  BY DEF N9201007, Goodbye
<1>9. AllTame(N9201013(s, mode, sel), {})
  BY DEF N9201013
<1>10. AllTame(N9201021(s, mode, sel), {})
  BY DEF N9201021, Goodbye
<1>11. AllTame(N9201022(s, mode, sel), {})
  BY DEF N9201022
<1>12. AllTame(N9209000(s, mode, sel), {"ore", "extra"})
  <2>1. AllTame((IF s.g.pick = 0 /\ sel = 1 THEN <<Reward({"ore"}), Take("ore", 1)>> ELSE <<>>)
                \o <<Say(More), Dispose>>, {"ore", "extra"})
    OBVIOUS
  <2> QED BY <2>1 DEF N9209000, Turn
<1>13. AllTame(N9201014(s, mode, sel), {"ore", "extra"})
  BY DEF N9201014, Turn, Goodbye
<1> QED BY <1>1, <1>2, <1>3, <1>4, <1>5, <1>6, <1>7, <1>8, <1>9, <1>10, <1>11, <1>12, <1>13

(* Over the counter. *)
LEMMA Counters ==
    ASSUME NEW s, NEW mode, NEW sel
    PROVE  /\ Fair(s, N2102002(s, mode, sel), {}) /\ Fair(s, N1002100(s, mode, sel), {})
           /\ Fair(s, N1052006(s, mode, sel), {}) /\ Fair(s, N2032001(s, mode, sel), {})
           /\ Fair(s, N1012005(s, mode, sel), {}) /\ Fair(s, N9201049(s, mode, sel), {})
<1>0. /\ Fair(s, <<>>, {}) /\ Fair(s, <<Dispose>>, {}) /\ Fair(s, <<Fail>>, {})
      /\ \A w : Fair(s, <<Say(w)>>, {}) /\ Fair(s, <<Say(w), Dispose>>, {})
      /\ \A f, v, w : Fair(s, <<Note(f, v), Say(w)>>, {})
      /\ AllTame(<<Dispose>>, {})
      /\ \A w : AllTame(<<Say(w), Dispose>>, {})
  BY FairTame, TameLists, TameOps
<1>1. \A q : Sells(Sold(q), {} \cup {"meso"})
  BY SellsGifts DEF Sold
<1>2. \A q : Owns(s, "meso", q) => Fair(s, <<Pay(q), Sold(q)>>, {})
  BY <1>1, FairDeals
<1>3. ASSUME NEW ops, Owns(s, "meso", 1) => Fair(s, ops, {})
      PROVE  Fair(s, Counter(s, ops), {})
  <2> DEFINE deal == IF Owns(s, "meso", 1) /\ s.room THEN ops ELSE <<Say(Ok)>>
  <2>1. Fair(s, deal, {})
    BY <1>0, <1>3
  <2>2. Fair(s, deal \o <<Dispose>>, {})
    <3> HIDE DEF deal
    <3> QED BY <1>0, <2>1, FairThenTame
  <2> QED BY <2>2 DEF Counter
<1>4. Fair(s, N2102002(s, mode, sel), {})
  <2>1. Owns(s, "meso", 1) => Fair(s, <<Sold(1), Pay(1)>>, {})
    BY <1>1, FairDeals DEF Sold, Give
  <2>2. Fair(s, Counter(s, <<Sold(1), Pay(1)>>), {})
    BY <1>3, <2>1
  <2> QED BY <1>0, <2>2, FairPages, FairTalks DEF N2102002
<1>5. Fair(s, N1002100(s, mode, sel), {})
  <2> DEFINE deal == IF s.room THEN <<Pay(s.g.qty), Sold(s.g.qty)>> ELSE <<>>
             last == IF Owns(s, "meso", s.g.qty) THEN deal \o <<Say(More), Dispose>> ELSE <<Fail>>
             first == IF "a" \in s.ended THEN <<Say(More)>> ELSE <<Say(Ok), Dispose>>
             pages == <<first, <<Say(Menu({0, 1}))>>, <<Say(Number)>>,
                        <<Note("qty", sel), Say(YesNo)>>, last>>
  <2>1. ASSUME Owns(s, "meso", s.g.qty) PROVE Fair(s, deal \o <<Say(More), Dispose>>, {})
    <3>1. Fair(s, deal, {})
      BY <1>0, <1>2, <2>1
    <3> HIDE DEF deal
    <3> QED BY <1>0, <3>1, FairThenTame
  <2>2. Fair(s, last, {}) /\ Fair(s, first, {})
    <3> HIDE DEF deal
    <3> QED BY <1>0, <2>1
  <2>3. PagesFair(s, pages, {})
    <3> HIDE DEF first, last
    <3> QED BY <1>0, <2>2, FairPages
  <2>4. Fair(s, Forward(s, mode, pages), {})
    <3> HIDE DEF pages
    <3> QED BY <2>3, FairTalks
  <2> QED BY <2>4 DEF N1002100
<1>6. Fair(s, N1052006(s, mode, sel), {})
  <2> DEFINE deal == IF Owns(s, "meso", 1) THEN <<Pay(1), Sold(1)>> ELSE <<Say(Ok)>>
             menu == IF s.begun \cup s.ended = {} THEN <<Dispose>> ELSE <<Say(Menu({0, 1}))>>
  <2>1. Fair(s, deal, {}) /\ Fair(s, menu, {})
    BY <1>0, <1>2
  <2>2. Fair(s, deal \o <<Dispose>>, {})
    <3> HIDE DEF deal
    <3> QED BY <1>0, <2>1, FairThenTame
  <2>3. PagesFair(s, <<<<Say(More)>>, menu, deal \o <<Dispose>>>>, {})
    <3> HIDE DEF deal, menu
    <3> QED BY <1>0, <2>1, <2>2, FairPages
  <2> QED BY <2>3, FairTalks DEF N1052006
<1>7. Fair(s, N2032001(s, mode, sel), {})
  <2> DEFINE sold == <<Take("extra", sel), Pay(sel), Give("goods", sel, {"extra", "meso"})>>
             deal == IF Owns(s, "meso", sel) /\ Owns(s, "extra", sel) THEN sold ELSE <<>>
             first == IF "a" \in s.ended THEN <<Say(YesNo)>> ELSE <<Say(Ok), Dispose>>
  <2>1. ASSUME Owns(s, "meso", sel) PROVE Fair(s, sold, {})
    <3> DEFINE none == <<>>
               k1 == none \o <<Take("extra", sel)>>
               k2 == k1 \o <<Pay(sel)>>
               g == Give("goods", sel, {"extra", "meso"})
    <3>1. Payments(s, none, {}) /\ PurseKept(s, none)
      BY PayNothing
    <3> HIDE DEF none
    <3>2. Payments(s, k1, {} \cup {"extra"}) /\ PurseKept(s, k1)
      BY <3>1, PayWare
    <3> HIDE DEF k1
    <3>3. Payments(s, k2, ({} \cup {"extra"}) \cup {"meso"})
      BY <2>1, <3>2, PayFee
    <3>4. Sells(g, {} \cup (({} \cup {"extra"}) \cup {"meso"}))
      BY SellsGifts
    <3> HIDE DEF k2, g
    <3>5. Fair(s, k2 \o <<g>>, {})
      BY <3>3, <3>4, PaidThenSold
    <3>6. k2 \o <<g>> = sold
      <4>1. k1 = <<Take("extra", sel)>>
        BY DEF k1, none
      <4>2. k2 = <<Take("extra", sel), Pay(sel)>>
        BY <4>1, Joined DEF k2
      <4> QED BY <4>2, Joined DEF g
    <3> QED BY <3>5, <3>6
  <2>2. Fair(s, deal, {}) /\ Fair(s, first, {})
    <3> HIDE DEF sold
    <3> QED BY <1>0, <2>1
  <2>3. Fair(s, deal \o <<Say(Ok), Dispose>>, {})
    <3> HIDE DEF deal
    <3> QED BY <1>0, <2>2, FairThenTame
  <2>4. PagesFair(s, <<first, <<Say(Number)>>, deal \o <<Say(Ok), Dispose>>>>, {})
    <3> HIDE DEF deal, first
    <3> QED BY <1>0, <2>2, <2>3, FairPages
  <2> QED BY <2>4, FairTalks DEF N2032001
<1>8. Fair(s, N1012005(s, mode, sel), {})
  <2>1. \A v, st, w : Fair(s, <<Note("pick", v), Goto(st), Say(w)>>, {})
                      /\ Fair(s, <<Note("pick", v), Say(w), Dispose>>, {})
    BY FairTame, TameLists, TameOps
  <2>2. Fair(s, Counter(s, <<Pay(1), Sold(1)>>), {})
    BY <1>2, <1>3
  <2>3. Fair(s, (IF s.g.pick # 1 THEN <<Dispose>> ELSE <<>>) \o <<Say(NextPrev)>>, {})
    BY FairTame, TameLists, TameOps
  <2>4. Fair(s, <<Goto(-1), Say(More)>>, {})
    BY FairTame, TameLists, TameOps
  <2> QED BY <1>0, <2>1, <2>2, <2>3, <2>4, FairTurn, SMTT(60) DEF N1012005
<1>9. Fair(s, N9201049(s, mode, sel), {})
  <2> DEFINE deal == IF s.g.status = 20 THEN <<Take("goods", 1), Give("ore", 1, {"goods"})>> ELSE <<>>
  <2>1. Fair(s, <<Take("goods", 1), Give("ore", 1, {"goods"})>>, {})
    BY FairDeals, SellsGifts
  <2>2. Fair(s, deal, {}) /\ AllTame(<<Go("amoria", {}), Dispose>>, {})
    BY <1>0, <2>1, TameLists, TameOps, TameGifts
  <2>3. Fair(s, deal \o <<Go("amoria", {}), Dispose>>, {})
    <3> HIDE DEF deal
    <3> QED BY <2>2, FairThenTame
  <2>4. \A st : Fair(s, <<Goto(st), Say(More)>>, {})
    BY FairTame, TameLists, TameOps
  <2> QED BY <1>0, <2>3, <2>4, FairTurn DEF N9201049, Goodbye
<1> QED BY <1>4, <1>5, <1>6, <1>7, <1>8, <1>9

(* The same calls, put together from the other end. *)
LEMMA FairApart ==
    ASSUME NEW s, NEW p, NEW q, NEW r, NEW U, IsOps(p), IsOps(q), IsOps(r),
           Fair(s, (p \o q) \o r, U)
    PROVE  Fair(s, p \o (q \o r), U)
<1>1. IsOps(p \o q) /\ IsOps(q \o r)
  BY Cat
<1>2. IsOps(p \o (q \o r))
  BY <1>1, Cat
<1>3. ASSUME NEW u PROVE RunScript(u, (p \o q) \o r) = RunScript(u, p \o (q \o r))
  <2>1. RunScript(u, (p \o q) \o r) = RunScript(RunScript(RunScript(u, p), q), r)
    BY <1>1, RunCat
  <2>2. RunScript(u, p \o (q \o r)) = RunScript(RunScript(u, p), q \o r)
    BY <1>1, RunCat
  <2>3. RunScript(RunScript(u, p), q \o r) = RunScript(RunScript(RunScript(u, p), q), r)
    BY RunCat
  <2> QED BY <2>1, <2>2, <2>3
<1> QED BY <1>2, <1>3 DEF Fair

(* Those who make one thing out of several. *)
LEMMA Makers ==
    ASSUME NEW s, NEW mode, NEW sel
    PROVE  /\ Fair(s, N1032100(s, mode, sel), {"ore", "extra"})
           /\ Fair(s, N2040050(s, mode, sel), {})
<1>1. Fair(s, Rock(s), {"ore", "extra"})
  <2> DEFINE asked == IF s.g.pick = 1 THEN "extra" ELSE "ore"
             loop == CASE s.g.pick = 0 -> <<Take("ore", 1)>>
                       [] s.g.pick = 1 -> <<>>
                       [] s.g.pick = 2 -> <<Take("stray", 1)>>
             g == Give("goods", 1, {asked, "meso"})
  <2>1. Fair(s, <<Dispose>>, {"ore", "extra"}) /\ Fair(s, <<Say(More), Dispose>>, {"ore", "extra"})
    BY FairTame, TameLists, TameOps
  <2>2. ASSUME s.g.pick \in 0 .. 2, Owns(s, "meso", 1)
        PROVE  Fair(s, <<Pay(1)>> \o loop \o <<g, Say(More), Dispose>>, {"ore", "extra"})
    <3> DEFINE none == <<>>
               fee == none \o <<Pay(1)>>
               end == <<Say(More), Dispose>>
    <3>1. Payments(s, none, {}) /\ PurseKept(s, none)
      BY PayNothing
    <3> HIDE DEF none
    <3>2. Payments(s, fee, {} \cup {"meso"})
      BY <2>2, <3>1, PayFee
    <3>3. fee = <<Pay(1)>>
      BY DEF none
    <3> HIDE DEF fee
    <3>4. \E P : "meso" \in P /\ Payments(s, fee \o loop, P)
      <4>1. s.g.pick = 0 \/ s.g.pick = 1 \/ s.g.pick = 2
        BY <2>2
      <4>2. CASE s.g.pick = 0
        <5>1. loop = <<Take("ore", 1)>>
          BY <4>2
        <5>2. Payments(s, fee \o <<Take("ore", 1)>>, ({} \cup {"meso"}) \cup {"ore"})
          BY <3>2, PayWare
        <5> HIDE DEF loop
        <5> QED BY <5>1, <5>2
      <4>3. CASE s.g.pick = 1
        <5>1. fee \o loop = fee
          BY <3>3, <4>3
        <5> HIDE DEF loop
        <5> QED BY <3>2, <5>1
      <4>4. CASE s.g.pick = 2
        <5>1. loop = <<Take("stray", 1)>>
          BY <4>4
        <5>2. Payments(s, fee \o <<Take("stray", 1)>>, ({} \cup {"meso"}) \cup {"stray"})
          BY <3>2, PayWare
        <5> HIDE DEF loop
        <5> QED BY <5>1, <5>2
      <4> QED BY <4>1, <4>2, <4>3, <4>4
    <3>5. PICK P : "meso" \in P /\ Payments(s, fee \o loop, P)
      BY <3>4
    <3> HIDE DEF loop
    <3>6. Sells(g, {"ore", "extra"} \cup P)
      BY <3>5, SellsGifts
    <3> HIDE DEF g
    <3>7. Fair(s, (fee \o loop) \o <<g>>, {"ore", "extra"}) /\ AllTame(end, {"ore", "extra"})
      BY <3>5, <3>6, PaidThenSold, TameLists, TameOps
    <3>8. <<g>> \o end = <<g, Say(More), Dispose>>
      BY Joined
    <3> HIDE DEF end
    <3>9. Fair(s, ((fee \o loop) \o <<g>>) \o end, {"ore", "extra"})
      BY <3>7, FairThenTame
    <3>10. Fair(s, (fee \o loop) \o (<<g>> \o end), {"ore", "extra"})
      BY <3>5, <3>7, <3>9, FairApart, Lists DEF Payments, AllTame
    <3> QED BY <3>3, <3>8, <3>10
  <2> QED BY <2>1, <2>2 DEF Rock
<1>2. Fair(s, N1032100(s, mode, sel), {"ore", "extra"})
  <2>1. /\ \A w : Fair(s, <<Say(w)>>, {"ore", "extra"}) /\ Fair(s, <<Say(w), Dispose>>, {"ore", "extra"})
        /\ \A f, v, w : Fair(s, <<Note(f, v), Say(w)>>, {"ore", "extra"})
    BY FairTame, TameLists, TameOps
  <2> DEFINE first == IF s.level > 0 THEN <<Say(More)>> ELSE <<Say(Ok), Dispose>>
  <2>2. Fair(s, first, {"ore", "extra"})
    BY <2>1
  <2>3. PagesFair(s, <<first, <<Say(Menu(0 .. 2))>>, <<Note("pick", sel), Say(YesNo)>>, Rock(s)>>,
                  {"ore", "extra"})
    <3> HIDE DEF first
    <3> QED BY <1>1, <2>1, <2>2, FairPages
  <2> QED BY <2>1, <2>3, FairTalks DEF N1032100
<1>3. Fair(s, N2040050(s, mode, sel), {})
  <2>0. /\ \A w : Fair(s, <<Say(w)>>, {}) /\ Fair(s, <<Say(w), Dispose>>, {})
        /\ \A w : Fair(s, <<Say(w), Dispose, Fail>>, {})
    BY FairTame, TameLists, TameOps
  <2> DEFINE g == Give("goods", 1, {"extra", "ore", "meso"})
             sold == <<Say(Ok), Take("extra", 1), Take("ore", 1), Pay(1), g, Dispose>>
             last == IF Owns(s, "extra", 1) /\ Owns(s, "ore", 1) /\ s.room /\ Owns(s, "meso", 1)
                       THEN sold ELSE <<Say(More), Dispose>>
  <2>1. ASSUME Owns(s, "meso", 1) PROVE Fair(s, sold, {})
    <3> DEFINE none == <<>>
               k1 == none \o <<Take("extra", 1)>>
               k2 == k1 \o <<Take("ore", 1)>>
               k3 == k2 \o <<Pay(1)>>
               k4 == k3 \o <<g>>
               end == <<Dispose>>
               P1 == {} \cup {"extra"}
               P2 == P1 \cup {"ore"}
               P3 == P2 \cup {"meso"}
    <3>a. /\ k3 = <<Take("extra", 1), Take("ore", 1), Pay(1)>>
          /\ k4 = <<Take("extra", 1), Take("ore", 1), Pay(1), g>>
          /\ k4 \o end = <<Take("extra", 1), Take("ore", 1), Pay(1), g, Dispose>>
      <4> HIDE DEF g
      <4>1. k1 = <<Take("extra", 1)>>
        OBVIOUS
      <4> HIDE DEF k1
      <4>2. k2 = <<Take("extra", 1), Take("ore", 1)>>
        BY <4>1, Joined
      <4> HIDE DEF k2
      <4>3. k3 = <<Take("extra", 1), Take("ore", 1), Pay(1)>>
        BY <4>2, Joined
      <4> HIDE DEF k3
      <4>4. k4 = <<Take("extra", 1), Take("ore", 1), Pay(1), g>>
        BY <4>3, Joined
      <4> HIDE DEF k4
      <4> QED BY <4>3, <4>4, Joined
    <3>1. Payments(s, none, {}) /\ PurseKept(s, none)
      BY PayNothing
    <3> HIDE DEF none
    <3>2. Payments(s, k1, P1) /\ PurseKept(s, k1)
      BY <3>1, PayWare
    <3> HIDE DEF k1, P1
    <3>3. Payments(s, k2, P2) /\ PurseKept(s, k2)
      BY <3>2, PayWare
    <3> HIDE DEF k2, P2
    <3>4. Payments(s, k3, P3)
      BY <2>1, <3>3, PayFee
    <3>5. Sells(g, {} \cup P3)
      BY SellsGifts DEF P2, P1
    <3> HIDE DEF k3, g, P3
    <3>6. Fair(s, k4, {}) /\ AllTame(end, {})
      BY <3>4, <3>5, PaidThenSold, TameLists, TameOps
    <3> HIDE DEF k4, end
    <3>7. Fair(s, k4 \o end, {})
      BY <3>6, FairThenTame
    <3>8. Talk1Op(Say(Ok))
      BY DEF Talk1Op, Say
    <3>9. Fair(s, <<Say(Ok)>> \o (k4 \o end), {})
      BY <3>7, <3>8, TalkThenFair
    <3>10. <<Say(Ok)>> \o <<Take("extra", 1), Take("ore", 1), Pay(1), g, Dispose>> = sold
      BY Joined
    <3> HIDE DEF sold
    <3> QED BY <3>a, <3>9, <3>10
  <2>2. Fair(s, last, {})
    <3> HIDE DEF sold
    <3> QED BY <2>0, <2>1
  <2>3. PagesFair(s, <<<<Say(Menu({0, 1}))>>, <<Say(Menu(0 .. 4))>>, <<Say(YesNo)>>, last>>, {})
    <3> HIDE DEF last
    <3> QED BY <2>0, <2>2, FairPages
  <2> QED BY <2>0, <2>3, FairTalks DEF N2040050
<1> QED BY <1>2, <1>3

(* The quiz: the chickens are taken on its second page, the marble given   *)
(* on its last.                                                            *)
LEMMA TameRow ==
    ASSUME NEW p, NEW q, NEW U, IsOps(p), IsOps(q), PagesTame(p, U), PagesTame(q, U)
    PROVE  IsOps(p \o q) /\ PagesTame(p \o q, U)
<1>1. /\ IsOps(p \o q)
      /\ Len(p) \in Nat /\ Len(q) \in Nat /\ Len(p \o q) = Len(p) + Len(q)
      /\ \A i \in 1 .. Len(p) : (p \o q)[i] = p[i]
      /\ \A i \in 1 .. Len(q) : (p \o q)[Len(p) + i] = q[i]
  BY Cat
<1>2. \A l : IsOps(l) => DOMAIN l = 1 .. Len(l)
  BY DEF IsOps
<1>3. ASSUME NEW k \in DOMAIN (p \o q) PROVE AllTame((p \o q)[k], U)
  <2>1. k \in 1 .. Len(p) + Len(q)
    BY <1>1, <1>2
  <2>2. CASE k <= Len(p)
    BY <1>1, <1>2, <2>1, <2>2 DEF PagesTame
  <2>3. CASE k > Len(p)
    <3>1. k - Len(p) \in 1 .. Len(q) /\ k = Len(p) + (k - Len(p))
      BY <1>1, <2>1, <2>3
    <3> QED BY <1>1, <1>2, <3>1 DEF PagesTame
  <2> QED BY <1>1, <2>1, <2>2, <2>3
<1> QED BY <1>1, <1>3 DEF PagesTame

(* Its answers, with the first two pages of the row. *)
QuizHas(s, mode, sel, pages) ==
    /\ PagesTame(pages, {"extra"}) /\ {1, 2} \subseteq DOMAIN pages
    /\ pages[1] = <<Say(YesNo)>> /\ pages[2] = <<Take("extra", 1), Say(More)>>
    /\ N9120013(s, mode, sel) =
         CASE mode = 0 -> Turn(s.g.status - 1, <<>>)
           [] mode = Opening /\ ~("a" \in s.begun /\ ~Owns(s, "proof", 1)) -> <<Dispose>>
           [] mode = 1 /\ s.g.status = 0 /\ ~Owns(s, "extra", 1) -> <<Say(More), Dispose>>
           [] mode = 1 /\ s.g.status \in 2 .. 6 /\ sel # 0 -> <<Say(More), Dispose>>
           [] OTHER -> Forward(s, mode, pages)

LEMMA QuizIs ==
    ASSUME NEW s, NEW mode, NEW sel
    PROVE  \E pages : QuizHas(s, mode, sel, pages)
<1> DEFINE a == <<<<Say(YesNo)>>, <<Take("extra", 1), Say(More)>>>>
           b == [i \in 1 .. 5 |-> <<Say(Menu({0, 1}))>>]
           c == <<<<Say(More)>>, <<Give("proof", 1, {"extra"}), Say(Ok), Dispose>>>>
           pages == a \o b \o c
           wrong == <<Say(More), Dispose>>
<1>0. \A U : /\ AllTame(<<Say(YesNo)>>, U) /\ AllTame(<<Take("extra", 1), Say(More)>>, U)
             /\ AllTame(<<Say(More)>>, U) /\ AllTame(<<Say(Menu({0, 1}))>>, U)
  BY TameLists, TameOps
<1>1. AllTame(<<Give("proof", 1, {"extra"}), Say(Ok), Dispose>>, {"extra"})
  BY TameLists, TameOps, TameGifts
<1>2. PagesTame(a, {"extra"}) /\ PagesTame(c, {"extra"}) /\ IsOps(a) /\ IsOps(c)
  BY <1>0, <1>1, TamePages, Lists
<1>3. PagesTame(b, {"extra"})
  BY <1>0 DEF PagesTame
<1>4. IsOps(b)
  <2>1. b \in Seq({<<Say(Menu({0, 1}))>>})
    OBVIOUS
  <2> QED BY <2>1 DEF IsOps
<1>5. Len(a) = 2 /\ a[1] = <<Say(YesNo)>> /\ a[2] = <<Take("extra", 1), Say(More)>>
  OBVIOUS
<1> HIDE DEF a, b, c
<1>6. PagesTame(pages, {"extra"}) /\ IsOps(pages) /\ IsOps(a \o b)
  <2>1. IsOps(a \o b) /\ PagesTame(a \o b, {"extra"})
    BY <1>2, <1>3, <1>4, TameRow
  <2> QED BY <1>2, <2>1, TameRow
<1>7. pages[1] = a[1] /\ pages[2] = a[2]
  <2>1. /\ Len(a \o b) = 2 + Len(b) /\ Len(b) \in Nat
        /\ (a \o b)[1] = a[1] /\ (a \o b)[2] = a[2]
    <3>1. /\ Len(b) \in Nat /\ Len(a \o b) = Len(a) + Len(b)
          /\ \A i \in 1 .. Len(a) : (a \o b)[i] = a[i]
      BY <1>2, <1>4, Cat
    <3> QED BY <1>5, <3>1
  <2>2. \A i \in 1 .. Len(a \o b) : pages[i] = (a \o b)[i]
    BY <1>2, <1>6, Cat
  <2> QED BY <2>1, <2>2
<1>8. {1, 2} \subseteq DOMAIN pages
  <2>1. Len(pages) \in Nat /\ DOMAIN pages = 1 .. Len(pages)
    BY <1>6 DEF IsOps
  <2>2. Len(a \o b) = Len(a) + Len(b) /\ Len(b) \in Nat
    BY <1>2, <1>4, Cat
  <2>3. Len(pages) = Len(a \o b) + Len(c) /\ Len(c) \in Nat
    BY <1>2, <1>6, Cat
  <2> QED BY <1>5, <2>1, <2>2, <2>3
<1> HIDE DEF pages, wrong
<1>9. N9120013(s, mode, sel) =
        CASE mode = 0 -> Turn(s.g.status - 1, <<>>)
          [] mode = Opening /\ ~("a" \in s.begun /\ ~Owns(s, "proof", 1)) -> <<Dispose>>
          [] mode = 1 /\ s.g.status = 0 /\ ~Owns(s, "extra", 1) -> wrong
          [] mode = 1 /\ s.g.status \in 2 .. 6 /\ sel # 0 -> wrong
          [] OTHER -> Forward(s, mode, pages)
  BY DEF N9120013, pages, a, b, c, wrong
<1> WITNESS pages
<1>10. pages[1] = <<Say(YesNo)>> /\ pages[2] = <<Take("extra", 1), Say(More)>>
  BY <1>5, <1>7
<1> QED BY <1>6, <1>8, <1>9, <1>10 DEF wrong, QuizHas

(* Only the last page gives at the expense of chickens that an earlier one *)
(* has taken: the first two leave nothing unpaid.                          *)
LEMMA Quiz ==
    ASSUME NEW s, NEW mode, NEW sel
    PROVE  /\ Fair(s, N9120013(s, mode, sel), {"extra"})
           /\ mode = Opening \/ s.g.status = 0 => Fair(s, N9120013(s, mode, sel), {})
<1> DEFINE wrong == <<Say(More), Dispose>>
<1>0. PICK pages : QuizHas(s, mode, sel, pages)
  BY QuizIs
<1>1. /\ PagesTame(pages, {"extra"})
      /\ pages[1] = <<Say(YesNo)>> /\ pages[2] = <<Take("extra", 1), Say(More)>>
      /\ N9120013(s, mode, sel) =
           CASE mode = 0 -> Turn(s.g.status - 1, <<>>)
             [] mode = Opening /\ ~("a" \in s.begun /\ ~Owns(s, "proof", 1)) -> <<Dispose>>
             [] mode = 1 /\ s.g.status = 0 /\ ~Owns(s, "extra", 1) -> wrong
             [] mode = 1 /\ s.g.status \in 2 .. 6 /\ sel # 0 -> wrong
             [] OTHER -> Forward(s, mode, pages)
  BY <1>0 DEF QuizHas
<1>2. \A U : /\ AllTame(<<Say(YesNo)>>, U) /\ AllTame(<<Take("extra", 1), Say(More)>>, U)
             /\ AllTame(wrong, U) /\ AllTame(<<Dispose>>, U) /\ AllTame(<<>>, U)
  BY TameLists, TameOps
<1> HIDE DEF wrong
<1>9. \A U : AllTame(Turn(s.g.status - 1, <<>>), U)
  BY <1>2, TameLists, TameOps DEF Turn
<1>10. AllTame(N9120013(s, mode, sel), {"extra"})
  <2>1. AllTame(Forward(s, mode, pages), {"extra"})
    BY <1>1, TameTalks
  <2> QED BY <1>2, <1>1, <1>9, <2>1
<1>11. ASSUME mode = Opening \/ s.g.status = 0 PROVE AllTame(N9120013(s, mode, sel), {})
  <2>1. AllTame(Page(pages, 0), {}) /\ AllTame(Page(pages, 1), {})
    <3>1. \A st, ops : AllTame(ops, {}) => AllTame(Turn(st, ops), {})
      BY TameLists, TameOps DEF Turn
    <3>2. AllTame(pages[1], {}) /\ AllTame(pages[2], {})
      BY <1>1, <1>2
    <3>3. Page(pages, 0) = Turn(0, IF 1 \in DOMAIN pages THEN pages[1] ELSE <<>>)
      BY DEF Page
    <3>4. Page(pages, 1) = Turn(1, IF 2 \in DOMAIN pages THEN pages[2] ELSE <<>>)
      BY DEF Page
    <3> QED BY <1>2, <3>1, <3>2, <3>3, <3>4
  <2>2. AllTame(Forward(s, mode, pages), {})
    <3>1. CASE mode = Opening
      BY <1>2, <2>1, <3>1 DEF Forward
    <3>2. CASE mode # Opening
      <4>1. s.g.status + 1 = 1
        BY <1>11, <3>2
      <4> QED BY <1>2, <2>1, <3>2, <4>1 DEF Forward
    <3> QED BY <3>1, <3>2
  <2> QED BY <1>2, <1>1, <1>9, <2>2
<1> QED BY <1>10, <1>11, FairTame

-----------------------------------------------------------------------------
(* Salons. *)
LEMMA SalonsFair ==
    ASSUME NEW m, NEW s, NEW mode, NEW sel
    PROVE  Fair(s, SalonStart(m), {}) /\ Fair(s, SalonPage(m, s, mode, sel), {})
<1>0. /\ Fair(s, <<>>, {}) /\ Fair(s, <<Dispose>>, {}) /\ AllTame(<<>>, {}) /\ AllTame(<<Dispose>>, {})
      /\ \A w : Fair(s, <<Say(w)>>, {}) /\ Fair(s, <<Say(w), Dispose>>, {})
      /\ \A w : AllTame(<<Say(w)>>, {}) /\ AllTame(<<Say(w), Dispose>>, {})
      /\ \A f, v, w : Fair(s, <<Note(f, v), Say(w)>>, {})
  BY FairTame, TameLists, TameOps
<1>1. Fair(s, SalonMenu(m), {}) /\ Fair(s, SalonStart(m), {})
  <2>1. AllTame(SalonMenu(m), {})
    BY <1>0 DEF SalonMenu
  <2>2. AllTame(SalonStart(m), {})
    BY <1>0, <2>1, TameLists, TameOps DEF SalonStart
  <2> QED BY <2>1, <2>2, FairTame
<1>2. \A c : Owns(s, "meso", 1) => Fair(s, Sale(c), {})
  BY FairDeals, SellsGifts DEF Sale
<1>3. \A o : AllTame(End(m, o), {})
  BY <1>0 DEF End
<1>4. Fair(s, SalonFirstPage(m, s, sel), {})
  <2> DEFINE e == m.menu[sel]
             deal == IF Owns(s, "meso", 1) THEN Sale(e.sells) ELSE <<>>
  <2>1. Fair(s, deal, {})
    <3> HIDE DEF e
    <3> QED BY <1>0, <1>2
  <2>2. Fair(s, deal \o <<Say(Ok), Dispose>>, {})
    <3> HIDE DEF deal
    <3> QED BY <1>0, <2>1, FairThenTame
  <2> QED BY <1>0, <2>2 DEF SalonFirstPage
<1>5. Fair(s, SalonSecondPage(m, s, sel), {})
  <2> DEFINE e == m.menu[s.g.pick]
             worn == <<Take(e.coupon, 1), Wear(e.look, {e.coupon}), Say(Ok)>>
             c == e.sells[sel + 1]
  <2>1. Fair(s, worn \o End(m, "worn"), {})
    <3>1. Fair(s, <<Take(e.coupon, 1), Wear(e.look, {e.coupon})>>, {})
      <4> HIDE DEF e
      <4> QED BY FairDeals, SellsGifts
    <3>2. Fair(s, worn, {})
      <4> HIDE DEF e
      <4> QED BY <3>1, FairLists, TameOps
    <3> HIDE DEF worn
    <3> QED BY <1>3, <3>2, FairThenTame
  <2>2. Owns(s, "meso", 1) => Fair(s, Sale(c) \o <<Say(Ok)>> \o End(m, "sold"), {})
    <3> HIDE DEF e, c
    <3>1. ASSUME Owns(s, "meso", 1) PROVE Fair(s, Sale(c) \o <<Say(Ok)>> \o End(m, "sold"), {})
      <4>1. Fair(s, Sale(c) \o <<Say(Ok)>>, {})
        BY <1>0, <1>2, <3>1, FairThenTame
      <4> DEFINE p == Sale(c) \o <<Say(Ok)>>
      <4>2. Fair(s, p, {})
        BY <4>1
      <4> HIDE DEF p
      <4>3. Fair(s, p \o End(m, "sold"), {})
        BY <1>3, <4>2, FairThenTame
      <4> QED BY <4>3 DEF p
    <3> QED BY <3>1
  <2>3. Fair(s, <<Say(Ok)>> \o End(m, "unsold"), {})
    BY <1>0, <1>3, TameLists, FairTame
  <2> QED BY <1>0, <2>1, <2>2, <2>3 DEF SalonSecondPage
<1>6. Fair(s, SalonPage(m, s, mode, sel), {})
  BY <1>0, <1>1, <1>4, <1>5, FairTurn DEF SalonPage, Turn
<1> QED BY <1>1, <1>6

(* Salons with pages of their own. *)
LEMMA OwnSalonsFair ==
    ASSUME NEW s, NEW mode, NEW sel
    PROVE  /\ Fair(s, N1012105Start, {}) /\ Fair(s, N9201039Start(s), {})
           /\ Fair(s, N9270023Start, {}) /\ Fair(s, N9270024Start, {})
           /\ Fair(s, N9270025Start, {}) /\ Fair(s, N9270026Start, {})
           /\ Fair(s, N9270037Start, {}) /\ Fair(s, N9900000Start, {})
           /\ Fair(s, N9201039(s, mode), {}) /\ Fair(s, N9270023, {})
           /\ Fair(s, N9270025(s, mode, sel), {}) /\ Fair(s, N9270026(s, mode, sel), {})
           /\ Fair(s, N9270037(s, mode, sel), {}) /\ Fair(s, N9900000(s, mode, sel), {})
<1>0. /\ Fair(s, <<>>, {}) /\ Fair(s, <<Dispose>>, {}) /\ Fair(s, <<Fail>>, {}) /\ Fair(s, <<Hang>>, {})
      /\ \A w : Fair(s, <<Say(w)>>, {}) /\ Fair(s, <<Say(w), Dispose>>, {})
      /\ \A st, w : Fair(s, <<Goto(st), Say(w)>>, {})
      /\ \A st, f, v, w : Fair(s, <<Goto(st), Note(f, v), Say(w)>>, {})
      /\ \A l : Fair(s, <<Wear(l, {}), Dispose>>, {})
      /\ \A j : Fair(s, <<Become(j, {}), Dispose>>, {})
  BY FairTame, TameLists, TameOps, TameGifts
<1>1. /\ Fair(s, N1012105Start, {}) /\ Fair(s, N9201039Start(s), {})
      /\ Fair(s, N9270023Start, {}) /\ Fair(s, N9270024Start, {})
      /\ Fair(s, N9270025Start, {}) /\ Fair(s, N9270026Start, {})
      /\ Fair(s, N9270037Start, {}) /\ Fair(s, N9900000Start, {})
  BY <1>0 DEF N1012105Start, N9201039Start, N9270023Start, N9270024Start, N9270025Start,
     N9270026Start, N9270037Start, N9900000Start
<1>2. \A c, l : Fair(s, <<Take(c, 1), Wear(l, {c})>>, {})
  BY FairDeals, SellsGifts
<1>3. \A c, l, w : Fair(s, <<Take(c, 1), Wear(l, {c}), Say(w), Dispose>>, {})
  BY <1>2, FairLists, TameOps
<1>4. Fair(s, N9201039(s, mode), {}) /\ Fair(s, N9270023, {})
  BY <1>0, <1>3 DEF N9201039, N9270023
<1>5. Fair(s, N9270025(s, mode, sel), {})
  BY <1>0, <1>3 DEF N9270025
<1>6. Fair(s, N9270026(s, mode, sel), {})
  BY <1>0, <1>3 DEF N9270026
<1>7. Fair(s, N9270037(s, mode, sel), {})
  <2> DEFINE deal == IF Owns(s, "special", 1)
                       THEN <<Take("special", 1), Wear("drawn", {"special"})>> ELSE <<>>
  <2>1. Fair(s, deal, {}) /\ AllTame(<<Say(Ok), Dispose>>, {})
    BY <1>0, <1>2, TameLists, TameOps
  <2>2. Fair(s, deal \o <<Say(Ok), Dispose>>, {})
    <3> HIDE DEF deal
    <3> QED BY <2>1, FairThenTame
  <2> QED BY <1>0, <2>2 DEF N9270037
<1>8. Fair(s, N9900000(s, mode, sel), {})
  BY <1>0 DEF N9900000
<1> QED BY <1>1, <1>4, <1>5, <1>6, <1>7, <1>8

-----------------------------------------------------------------------------
(* Gachapons. *)
LEMMA GachaponsFair ==
    ASSUME NEW town, NEW s, NEW mode, NEW sel
    PROVE  Fair(s, GachaponStart(town, s), {}) /\ Fair(s, GachaponPage(town, s, mode, sel), {})
<1>0. /\ Fair(s, <<>>, {}) /\ AllTame(<<Dispose>>, {}) /\ AllTame(<<Say(More)>>, {})
      /\ AllTame(Announce(town, s), {})
      /\ \A w : Fair(s, <<Say(w)>>, {}) /\ Fair(s, <<Say(w), Dispose>>, {})
  BY FairTame, TameLists, TameOps DEF Announce
<1>1. ASSUME NEW deal, Fair(s, deal, {})
      PROVE  Fair(s, deal \o <<Say(More)>> \o Announce(town, s) \o <<Dispose>>, {})
  <2> DEFINE d1 == deal \o <<Say(More)>>
             d2 == d1 \o Announce(town, s)
  <2>1. Fair(s, d1, {})
    BY <1>0, <1>1, FairThenTame
  <2> HIDE DEF d1
  <2>2. Fair(s, d2, {})
    BY <1>0, <2>1, FairThenTame
  <2> HIDE DEF d2
  <2>3. Fair(s, d2 \o <<Dispose>>, {})
    BY <1>0, <2>2, FairThenTame
  <2> QED BY <2>3 DEF d1, d2
<1>2. ASSUME Owns(s, "ticket", 1)
      PROVE  Fair(s, processGachapon(town, s, FALSE) \o <<Dispose>>, {})
  <2> DEFINE g == Give("goods", 1, {"ticket"})
  <2>1. Fair(s, <<g, Take("ticket", 1)>>, {})
    <3>1. Sells(g, {} \cup {"ticket"}) /\ (g.op = "give" => g.ware # "ticket")
      BY SellsGifts DEF Give
    <3> HIDE DEF g
    <3> QED BY <1>2, <3>1, FairDeals
  <2>2. <<g>> \o <<Take("ticket", 1)>> = <<g, Take("ticket", 1)>>
    <3> HIDE DEF g
    <3> QED BY Joined
  <2> DEFINE deal == <<g>> \o <<Take("ticket", 1)>>
  <2>3. Fair(s, deal, {})
    BY <2>1, <2>2
  <2> HIDE DEF deal
  <2>4. Fair(s, deal \o <<Say(More)>> \o Announce(town, s) \o <<Dispose>>, {})
    BY <1>1, <2>3
  <2> QED BY <2>4 DEF processGachapon, deal
<1>3. Fair(s, <<Take("remote", 1)>> \o processGachapon(town, s, TRUE) \o <<Dispose>>, {})
  <2> DEFINE g == Give("goods", 1, {"remote"})
             p == <<Take("remote", 1)>>
             rest == <<Say(More)>> \o Announce(town, s)
  <2>1. processGachapon(town, s, TRUE) = ((<<g>> \o <<>>) \o <<Say(More)>>) \o Announce(town, s)
    BY DEF processGachapon
  <2>2. <<g>> \o <<>> = <<g>>
    OBVIOUS
  <2>3. Fair(s, p \o <<g>>, {})
    <3>1. Fair(s, <<Take("remote", 1), g>>, {})
      BY FairDeals, SellsGifts
    <3> HIDE DEF g
    <3>2. p \o <<g>> = <<Take("remote", 1), g>>
      BY Joined
    <3> QED BY <3>1, <3>2
  <2>4. IsOps(p) /\ IsOps(<<g>>) /\ IsOps(<<Say(More)>>) /\ IsOps(Announce(town, s))
    <3> HIDE DEF g
    <3> QED BY <1>0, Lists DEF AllTame
  <2> HIDE DEF p, g
  <2>5. Fair(s, (p \o <<g>>) \o <<Say(More)>>, {})
    BY <1>0, <2>3, FairThenTame
  <2>6. Fair(s, p \o (<<g>> \o <<Say(More)>>), {})
    BY <2>4, <2>5, FairApart
  <2>7. Fair(s, (p \o (<<g>> \o <<Say(More)>>)) \o Announce(town, s), {})
    BY <1>0, <2>6, FairThenTame
  <2>8. IsOps(<<g>> \o <<Say(More)>>)
    BY <2>4, Cat
  <2>9. Fair(s, p \o ((<<g>> \o <<Say(More)>>) \o Announce(town, s)), {})
    BY <2>4, <2>7, <2>8, FairApart
  <2>10. Fair(s, p \o processGachapon(town, s, TRUE), {})
    BY <2>1, <2>2, <2>9
  <2>11. Fair(s, (p \o processGachapon(town, s, TRUE)) \o <<Dispose>>, {})
    BY <1>0, <2>10, FairThenTame
  <2> QED BY <2>11 DEF p
<1>4. Fair(s, GachaponStart(town, s), {})
  BY <1>0, <1>3 DEF GachaponStart
<1>5. Fair(s, GachaponPage(town, s, mode, sel), {})
  BY <1>0, <1>2, FairTurn DEF GachaponPage, Turn
<1> QED BY <1>4, <1>5

-----------------------------------------------------------------------------
(* What a script pays is nobody's debt. *)
LEMMA FairPayments ==
    ASSUME NEW s, NEW ks, NEW P, NEW U, Payments(s, ks, P)
    PROVE  Fair(s, ks, U)
BY DEF Payments, Fair, Settled

(* Smiths.  The materials of a recipe are taken one after the other.       *)
Shapes == {Bare, Bulk, Ones, Mixed}
Parts(r) == {r.parts[i] : i \in DOMAIN r.parts}

(* One kind of material or both. *)
LEMMA MaterialsAre ==
    ASSUME NEW q, NEW r \in Shapes
    PROVE  \/ \E x \in {"ore", "extra"} : Materials(r, q) = <<Take(x, q)>> /\ Parts(r) = {x}
           \/ /\ Materials(r, q) = <<Take("ore", q)>> \o <<Take("extra", q)>>
              /\ Parts(r) = {"ore"} \cup {"extra"}
<1>1. ASSUME NEW x \in {"ore", "extra"}, r.parts = <<x>>
      PROVE  Materials(r, q) = <<Take(x, q)>> /\ Parts(r) = {x}
  <2>1. Materials(r, q) = <<Take(x, q)>>
    <3> DEFINE p == r.parts
    <3>1. DOMAIN p = 1 .. 1 /\ p[1] = x
      BY <1>1
    <3>2. Materials(r, q) = [i \in 1 .. 1 |-> Take(p[i], q)]
      BY <3>1 DEF Materials
    <3> HIDE DEF p
    <3>3. [i \in 1 .. 1 |-> Take(p[i], q)] = [i \in 1 .. 1 |-> Take(x, q)]
      BY <3>1
    <3>4. [i \in 1 .. 1 |-> Take(x, q)] = <<Take(x, q)>>
      <4> DEFINE k == Take(x, q)
                 v == [i \in 1 .. 1 |-> k]
                 w == <<k>>
      <4>1. v \in Seq({k}) /\ w \in Seq({k}) /\ Len(v) = 1 /\ Len(w) = 1
        OBVIOUS
      <4>2. \A i \in 1 .. 1 : v[i] = w[i]
        OBVIOUS
      <4> HIDE DEF v, w
      <4>3. v = w
        <5> HIDE DEF k
        <5> QED BY <4>1, <4>2, SameSeq
      <4> QED BY <4>3 DEF v, w
    <3> QED BY <3>2, <3>3, <3>4
  <2>2. Parts(r) = {x}
    BY <1>1 DEF Parts
  <2> QED BY <2>1, <2>2
<1>2. CASE r.parts = <<"ore", "extra">>
  <2> DEFINE a == Take("ore", q)
             b == Take("extra", q)
  <2>1. Materials(r, q) = <<a>> \o <<b>>
    <3> DEFINE p == r.parts
    <3>1. DOMAIN p = 1 .. 2 /\ p[1] = "ore" /\ p[2] = "extra"
      BY <1>2
    <3>2. Materials(r, q) = [i \in 1 .. 2 |-> Take(p[i], q)]
      BY <3>1 DEF Materials
    <3> HIDE DEF p
    <3> DEFINE v == [i \in 1 .. 2 |-> Take(p[i], q)]
               w == <<a, b>>
    <3>3. v[1] = a /\ v[2] = b /\ w[1] = a /\ w[2] = b
      BY <3>1
    <3>4. w \in Seq({a, b}) /\ Len(w) = 2
      OBVIOUS
    <3>5. v \in [1 .. 2 -> {a, b}]
      <4>1. \A i \in 1 .. 2 : v[i] \in {a, b}
        <5> HIDE DEF v, a, b
        <5> QED BY <3>3
      <4>2. v = [i \in 1 .. 2 |-> v[i]]
        OBVIOUS
      <4> HIDE DEF v, a, b
      <4> QED BY <4>1, <4>2
    <3> HIDE DEF v, w, a, b
    <3>9. w \in [1 .. 2 -> {a, b}]
      BY <3>4
    <3>6. \A i \in 1 .. 2 : v[i] = w[i]
      BY <3>3
    <3>7. v = w
      BY <3>5, <3>6, <3>9
    <3>8. <<a>> \o <<b>> = w
      BY Joined DEF w
    <3> QED BY <3>2, <3>7, <3>8 DEF v
  <2>2. Parts(r) = {"ore"} \cup {"extra"}
    <3> DEFINE p == r.parts
    <3>1. DOMAIN p = 1 .. 2 /\ p[1] = "ore" /\ p[2] = "extra"
      BY <1>2
    <3> HIDE DEF p
    <3>2. {p[i] : i \in DOMAIN p} = {"ore", "extra"}
      BY <3>1
    <3> QED BY <3>2 DEF Parts, p
  <2> QED BY <2>1, <2>2
<1> QED BY <1>1, <1>2 DEF Shapes, Bare, Bulk, Ones, Mixed

(* Taking them pays for them and leaves the purse alone. *)
LEMMA MaterialsTaken ==
    ASSUME NEW s, NEW q, NEW r \in Shapes
    PROVE  Payments(s, Materials(r, q), Parts(r)) /\ PurseKept(s, Materials(r, q))
<1> DEFINE none == <<>>
<1>1. Payments(s, none, {}) /\ PurseKept(s, none)
  BY PayNothing
<1>2. \A a : none \o <<a>> = <<a>>
  OBVIOUS
<1> HIDE DEF none
<1>3. ASSUME NEW x, x \in {"ore", "extra"}
      PROVE  Payments(s, <<Take(x, q)>>, {x}) /\ PurseKept(s, <<Take(x, q)>>)
  <2>1. Payments(s, none \o <<Take(x, q)>>, {} \cup {x})
    BY <1>1, PayWare
  <2>2. PurseKept(s, none \o <<Take(x, q)>>)
    <3>1. x # "meso"
      BY <1>3
    <3> QED BY <1>1, <3>1, PayWare
  <2>3. {} \cup {x} = {x}
    OBVIOUS
  <2> QED BY <1>2, <2>1, <2>2, <2>3
<1>4. ASSUME NEW x \in {"ore", "extra"}, Materials(r, q) = <<Take(x, q)>>, Parts(r) = {x}
      PROVE  Payments(s, Materials(r, q), Parts(r)) /\ PurseKept(s, Materials(r, q))
  BY <1>3, <1>4
<1>5. ASSUME Materials(r, q) = <<Take("ore", q)>> \o <<Take("extra", q)>>,
             Parts(r) = {"ore"} \cup {"extra"}
      PROVE  Payments(s, Materials(r, q), Parts(r)) /\ PurseKept(s, Materials(r, q))
  <2> DEFINE a == <<Take("ore", q)>>
  <2>1. Payments(s, a, {"ore"}) /\ PurseKept(s, a)
    BY <1>3
  <2> HIDE DEF a
  <2>2. /\ Payments(s, a \o <<Take("extra", q)>>, {"ore"} \cup {"extra"})
        /\ PurseKept(s, a \o <<Take("extra", q)>>)
    BY <2>1, PayWare, SMTT(60)
  <2> QED BY <1>5, <2>2 DEF a
<1> QED BY <1>4, <1>5, MaterialsAre

(* The last page.  Only the script that stops when the fee is missing      *)
(* takes it in any case.                                                   *)
LEMMA SmithSells ==
    ASSUME NEW m, NEW s, NEW luck,
           m.stops \in BOOLEAN,
           m.menu[s.g.pick].priced \in BOOLEAN, m.menu[s.g.pick].stimulated \in BOOLEAN,
           m.menu[s.g.pick].recipes[s.g.item + 1] \in Shapes
    PROVE  Fair(s, Finish(m, s, luck), IF m.stops THEN {} ELSE {"meso"})
<1> DEFINE e == m.menu[s.g.pick]
           r == e.recipes[s.g.item + 1]
           q == s.g.qty
           U == IF m.stops THEN {} ELSE {"meso"}
           P == Parts(r)
           fee == IF e.priced THEN <<Pay(q)>> ELSE <<>>
           ks == Materials(r, q) \o fee
           Q == P \cup (IF e.priced /\ Affords(e, s, q) THEN {"meso"} ELSE {})
<1>0. /\ AllTame(<<Dispose>>, U) /\ AllTame(<<Say(Ok)>>, U) /\ AllTame(<<Fail>>, U)
      /\ Fair(s, <<Say(Ok)>>, U) /\ Fair(s, <<Fail>>, U)
  <2> HIDE DEF U
  <2> QED BY FairTame, TameLists, TameOps
<1>1. Payments(s, Materials(r, q), P) /\ PurseKept(s, Materials(r, q))
  <2> HIDE DEF r, q
  <2> QED BY MaterialsTaken DEF r
<1>2. Payments(s, ks, Q)
  <2> DEFINE mm == Materials(r, q)
  <2>0. Payments(s, mm, P) /\ PurseKept(s, mm) /\ IsOps(mm)
    BY <1>1, ZenonT(60) DEF Payments
  <2>1. CASE ~e.priced
    <3>1. mm \o <<>> = mm
      <4> HIDE DEF mm
      <4> QED BY <2>0 DEF IsOps
    <3>2. ks = mm \o <<>> /\ Q = P
      BY <2>1, SMTT(60)
    <3> QED BY <2>0, <3>1, <3>2, ZenonT(60)
  <2>2. CASE e.priced /\ Affords(e, s, q)
    <3>1. Owns(s, "meso", q)
      BY <2>2 DEF Affords
    <3>2. Payments(s, mm \o <<Pay(q)>>, P \cup {"meso"})
      <4> HIDE DEF mm, q, P
      <4> QED BY <2>0, <3>1, PayFee, SMTT(60)
    <3>3. ks = mm \o <<Pay(q)>> /\ Q = P \cup {"meso"}
      BY <2>2, ZenonT(60)
    <3> QED BY <3>2, <3>3, ZenonT(60)
  <2>3. CASE e.priced /\ ~Affords(e, s, q)
    <3>1. Payments(s, mm \o <<Pay(q)>>, P)
      <4> HIDE DEF mm, q, P
      <4> QED BY <2>0, PayFee, ZenonT(60)
    <3>2. ks = mm \o <<Pay(q)>> /\ Q = P
      BY <2>3, ZenonT(60)
    <3> QED BY <3>1, <3>2, ZenonT(60)
  <2> QED BY <2>1, <2>2, <2>3, SMTT(60)
<1>3. ASSUME ~(~Affords(e, s, q) /\ m.stops)
      PROVE  Fair(s, ks \o Goods(m, e, r, q, luck), U)
  <2> DEFINE price == Price(e, r)
             k == Take("stimulator", 1)
  <2>1. price \subseteq (U \cup Q) \cup (IF e.stimulated THEN {"stimulator"} ELSE {})
    BY <1>3, ZenonT(60) DEF Price, Parts, Affords
  <2>2. CASE ~e.stimulated
    <3> DEFINE g == Give("goods", q, price)
    <3>1. Sells(g, U \cup Q)
      <4>1. price \subseteq U \cup Q
        BY <2>1, <2>2
      <4> HIDE DEF U, Q, price
      <4> QED BY <4>1, SellsGifts
    <3>2. Fair(s, ks \o <<g>>, U)
      <4> HIDE DEF ks, g, U, Q
      <4> QED BY <1>2, <3>1, PaidThenSold, SMTT(60)
    <3>3. Goods(m, e, r, q, luck) = <<g>>
      BY <2>2 DEF Goods
    <3> QED BY <3>2, <3>3, ZenonT(60)
  <2>3. Fair(s, ks \o <<k, Lose>>, U) /\ Fair(s, ks \o <<k, Fail>>, U)
    <3>1. Fair(s, ks, U)
      <4> HIDE DEF ks, U, Q
      <4> QED BY <1>2, FairPayments
    <3>2. AllTame(<<k, Lose>>, U) /\ AllTame(<<k, Fail>>, U)
      <4> HIDE DEF U
      <4> QED BY TameLists, TameOps
    <3> HIDE DEF ks, U, k
    <3> QED BY <3>1, <3>2, FairThenTame
  <2>4. CASE e.stimulated
    <3> DEFINE g == Give("goods", 1, price)
    <3>1. Payments(s, ks \o <<k>>, Q \cup {"stimulator"})
      <4> HIDE DEF ks, Q
      <4> QED BY <1>2, PayWare
    <3>2. Sells(g, U \cup (Q \cup {"stimulator"}))
      <4>1. price \subseteq U \cup (Q \cup {"stimulator"})
        <5> HIDE DEF U, Q, price
        <5> QED BY <2>1, <2>4
      <4> HIDE DEF U, Q, price
      <4> QED BY <4>1, SellsGifts
    <3>3. Fair(s, (ks \o <<k>>) \o <<g>>, U)
      <4> DEFINE kk == ks \o <<k>>
      <4>1. Payments(s, kk, Q \cup {"stimulator"})
        BY <3>1, ZenonT(60)
      <4> HIDE DEF kk, g, U, Q
      <4>2. Fair(s, kk \o <<g>>, U)
        BY <3>2, <4>1, PaidThenSold
      <4> QED BY <4>2, SMTT(60) DEF kk
    <3>4. Fair(s, ks \o <<k, g>>, U)
      <4>1. IsOps(ks)
        <5> HIDE DEF ks, Q
        <5> QED BY <1>2 DEF Payments
      <4> HIDE DEF ks, g, k, U
      <4>2. IsOps(<<k>>) /\ IsOps(<<g>>) /\ <<k>> \o <<g>> = <<k, g>>
        BY Lists, Joined
      <4>3. Fair(s, ks \o (<<k>> \o <<g>>), U)
        BY <3>3, <4>1, <4>2, FairApart
      <4> QED BY <4>2, <4>3
    <3>5. Goods(m, e, r, q, luck) \in {<<k, Lose>>, <<k, Fail>>, <<k, g>>}
      BY <2>4, SMTT(60) DEF Goods
    <3> HIDE DEF ks, k, g, U
    <3> QED BY <2>3, <3>4, <3>5
  <2> QED BY <2>2, <2>4, SMTT(60)
<1>4. ASSUME ~(~Affords(e, s, q) /\ m.stops) PROVE Fair(s, Work(m, e, r, q, luck), U)
  <2> DEFINE w == ks \o Goods(m, e, r, q, luck)
  <2>1. Fair(s, w, U)
    BY <1>3, <1>4, ZenonT(60)
  <2>2. Work(m, e, r, q, luck) = w \o <<Say(Ok)>>
    BY DEF Work
  <2> HIDE DEF w, U
  <2> QED BY <1>0, <2>1, <2>2, FairThenTame, ZenonT(60)
<1> DEFINE body == CASE ~Affords(e, s, q) /\ m.stops -> <<Say(Ok)>>
                     [] Affords(e, s, q) /\ m.need = "reversed" /\ ~r.array -> <<Fail>>
                     [] ~Complete(m, e, r, s, q) -> <<Say(Ok)>>
                     [] m.stops /\ ~s.room -> <<Say(Ok)>>
                     [] OTHER -> Work(m, e, r, q, luck)
<1>5. Fair(s, body, U)
  <2> HIDE DEF U, e, r, q
  <2> QED BY <1>0, <1>4
<1>6. Fair(s, body \o <<Dispose>>, U)
  <2> HIDE DEF body, U
  <2> QED BY <1>0, <1>5, FairThenTame
<1> QED BY <1>6, ZenonT(60) DEF Finish

(* The pages before it give nothing. *)
LEMMA SmithAsks ==
    ASSUME NEW m, NEW s, NEW sel, NEW U
    PROVE  /\ Fair(s, SmithStart(m), U) /\ Fair(s, TradePage(m, sel), U)
           /\ Fair(s, NumberPage(m, s, sel), U) /\ Fair(s, ConfirmPage(m, s, sel), U)
<1>0. /\ AllTame(<<>>, U) /\ AllTame(<<Fail>>, U)
      /\ \A st : AllTame(<<Goto(st)>>, U)
      /\ \A f, v : AllTame(<<Note(f, v)>>, U)
      /\ \A w : AllTame(<<Say(w)>>, U) /\ AllTame(<<Say(w), Dispose>>, U)
      /\ \A st, w : AllTame(<<Goto(st), Say(w)>>, U)
      /\ \A f, v, w : AllTame(<<Note(f, v), Say(w)>>, U)
      /\ \A st, f, v, w : AllTame(<<Goto(st), Note(f, v), Say(w)>>, U)
      /\ \A f, v, f1, v1, w : AllTame(<<Note(f, v), Note(f1, v1), Say(w)>>, U)
      /\ \A st, f, v, f1, v1, w : AllTame(<<Goto(st), Note(f, v), Note(f1, v1), Say(w)>>, U)
  BY TameLists, TameOps
<1>1. AllTame(SmithStart(m), U)
  BY <1>0 DEF SmithStart
<1>2. AllTame(TradePage(m, sel), U)
  BY <1>0 DEF TradePage
<1>3. AllTame(NumberPage(m, s, sel), U)
  BY <1>0, TameLists DEF NumberPage
<1>4. AllTame(ConfirmPage(m, s, sel), U)
  BY <1>0, TameLists DEF ConfirmPage
<1> QED BY <1>1, <1>2, <1>3, <1>4, FairTame

-----------------------------------------------------------------------------
(* The records of the smiths.  A trade that is worked at has recipes and   *)
(* says whether it counts, costs and uses a stimulator.                    *)
Working == {"work", "offer", "no table"}
Recorded(rs) == IsOps(rs) /\ Len(rs) > 0 /\ \A i \in 1 .. Len(rs) : rs[i] \in Shapes
Entry(e) ==
    /\ e.kind \in Working \cup {"tell", "no menu"}
    /\ e.kind \in Working =>
         /\ e.counts \in BOOLEAN /\ e.priced \in BOOLEAN /\ e.stimulated \in BOOLEAN
         /\ Recorded(e.recipes)
    /\ e.kind = "offer" => e.counts
Forge(m) == m.stops \in BOOLEAN /\ \A k \in DOMAIN m.menu : Entry(m.menu[k])

(* Recipes are of one of four shapes. *)
LEMMA RecordedRows ==
    /\ \A a \in Shapes : Recorded(<<a>>)
    /\ \A a, b \in Shapes : Recorded(<<a, b>>)
    /\ \A a, b, c \in Shapes : Recorded(<<a, b, c>>)
BY Lists DEF Recorded

(* The entries the menus are made of. *)
LEMMA Entries ==
    /\ Entry(Explained) /\ Entry(NoMenu)
    /\ \A rs : Recorded(rs) => /\ Entry(Trade(rs)) /\ Entry(Counted(rs)) /\ Entry(Stimulated(rs))
                              /\ Entry(Free(Trade(rs))) /\ Entry(Free(Counted(rs)))
                              /\ Entry(Offered(Counted(rs))) /\ Entry(NoTable(rs))
<1>1. Entry(Explained) /\ Entry(NoMenu)
  BY DEF Entry, Explained, NoMenu, Working
<1>2. ASSUME NEW rs, Recorded(rs)
      PROVE  /\ Entry(Trade(rs)) /\ Entry(Counted(rs)) /\ Entry(Stimulated(rs))
             /\ Entry(Free(Trade(rs))) /\ Entry(Free(Counted(rs)))
             /\ Entry(Offered(Counted(rs))) /\ Entry(NoTable(rs))
  BY <1>2 DEF Entry, Trade, Counted, Stimulated, Free, Offered, NoTable, Working
<1> QED BY <1>1, <1>2

(* A menu lists its entries. *)
MenuOf(es) == IsOps(es) /\ \A i \in 1 .. Len(es) : Entry(es[i])

(* Menus of as many entries as the smiths have. *)
LEMMA Menus ==
    /\ \A a, b, c : Entry(a) /\ Entry(b) /\ Entry(c)
         => MenuOf(<<a, b, c>>)
    /\ \A a, b, c, d : Entry(a) /\ Entry(b) /\ Entry(c) /\ Entry(d)
         => MenuOf(<<a, b, c, d>>)
    /\ \A a, b, c, d, e : Entry(a) /\ Entry(b) /\ Entry(c) /\ Entry(d) /\ Entry(e)
         => MenuOf(<<a, b, c, d, e>>)
    /\ \A a, b, c, d, e, f : Entry(a) /\ Entry(b) /\ Entry(c) /\ Entry(d) /\ Entry(e)
                 /\ Entry(f)
         => MenuOf(<<a, b, c, d, e, f>>)
    /\ \A a, b, c, d, e, f, g, h, j : Entry(a) /\ Entry(b) /\ Entry(c) /\ Entry(d) /\ Entry(e)
                 /\ Entry(f) /\ Entry(g) /\ Entry(h) /\ Entry(j)
         => MenuOf(<<a, b, c, d, e, f, g, h, j>>)
<1>1. ASSUME NEW a, NEW b, NEW c,
             Entry(a), Entry(b), Entry(c)
      PROVE  MenuOf(<<a, b, c>>)
  <2> DEFINE l == <<a, b, c>>
  <2>1. l \in Seq({a, b, c}) /\ Len(l) = 3
    OBVIOUS
  <2>2. l[1] = a /\ l[2] = b /\ l[3] = c
    OBVIOUS
  <2> HIDE DEF l
  <2>3. MenuOf(l)
    BY <1>1, <2>1, <2>2 DEF MenuOf, IsOps
  <2> QED BY <2>3 DEF l
<1>2. ASSUME NEW a, NEW b, NEW c, NEW d,
             Entry(a), Entry(b), Entry(c), Entry(d)
      PROVE  MenuOf(<<a, b, c, d>>)
  <2> DEFINE l == <<a, b, c, d>>
  <2>1. l \in Seq({a, b, c, d}) /\ Len(l) = 4
    OBVIOUS
  <2>2. l[1] = a /\ l[2] = b /\ l[3] = c /\ l[4] = d
    OBVIOUS
  <2> HIDE DEF l
  <2>3. MenuOf(l)
    BY <1>2, <2>1, <2>2 DEF MenuOf, IsOps
  <2> QED BY <2>3 DEF l
<1>3. ASSUME NEW a, NEW b, NEW c, NEW d, NEW e,
             Entry(a), Entry(b), Entry(c), Entry(d), Entry(e)
      PROVE  MenuOf(<<a, b, c, d, e>>)
  <2> DEFINE l == <<a, b, c, d, e>>
  <2>1. l \in Seq({a, b, c, d, e}) /\ Len(l) = 5
    OBVIOUS
  <2>2. l[1] = a /\ l[2] = b /\ l[3] = c /\ l[4] = d /\ l[5] = e
    OBVIOUS
  <2> HIDE DEF l
  <2>3. MenuOf(l)
    BY <1>3, <2>1, <2>2 DEF MenuOf, IsOps
  <2> QED BY <2>3 DEF l
<1>4. ASSUME NEW a, NEW b, NEW c, NEW d, NEW e, NEW f,
             Entry(a), Entry(b), Entry(c), Entry(d), Entry(e), Entry(f)
      PROVE  MenuOf(<<a, b, c, d, e, f>>)
  <2> DEFINE l == <<a, b, c, d, e, f>>
  <2>1. l \in Seq({a, b, c, d, e, f}) /\ Len(l) = 6
    OBVIOUS
  <2>2. l[1] = a /\ l[2] = b /\ l[3] = c /\ l[4] = d /\ l[5] = e /\ l[6] = f
    OBVIOUS
  <2> HIDE DEF l
  <2>3. MenuOf(l)
    BY <1>4, <2>1, <2>2 DEF MenuOf, IsOps
  <2> QED BY <2>3 DEF l
<1>5. ASSUME NEW a, NEW b, NEW c, NEW d, NEW e, NEW f, NEW g, NEW h, NEW j,
             Entry(a), Entry(b), Entry(c), Entry(d), Entry(e), Entry(f), Entry(g), Entry(h), Entry(j)
      PROVE  MenuOf(<<a, b, c, d, e, f, g, h, j>>)
  <2> DEFINE l == <<a, b, c, d, e, f, g, h, j>>
  <2>1. l \in Seq({a, b, c, d, e, f, g, h, j}) /\ Len(l) = 9
    OBVIOUS
  <2>2. l[1] = a /\ l[2] = b /\ l[3] = c /\ l[4] = d /\ l[5] = e /\ l[6] = f /\ l[7] = g /\ l[8] = h /\ l[9] = j
    OBVIOUS
  <2> HIDE DEF l
  <2>3. MenuOf(l)
    BY <1>5, <2>1, <2>2 DEF MenuOf, IsOps
  <2> QED BY <2>3 DEF l
<1> QED BY <1>1, <1>2, <1>3, <1>4, <1>5

(* A smith with such a menu, whatever way he looks for the materials. *)
LEMMA Forges ==
    ASSUME NEW es, MenuOf(es), NEW need
    PROVE  /\ Forge(Smith(need, Listed(es)))
           /\ Forge([Smith(need, Listed(es)) EXCEPT !.stops = TRUE])
           /\ Forge([Smith(need, Listed(es)) EXCEPT !.newItem = TRUE])
<1> DEFINE menu == Listed(es)
<1>1. \A k \in DOMAIN menu : Entry(menu[k])
  <2>1. Len(es) \in Nat /\ \A i \in 1 .. Len(es) : Entry(es[i])
    BY DEF MenuOf, IsOps
  <2> QED BY <2>1 DEF Listed
<1> HIDE DEF menu
<1>2. /\ Forge(Smith(need, menu)) /\ Forge([Smith(need, menu) EXCEPT !.stops = TRUE])
      /\ Forge([Smith(need, menu) EXCEPT !.newItem = TRUE])
  BY <1>1 DEF Forge, Smith
<1> QED BY <1>2 DEF menu

(* Each smith has such a record. *)
LEMMA SmithRecords ==
    /\ Forge(N1012002) /\ Forge(N1022003) /\ Forge(N1022004) /\ Forge(N1032002)
    /\ Forge(N1052002) /\ Forge(N1052003) /\ Forge(N1061000) /\ Forge(N2010003)
    /\ Forge(N2020000) /\ Forge(N2020002) /\ Forge(N2040016) /\ Forge(N2040020)
    /\ Forge(N2040021) /\ Forge(N2040022) /\ Forge(N2080000)
<1>0. Bare \in Shapes /\ Bulk \in Shapes /\ Ones \in Shapes /\ Mixed \in Shapes
  BY DEF Shapes
<1>1. /\ Recorded(<<Bare>>) /\ Recorded(<<Bulk>>) /\ Recorded(<<Ones>>)
      /\ Recorded(<<Mixed>>) /\ Recorded(<<Bare, Ones>>) /\ Recorded(<<Bare, Mixed>>)
      /\ Recorded(<<Bulk, Mixed>>) /\ Recorded(<<Mixed, Bulk>>) /\ Recorded(<<Mixed, Ones>>)
      /\ Recorded(<<Ones, Mixed>>) /\ Recorded(<<Bare, Bulk, Mixed>>) /\ Recorded(<<Bare, Mixed, Bulk>>)
      /\ Recorded(<<Mixed, Bare, Bulk>>)
  BY <1>0, RecordedRows
<1>2. Forge(N1012002)
  <2> DEFINE es == <<NoTable(<<Mixed>>), NoTable(<<Mixed>>), NoTable(<<Mixed>>),
                     NoTable(<<Mixed>>), Free(Counted(<<Bare, Ones>>)), NoMenu>>
  <2>1. /\ Entry(NoTable(<<Mixed>>)) /\ Entry(Free(Counted(<<Bare, Ones>>))) /\ Entry(NoMenu)
    BY <1>1, Entries
  <2>2. MenuOf(es)
    BY <2>1, Menus
  <2>3. N1012002 = [Smith("once", Listed(es)) EXCEPT !.stops = TRUE]
    BY DEF N1012002
  <2> HIDE DEF es
  <2> QED BY <2>2, <2>3, Forges
<1>3. Forge(N1022003)
  <2> DEFINE es == <<Counted(<<Bare>>), Counted(<<Bare>>), Trade(<<Ones, Mixed>>),
                     Trade(<<Mixed>>)>>
  <2>1. /\ Entry(Counted(<<Bare>>)) /\ Entry(Trade(<<Ones, Mixed>>)) /\ Entry(Trade(<<Mixed>>))
    BY <1>1, Entries
  <2>2. MenuOf(es)
    BY <2>1, Menus
  <2>3. N1022003 = Smith("unasked", Listed(es))
    BY DEF N1022003
  <2> HIDE DEF es
  <2> QED BY <2>2, <2>3, Forges
<1>4. Forge(N1022004)
  <2> DEFINE es == <<Trade(<<Mixed, Bare, Bulk>>), Trade(<<Ones, Mixed>>),
                     Free(Counted(<<Bare, Ones>>))>>
  <2>1. /\ Entry(Trade(<<Mixed, Bare, Bulk>>)) /\ Entry(Trade(<<Ones, Mixed>>)) /\ Entry(Free(Counted(<<Bare, Ones>>)))
    BY <1>1, Entries
  <2>2. MenuOf(es)
    BY <2>1, Menus
  <2>3. N1022004 = Smith("barely", Listed(es))
    BY DEF N1022004
  <2> HIDE DEF es
  <2> QED BY <2>2, <2>3, Forges
<1>5. Forge(N1032002)
  <2> DEFINE es == <<Trade(<<Bare, Mixed, Bulk>>), Trade(<<Ones, Mixed>>),
                     Trade(<<Mixed>>), Trade(<<Bare, Bulk, Mixed>>),
                     Trade(<<Bare, Mixed>>)>>
  <2>1. /\ Entry(Trade(<<Bare, Mixed, Bulk>>)) /\ Entry(Trade(<<Ones, Mixed>>)) /\ Entry(Trade(<<Mixed>>))
        /\ Entry(Trade(<<Bare, Bulk, Mixed>>)) /\ Entry(Trade(<<Bare, Mixed>>))
    BY <1>1, Entries
  <2>2. MenuOf(es)
    BY <2>1, Menus
  <2>3. N1032002 = Smith("times", Listed(es))
    BY DEF N1032002
  <2> HIDE DEF es
  <2> QED BY <2>2, <2>3, Forges
<1>6. Forge(N1052002)
  <2> DEFINE es == <<Trade(<<Bare, Bulk, Mixed>>), Trade(<<Ones, Mixed>>),
                     Trade(<<Mixed, Bulk>>), Trade(<<Ones, Mixed>>),
                     Free(Counted(<<Bare, Ones>>))>>
  <2>1. /\ Entry(Trade(<<Bare, Bulk, Mixed>>)) /\ Entry(Trade(<<Ones, Mixed>>)) /\ Entry(Trade(<<Mixed, Bulk>>))
        /\ Entry(Free(Counted(<<Bare, Ones>>)))
    BY <1>1, Entries
  <2>2. MenuOf(es)
    BY <2>1, Menus
  <2>3. N1052002 = Smith("unasked", Listed(es))
    BY DEF N1052002
  <2> HIDE DEF es
  <2> QED BY <2>2, <2>3, Forges
<1>7. Forge(N1052003)
  <2> DEFINE es == <<Counted(<<Bare>>), Counted(<<Bare>>), Offered(Counted(<<Bare>>)),
                     Trade(<<Mixed>>)>>
  <2>1. /\ Entry(Counted(<<Bare>>)) /\ Entry(Offered(Counted(<<Bare>>))) /\ Entry(Trade(<<Mixed>>))
    BY <1>1, Entries
  <2>2. MenuOf(es)
    BY <2>1, Menus
  <2>3. N1052003 = Smith("unasked", Listed(es))
    BY DEF N1052003
  <2> HIDE DEF es
  <2> QED BY <2>2, <2>3, Forges
<1>8. Forge(N1061000)
  <2> DEFINE es == <<Trade(<<Mixed, Bulk>>), Trade(<<Bulk, Mixed>>),
                     Trade(<<Mixed, Bulk>>), Trade(<<Mixed, Bulk>>)>>
  <2>1. /\ Entry(Trade(<<Mixed, Bulk>>)) /\ Entry(Trade(<<Bulk, Mixed>>))
    BY <1>1, Entries
  <2>2. MenuOf(es)
    BY <2>1, Menus
  <2>3. N1061000 = Smith("unasked", Listed(es))
    BY DEF N1061000
  <2> HIDE DEF es
  <2> QED BY <2>2, <2>3, Forges
<1>9. Forge(N2010003)
  <2> DEFINE es == <<Trade(<<Bulk, Mixed>>), Trade(<<Bulk, Mixed>>),
                     Trade(<<Bulk, Mixed>>), Trade(<<Bulk, Mixed>>)>>
  <2>1. /\ Entry(Trade(<<Bulk, Mixed>>))
    BY <1>1, Entries
  <2>2. MenuOf(es)
    BY <2>1, Menus
  <2>3. N2010003 = Smith("times", Listed(es))
    BY DEF N2010003
  <2> HIDE DEF es
  <2> QED BY <2>2, <2>3, Forges
<1>10. Forge(N2020000)
  <2> DEFINE es == <<Counted(<<Bare>>), Counted(<<Bare>>), Counted(<<Ones>>),
                     Counted(<<Bare>>), Free(Counted(<<Bare, Ones>>)),
                     Free(Trade(<<Ones, Mixed>>))>>
  <2>1. /\ Entry(Counted(<<Bare>>)) /\ Entry(Counted(<<Ones>>)) /\ Entry(Free(Counted(<<Bare, Ones>>)))
        /\ Entry(Free(Trade(<<Ones, Mixed>>)))
    BY <1>1, Entries
  <2>2. MenuOf(es)
    BY <2>1, Menus
  <2>3. N2020000 = Smith("unasked", Listed(es))
    BY DEF N2020000
  <2> HIDE DEF es
  <2> QED BY <2>2, <2>3, Forges
<1>11. Forge(N2020002)
  <2> DEFINE es == <<Trade(<<Mixed, Bulk>>), Trade(<<Mixed, Bulk>>),
                     Trade(<<Mixed, Bulk>>), Trade(<<Mixed, Bulk>>)>>
  <2>1. /\ Entry(Trade(<<Mixed, Bulk>>))
    BY <1>1, Entries
  <2>2. MenuOf(es)
    BY <2>1, Menus
  <2>3. N2020002 = Smith("times", Listed(es))
    BY DEF N2020002
  <2> HIDE DEF es
  <2> QED BY <2>2, <2>3, Forges
<1>12. Forge(N2040016)
  <2> DEFINE es == <<Counted(<<Bare>>), Counted(<<Bare>>), Counted(<<Ones>>),
                     Counted(<<Bare>>), Free(Counted(<<Bare, Ones>>)),
                     Free(Trade(<<Ones, Mixed>>))>>
  <2>1. /\ Entry(Counted(<<Bare>>)) /\ Entry(Counted(<<Ones>>)) /\ Entry(Free(Counted(<<Bare, Ones>>)))
        /\ Entry(Free(Trade(<<Ones, Mixed>>)))
    BY <1>1, Entries
  <2>2. MenuOf(es)
    BY <2>1, Menus
  <2>3. N2040016 = Smith("reversed", Listed(es))
    BY DEF N2040016
  <2> HIDE DEF es
  <2> QED BY <2>2, <2>3, Forges
<1>13. Forge(N2040020)
  <2> DEFINE es == <<Explained, Trade(<<Bulk>>), Trade(<<Mixed>>), Trade(<<Mixed, Bulk>>),
                     Trade(<<Bulk, Mixed>>), Stimulated(<<Ones, Mixed>>),
                     Stimulated(<<Mixed, Ones>>), Stimulated(<<Mixed, Ones>>),
                     Stimulated(<<Mixed, Ones>>)>>
  <2>1. /\ Entry(Explained) /\ Entry(Trade(<<Bulk>>)) /\ Entry(Trade(<<Mixed>>))
        /\ Entry(Trade(<<Mixed, Bulk>>)) /\ Entry(Trade(<<Bulk, Mixed>>)) /\ Entry(Stimulated(<<Ones, Mixed>>))
        /\ Entry(Stimulated(<<Mixed, Ones>>))
    BY <1>1, Entries
  <2>2. MenuOf(es)
    BY <2>1, Menus
  <2>3. N2040020 = [Smith("unasked", Listed(es)) EXCEPT !.newItem = TRUE]
    BY DEF N2040020
  <2> HIDE DEF es
  <2> QED BY <2>2, <2>3, Forges
<1>14. Forge(N2040021)
  <2> DEFINE es == <<Explained, Trade(<<Bulk, Mixed>>), Trade(<<Bulk, Mixed>>),
                     Trade(<<Bulk, Mixed>>), Trade(<<Bulk, Mixed>>),
                     Stimulated(<<Bulk, Mixed>>), Stimulated(<<Bulk, Mixed>>),
                     Stimulated(<<Bulk, Mixed>>), Stimulated(<<Bulk, Mixed>>)>>
  <2>1. /\ Entry(Explained) /\ Entry(Trade(<<Bulk, Mixed>>)) /\ Entry(Stimulated(<<Bulk, Mixed>>))
    BY <1>1, Entries
  <2>2. MenuOf(es)
    BY <2>1, Menus
  <2>3. N2040021 = Smith("times", Listed(es))
    BY DEF N2040021
  <2> HIDE DEF es
  <2> QED BY <2>2, <2>3, Forges
<1>15. Forge(N2040022)
  <2> DEFINE es == <<Explained, Trade(<<Mixed>>), Trade(<<Mixed>>), Trade(<<Mixed>>),
                     Trade(<<Mixed>>), Stimulated(<<Mixed>>), Stimulated(<<Mixed>>),
                     Stimulated(<<Mixed>>), Stimulated(<<Mixed, Ones>>)>>
  <2>1. /\ Entry(Explained) /\ Entry(Trade(<<Mixed>>)) /\ Entry(Stimulated(<<Mixed>>))
        /\ Entry(Stimulated(<<Mixed, Ones>>))
    BY <1>1, Entries
  <2>2. MenuOf(es)
    BY <2>1, Menus
  <2>3. N2040022 = Smith("unasked", Listed(es))
    BY DEF N2040022
  <2> HIDE DEF es
  <2> QED BY <2>2, <2>3, Forges
<1>16. Forge(N2080000)
  <2> DEFINE es == <<Explained, Trade(<<Mixed>>), Trade(<<Mixed>>), Trade(<<Mixed>>),
                     Trade(<<Mixed>>), Stimulated(<<Mixed>>), Stimulated(<<Mixed>>),
                     Stimulated(<<Mixed>>), Stimulated(<<Mixed>>)>>
  <2>1. /\ Entry(Explained) /\ Entry(Trade(<<Mixed>>)) /\ Entry(Stimulated(<<Mixed>>))
    BY <1>1, Entries
  <2>2. MenuOf(es)
    BY <2>1, Menus
  <2>3. N2080000 = Smith("unasked", Listed(es))
    BY DEF N2080000
  <2> HIDE DEF es
  <2> QED BY <2>2, <2>3, Forges
<1> QED BY <1>2, <1>3, <1>4, <1>5, <1>6, <1>7, <1>8, <1>9, <1>10, <1>11, <1>12, <1>13, <1>14, <1>15, <1>16

-----------------------------------------------------------------------------
(* What a page of the script n may leave unpaid: the prize of the quiz was *)
(* paid for on an earlier page.                                            *)
Due(n) == Unpaid(n) \cup (IF n = "N9120013" THEN {"extra"} ELSE {})

(* Those who may leave something unpaid. *)
LEMMA DueAre ==
    /\ \A n \in {"N1012000", "N1022001", "N1032000", "N1052016", "N1092014",
             "N2023000", "N2060009", "N2110005", "N22000", "N9000020",
             "N9120003", "N9000012"} :
         {"meso"} \subseteq Due(n)
    /\ {"ticket"} \subseteq Due("N1002002") /\ {"extra"} \subseteq Due("N9120013")
    /\ {"token"} \subseteq Due("N1072004") /\ {"token"} \subseteq Due("N1072005")
    /\ \A n \in {"N1032100", "N9209000", "N9201014"} : {"ore", "extra"} \subseteq Due(n)
<1>1. \A n \in Smithy : n \in {"N1012002", "N1022003", "N1022004", "N1032002", "N1052002",
                            "N1052003", "N1061000", "N2010003", "N2020000", "N2020002",
                            "N2040016", "N2040020", "N2040021", "N2040022", "N2080000"}
  BY DEF Smithy, SmithOf
<1>2. \A n \in {"N1012000", "N1022001", "N1032000", "N1052016", "N1092014",
           "N2023000", "N2060009", "N2110005", "N22000", "N9000020",
           "N9120003", "N9000012"} :
         {"meso"} \subseteq Due(n)
  BY <1>1 DEF Due, Unpaid
<1>3. {"ticket"} \subseteq Due("N1002002") /\ {"extra"} \subseteq Due("N9120013")
  BY <1>1 DEF Due, Unpaid
<1>4. {"token"} \subseteq Due("N1072004") /\ {"token"} \subseteq Due("N1072005")
  BY <1>1 DEF Due, Unpaid
<1>5. \A n \in {"N1032100", "N9209000", "N9201014"} : {"ore", "extra"} \subseteq Due(n)
  BY <1>1 DEF Due, Unpaid
<1> QED BY <1>2, <1>3, <1>4, <1>5

(* Each script leaves no more than that unpaid: drivers and guides. *)
LEMMA JourneysFair ==
    ASSUME NEW s, NEW mode, NEW sel
    PROVE  /\ Fair(s, N1012000(s, mode, sel), Due("N1012000")) /\ Fair(s, N1022001(s, mode, sel), Due("N1022001"))
           /\ Fair(s, N1032000(s, mode, sel), Due("N1032000")) /\ Fair(s, N1052016(s, mode, sel), Due("N1052016"))
           /\ Fair(s, N1092014(s, mode, sel), Due("N1092014")) /\ Fair(s, N1002000(s, mode, sel), Due("N1002000"))
           /\ Fair(s, N1002004(s, mode, sel), Due("N1002004")) /\ Fair(s, N1032005(s, mode, sel), Due("N1032005"))
           /\ Fair(s, N2010005(s, mode, sel), Due("N2010005")) /\ Fair(s, N2040048(s, mode, sel), Due("N2040048"))
           /\ Fair(s, N1002002(s, mode, sel), Due("N1002002")) /\ Fair(s, N1032003(s, mode, sel), Due("N1032003"))
           /\ Fair(s, N1061100(s, mode, sel), Due("N1061100")) /\ Fair(s, N1100003(s, mode, sel), Due("N1100003"))
           /\ Fair(s, N2023000(s, mode, sel), Due("N2023000")) /\ Fair(s, N2060009(s, mode, sel), Due("N2060009"))
           /\ Fair(s, N2081005(s, mode, sel), Due("N2081005")) /\ Fair(s, N2093004(s, mode, sel), Due("N2093004"))
           /\ Fair(s, N2110005(s, mode, sel), Due("N2110005")) /\ Fair(s, N22000(s, mode, sel), Due("N22000"))
           /\ Fair(s, N9000020(s, mode, sel), Due("N9000020")) /\ Fair(s, N9120003(s, mode, sel), Due("N9120003"))
           /\ Fair(s, N9000012(s, mode, sel), Due("N9000012"))
<1>1. \A ops, U : Fair(s, ops, {}) => Fair(s, ops, U)
  BY FairMore
<1>2. /\ Fair(s, N1002000(s, mode, sel), Due("N1002000")) /\ Fair(s, N1002004(s, mode, sel), Due("N1002004"))
      /\ Fair(s, N1032003(s, mode, sel), Due("N1032003")) /\ Fair(s, N1061100(s, mode, sel), Due("N1061100"))
      /\ Fair(s, N2081005(s, mode, sel), Due("N2081005")) /\ Fair(s, N2093004(s, mode, sel), Due("N2093004"))
  BY <1>1, Rides
<1>3. /\ Fair(s, N1032005(s, mode, sel), Due("N1032005")) /\ Fair(s, N2010005(s, mode, sel), Due("N2010005"))
      /\ Fair(s, N2040048(s, mode, sel), Due("N2040048")) /\ Fair(s, N1100003(s, mode, sel), Due("N1100003"))
  BY <1>1, RidesIdle
<1>4. Fair(s, N1012000(s, mode, sel), Due("N1012000"))
  <2>1. {"meso"} \subseteq Due("N1012000") /\ Fair(s, N1012000(s, mode, sel), {"meso"})
    BY DueAre, RidesUnpaid
  <2> QED BY <2>1, FairMore
<1>5. Fair(s, N1022001(s, mode, sel), Due("N1022001"))
  <2>1. {"meso"} \subseteq Due("N1022001") /\ Fair(s, N1022001(s, mode, sel), {"meso"})
    BY DueAre, RidesUnpaid
  <2> QED BY <2>1, FairMore
<1>6. Fair(s, N1032000(s, mode, sel), Due("N1032000"))
  <2>1. {"meso"} \subseteq Due("N1032000") /\ Fair(s, N1032000(s, mode, sel), {"meso"})
    BY DueAre, RidesUnpaid
  <2> QED BY <2>1, FairMore
<1>7. Fair(s, N1052016(s, mode, sel), Due("N1052016"))
  <2>1. {"meso"} \subseteq Due("N1052016") /\ Fair(s, N1052016(s, mode, sel), {"meso"})
    BY DueAre, RidesUnpaid
  <2> QED BY <2>1, FairMore
<1>8. Fair(s, N1092014(s, mode, sel), Due("N1092014"))
  <2>1. {"meso"} \subseteq Due("N1092014") /\ Fair(s, N1092014(s, mode, sel), {"meso"})
    BY DueAre, RidesUnpaid
  <2> QED BY <2>1, FairMore
<1>9. Fair(s, N1002002(s, mode, sel), Due("N1002002"))
  <2>1. {"ticket"} \subseteq Due("N1002002") /\ Fair(s, N1002002(s, mode, sel), {"ticket"})
    BY DueAre, RidesIdle
  <2> QED BY <2>1, FairMore
<1>10. Fair(s, N2023000(s, mode, sel), Due("N2023000"))
  <2>1. {"meso"} \subseteq Due("N2023000") /\ Fair(s, N2023000(s, mode, sel), {"meso"})
    BY DueAre, RidesUnpaid
  <2> QED BY <2>1, FairMore
<1>11. Fair(s, N2060009(s, mode, sel), Due("N2060009"))
  <2>1. {"meso"} \subseteq Due("N2060009") /\ Fair(s, N2060009(s, mode, sel), {"meso"})
    BY DueAre, Rides
  <2> QED BY <2>1, FairMore
<1>12. Fair(s, N2110005(s, mode, sel), Due("N2110005"))
  <2>1. {"meso"} \subseteq Due("N2110005") /\ Fair(s, N2110005(s, mode, sel), {"meso"})
    BY DueAre, RidesUnpaid
  <2> QED BY <2>1, FairMore
<1>13. Fair(s, N22000(s, mode, sel), Due("N22000"))
  <2>1. {"meso"} \subseteq Due("N22000") /\ Fair(s, N22000(s, mode, sel), {"meso"})
    BY DueAre, Rides
  <2> QED BY <2>1, FairMore
<1>14. Fair(s, N9000020(s, mode, sel), Due("N9000020"))
  <2>1. {"meso"} \subseteq Due("N9000020") /\ Fair(s, N9000020(s, mode, sel), {"meso"})
    BY DueAre, RidesUnpaid
  <2> QED BY <2>1, FairMore
<1>15. Fair(s, N9120003(s, mode, sel), Due("N9120003"))
  <2>1. {"meso"} \subseteq Due("N9120003") /\ Fair(s, N9120003(s, mode, sel), {"meso"})
    BY DueAre, RidesUnpaid
  <2> QED BY <2>1, FairMore
<1>16. Fair(s, N9000012(s, mode, sel), Due("N9000012"))
  <2>1. {"meso"} \subseteq Due("N9000012") /\ Fair(s, N9000012(s, mode, sel), {"meso"})
    BY DueAre, RidesUnpaid
  <2> QED BY <2>1, FairMore
<1> QED BY <1>2, <1>3, <1>4, <1>5, <1>6, <1>7, <1>8, <1>9, <1>10, <1>11, <1>12, <1>13, <1>14, <1>15, <1>16

(* Gatekeepers. *)
LEMMA PassagesFair ==
    ASSUME NEW s, NEW mode, NEW sel, s.place \in 1 .. 2
    PROVE  /\ Fair(s, N1032004(s, mode, sel), Due("N1032004")) /\ Fair(s, N1061007(s, mode, sel), Due("N1061007"))
           /\ Fair(s, N2001001(s, mode, sel), Due("N2001001")) /\ Fair(s, N2001002(s, mode, sel), Due("N2001002"))
           /\ Fair(s, N2001003(s, mode, sel), Due("N2001003")) /\ Fair(s, N2002000(s, mode, sel), Due("N2002000"))
           /\ Fair(s, N2007(s, mode, sel), Due("N2007")) /\ Fair(s, N2083002(s, mode, sel), Due("N2083002"))
           /\ Fair(s, N2030010(s, mode, sel), Due("N2030010")) /\ Fair(s, N9120200(s, mode, sel), Due("N9120200"))
           /\ Fair(s, N9220005(s, mode, sel), Due("N9220005")) /\ Fair(s, N9270038(s, mode, sel), Due("N9270038"))
           /\ Fair(s, N9270041(s, mode, sel), Due("N9270041")) /\ Fair(s, N1103005(s, mode, sel), Due("N1103005"))
           /\ Fair(s, N9103002(s, mode, sel), Due("N9103002")) /\ Fair(s, N9120201(s, mode, sel), Due("N9120201"))
           /\ Fair(s, N9120202(s, mode, sel), Due("N9120202")) /\ Fair(s, N9270033(s, mode, sel), Due("N9270033"))
           /\ Fair(s, N2030011(s, mode, sel), Due("N2030011")) /\ Fair(s, N9000010(s, mode, sel), Due("N9000010"))
           /\ Fair(s, N9201123(s, mode, sel), Due("N9201123")) /\ Fair(s, N9201124(s, mode, sel), Due("N9201124"))
           /\ Fair(s, N9201125(s, mode, sel), Due("N9201125")) /\ Fair(s, N9201126(s, mode, sel), Due("N9201126"))
           /\ Fair(s, N2102001(s, mode, sel), Due("N2102001")) /\ Fair(s, N10200(s, mode, sel), Due("N10200"))
           /\ Fair(s, N10201(s, mode, sel), Due("N10201")) /\ Fair(s, N10202(s, mode, sel), Due("N10202"))
           /\ Fair(s, N10203(s, mode, sel), Due("N10203")) /\ Fair(s, N10204(s, mode, sel), Due("N10204"))
           /\ Fair(s, N1012113(s, mode, sel), Due("N1012113")) /\ Fair(s, N1032009(s, mode, sel), Due("N1032009"))
           /\ Fair(s, N1052011(s, mode, sel), Due("N1052011")) /\ Fair(s, N1081001(s, mode, sel), Due("N1081001"))
           /\ Fair(s, N2012006(s, mode, sel), Due("N2012006")) /\ Fair(s, N2101(s, mode, sel), Due("N2101"))
           /\ Fair(s, N9101001(s, mode, sel), Due("N9101001")) /\ Fair(s, N2040002(s, mode, sel), Due("N2040002"))
           /\ Fair(s, N9201056(s, mode, sel), Due("N9201056")) /\ Fair(s, N9010022(s, mode, sel), Due("N9010022"))
           /\ Fair(s, N9060000(s, mode, sel), Due("N9060000")) /\ Fair(s, N2030000(s, mode, sel), Due("N2030000"))
           /\ Fair(s, N1061006(s, mode, sel), Due("N1061006")) /\ Fair(s, N2101018(s, mode, sel), Due("N2101018"))
           /\ Fair(s, N2091006(s, mode, sel), Due("N2091006")) /\ Fair(s, N1012114(s, mode, sel), Due("N1012114"))
           /\ Fair(s, N1092000(s, mode, sel), Due("N1092000")) /\ Fair(s, N2012002(s, mode, sel), Due("N2012002"))
           /\ Fair(s, N2012021(s, mode, sel), Due("N2012021")) /\ Fair(s, N2012022(s, mode, sel), Due("N2012022"))
           /\ Fair(s, N2032003(s, mode, sel), Due("N2032003")) /\ Fair(s, N9120015(s, mode, sel), Due("N9120015"))
           /\ Fair(s, N9201010(s, mode, sel), Due("N9201010")) /\ Fair(s, N2082002(s, mode, sel), Due("N2082002"))
           /\ Fair(s, N2090005(s, mode, sel), Due("N2090005")) /\ Fair(s, N2012014(s, mode, sel), Due("N2012014"))
           /\ Fair(s, N2012015(s, mode, sel), Due("N2012015")) /\ Fair(s, N2040024(s, mode, sel), Due("N2040024"))
           /\ Fair(s, N2040025(s, mode, sel), Due("N2040025")) /\ Fair(s, N2040026(s, mode, sel), Due("N2040026"))
           /\ Fair(s, N2040027(s, mode, sel), Due("N2040027")) /\ Fair(s, N2102000(s, mode, sel), Due("N2102000"))
           /\ Fair(s, N2040028(s, mode, sel), Due("N2040028")) /\ Fair(s, N9201043(s, mode, sel), Due("N9201043"))
           /\ Fair(s, N1043000(s, mode, sel), Due("N1043000")) /\ Fair(s, N1043001(s, mode, sel), Due("N1043001"))
           /\ Fair(s, N1052008(s, mode, sel), Due("N1052008")) /\ Fair(s, N1052009(s, mode, sel), Due("N1052009"))
           /\ Fair(s, N1052010(s, mode, sel), Due("N1052010")) /\ Fair(s, N1063000(s, mode, sel), Due("N1063000"))
           /\ Fair(s, N1063001(s, mode, sel), Due("N1063001")) /\ Fair(s, N1063002(s, mode, sel), Due("N1063002"))
<1>1. \A ops, U : Fair(s, ops, {}) => Fair(s, ops, U)
  BY FairMore
<1>2. /\ Fair(s, N1032004(s, mode, sel), Due("N1032004")) /\ Fair(s, N1061007(s, mode, sel), Due("N1061007"))
      /\ Fair(s, N2001001(s, mode, sel), Due("N2001001")) /\ Fair(s, N2001002(s, mode, sel), Due("N2001002"))
      /\ Fair(s, N2001003(s, mode, sel), Due("N2001003")) /\ Fair(s, N2002000(s, mode, sel), Due("N2002000"))
      /\ Fair(s, N2007(s, mode, sel), Due("N2007")) /\ Fair(s, N2083002(s, mode, sel), Due("N2083002"))
      /\ Fair(s, N2030010(s, mode, sel), Due("N2030010")) /\ Fair(s, N9120200(s, mode, sel), Due("N9120200"))
      /\ Fair(s, N9220005(s, mode, sel), Due("N9220005")) /\ Fair(s, N9270038(s, mode, sel), Due("N9270038"))
      /\ Fair(s, N9270041(s, mode, sel), Due("N9270041")) /\ Fair(s, N1103005(s, mode, sel), Due("N1103005"))
      /\ Fair(s, N9103002(s, mode, sel), Due("N9103002")) /\ Fair(s, N9120201(s, mode, sel), Due("N9120201"))
      /\ Fair(s, N9120202(s, mode, sel), Due("N9120202")) /\ Fair(s, N9270033(s, mode, sel), Due("N9270033"))
      /\ Fair(s, N2030011(s, mode, sel), Due("N2030011")) /\ Fair(s, N9000010(s, mode, sel), Due("N9000010"))
      /\ Fair(s, N9201123(s, mode, sel), Due("N9201123")) /\ Fair(s, N9201124(s, mode, sel), Due("N9201124"))
      /\ Fair(s, N9201125(s, mode, sel), Due("N9201125")) /\ Fair(s, N9201126(s, mode, sel), Due("N9201126"))
      /\ Fair(s, N2102001(s, mode, sel), Due("N2102001")) /\ Fair(s, N10200(s, mode, sel), Due("N10200"))
      /\ Fair(s, N10201(s, mode, sel), Due("N10201")) /\ Fair(s, N10202(s, mode, sel), Due("N10202"))
      /\ Fair(s, N10203(s, mode, sel), Due("N10203")) /\ Fair(s, N10204(s, mode, sel), Due("N10204"))
  BY <1>1, TalksFree
<1>3. /\ Fair(s, N1012113(s, mode, sel), Due("N1012113")) /\ Fair(s, N1032009(s, mode, sel), Due("N1032009"))
      /\ Fair(s, N1052011(s, mode, sel), Due("N1052011")) /\ Fair(s, N1081001(s, mode, sel), Due("N1081001"))
      /\ Fair(s, N2012006(s, mode, sel), Due("N2012006")) /\ Fair(s, N2101(s, mode, sel), Due("N2101"))
      /\ Fair(s, N9101001(s, mode, sel), Due("N9101001")) /\ Fair(s, N2040002(s, mode, sel), Due("N2040002"))
      /\ Fair(s, N9201056(s, mode, sel), Due("N9201056")) /\ Fair(s, N9010022(s, mode, sel), Due("N9010022"))
      /\ Fair(s, N9060000(s, mode, sel), Due("N9060000")) /\ Fair(s, N2030000(s, mode, sel), Due("N2030000"))
      /\ Fair(s, N1061006(s, mode, sel), Due("N1061006")) /\ Fair(s, N2101018(s, mode, sel), Due("N2101018"))
      /\ Fair(s, N2091006(s, mode, sel), Due("N2091006"))
  BY <1>1, TalksLong
<1>4. /\ Fair(s, N1012114(s, mode, sel), Due("N1012114")) /\ Fair(s, N1092000(s, mode, sel), Due("N1092000"))
      /\ Fair(s, N2012002(s, mode, sel), Due("N2012002")) /\ Fair(s, N2012021(s, mode, sel), Due("N2012021"))
      /\ Fair(s, N2012022(s, mode, sel), Due("N2012022")) /\ Fair(s, N2032003(s, mode, sel), Due("N2032003"))
      /\ Fair(s, N9120015(s, mode, sel), Due("N9120015")) /\ Fair(s, N9201010(s, mode, sel), Due("N9201010"))
      /\ Fair(s, N2082002(s, mode, sel), Due("N2082002")) /\ Fair(s, N2090005(s, mode, sel), Due("N2090005"))
  BY <1>1, TalksLost
<1>5. /\ Fair(s, N2012014(s, mode, sel), Due("N2012014")) /\ Fair(s, N2012015(s, mode, sel), Due("N2012015"))
      /\ Fair(s, N2040024(s, mode, sel), Due("N2040024")) /\ Fair(s, N2040025(s, mode, sel), Due("N2040025"))
      /\ Fair(s, N2040026(s, mode, sel), Due("N2040026")) /\ Fair(s, N2040027(s, mode, sel), Due("N2040027"))
      /\ Fair(s, N2102000(s, mode, sel), Due("N2102000")) /\ Fair(s, N2040028(s, mode, sel), Due("N2040028"))
      /\ Fair(s, N9201043(s, mode, sel), Due("N9201043"))
  BY <1>1, TalksForToken
<1>6. /\ Fair(s, N1043000(s, mode, sel), Due("N1043000")) /\ Fair(s, N1043001(s, mode, sel), Due("N1043001"))
      /\ Fair(s, N1052008(s, mode, sel), Due("N1052008")) /\ Fair(s, N1052009(s, mode, sel), Due("N1052009"))
      /\ Fair(s, N1052010(s, mode, sel), Due("N1052010")) /\ Fair(s, N1063000(s, mode, sel), Due("N1063000"))
      /\ Fair(s, N1063001(s, mode, sel), Due("N1063001")) /\ Fair(s, N1063002(s, mode, sel), Due("N1063002"))
  BY <1>1, TalksForPrize
<1> QED BY <1>2, <1>3, <1>4, <1>5, <1>6

(* Instructors. *)
LEMMA InstructorsFair ==
    ASSUME NEW s, NEW mode, NEW sel
    PROVE  /\ Fair(s, N1012100(s, mode, sel), Due("N1012100")) /\ Fair(s, N1032001(s, mode, sel), Due("N1032001"))
           /\ Fair(s, N1022000(s, mode, sel), Due("N1022000")) /\ Fair(s, N1090000(s, mode, sel), Due("N1090000"))
           /\ Fair(s, N1072001(s, mode, sel), Due("N1072001")) /\ Fair(s, N1072000(s, mode, sel), Due("N1072000"))
           /\ Fair(s, N1072004(s, mode, sel), Due("N1072004")) /\ Fair(s, N1072005(s, mode, sel), Due("N1072005"))
           /\ Fair(s, N2020008(s, mode, sel), Due("N2020008")) /\ Fair(s, N2081100(s, mode, sel), Due("N2081100"))
           /\ Fair(s, N2081300(s, mode, sel), Due("N2081300")) /\ Fair(s, N2081400(s, mode, sel), Due("N2081400"))
<1>1. \A ops, U : Fair(s, ops, {}) => Fair(s, ops, U)
  BY FairMore
<1>2. /\ Fair(s, N1012100(s, mode, sel), Due("N1012100")) /\ Fair(s, N1032001(s, mode, sel), Due("N1032001"))
      /\ Fair(s, N1022000(s, mode, sel), Due("N1022000")) /\ Fair(s, N1090000(s, mode, sel), Due("N1090000"))
  BY <1>1, Trainings
<1>3. /\ Fair(s, N1072001(s, mode, sel), Due("N1072001")) /\ Fair(s, N1072000(s, mode, sel), Due("N1072000"))
      /\ Fair(s, N2020008(s, mode, sel), Due("N2020008")) /\ Fair(s, N2081100(s, mode, sel), Due("N2081100"))
      /\ Fair(s, N2081300(s, mode, sel), Due("N2081300")) /\ Fair(s, N2081400(s, mode, sel), Due("N2081400"))
  BY <1>1, Tests
<1>4. Fair(s, N1072004(s, mode, sel), Due("N1072004"))
  <2>1. {"token"} \subseteq Due("N1072004") /\ Fair(s, N1072004(s, mode, sel), {"token"})
    BY DueAre, Tests
  <2> QED BY <2>1, FairMore
<1>5. Fair(s, N1072005(s, mode, sel), Due("N1072005"))
  <2>1. {"token"} \subseteq Due("N1072005") /\ Fair(s, N1072005(s, mode, sel), {"token"})
    BY DueAre, Tests
  <2> QED BY <2>1, FairMore
<1> QED BY <1>2, <1>3, <1>4, <1>5

(* Sellers. *)
LEMMA VendorsFair ==
    ASSUME NEW s, NEW mode, NEW sel
    PROVE  /\ Fair(s, N2102002(s, mode, sel), Due("N2102002")) /\ Fair(s, N2012000(s, mode, sel), Due("N2012000"))
           /\ Fair(s, N2082000(s, mode, sel), Due("N2082000")) /\ Fair(s, N2040000(s, mode, sel), Due("N2040000"))
           /\ Fair(s, N2020005(s, mode, sel), Due("N2020005")) /\ Fair(s, N2081000(s, mode, sel), Due("N2081000"))
           /\ Fair(s, N1002100(s, mode, sel), Due("N1002100")) /\ Fair(s, N1052006(s, mode, sel), Due("N1052006"))
           /\ Fair(s, N2032001(s, mode, sel), Due("N2032001")) /\ Fair(s, N1012005(s, mode, sel), Due("N1012005"))
           /\ Fair(s, N1032100(s, mode, sel), Due("N1032100")) /\ Fair(s, N2040050(s, mode, sel), Due("N2040050"))
           /\ Fair(s, N9120010(s, mode, sel), Due("N9120010")) /\ Fair(s, N9209000(s, mode, sel), Due("N9209000"))
           /\ Fair(s, N9201005(s, mode, sel), Due("N9201005")) /\ Fair(s, N9201006(s, mode, sel), Due("N9201006"))
           /\ Fair(s, N9201007(s, mode, sel), Due("N9201007")) /\ Fair(s, N9201013(s, mode, sel), Due("N9201013"))
           /\ Fair(s, N9201014(s, mode, sel), Due("N9201014")) /\ Fair(s, N9201021(s, mode, sel), Due("N9201021"))
           /\ Fair(s, N9201022(s, mode, sel), Due("N9201022")) /\ Fair(s, N9201049(s, mode, sel), Due("N9201049"))
           /\ Fair(s, N9120013(s, mode, sel), Due("N9120013"))
<1>1. \A ops, U : Fair(s, ops, {}) => Fair(s, ops, U)
  BY FairMore
<1>2. /\ Fair(s, N2102002(s, mode, sel), Due("N2102002")) /\ Fair(s, N1002100(s, mode, sel), Due("N1002100"))
      /\ Fair(s, N1052006(s, mode, sel), Due("N1052006")) /\ Fair(s, N2032001(s, mode, sel), Due("N2032001"))
      /\ Fair(s, N1012005(s, mode, sel), Due("N1012005")) /\ Fair(s, N9201049(s, mode, sel), Due("N9201049"))
  BY <1>1, Counters
<1>3. /\ Fair(s, N2012000(s, mode, sel), Due("N2012000")) /\ Fair(s, N2082000(s, mode, sel), Due("N2082000"))
      /\ Fair(s, N2040000(s, mode, sel), Due("N2040000")) /\ Fair(s, N2020005(s, mode, sel), Due("N2020005"))
      /\ Fair(s, N2081000(s, mode, sel), Due("N2081000")) /\ Fair(s, N9120010(s, mode, sel), Due("N9120010"))
      /\ Fair(s, N9201005(s, mode, sel), Due("N9201005")) /\ Fair(s, N9201006(s, mode, sel), Due("N9201006"))
      /\ Fair(s, N9201007(s, mode, sel), Due("N9201007")) /\ Fair(s, N9201013(s, mode, sel), Due("N9201013"))
      /\ Fair(s, N9201021(s, mode, sel), Due("N9201021")) /\ Fair(s, N9201022(s, mode, sel), Due("N9201022"))
  BY <1>1, SellsNothing
<1>4. /\ Fair(s, N2040050(s, mode, sel), Due("N2040050"))
  BY <1>1, Makers
<1>5. Fair(s, N1032100(s, mode, sel), Due("N1032100"))
  <2>1. {"ore", "extra"} \subseteq Due("N1032100") /\ Fair(s, N1032100(s, mode, sel), {"ore", "extra"})
    BY DueAre, Makers
  <2> QED BY <2>1, FairMore
<1>6. Fair(s, N9209000(s, mode, sel), Due("N9209000"))
  <2>1. {"ore", "extra"} \subseteq Due("N9209000") /\ Fair(s, N9209000(s, mode, sel), {"ore", "extra"})
    BY DueAre, SellsNothing
  <2> QED BY <2>1, FairMore
<1>7. Fair(s, N9201014(s, mode, sel), Due("N9201014"))
  <2>1. {"ore", "extra"} \subseteq Due("N9201014") /\ Fair(s, N9201014(s, mode, sel), {"ore", "extra"})
    BY DueAre, SellsNothing
  <2> QED BY <2>1, FairMore
<1>8. Fair(s, N9120013(s, mode, sel), Due("N9120013"))
  <2>1. {"extra"} \subseteq Due("N9120013") /\ Fair(s, N9120013(s, mode, sel), {"extra"})
    BY DueAre, Quiz
  <2> QED BY <2>1, FairMore
<1> QED BY <1>2, <1>3, <1>4, <1>5, <1>6, <1>7, <1>8

(* Whichever is called, in either world. *)
LEMMA DispatchFair ==
    ASSUME NEW s, NEW mode, NEW sel, NEW n, s.place \in 1 .. 2
    PROVE  /\ n \in JourneyScripts => Fair(s, JourneyOps(n, s, mode, sel), Due(n))
           /\ n \in PassageScripts => Fair(s, PassageOps(n, s, mode, sel), Due(n))
           /\ n \in InstructorScripts => Fair(s, InstructorOps(n, s, mode, sel), Due(n))
           /\ n \in VendorScripts => Fair(s, VendorOps(n, s, mode, sel), Due(n))
<1>1. ASSUME n \in JourneyScripts PROVE Fair(s, JourneyOps(n, s, mode, sel), Due(n))
  BY <1>1, JourneysFair, ZenonT(120) DEF JourneyOps, JourneyScripts
<1>2. ASSUME n \in PassageScripts PROVE Fair(s, PassageOps(n, s, mode, sel), Due(n))
  BY <1>2, PassagesFair, ZenonT(120) DEF PassageOps, PassageScripts
<1>3. ASSUME n \in InstructorScripts PROVE Fair(s, InstructorOps(n, s, mode, sel), Due(n))
  BY <1>3, InstructorsFair, ZenonT(120) DEF InstructorOps, InstructorScripts
<1>4. ASSUME n \in VendorScripts PROVE Fair(s, VendorOps(n, s, mode, sel), Due(n))
  BY <1>4, VendorsFair, ZenonT(120) DEF VendorOps, VendorScripts
<1> QED BY <1>1, <1>2, <1>3, <1>4

(* World 1's files. *)
LEMMA Talk1Fair ==
    ASSUME NEW s, NEW mode, NEW sel, s.place \in 1 .. 2,
           NEW n \in JourneyScripts \cup PassageScripts \cup InstructorScripts \cup VendorScripts
    PROVE  Fair(s, Talk1(n, s, mode, sel), Due(n))
<1>1. n \in JourneyScripts => Fair(s, Talk1(n, s, mode, sel), Due(n))
  BY JourneysFair, ZenonT(300) DEF Talk1, JourneyScripts, W1012000, W1022001, W1032000,
     W1052016, W1092014, W1002000, W1002004, W1032005, W2010005, W2040048, W1002002,
     W1032003, W1061100, W1100003, W2023000, W2060009, W2081005, W2093004, W2110005,
     W22000, W9000020, W9120003, W9000012
<1>2. n \in PassageScripts => Fair(s, Talk1(n, s, mode, sel), Due(n))
  BY PassagesFair, ZenonT(300) DEF Talk1, PassageScripts, W1032004, W1061007, W2001001,
     W2001002, W2001003, W2002000, W2007, W2083002, W2030010, W9120200, W9220005, W9270038,
     W9270041, W1103005, W9103002, W9120201, W9120202, W9270033, W2030011, W9000010,
     W9201123, W9201124, W9201125, W9201126, W2102001, W10200, W10201, W10202, W10203,
     W10204, W1012113, W1032009, W1052011, W1081001, W2012006, W2101, W9101001, W2040002,
     W9201056, W9010022, W9060000, W2030000, W1061006, W2101018, W2091006, W1012114,
     W1092000, W2012002, W2012021, W2012022, W2032003, W9120015, W9201010, W2082002,
     W2090005, W2012014, W2012015, W2040024, W2040025, W2040026, W2040027, W2102000,
     W2040028, W9201043, W1043000, W1043001, W1052008, W1052009, W1052010, W1063000,
     W1063001, W1063002
<1>3. n \in InstructorScripts => Fair(s, Talk1(n, s, mode, sel), Due(n))
  BY InstructorsFair, ZenonT(300) DEF Talk1, InstructorScripts, W1012100, W1032001,
     W1022000, W1090000, W1072001, W1072000, W1072004, W1072005, W2020008, W2081100,
     W2081300, W2081400
<1>4. n \in VendorScripts => Fair(s, Talk1(n, s, mode, sel), Due(n))
  BY VendorsFair, ZenonT(300) DEF Talk1, VendorScripts, W2102002, W2012000, W2082000,
     W2040000, W2020005, W2081000, W1002100, W1052006, W2032001, W1012005, W1032100,
     W2040050, W9120010, W9209000, W9201005, W9201006, W9201007, W9201013, W9201014,
     W9201021, W9201022, W9201049, W9120013
<1> QED BY <1>1, <1>2, <1>3, <1>4

-----------------------------------------------------------------------------
(* Where a smith's conversation stands, and which answers it waits for.    *)
Laid(m, s) ==
    /\ s.g.status \in 0 .. 3
    /\ s.g.status # 0 => s.g.pick \in DOMAIN m.menu /\ m.menu[s.g.pick].kind \in Working
    /\ s.g.status = 1 => /\ m.menu[s.g.pick].counts
                         /\ m.menu[s.g.pick].kind = "offer" => s.g.item = 0
    /\ (s.g.status = 2 /\ m.menu[s.g.pick].counts) \/ s.g.status = 3
         => s.g.item + 1 \in DOMAIN m.menu[s.g.pick].recipes

(* The page after this one asks which recipe. *)
ByRecipe(m, s) ==
    \/ s.g.status = 1 /\ m.menu[s.g.pick].kind # "offer"
    \/ s.g.status = 2 /\ ~m.menu[s.g.pick].counts
Offers(m, s) ==
    /\ s.g.status = 0 => s.window \subseteq Menu(DOMAIN m.menu)
    /\ ByRecipe(m, s) => s.window \subseteq Recipes(m.menu[s.g.pick])

(* A script that is broken off does nothing more. *)
LEMMA Halted ==
    ASSUME NEW s, NEW ops, IsOps(ops), s.halt # "no"
    PROVE  RunScript(s, ops) = s
<1>1. Len(ops) \in Nat
  BY DEF IsOps
<1>2. PICK F : Rows(F, s, ops)
  BY <1>1, RunIs
<1>3. /\ F[0] = s /\ RunScript(s, ops) = F[Len(ops)]
      /\ \A i \in 1 .. Len(ops) : F[i] = Next1(F[i - 1], ops[i])
  BY <1>2 DEF Rows
<1> DEFINE T == {n \in Nat : n <= Len(ops) => F[n] = s}
<1>4. 0 \in T
  BY <1>3
<1>5. ASSUME NEW n \in Nat, n \in T PROVE n + 1 \in T
  <2> SUFFICES ASSUME n + 1 <= Len(ops) PROVE F[n + 1] = s
    OBVIOUS
  <2>1. n + 1 \in 1 .. Len(ops) /\ (n + 1) - 1 = n /\ n <= Len(ops)
    BY <1>1
  <2> QED BY <1>3, <1>5, <2>1 DEF Next1
<1>6. Len(ops) \in T
  <2> HIDE DEF T
  <2> QED BY <1>1, <1>4, <1>5, Induction
<1> QED BY <1>1, <1>3, <1>6

(* Short scripts, run. *)
LEMMA RunThree ==
    ASSUME NEW s, NEW a, NEW b, NEW c
    PROVE  RunScript(s, <<a, b, c>>) = Next1(Next1(Next1(s, a), b), c)
<1> DEFINE p == <<a, b>>
<1>1. RunScript(s, p) = Next1(Next1(s, a), b) /\ IsOps(p)
  BY RunTwo, Lists
<1>2. p \o <<c>> = <<a, b, c>>
  BY Joined
<1> HIDE DEF p
<1>3. RunScript(s, p \o <<c>>) = Next1(RunScript(s, p), c)
  BY <1>1, RunMore
<1> QED BY <1>1, <1>2, <1>3

(* Four effects in a row. *)
LEMMA RunFour ==
    ASSUME NEW s, NEW a, NEW b, NEW c, NEW d
    PROVE  RunScript(s, <<a, b, c, d>>) = Next1(Next1(Next1(Next1(s, a), b), c), d)
<1> DEFINE p == <<a, b, c>>
<1>1. RunScript(s, p) = Next1(Next1(Next1(s, a), b), c) /\ IsOps(p)
  BY RunThree, Lists
<1>2. p \o <<d>> = <<a, b, c, d>>
  BY Joined
<1> HIDE DEF p
<1>3. RunScript(s, p \o <<d>>) = Next1(RunScript(s, p), d)
  BY <1>1, RunMore
<1> QED BY <1>1, <1>2, <1>3

(* What is said and noted. *)
Going(s) == Shaped(s) /\ s.halt = "no"

(* Turning the page, noting an answer and showing a window change nothing  *)
(* else of where a conversation stands.                                    *)
LEMMA Noted ==
    ASSUME NEW s, Going(s)
    PROVE  /\ \A st : LET v == Next1(s, Goto(st)) IN
                /\ Going(v) /\ v.window = s.window /\ v.g.status = st
                /\ v.g.pick = s.g.pick /\ v.g.item = s.g.item
           /\ \A x : LET v == Next1(s, Note("pick", x)) IN
                /\ Going(v) /\ v.window = s.window /\ v.g.status = s.g.status
                /\ v.g.pick = x /\ v.g.item = s.g.item
           /\ \A x : LET v == Next1(s, Note("item", x)) IN
                /\ Going(v) /\ v.window = s.window /\ v.g.status = s.g.status
                /\ v.g.pick = s.g.pick /\ v.g.item = x
           /\ \A x : LET v == Next1(s, Note("qty", x)) IN
                /\ Going(v) /\ v.window = s.window /\ v.g.status = s.g.status
                /\ v.g.pick = s.g.pick /\ v.g.item = s.g.item
           /\ \A w : LET v == Next1(s, Say(w)) IN
                Going(v) /\ v.window \in {s.window, w} /\ v.g = s.g
<1>0. s.halt = "no" /\ \A o : Next1(s, o) = Do(s, o)
  BY DEF Going, Next1
<1>1. ASSUME NEW o, o.op = "goto"
      PROVE  LET v == Next1(s, o) IN
               /\ Going(v) /\ v.window = s.window /\ v.g.status = o.status
               /\ v.g.pick = s.g.pick /\ v.g.item = s.g.item
  <2>1. Do(s, o) = [s EXCEPT !.g.status = o.status]
    BY <1>1 DEF Do
  <2> QED BY <1>0, <2>1 DEF Going, Shaped
<1>2. ASSUME NEW o, o.op = "note", o.var = "pick"
      PROVE  LET v == Next1(s, o) IN
               /\ Going(v) /\ v.window = s.window /\ v.g.status = s.g.status
               /\ v.g.pick = o.value /\ v.g.item = s.g.item
  <2>1. Do(s, o) = [s EXCEPT !.g["pick"] = o.value]
    BY <1>2 DEF Do
  <2> QED BY <1>0, <2>1 DEF Going, Shaped
<1>3. ASSUME NEW o, o.op = "note", o.var = "item"
      PROVE  LET v == Next1(s, o) IN
               /\ Going(v) /\ v.window = s.window /\ v.g.status = s.g.status
               /\ v.g.pick = s.g.pick /\ v.g.item = o.value
  <2>1. Do(s, o) = [s EXCEPT !.g["item"] = o.value]
    BY <1>3 DEF Do
  <2> QED BY <1>0, <2>1 DEF Going, Shaped
<1>4. ASSUME NEW o, o.op = "note", o.var = "qty"
      PROVE  LET v == Next1(s, o) IN
               /\ Going(v) /\ v.window = s.window /\ v.g.status = s.g.status
               /\ v.g.pick = s.g.pick /\ v.g.item = s.g.item
  <2>1. Do(s, o) = [s EXCEPT !.g["qty"] = o.value]
    BY <1>4 DEF Do
  <2> QED BY <1>0, <2>1 DEF Going, Shaped
<1>5. ASSUME NEW o, o.op = "say"
      PROVE  LET v == Next1(s, o) IN
               Going(v) /\ v.window \in {s.window, o.window} /\ v.g = s.g
  <2>1. Do(s, o) = IF s.open THEN [s EXCEPT !.window = o.window] ELSE s
    BY <1>5 DEF Do, Said
  <2> QED BY <1>0, <2>1 DEF Going, Shaped
<1>6. /\ \A st : Goto(st).op = "goto" /\ Goto(st).status = st
      /\ \A f, x : Note(f, x).op = "note" /\ Note(f, x).var = f /\ Note(f, x).value = x
      /\ \A w : Say(w).op = "say" /\ Say(w).window = w
  BY DEF Goto, Note, Say
<1>7. \A st : LET v == Next1(s, Goto(st)) IN
        /\ Going(v) /\ v.window = s.window /\ v.g.status = st
        /\ v.g.pick = s.g.pick /\ v.g.item = s.g.item
  BY <1>1, <1>6
<1>8. \A x : LET v == Next1(s, Note("pick", x)) IN
        /\ Going(v) /\ v.window = s.window /\ v.g.status = s.g.status
        /\ v.g.pick = x /\ v.g.item = s.g.item
  BY <1>2, <1>6
<1>9. \A x : LET v == Next1(s, Note("item", x)) IN
        /\ Going(v) /\ v.window = s.window /\ v.g.status = s.g.status
        /\ v.g.pick = s.g.pick /\ v.g.item = x
  BY <1>3, <1>6
<1>10. \A x : LET v == Next1(s, Note("qty", x)) IN
        /\ Going(v) /\ v.window = s.window /\ v.g.status = s.g.status
        /\ v.g.pick = s.g.pick /\ v.g.item = s.g.item
  BY <1>4, <1>6
<1>11. \A w : LET v == Next1(s, Say(w)) IN
        Going(v) /\ v.window \in {s.window, w} /\ v.g = s.g
  BY <1>5, <1>6
<1> QED BY <1>7, <1>8, <1>9, <1>10, <1>11

(* Scripts that show no window. *)
Quiet(ops) ==
    /\ IsOps(ops)
    /\ \A u : Shaped(u) /\ u.window = {}
         => Shaped(RunScript(u, ops)) /\ RunScript(u, ops).window = {}

(* A script shows no window if none of its effects does. *)
LEMMA QuietLists ==
    /\ Quiet(<<>>)
    /\ \A o : o.op \in (Plain \cup Giving) \ {"say"} => Quiet(<<o>>)
    /\ \A p, q : Quiet(p) /\ Quiet(q) => Quiet(p \o q)
<1>1. Quiet(<<>>)
  BY Lists, RunOne DEF Quiet
<1>2. ASSUME NEW o, o.op \in (Plain \cup Giving) \ {"say"} PROVE Quiet(<<o>>)
  <2>1. ASSUME NEW u, Shaped(u), u.window = {}
        PROVE  Shaped(Next1(u, o)) /\ Next1(u, o).window = {}
    <3>1. CASE u.halt # "no"
      BY <2>1, <3>1 DEF Next1
    <3>2. CASE u.halt = "no"
      <4>1. Next1(u, o) = Do(u, o) /\ Shaped(Do(u, o))
        BY <1>2, <2>1, <3>2, DoPlain, DoGiving DEF Next1
      <4>2. CASE o.op \in Giving
        BY <2>1, <4>1, <4>2, ZenonT(60) DEF Do, Given, Got, Giving, Shaped
      <4>3. CASE o.op \in {"take", "take all", "pay"}
        BY <2>1, <4>1, <4>3, ZenonT(60) DEF Do, Taken, AllTaken, Paid, Shaped
      <4>4. CASE o.op \in {"dispose", "goto", "note", "lose", "fail", "throw", "hang"}
        BY <2>1, <4>1, <4>4, ZenonT(60) DEF Do, Disposed, NoWindow, Shaped
      <4> QED BY <1>2, <4>1, <4>2, <4>3, <4>4 DEF Plain
    <3> QED BY <3>1, <3>2
  <2> QED BY <2>1, Lists, RunOne DEF Quiet
<1>3. ASSUME NEW p, NEW q, Quiet(p), Quiet(q) PROVE Quiet(p \o q)
  <2>1. IsOps(p) /\ IsOps(q)
    BY <1>3 DEF Quiet
  <2>2. IsOps(p \o q) /\ \A u : RunScript(u, p \o q) = RunScript(RunScript(u, p), q)
    BY <2>1, Cat, RunCat
  <2> QED BY <1>3, <2>2 DEF Quiet
<1> QED BY <1>1, <1>2, <1>3

(* The effects of a smith's last page. *)
LEMMA QuietOps ==
    /\ Quiet(<<Dispose>>) /\ Quiet(<<Lose>>) /\ Quiet(<<Fail>>)
    /\ \A x, n : Quiet(<<Take(x, n)>>)
    /\ \A n : Quiet(<<Pay(n)>>)
    /\ \A x, n, p : Quiet(<<Give(x, n, p)>>)
BY QuietLists DEF Plain, Giving, Dispose, Lose, Fail, Take, Pay, Give

(* The end of a talk, said and disposed of. *)
LEMMA SaidAndDone ==
    ASSUME NEW p, NEW w, Quiet(p)
    PROVE  Quiet(p \o <<Say(w)>> \o <<Dispose>>)
<1> DEFINE q == p \o <<Say(w)>>
<1>1. IsOps(q) /\ \A u : RunScript(u, q) = Next1(RunScript(u, p), Say(w))
  BY RunMore DEF Quiet
<1> HIDE DEF q
<1>2. IsOps(q \o <<Dispose>>) /\ \A u : RunScript(u, q \o <<Dispose>>) = Next1(RunScript(u, q), Dispose)
  BY <1>1, RunMore
<1>3. ASSUME NEW u, Shaped(u), u.window = {}
      PROVE  /\ Shaped(RunScript(u, q \o <<Dispose>>))
             /\ RunScript(u, q \o <<Dispose>>).window = {}
  <2> DEFINE v == RunScript(u, p)
             x == Next1(v, Say(w))
  <2>1. Shaped(v) /\ v.window = {}
    BY <1>3 DEF Quiet
  <2>2. RunScript(u, q \o <<Dispose>>) = Next1(x, Dispose)
    BY <1>1, <1>2
  <2> HIDE DEF v
  <2>3. CASE v.halt # "no"
    BY <2>1, <2>2, <2>3 DEF Next1
  <2>4. CASE v.halt = "no"
    <3>1. Shaped(x) /\ x.halt = "no"
      BY <2>1, <2>4, Noted DEF Going
    <3> HIDE DEF x
    <3> DEFINE o == Dispose
    <3>5. o.op = "dispose"
      BY DEF Dispose
    <3> HIDE DEF o
    <3>2. Next1(x, o) = Disposed(x)
      <4>1. \A y : Do(y, o) = Disposed(y)
        BY <3>5 DEF Do
      <4> QED BY <3>1, <4>1 DEF Next1
    <3>3. Shaped(Next1(x, o))
      BY <3>1, <3>5, DoPlain DEF Plain, Next1
    <3>4. Disposed(x).window = {}
      BY <3>1 DEF Disposed, NoWindow, Shaped
    <3> QED BY <2>2, <3>2, <3>3, <3>4 DEF o
  <2> QED BY <2>3, <2>4
<1> QED BY <1>2, <1>3 DEF Quiet, q

(* A smith who has worked is done. *)
LEMMA FinishQuiet ==
    ASSUME NEW m, NEW s, NEW luck,
           m.menu[s.g.pick].priced \in BOOLEAN, m.menu[s.g.pick].stimulated \in BOOLEAN,
           m.menu[s.g.pick].recipes[s.g.item + 1] \in Shapes
    PROVE  Quiet(Finish(m, s, luck))
<1> DEFINE e == m.menu[s.g.pick]
           r == e.recipes[s.g.item + 1]
           q == s.g.qty
           fee == IF e.priced THEN <<Pay(q)>> ELSE <<>>
           ks == Materials(r, q) \o fee
           w == ks \o Goods(m, e, r, q, luck)
           none == <<>>
<1>1. Quiet(Materials(r, q))
  <2> HIDE DEF q, r
  <2> QED BY MaterialsAre, QuietOps, QuietLists DEF r
<1>2. Quiet(fee)
  <2> HIDE DEF q
  <2> QED BY QuietOps, QuietLists
<1>3. Quiet(ks)
  <2> DEFINE mm == Materials(r, q)
  <2>1. Quiet(mm)
    BY <1>1
  <2> HIDE DEF mm, fee
  <2> QED BY <1>2, <2>1, QuietLists DEF mm
<1>4. Quiet(Goods(m, e, r, q, luck))
  <2> DEFINE k == Take("stimulator", 1)
  <2>1. \A n, p : LET g == Give("goods", n, p) IN
          Quiet(<<g>>) /\ Quiet(<<k, Lose>>) /\ Quiet(<<k, Fail>>) /\ Quiet(<<k, g>>)
    <3>1. ASSUME NEW o, Quiet(<<o>>) PROVE Quiet(<<k, o>>)
      <4>1. Quiet(<<k>>)
        BY QuietOps
      <4> HIDE DEF k
      <4>2. <<k>> \o <<o>> = <<k, o>>
        BY Joined
      <4>3. \A p, q1 : Quiet(p) /\ Quiet(q1) => Quiet(p \o q1)
        BY QuietLists
      <4>4. Quiet(<<k>> \o <<o>>)
        BY <3>1, <4>1, <4>3, SMTT(60)
      <4> QED BY <4>2, <4>4
    <3> HIDE DEF k
    <3> QED BY <3>1, QuietOps
  <2> HIDE DEF k, e, r, q
  <2> QED BY <2>1 DEF Goods, k, e
<1>5. Quiet(w)
  <2> DEFINE g == Goods(m, e, r, q, luck)
  <2>1. Quiet(g)
    BY <1>4
  <2> HIDE DEF g, ks
  <2> QED BY <1>3, <2>1, QuietLists, SMTT(60) DEF g
<1>6. Work(m, e, r, q, luck) = w \o <<Say(Ok)>>
  BY DEF Work
<1> DEFINE body == CASE ~Affords(e, s, q) /\ m.stops -> <<Say(Ok)>>
                     [] Affords(e, s, q) /\ m.need = "reversed" /\ ~r.array -> <<Fail>>
                     [] ~Complete(m, e, r, s, q) -> <<Say(Ok)>>
                     [] m.stops /\ ~s.room -> <<Say(Ok)>>
                     [] OTHER -> Work(m, e, r, q, luck)
<1>7. body \in {<<Say(Ok)>>, <<Fail>>, w \o <<Say(Ok)>>}
  <2> HIDE DEF w, e, r, q
  <2> QED BY <1>6
<1>8. Quiet(w \o <<Say(Ok)>> \o <<Dispose>>)
  <2> HIDE DEF w
  <2> QED BY <1>5, SaidAndDone
<1>9. Quiet(<<Say(Ok)>> \o <<Dispose>>)
  <2>1. Quiet(none) /\ \A o : none \o <<o>> = <<o>>
    BY QuietLists
  <2> HIDE DEF none
  <2>2. Quiet(none \o <<Say(Ok)>> \o <<Dispose>>)
    BY <2>1, SaidAndDone
  <2> QED BY <2>1, <2>2
<1>10. Quiet(<<Fail>> \o <<Dispose>>)
  <2>1. Quiet(<<Fail>>) /\ Quiet(<<Dispose>>) /\ \A p, q1 : Quiet(p) /\ Quiet(q1) => Quiet(p \o q1)
    BY QuietOps, QuietLists
  <2> QED BY <2>1
<1>11. Quiet(body \o <<Dispose>>)
  <2> HIDE DEF body, w
  <2> QED BY <1>7, <1>8, <1>9, <1>10
<1> QED BY <1>11, ZenonT(60) DEF Finish

-----------------------------------------------------------------------------
(* A page of a smith leads to one that finds what it looks for.            *)
Stands(m, r) == r.halt = "failed" \/ r.window = {} \/ (Laid(m, r) /\ Offers(m, r))

(* A window and the end of the conversation leave none to answer. *)
LEMMA SaidAlone ==
    ASSUME NEW w
    PROVE  Quiet(<<Say(w), Dispose>>)
<1> DEFINE none == <<>>
<1>1. Quiet(none) /\ (\A o : none \o <<o>> = <<o>>) /\ \A a, b : <<a>> \o <<b>> = <<a, b>>
  BY QuietLists, Joined
<1> HIDE DEF none
<1>2. Quiet((none \o <<Say(w)>>) \o <<Dispose>>)
  BY <1>1, SaidAndDone
<1> QED BY <1>1, <1>2

(* The first effect of a script, then the rest. *)
LEMMA RunFirst ==
    ASSUME NEW s, NEW o, NEW q, IsOps(q)
    PROVE  RunScript(s, <<o>> \o q) = RunScript(Next1(s, o), q)
<1> DEFINE p == <<o>>
<1>1. IsOps(p) /\ RunScript(s, p) = Next1(s, o)
  BY Lists, RunOne
<1> HIDE DEF p
<1>2. RunScript(s, p \o q) = RunScript(RunScript(s, p), q)
  BY <1>1, RunCat
<1> QED BY <1>1, <1>2 DEF p

(* start shows the menu of trades at status 0. *)
LEMMA SmithOpens ==
    ASSUME NEW m, NEW s, Shaped(s), s.window = {}
    PROVE  Stands(m, RunScript(s, SmithStart(m)))
<1> DEFINE v == Next1(s, Goto(0))
           r == Next1(v, Say(Menu(DOMAIN m.menu)))
<1>1. RunScript(s, SmithStart(m)) = r
  BY RunTwo DEF SmithStart
<1>2. CASE s.halt # "no"
  BY <1>1, <1>2 DEF Next1, Stands
<1>3. CASE s.halt = "no"
  <2>1. Going(v) /\ v.window = {} /\ v.g.status = 0
    BY <1>3, Noted DEF Going
  <2> HIDE DEF v
  <2>2. r.g = v.g /\ r.window \in {v.window, Menu(DOMAIN m.menu)}
    BY <2>1, Noted
  <2> HIDE DEF r
  <2>3. Laid(m, r) /\ Offers(m, r)
    BY <2>1, <2>2 DEF Laid, Offers, ByRecipe
  <2> QED BY <1>1, <2>3 DEF Stands
<1> QED BY <1>2, <1>3

(* The answer to it names a trade of the menu; the script shows what that  *)
(* trade waits for.                                                        *)
LEMMA TradeStands ==
    ASSUME NEW m, NEW s, NEW sel, Forge(m), Going(s), s.window = {}, sel \in DOMAIN m.menu
    PROVE  Stands(m, RunScript(s, TradePage(m, sel)))
<1> DEFINE e == m.menu[sel]
           r == RunScript(s, TradePage(m, sel))
<1>0. Entry(e)
  BY DEF Forge
<1>1. CASE e.kind \in {"tell", "no menu"}
  <2>1. Quiet(TradePage(m, sel))
    <3>1. TradePage(m, sel) = <<Say(More), Dispose>> \/ TradePage(m, sel) = <<Fail>>
      BY <1>1 DEF TradePage
    <3> QED BY <3>1, SaidAlone, QuietOps
  <2> QED BY <2>1 DEF Quiet, Stands, Going
<1>2. CASE e.kind = "offer"
  <2> DEFINE o1 == Goto(1)
             o2 == Note("pick", sel)
             o3 == Note("item", 0)
             o4 == Say(YesNo)
             a == Next1(s, o1)
             b == Next1(a, o2)
             c == Next1(b, o3)
             d == Next1(c, o4)
  <2>1. TradePage(m, sel) = <<o1, o2, o3, o4>>
    BY <1>2 DEF TradePage
  <2>2. r = d
    <3> HIDE DEF o1, o2, o3, o4
    <3>1. RunScript(s, <<o1, o2, o3, o4>>) = d
      BY RunFour
    <3> QED BY <2>1, <3>1
  <2>3. Going(a) /\ a.g.status = 1
    BY Noted
  <2> HIDE DEF a
  <2>4. Going(b) /\ b.g.status = 1 /\ b.g.pick = sel
    BY <2>3, Noted
  <2> HIDE DEF b
  <2>5. Going(c) /\ c.g.status = 1 /\ c.g.pick = sel /\ c.g.item = 0
    BY <2>4, Noted
  <2> HIDE DEF c
  <2>6. d.g = c.g
    BY <2>5, Noted
  <2> HIDE DEF d, r
  <2>7. e.counts /\ e.kind \in Working
    BY <1>0, <1>2 DEF Entry, Working
  <2>8. Laid(m, d)
    BY <1>2, <2>5, <2>6, <2>7 DEF Laid
  <2>9. Offers(m, d)
    BY <1>2, <2>5, <2>6 DEF Offers, ByRecipe
  <2> QED BY <2>2, <2>8, <2>9 DEF Stands, r
<1>3. CASE e.kind \notin {"tell", "no menu", "offer"}
  <2> DEFINE st == IF e.counts THEN 1 ELSE 2
             a == Next1(s, Goto(st))
             b == Next1(a, Note("pick", sel))
             d == Next1(b, Say(Recipes(e)))
  <2>1. TradePage(m, sel) = <<Goto(st), Note("pick", sel), Say(Recipes(e))>>
    BY <1>3 DEF TradePage
  <2>2. r = d
    BY <2>1, RunThree
  <2>3. Going(a) /\ a.g.status = st /\ a.window = {}
    BY Noted
  <2> HIDE DEF a
  <2>4. Going(b) /\ b.g.status = st /\ b.g.pick = sel /\ b.window = {}
    BY <2>3, Noted
  <2> HIDE DEF b
  <2>5. d.g = b.g /\ d.window \in {b.window, Recipes(e)}
    BY <2>4, Noted
  <2> HIDE DEF d, r
  <2>6. e.kind \in Working /\ e.counts \in BOOLEAN
    BY <1>0, <1>3 DEF Entry, Working
  <2>9. d.g.status = st /\ d.g.pick = sel /\ m.menu[d.g.pick] = e
    BY <2>4, <2>5
  <2>7. Laid(m, d)
    <3>0. sel \in DOMAIN m.menu /\ e.kind # "offer"
      BY <1>3
    <3>1. CASE e.counts
      <4>1. st = 1
        BY <3>1
      <4> HIDE DEF e, st
      <4> QED BY <2>6, <2>9, <3>0, <3>1, <4>1 DEF Laid
    <3>2. CASE ~e.counts
      <4>1. st = 2
        BY <3>2
      <4> HIDE DEF e, st
      <4> QED BY <2>6, <2>9, <3>0, <3>2, <4>1 DEF Laid
    <3> QED BY <2>6, <3>1, <3>2
  <2>8. Offers(m, d)
    BY <2>4, <2>5, <2>9 DEF Offers, ByRecipe
  <2> QED BY <2>2, <2>7, <2>8 DEF Stands, r
<1> QED BY <1>1, <1>2, <1>3

(* The answer to the menu of recipes names one of the trade's. *)
LEMMA NumberStands ==
    ASSUME NEW m, NEW s, NEW sel, Forge(m), Going(s), s.window = {}, Laid(m, s), s.g.status = 1,
           ByRecipe(m, s) => sel \in 0 .. Len(m.menu[s.g.pick].recipes) - 1
    PROVE  Stands(m, RunScript(s, NumberPage(m, s, sel)))
<1> DEFINE e == m.menu[s.g.pick]
           r == RunScript(s, NumberPage(m, s, sel))
           a == Next1(s, Goto(2))
<1>0. e.kind \in Working /\ e.counts /\ s.g.pick \in DOMAIN m.menu /\ Recorded(e.recipes)
  <2>1. e.kind \in Working /\ e.counts /\ s.g.pick \in DOMAIN m.menu
    BY DEF Laid
  <2>2. Entry(e)
    BY <2>1 DEF Forge
  <2> QED BY <2>1, <2>2 DEF Entry
<1>1. Going(a) /\ a.g.status = 2 /\ a.g.pick = s.g.pick /\ a.g.item = s.g.item
  BY Noted
<1>2. Len(e.recipes) \in Nat /\ Len(e.recipes) > 0 /\ DOMAIN e.recipes = 1 .. Len(e.recipes)
  BY <1>0 DEF Recorded, IsOps
<1>3. CASE e.kind = "offer"
  <2> DEFINE d == Next1(a, Say(Number))
  <2>1. NumberPage(m, s, sel) = <<Goto(2)>> \o <<>> \o <<Say(Number)>>
    BY <1>3 DEF NumberPage
  <2>2. <<Goto(2)>> \o <<>> = <<Goto(2)>> /\ <<Goto(2)>> \o <<Say(Number)>> = <<Goto(2), Say(Number)>>
    BY Joined
  <2>3. r = d
    <3> DEFINE o1 == Goto(2)
               o2 == Say(Number)
    <3>1. NumberPage(m, s, sel) = <<o1, o2>>
      BY <2>1, <2>2
    <3>2. d = Next1(Next1(s, o1), o2)
      OBVIOUS
    <3> HIDE DEF o1, o2, d
    <3>3. RunScript(s, <<o1, o2>>) = Next1(Next1(s, o1), o2)
      BY RunTwo
    <3> QED BY <3>1, <3>2, <3>3
  <2> HIDE DEF a
  <2>4. d.g = a.g
    BY <1>1, Noted
  <2> HIDE DEF d, r
  <2>5. s.g.item = 0 /\ 0 + 1 \in DOMAIN e.recipes
    BY <1>2, <1>3 DEF Laid
  <2>6. Laid(m, d) /\ Offers(m, d)
    BY <1>0, <1>1, <2>4, <2>5 DEF Laid, Offers, ByRecipe
  <2> QED BY <2>3, <2>6 DEF Stands, r
<1>4. CASE e.kind # "offer"
  <2> DEFINE b == Next1(a, Note("item", sel))
             d == Next1(b, Say(Number))
  <2>1. NumberPage(m, s, sel) = <<Goto(2)>> \o <<Note("item", sel)>> \o <<Say(Number)>>
    BY <1>4 DEF NumberPage
  <2>2. <<Goto(2)>> \o <<Note("item", sel)>> \o <<Say(Number)>>
          = <<Goto(2), Note("item", sel), Say(Number)>>
    <3>1. <<Goto(2)>> \o <<Note("item", sel)>> = <<Goto(2), Note("item", sel)>>
      BY Joined
    <3>2. <<Goto(2), Note("item", sel)>> \o <<Say(Number)>>
            = <<Goto(2), Note("item", sel), Say(Number)>>
      BY Joined
    <3> QED BY <3>1, <3>2
  <2>3. r = d
    <3> DEFINE o1 == Goto(2)
               o2 == Note("item", sel)
               o3 == Say(Number)
    <3>1. NumberPage(m, s, sel) = <<o1, o2, o3>>
      BY <2>1, <2>2
    <3>2. d = Next1(Next1(Next1(s, o1), o2), o3)
      OBVIOUS
    <3> HIDE DEF o1, o2, o3, d
    <3>3. RunScript(s, <<o1, o2, o3>>) = Next1(Next1(Next1(s, o1), o2), o3)
      BY RunThree
    <3> QED BY <3>1, <3>2, <3>3
  <2> HIDE DEF a
  <2>4. Going(b) /\ b.g.status = 2 /\ b.g.pick = s.g.pick /\ b.g.item = sel
    BY <1>1, Noted
  <2> HIDE DEF b
  <2>5. d.g = b.g
    BY <2>4, Noted
  <2> HIDE DEF d, r
  <2>6. sel + 1 \in DOMAIN e.recipes
    <3>1. sel \in 0 .. Len(e.recipes) - 1
      BY <1>4 DEF ByRecipe
    <3> QED BY <1>2, <3>1
  <2>7. Laid(m, d) /\ Offers(m, d)
    BY <1>0, <2>4, <2>5, <2>6 DEF Laid, Offers, ByRecipe
  <2> QED BY <2>3, <2>7 DEF Stands, r
<1> QED BY <1>3, <1>4

(* So does the answer before the confirmation, in a trade that asks for no *)
(* number.                                                                 *)
LEMMA ConfirmStands ==
    ASSUME NEW m, NEW s, NEW sel, Forge(m), Going(s), s.window = {}, Laid(m, s), s.g.status = 2,
           ByRecipe(m, s) => sel \in 0 .. Len(m.menu[s.g.pick].recipes) - 1
    PROVE  Stands(m, RunScript(s, ConfirmPage(m, s, sel)))
<1> DEFINE e == m.menu[s.g.pick]
           r == RunScript(s, ConfirmPage(m, s, sel))
           a == Next1(s, Goto(3))
<1>0. /\ e.kind \in Working /\ s.g.pick \in DOMAIN m.menu /\ Recorded(e.recipes)
      /\ e.counts \in BOOLEAN
  <2>1. e.kind \in Working /\ s.g.pick \in DOMAIN m.menu
    BY DEF Laid
  <2>2. Entry(e)
    BY <2>1 DEF Forge
  <2> QED BY <2>1, <2>2 DEF Entry
<1>1. Going(a) /\ a.g.status = 3 /\ a.g.pick = s.g.pick /\ a.g.item = s.g.item
  BY Noted
<1>2. Len(e.recipes) \in Nat /\ DOMAIN e.recipes = 1 .. Len(e.recipes)
  BY <1>0 DEF Recorded, IsOps
<1>3. CASE e.kind = "no table"
  <2> DEFINE p == <<Goto(3)>>
             q == <<Fail>>
  <2>1. ConfirmPage(m, s, sel) = p \o q
    BY <1>3 DEF ConfirmPage
  <2>2. Quiet(p) /\ Quiet(q) /\ \A p1, q1 : Quiet(p1) /\ Quiet(q1) => Quiet(p1 \o q1)
    BY QuietOps, QuietLists DEF Plain, Goto
  <2> HIDE DEF p, q
  <2>3. Quiet(p \o q)
    BY <2>2
  <2>4. RunScript(s, p \o q).window = {}
    BY <2>3 DEF Quiet, Going
  <2> QED BY <2>1, <2>4 DEF Stands
<1>4. CASE e.kind # "no table" /\ e.counts
  <2> DEFINE q == <<Note("qty", sel), Say(YesNo)>>
             b == Next1(a, Note("qty", sel))
             d == Next1(b, Say(YesNo))
  <2>1. ConfirmPage(m, s, sel) = <<Goto(3)>> \o q
    BY <1>4 DEF ConfirmPage
  <2>2. r = d
    <3>1. IsOps(q) /\ RunScript(a, q) = d
      BY Lists, RunTwo
    <3> HIDE DEF q
    <3> QED BY <2>1, <3>1, RunFirst
  <2> HIDE DEF a
  <2>3. Going(b) /\ b.g.status = 3 /\ b.g.pick = s.g.pick /\ b.g.item = s.g.item
    BY <1>1, Noted
  <2> HIDE DEF b
  <2>4. d.g = b.g
    BY <2>3, Noted
  <2> HIDE DEF d, r
  <2>5. s.g.item + 1 \in DOMAIN e.recipes
    BY <1>4, ZenonT(60) DEF Laid
  <2>6. Laid(m, d) /\ Offers(m, d)
    BY <1>0, <2>3, <2>4, <2>5 DEF Laid, Offers, ByRecipe
  <2> QED BY <2>2, <2>6 DEF Stands, r
<1>5. CASE e.kind # "no table" /\ ~e.counts
  <2> DEFINE q == <<Note("item", sel), Note("qty", 1), Say(YesNo)>>
             b == Next1(a, Note("item", sel))
             c == Next1(b, Note("qty", 1))
             d == Next1(c, Say(YesNo))
  <2>1. ConfirmPage(m, s, sel) = <<Goto(3)>> \o q
    BY <1>5 DEF ConfirmPage
  <2>2. r = d
    <3>1. IsOps(q) /\ RunScript(a, q) = d
      BY Lists, RunThree
    <3> HIDE DEF q
    <3> QED BY <2>1, <3>1, RunFirst
  <2> HIDE DEF a
  <2>3. Going(b) /\ b.g.status = 3 /\ b.g.pick = s.g.pick /\ b.g.item = sel
    BY <1>1, Noted
  <2> HIDE DEF b
  <2>4. Going(c) /\ c.g.status = 3 /\ c.g.pick = s.g.pick /\ c.g.item = sel
    BY <2>3, Noted
  <2> HIDE DEF c
  <2>5. d.g = c.g
    BY <2>4, Noted
  <2> HIDE DEF d, r
  <2>6. sel + 1 \in DOMAIN e.recipes
    <3>1. sel \in 0 .. Len(e.recipes) - 1
      BY <1>5, ZenonT(60) DEF ByRecipe
    <3> QED BY <1>2, <3>1
  <2>7. Laid(m, d) /\ Offers(m, d)
    BY <1>0, <2>4, <2>5, <2>6 DEF Laid, Offers, ByRecipe
  <2> QED BY <2>2, <2>7 DEF Stands, r
<1> QED BY <1>0, <1>3, <1>4, <1>5

(* What the last page finds. *)
LEMMA Ordered ==
    ASSUME NEW m, NEW s, Forge(m), Laid(m, s), s.g.status = 3
    PROVE  /\ m.menu[s.g.pick].priced \in BOOLEAN /\ m.menu[s.g.pick].stimulated \in BOOLEAN
           /\ m.menu[s.g.pick].recipes[s.g.item + 1] \in Shapes
<1> DEFINE e == m.menu[s.g.pick]
<1>1. /\ e.kind \in Working /\ s.g.pick \in DOMAIN m.menu /\ s.g.item + 1 \in DOMAIN e.recipes
  BY DEF Laid
<1>2. Entry(e)
  BY <1>1 DEF Forge
<1>3. e.priced \in BOOLEAN /\ e.stimulated \in BOOLEAN /\ Recorded(e.recipes)
  BY <1>1, <1>2 DEF Entry
<1>4. e.recipes[s.g.item + 1] \in Shapes
  BY <1>1, <1>3 DEF Recorded, IsOps
<1> QED BY <1>3, <1>4

(* Whatever a smith is answered, he stands where the next answer finds     *)
(* what it looks for.                                                      *)
LEMMA SmithGoes ==
    ASSUME NEW m, NEW s, NEW mode, NEW sel, NEW luck,
           Forge(m), Shaped(s), s.window = {}, Laid(m, s),
           mode = 1 /\ s.g.status = 0 => sel \in DOMAIN m.menu,
           mode = 1 /\ ByRecipe(m, s) => sel \in 0 .. Len(m.menu[s.g.pick].recipes) - 1
    PROVE  Stands(m, RunScript(s, SmithPage(m, s, mode, sel, luck)))
<1>1. /\ IsOps(<<Dispose>>) /\ IsOps(TradePage(m, sel)) /\ IsOps(NumberPage(m, s, sel))
      /\ IsOps(ConfirmPage(m, s, sel))
  BY Lists, SmithAsks DEF Fair
<1>2. ASSUME NEW ops, IsOps(ops), s.halt # "no" PROVE Stands(m, RunScript(s, ops))
  BY <1>2, Halted DEF Stands
<1>3. mode # 1 => Stands(m, RunScript(s, <<Dispose>>))
  BY QuietOps DEF Quiet, Stands
<1>4. mode = 1 /\ s.g.status = 0 => Stands(m, RunScript(s, TradePage(m, sel)))
  BY <1>1, <1>2, TradeStands DEF Going
<1>5. mode = 1 /\ s.g.status = 1 => Stands(m, RunScript(s, NumberPage(m, s, sel)))
  BY <1>1, <1>2, NumberStands DEF Going
<1>6. mode = 1 /\ s.g.status = 2 => Stands(m, RunScript(s, ConfirmPage(m, s, sel)))
  BY <1>1, <1>2, ConfirmStands DEF Going
<1>7. mode = 1 /\ s.g.status = 3 => Stands(m, RunScript(s, Finish(m, s, luck)))
  BY Ordered, FinishQuiet DEF Quiet, Stands
<1>8. s.g.status \in 0 .. 3
  BY DEF Laid
<1>9. SmithPage(m, s, mode, sel, luck) =
        IF mode # 1 THEN <<Dispose>>
        ELSE IF s.g.status = 0 THEN TradePage(m, sel)
        ELSE IF s.g.status = 1 THEN NumberPage(m, s, sel)
        ELSE IF s.g.status = 2 THEN ConfirmPage(m, s, sel)
        ELSE Finish(m, s, luck)
  BY DEF SmithPage
<1>10. s.g.status = 0 \/ s.g.status = 1 \/ s.g.status = 2 \/ s.g.status = 3
  BY <1>8
<1> QED BY <1>3, <1>4, <1>5, <1>6, <1>7, <1>9, <1>10

-----------------------------------------------------------------------------
(* Whichever script the engine calls, in either world, its pages leave     *)
(* unpaid what that script may leave unpaid.  First the salons of their    *)
(* own; two of them never wait for an answer.                              *)
LEMMA OwnFair ==
    ASSUME NEW s, NEW mode, NEW sel, NEW n \in OwnSalons
    PROVE  /\ Fair(s, OwnStart(n, s), {}) /\ Fair(s, Start1(n, s), {})
           /\ n \notin {"N1012105", "N9270024"}
                => Fair(s, OwnPage(n, s, mode, sel), {}) /\ Fair(s, Page1(n, s, mode, sel), {})
<1>1. Fair(s, OwnStart(n, s), {})
  BY OwnSalonsFair, Zenon DEF OwnStart, OwnSalons
<1>2. Fair(s, Start1(n, s), {})
  BY OwnSalonsFair, Zenon DEF Start1, OwnSalons, W1012105Start, W9201039Start, W9270023Start,
     W9270024Start, W9270025Start, W9270026Start, W9270037Start, W9900000Start
<1>3. ASSUME n \notin {"N1012105", "N9270024"} PROVE Fair(s, OwnPage(n, s, mode, sel), {})
  BY <1>3, OwnSalonsFair, Zenon DEF OwnPage, OwnSalons
<1>4. ASSUME n \notin {"N1012105", "N9270024"} PROVE Fair(s, Page1(n, s, mode, sel), {})
  BY <1>4, OwnSalonsFair, Zenon DEF Page1, OwnSalons, W9201039, W9270023, W9270025, W9270026,
     W9270037, W9900000
<1> QED BY <1>1, <1>2, <1>3, <1>4

(* The smiths are found by their names. *)
SmithFiles == {"N1012002", "N1022003", "N1022004", "N1032002", "N1052002", "N1052003",
             "N1061000", "N2010003", "N2020000", "N2020002", "N2040016", "N2040020",
             "N2040021", "N2040022", "N2080000"}

(* SmithOf and SmithOf1 are tables of the same fifteen. *)
LEMMA SmithNames == Smithy = SmithFiles /\ DOMAIN SmithOf1 = SmithFiles
BY DEF Smithy, SmithOf, SmithOf1, SmithFiles

(* Each has a record as above, in either world, and the one that stops     *)
(* when the fee is missing is 1012002.                                     *)
LEMMA SmithTable ==
    ASSUME NEW n \in Smithy, NEW w \in {0, 1}
    PROVE  /\ Forge(SmithsOf(w)[n])
           /\ n = "N1012002" => SmithsOf(w)[n].stops
<1>1. SmithOf1 = SmithOf
  BY DEF SmithOf1, SmithOf, W1012002, W1022003, W1022004, W1032002, W1052002, W1052003,
     W1061000, W2010003, W2020000, W2020002, W2040016, W2040020, W2040021, W2040022, W2080000
<1>2. SmithsOf(w) = SmithOf
  BY <1>1 DEF SmithsOf
<1>3. n \in SmithFiles
  BY SmithNames
<1>4. Forge(SmithOf[n])
  BY <1>3, SmithRecords DEF SmithOf, SmithFiles
<1>5. SmithOf["N1012002"].stops
  <2>1. N1012002.stops
    BY DEF N1012002, Smith
  <2> QED BY <2>1 DEF SmithOf
<1> QED BY <1>2, <1>4, <1>5

(* The others may leave the fee unpaid. *)
LEMMA SmithDue ==
    ASSUME NEW n \in Smithy, NEW w \in {0, 1}
    PROVE  (IF SmithsOf(w)[n].stops THEN {} ELSE {"meso"}) \subseteq Due(n)
<1>1. CASE n = "N1012002"
  BY <1>1, SmithTable
<1>2. CASE n # "N1012002"
  <2>1. "meso" \in Unpaid(n)
    BY <1>2, SmithNames DEF Unpaid, SmithFiles
  <2> QED BY <2>1 DEF Due
<1> QED BY <1>1, <1>2

(* The scripts written as one definition, in either world. *)
LEMMA TalksFair ==
    ASSUME NEW s, NEW mode, NEW sel, s.place \in 1 .. 2, world \in {0, 1},
           NEW n \in JourneyScripts \cup PassageScripts \cup InstructorScripts \cup VendorScripts
    PROVE  Fair(s, TalkOps(n, s, mode, sel), Due(n))
<1>1. CASE world = 1
  <2>1. world # 0
    BY <1>1
  <2>2. TalkOps(n, s, mode, sel) = Talk1(n, s, mode, sel)
    BY <1>1, <2>1, Zenon DEF TalkOps
  <2> QED BY <2>2, Talk1Fair
<1>2. CASE world = 0
  <2>1. world # 1
    BY <1>2
  <2>2. /\ n \in JourneyScripts => Fair(s, JourneyOps(n, s, mode, sel), Due(n))
        /\ n \in PassageScripts => Fair(s, PassageOps(n, s, mode, sel), Due(n))
        /\ n \in InstructorScripts => Fair(s, InstructorOps(n, s, mode, sel), Due(n))
        /\ n \in VendorScripts => Fair(s, VendorOps(n, s, mode, sel), Due(n))
    BY DispatchFair
  <2> QED BY <1>2, <2>1, <2>2, Zenon DEF TalkOps
<1> QED BY <1>1, <1>2

(* The start of any script. *)
LEMMA StartFair ==
    ASSUME NEW s, s.place \in 1 .. 2, world \in {0, 1}, NEW n \in Scripts
    PROVE  Fair(s, StartOps(n, s), Due(n))
<1>1. \A ops : Fair(s, ops, {}) => Fair(s, ops, Due(n))
  BY FairMore
<1>2. Fair(s, SalonStart(SalonsOf(world)[n]), Due(n))
  BY <1>1, SalonsFair
<1>3. ASSUME n \in OwnSalons
      PROVE  Fair(s, IF world = 0 THEN OwnStart(n, s) ELSE Start1(n, s), Due(n))
  <2>1. Fair(s, OwnStart(n, s), {}) /\ Fair(s, Start1(n, s), {})
    BY <1>3, OwnFair
  <2> QED BY <1>1, <2>1
<1>4. Fair(s, SmithStart(SmithsOf(world)[n]), Due(n))
  BY SmithAsks
<1>5. Fair(s, GachaponStart(GachaponsOf(world)[n].town, s), Due(n))
  BY <1>1, GachaponsFair
<1>6. ASSUME n \in JourneyScripts \cup PassageScripts \cup InstructorScripts \cup VendorScripts
      PROVE  Fair(s, TalkOps(n, s, Opening, -1), Due(n))
  BY <1>6, TalksFair
<1> QED BY <1>2, <1>3, <1>4, <1>5, <1>6, Zenon DEF StartOps, Scripts, Salon, Gachapon

(* The answer to any page of it; a smith's must stand where its variables  *)
(* have been chosen.                                                       *)
LEMMA PageFair ==
    ASSUME NEW s, NEW mode, NEW sel, NEW luck, s.place \in 1 .. 2, world \in {0, 1},
           NEW n \in Scripts, n \notin {"N1012105", "N9270024"},
           n \in Smithy => Laid(SmithsOf(world)[n], s)
    PROVE  Fair(s, PageOps(n, s, mode, sel, luck), Due(n))
<1>1. \A ops : Fair(s, ops, {}) => Fair(s, ops, Due(n))
  BY FairMore
<1>2. Fair(s, SalonPage(SalonsOf(world)[n], s, mode, sel), Due(n))
  BY <1>1, SalonsFair
<1>3. ASSUME n \in OwnSalons
      PROVE  Fair(s, IF world = 0 THEN OwnPage(n, s, mode, sel) ELSE Page1(n, s, mode, sel), Due(n))
  <2>1. Fair(s, OwnPage(n, s, mode, sel), {}) /\ Fair(s, Page1(n, s, mode, sel), {})
    BY <1>3, OwnFair
  <2> QED BY <1>1, <2>1
<1>4. ASSUME n \in Smithy
      PROVE  Fair(s, SmithPage(SmithsOf(world)[n], s, mode, sel, luck), Due(n))
  <2> DEFINE m == SmithsOf(world)[n]
  <2>1. Forge(m) /\ Laid(m, s) /\ (IF m.stops THEN {} ELSE {"meso"}) \subseteq Due(n)
    BY <1>4, SmithTable, SmithDue
  <2> HIDE DEF m
  <2>2. /\ Fair(s, TradePage(m, sel), Due(n)) /\ Fair(s, NumberPage(m, s, sel), Due(n))
        /\ Fair(s, ConfirmPage(m, s, sel), Due(n))
    BY SmithAsks
  <2>3. Fair(s, <<Dispose>>, Due(n))
    BY FairTame, TameLists, TameOps
  <2>4. ASSUME s.g.status = 3 PROVE Fair(s, Finish(m, s, luck), Due(n))
    <3>1. /\ m.stops \in BOOLEAN
          /\ m.menu[s.g.pick].priced \in BOOLEAN /\ m.menu[s.g.pick].stimulated \in BOOLEAN
          /\ m.menu[s.g.pick].recipes[s.g.item + 1] \in Shapes
      BY <2>1, <2>4, Ordered DEF Forge
    <3>2. Fair(s, Finish(m, s, luck), IF m.stops THEN {} ELSE {"meso"})
      BY <3>1, SmithSells
    <3> QED BY <2>1, <3>2, FairMore
  <2>5. s.g.status \in 0 .. 3
    BY <2>1 DEF Laid
  <2>6. s.g.status \in {0, 1, 2} \/ s.g.status = 3
    BY <2>5
  <2>7. Fair(s, SmithPage(m, s, mode, sel, luck), Due(n))
    BY <2>2, <2>3, <2>4, <2>6, Zenon DEF SmithPage
  <2> QED BY <2>7 DEF m
<1>5. Fair(s, GachaponPage(GachaponsOf(world)[n].town, s, mode, sel), Due(n))
  BY <1>1, GachaponsFair
<1>6. ASSUME n \in JourneyScripts \cup PassageScripts \cup InstructorScripts \cup VendorScripts
      PROVE  Fair(s, TalkOps(n, s, mode, sel), Due(n))
  BY <1>6, TalksFair
<1> QED BY <1>2, <1>3, <1>4, <1>5, <1>6, Zenon DEF PageOps, Scripts, Salon, Gachapon

-----------------------------------------------------------------------------
(* The quiz: a window of it is its first page, or the chickens are paid.   *)
QuizAt(r) == r.window = {} \/ r.g.status = 0 \/ "extra" \in r.paid

(* From the first page to the second: the window of the second is shown    *)
(* only if taking the chickens has not thrown.                             *)
LEMMA QuizPays ==
    ASSUME NEW s, Shaped(s), s.window = {}
    PROVE  /\ Quiet(<<Goto(1)>> \o <<>>)
           /\ QuizAt(RunScript(s, <<Goto(0)>> \o <<Say(YesNo)>>))
           /\ QuizAt(RunScript(s, <<Goto(1)>> \o <<Take("extra", 1), Say(More)>>))
<1>1. \A st : Quiet(<<Goto(st)>>)
  BY QuietLists DEF Plain, Goto
<1>2. Quiet(<<Goto(1)>> \o <<>>)
  BY <1>1, QuietLists
<1>3. QuizAt(RunScript(s, <<Goto(0)>> \o <<Say(YesNo)>>))
  <2> DEFINE q == <<Say(YesNo)>>
             v == Next1(s, Goto(0))
  <2>1. IsOps(q) /\ \A u : RunScript(u, q) = Next1(u, Say(YesNo))
    BY Lists, RunOne
  <2> HIDE DEF q
  <2>2. RunScript(s, <<Goto(0)>> \o q) = Next1(v, Say(YesNo))
    BY <2>1, RunFirst
  <2>3. CASE s.halt # "no"
    BY <2>2, <2>3 DEF Next1, QuizAt, q
  <2>4. CASE s.halt = "no"
    <3>1. Going(v) /\ v.g.status = 0
      BY <2>4, Noted DEF Going
    <3> HIDE DEF v
    <3>2. Next1(v, Say(YesNo)).g = v.g
      BY <3>1, Noted
    <3> QED BY <2>2, <3>1, <3>2 DEF QuizAt, q
  <2> QED BY <2>3, <2>4
<1>4. QuizAt(RunScript(s, <<Goto(1)>> \o <<Take("extra", 1), Say(More)>>))
  <2> DEFINE k == Take("extra", 1)
             o == Say(More)
             q == <<k, o>>
             v == Next1(s, Goto(1))
             w == Next1(v, k)
             r == Next1(w, o)
  <2>1. /\ IsOps(q) /\ RunScript(v, q) = r
        /\ k.op = "take" /\ k.ware = "extra" /\ o.op = "say" /\ k.op \in Plain \ {"say"}
    BY Lists, RunTwo DEF Take, Say, Plain
  <2> HIDE DEF q, k, o
  <2>2. RunScript(s, <<Goto(1)>> \o q) = r
    BY <2>1, RunFirst
  <2>3. Shaped(v) /\ v.window = {}
    <3> DEFINE g == Goto(1)
    <3>1. Quiet(<<g>>)
      BY <1>1
    <3> HIDE DEF g
    <3>2. RunScript(s, <<g>>) = Next1(s, g)
      BY RunOne
    <3>3. Shaped(RunScript(s, <<g>>)) /\ RunScript(s, <<g>>).window = {}
      BY <3>1 DEF Quiet
    <3> QED BY <3>2, <3>3 DEF g
  <2> HIDE DEF v
  <2>4. Shaped(w) /\ w.window = {}
    <3>1. Quiet(<<k>>)
      BY <2>1, QuietLists
    <3> QED BY <2>3, <3>1, RunOne DEF Quiet
  <2>5. w.halt # "no" \/ "extra" \in w.paid
    BY <2>1, <2>3, Paying DEF Pays, Covered
  <2> HIDE DEF w
  <2>6. CASE w.halt # "no"
    BY <2>2, <2>4, <2>6 DEF Next1, QuizAt, q, k, o
  <2>7. CASE "extra" \in w.paid
    <3>1. Tame(o, {})
      BY <2>1 DEF Tame, Plain
    <3>2. w.paid \subseteq r.paid
      BY <2>4, <3>1, TameSettles DEF Settled
    <3> HIDE DEF r
    <3> QED BY <2>2, <2>7, <3>2 DEF QuizAt, q, k, o
  <2> QED BY <2>5, <2>6, <2>7
<1> QED BY <1>2, <1>3, <1>4

(* So it is after every answer. *)
LEMMA QuizGoes ==
    ASSUME NEW s, NEW mode, NEW sel, Shaped(s), s.window = {},
           mode = Opening \/ s.g.status = 0 \/ "extra" \in s.paid
    PROVE  QuizAt(RunScript(s, N9120013(s, mode, sel)))
<1>0. PICK pages : QuizHas(s, mode, sel, pages)
  BY QuizIs
<1>1. /\ PagesTame(pages, {"extra"}) /\ {1, 2} \subseteq DOMAIN pages
      /\ pages[1] = <<Say(YesNo)>> /\ pages[2] = <<Take("extra", 1), Say(More)>>
      /\ N9120013(s, mode, sel) =
           CASE mode = 0 -> Turn(s.g.status - 1, <<>>)
             [] mode = Opening /\ ~("a" \in s.begun /\ ~Owns(s, "proof", 1)) -> <<Dispose>>
             [] mode = 1 /\ s.g.status = 0 /\ ~Owns(s, "extra", 1) -> <<Say(More), Dispose>>
             [] mode = 1 /\ s.g.status \in 2 .. 6 /\ sel # 0 -> <<Say(More), Dispose>>
             [] OTHER -> Forward(s, mode, pages)
  BY <1>0 DEF QuizHas
<1>2. \A ops : Quiet(ops) => QuizAt(RunScript(s, ops))
  BY DEF Quiet, QuizAt
<1>3. QuizAt(RunScript(s, <<Dispose>>)) /\ QuizAt(RunScript(s, <<Say(More), Dispose>>))
  BY <1>2, QuietOps, SaidAlone
<1>4. QuizAt(RunScript(s, Turn(s.g.status - 1, <<>>)))
  <2>1. \A st : Quiet(<<Goto(st)>>) /\ Quiet(<<>>)
    BY QuietLists DEF Plain, Goto
  <2>2. Quiet(Turn(s.g.status - 1, <<>>))
    BY <2>1, QuietLists DEF Turn
  <2> QED BY <1>2, <2>2
<1>5. QuizAt(RunScript(s, Page(pages, 0)))
  <2>1. Page(pages, 0) = <<Goto(0)>> \o <<Say(YesNo)>>
    <3>1. Page(pages, 0) = Turn(0, pages[1])
      BY <1>1 DEF Page
    <3> QED BY <1>1, <3>1 DEF Turn
  <2> QED BY <2>1, QuizPays
<1>6. CASE "extra" \in s.paid
  <2>1. s.paid \subseteq RunScript(s, N9120013(s, mode, sel)).paid
    BY Quiz DEF Fair, Settled
  <2> QED BY <1>6, <2>1 DEF QuizAt
<1>7. CASE mode = Opening
  <2>1. Forward(s, mode, pages) = Page(pages, 0)
    BY <1>7 DEF Forward, Opening
  <2> QED BY <1>1, <1>3, <1>4, <1>5, <2>1
<1>8. CASE mode # Opening /\ s.g.status = 0
  <2>1. QuizAt(RunScript(s, Page(pages, s.g.status + 1)))
    <3>1. Page(pages, 1) = <<Goto(1)>> \o <<Take("extra", 1), Say(More)>>
      <4>1. Page(pages, 1) = Turn(1, pages[2])
        BY <1>1 DEF Page
      <4> QED BY <1>1, <4>1 DEF Turn
    <3>2. s.g.status + 1 = 1
      BY <1>8
    <3> QED BY <3>1, <3>2, QuizPays
  <2>2. Forward(s, mode, pages) \in {<<Dispose>>, Page(pages, s.g.status + 1)}
    BY <1>8 DEF Forward, Opening
  <2> QED BY <1>1, <1>3, <1>4, <2>1, <2>2
<1> QED BY <1>6, <1>7, <1>8

-----------------------------------------------------------------------------
(* The scripts' names tell them apart. *)
LEMMA Apart ==
    /\ SmithFiles \cap (DOMAIN SalonOf \cup OwnSalons) = {}
    /\ "N9120013" \notin DOMAIN SalonOf \cup OwnSalons \cup Smithy \cup Gachapon
    /\ "N9120013" \notin JourneyScripts \cup PassageScripts \cup InstructorScripts
    /\ {"N1012105", "N9270024"} \subseteq OwnSalons
    /\ {"N1012105", "N9270024"} \cap (DOMAIN SalonOf \cup Smithy) = {}
<1>1. SmithFiles \cap (DOMAIN SalonOf \cup OwnSalons) = {}
  BY DEF SmithFiles, SalonOf, OwnSalons
<1>2. "N9120013" \notin DOMAIN SalonOf \cup OwnSalons
  BY DEF SalonOf, OwnSalons
<1>3. "N9120013" \notin Smithy \cup Gachapon
  BY SmithNames DEF SmithFiles, Gachapon, GachaponOf
<1>4. "N9120013" \notin JourneyScripts \cup PassageScripts \cup InstructorScripts
  BY DEF JourneyScripts, PassageScripts, InstructorScripts
<1>5. /\ {"N1012105", "N9270024"} \subseteq OwnSalons
      /\ {"N1012105", "N9270024"} \cap (DOMAIN SalonOf \cup Smithy) = {}
  BY SmithNames DEF SmithFiles, SalonOf, OwnSalons
<1> QED BY <1>1, <1>2, <1>3, <1>4, <1>5

(* What the engine runs for a smith, for the quiz, and for the two salons  *)
(* that wait for no answer.                                                *)
LEMMA SmithCalls ==
    ASSUME NEW n \in Smithy, NEW s, NEW mode, NEW sel, NEW luck
    PROVE  /\ StartOps(n, s) = SmithStart(SmithsOf(world)[n])
           /\ PageOps(n, s, mode, sel, luck) = SmithPage(SmithsOf(world)[n], s, mode, sel, luck)
<1>1. n \notin DOMAIN SalonOf /\ n \notin OwnSalons
  BY Apart, SmithNames
<1>2. StartOps(n, s) = SmithStart(SmithsOf(world)[n])
  <2>1. n \notin Gachapon
    BY SmithNames DEF SmithFiles, Gachapon, GachaponOf
  <2> QED BY <1>1, <2>1, Zenon DEF StartOps
<1>3. PageOps(n, s, mode, sel, luck) = SmithPage(SmithsOf(world)[n], s, mode, sel, luck)
  <2>1. n \notin Gachapon
    BY SmithNames DEF SmithFiles, Gachapon, GachaponOf
  <2> QED BY <1>1, <2>1, Zenon DEF PageOps
<1> QED BY <1>2, <1>3

(* The quiz is the same in both worlds. *)
LEMMA QuizCalls ==
    ASSUME NEW s, NEW mode, NEW sel, NEW luck, world \in {0, 1}
    PROVE  /\ StartOps("N9120013", s) = N9120013(s, Opening, -1)
           /\ PageOps("N9120013", s, mode, sel, luck) = N9120013(s, mode, sel)
<1>1. ASSUME NEW md, NEW sl PROVE TalkOps("N9120013", s, md, sl) = N9120013(s, md, sl)
  <2>1. VendorOps("N9120013", s, md, sl) = N9120013(s, md, sl)
    BY DEF VendorOps
  <2>2. Talk1("N9120013", s, md, sl) = N9120013(s, md, sl)
    BY DEF Talk1, W9120013
  <2>3. CASE world = 1
    <3>1. TalkOps("N9120013", s, md, sl) = Talk1("N9120013", s, md, sl)
      BY <2>3 DEF TalkOps
    <3> QED BY <2>2, <3>1
  <2>4. CASE world = 0
    <3>1. TalkOps("N9120013", s, md, sl) = VendorOps("N9120013", s, md, sl)
      BY <2>4, Apart DEF TalkOps
    <3> QED BY <2>1, <3>1
  <2> QED BY <2>3, <2>4
<1>2. StartOps("N9120013", s) = TalkOps("N9120013", s, Opening, -1)
  BY Apart, Zenon DEF StartOps
<1>3. PageOps("N9120013", s, mode, sel, luck) = TalkOps("N9120013", s, mode, sel)
  BY Apart, Zenon DEF PageOps
<1> QED BY <1>1, <1>2, <1>3

(* Two salons fail or dispose of the conversation at once. *)
LEMMA SilentCalls ==
    ASSUME NEW n \in {"N1012105", "N9270024"}, NEW s
    PROVE  Quiet(StartOps(n, s))
<1>1. Quiet(N1012105Start) /\ Quiet(N9270024Start)
  BY QuietOps, SaidAlone DEF N1012105Start, N9270024Start
<1>2. OwnStart(n, s) = (IF n = "N1012105" THEN N1012105Start ELSE N9270024Start)
  BY DEF OwnStart
<1>3. Start1(n, s) = (IF n = "N1012105" THEN N1012105Start ELSE N9270024Start)
  BY DEF Start1, W1012105Start, W9270024Start
<1>4. n \in OwnSalons /\ n \notin DOMAIN SalonOf /\ n \notin Smithy
  BY Apart
<1>5. n \notin Gachapon
  BY DEF Gachapon, GachaponOf
<1>6. StartOps(n, s) = (IF world = 0 THEN OwnStart(n, s) ELSE Start1(n, s))
  BY <1>4, <1>5, Zenon DEF StartOps
<1> QED BY <1>1, <1>2, <1>3, <1>6

-----------------------------------------------------------------------------
(***************************************************************************)
(* The inductive invariant.  Debt says of the conversation what PaidInFull *)
(* says once something was given.  It is not inductive alone: the prize of *)
(* the quiz is given pages after the chickens are taken, and a smith's last*)
(* page gives at the price of the recipe that its variables name.  So      *)
(* whoever still waits for an answer stands on a page whose answers are    *)
(* those of its window and whose variables were chosen in the menus.       *)
(***************************************************************************)
Debt(n, r) == r.owed \subseteq r.paid \cup Unpaid(n)

Ready(w, n, r) ==
    r.window # {} =>
      /\ n \in Smithy => Laid(SmithsOf(w)[n], r) /\ Offers(SmithsOf(w)[n], r)
      /\ n = "N9120013" => r.g.status = 0 \/ "extra" \in r.paid
      /\ n \notin {"N1012105", "N9270024"}

IInv ==
    /\ world \in {0, 1} /\ npc \in Scripts
    /\ Shaped(t) /\ Debt(npc, t) /\ Ready(world, npc, t)

(* What the start of a script leaves behind. *)
LEMMA Opened ==
    ASSUME NEW s, world \in {0, 1}, npc \in Scripts,
           Shaped(s), s.window = {}, Debt(npc, s)
    PROVE  LET r == RunScript(s, StartOps(npc, s)) IN
             Shaped(r) /\ Debt(npc, r) /\ (r.halt = "failed" \/ Ready(world, npc, r))
<1> DEFINE ops == StartOps(npc, s)
           r == RunScript(s, ops)
<1>1. s.place \in 1 .. 2
  BY DEF Shaped
<1>2. Settled(s, r, Due(npc))
  <2>1. Fair(s, ops, Due(npc))
    BY <1>1, StartFair
  <2> HIDE DEF ops
  <2> QED BY <2>1 DEF Fair
<1>3. Settled(s, r, Unpaid(npc))
  <2>1. CASE npc = "N9120013"
    <3>1. ops = N9120013(s, Opening, -1)
      BY <2>1, QuizCalls
    <3>2. Fair(s, ops, {})
      BY <3>1, Quiz
    <3> HIDE DEF ops
    <3>3. Fair(s, ops, Unpaid(npc))
      BY <3>2, FairMore
    <3> QED BY <3>3 DEF Fair
  <2>2. CASE npc # "N9120013"
    BY <1>2, <2>2 DEF Due
  <2> QED BY <2>1, <2>2
<1>4. Shaped(r) /\ Debt(npc, r)
  <2> HIDE DEF r
  <2> QED BY <1>3 DEF Settled, Debt
<1>5. r.halt = "failed" \/ Ready(world, npc, r)
  <2>1. CASE npc \in Smithy
    <3> DEFINE m == SmithsOf(world)[npc]
    <3>1. ops = SmithStart(m)
      BY <2>1, SmithCalls
    <3> HIDE DEF m, ops
    <3>2. Stands(m, r)
      BY <3>1, SmithOpens
    <3>3. npc # "N9120013" /\ npc \notin {"N1012105", "N9270024"}
      BY <2>1, Apart
    <3> HIDE DEF r
    <3> QED BY <3>2, <3>3 DEF Stands, Ready, m
  <2>2. CASE npc = "N9120013"
    <3>1. ops = N9120013(s, Opening, -1)
      BY <2>2, QuizCalls
    <3> HIDE DEF ops
    <3>2. QuizAt(r)
      BY <3>1, QuizGoes
    <3>3. npc \notin Smithy /\ npc \notin {"N1012105", "N9270024"}
      BY <2>2, Apart
    <3> HIDE DEF r
    <3> QED BY <3>2, <3>3 DEF QuizAt, Ready
  <2>3. CASE npc \in {"N1012105", "N9270024"}
    <3>1. Quiet(ops)
      BY <2>3, SilentCalls
    <3> HIDE DEF ops
    <3>2. r.window = {}
      BY <3>1 DEF Quiet
    <3> HIDE DEF r
    <3> QED BY <3>2 DEF Ready
  <2>4. CASE npc \notin Smithy \cup {"N9120013", "N1012105", "N9270024"}
    <3> HIDE DEF r
    <3> QED BY <2>4 DEF Ready
  <2> QED BY <2>1, <2>2, <2>3, <2>4
<1> QED BY <1>4, <1>5

(* What an answer leaves behind. *)
LEMMA Answered ==
    ASSUME NEW s, NEW a, NEW luck, world \in {0, 1}, npc \in Scripts, Ready(world, npc, s),
           Shaped(s), a \in s.window, Debt(npc, s)
    PROVE  LET u == [s EXCEPT !.window = {}]
               r == RunScript(u, PageOps(npc, u, a[1], a[2], luck))
           IN  Shaped(r) /\ Debt(npc, r) /\ (r.halt = "failed" \/ Ready(world, npc, r))
<1> DEFINE u == [s EXCEPT !.window = {}]
           ops == PageOps(npc, u, a[1], a[2], luck)
           r == RunScript(u, ops)
<1>1. /\ Shaped(u) /\ u.window = {} /\ u.g = s.g /\ u.paid = s.paid /\ u.owed = s.owed
      /\ u.place \in 1 .. 2
  BY DEF Shaped
<1>2. /\ npc \in Smithy => Laid(SmithsOf(world)[npc], s) /\ Offers(SmithsOf(world)[npc], s)
      /\ npc = "N9120013" => s.g.status = 0 \/ "extra" \in s.paid
      /\ npc \notin {"N1012105", "N9270024"}
  BY DEF Ready
<1> HIDE DEF u
<1>3. npc \in Smithy => Laid(SmithsOf(world)[npc], u)
  BY <1>1, <1>2 DEF Laid
<1>4. Settled(u, r, Due(npc))
  <2>1. Fair(u, ops, Due(npc))
    BY <1>1, <1>2, <1>3, PageFair
  <2> HIDE DEF ops
  <2> QED BY <1>1, <2>1 DEF Fair
<1>5. Shaped(r) /\ Debt(npc, r)
  <2>1. CASE npc = "N9120013"
    <3>1. ops = N9120013(u, a[1], a[2])
      BY <2>1, QuizCalls
    <3>2. u.g.status = 0 => Settled(u, r, {})
      <4>1. u.g.status = 0 => Fair(u, ops, {})
        BY <3>1, Quiz
      <4> HIDE DEF ops
      <4> QED BY <1>1, <4>1 DEF Fair
    <3>3. Settled(u, r, {"extra"})
      <4>1. Fair(u, ops, {"extra"})
        BY <3>1, Quiz
      <4> HIDE DEF ops
      <4> QED BY <1>1, <4>1 DEF Fair
    <3> HIDE DEF r
    <3> QED BY <1>1, <1>2, <2>1, <3>2, <3>3 DEF Settled, Debt
  <2>2. CASE npc # "N9120013"
    <3> HIDE DEF r
    <3> QED BY <1>1, <1>4, <2>2 DEF Due, Settled, Debt
  <2> QED BY <2>1, <2>2
<1>6. r.halt = "failed" \/ Ready(world, npc, r)
  <2>1. CASE npc \in Smithy
    <3> DEFINE m == SmithsOf(world)[npc]
    <3>1. ops = SmithPage(m, u, a[1], a[2], luck)
      BY <2>1, SmithCalls
    <3>2. Forge(m) /\ Laid(m, u) /\ Laid(m, s) /\ Offers(m, s)
      BY <1>2, <1>3, <2>1, SmithTable
    <3>3. npc # "N9120013" /\ npc \notin {"N1012105", "N9270024"}
      BY <2>1, Apart
    <3> HIDE DEF m, ops
    <3>4. a[1] = 1 /\ u.g.status = 0 => a[2] \in DOMAIN m.menu
      BY <1>1, <3>2 DEF Offers, Menu
    <3>5. a[1] = 1 /\ ByRecipe(m, u) => a[2] \in 0 .. Len(m.menu[u.g.pick].recipes) - 1
      <4>1. ByRecipe(m, u) => ByRecipe(m, s)
        BY <1>1 DEF ByRecipe
      <4>2. ByRecipe(m, u) => a \in Menu(0 .. Len(m.menu[u.g.pick].recipes) - 1)
        BY <1>1, <3>2, <4>1 DEF Offers, Recipes
      <4> QED BY <4>2, SMTT(60) DEF Menu
    <3>6. Stands(m, r)
      BY <1>1, <3>1, <3>2, <3>4, <3>5, SmithGoes
    <3> HIDE DEF r
    <3> QED BY <3>3, <3>6 DEF Stands, Ready, m
  <2>2. CASE npc = "N9120013"
    <3>1. ops = N9120013(u, a[1], a[2])
      BY <2>2, QuizCalls
    <3> HIDE DEF ops
    <3>2. QuizAt(r)
      BY <1>1, <1>2, <2>2, <3>1, QuizGoes
    <3>3. npc \notin Smithy /\ npc \notin {"N1012105", "N9270024"}
      BY <2>2, Apart
    <3> HIDE DEF r
    <3> QED BY <3>2, <3>3 DEF QuizAt, Ready
  <2>3. CASE npc \notin Smithy \cup {"N9120013"}
    <3> HIDE DEF r
    <3> QED BY <1>2, <2>3 DEF Ready
  <2> QED BY <2>1, <2>2, <2>3
<1> QED BY <1>5, <1>6 DEF u

-----------------------------------------------------------------------------
(* A conversation that begins. *)
LEMMA Overlaid ==
    ASSUME NEW f, NEW g
    PROVE  /\ DOMAIN Over(f, g) = DOMAIN f \cup DOMAIN g
           /\ \A x \in DOMAIN f : Over(f, g)[x] = f[x]
           /\ \A x \in DOMAIN g \ DOMAIN f : Over(f, g)[x] = g[x]
BY DEF Over

UntouchedFields == {"open", "window", "g", "look", "map", "paid", "owed", "got", "full",
                    "lost", "halt"}

(* A conversation that has not begun shows no window and owes nothing. *)
LEMMA UntouchedIs ==
    /\ DOMAIN Untouched = UntouchedFields
    /\ Untouched["window"] = {} /\ Untouched["owed"] = {} /\ Untouched["g"] = Fresh
    /\ {"status", "pick", "item", "qty"} \subseteq DOMAIN Fresh
BY DEF Untouched, UntouchedFields, Fresh, NoWindow

(* Nor does it with a player p to talk to. *)
LEMMA Begun ==
    ASSUME NEW p, {"has", "job", "begun", "ended", "place"} \subseteq DOMAIN p,
           Wares \subseteq DOMAIN p.has, p.place \in 1 .. 2
    PROVE  LET s == Over(Untouched, p) IN Shaped(s) /\ s.window = {} /\ s.owed = {}
<1> DEFINE s == Over(Untouched, p)
<1>1. /\ DOMAIN s = UntouchedFields \cup DOMAIN p
      /\ \A x \in UntouchedFields : s[x] = Untouched[x]
      /\ \A x \in DOMAIN p \ UntouchedFields : s[x] = p[x]
  <2> DEFINE u == Untouched
  <2>1. DOMAIN u = UntouchedFields
    BY UntouchedIs
  <2> HIDE DEF u
  <2>2. /\ DOMAIN Over(u, p) = DOMAIN u \cup DOMAIN p
        /\ \A x \in DOMAIN u : Over(u, p)[x] = u[x]
        /\ \A x \in DOMAIN p \ DOMAIN u : Over(u, p)[x] = p[x]
    BY Overlaid
  <2> QED BY <2>1, <2>2 DEF u
<1> HIDE DEF s
<1>2. s.window = {} /\ s.owed = {} /\ s.g = Fresh
  BY <1>1, UntouchedIs DEF UntouchedFields
<1>3. s.has = p.has /\ s.place = p.place
  BY <1>1 DEF UntouchedFields
<1>4. Shaped(s)
  <2>1. {"open", "window", "g", "has", "look", "map", "job", "begun", "ended",
         "paid", "owed", "got", "full", "lost", "halt", "place"} \subseteq DOMAIN s
    BY <1>1 DEF UntouchedFields
  <2> QED BY <1>2, <1>3, <2>1, UntouchedIs DEF Shaped
<1>5. Shaped(s) /\ s.window = {} /\ s.owed = {}
  BY <1>2, <1>4
<1> QED BY <1>5 DEF s

(* It holds of every player before the first word. *)
LEMMA InitIInv == Init => IInv
<1> SUFFICES ASSUME Init PROVE IInv
  OBVIOUS
<1>1. world \in {0, 1} /\ npc \in Scripts
  BY DEF Init
<1>2. PICK has, room, level, job, place, party, begun, ended, gm :
        /\ place \in 1 .. 2
        /\ t = Over(Untouched,
                 [has |-> [x \in Wares |-> IF x \in Wanted(npc) THEN has[x] ELSE 0],
                  room |-> room, level |-> level, job |-> job, place |-> place,
                  party |-> party, begun |-> begun, ended |-> ended, gm |-> gm])
  <2>1. \A x \in If(AsksPlace, npc, 1 .. 2, 1) : x \in 1 .. 2
    BY DEF If
  <2> QED BY <2>1, ZenonT(60) DEF Init
<1> DEFINE own == [has |-> [x \in Wares |-> IF x \in Wanted(npc) THEN has[x] ELSE 0],
                   room |-> room, level |-> level, job |-> job, place |-> place,
                   party |-> party, begun |-> begun, ended |-> ended, gm |-> gm]
<1>3. /\ {"has", "job", "begun", "ended", "place"} \subseteq DOMAIN own
      /\ Wares \subseteq DOMAIN own.has /\ own.place \in 1 .. 2
  BY <1>2
<1>4. t = Over(Untouched, own)
  BY <1>2
<1> HIDE DEF own
<1>5. Shaped(t) /\ t.window = {} /\ t.owed = {}
  BY <1>3, <1>4, Begun
<1> QED BY <1>1, <1>5 DEF IInv, Debt, Ready

(* Disposing of a conversation closes its window. *)
LEMMA Closed ==
    ASSUME NEW w, NEW n, NEW s, Shaped(s), Debt(n, s)
    PROVE  Shaped(Disposed(s)) /\ Debt(n, Disposed(s)) /\ Ready(w, n, Disposed(s))
BY DEF Shaped, Debt, Ready, Disposed, NoWindow, Fresh

(* What the player does to the bag moves no page. *)
LEMMA BagAlone ==
    ASSUME NEW w, NEW n, NEW s, NEW r, Debt(n, s), Ready(w, n, s),
           r.window = s.window, r.g = s.g, r.paid = s.paid, r.owed = s.owed
    PROVE  Debt(n, r) /\ Ready(w, n, r)
BY DEF Debt, Ready, Laid, Offers, ByRecipe

(* And every step keeps it: a start, an answer, what is dropped, picked up *)
(* or moved between two answers, an interruption.                          *)
LEMMA StepIInv == IInv /\ [Next]_vars => IInv'
<1> SUFFICES ASSUME IInv, [Next]_vars PROVE IInv'
  OBVIOUS
<1>1. /\ world \in {0, 1} /\ npc \in Scripts
      /\ Shaped(t) /\ Debt(npc, t) /\ Ready(world, npc, t)
  BY DEF IInv
<1>2. CASE Talk
  <2> DEFINE s0 == Over(Untouched, t)
             s == [s0 EXCEPT !.open = TRUE]
             r == RunScript(s, StartOps(npc, s))
  <2>1. Shaped(s) /\ s.window = {} /\ Debt(npc, s)
    <3>1. /\ {"has", "job", "begun", "ended", "place"} \subseteq DOMAIN t
          /\ Wares \subseteq DOMAIN t.has /\ t.place \in 1 .. 2
      BY <1>1 DEF Shaped
    <3>2. Shaped(s0) /\ s0.window = {} /\ s0.owed = {}
      BY <3>1, Begun
    <3> HIDE DEF s0
    <3> QED BY <3>2 DEF Shaped, Debt
  <2>2. t' = (IF r.halt \in {"failed", "thrown"} THEN Disposed(r) ELSE r)
        /\ world' = world /\ npc' = npc
    BY <1>2 DEF Talk
  <2> HIDE DEF s0, s
  <2>3. Shaped(r) /\ Debt(npc, r) /\ (r.halt = "failed" \/ Ready(world, npc, r))
    BY <1>1, <2>1, Opened
  <2> HIDE DEF r
  <2>4. CASE r.halt \in {"failed", "thrown"}
    BY <1>1, <2>2, <2>3, <2>4, Closed DEF IInv
  <2>5. CASE r.halt \notin {"failed", "thrown"}
    BY <1>1, <2>2, <2>3, <2>5 DEF IInv
  <2> QED BY <2>4, <2>5
<1>3. ASSUME NEW a \in t.window, Answer(a) PROVE IInv'
  <2> DEFINE s == [t EXCEPT !.window = {}]
  <2>1. PICK luck \in BOOLEAN :
          LET r == RunScript(s, PageOps(npc, s, a[1], a[2], luck))
          IN  t' = IF r.halt = "failed" THEN Disposed(r) ELSE r
    BY <1>3 DEF Answer, NoWindow
  <2>2. world' = world /\ npc' = npc
    BY <1>3 DEF Answer
  <2> DEFINE r == RunScript(s, PageOps(npc, s, a[1], a[2], luck))
  <2>3. Shaped(r) /\ Debt(npc, r) /\ (r.halt = "failed" \/ Ready(world, npc, r))
    BY <1>1, Answered
  <2>4. t' = IF r.halt = "failed" THEN Disposed(r) ELSE r
    BY <2>1
  <2> HIDE DEF r
  <2>5. CASE r.halt = "failed"
    BY <1>1, <2>2, <2>3, <2>4, <2>5, Closed DEF IInv
  <2>6. CASE r.halt # "failed"
    BY <1>1, <2>2, <2>3, <2>4, <2>6 DEF IInv
  <2> QED BY <2>5, <2>6
<1>4. ASSUME NEW x \in Wanted(npc), DropWare(x) \/ PickUp(x) PROVE IInv'
  <2>1. world' = world /\ npc' = npc
    BY <1>4 DEF DropWare, PickUp
  <2>2. /\ Shaped(t') /\ t'.window = t.window /\ t'.g = t.g
        /\ t'.paid = t.paid /\ t'.owed = t.owed
    BY <1>1, <1>4 DEF DropWare, PickUp, Shaped
  <2>3. Debt(npc, t') /\ Ready(world, npc, t')
    BY <1>1, <2>2, BagAlone
  <2> QED BY <1>1, <2>1, <2>2, <2>3 DEF IInv
<1>5. CASE Rearrange
  <2>1. world' = world /\ npc' = npc
    BY <1>5 DEF Rearrange
  <2>2. /\ Shaped(t') /\ t'.window = t.window /\ t'.g = t.g
        /\ t'.paid = t.paid /\ t'.owed = t.owed
    BY <1>1, <1>5 DEF Rearrange, Shaped
  <2>3. Debt(npc, t') /\ Ready(world, npc, t')
    BY <1>1, <2>2, BagAlone
  <2> QED BY <1>1, <2>1, <2>2, <2>3 DEF IInv
<1>6. CASE Interrupt
  <2>1. t' = Disposed(t) /\ world' = world /\ npc' = npc
    BY <1>6 DEF Interrupt
  <2> QED BY <1>1, <2>1, Closed DEF IInv
<1>7. CASE UNCHANGED vars
  BY <1>1, <1>7 DEF IInv, vars
<1> QED BY <1>2, <1>3, <1>4, <1>5, <1>6, <1>7 DEF Next

-----------------------------------------------------------------------------
(* Every script of scripts/npc/world0 and world1 that is modelled gives    *)
(* nothing that has not been paid for, except what Unpaid names of it,     *)
(* whatever the player drops, picks up or answers between two pages: the   *)
(* checks of the pages and the calls of gainItem and gainMeso see to it.   *)
THEOREM NpcPaidInFull == Spec => []PaidInFull
<1>1. Init => IInv
  BY InitIInv
<1>2. IInv /\ [Next]_vars => IInv'
  BY StepIInv
<1>3. IInv => PaidInFull
  BY DEF IInv, Debt, PaidInFull
<1> QED BY <1>1, <1>2, <1>3, PTL DEF Spec

=============================================================================
