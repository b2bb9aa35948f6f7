---------------------------- MODULE Instructors ----------------------------
(***************************************************************************)
(* Job advancement: scripts that make a beginner an apprentice, send the   *)
(* apprentice to a test with a letter, take the proof of the test and      *)
(* advance the job.  t.job is "beginner", "first" (the job the script is   *)
(* for), "second", "other", or "lost": the job a script left undefined is  *)
(* job 0, a beginner again.  t.level is 0 below the first advancement, 1   *)
(* below the second.                                                       *)
(***************************************************************************)
EXTENDS Conversation

(* The last steps to the second job, on a proof.  The entries of the first *)
(* menu explain the three jobs, and the fourth asks for the choice; after  *)
(* an explanation the next page asks to confirm a job nobody chose.  item  *)
(* is the job chosen, from 1.                                              *)
Chosen2(t) == IF t.g.item = 0 THEN "lost" ELSE "second"
Jobs == <<Say(Menu(0 .. 2))>>
Second(t, status, sel, tells) ==
  CASE status = 1 -> <<Say(Menu(0 .. 3))>>
    [] status = 2 /\ sel \in 0 .. 2 -> <<Say(More)>>
    [] status = 2 /\ sel = 3 -> Jobs
    [] status = 3 -> <<Note("item", IF sel \in 0 .. 2 THEN sel + 1 ELSE t.g.item), Say(YesNo)>>
    [] status = 4 -> (IF t.g.item \in tells THEN <<Say(More)>> ELSE <<>>)
                     \o <<Take("proof", 1), Become(Chosen2(t), {"proof"})>>
    [] status \in {5, 6} -> <<Say(NextPrev)>>
    [] status = 7 /\ t.g.item = 3 /\ 3 \in tells /\ t.g.pick = 4 -> <<Say(NextPrev)>>
    [] OTHER -> <<>>

(* The letter to the instructor of the test; it is handed out again when   *)
(* the player goes back a page.                                            *)
Letter(t, status, letter) ==
  CASE status = 0 -> <<Say(YesNo)>>
    [] status = 1 -> <<Say(More)>>
    [] status = 2 /\ t.room -> <<Give(letter, 1, {}), Say(NextPrev)>>
    [] status = 2 /\ ~t.room -> <<Dispose>>
    [] status = 3 -> <<Dispose>>
    [] OTHER -> <<>>

(* Bowmen and magicians, who are both asked whether they are job 200: no   *)
(* beginner gets further than the question.  The letter looked for and the *)
(* letter given are not the same.                                          *)
Adept(t, status, sel) ==
  CASE t.level < 2 -> <<>>
    [] t.level = 2 /\ Owns(t, "proof", 1) ->
         IF status = 0 THEN <<Say(More)>> ELSE Second(t, status, sel, {1, 3})
    [] t.level = 2 /\ ~Owns(t, "proof", 1) /\ ~Owns(t, "token", 1) -> Letter(t, status, "goods")
    [] OTHER -> <<>>
Master(t, mode, sel, question, others) ==
  LET status == CASE mode = Opening -> 0
                  [] mode = 1 -> t.g.status + 1
                  [] OTHER -> t.g.status - 1
  IN CASE mode = -1 -> <<Dispose>>
       [] mode = 0 /\ t.g.status = 2 -> <<Say(More), Dispose>>
       [] OTHER -> Turn(status,
            CASE t.job \in {"beginner", "lost"} /\ status = 0 -> <<Say(More)>>
              [] t.job \in {"beginner", "lost"} /\ status = 1 -> question
              [] t.job = "first" -> Adept(t, status, sel)
              [] t.job \in {"second", "other"} -> others
              [] OTHER -> <<>>)
N1012100(t, mode, sel) ==
  Master(t, mode, sel, <<Say(IF t.level > 0 THEN YesNo ELSE NextPrev)>>, <<Say(More), Dispose>>)
N1032001(t, mode, sel) == Master(t, mode, sel, <<>>, <<>>)

(* Warriors; pick is slx plus one, item is sls plus one or the job.        *)
WarriorTalk(t) ==
  CASE t.job \in {"beginner", "lost"} -> <<Note("pick", 1), Say(More)>>
    [] t.job = "first" /\ t.level < 2 -> <<Note("pick", 2), Say(Menu(0 .. 3))>>
    [] t.job = "first" /\ t.level = 2 /\ Owns(t, "proof", 1) -> <<Note("pick", 4), Say(More)>>
    [] t.job = "first" /\ t.level = 2 /\ ~Owns(t, "proof", 1) /\ ~Owns(t, "token", 1) ->
         <<Note("pick", 3), Say(YesNo)>>
    [] OTHER -> <<Say(More), Dispose>>
FirstJob(t, status) ==
  CASE status = 1 -> <<Say(IF t.level > 0 THEN YesNo ELSE NextPrev)>>
    [] status = 2 -> IF t.level > 0 THEN <<Say(More)>> ELSE <<Dispose>>
    [] status = 3 -> (IF t.job \in {"beginner", "lost"}
                        THEN <<Become("first", {}), Give("goods", 1, {})>> ELSE <<>>)
                     \o <<Say(NextPrev)>>
    [] status \in {4, 5} -> <<Say(NextPrev)>>
    [] OTHER -> <<Dispose>>
WarriorsTold(t, status, sel) ==
  CASE status = 1 -> <<Say(More)>> \o (IF sel > -1 THEN <<Note("item", sel + 1)>> ELSE <<>>)
    [] status = 2 -> <<Say(NextPrev)>>
    [] status = 3 /\ t.g.item = 4 -> <<Say(NextPrev)>>
    [] status = 4 \/ (status = 3 /\ t.g.item # 4) -> <<Dispose>>
    [] OTHER -> <<>>
N1022000(t, mode, sel) ==
  LET status == IF mode = 1 THEN t.g.status + 1 ELSE t.g.status - 1 IN
  CASE mode = Opening -> WarriorTalk(t)
    [] mode = -1 -> <<Dispose>>
    [] mode = 0 /\ t.g.status = 1 -> <<Say(More), Dispose>>
    [] OTHER -> Turn(status,
         CASE t.g.pick = 1 -> FirstJob(t, status)
           [] t.g.pick = 2 -> WarriorsTold(t, status, sel)
           [] t.g.pick = 3 -> Letter(t, status, "token")
           [] OTHER -> Second(t, status, sel, {1, 3}))

\* The talk of the second job is disposed of as soon as it begins.
N1090000(t, mode, sel) ==
  CASE mode = Opening /\ t.job = "beginner" /\ t.level > 0 -> <<Say(More)>>
    [] mode = Opening /\ ~(t.job = "beginner" /\ t.level > 0) -> <<Say(Ok), Dispose>>
    [] mode = -1 -> <<Dispose>>
    [] mode = 0 -> <<Say(Ok), Dispose>>
    [] OTHER -> Page(<<<<>>, <<Say(NextPrev)>>, <<Say(YesNo)>>,
         (IF t.job = "beginner" THEN <<Become("first", {})>> ELSE <<>>) \o <<Say(Ok), Dispose>>>>,
         t.g.status + 1)

-----------------------------------------------------------------------------
(***************************************************************************)
(* The instructors of the tests: in with the letter, out with thirty       *)
(* marbles (tokens), which are traded with the letter for the proof.       *)
(***************************************************************************)
Inside(t, mode) ==
  BackAndForth(t, mode,
    IF Owns(t, "proof", 1)
      THEN <<<<Say(More)>>, <<Say(NextPrev)>>, <<Say(NextPrev)>>, <<Say(YesNo)>>, <<Say(More)>>,
             <<Go("test", {}), Dispose>>>>
      ELSE [i \in 1 .. 6 |-> <<Say(Ok), Dispose>>])
N1072001(t, mode, sel) == Inside(t, mode)
\* removeItem does not exist for scripts.
N1072000(t, mode, sel) ==
  IF t.place = 1
    THEN BackAndForth(t, mode,
           IF Owns(t, "token", 1) THEN <<<<Say(More)>>, <<Fail>>>>
           ELSE [i \in 1 .. 2 |-> <<Say(Ok), Dispose>>])
    ELSE Inside(t, mode)
\* The marbles are counted before the question; the letter is not looked for.
OutOfTest(t, mode) ==
  CASE mode = Opening -> IF Owns(t, "token", 1) THEN <<Say(More)>> ELSE <<Say(Ok), Dispose>>
    [] mode = 1 -> <<Go("town", {}), TakeAll("token"), Take("proof", 1),
                     Give("goods", 1, {"token", "proof"}), Dispose>>
    [] OTHER -> <<Dispose>>
N1072004(t, mode, sel) == OutOfTest(t, mode)
N1072005(t, mode, sel) == OutOfTest(t, mode)

-----------------------------------------------------------------------------
(* The third job of warriors asks a conversation for the player's job.     *)
N2020008(t, mode, sel) == <<Fail>>
(* The fourth wants an answer no packet carries.                           *)
FourthJob(t, mode) ==
  Forward(t, mode, <<IF t.level < 2 THEN <<Say(Ok), Dispose>> ELSE <<Say(More)>>, <<Dispose>>>>)
N2081100(t, mode, sel) == FourthJob(t, mode)
N2081300(t, mode, sel) == FourthJob(t, mode)
N2081400(t, mode, sel) == FourthJob(t, mode)
-----------------------------------------------------------------------------
(* The script by its name, as NPCScriptManager finds the file by the id.   *)
InstructorScripts ==
  {"N1012100", "N1032001", "N1022000", "N1090000", "N1072001",
   "N1072000", "N1072004", "N1072005", "N2020008", "N2081100",
   "N2081300", "N2081400"}
InstructorOps(n, t, mode, sel) ==
  CASE n = "N1012100" -> N1012100(t, mode, sel)
    [] n = "N1032001" -> N1032001(t, mode, sel)
    [] n = "N1022000" -> N1022000(t, mode, sel)
    [] n = "N1090000" -> N1090000(t, mode, sel)
    [] n = "N1072001" -> N1072001(t, mode, sel)
    [] n = "N1072000" -> N1072000(t, mode, sel)
    [] n = "N1072004" -> N1072004(t, mode, sel)
    [] n = "N1072005" -> N1072005(t, mode, sel)
    [] n = "N2020008" -> N2020008(t, mode, sel)
    [] n = "N2081100" -> N2081100(t, mode, sel)
    [] n = "N2081300" -> N2081300(t, mode, sel)
    [] n = "N2081400" -> N2081400(t, mode, sel)
=============================================================================
