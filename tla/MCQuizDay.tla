------------------------------ MODULE MCQuizDay ------------------------------
(***************************************************************************)
(* The quiz: one couple's days, with two members, days of one question and *)
(* an intimate question the couple may already have written for the second *)
(* date; and the supply of questions, with two jobs, two dates, a general  *)
(* and an intimate question in the reserve and an intimate one of the      *)
(* model's.                                                                *)
(* The two share no state: MCInit chooses the part that moves.             *)
(***************************************************************************)
EXTENDS QuizDay, QuestionPools, TLC

CONSTANTS ana, ben

VARIABLE part

Couple == {ana, ben}
OneWritten == {[from |-> "couple", date |-> 2, intimate |-> TRUE, n |-> 1]}

MCInit ==
    /\ part \in {"day", "pools"} /\ QuizInit /\ PoolsInit
    /\ part = "pools" => customs = {}

MCNext ==
    /\ UNCHANGED part
    /\ \/ part = "day" /\ QuizNext /\ UNCHANGED poolVars
       \/ part = "pools" /\ PoolsNext /\ UNCHANGED quizVars

MCSpec == MCInit /\ [][MCNext]_<<part, quizVars, poolVars>>

Symmetry == Permutations(Couple) \cup Permutations(Jobs)
=============================================================================
