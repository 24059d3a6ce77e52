----------------------------- MODULE MCTaskSync -----------------------------
(* Two tasks of different priorities, one activated at start.              *)
EXTENDS TaskSync

CONSTANTS t1, t2

MCTasks == {t1, t2}
MCipriority == t1 :> 1 @@ t2 :> 0
MCtorder == <<t1, t2>>
=============================================================================
