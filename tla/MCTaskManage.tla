---------------------------- MODULE MCTaskManage ----------------------------
(* Three tasks, two of them of the same priority, one activated at start.  *)
EXTENDS TaskManage

CONSTANTS t1, t2, t3

MCTasks == {t1, t2, t3}
MCipriority == t1 :> 1 @@ t2 :> 1 @@ t3 :> 0
MCtorder == <<t1, t2, t3>>
=============================================================================
