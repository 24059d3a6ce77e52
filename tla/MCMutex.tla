------------------------------- MODULE MCMutex -------------------------------
(* Two tasks with two ceiling mutexes and a plain one, and three tasks     *)
(* with one mutex of either kind.                                          *)
EXTENDS Mutex

CONSTANTS t1, t2, t3, c0, c1, n0

MCTasks == {t1, t2, t3}
MCipriority == t1 :> 2 @@ t2 :> 2 @@ t3 :> 1
MCtorder == <<t1, t2, t3>>
MCceilpri == c0 :> 0 @@ c1 :> 1

MCPrograms ==
  {[tasks |-> {t1, t2}, mtxs |-> {c0, c1, n0}, pris |-> Pri],
   [tasks |-> MCTasks, mtxs |-> {c1}, pris |-> {1, 2}],
   [tasks |-> MCTasks, mtxs |-> {n0}, pris |-> {1, 2}]}
=============================================================================
