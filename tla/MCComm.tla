------------------------------- MODULE MCComm -------------------------------
(* Two tasks of different priorities, and one object at a time: of each    *)
(* kind as many variants as behave differently.                            *)
EXTENDS Comm

CONSTANTS t1, t2, s1, s2, d0, d2, f1, f2, b1, b2, q1, p1,
          x, y, z, m1, m2, m3

MCTasks == {t1, t2}
MCipriority == t1 :> 1 @@ t2 :> 0
MCtorder == <<t1, t2>>

MCSems == {s1, s2}
MCDtqs == {d0, d2}
MCMbxs == {b1, b2}
MCWaitQueues ==
  MCSems \cup MCDtqs \cup {rwait_queue(d) : d \in MCDtqs}
    \cup {f1, f2} \cup MCMbxs \cup {q1, rwait_queue_pdq(q1)} \cup {p1}
MCTA_TPRI == {s1, d2, f1}

MCisemcnt == s1 :> 1 @@ s2 :> 0
MCmaxsem == s1 :> 1 @@ s2 :> 1
MCdtqcnt == d0 :> 0 @@ d2 :> 2
MCiflgptn == f1 :> {} @@ f2 :> {}
MCmsgpri == m1 :> 1 @@ m2 :> 0 @@ m3 :> 1
MCpdqcnt == q1 :> 2
MCdatapri == x :> 1 @@ y :> 0 @@ z :> 1
MCblkcnt == p1 :> 2

MCConfigurations == {{o} : o \in MCSems \cup MCDtqs \cup {f1, f2}
                                   \cup MCMbxs \cup {q1, p1}}
=============================================================================
