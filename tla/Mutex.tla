-------------------------------- MODULE Mutex --------------------------------
(***************************************************************************)
(* The kernel of extension/mutex: mutexes, some with the priority ceiling  *)
(* protocol, and the functions of task.c and task_manage.c the extension   *)
(* replaces (here with the suffix _mtx).  A task now has a base priority,  *)
(* which it is given, and the priority it runs at.  What the extension     *)
(* adds to the control blocks is the record mtx: of a task bpriority and   *)
(* mutex_queue, the list of the mutexes it has locked, and of a mutex      *)
(* loctsk.  S stands for a state of the kernel, M for one of mtx.          *)
(***************************************************************************)
EXTENDS TaskSync

CONSTANTS
  Mutexes,     \* the mutexes; a mutex is named like its wait queue
  TA_CEILING,  \* those with the priority ceiling protocol
  ceilpri,     \* MTXINIB.ceilpri: the ceiling of each of them
  Programs     \* the tasks, mutexes and priorities that programs use

(* TA_CEILING, 0x03, includes the bit of TA_TPRI.                          *)
ASSUME MutexAssumption ==
  /\ Mutexes \subseteq WaitQueues
  /\ TA_CEILING \subseteq Mutexes \cap TA_TPRI
  /\ ceilpri \in [TA_CEILING -> Pri]
  /\ Programs \subseteq
       [tasks : SUBSET Tasks, mtxs : SUBSET Mutexes, pris : SUBSET Pri]

VARIABLE
  mtx,
  prog  \* the program: chosen at the start, and then constant

mtxvars == <<k, mtx>>

(* initialize_mutex, and what initialize_task sets of the new TCB fields.  *)
initialize_mutex ==
  mtx = [bpriority |-> ipriority,
         mutex_queue |-> [t \in Tasks |-> <<>>],
         loctsk |-> [m \in Mutexes |-> NULL]]

-----------------------------------------------------------------------------
(* task.c                                                                  *)

(* What make_dormant resets beside the fields in k.                        *)
make_dormant_mtx(M, t) == [M EXCEPT !.bpriority[t] = ipriority[t]]

(* As Enready, at the head of the queue.                                   *)
Enready_head(S, t) ==
  LET pri == S.priority[t]
  IN [S EXCEPT !.readyq[pri] = queue_insert_next(@, t),
               !.primap = @ \cup {pri}]

(* The part of change_priority with mtxmode for a runnable task: t goes to *)
(* the head of the ready queue of its new priority.                        *)
change_ready_priority_mtx(S, t, newpri) ==
  LET U == Unready(S, t)
      Q == Enready_head([U EXCEPT !.priority[t] = newpri], t)
      sched == search_schedtsk(Q)
  IN IF S.schedtsk = t
     THEN IF newpri >= S.priority[t]
          THEN [st |-> [Q EXCEPT !.schedtsk = sched],
                dsp |-> sched # t /\ S.dspflg]
          ELSE [st |-> Q, dsp |-> FALSE]
     ELSE IF newpri <= S.priority[S.schedtsk]
          THEN [st |-> [Q EXCEPT !.schedtsk = t], dsp |-> S.dspflg]
          ELSE [st |-> Q, dsp |-> FALSE]

(* Without mtxmode it is change_priority of Wait.tla.                      *)
change_priority_mtx(S, t, newpri) ==
  IF TSTAT_RUNNABLE(S.tstat[t]) THEN change_ready_priority_mtx(S, t, newpri)
  ELSE change_priority(S, t, newpri)

-----------------------------------------------------------------------------
(* mutex.c: the priorities                                                 *)

TSTAT_WAIT_MTX(ts) == "WAIT_MTX" \in ts

(* The ceilings of the mutexes that t has locked.                          *)
Ceilings(M, t) == {ceilpri[m] : m \in ToSet(M.mutex_queue[t]) \cap TA_CEILING}

(* No mutex that t has locked or waits for has a ceiling below bpri.       *)
mutex_check_ceilpri(S, M, t, bpri) ==
  /\ \A p \in Ceilings(M, t) : bpri >= p
  /\ LET m == WaitQueueOf(S, t)
     IN TSTAT_WAIT_MTX(S.tstat[t]) /\ m \in TA_CEILING => bpri >= ceilpri[m]

mutex_scan_ceilmtx(M, t) == Ceilings(M, t) # {}

(* Mutant: back to the base priority, whatever else is locked.             *)
mutex_calc_priority_base(M, t) == M.bpriority[t]

mutex_calc_priority(M, t) == Min({M.bpriority[t]} \cup Ceilings(M, t))

mutex_raise_priority(S, t, newpri) ==
  IF newpri < S.priority[t] THEN change_priority_mtx(S, t, newpri)
  ELSE [st |-> S, dsp |-> FALSE]

mutex_drop_priority(S, M, t, oldpri) ==
  LET newpri == mutex_calc_priority(M, t)
  IN IF oldpri = S.priority[t] /\ newpri # S.priority[t]
     THEN change_priority_mtx(S, t, newpri)
     ELSE [st |-> S, dsp |-> FALSE]

-----------------------------------------------------------------------------
(* mutex.c: locking and unlocking                                          *)

(* m is locked by t and in its list; m is no longer in it.                 *)
Linked_to(M, m, t) == [M EXCEPT !.loctsk[m] = t,
                                !.mutex_queue[t] = queue_insert_prev(@, m)]
Unlinked(M, m, t) == [M EXCEPT !.mutex_queue[t] = queue_delete(@, m)]

mutex_acquire(S, t, m) ==
  IF m \in TA_CEILING THEN mutex_raise_priority(S, t, ceilpri[m])
  ELSE [st |-> S, dsp |-> FALSE]

(* The first task that waits for m gets it, and its ceiling.               *)
NextOwner(S, m) ==
  IF queue_empty(S.waitq[m]) THEN NULL ELSE Head(S.waitq[m])

mutex_release(S, m) ==
  LET t == NextOwner(S, m)
      A == [S EXCEPT !.waitq[m] = queue_delete_next(@),
                     !.priority[t] = IF m \in TA_CEILING
                                     THEN Min({@, ceilpri[m]}) ELSE @]
  IN IF t = NULL THEN [st |-> S, dsp |-> FALSE] ELSE wait_complete(A, t)

(* Mutant: wakes the first task and leaves the mutex free.                 *)
Passed_free(M, m, t) == [M EXCEPT !.loctsk[m] = NULL]

(* What mutex_release does to mtx.                                         *)
Passed(M, m, t) ==
  IF t = NULL THEN [M EXCEPT !.loctsk[m] = NULL] ELSE Linked_to(M, m, t)

(* P is a state of both k and mtx.                                         *)
release_next(P, t) ==
  LET m == Head(P.mtx.mutex_queue[t])
      r == mutex_release(P.k, m)
  IN [st |-> [k |-> r.st,
              mtx |-> Passed(Unlinked(P.mtx, m, t), m, NextOwner(P.k, m))],
      dsp |-> r.dsp]

mutex_release_all(S, M, t) ==
  Repeat(Len(M.mutex_queue[t]), [k |-> S, mtx |-> M],
         LAMBDA P, i : release_next(P, t))

(* One of the following; further conditions return E_ILUSE or E_TMOUT.     *)
MayLock(m) == m \in TA_CEILING => mtx.bpriority[k.runtsk] >= ceilpri[m]

Lock(m) ==
  /\ MayLock(m)
  /\ mtx.loctsk[m] = NULL
  /\ mtx' = Linked_to(mtx, m, k.runtsk)
  /\ k' = mutex_acquire(k, k.runtsk, m).st

(* loc_mtx is tloc_mtx with TMO_FEVR.                                      *)
tloc_mtx(m, tmout) ==
  /\ CanDispatch
  /\ \/ Lock(m)
     \/ /\ MayLock(m)
        /\ mtx.loctsk[m] \notin {NULL, k.runtsk}
        /\ tmout # TMO_POL
        /\ k' = dispatch(wobj_make_wait_tmout(k, "WAIT_MTX", m, tmout))
        /\ UNCHANGED mtx

loc_mtx(m) == tloc_mtx(m, TMO_FEVR)

ploc_mtx(m) == TskCtxUnl /\ Lock(m)

(* What unl_mtx and ini_mtx do first to the priority of the task that had  *)
(* locked m.                                                               *)
Drop(S, M, m, t) ==
  IF m \in TA_CEILING THEN mutex_drop_priority(S, M, t, ceilpri[m])
  ELSE [st |-> S, dsp |-> FALSE]

(* Mutant: forgets that the task's own priority has dropped.               *)
unl_mtx_no_dispatch(m) ==
  /\ TskCtxUnl
  /\ mtx.loctsk[m] = k.runtsk
  /\ LET M == Unlinked(mtx, m, k.runtsk)
         d == Drop(k, M, m, k.runtsk)
     IN /\ k' = DispatchIf(mutex_release(d.st, m))
        /\ mtx' = Passed(M, m, NextOwner(d.st, m))

unl_mtx(m) ==
  /\ TskCtxUnl
  /\ mtx.loctsk[m] = k.runtsk
  /\ LET M == Unlinked(mtx, m, k.runtsk)
         d == Drop(k, M, m, k.runtsk)
         r == mutex_release(d.st, m)
     IN /\ k' = DispatchIf([st |-> r.st, dsp |-> d.dsp \/ r.dsp])
        /\ mtx' = Passed(M, m, NextOwner(d.st, m))

ini_mtx(m) ==
  /\ TskCtxUnl
  /\ LET i == init_wait_queue(k, m)
         t == mtx.loctsk[m]
         M == Passed(Unlinked(mtx, m, t), m, NULL)
         d == Drop(i.st, M, m, t)
     IN \/ t = NULL /\ k' = DispatchIf(i) /\ UNCHANGED mtx
        \/ /\ t # NULL /\ mtx' = M
           /\ k' = DispatchIf([st |-> d.st, dsp |-> i.dsp \/ d.dsp])

-----------------------------------------------------------------------------
(* task.c and task_manage.c: what the extension replaces there.            *)

initialize_task_mtx ==
  /\ initialize_task
  /\ mtx' = make_dormant_mtx(mtx, torder[k.ini])

(* Mutexes are released before the task gets its initial priority back.    *)
ext_tsk_mtx ==
  /\ TskCtx
  /\ LET E == [k EXCEPT !.disdsp = FALSE, !.ipmflg = TRUE, !.dspflg = TRUE,
                        !.lock = FALSE]
         N == make_non_runnable(E, k.runtsk).st
         a == mutex_release_all(N, mtx, k.runtsk).st
     IN /\ k' = dispatch(Restart(make_dormant(a.k, k.runtsk), k.runtsk).st)
        /\ mtx' = make_dormant_mtx(a.mtx, k.runtsk)

(* Mutant: the mutexes of the task stay locked.                            *)
ter_tsk_mtx_keep(t) == ter_tsk(t) /\ mtx' = make_dormant_mtx(mtx, t)

ter_tsk_mtx(t) ==
  /\ TskCtxUnl
  /\ t # k.runtsk
  /\ ~TSTAT_DORMANT(k.tstat[t])
  /\ LET E == IF TSTAT_RUNNABLE(k.tstat[t]) THEN make_non_runnable(k, t).st
              ELSE IF TSTAT_WAITING(k.tstat[t])
              THEN wait_dequeue_tmevtb(wait_dequeue_wobj(k, t), t)
              ELSE k
         a == mutex_release_all(E, mtx, t)
         D == [make_dormant(a.st.k, t) EXCEPT !.wercd[t] = "none"]
         r == Restart(D, t)
     IN /\ k' = DispatchIf([st |-> r.st, dsp |-> a.dsp \/ r.dsp])
        /\ mtx' = make_dormant_mtx(a.st.mtx, t)

(* The base priority; while a ceiling mutex is locked, only that.          *)
chg_pri_mtx(t, newbpri) ==
  /\ TskCtxUnl
  /\ ~TSTAT_DORMANT(k.tstat[t])
  /\ mutex_check_ceilpri(k, mtx, t, newbpri)
  /\ mtx' = [mtx EXCEPT !.bpriority[t] = newbpri]
  /\ k' = IF mutex_scan_ceilmtx(mtx, t) THEN k
          ELSE DispatchIf(change_priority(k, t, newbpri))

-----------------------------------------------------------------------------
MtxInit == Init /\ initialize_mutex /\ prog \in Programs

MtxServices(m) ==
  \/ loc_mtx(m) \/ ploc_mtx(m) \/ unl_mtx(m) \/ ini_mtx(m)
  \/ \E tmout \in Timeout : tloc_mtx(m, tmout)

MtxTaskServices(t) ==
  \/ ter_tsk_mtx(t)
  \/ \E pri \in prog.pris : chg_pri_mtx(t, pri)

(* What is the same with mutexes and without.                              *)
MtxElse ==
  \/ \E t \in prog.tasks : \/ TSTAT_DORMANT(k.tstat[t]) /\ act_tsk(t)
                           \/ rel_wai(t) \/ sus_tsk(t) \/ rsm_tsk(t)
  \/ \E pri \in prog.pris : rot_rdq(pri)
  \/ dis_dsp \/ ena_dsp \/ start_dispatch \/ idle_loop \/ Tick

MtxNext ==
  /\ \/ \E m \in prog.mtxs : MtxServices(m)
     \/ \E t \in prog.tasks : MtxTaskServices(t)
     \/ ext_tsk_mtx \/ initialize_task_mtx
     \/ MtxElse /\ UNCHANGED mtx
  /\ UNCHANGED prog

MtxSpec == MtxInit /\ [][MtxNext]_<<k, mtx, prog>>

-----------------------------------------------------------------------------
(* A task runs at its base priority or at the highest ceiling of the       *)
(* mutexes it has locked, after every order of locking, unlocking,         *)
(* initializing and changing the base priority, though mutex_drop_priority *)
(* and chg_pri compute it anew only when they think it may have changed;   *)
(* and no ceiling is ever below the base priority of a task that has       *)
(* locked the mutex or waits for it (E_ILUSE of loc_mtx and chg_pri).      *)
PriorityOK ==
  \A t \in Tasks :
    /\ k.priority[t] = Min({mtx.bpriority[t]} \cup Ceilings(mtx, t))
    /\ \A m \in TA_CEILING :
         mtx.loctsk[m] = t \/ Linked(k.waitq[m], t)
           => mtx.bpriority[t] >= ceilpri[m]

(* A mutex is locked by the task in whose list of mutexes it is, and that  *)
(* task is neither dormant nor waiting for the mutex it has; tasks wait    *)
(* only for a mutex that is locked: none is left behind by a termination,  *)
(* a timeout or an initialization.                                         *)
OwnersOK ==
  /\ \A t \in Tasks :
       /\ Unique(mtx.mutex_queue[t])
       /\ \A m \in Mutexes :
            Linked(mtx.mutex_queue[t], m) <=> mtx.loctsk[m] = t
       /\ TSTAT_DORMANT(k.tstat[t]) => mtx.mutex_queue[t] = <<>>
  /\ \A m \in Mutexes :
       /\ k.waitq[m] # <<>> => mtx.loctsk[m] # NULL
       /\ ~Linked(k.waitq[m], mtx.loctsk[m])

(* A mutex changes hands only as it should.  A free one is taken by the    *)
(* running task; a locked one is given up by its task - unlocking it, or   *)
(* being ended - to the first task that waits for it, or by ini_mtx to     *)
(* nobody; and a wait for a mutex ends with E_OK only for the task that    *)
(* gets it.                                                                *)
Ended(t) == ter_tsk_mtx(t) \/ (ext_tsk_mtx /\ t = k.runtsk)

MutexHandedOver ==
  [][\A m \in Mutexes :
       LET from == mtx.loctsk[m]
           to == mtx'.loctsk[m]
           next == IF k.waitq[m] = <<>> THEN NULL ELSE Head(k.waitq[m])
       IN /\ from = NULL => to \in {NULL, k.runtsk}
          /\ from # NULL /\ from # to =>
               \/ /\ to = next
                  /\ \/ unl_mtx(m) /\ from = k.runtsk
                     \/ Ended(from)
               \/ ini_mtx(m) /\ to = NULL
          /\ \A t \in Tasks :
               Linked(k.waitq[m], t) /\ ~Linked(k'.waitq[m], t) =>
                 (k'.wercd[t] = "E_OK" <=> to = t)]_mtxvars
=============================================================================
