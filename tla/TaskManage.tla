----------------------------- MODULE TaskManage -----------------------------
(***************************************************************************)
(* The kernel with the services of kernel/task_manage.c, the ones of       *)
(* sys_manage.c and interrupt.c that control dispatching, those of         *)
(* task_except.c, start-up, interrupt entry and exit, and the idle loop of *)
(* arch/v850_gcc/prc_support.S.  A service call is one step: it runs with  *)
(* the CPU locked, and the dispatch() in it switches to the next task.     *)
(***************************************************************************)
EXTENDS Wait

CONSTANTS
  torder,   \* torder_table: the order in which tasks are initialized
  TA_ACT,   \* the tasks activated at start-up
  texrtn,   \* the tasks with an exception routine (TINIB.texrtn)
  MaxNest,  \* bound: nested interrupt handlers
  MaxTex    \* bound: nested task exception routines of one task

ASSUME TaskManageAssumption ==
  /\ torder \in Seq(Tasks)
  /\ Unique(torder)
  /\ TA_ACT \subseteq Tasks
  /\ texrtn \subseteq Tasks
  /\ MaxNest \in Nat
  /\ MaxTex \in Nat

(* The kernel's variables.  Beyond those of task.c and of the TCBs: lock   *)
(* is the CPU lock a task took by loc_cpu, handlers the interrupt handlers *)
(* in progress, innermost first (intnest is their number), and ini the     *)
(* progress of initialize_task; the kernel has started when it is 0.       *)
VARIABLE k

KernelInit ==
  [tstat |-> [t \in Tasks |-> TS_DORMANT],
   priority |-> ipriority,
   actque |-> [t \in Tasks |-> FALSE],
   wupque |-> [t \in Tasks |-> FALSE],
   enatex |-> [t \in Tasks |-> FALSE],
   texptn |-> [t \in Tasks |-> FALSE],
   texfrm |-> [t \in Tasks |-> <<>>],
   texlp |-> [t \in Tasks |-> FALSE],
   wercd |-> [t \in Tasks |-> "none"],
   tmo |-> [t \in Tasks |-> -1],
   readyq |-> [p \in Pri |-> <<>>],
   primap |-> {},
   waitq |-> [w \in WaitQueues |-> <<>>],
   schedtsk |-> NULL,
   runtsk |-> NULL,
   dspflg |-> TRUE,
   disdsp |-> FALSE,
   ipmflg |-> TRUE,
   reqflg |-> FALSE,
   lock |-> FALSE,
   handlers |-> <<>>,
   ini |-> 1]

-----------------------------------------------------------------------------
(* Start-up: one iteration of the loop of initialize_task, and the first   *)
(* dispatch.                                                               *)

initialize_task ==
  /\ k.ini \in DOMAIN torder
  /\ LET t == torder[k.ini]
         I == [make_dormant(k, t) EXCEPT !.ini = @ + 1]
     IN k' = IF t \in TA_ACT THEN make_active(I, t).st ELSE I

start_dispatch ==
  /\ k.ini = Len(torder) + 1
  /\ k' = [dispatch(k) EXCEPT !.ini = 0]

-----------------------------------------------------------------------------
(* What a caller of a service checks first: CHECK_TSKCTX,                  *)
(* CHECK_TSKCTX_UNL, CHECK_INTCTX_UNL and CHECK_DISPATCH of check.h.  A    *)
(* call that fails a check returns an error and changes nothing: no step.  *)

TskCtx == k.ini = 0 /\ k.handlers = <<>> /\ k.runtsk # NULL
TskCtxUnl == TskCtx /\ ~k.lock
IntCtxUnl == k.handlers # <<>> /\ Head(k.handlers) = "int"
CanDispatch == TskCtxUnl /\ k.dspflg

-----------------------------------------------------------------------------
(* task_manage.c                                                           *)

act_tsk(t) ==
  /\ TskCtxUnl
  /\ \/ /\ TSTAT_DORMANT(k.tstat[t])
        /\ k' = DispatchIf(make_active(k, t))
     \/ /\ ~TSTAT_DORMANT(k.tstat[t]) /\ ~k.actque[t]
        /\ k' = [k EXCEPT !.actque[t] = TRUE]

iact_tsk(t) ==
  /\ IntCtxUnl
  /\ \/ /\ TSTAT_DORMANT(k.tstat[t])
        /\ k' = RequestIf(make_active(k, t))
     \/ /\ ~TSTAT_DORMANT(k.tstat[t]) /\ ~k.actque[t]
        /\ k' = [k EXCEPT !.actque[t] = TRUE]

can_act(t) ==
  /\ TskCtxUnl
  /\ k' = [k EXCEPT !.actque[t] = FALSE]

(* A task that is made dormant with an activation queued starts anew.      *)
Restart(S, t) ==
  IF S.actque[t] THEN make_active([S EXCEPT !.actque[t] = FALSE], t)
  ELSE [st |-> S, dsp |-> FALSE]

(* All that held dispatching back is lifted, the CPU lock included.        *)
ext_tsk ==
  /\ TskCtx
  /\ LET E == [k EXCEPT !.disdsp = FALSE, !.ipmflg = TRUE, !.dspflg = TRUE,
                        !.lock = FALSE]
         D == make_dormant(make_non_runnable(E, k.runtsk).st, k.runtsk)
     IN k' = dispatch(Restart(D, k.runtsk).st)

ter_tsk(t) ==
  /\ TskCtxUnl
  /\ t # k.runtsk
  /\ ~TSTAT_DORMANT(k.tstat[t])
  /\ LET E == IF TSTAT_RUNNABLE(k.tstat[t]) THEN make_non_runnable(k, t).st
              ELSE IF TSTAT_WAITING(k.tstat[t])
              THEN wait_dequeue_tmevtb(wait_dequeue_wobj(k, t), t)
              ELSE k
         D == [make_dormant(E, t) EXCEPT !.wercd[t] = "none"]
     IN k' = DispatchIf(Restart(D, t))

chg_pri(t, newpri) ==
  /\ TskCtxUnl
  /\ ~TSTAT_DORMANT(k.tstat[t])
  /\ k' = DispatchIf(change_priority(k, t, newpri))

-----------------------------------------------------------------------------
(* sys_manage.c and interrupt.c                                            *)

rot_rdq(pri) ==
  /\ TskCtxUnl
  /\ k' = DispatchIf(rotate_ready_queue(k, pri))

irot_rdq(pri) ==
  /\ IntCtxUnl
  /\ k' = RequestIf(rotate_ready_queue(k, pri))

loc_cpu ==
  /\ TskCtx
  /\ k' = [k EXCEPT !.lock = TRUE]

unl_cpu ==
  /\ TskCtx
  /\ k' = [k EXCEPT !.lock = FALSE]

dis_dsp ==
  /\ TskCtxUnl
  /\ k' = [k EXCEPT !.disdsp = TRUE, !.dspflg = FALSE]

(* Mutant: does not look whether a dispatch has become necessary.          *)
ena_dsp_no_dispatch ==
  /\ TskCtxUnl
  /\ k' = [k EXCEPT !.disdsp = FALSE, !.dspflg = k.ipmflg \/ @]

ena_dsp ==
  /\ TskCtxUnl
  /\ LET E == [k EXCEPT !.disdsp = FALSE, !.dspflg = k.ipmflg \/ @]
     IN k' = IF k.ipmflg /\ k.runtsk # k.schedtsk THEN dispatch(E) ELSE E

(* Mutant: enables dispatching although dis_dsp has disabled it.           *)
chg_ipm_enaall_always ==
  /\ TskCtxUnl
  /\ k' = [k EXCEPT !.ipmflg = TRUE, !.dspflg = TRUE]

(* intpri = TIPM_ENAALL: all interrupts enabled again.  A task that the    *)
(* dispatch() switches out tests its exceptions when it is back; as then   *)
(* dispatch_r has done it, only the call without a dispatch tests here.    *)
chg_ipm_enaall ==
  /\ TskCtxUnl
  /\ LET E == [k EXCEPT !.ipmflg = TRUE,
                        !.dspflg = IF k.disdsp THEN @ ELSE TRUE]
     IN k' = IF ~k.disdsp /\ k.runtsk # k.schedtsk THEN dispatch(E)
             ELSE IF k.enatex[k.runtsk] /\ k.texptn[k.runtsk]
             THEN call_texrtn(E) ELSE E

(* Any other intpri: some interrupt priorities are masked.                 *)
chg_ipm_mask ==
  /\ TskCtxUnl
  /\ k' = [k EXCEPT !.ipmflg = FALSE, !.dspflg = FALSE]

-----------------------------------------------------------------------------
(* task_except.c                                                           *)

ras_tex(t) ==
  /\ TskCtxUnl
  /\ t \in texrtn /\ ~TSTAT_DORMANT(k.tstat[t])
  /\ LET R == [k EXCEPT !.texptn[t] = TRUE]
     IN k' = IF t = k.runtsk THEN calltex(R) ELSE R

iras_tex(t) ==
  /\ IntCtxUnl
  /\ t \in texrtn /\ ~TSTAT_DORMANT(k.tstat[t])
  /\ k' = [k EXCEPT !.texptn[t] = TRUE,
                    !.reqflg = \/ @
                               \/ t = k.runtsk /\ k.enatex[t] /\ k.ipmflg]

dis_tex ==
  /\ TskCtxUnl
  /\ k.runtsk \in texrtn
  /\ k' = [k EXCEPT !.enatex[k.runtsk] = FALSE]

ena_tex ==
  /\ TskCtxUnl
  /\ k.runtsk \in texrtn
  /\ Len(k.texfrm[k.runtsk]) < MaxTex
  /\ k' = calltex([k EXCEPT !.enatex[k.runtsk] = TRUE])

(* The exception routine returns into call_texrtn, which undoes whatever   *)
(* the routine left locked, masked or disabled.                            *)
texrtn_return ==
  /\ TskCtx
  /\ k.texfrm[k.runtsk] # <<>>
  /\ LET t == k.runtsk
         saved == Head(k.texfrm[t])
         R == [k EXCEPT !.lock = FALSE, !.ipmflg = TRUE, !.disdsp = saved,
                        !.dspflg = ~saved, !.enatex[t] = FALSE]
     IN k' = IF t # k.schedtsk /\ ~saved
             THEN dispatch([R EXCEPT !.texlp[t] = TRUE])
             ELSE call_texrtn_until(R)

-----------------------------------------------------------------------------
(* Interrupts.  A task takes them unless it holds the CPU lock.            *)

Interrupt(kind) ==
  /\ k.ini = 0 /\ ~k.lock
  /\ Len(k.handlers) < MaxNest
  /\ k' = [k EXCEPT !.handlers = <<kind>> \o @]

int_entry == Interrupt("int")

(* Mutant: only dispatches.                                                *)
return_to_task_no_tex(S) ==
  LET R == [S EXCEPT !.reqflg = FALSE]
  IN IF S.reqflg /\ S.dspflg /\ S.ipmflg /\ S.schedtsk # S.runtsk
     THEN dispatch(R) ELSE R

(* return_to_task: the end of the outermost handler that interrupted a     *)
(* task.  A handler that interrupted the idle loop returns into the loop.  *)
return_to_task(S) ==
  LET R == [S EXCEPT !.reqflg = FALSE]
      t == S.runtsk
  IN IF ~S.reqflg THEN S
     ELSE IF S.dspflg /\ S.ipmflg /\ S.schedtsk # t THEN dispatch(R)
     ELSE IF S.enatex[t] /\ S.texptn[t] THEN call_texrtn(R)
     ELSE R

end_int_handler(S) ==
  LET H == [S EXCEPT !.handlers = Tail(@)]
  IN IF H.handlers = <<>> /\ H.runtsk # NULL THEN return_to_task(H) ELSE H

int_return ==
  /\ IntCtxUnl
  /\ k' = end_int_handler(k)

(* The idle loop finds reqflg set after an interrupt.                      *)
idle_loop ==
  /\ k.ini = 0 /\ k.handlers = <<>> /\ k.runtsk = NULL
  /\ k.reqflg
  /\ k' = dispatch([k EXCEPT !.reqflg = FALSE])

-----------------------------------------------------------------------------
Init == k = KernelInit

TaskServices ==
  \/ \E t \in Tasks : act_tsk(t) \/ can_act(t) \/ ter_tsk(t) \/ ras_tex(t)
  \/ \E t \in Tasks, pri \in Pri : chg_pri(t, pri)
  \/ \E pri \in Pri : rot_rdq(pri)
  \/ ext_tsk
  \/ loc_cpu \/ unl_cpu \/ dis_dsp \/ ena_dsp
  \/ chg_ipm_enaall \/ chg_ipm_mask
  \/ dis_tex \/ ena_tex \/ texrtn_return

HandlerServices ==
  \/ \E t \in Tasks : iact_tsk(t) \/ iras_tex(t)
  \/ \E pri \in Pri : irot_rdq(pri)

Kernel == initialize_task \/ start_dispatch \/ int_entry \/ int_return
            \/ idle_loop

Next == TaskServices \/ HandlerServices \/ Kernel

Spec == Init /\ [][Next]_k

-----------------------------------------------------------------------------
(* Every variable has its type.                                            *)
KernelState ==
  [tstat : [Tasks -> TStat],
   priority : [Tasks -> Pri],
   actque : [Tasks -> BOOLEAN],
   wupque : [Tasks -> BOOLEAN],
   enatex : [Tasks -> BOOLEAN],
   texptn : [Tasks -> BOOLEAN],
   texfrm : [Tasks -> Seq(BOOLEAN)],
   texlp : [Tasks -> BOOLEAN],
   wercd : [Tasks -> {"none", "E_OK", "E_TMOUT", "E_RLWAI", "E_DLT"}],
   tmo : [Tasks -> Int],
   readyq : [Pri -> Seq(Tasks)],
   primap : SUBSET Pri,
   waitq : [WaitQueues -> Seq(Tasks)],
   schedtsk : Tasks \cup {NULL},
   runtsk : Tasks \cup {NULL},
   dspflg : BOOLEAN,
   disdsp : BOOLEAN,
   ipmflg : BOOLEAN,
   reqflg : BOOLEAN,
   lock : BOOLEAN,
   handlers : Seq({"int", "tick"}),
   ini : Nat]

TypeOK == k \in KernelState

(* The ready queues hold every runnable task once, in the queue of its     *)
(* current priority, the bitmap has the bits of the non-empty queues, and  *)
(* p_schedtsk is the first task of the highest of them: what every caller  *)
(* of make_runnable, make_non_runnable, change_priority and                *)
(* rotate_ready_queue (task.c) relies on, none of which looks again.       *)
QueuesOK(S) ==
  /\ \A p \in Pri : Unique(S.readyq[p])
  /\ \A p \in Pri : \A i \in DOMAIN S.readyq[p] :
        S.priority[S.readyq[p][i]] = p
  /\ S.primap = {p \in Pri : S.readyq[p] # <<>>}

SchedOK(S) ==
  IF S.primap = {} THEN S.schedtsk = NULL
  ELSE /\ S.schedtsk # NULL
       /\ S.schedtsk = search_schedtsk(S)

Ready(S) == {t \in Tasks : \E p \in Pri : Linked(S.readyq[p], t)}

RunnableOK(S) == Ready(S) = {t \in Tasks : TSTAT_RUNNABLE(S.tstat[t])}

ReadyQueuesOK == QueuesOK(k) /\ SchedOK(k) /\ RunnableOK(k)

(* No dispatch is ever forgotten.  In a task that may be preempted the     *)
(* running task is p_schedtsk; in a handler that interrupted such a task,  *)
(* or the idle loop, a difference has been noted in reqflg; the idle loop  *)
(* is entered only with dispatching enabled (otherwise make_runnable would *)
(* not report a task made ready by an interrupt); reqflg is never left     *)
(* over for a task.  The running task is always a runnable one.            *)
DispatchOK ==
  k.ini = 0 =>
    /\ k.dspflg /\ k.runtsk # k.schedtsk =>
         k.reqflg /\ (k.handlers # <<>> \/ k.runtsk = NULL)
    /\ k.runtsk = NULL => k.dspflg
    /\ TskCtx => ~k.reqflg
    /\ k.runtsk # NULL => TSTAT_RUNNABLE(k.tstat[k.runtsk])

(* dspflg is the summary of the interrupt mask and of dis_dsp that         *)
(* design.txt says it always is, although six functions of five files      *)
(* write the three flags.                                                  *)
DspflgOK == k.dspflg = (k.ipmflg /\ ~k.disdsp)

(* No exception is forgotten: when the running task allows exceptions and  *)
(* has one pending, with no interrupts masked, its routine has started     *)
(* already, or the handler in progress will start it as it returns.        *)
TexServed ==
  k.runtsk # NULL /\ k.enatex[k.runtsk] /\ k.texptn[k.runtsk] /\ k.ipmflg
    => k.handlers # <<>> /\ k.reqflg

(* An exception routine starts only with all interrupts enabled, and in    *)
(* the running task when its exceptions were enabled before the step or    *)
(* are enabled by it (ena_tex), though return_to_task, unlike calltex and  *)
(* dispatch_r, does not test ipmflg before it calls call_texrtn, and       *)
(* call_texrtn itself tests neither.                                       *)
TexStartsUnmasked ==
  [][\A t \in Tasks :
       Len(k'.texfrm[t]) > Len(k.texfrm[t]) =>
         k'.ipmflg /\ k'.runtsk = t /\ (k.enatex[t] \/ ena_tex)]_k

(* t is before u in a ready queue: u is behind it, or not there yet.       *)
Before(S, t, u) ==
  \E p \in Pri :
    \E i \in DOMAIN S.readyq[p] :
      /\ S.readyq[p][i] = t
      /\ \A j \in 1 .. i : S.readyq[p][j] # u

(* Tasks of the same priority run in the order in which they became ready: *)
(* while t stays ready at its priority no task overtakes it, whatever      *)
(* preempts it, unless its queue is rotated or t itself is requeued by     *)
(* chg_pri or by a restart.                                                *)
Requeued(t) ==
  \/ \E p \in Pri : rot_rdq(p) \/ irot_rdq(p)
  \/ \E p \in Pri : chg_pri(t, p)
  \/ ter_tsk(t)
  \/ ext_tsk /\ t = k.runtsk

NoOvertaking ==
  [][\A t, u \in Tasks :
       /\ t # u
       /\ Before(k, t, u)
       /\ Linked(k'.readyq[k.priority[t]], t)
       /\ Linked(k'.readyq[k.priority[t]], u)
       => Before(k', t, u) \/ Requeued(t)]_k

(* The kernel schedules as PrioritySched says: p_runtsk only ever changes  *)
(* to a first task of the highest priority ready, and it does as soon as   *)
(* dispatching is not held back.                                           *)
Held == \/ k.ini # 0 \/ ~k.dspflg \/ k.handlers # <<>>
        \/ k.runtsk = NULL /\ k.reqflg

Sched == INSTANCE PrioritySched WITH
           ready <- Ready(k),
           prio <- k.priority,
           run <- k.runtsk,
           held <- Held

SchedulesByPriority == Sched!Spec
=============================================================================
