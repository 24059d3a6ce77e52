------------------------------ MODULE TaskSync ------------------------------
(***************************************************************************)
(* The kernel with the services of kernel/task_sync.c as well, and the     *)
(* time tick: signal_time of kernel/time_event.c running the timeouts and  *)
(* delays that are due.  Time events are abstract here: which are due, not *)
(* the heap they are kept in.                                              *)
(***************************************************************************)
EXTENDS TaskManage

CONSTANT MaxTmo  \* bound: timeouts and delays given to services

ASSUME TaskSyncAssumption == MaxTmo \in Nat

Timeout == 1 .. MaxTmo

-----------------------------------------------------------------------------
(* task_sync.c                                                             *)

(* Mutant: sleeps although a wakeup is queued.                             *)
slp_tsk_always ==
  /\ CanDispatch
  /\ k' = dispatch(make_wait(k, TS_WAIT_SLP))

slp_tsk ==
  /\ CanDispatch
  /\ k' = IF k.wupque[k.runtsk]
          THEN [k EXCEPT !.wupque[k.runtsk] = FALSE]
          ELSE dispatch(make_wait(k, TS_WAIT_SLP))

(* Without a wakeup queued, TMO_POL returns E_TMOUT at once: no step.      *)
tslp_tsk(tmout) ==
  /\ CanDispatch
  /\ k' = IF k.wupque[k.runtsk]
          THEN [k EXCEPT !.wupque[k.runtsk] = FALSE]
          ELSE dispatch(make_wait_tmout(k, TS_WAIT_SLP, tmout))

(* wup_tsk and iwup_tsk: Switch is what the caller does about a dispatch.  *)
wakeup(t, Switch(_)) ==
  /\ ~TSTAT_DORMANT(k.tstat[t])
  /\ \/ /\ TSTAT_WAIT_SLP(k.tstat[t])
        /\ k' = Switch(wait_complete(k, t))
     \/ /\ ~TSTAT_WAIT_SLP(k.tstat[t]) /\ ~k.wupque[t]
        /\ k' = [k EXCEPT !.wupque[t] = TRUE]

wup_tsk(t) == TskCtxUnl /\ wakeup(t, DispatchIf)
iwup_tsk(t) == IntCtxUnl /\ wakeup(t, RequestIf)

can_wup(t) ==
  /\ TskCtxUnl
  /\ ~TSTAT_DORMANT(k.tstat[t])
  /\ k' = [k EXCEPT !.wupque[t] = FALSE]

rel_wai(t) ==
  /\ TskCtxUnl
  /\ TSTAT_WAITING(k.tstat[t])
  /\ k' = DispatchIf(wait_release(k, t))

irel_wai(t) ==
  /\ IntCtxUnl
  /\ TSTAT_WAITING(k.tstat[t])
  /\ k' = RequestIf(wait_release(k, t))

sus_tsk(t) ==
  /\ TskCtxUnl
  /\ t = k.runtsk => k.dspflg
  /\ ~TSTAT_DORMANT(k.tstat[t]) /\ ~TSTAT_SUSPENDED(k.tstat[t])
  /\ k' = IF TSTAT_RUNNABLE(k.tstat[t])
          THEN DispatchIf(make_non_runnable(
                            [k EXCEPT !.tstat[t] = TS_SUSPENDED], t))
          ELSE [k EXCEPT !.tstat[t] = @ \cup TS_SUSPENDED]

rsm_tsk(t) ==
  /\ TskCtxUnl
  /\ TSTAT_SUSPENDED(k.tstat[t])
  /\ k' = IF TSTAT_WAITING(k.tstat[t])
          THEN [k EXCEPT !.tstat[t] = @ \ TS_SUSPENDED]
          ELSE DispatchIf(make_runnable(
                            [k EXCEPT !.tstat[t] = TS_RUNNABLE], t))

dly_tsk(dlytim) ==
  /\ CanDispatch
  /\ k' = dispatch(tmevtb_enqueue(make_wait(k, TS_WAIT_DLY),
                                  k.runtsk, dlytim))

-----------------------------------------------------------------------------
(* The time tick.  signal_time starts by advancing the time, which brings  *)
(* every event one tick nearer; those at 0 are due.  It holds the CPU lock *)
(* but for a moment after each callback, when other handlers may come in.  *)

tick_entry ==
  /\ "tick" \notin ToSet(k.handlers)
  /\ k.ini = 0 /\ ~k.lock
  /\ Len(k.handlers) < MaxNest
  /\ k' = [k EXCEPT !.handlers = <<"tick">> \o @,
                    !.tmo = [t \in Tasks |-> IF @[t] = -1 THEN -1
                                             ELSE @[t] - 1]]

InTick == k.handlers # <<>> /\ Head(k.handlers) = "tick"
Due == {t \in Tasks : k.tmo[t] = 0}

(* delete_top and the callback: events of the same time come in any order. *)
signal_time(t) ==
  /\ InTick
  /\ t \in Due
  /\ LET S == [k EXCEPT !.tmo[t] = -1]
     IN k' = IF TS_WAIT_DLY \in k.tstat[t] THEN wait_tmout_ok(S, t)
             ELSE wait_tmout(S, t)

tick_return ==
  /\ InTick
  /\ Due = {}
  /\ k' = end_int_handler(k)

-----------------------------------------------------------------------------
SyncServices ==
  \/ slp_tsk
  \/ \E tmout \in Timeout : tslp_tsk(tmout)
  \/ \E dlytim \in {0} \cup Timeout : dly_tsk(dlytim)
  \/ \E t \in Tasks : \/ wup_tsk(t) \/ can_wup(t) \/ rel_wai(t)
                      \/ sus_tsk(t) \/ rsm_tsk(t)

SyncHandlerServices == \E t \in Tasks : iwup_tsk(t) \/ irel_wai(t)

Tick == tick_entry \/ (\E t \in Tasks : signal_time(t)) \/ tick_return

SyncNext == \/ TaskServices \/ HandlerServices \/ Kernel
            \/ SyncServices \/ SyncHandlerServices \/ Tick

SyncSpec == Init /\ [][SyncNext]_k

-----------------------------------------------------------------------------
(* The links of waiting tasks: a task is in a wait queue exactly while it  *)
(* waits for an object, in one queue and once, and queues in priority      *)
(* order are; only a task that waits has a time event, a delayed one       *)
(* always has, and none is overdue outside signal_time.  Each wakeup,      *)
(* release, timeout and termination has to undo both links by itself       *)
(* (wait_dequeue_wobj and wait_dequeue_tmevtb of wait.h).                  *)
WaitLinksOK ==
  /\ \A w \in WaitQueues :
       /\ Unique(k.waitq[w])
       /\ w \in TA_TPRI =>
            \A i, j \in DOMAIN k.waitq[w] :
              i < j => k.priority[k.waitq[w][i]] <= k.priority[k.waitq[w][j]]
  /\ \A t \in Tasks :
       LET linked == {w \in WaitQueues : Linked(k.waitq[w], t)}
       IN /\ linked # {} <=> TSTAT_WAIT_WOBJ(k.tstat[t])
          /\ \A v, w \in linked : v = w
          /\ k.tmo[t] # -1 => TSTAT_WAITING(k.tstat[t])
          /\ TS_WAIT_DLY \in k.tstat[t] => k.tmo[t] # -1
          /\ k.tmo[t] = 0 => "tick" \in ToSet(k.handlers)

(* A request that is queued is not needed now: no task sleeps with a       *)
(* wakeup queued, and none is dormant with an activation or a wakeup       *)
(* queued, an exception pending or a priority it was given: a task starts  *)
(* afresh (slp_tsk, wup_tsk, act_tsk, chg_pri, ext_tsk, ter_tsk; bit_task  *)
(* of test/bit_kernel.c means to test it).                                 *)
QueuedRequestsOK ==
  \A t \in Tasks :
    /\ k.wupque[t] => ~TSTAT_WAIT_SLP(k.tstat[t])
    /\ TSTAT_DORMANT(k.tstat[t]) =>
         /\ ~k.wupque[t] /\ ~k.actque[t]
         /\ ~k.enatex[t] /\ ~k.texptn[t]
         /\ k.priority[t] = ipriority[t]

(* A wait ends with one result.  The result is there from the step that    *)
(* ends the wait until the task has run, and nothing that happens          *)
(* meanwhile - a timeout racing the wakeup, a release, a suspension,       *)
(* another wakeup - replaces it, unless the task is terminated.            *)
WaitResultOnce ==
  [][\A t \in Tasks :
       \/ k.runtsk = t \/ ter_tsk(t)
       \/ /\ k.wercd[t] # "none" => k'.wercd[t] = k.wercd[t]
          /\ /\ TSTAT_WAITING(k.tstat[t]) /\ ~TSTAT_WAITING(k'.tstat[t])
             => k'.wercd[t] # "none"]_k

(* What the tick, the handlers and the tasks themselves have to do for     *)
(* time to pass: handlers and the loop of signal_time end, ticks keep      *)
(* coming (even where a task locks the CPU again and again), and a task    *)
(* that has locked the CPU unlocks it.                                     *)
TickFairness ==
  /\ WF_k(initialize_task) /\ WF_k(start_dispatch)
  /\ SF_k(tick_entry) /\ SF_k(int_return) /\ SF_k(tick_return)
  /\ \A t \in Tasks : SF_k(signal_time(t))
  /\ WF_k(unl_cpu)

FairSpec == SyncSpec /\ TickFairness

(* A wait with a timeout, and a delay, ends, whatever the other tasks and  *)
(* the handlers do and even if the waiting task is suspended.              *)
TimedWaitEnds ==
  \A t \in Tasks :
    TSTAT_WAITING(k.tstat[t]) /\ k.tmo[t] # -1
      ~> ~TSTAT_WAITING(k.tstat[t])
=============================================================================
