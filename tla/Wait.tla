-------------------------------- MODULE Wait --------------------------------
(***************************************************************************)
(* kernel/wait.h and kernel/wait.c: how a task starts and ends a wait, the *)
(* wait queues of objects, and, because it needs them, change_priority of  *)
(* task.c.  tmo[t] stands for the time event block of the wait of t: the   *)
(* number of time ticks until it is due, or -1 when winfo.p_tmevtb is NULL *)
(* (TimeEvent.tla models the heap the blocks are in).                      *)
(***************************************************************************)
EXTENDS Task

CONSTANTS
  WaitQueues,  \* the wait queues of the synchronization objects
  TA_TPRI      \* those queues that are in task priority order

TMO_FEVR == -1
TMO_POL == 0

ASSUME WaitAssumption == TA_TPRI \subseteq WaitQueues

(* Before the first task of a lower priority, behind all of the same one.  *)
queue_insert_tpri(S, q, t) ==
  LET lower == {i \in DOMAIN q : S.priority[t] < S.priority[q[i]]}
  IN IF lower = {} THEN Append(q, t)
     ELSE InsertAt(q, CHOOSE i \in lower : \A j \in lower : i <= j, t)

(* The wait queue that a task waiting for an object is linked in.          *)
WaitQueueOf(S, t) == CHOOSE w \in WaitQueues : Linked(S.waitq[w], t)

wobj_change_priority(S, t) ==
  LET w == WaitQueueOf(S, t)
  IN IF w \in TA_TPRI
     THEN [S EXCEPT !.waitq[w] = queue_insert_tpri(S, queue_delete(@, t), t)]
     ELSE S

change_priority(S, t, newpri) ==
  LET P == [S EXCEPT !.priority[t] = newpri]
  IN IF TSTAT_RUNNABLE(S.tstat[t]) THEN change_ready_priority(S, t, newpri)
     ELSE IF TSTAT_WAIT_WOBJCB(S.tstat[t])
     THEN [st |-> wobj_change_priority(P, t), dsp |-> FALSE]
     ELSE [st |-> P, dsp |-> FALSE]

-----------------------------------------------------------------------------
(* Starting a wait: the running task leaves the ready queue.               *)

make_wait(S, reason) ==
  LET t == S.runtsk
      W == [S EXCEPT !.tstat[t] = TS_WAITING(reason)]
  IN [make_non_runnable(W, t).st EXCEPT !.tmo[t] = TMO_FEVR]

(* tmevtb_enqueue counts from base_time, the time of the coming tick:      *)
(* the event is due tmout ticks after that one.                            *)
tmevtb_enqueue(S, t, tmout) == [S EXCEPT !.tmo[t] = tmout + 1]

make_wait_tmout(S, reason, tmout) ==
  IF tmout > 0 THEN tmevtb_enqueue(make_wait(S, reason), S.runtsk, tmout)
  ELSE make_wait(S, reason)

(* Mutant: always in task priority order.                                  *)
wobj_queue_insert_tpri(S, w) ==
  [S EXCEPT !.waitq[w] = queue_insert_tpri(S, @, S.runtsk)]

wobj_queue_insert(S, w) ==
  [S EXCEPT !.waitq[w] = IF w \in TA_TPRI
                         THEN queue_insert_tpri(S, @, S.runtsk)
                         ELSE queue_insert_prev(@, S.runtsk)]

wobj_make_wait(S, reason, w) == wobj_queue_insert(make_wait(S, reason), w)

wobj_make_wait_tmout(S, reason, w, tmout) ==
  wobj_queue_insert(make_wait_tmout(S, reason, tmout), w)

-----------------------------------------------------------------------------
(* Ending a wait.                                                          *)

(* Mutant: a suspended task goes on waiting.                               *)
make_non_wait_active(S, t) ==
  IF ~TSTAT_SUSPENDED(S.tstat[t])
  THEN make_runnable([S EXCEPT !.tstat[t] = TS_RUNNABLE], t)
  ELSE [st |-> S, dsp |-> FALSE]

make_non_wait(S, t) ==
  IF ~TSTAT_SUSPENDED(S.tstat[t])
  THEN make_runnable([S EXCEPT !.tstat[t] = TS_RUNNABLE], t)
  ELSE [st |-> [S EXCEPT !.tstat[t] = TS_SUSPENDED], dsp |-> FALSE]

(* Mutant: the task stays in the queue of the object.                      *)
wait_dequeue_wobj_not(S, t) == S

wait_dequeue_wobj(S, t) ==
  IF TSTAT_WAIT_WOBJ(S.tstat[t])
  THEN [S EXCEPT !.waitq[WaitQueueOf(S, t)] = queue_delete(@, t)]
  ELSE S

wait_dequeue_tmevtb(S, t) == [S EXCEPT !.tmo[t] = -1]

(* Mutant: the time event of the wait stays set.                           *)
wait_complete_keep_event(S, t) ==
  make_non_wait([S EXCEPT !.wercd[t] = "E_OK"], t)

(* The caller has taken t out of the wait queue of its object.             *)
wait_complete(S, t) ==
  make_non_wait([wait_dequeue_tmevtb(S, t) EXCEPT !.wercd[t] = "E_OK"], t)

wait_release(S, t) ==
  LET D == wait_dequeue_tmevtb(wait_dequeue_wobj(S, t), t)
  IN make_non_wait([D EXCEPT !.wercd[t] = "E_RLWAI"], t)

(* A loop that goes round n times - Body is what it does the ith time -    *)
(* and says whether a dispatch has been needed.                            *)
Repeat(n, S, Body(_, _)) ==
  LET done[i \in 0 .. n] ==
        IF i = 0 THEN [st |-> S, dsp |-> FALSE]
        ELSE LET r == Body(done[i - 1].st, i)
             IN [st |-> r.st, dsp |-> done[i - 1].dsp \/ r.dsp]
  IN done[n]

(* wait_complete for the first task of the wait queue w.                   *)
CompleteFirst(S, w) ==
  wait_complete([S EXCEPT !.waitq[w] = queue_delete_next(@)],
                Head(S.waitq[w]))

(* The first task of w gets E_DLT.                                         *)
release_first(S, w) ==
  LET t == Head(S.waitq[w])
      D == wait_dequeue_tmevtb([S EXCEPT !.waitq[w] = queue_delete_next(@)], t)
  IN make_non_wait([D EXCEPT !.wercd[t] = "E_DLT"], t)

(* Mutant: the tasks get E_OK.                                             *)
init_wait_queue_ok(S, w) ==
  Repeat(Len(S.waitq[w]), S, LAMBDA R, i : CompleteFirst(R, w))

(* Every task in the queue is released, in the order of the queue.         *)
init_wait_queue(S, w) ==
  Repeat(Len(S.waitq[w]), S, LAMBDA R, i : release_first(R, w))

(* The callbacks of signal_time, whose delete_top took the event out: of a *)
(* wait with a timeout, and of dly_tsk.                                    *)
wait_tmout(S, t) ==
  LET D == wait_dequeue_wobj(S, t)
  IN RequestIf(make_non_wait([D EXCEPT !.wercd[t] = "E_TMOUT"], t))

wait_tmout_ok(S, t) ==
  RequestIf(make_non_wait([S EXCEPT !.wercd[t] = "E_OK"], t))
=============================================================================
