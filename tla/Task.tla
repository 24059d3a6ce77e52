-------------------------------- MODULE Task --------------------------------
(***************************************************************************)
(* kernel/task.c and kernel/task.h: task states, the ready queues with     *)
(* their bitmap, the choice of p_schedtsk, and the operations every        *)
(* service call is composed of.  An operation is an operator on the record *)
(* S of the kernel's variables.  One that in C returns "a dispatch is      *)
(* needed" gives the pair [st |-> new S, dsp |-> returned value].          *)
(***************************************************************************)
EXTENDS Queue

CONSTANTS
  Tasks,       \* the tasks of the configuration
  NULL,        \* the null TCB pointer
  TNUM_TPRI,   \* number of task priorities
  ipriority    \* TINIB.ipriority: the initial priority of each task

(* Internal task priorities: INT_PRIORITY(x); 0 is the highest. *)
Pri == 0 .. TNUM_TPRI - 1

ASSUME TaskAssumption ==
  /\ NULL \notin Tasks
  /\ TNUM_TPRI \in Nat
  /\ ipriority \in [Tasks -> Pri]

(* tstat is a word of flags: here the set of the flags that are set. *)
TS_DORMANT == {}
TS_RUNNABLE == {"RUNNABLE"}
TS_SUSPENDED == {"SUSPENDED"}
TS_WAITING(reason) == {"WAITING", reason}

(* Waits whose task is in no object's queue, and those whose task is in a  *)
(* queue at the head of the object's control block (WOBJCB); WAIT_MTX is   *)
(* of the mutex extension (Mutex.tla).                                     *)
TS_WAIT_DLY == "WAIT_DLY"
TS_WAIT_SLP == "WAIT_SLP"
TS_WAIT_WOBJCB == {"WAIT_SEM", "WAIT_FLG", "WAIT_SDTQ", "WAIT_SPDQ",
                   "WAIT_MBX", "WAIT_MPF", "WAIT_MTX"}
TS_WAIT_WOBJ == TS_WAIT_WOBJCB \cup {"WAIT_RDTQ", "WAIT_RPDQ"}
WaitReason == TS_WAIT_WOBJ \cup {TS_WAIT_DLY, TS_WAIT_SLP}

TStat == {TS_DORMANT, TS_RUNNABLE, TS_SUSPENDED}
           \cup {TS_WAITING(r) : r \in WaitReason}
           \cup {TS_WAITING(r) \cup TS_SUSPENDED : r \in WaitReason}

TSTAT_DORMANT(ts) == ts = TS_DORMANT
TSTAT_RUNNABLE(ts) == "RUNNABLE" \in ts
TSTAT_WAITING(ts) == "WAITING" \in ts
TSTAT_SUSPENDED(ts) == "SUSPENDED" \in ts
TSTAT_WAIT_SLP(ts) == TS_WAIT_SLP \in ts
TSTAT_WAIT_WOBJ(ts) == ts \cap TS_WAIT_WOBJ # {}
TSTAT_WAIT_WOBJCB(ts) == ts \cap TS_WAIT_WOBJCB # {}

-----------------------------------------------------------------------------
(* The ready queues.  The bitmap holds the priorities whose bit is set.    *)

primap_search(S) == CHOOSE p \in S.primap : \A q \in S.primap : p <= q

(* p_next of the ready queue of the highest priority. *)
search_schedtsk(S) == Head(S.readyq[primap_search(S)])

(* Mutant: sets the bit of the priority below.                             *)
Enready_next_bit(S, t) ==
  LET pri == S.priority[t]
  IN [S EXCEPT !.readyq[pri] = queue_insert_prev(@, t),
               !.primap = @ \cup {pri + 1}]

(* Links t into the ready queue of its priority and sets the bit.          *)
Enready(S, t) ==
  LET pri == S.priority[t]
  IN [S EXCEPT !.readyq[pri] = queue_insert_prev(@, t),
               !.primap = @ \cup {pri}]

(* Mutant: a task of the priority of the scheduled one replaces it.        *)
make_runnable_at_equal(S, t) ==
  LET Q == Enready(S, t)
  IN IF S.schedtsk = NULL \/ S.priority[t] <= S.priority[S.schedtsk]
     THEN [st |-> [Q EXCEPT !.schedtsk = t], dsp |-> S.dspflg]
     ELSE [st |-> Q, dsp |-> FALSE]

make_runnable(S, t) ==
  LET Q == Enready(S, t)
  IN IF S.schedtsk = NULL \/ S.priority[t] < S.priority[S.schedtsk]
     THEN [st |-> [Q EXCEPT !.schedtsk = t], dsp |-> S.dspflg]
     ELSE [st |-> Q, dsp |-> FALSE]

(* Takes t out of its ready queue, clearing the bit of an emptied queue. *)
Unready(S, t) ==
  LET pri == S.priority[t]
      q == queue_delete(S.readyq[pri], t)
  IN [S EXCEPT !.readyq[pri] = q,
               !.primap = IF queue_empty(q) THEN @ \ {pri} ELSE @]

(* Mutant: p_schedtsk stays when the ready queue has become empty.         *)
make_non_runnable_keep(S, t) ==
  LET Q == Unready(S, t)
      q == Q.readyq[S.priority[t]]
  IN IF S.schedtsk = t /\ ~queue_empty(q)
     THEN [st |-> [Q EXCEPT !.schedtsk = Head(q)], dsp |-> S.dspflg]
     ELSE [st |-> Q, dsp |-> S.schedtsk = t /\ S.dspflg]

make_non_runnable(S, t) ==
  LET Q == Unready(S, t)
      q == Q.readyq[S.priority[t]]
      next == IF ~queue_empty(q) THEN Head(q)
              ELSE IF Q.primap = {} THEN NULL ELSE search_schedtsk(Q)
  IN IF S.schedtsk = t
     THEN [st |-> [Q EXCEPT !.schedtsk = next], dsp |-> S.dspflg]
     ELSE [st |-> Q, dsp |-> FALSE]

(* The stack of t is abandoned: with it go the task exception routines t   *)
(* was in the middle of.                                                   *)
make_dormant(S, t) ==
  [S EXCEPT !.tstat[t] = TS_DORMANT,
            !.priority[t] = ipriority[t],
            !.wupque[t] = FALSE,
            !.enatex[t] = FALSE,
            !.texptn[t] = FALSE,
            !.texfrm[t] = <<>>,
            !.texlp[t] = FALSE]

make_active(S, t) == make_runnable([S EXCEPT !.tstat[t] = TS_RUNNABLE], t)

(* The part of change_priority for a runnable task: t goes to the tail of  *)
(* the ready queue of its new priority, even if that is the old one.       *)
change_ready_priority(S, t, newpri) ==
  LET U == Unready(S, t)
      Q == Enready([U EXCEPT !.priority[t] = newpri], t)
      sched == search_schedtsk(Q)
  IN IF S.schedtsk = t
     THEN IF newpri >= S.priority[t]
          THEN [st |-> [Q EXCEPT !.schedtsk = sched],
                dsp |-> sched # t /\ S.dspflg]
          ELSE [st |-> Q, dsp |-> FALSE]
     ELSE IF newpri < S.priority[S.schedtsk]
          THEN [st |-> [Q EXCEPT !.schedtsk = t], dsp |-> S.dspflg]
          ELSE [st |-> Q, dsp |-> FALSE]

rotate_ready_queue(S, pri) ==
  LET q == S.readyq[pri]
      Q == [S EXCEPT !.readyq[pri] =
                        queue_insert_prev(queue_delete_next(q), Head(q))]
  IN IF Len(q) <= 1 THEN [st |-> S, dsp |-> FALSE]
     ELSE IF S.schedtsk = Head(q)
     THEN [st |-> [Q EXCEPT !.schedtsk = Head(Q.readyq[pri])],
           dsp |-> S.dspflg]
     ELSE [st |-> Q, dsp |-> FALSE]

-----------------------------------------------------------------------------
(* Task exceptions.  texptn[t] is TRUE when some exception is pending;     *)
(* texfrm[t] holds saved_disdsp of the call_texrtn activations on the      *)
(* stack of t, innermost first; texlp[t] is TRUE while t is switched out   *)
(* by the dispatch() inside call_texrtn.                                   *)

(* Entry of call_texrtn for the running task, up to its exception routine. *)
call_texrtn(S) ==
  LET t == S.runtsk
  IN [S EXCEPT !.enatex[t] = FALSE,
               !.texptn[t] = FALSE,
               !.texfrm[t] = <<S.disdsp>> \o @]

(* The test that ends the loop of call_texrtn: the routine runs again for  *)
(* what became pending meanwhile, or call_texrtn returns.                  *)
call_texrtn_until(S) ==
  LET t == S.runtsk
  IN IF S.texptn[t]
     THEN [S EXCEPT !.texptn[t] = FALSE, !.texlp[t] = FALSE]
     ELSE [S EXCEPT !.enatex[t] = TRUE,
                    !.texfrm[t] = Tail(@),
                    !.texlp[t] = FALSE]

(* Mutant: does not look whether exceptions are enabled.                   *)
calltex_disabled(S) ==
  IF S.texptn[S.runtsk] /\ S.ipmflg THEN call_texrtn(S) ELSE S

calltex(S) ==
  IF S.enatex[S.runtsk] /\ S.texptn[S.runtsk] /\ S.ipmflg
  THEN call_texrtn(S) ELSE S

-----------------------------------------------------------------------------
(* Dispatching.                                                            *)

(* Where the task switched to continues: inside call_texrtn, or in the     *)
(* service call it was switched out in.                                    *)
dispatch_r(S) ==
  IF S.texlp[S.runtsk] THEN call_texrtn_until(S) ELSE calltex(S)

(* p_runtsk = p_schedtsk; without a task to run, the idle loop.  The task  *)
(* switched out has read the result of its last wait, which is gone.       *)
dispatch(S) ==
  LET R == [S EXCEPT !.runtsk = S.schedtsk,
                     !.wercd = [t \in Tasks |-> IF t = S.runtsk THEN "none"
                                                ELSE @[t]]]
  IN IF S.schedtsk = NULL THEN R ELSE dispatch_r(R)

(* "if (r) { dispatch(); }" of a service call from a task, and             *)
(* "if (r) { reqflg = true; }" of one from a handler.                      *)
DispatchIf(r) == IF r.dsp THEN dispatch(r.st) ELSE r.st
RequestIf(r) == IF r.dsp THEN [r.st EXCEPT !.reqflg = TRUE] ELSE r.st
=============================================================================
