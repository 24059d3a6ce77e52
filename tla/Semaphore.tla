------------------------------ MODULE Semaphore ------------------------------
(***************************************************************************)
(* kernel/semaphore.c on the kernel of TaskSync.tla.                       *)
(***************************************************************************)
EXTENDS TaskSync

CONSTANTS
  Sems,     \* the semaphores; a semaphore is named like its wait queue
  isemcnt,  \* SEMINIB.isemcnt: the initial number of resources
  maxsem    \* SEMINIB.maxsem: the largest number of resources

ASSUME SemaphoreAssumption ==
  /\ Sems \subseteq WaitQueues
  /\ maxsem \in [Sems -> Nat \ {0}]
  /\ isemcnt \in [Sems -> Nat]
  /\ \A s \in Sems : isemcnt[s] <= maxsem[s]

VARIABLE semcnt

semvars == <<k, semcnt>>

initialize_semaphore == semcnt = isemcnt

(* sig_sem and isig_sem: Switch is what the caller does about a dispatch.  *)
signal(s, Switch(_)) ==
  \/ /\ ~queue_empty(k.waitq[s])
     /\ LET t == Head(k.waitq[s])
        IN k' = Switch(wait_complete(
                  [k EXCEPT !.waitq[s] = queue_delete_next(@)], t))
     /\ UNCHANGED semcnt
  \/ /\ queue_empty(k.waitq[s])
     /\ semcnt[s] < maxsem[s]
     /\ semcnt' = [semcnt EXCEPT ![s] = @ + 1]
     /\ UNCHANGED k

sig_sem(s) == TskCtxUnl /\ signal(s, DispatchIf)
isig_sem(s) == IntCtxUnl /\ signal(s, RequestIf)

Take(s) ==
  /\ semcnt[s] >= 1
  /\ semcnt' = [semcnt EXCEPT ![s] = @ - 1]
  /\ UNCHANGED k

wai_sem(s) ==
  /\ CanDispatch
  /\ \/ Take(s)
     \/ /\ semcnt[s] = 0
        /\ k' = dispatch(wobj_make_wait(k, "WAIT_SEM", s))
        /\ UNCHANGED semcnt

(* Without a resource: E_TMOUT at once, no step. *)
pol_sem(s) == TskCtxUnl /\ Take(s)

twai_sem(s, tmout) ==
  /\ CanDispatch
  /\ \/ Take(s)
     \/ /\ semcnt[s] = 0
        /\ tmout # TMO_POL
        /\ k' = dispatch(wobj_make_wait_tmout(k, "WAIT_SEM", s, tmout))
        /\ UNCHANGED semcnt

(* Mutant: resets the counter and forgets the tasks that wait.             *)
ini_sem_count_only(s) ==
  /\ TskCtxUnl
  /\ semcnt' = [semcnt EXCEPT ![s] = isemcnt[s]]
  /\ UNCHANGED k

(* Mutant: does not dispatch.                                              *)
ini_sem_no_dispatch(s) ==
  /\ TskCtxUnl
  /\ k' = init_wait_queue(k, s).st
  /\ semcnt' = [semcnt EXCEPT ![s] = isemcnt[s]]

ini_sem(s) ==
  /\ TskCtxUnl
  /\ k' = DispatchIf(init_wait_queue(k, s))
  /\ semcnt' = [semcnt EXCEPT ![s] = isemcnt[s]]

SemServices(s) ==
  \/ sig_sem(s) \/ isig_sem(s) \/ wai_sem(s) \/ pol_sem(s) \/ ini_sem(s)
  \/ \E tmout \in Timeout \cup {TMO_POL} : twai_sem(s, tmout)

-----------------------------------------------------------------------------
(* The ways a resource of s comes and goes.                                *)
Signals(s) == sig_sem(s) \/ isig_sem(s)
Waiters(S, s) == {t \in Tasks : Linked(S.waitq[s], t)}

(* Resources are neither lost nor made up: a task that stops waiting for s *)
(* gets E_OK only in a signal of s, one task per signal and instead of     *)
(* counting it; E_DLT is for ini_sem only, E_TMOUT for the tick, E_RLWAI   *)
(* for a release.                                                          *)
SemConserved ==
  [][\A s \in Sems :
       LET left == Waiters(k, s) \ Waiters(k', s)
           given == {t \in left : k'.wercd[t] = "E_OK"}
       IN /\ given # {} => /\ Signals(s)
                           /\ Cardinality(given) = 1
                           /\ semcnt'[s] = semcnt[s]
          /\ \A t \in left :
               /\ k'.wercd[t] = "E_DLT" <=> ini_sem(s)
               /\ k'.wercd[t] = "E_TMOUT" => InTick]_semvars

(* t is before u in the wait queue of s. *)
WaitsBefore(S, s, t, u) ==
  \E i, j \in DOMAIN S.waitq[s] :
    i < j /\ S.waitq[s][i] = t /\ S.waitq[s][j] = u

(* Tasks get a semaphore in the order of the queue.  While two tasks wait  *)
(* their order in it stays, unless the priority of one is changed and the  *)
(* queue is in priority order; and a task that starts to wait does so      *)
(* behind the others, in such a queue behind those of its own priority.    *)
SemInOrder ==
  [][\A s \in Sems : \A t, u \in Tasks :
       /\ WaitsBefore(k, s, t, u) /\ Linked(k'.waitq[s], t) =>
            IF Linked(k'.waitq[s], u)
            THEN \/ WaitsBefore(k', s, t, u)
                 \/ /\ s \in TA_TPRI
                    /\ \E p \in Pri : chg_pri(t, p) \/ chg_pri(u, p)
            ELSE k'.wercd[u] # "E_OK"
       /\ Linked(k.waitq[s], t) /\ WaitsBefore(k', s, u, t) =>
            \/ Linked(k.waitq[s], u)
            \/ s \in TA_TPRI /\ k.priority[u] < k.priority[t]]_semvars
=============================================================================
