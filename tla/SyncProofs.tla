----------------------------- MODULE SyncProofs -----------------------------
(***************************************************************************)
(* Requests, results of waits and task exceptions in the kernel of         *)
(* TaskSync.tla: none is lost, replaced or served at the wrong time.  The  *)
(* invariant adds to KernelInv of KernelProofs.tla what is queued for each *)
(* task, whether a result may be waiting for it, and that what the running *)
(* task has to be told of by an exception is told or noted in reqflg.      *)
(***************************************************************************)
EXTENDS KernelProofs

(* No exception has to start now.                                          *)
TexQuiet(S) ==
  ~(S.runtsk # NULL /\ S.enatex[S.runtsk] /\ S.texptn[S.runtsk] /\ S.ipmflg)

(* A request to the end of the handlers is made with no interrupt masked:  *)
(* return_to_task need not test ipmflg again.                              *)
TexDone(S) ==
  /\ TexQuiet(S) \/ (S.handlers # <<>> /\ S.reqflg)
  /\ S.reqflg => S.ipmflg

RequestOK(S, t) ==
  /\ S.wupque[t] => ~TSTAT_WAIT_SLP(S.tstat[t])
  /\ TSTAT_DORMANT(S.tstat[t]) =>
       /\ ~S.wupque[t] /\ ~S.actque[t]
       /\ ~S.enatex[t] /\ ~S.texptn[t]
       /\ S.priority[t] = ipriority[t]

(* A task that waits has no result yet.                                    *)
ResultOK(S, t) ==
  t # S.runtsk /\ TSTAT_WAITING(S.tstat[t]) => S.wercd[t] = "none"

Extra(S) == TexDone(S) /\ \A t \in Tasks : RequestOK(S, t) /\ ResultOK(S, t)

(* What a step may do to the result of t, and to its exceptions.           *)
ResultStays(S, R, t) ==
  t # S.runtsk =>
    /\ S.wercd[t] # "none" => R.wercd[t] = S.wercd[t]
    /\ TSTAT_WAITING(S.tstat[t]) /\ ~TSTAT_WAITING(R.tstat[t])
         => R.wercd[t] # "none"

(* t's exceptions are enabled in M only if they were in S, or by ena_tex.  *)
TexAllowed(S, M, t) == M.enatex[t] => S.enatex[t] \/ ena_tex

TexStarts(S, R, t) ==
  Len(R.texfrm[t]) > Len(S.texfrm[t]) =>
    R.ipmflg /\ R.runtsk = t /\ (S.enatex[t] \/ ena_tex)

(* A whole step: x is the task that is terminated, if one is.              *)
Good(S, R, x) ==
  /\ Extra(R)
  /\ \A t \in Tasks : /\ t # x => ResultStays(S, R, t)
                      /\ TexStarts(S, R, t)

(* A state M in the middle of a step from S.                               *)
Middle(S, M, x) ==
  /\ M \in KernelState
  /\ \A t \in Tasks : /\ RequestOK(M, t) /\ ResultOK(M, t)
                      /\ t # x => ResultStays(S, M, t)
                      /\ Len(M.texfrm[t]) <= Len(S.texfrm[t])
                      /\ TexAllowed(S, M, t)

-----------------------------------------------------------------------------
(* What the operations leave alone.                                        *)

(* Only the queues, p_schedtsk and priorities.                             *)
Requeues(S, R) ==
  /\ R.tstat = S.tstat /\ R.wercd = S.wercd
  /\ R.wupque = S.wupque /\ R.actque = S.actque
  /\ R.enatex = S.enatex /\ R.texptn = S.texptn
  /\ R.texfrm = S.texfrm /\ R.texlp = S.texlp
  /\ R.runtsk = S.runtsk /\ R.ipmflg = S.ipmflg
  /\ R.handlers = S.handlers /\ R.reqflg = S.reqflg

Keeps(S, R) == Requeues(S, R) /\ R.priority = S.priority

(* A wait queue or the time event of a task is changed.                    *)
LEMMA KeptByWait ==
  ASSUME NEW S \in KernelState, NEW t
  PROVE  /\ Keeps(S, wait_dequeue_wobj(S, t))
         /\ Keeps(S, wobj_change_priority(S, t))
         /\ \A x : Keeps(S, [S EXCEPT !.tmo[t] = x])
<1>1. \A w, q : Keeps(S, [S EXCEPT !.waitq[w] = q])
  BY DEF Keeps, Requeues, KernelState
<1>2. Keeps(S, S)
  BY DEF Keeps, Requeues
<1>3. \A x : Keeps(S, [S EXCEPT !.tmo[t] = x])
  BY DEF Keeps, Requeues, KernelState
<1> QED
  BY <1>1, <1>2, <1>3 DEF wait_dequeue_wobj, wobj_change_priority

(* p_schedtsk is assigned; a ready queue and the bitmap are.                *)
LEMMA EditSched ==
  ASSUME NEW S \in KernelState, NEW P, DOMAIN P = DOMAIN S, NEW x
  PROVE  /\ Requeues(P, [P EXCEPT !.schedtsk = x])
         /\ [P EXCEPT !.schedtsk = x].priority = P.priority
BY DEF Requeues, KernelState

LEMMA LinkRequeues ==
  ASSUME NEW S \in KernelState, NEW P, DOMAIN P = DOMAIN S, NEW t
  PROVE  /\ /\ Requeues(P, Enready(P, t)) /\ Enready(P, t).priority = P.priority
            /\ DOMAIN Enready(P, t) = DOMAIN S
         /\ /\ Requeues(P, Unready(P, t)) /\ Unready(P, t).priority = P.priority
            /\ DOMAIN Unready(P, t) = DOMAIN S
<1>1. ASSUME NEW E, \E p, q, m : E = [P EXCEPT !.readyq[p] = q, !.primap = m]
      PROVE  Requeues(P, E) /\ E.priority = P.priority /\ DOMAIN E = DOMAIN S
  <2>1. PICK p, q, m : E = [P EXCEPT !.readyq[p] = q, !.primap = m]
    BY <1>1
  <2> QED BY <2>1 DEF Requeues, KernelState
<1>2. \E p, q, m : Enready(P, t) = [P EXCEPT !.readyq[p] = q, !.primap = m]
  BY DEF Enready
<1>3. \E p, q, m : Unready(P, t) = [P EXCEPT !.readyq[p] = q, !.primap = m]
  BY DEF Unready
<1> QED BY <1>1, <1>2, <1>3

LEMMA RequeuesOps ==
  ASSUME NEW S \in KernelState, NEW t \in Tasks
  PROVE  /\ Requeues(S, make_runnable(S, t).st)
         /\ make_runnable(S, t).st.priority = S.priority
         /\ Requeues(S, make_non_runnable(S, t).st)
         /\ make_non_runnable(S, t).st.priority = S.priority
<1>1. /\ Requeues(S, make_runnable(S, t).st)
      /\ make_runnable(S, t).st.priority = S.priority
  <2> DEFINE Q == Enready(S, t)
  <2>1. make_runnable(S, t).st \in {Q, [Q EXCEPT !.schedtsk = t]}
    BY DEF make_runnable
  <2>2. Requeues(S, Q) /\ Q.priority = S.priority /\ DOMAIN Q = DOMAIN S
    BY LinkRequeues
  <2> HIDE DEF Q
  <2>3. LET E == [Q EXCEPT !.schedtsk = t]
        IN Requeues(Q, E) /\ E.priority = Q.priority
    BY <2>2, EditSched
  <2> QED BY <2>1, <2>2, <2>3 DEF Requeues
<1>2. /\ Requeues(S, make_non_runnable(S, t).st)
      /\ make_non_runnable(S, t).st.priority = S.priority
  <2> DEFINE Q == Unready(S, t)
             q == Q.readyq[S.priority[t]]
             next == IF ~queue_empty(q) THEN Head(q)
                     ELSE IF Q.primap = {} THEN NULL ELSE search_schedtsk(Q)
  <2>1. make_non_runnable(S, t).st \in {Q, [Q EXCEPT !.schedtsk = next]}
    BY DEF make_non_runnable
  <2>2. Requeues(S, Q) /\ Q.priority = S.priority /\ DOMAIN Q = DOMAIN S
    BY LinkRequeues
  <2> HIDE DEF Q, next
  <2>3. LET E == [Q EXCEPT !.schedtsk = next]
        IN Requeues(Q, E) /\ E.priority = Q.priority
    BY <2>2, EditSched
  <2> QED BY <2>1, <2>2, <2>3 DEF Requeues
<1> QED BY <1>1, <1>2

LEMMA RotateRequeues ==
  ASSUME NEW S \in KernelState, NEW pri \in Pri
  PROVE  /\ Requeues(S, rotate_ready_queue(S, pri).st)
         /\ rotate_ready_queue(S, pri).st.priority = S.priority
<1>1. \A q : LET E == [S EXCEPT !.readyq[pri] = q]
             IN /\ Requeues(S, E) /\ E.priority = S.priority
                /\ \A x : LET F == [E EXCEPT !.schedtsk = x]
                          IN Requeues(S, F) /\ F.priority = S.priority
  BY DEF Requeues, KernelState
<1>2. Requeues(S, S)
  BY DEF Requeues
<1> QED BY <1>1, <1>2 DEF rotate_ready_queue

LEMMA ChangeRequeues ==
  ASSUME NEW S \in KernelState, NEW t \in Tasks, NEW newpri \in Pri
  PROVE  LET R == change_ready_priority(S, t, newpri).st
         IN /\ Requeues(S, R)
            /\ \A u \in Tasks \ {t} : R.priority[u] = S.priority[u]
<1> DEFINE U == Unready(S, t)
           P == [U EXCEPT !.priority[t] = newpri]
           Q == Enready(P, t)
           sched == search_schedtsk(Q)
<1>1. change_ready_priority(S, t, newpri).st
        \in {Q, [Q EXCEPT !.schedtsk = sched], [Q EXCEPT !.schedtsk = t]}
  BY DEF change_ready_priority
<1>2. Requeues(S, U) /\ U.priority = S.priority /\ DOMAIN U = DOMAIN S
  BY LinkRequeues
<1>3. /\ Requeues(S, P)
      /\ \A u \in Tasks \ {t} : P.priority[u] = S.priority[u]
      /\ DOMAIN P = DOMAIN S
  <2> HIDE DEF U
  <2> QED BY <1>2 DEF Requeues, KernelState
<1> HIDE DEF P
<1>4. Requeues(P, Q) /\ Q.priority = P.priority /\ DOMAIN Q = DOMAIN S
  BY <1>3, LinkRequeues
<1> HIDE DEF Q, sched
<1>5. \A x : /\ Requeues(Q, [Q EXCEPT !.schedtsk = x])
             /\ [Q EXCEPT !.schedtsk = x].priority = Q.priority
  BY <1>4, EditSched
<1> DEFINE R == change_ready_priority(S, t, newpri).st
<1>6. Requeues(Q, R) /\ R.priority = Q.priority
  <2>1. Requeues(Q, Q)
    BY DEF Requeues
  <2> QED BY <1>1, <1>5, <2>1
<1> HIDE DEF R
<1>7. Requeues(S, R)
  BY <1>3, <1>4, <1>6 DEF Requeues
<1>8. \A u \in Tasks \ {t} : R.priority[u] = S.priority[u]
  BY <1>3, <1>4, <1>6
<1> QED BY <1>7, <1>8 DEF R

-----------------------------------------------------------------------------
(* The end of a step.                                                      *)

LEMMA FrameLens ==
  ASSUME NEW M \in KernelState, NEW t \in Tasks
  PROVE  M.texfrm[t] \in Seq(BOOLEAN) /\ Len(M.texfrm[t]) \in Nat
<1>1. M.texfrm \in [Tasks -> Seq(BOOLEAN)]
  BY DEF KernelState
<1>2. M.texfrm[t] \in Seq(BOOLEAN)
  BY <1>1
<1> QED BY <1>2

LEMMA MiddleGood ==
  ASSUME NEW S, NEW M, NEW x, Middle(S, M, x), TexDone(M), S \in KernelState
  PROVE  Good(S, M, x)
<1>1. \A t \in Tasks : Len(M.texfrm[t]) \in Nat /\ Len(S.texfrm[t]) \in Nat
  BY FrameLens DEF Middle
<1>2. \A t \in Tasks : Len(M.texfrm[t]) <= Len(S.texfrm[t])
  BY DEF Middle
<1>3. \A t \in Tasks : TexStarts(S, M, t)
  BY <1>1, <1>2 DEF TexStarts
<1> QED BY <1>3 DEF Middle, Good, Extra

(* A state that differs from M only in what call_texrtn changes of runtsk. *)
LEMMA TexGoodStep ==
  ASSUME NEW S, NEW M, NEW x, Middle(S, M, x), M.reqflg => M.ipmflg,
         NEW t \in Tasks, t = M.runtsk, NEW R,
         R.tstat = M.tstat, R.wercd = M.wercd, R.wupque = M.wupque,
         R.actque = M.actque, R.priority = M.priority, R.runtsk = M.runtsk,
         R.ipmflg = M.ipmflg, R.reqflg = M.reqflg,
         \A u \in Tasks \ {t} : /\ R.enatex[u] = M.enatex[u]
                                /\ R.texptn[u] = M.texptn[u]
                                /\ R.texfrm[u] = M.texfrm[u],
         R.enatex[t] \/ R.texptn[t] => ~TSTAT_DORMANT(M.tstat[t]),
         ~(R.enatex[t] /\ R.texptn[t] /\ R.ipmflg),
         (R.ipmflg /\ M.enatex[t]) \/ Len(R.texfrm[t]) <= Len(M.texfrm[t]),
         Len(R.texfrm[t]) \in Nat, S \in KernelState
  PROVE  Good(S, R, x)
<1>1. TexDone(R)
  BY DEF TexDone, TexQuiet
<1>2. \A u \in Tasks : RequestOK(R, u) /\ ResultOK(R, u)
  <2> SUFFICES ASSUME NEW u \in Tasks
               PROVE  RequestOK(R, u) /\ ResultOK(R, u)
    OBVIOUS
  <2>1. RequestOK(M, u) /\ ResultOK(M, u)
    BY DEF Middle
  <2>2. ResultOK(R, u)
    BY <2>1 DEF ResultOK
  <2>3. CASE u = t
    <3>1. TSTAT_DORMANT(M.tstat[u]) => ~R.enatex[u] /\ ~R.texptn[u]
      BY <2>3
    <3> QED BY <2>1, <2>2, <3>1 DEF RequestOK
  <2>4. CASE u # t
    BY <2>1, <2>2, <2>4 DEF RequestOK
  <2> QED BY <2>3, <2>4
<1>3. \A u \in Tasks : u # x => ResultStays(S, R, u)
  BY DEF Middle, ResultStays
<1>4. \A u \in Tasks : TexStarts(S, R, u)
  <2> SUFFICES ASSUME NEW u \in Tasks, Len(R.texfrm[u]) > Len(S.texfrm[u])
               PROVE  R.ipmflg /\ R.runtsk = u /\ (S.enatex[u] \/ ena_tex)
    BY DEF TexStarts
  <2>1. /\ Len(M.texfrm[u]) \in Nat /\ Len(S.texfrm[u]) \in Nat
        /\ Len(M.texfrm[u]) <= Len(S.texfrm[u])
    BY FrameLens DEF Middle
  <2>2. ASSUME u # t PROVE FALSE
    <3> DEFINE r == Len(R.texfrm[u])
               m == Len(M.texfrm[u])
               s == Len(S.texfrm[u])
    <3>1. r = m
      BY <2>2
    <3>2. m \in Nat /\ s \in Nat /\ m <= s /\ r > s
      BY <2>1
    <3> HIDE DEF r, m, s
    <3> QED BY <3>1, <3>2
  <2>3. u = t
    BY <2>2
  <2>4. ~(Len(R.texfrm[t]) <= Len(M.texfrm[t]))
    <3> DEFINE r == Len(R.texfrm[t])
               m == Len(M.texfrm[t])
               s == Len(S.texfrm[t])
    <3>1. r \in Nat /\ m \in Nat /\ s \in Nat /\ m <= s /\ r > s
      BY <2>1, <2>3
    <3> HIDE DEF r, m, s
    <3>2. ~(r <= m)
      BY <3>1
    <3> QED BY <3>2 DEF r, m
  <2>5. TexAllowed(S, M, t)
    BY DEF Middle
  <2> QED BY <2>3, <2>4, <2>5 DEF TexAllowed
<1> QED BY <1>1, <1>2, <1>3, <1>4 DEF Good, Extra

LEMMA TexGood ==
  ASSUME NEW S \in KernelState, NEW M, NEW x, Middle(S, M, x),
         M.reqflg => M.ipmflg,
         M.runtsk \in Tasks, ~TSTAT_DORMANT(M.tstat[M.runtsk])
  PROVE  /\ M.ipmflg /\ M.enatex[M.runtsk] => Good(S, call_texrtn(M), x)
         /\ M.texfrm[M.runtsk] # <<>> => Good(S, call_texrtn_until(M), x)
         /\ Good(S, calltex(M), x)
         /\ TexFramesOK(M) => Good(S, dispatch_r(M), x)
<1> DEFINE t == M.runtsk
<1>1. /\ M \in KernelState /\ M.texfrm[t] \in Seq(BOOLEAN)
      /\ M.enatex \in [Tasks -> BOOLEAN] /\ M.texptn \in [Tasks -> BOOLEAN]
      /\ M.texfrm \in [Tasks -> Seq(BOOLEAN)] /\ M.disdsp \in BOOLEAN
  BY FrameLens DEF Middle, KernelState
<1>2. ASSUME M.ipmflg, M.enatex[t] PROVE Good(S, call_texrtn(M), x)
  <2> DEFINE R == call_texrtn(M)
  <2>1. /\ R.tstat = M.tstat /\ R.wercd = M.wercd /\ R.wupque = M.wupque
        /\ R.actque = M.actque /\ R.priority = M.priority
        /\ R.runtsk = M.runtsk /\ R.ipmflg = M.ipmflg /\ R.reqflg = M.reqflg
    BY <1>1 DEF call_texrtn, KernelState
  <2>2. /\ R.enatex = [M.enatex EXCEPT ![t] = FALSE]
        /\ R.texptn = [M.texptn EXCEPT ![t] = FALSE]
        /\ R.texfrm = [M.texfrm EXCEPT ![t] = <<M.disdsp>> \o @]
    BY <1>1 DEF call_texrtn, KernelState
  <2> HIDE DEF R
  <2>3. Len(R.texfrm[t]) \in Nat
    <3>1. <<M.disdsp>> \o M.texfrm[t] \in Seq(BOOLEAN)
      BY <1>1
    <3> QED BY <1>1, <2>2, <3>1
  <2>4. /\ ~R.enatex[t] /\ ~R.texptn[t]
        /\ \A u \in Tasks \ {t} : /\ R.enatex[u] = M.enatex[u]
                                  /\ R.texptn[u] = M.texptn[u]
                                  /\ R.texfrm[u] = M.texfrm[u]
    BY <1>1, <2>2
  <2>5. /\ (R.ipmflg /\ M.enatex[t]) \/ Len(R.texfrm[t]) <= Len(M.texfrm[t])
        /\ R.enatex[t] \/ R.texptn[t] => ~TSTAT_DORMANT(M.tstat[t])
        /\ ~(R.enatex[t] /\ R.texptn[t] /\ R.ipmflg)
    BY <1>2, <2>1, <2>4
  <2>6. Good(S, R, x)
    BY <2>1, <2>3, <2>4, <2>5, TexGoodStep
  <2> QED BY <2>6 DEF R
<1>3. ASSUME M.texfrm[t] # <<>> PROVE Good(S, call_texrtn_until(M), x)
  <2> DEFINE R == call_texrtn_until(M)
  <2>1. /\ R.tstat = M.tstat /\ R.wercd = M.wercd /\ R.wupque = M.wupque
        /\ R.actque = M.actque /\ R.priority = M.priority
        /\ R.runtsk = M.runtsk /\ R.ipmflg = M.ipmflg /\ R.reqflg = M.reqflg
    BY <1>1 DEF call_texrtn_until, KernelState
  <2>2. \/ /\ R.enatex = M.enatex /\ R.texfrm = M.texfrm
           /\ R.texptn = [M.texptn EXCEPT ![t] = FALSE]
        \/ /\ R.enatex = [M.enatex EXCEPT ![t] = TRUE]
           /\ R.texptn = M.texptn /\ ~M.texptn[t]
           /\ R.texfrm = [M.texfrm EXCEPT ![t] = Tail(@)]
    BY <1>1 DEF call_texrtn_until, KernelState
  <2> HIDE DEF R
  <2>3. Len(R.texfrm[t]) \in Nat /\ Len(R.texfrm[t]) <= Len(M.texfrm[t])
    <3>1. Len(M.texfrm[t]) \in Nat /\ Len(Tail(M.texfrm[t])) \in Nat
      BY <1>1, <1>3
    <3>2. Len(Tail(M.texfrm[t])) <= Len(M.texfrm[t])
      BY <1>1, <1>3
    <3>3. R.texfrm[t] = M.texfrm[t] \/ R.texfrm[t] = Tail(M.texfrm[t])
      BY <1>1, <2>2
    <3>4. CASE R.texfrm[t] = M.texfrm[t]
      BY <3>1, <3>4
    <3>5. CASE R.texfrm[t] = Tail(M.texfrm[t])
      BY <3>1, <3>2, <3>5
    <3> QED BY <3>3, <3>4, <3>5
  <2>4. /\ ~R.texptn[t]
        /\ \A u \in Tasks \ {t} : /\ R.enatex[u] = M.enatex[u]
                                  /\ R.texptn[u] = M.texptn[u]
                                  /\ R.texfrm[u] = M.texfrm[u]
    BY <1>1, <2>2
  <2>5. Good(S, R, x)
    BY <2>1, <2>3, <2>4, TexGoodStep
  <2> QED BY <2>5 DEF R
<1>4. Good(S, calltex(M), x)
  <2>1. CASE M.enatex[t] /\ M.texptn[t] /\ M.ipmflg
    BY <1>2, <2>1 DEF calltex
  <2>2. CASE ~(M.enatex[t] /\ M.texptn[t] /\ M.ipmflg)
    <3>1. calltex(M) = M
      BY <2>2 DEF calltex
    <3>2. TexDone(M)
      BY <2>2 DEF TexDone, TexQuiet
    <3> QED BY <3>1, <3>2, MiddleGood
  <2> QED BY <2>1, <2>2
<1>5. ASSUME TexFramesOK(M) PROVE Good(S, dispatch_r(M), x)
  <2>1. M.texlp[t] => M.texfrm[t] # <<>>
    BY <1>5 DEF TexFramesOK
  <2> QED BY <1>3, <1>4, <2>1 DEF dispatch_r
<1> QED BY <1>2, <1>3, <1>4, <1>5

(* The scheduled task is a runnable one. *)
LEMMA SchedRunnable ==
  ASSUME NEW M, Base(M), M.schedtsk # NULL
  PROVE  /\ M.schedtsk \in Tasks
         /\ TSTAT_RUNNABLE(M.tstat[M.schedtsk])
         /\ ~TSTAT_DORMANT(M.tstat[M.schedtsk])
<1>1. M.schedtsk \in Ready(M)
  BY SchedTop DEF Base, Core
<1>2. TSTAT_RUNNABLE(M.tstat[M.schedtsk]) /\ M.schedtsk \in Tasks
  BY <1>1 DEF Base, RunnableOK
<1> QED BY <1>2 DEF TSTAT_RUNNABLE, TSTAT_DORMANT, TS_DORMANT

(* dispatch(): the task switched out takes its result with it.             *)
LEMMA DispatchGood ==
  ASSUME NEW S \in KernelState, NEW M, NEW x, Middle(S, M, x), Base(M),
         M.runtsk = S.runtsk, ~M.reqflg
  PROVE  Good(S, dispatch(M), x)
<1> DEFINE w == [t \in Tasks |-> IF t = M.runtsk THEN "none" ELSE M.wercd[t]]
           R == [M EXCEPT !.runtsk = M.schedtsk, !.wercd = w]
<1>1. M \in KernelState
  BY DEF Middle
<1>2. dispatch(M) = IF M.schedtsk = NULL THEN R ELSE dispatch_r(R)
  BY <1>1 DEF dispatch, KernelState
<1>3. /\ R.tstat = M.tstat /\ R.wercd = w /\ R.wupque = M.wupque
      /\ R.actque = M.actque /\ R.enatex = M.enatex /\ R.texptn = M.texptn
      /\ R.texfrm = M.texfrm /\ R.texlp = M.texlp /\ R.priority = M.priority
      /\ R.runtsk = M.schedtsk /\ R.reqflg = M.reqflg
  BY <1>1 DEF KernelState
<1>4. R \in KernelState
  <2>1. w \in [Tasks -> {"none", "E_OK", "E_TMOUT", "E_RLWAI", "E_DLT"}]
    BY <1>1 DEF KernelState
  <2>2. M.schedtsk \in Tasks \cup {NULL}
    BY <1>1 DEF KernelState
  <2> HIDE DEF w
  <2> QED BY <1>1, <2>1, <2>2 DEF KernelState
<1> HIDE DEF R
<1>5. Middle(S, R, x)
  <2>1. \A t \in Tasks : RequestOK(R, t)
    BY <1>3 DEF Middle, RequestOK
  <2>2. \A t \in Tasks : ResultOK(R, t)
    BY <1>3 DEF Middle, ResultOK
  <2>3. \A t \in Tasks : /\ t # x => ResultStays(S, R, t)
                         /\ TexAllowed(S, R, t)
    BY <1>3 DEF Middle, ResultStays, TexAllowed
  <2> QED BY <1>3, <1>4, <2>1, <2>2, <2>3 DEF Middle
<1>6. CASE M.schedtsk = NULL
  <2>1. TexDone(R)
    BY <1>3, <1>6 DEF TexDone, TexQuiet
  <2> QED BY <1>2, <1>5, <1>6, <2>1, MiddleGood
<1>7. CASE M.schedtsk # NULL
  <2>1. TexFramesOK(R)
    BY <1>3 DEF Base, TexFramesOK
  <2>2. R.runtsk \in Tasks /\ ~TSTAT_DORMANT(R.tstat[R.runtsk])
    BY <1>3, <1>7, SchedRunnable
  <2> QED BY <1>2, <1>3, <1>5, <1>7, <2>1, <2>2, TexGood
<1> QED BY <1>6, <1>7

LEMMA DispatchIfGood ==
  ASSUME NEW S \in KernelState, NEW r, NEW x, Middle(S, r.st, x), Base(r.st),
         r.st.runtsk = S.runtsk, TexDone(r.st), ~r.st.reqflg
  PROVE  Good(S, DispatchIf(r), x)
<1>1. Good(S, dispatch(r.st), x)
  BY DispatchGood
<1>2. Good(S, r.st, x)
  BY MiddleGood
<1> QED BY <1>1, <1>2 DEF DispatchIf

LEMMA RequestIfGood ==
  ASSUME NEW S \in KernelState, NEW r, NEW x, Middle(S, r.st, x),
         TexDone(r.st), r.st.handlers # <<>>, r.dsp => r.st.ipmflg
  PROVE  Good(S, RequestIf(r), x)
<1> DEFINE M == r.st
           R == [M EXCEPT !.reqflg = TRUE]
<1>1. M \in KernelState
  BY DEF Middle
<1>2. Good(S, M, x)
  BY MiddleGood
<1>3. CASE r.dsp
  <2>1. /\ R.tstat = M.tstat /\ R.wercd = M.wercd /\ R.wupque = M.wupque
        /\ R.actque = M.actque /\ R.enatex = M.enatex /\ R.texptn = M.texptn
        /\ R.texfrm = M.texfrm /\ R.priority = M.priority
        /\ R.runtsk = M.runtsk /\ R.handlers = M.handlers
        /\ R.ipmflg = M.ipmflg /\ R.reqflg = TRUE
    BY <1>1 DEF KernelState
  <2>2. R \in KernelState
    BY <1>1 DEF KernelState
  <2>3. RequestIf(r) = R
    BY <1>3 DEF RequestIf
  <2> HIDE DEF R
  <2>4. Middle(S, R, x)
    BY <2>1, <2>2 DEF Middle, RequestOK, ResultOK, ResultStays, TexAllowed
  <2>5. TexDone(R)
    BY <1>3, <2>1 DEF TexDone
  <2> QED BY <2>3, <2>4, <2>5, MiddleGood
<1>4. CASE ~r.dsp
  BY <1>2, <1>4 DEF RequestIf
<1> QED BY <1>3, <1>4

-----------------------------------------------------------------------------
(* A step that concerns one task.                                          *)

(* t is the only task changed; x, if it is no task, says that none is.     *)
Touches(S, M, t) ==
  /\ M \in KernelState /\ M.runtsk = S.runtsk
  /\ \A u \in Tasks \ {t} :
       /\ M.tstat[u] = S.tstat[u] /\ M.wercd[u] = S.wercd[u]
       /\ M.wupque[u] = S.wupque[u] /\ M.actque[u] = S.actque[u]
       /\ M.enatex[u] = S.enatex[u] /\ M.texptn[u] = S.texptn[u]
       /\ M.texfrm[u] = S.texfrm[u] /\ M.priority[u] = S.priority[u]

LEMMA Touched ==
  ASSUME NEW S \in KernelState, Extra(S), NEW M, NEW t, NEW x,
         Touches(S, M, t),
         t \in Tasks => /\ RequestOK(M, t) /\ ResultOK(M, t)
                        /\ t # x => ResultStays(S, M, t)
                        /\ Len(M.texfrm[t]) <= Len(S.texfrm[t])
                        /\ TexAllowed(S, M, t)
  PROVE  Middle(S, M, x)
<1>1. ASSUME NEW u \in Tasks \ {t}
      PROVE  /\ RequestOK(M, u) /\ ResultOK(M, u) /\ ResultStays(S, M, u)
             /\ Len(M.texfrm[u]) <= Len(S.texfrm[u])
             /\ TexAllowed(S, M, u)
  <2>1. RequestOK(S, u) /\ ResultOK(S, u)
    BY DEF Extra
  <2>2. /\ M.tstat[u] = S.tstat[u] /\ M.wercd[u] = S.wercd[u]
        /\ M.wupque[u] = S.wupque[u] /\ M.actque[u] = S.actque[u]
        /\ M.enatex[u] = S.enatex[u] /\ M.texptn[u] = S.texptn[u]
        /\ M.texfrm[u] = S.texfrm[u] /\ M.priority[u] = S.priority[u]
        /\ M.runtsk = S.runtsk
    BY DEF Touches
  <2>3. RequestOK(M, u)
    BY <2>1, <2>2 DEF RequestOK
  <2>4. ResultOK(M, u) /\ ResultStays(S, M, u)
    BY <2>1, <2>2 DEF ResultOK, ResultStays
  <2>5. Len(S.texfrm[u]) \in Nat
    BY FrameLens
  <2>6. Len(M.texfrm[u]) <= Len(S.texfrm[u])
    BY <2>2, <2>5
  <2>7. TexAllowed(S, M, u)
    BY <2>2 DEF TexAllowed
  <2> QED BY <2>3, <2>4, <2>6, <2>7
<1>2. ASSUME NEW u \in Tasks
      PROVE  /\ RequestOK(M, u) /\ ResultOK(M, u)
             /\ u # x => ResultStays(S, M, u)
             /\ Len(M.texfrm[u]) <= Len(S.texfrm[u])
             /\ TexAllowed(S, M, u)
  BY <1>1
<1>3. M \in KernelState
  BY DEF Touches
<1> QED BY <1>2, <1>3 DEF Middle

(* Nothing that exceptions depend on comes true.                           *)
TexKept(S, M) ==
  /\ M.ipmflg = S.ipmflg /\ M.reqflg = S.reqflg
  /\ M.handlers = S.handlers /\ M.runtsk = S.runtsk
  /\ M.runtsk # NULL => /\ M.enatex[M.runtsk] => S.enatex[M.runtsk]
                        /\ M.texptn[M.runtsk] => S.texptn[M.runtsk]

LEMMA TexKeptDone ==
  ASSUME NEW S, NEW M, TexDone(S), TexKept(S, M)
  PROVE  TexDone(M)
BY DEF TexDone, TexKept, TexQuiet

(* A step that changes no task.                                            *)
LEMMA UntouchedGood ==
  ASSUME NEW S \in KernelState, Extra(S), NEW M, Touches(S, M, NULL), NEW x
  PROVE  /\ Middle(S, M, x)
         /\ TexKept(S, M) => Good(S, M, x)
<1>1. Middle(S, M, x)
  BY Touched, TaskAssumption
<1>2. TexDone(S)
  BY DEF Extra
<1> QED BY <1>1, <1>2, TexKeptDone, MiddleGood

(* A service call that makes tasks ready or not ready, in a task.          *)
LEMMA DispatchIfMiddle ==
  ASSUME NEW S \in KernelState, Extra(S), NEW r, NEW x,
         S.handlers = <<>>, ~S.reqflg,
         Base(r.st), Middle(S, r.st, x), TexKept(S, r.st)
  PROVE  Good(S, DispatchIf(r), x)
<1>1. TexDone(r.st)
  BY TexKeptDone DEF Extra
<1>2. r.st.runtsk = S.runtsk /\ ~r.st.reqflg
  BY DEF TexKept
<1> QED BY <1>1, <1>2, DispatchIfGood

(* The same in a handler.                                                  *)
LEMMA RequestIfMiddle ==
  ASSUME NEW S \in KernelState, Extra(S), NEW r, NEW x,
         S.handlers # <<>>, Base(S),
         Middle(S, r.st, x), TexKept(S, r.st), r.dsp => S.dspflg
  PROVE  Good(S, RequestIf(r), x)
<1>1. TexDone(r.st)
  BY TexKeptDone DEF Extra
<1>2. r.st.handlers # <<>> /\ (r.dsp => r.st.ipmflg)
  BY DEF TexKept, Base, FlagsOK
<1> QED BY <1>1, <1>2, RequestIfGood

(* A task whose state and result of a wait are set: it is not made dormant *)
(* so, starts to wait only by itself, and ends a wait with a result.       *)
Alters(S, M, t, ts, e) ==
  /\ M.tstat = [S.tstat EXCEPT ![t] = ts]
  /\ M.wercd = [S.wercd EXCEPT ![t] = e]
  /\ M.wupque = S.wupque /\ M.actque = S.actque
  /\ M.enatex = S.enatex /\ M.texptn = S.texptn
  /\ M.texfrm = S.texfrm /\ M.priority = S.priority
  /\ M.runtsk = S.runtsk /\ M.ipmflg = S.ipmflg
  /\ M.handlers = S.handlers /\ M.reqflg = S.reqflg

MayAlter(S, t, ts, e) ==
  /\ ~TSTAT_DORMANT(ts)
  /\ S.wupque[t] => ~TSTAT_WAIT_SLP(ts)
  /\ t # S.runtsk =>
       /\ TSTAT_WAITING(ts) => e = "none"
       /\ S.wercd[t] # "none" => e = S.wercd[t]
       /\ TSTAT_WAITING(S.tstat[t]) /\ ~TSTAT_WAITING(ts) => e # "none"

LEMMA Altered ==
  ASSUME NEW S \in KernelState, Extra(S), NEW M \in KernelState,
         NEW t \in Tasks, NEW ts, NEW e, Alters(S, M, t, ts, e),
         MayAlter(S, t, ts, e), NEW x
  PROVE  Middle(S, M, x) /\ TexKept(S, M)
<1>1. S.tstat \in [Tasks -> TStat] /\ DOMAIN S.wercd = Tasks
  BY DEF KernelState
<1>2. M.tstat[t] = ts /\ M.wercd[t] = e
  BY <1>1 DEF Alters
<1>3. Touches(S, M, t)
  BY <1>1 DEF Touches, Alters
<1>4. RequestOK(M, t) /\ ResultOK(M, t) /\ ResultStays(S, M, t)
  BY <1>2 DEF MayAlter, Alters, RequestOK, ResultOK, ResultStays
<1>5. Len(M.texfrm[t]) <= Len(S.texfrm[t]) /\ TexAllowed(S, M, t)
  <2>1. /\ Len(S.texfrm[t]) \in Nat /\ M.texfrm = S.texfrm
        /\ M.enatex = S.enatex
    BY FrameLens DEF Alters
  <2> QED BY <2>1 DEF TexAllowed
<1>6. TexKept(S, M)
  BY DEF TexKept, Alters
<1> QED BY <1>3, <1>4, <1>5, <1>6, Touched

(* What the operations alter.                                              *)
LEMMA ReadyAlters ==
  ASSUME NEW S \in KernelState, NEW t \in Tasks, NEW ts \in TStat
  PROVE  LET A == [S EXCEPT !.tstat[t] = ts]
         IN /\ Alters(S, make_runnable(A, t).st, t, ts, S.wercd[t])
            /\ Alters(S, make_non_runnable(A, t).st, t, ts, S.wercd[t])
            /\ Alters(S, A, t, ts, S.wercd[t])
            /\ make_active(S, t) =
                 make_runnable([S EXCEPT !.tstat[t] = TS_RUNNABLE], t)
<1> DEFINE A == [S EXCEPT !.tstat[t] = ts]
<1>1. /\ A \in KernelState
      /\ A.tstat = [S.tstat EXCEPT ![t] = ts] /\ A.wercd = S.wercd
      /\ A.wupque = S.wupque /\ A.actque = S.actque
      /\ A.enatex = S.enatex /\ A.texptn = S.texptn
      /\ A.texfrm = S.texfrm /\ A.priority = S.priority
      /\ A.runtsk = S.runtsk /\ A.ipmflg = S.ipmflg
      /\ A.handlers = S.handlers /\ A.reqflg = S.reqflg
  BY DEF KernelState
<1>2. S.wercd = [S.wercd EXCEPT ![t] = S.wercd[t]]
  BY DEF KernelState
<1> HIDE DEF A
<1>3. Alters(S, A, t, ts, S.wercd[t])
  BY <1>1, <1>2 DEF Alters
<1>4. /\ Requeues(A, make_runnable(A, t).st)
      /\ make_runnable(A, t).st.priority = A.priority
      /\ Requeues(A, make_non_runnable(A, t).st)
      /\ make_non_runnable(A, t).st.priority = A.priority
  BY <1>1, RequeuesOps
<1>5. \A R : Requeues(A, R) /\ R.priority = A.priority
               => Alters(S, R, t, ts, S.wercd[t])
  BY <1>3 DEF Alters, Requeues
<1>6. /\ Alters(S, make_runnable(A, t).st, t, ts, S.wercd[t])
      /\ Alters(S, make_non_runnable(A, t).st, t, ts, S.wercd[t])
  BY <1>4, <1>5
<1> QED BY <1>3, <1>6 DEF A, make_active

LEMMA TmoAlters ==
  ASSUME NEW S, NEW P \in KernelState, NEW t, NEW ts, NEW e, NEW u, NEW x,
         Alters(S, P, t, ts, e)
  PROVE  Alters(S, [P EXCEPT !.tmo[u] = x], t, ts, e)
<1> DEFINE R == [P EXCEPT !.tmo[u] = x]
<1>1. /\ R.tstat = P.tstat /\ R.wercd = P.wercd
      /\ R.wupque = P.wupque /\ R.actque = P.actque
      /\ R.enatex = P.enatex /\ R.texptn = P.texptn
      /\ R.texfrm = P.texfrm /\ R.priority = P.priority
      /\ R.runtsk = P.runtsk /\ R.ipmflg = P.ipmflg
      /\ R.handlers = P.handlers /\ R.reqflg = P.reqflg
  BY DEF KernelState
<1> HIDE DEF R
<1>2. Alters(S, R, t, ts, e)
  BY <1>1 DEF Alters
<1> QED BY <1>2 DEF R

LEMMA MakeWaitAlters ==
  ASSUME NEW S, Base(S), S.runtsk \in Tasks,
         TSTAT_RUNNABLE(S.tstat[S.runtsk]),
         NEW reason \in WaitReason, NEW x \in Int
  PROVE  LET t == S.runtsk
             ts == TS_WAITING(reason)
             W == make_wait(S, reason)
             X == [W EXCEPT !.tmo[t] = x]
         IN Alters(S, W, t, ts, S.wercd[t]) /\ Alters(S, X, t, ts, S.wercd[t])
<1> DEFINE t == S.runtsk
           ts == TS_WAITING(reason)
           N == make_non_runnable([S EXCEPT !.tstat[t] = ts], t).st
<1>1. /\ ts \in TStat /\ ~TSTAT_RUNNABLE(ts) /\ TSTAT_WAITING(ts)
  BY WaitFacts
<1>2. make_wait(S, reason) = [N EXCEPT !.tmo[t] = TMO_FEVR]
  BY DEF make_wait
<1> HIDE DEF ts
<1>3. S \in KernelState
  BY DEF Base, Core
<1>4. Alters(S, N, t, ts, S.wercd[t])
  BY <1>1, <1>3, ReadyAlters
<1>5. N \in KernelState
  <2>1. Deactivated(S, t, ts, make_non_runnable([S EXCEPT !.tstat[t] = ts], t))
    BY <1>1, Deactivate
  <2> QED BY <2>1 DEF Deactivated, BaseBut, Core
<1> HIDE DEF N
<1>6. N \in KernelState
  BY <1>5
<1>7. Alters(S, make_wait(S, reason), t, ts, S.wercd[t])
  <2>1. Alters(S, [N EXCEPT !.tmo[t] = TMO_FEVR], t, ts, S.wercd[t])
    BY <1>4, <1>6, TmoAlters
  <2> QED BY <1>2, <2>1
<1>8. make_wait(S, reason) \in KernelState
  <2> DEFINE X == {t}
             W == make_wait(S, reason)
  <2>1. X = {S.runtsk}
    OBVIOUS
  <2> HIDE DEF X, W
  <2>2. BaseBut(W, X)
    BY <2>1, MakeWait DEF W
  <2> QED BY <2>2 DEF BaseBut, Core, W
<1>9. Alters(S, [make_wait(S, reason) EXCEPT !.tmo[t] = x], t, ts, S.wercd[t])
  BY <1>7, <1>8, TmoAlters
<1> QED BY <1>7, <1>9 DEF ts

(* The end of a wait: result e for t, which is suspended or ready.         *)
LEMMA EndWaitAlters ==
  ASSUME NEW S \in KernelState, NEW t \in Tasks,
         NEW e \in {"E_OK", "E_RLWAI", "E_TMOUT"},
         NEW D \in KernelState, Keeps(S, D),
         NEW r, r = make_non_wait([D EXCEPT !.wercd[t] = e], t)
  PROVE  \/ Alters(S, r.st, t, TS_RUNNABLE, e)
         \/ Alters(S, r.st, t, TS_SUSPENDED, e)
<1> DEFINE E == [D EXCEPT !.wercd[t] = e]
<1>1. S.wercd \in [Tasks -> {"none", "E_OK", "E_TMOUT", "E_RLWAI", "E_DLT"}]
  BY DEF KernelState
<1>2. /\ E \in KernelState
      /\ E.tstat = S.tstat /\ E.wercd = [S.wercd EXCEPT ![t] = e]
      /\ E.wupque = S.wupque /\ E.actque = S.actque
      /\ E.enatex = S.enatex /\ E.texptn = S.texptn
      /\ E.texfrm = S.texfrm /\ E.priority = S.priority
      /\ E.runtsk = S.runtsk /\ E.ipmflg = S.ipmflg
      /\ E.handlers = S.handlers /\ E.reqflg = S.reqflg
  <2>1. /\ D.tstat = S.tstat /\ D.wercd = S.wercd
        /\ D.wupque = S.wupque /\ D.actque = S.actque
        /\ D.enatex = S.enatex /\ D.texptn = S.texptn
        /\ D.texfrm = S.texfrm /\ D.priority = S.priority
        /\ D.runtsk = S.runtsk /\ D.ipmflg = S.ipmflg
        /\ D.handlers = S.handlers /\ D.reqflg = S.reqflg
    BY DEF Keeps, Requeues
  <2>2. [D.wercd EXCEPT ![t] = e]
          \in [Tasks -> {"none", "E_OK", "E_TMOUT", "E_RLWAI", "E_DLT"}]
    BY <1>1, <2>1
  <2>3. /\ E.wercd = [D.wercd EXCEPT ![t] = e]
        /\ E.tstat = D.tstat
        /\ E.wupque = D.wupque /\ E.actque = D.actque
        /\ E.enatex = D.enatex /\ E.texptn = D.texptn
        /\ E.texfrm = D.texfrm /\ E.priority = D.priority
        /\ E.runtsk = D.runtsk /\ E.ipmflg = D.ipmflg
        /\ E.handlers = D.handlers /\ E.reqflg = D.reqflg
    BY DEF KernelState
  <2>4. E \in KernelState
    <3> DEFINE w == [D.wercd EXCEPT ![t] = e]
    <3>1. E = [D EXCEPT !.wercd = w]
      BY DEF KernelState
    <3>2. w \in [Tasks -> {"none", "E_OK", "E_TMOUT", "E_RLWAI", "E_DLT"}]
      BY <2>2
    <3> HIDE DEF w, E
    <3> QED BY <3>1, <3>2 DEF KernelState
  <2> HIDE DEF E
  <2> QED BY <2>1, <2>3, <2>4
<1>2a. r = make_non_wait(E, t)
  OBVIOUS
<1> HIDE DEF E
<1>3. TS_RUNNABLE \in TStat /\ TS_SUSPENDED \in TStat
  BY DEF TStat
<1>4. \/ r.st = make_runnable([E EXCEPT !.tstat[t] = TS_RUNNABLE], t).st
      \/ r.st = [E EXCEPT !.tstat[t] = TS_SUSPENDED]
  BY <1>2a DEF make_non_wait
<1>5. \/ Alters(E, r.st, t, TS_RUNNABLE, E.wercd[t])
      \/ Alters(E, r.st, t, TS_SUSPENDED, E.wercd[t])
  BY <1>2, <1>3, <1>4, ReadyAlters
<1>6. E.wercd[t] = e /\ [E.wercd EXCEPT ![t] = e] = E.wercd
  BY <1>1, <1>2
<1>7. \A ts : Alters(E, r.st, t, ts, E.wercd[t]) => Alters(S, r.st, t, ts, e)
  BY <1>2, <1>6 DEF Alters
<1> QED BY <1>5, <1>7

(* t waits for nothing any more, and its wait is still to be ended.        *)
Loosed(S, D, t) ==
  BaseBut(D, {t}) /\ Prepared(S, D) /\ D.tmo[t] = -1 /\ Keeps(S, D)

LEMMA WaitLoosed ==
  ASSUME NEW S, Base(S), NEW t \in Tasks, TSTAT_WAITING(S.tstat[t])
  PROVE  /\ Loosed(S, wait_dequeue_tmevtb(wait_dequeue_wobj(S, t), t), t)
         /\ TS_WAIT_DLY \notin S.tstat[t]
              => Loosed(S, wait_dequeue_wobj([S EXCEPT !.tmo[t] = -1], t), t)
         /\ ~TSTAT_WAIT_WOBJ(S.tstat[t])
              => Loosed(S, [S EXCEPT !.tmo[t] = -1], t)
<1> DEFINE Q == wait_dequeue_wobj(S, t)
           D == wait_dequeue_tmevtb(Q, t)
           N == [S EXCEPT !.tmo[t] = -1]
           W == wait_dequeue_wobj(N, t)
           X == {} \cup {t}
<1>1. /\ BaseBut(S, {}) /\ t \notin {} /\ S \in KernelState
      /\ -1 \in Int /\ -1 >= -1 /\ -1 # 0
  BY BaseIsBut DEF Base, Core
<1>2. X = {t} /\ t \in X /\ X = {} \cup {t}
  OBVIOUS
<1>3. Keeps(S, Q) /\ Keeps(S, N)
  BY <1>1, KeptByWait
<1>4. Retimed(S, N, t, -1)
  BY <1>1, SetTmo
<1>5. N \in KernelState => Keeps(N, W)
  BY KeptByWait
<1>6. Q \in KernelState => Keeps(Q, D)
  BY KeptByWait DEF wait_dequeue_tmevtb
<1> HIDE DEF X
<1>7. Loosed(S, D, t)
  <2>1. BaseBut(Q, X) /\ Ready(Q) = Ready(S) /\ Alike(S, Q)
    BY <1>1, <1>2, DequeueWobj
  <2> HIDE DEF Q
  <2>2. BaseBut(D, X) /\ Ready(D) = Ready(Q) /\ Retimed(Q, D, t, -1)
    BY <1>2, <2>1, DequeueTmevtb
  <2> HIDE DEF D
  <2>3. Keeps(S, D)
    BY <1>3, <1>6, <2>1 DEF Alike, Keeps, Requeues
  <2>4. D.tmo[t] = -1 /\ Prepared(S, D)
    BY <2>1, <2>2 DEF Retimed, Prepared, Alike, Frame
  <2> QED
    BY <1>2, <2>2, <2>3, <2>4 DEF Loosed
<1>8. TS_WAIT_DLY \notin S.tstat[t] => Loosed(S, W, t)
  <2> SUFFICES ASSUME TS_WAIT_DLY \notin S.tstat[t] PROVE Loosed(S, W, t)
    OBVIOUS
  <2> HIDE DEF N
  <2>1. BaseBut(N, {}) /\ Ready(N) = Ready(S)
    BY <1>1, <1>4, Dequeued
  <2>2. TSTAT_WAITING(N.tstat[t]) /\ N.tmo[t] = -1 /\ N \in KernelState
    BY <1>4, <2>1 DEF Retimed, BaseBut, Core
  <2>3. BaseBut(W, X) /\ Ready(W) = Ready(N) /\ Alike(N, W)
    BY <1>1, <1>2, <2>1, <2>2, DequeueWobj
  <2> HIDE DEF W
  <2>4. W.tmo[t] = -1 /\ Prepared(S, W)
    BY <1>4, <2>1, <2>2, <2>3 DEF Retimed, Prepared, Alike, Frame
  <2>5. Keeps(S, W)
    BY <1>3, <1>5, <2>2 DEF Keeps, Requeues
  <2> QED
    BY <1>2, <2>3, <2>4, <2>5 DEF Loosed
<1>9. ~TSTAT_WAIT_WOBJ(S.tstat[t]) => Loosed(S, N, t)
  <2> SUFFICES ASSUME ~TSTAT_WAIT_WOBJ(S.tstat[t]) PROVE Loosed(S, N, t)
    OBVIOUS
  <2> HIDE DEF N
  <2>1. BaseBut(S, X)
    BY <1>1, <1>2, NotQueued
  <2>2. BaseBut(N, X) /\ Ready(N) = Ready(S)
    BY <1>1, <1>2, <1>4, <2>1, Dequeued
  <2>3. N.tmo[t] = -1 /\ Prepared(S, N)
    BY <1>4, <2>2 DEF Retimed, Prepared
  <2> QED
    BY <1>2, <1>3, <2>2, <2>3 DEF Loosed
<1> QED
  BY <1>7, <1>8, <1>9

-----------------------------------------------------------------------------
(* The services.                                                           *)

LEMMA MayRun ==
  ASSUME NEW S, NEW t, TSTAT_DORMANT(S.tstat[t]) \/ TS_SUSPENDED = S.tstat[t],
         NEW ts \in {TS_RUNNABLE, TS_SUSPENDED}
  PROVE  MayAlter(S, t, ts, S.wercd[t])
BY DEF MayAlter, TSTAT_DORMANT, TSTAT_WAITING, TSTAT_WAIT_SLP, TS_DORMANT,
       TS_RUNNABLE, TS_SUSPENDED, TS_WAIT_SLP

(* make_active of a dormant or a suspended task.                           *)
LEMMA ActiveMiddle ==
  ASSUME NEW S, Base(S), Extra(S), NEW t \in Tasks,
         TSTAT_DORMANT(S.tstat[t]) \/ TS_SUSPENDED = S.tstat[t], NEW x
  PROVE  LET r == make_active(S, t)
         IN /\ Base(r.st) /\ Tells(S, r)
            /\ Middle(S, r.st, x) /\ TexKept(S, r.st)
<1> DEFINE r == make_active(S, t)
<1>1. S \in KernelState /\ TS_RUNNABLE \in TStat
  BY DEF Base, Core, TStat
<1>2. ~TSTAT_RUNNABLE(S.tstat[t]) /\ ~TSTAT_WAITING(S.tstat[t])
  BY DEF TSTAT_DORMANT, TSTAT_RUNNABLE, TS_SUSPENDED, TS_DORMANT, TSTAT_WAITING
<1>3. Base(r.st) /\ Tells(S, r)
  BY <1>2, Activate
<1>4. Alters(S, r.st, t, TS_RUNNABLE, S.wercd[t])
  BY <1>1, ReadyAlters
<1> HIDE DEF r
<1>5. MayAlter(S, t, TS_RUNNABLE, S.wercd[t])
  BY MayRun
<1>6. r.st \in KernelState
  BY <1>3 DEF Base, Core
<1>7. Middle(S, r.st, x) /\ TexKept(S, r.st)
  BY <1>1, <1>4, <1>5, <1>6, Altered
<1> QED BY <1>3, <1>7 DEF r

(* Flags of one task that nothing else depends on.                         *)
LEMMA FlagGood ==
  ASSUME NEW S \in KernelState, Extra(S), NEW M \in KernelState,
         NEW t \in Tasks, NEW x,
         M.tstat = S.tstat, M.wercd = S.wercd,
         M.enatex = S.enatex, M.texptn = S.texptn,
         M.texfrm = S.texfrm, M.priority = S.priority,
         M.runtsk = S.runtsk, M.ipmflg = S.ipmflg,
         M.handlers = S.handlers, M.reqflg = S.reqflg,
         \A u \in Tasks \ {t} : /\ M.wupque[u] = S.wupque[u]
                                /\ M.actque[u] = S.actque[u],
         M.wupque[t] => \/ S.wupque[t]
                        \/ /\ ~TSTAT_WAIT_SLP(S.tstat[t])
                           /\ ~TSTAT_DORMANT(S.tstat[t]),
         M.actque[t] => S.actque[t] \/ ~TSTAT_DORMANT(S.tstat[t])
  PROVE  Good(S, M, x)
<1>1. Touches(S, M, t) /\ TexKept(S, M)
  BY DEF Touches, TexKept
<1>2. RequestOK(S, t) /\ ResultOK(S, t) /\ TexDone(S)
  BY DEF Extra
<1>3. RequestOK(M, t) /\ ResultOK(M, t) /\ ResultStays(S, M, t)
  BY <1>2 DEF RequestOK, ResultOK, ResultStays
<1>4. Len(M.texfrm[t]) <= Len(S.texfrm[t]) /\ TexAllowed(S, M, t)
  <2>1. Len(S.texfrm[t]) \in Nat
    BY FrameLens
  <2> QED BY <2>1 DEF TexAllowed
<1>5. Middle(S, M, x)
  BY <1>1, <1>3, <1>4, Touched
<1> QED BY <1>1, <1>2, <1>5, TexKeptDone, MiddleGood

(* actque, and wupque, of a task.                                          *)
LEMMA QueueGood ==
  ASSUME NEW S \in KernelState, Extra(S), NEW t \in Tasks, NEW b \in BOOLEAN,
         NEW x
  PROVE  /\ ~TSTAT_DORMANT(S.tstat[t]) \/ ~b
              => Good(S, [S EXCEPT !.actque[t] = b], x)
         /\ (~TSTAT_DORMANT(S.tstat[t]) /\ ~TSTAT_WAIT_SLP(S.tstat[t])) \/ ~b
              => Good(S, [S EXCEPT !.wupque[t] = b], x)
<1>1. S.actque \in [Tasks -> BOOLEAN] /\ S.wupque \in [Tasks -> BOOLEAN]
  BY DEF KernelState
<1>2. ASSUME ~TSTAT_DORMANT(S.tstat[t]) \/ ~b
      PROVE  Good(S, [S EXCEPT !.actque[t] = b], x)
  <2> DEFINE A == [S EXCEPT !.actque[t] = b]
  <2>1. /\ A \in KernelState /\ A.actque = [S.actque EXCEPT ![t] = b]
        /\ A.tstat = S.tstat /\ A.wercd = S.wercd
        /\ A.enatex = S.enatex /\ A.texptn = S.texptn
        /\ A.texfrm = S.texfrm /\ A.priority = S.priority
        /\ A.runtsk = S.runtsk /\ A.ipmflg = S.ipmflg
        /\ A.handlers = S.handlers /\ A.reqflg = S.reqflg
        /\ A.wupque = S.wupque
    BY DEF KernelState
  <2> HIDE DEF A
  <2>2. /\ \A u \in Tasks \ {t} : A.actque[u] = S.actque[u]
        /\ A.actque[t] => ~TSTAT_DORMANT(S.tstat[t])
    BY <1>1, <1>2, <2>1
  <2>3. /\ \A u \in Tasks \ {t} : A.wupque[u] = S.wupque[u]
        /\ A.wupque[t] => S.wupque[t]
    BY <2>1
  <2>4. Good(S, A, x)
    BY <2>1, <2>2, <2>3, FlagGood
  <2> QED BY <2>4 DEF A
<1>3. ASSUME (~TSTAT_DORMANT(S.tstat[t]) /\ ~TSTAT_WAIT_SLP(S.tstat[t])) \/ ~b
      PROVE  Good(S, [S EXCEPT !.wupque[t] = b], x)
  <2> DEFINE A == [S EXCEPT !.wupque[t] = b]
  <2>1. /\ A \in KernelState /\ A.wupque = [S.wupque EXCEPT ![t] = b]
        /\ A.tstat = S.tstat /\ A.wercd = S.wercd
        /\ A.enatex = S.enatex /\ A.texptn = S.texptn
        /\ A.texfrm = S.texfrm /\ A.priority = S.priority
        /\ A.runtsk = S.runtsk /\ A.ipmflg = S.ipmflg
        /\ A.handlers = S.handlers /\ A.reqflg = S.reqflg
        /\ A.actque = S.actque
    BY DEF KernelState
  <2> HIDE DEF A
  <2>2. /\ \A u \in Tasks \ {t} : A.wupque[u] = S.wupque[u]
        /\ A.wupque[t] => ~TSTAT_WAIT_SLP(S.tstat[t])
                          /\ ~TSTAT_DORMANT(S.tstat[t])
    BY <1>1, <1>3, <2>1
  <2>3. Good(S, A, x)
    BY <2>1, <2>2, FlagGood
  <2> QED BY <2>3 DEF A
<1> QED BY <1>2, <1>3

LEMMA ActGood ==
  ASSUME KernelInv(k), Extra(k), NEW t \in Tasks, act_tsk(t)
  PROVE  Good(k, k', NULL)
<1>1. /\ Base(k) /\ k \in KernelState /\ k.handlers = <<>> /\ ~k.reqflg
  BY TskCtxFacts DEF act_tsk, TskCtxUnl
<1>2. CASE /\ TSTAT_DORMANT(k.tstat[t])
           /\ k' = DispatchIf(make_active(k, t))
  <2> DEFINE r == make_active(k, t)
  <2>1. Base(r.st) /\ Middle(k, r.st, NULL) /\ TexKept(k, r.st)
    BY <1>1, <1>2, ActiveMiddle
  <2> HIDE DEF r
  <2>2. Good(k, DispatchIf(r), NULL)
    BY <1>1, <2>1, DispatchIfMiddle
  <2> QED BY <1>2, <2>2 DEF r
<1>3. CASE ~TSTAT_DORMANT(k.tstat[t]) /\ k' = [k EXCEPT !.actque[t] = TRUE]
  BY <1>1, <1>3, QueueGood
<1> QED BY <1>2, <1>3 DEF act_tsk

LEMMA IactGood ==
  ASSUME KernelInv(k), Extra(k), NEW t \in Tasks, iact_tsk(t)
  PROVE  Good(k, k', NULL)
<1>1. Base(k) /\ k \in KernelState /\ k.handlers # <<>>
  BY HandlerFacts DEF iact_tsk, IntCtxUnl
<1>2. CASE /\ TSTAT_DORMANT(k.tstat[t])
           /\ k' = RequestIf(make_active(k, t))
  <2> DEFINE r == make_active(k, t)
  <2>1. Tells(k, r) /\ Middle(k, r.st, NULL) /\ TexKept(k, r.st) /\ Base(r.st)
    BY <1>1, <1>2, ActiveMiddle
  <2> HIDE DEF r
  <2>2. Good(k, RequestIf(r), NULL)
    BY <1>1, <2>1, RequestIfMiddle DEF Tells
  <2> QED BY <1>2, <2>2 DEF r
<1>3. CASE ~TSTAT_DORMANT(k.tstat[t]) /\ k' = [k EXCEPT !.actque[t] = TRUE]
  BY <1>1, <1>3, QueueGood
<1> QED BY <1>2, <1>3 DEF iact_tsk

LEMMA CanGood ==
  ASSUME KernelInv(k), Extra(k), NEW t \in Tasks, can_act(t) \/ can_wup(t)
  PROVE  Good(k, k', NULL)
<1>1. k \in KernelState
  BY DEF KernelInv, Base, Core
<1>2. /\ Good(k, [k EXCEPT !.actque[t] = FALSE], NULL)
      /\ Good(k, [k EXCEPT !.wupque[t] = FALSE], NULL)
  BY <1>1, QueueGood
<1> QED BY <1>2 DEF can_act, can_wup

(* The priority of a task that is not dormant.                             *)
LEMMA PriorityMiddle ==
  ASSUME NEW S, Base(S), Extra(S), NEW t \in Tasks, NEW newpri \in Pri,
         ~TSTAT_DORMANT(S.tstat[t]), NEW R, R \in KernelState,
         Requeues(S, R), \A u \in Tasks \ {t} : R.priority[u] = S.priority[u]
  PROVE  Middle(S, R, NULL) /\ TexKept(S, R)
<1>1. S \in KernelState
  BY DEF Base, Core
<1>2. Touches(S, R, t) /\ TexKept(S, R)
  BY DEF Touches, TexKept, Requeues
<1>3. RequestOK(S, t) /\ ResultOK(S, t)
  BY DEF Extra
<1>4. RequestOK(R, t) /\ ResultOK(R, t) /\ ResultStays(S, R, t)
  BY <1>3 DEF RequestOK, ResultOK, ResultStays, Requeues
<1>5. Len(R.texfrm[t]) <= Len(S.texfrm[t]) /\ TexAllowed(S, R, t)
  <2>1. /\ Len(S.texfrm[t]) \in Nat /\ R.texfrm[t] = S.texfrm[t]
        /\ R.enatex = S.enatex
    BY <1>1, FrameLens DEF Requeues
  <2> QED BY <2>1 DEF TexAllowed
<1> QED BY <1>1, <1>2, <1>4, <1>5, Touched

LEMMA ChgPriGood ==
  ASSUME KernelInv(k), Extra(k), NEW t \in Tasks, NEW newpri \in Pri,
         chg_pri(t, newpri)
  PROVE  Good(k, k', NULL)
<1> DEFINE r == change_priority(k, t, newpri)
           P == [k EXCEPT !.priority[t] = newpri]
<1>1. /\ Base(k) /\ k \in KernelState /\ k.handlers = <<>> /\ ~k.reqflg
      /\ ~TSTAT_DORMANT(k.tstat[t]) /\ k' = DispatchIf(r)
  BY TskCtxFacts DEF chg_pri, TskCtxUnl
<1>2. Base(r.st)
  BY <1>1, ChangePriority DEF Reprio
<1>3. /\ Requeues(k, r.st)
      /\ \A u \in Tasks \ {t} : r.st.priority[u] = k.priority[u]
  <2>1. CASE TSTAT_RUNNABLE(k.tstat[t])
    BY <1>1, <2>1, ChangeRequeues DEF change_priority
  <2>2. CASE ~TSTAT_RUNNABLE(k.tstat[t])
    <3>1. r.st = P \/ r.st = wobj_change_priority(P, t)
      BY <2>2 DEF change_priority
    <3>2. /\ P \in KernelState /\ Requeues(k, P)
          /\ \A u \in Tasks \ {t} : P.priority[u] = k.priority[u]
      BY <1>1 DEF KernelState, Requeues
    <3> HIDE DEF P, r
    <3>3. Keeps(P, wobj_change_priority(P, t))
      BY <3>2, KeptByWait
    <3> QED BY <3>1, <3>2, <3>3 DEF Keeps, Requeues
  <2> QED BY <2>1, <2>2
<1> HIDE DEF r
<1>4. r.st \in KernelState
  BY <1>2 DEF Base, Core
<1>5. Middle(k, r.st, NULL) /\ TexKept(k, r.st)
  BY <1>1, <1>3, <1>4, PriorityMiddle
<1>6. Good(k, DispatchIf(r), NULL)
  BY <1>1, <1>2, <1>5, DispatchIfMiddle
<1> QED BY <1>1, <1>6

LEMMA RotatedMiddle ==
  ASSUME NEW S, Base(S), Extra(S), NEW pri \in Pri
  PROVE  LET r == rotate_ready_queue(S, pri)
         IN /\ Base(r.st) /\ Tells(S, r)
            /\ Middle(S, r.st, NULL) /\ TexKept(S, r.st)
<1> DEFINE r == rotate_ready_queue(S, pri)
<1>1. S \in KernelState
  BY DEF Base, Core
<1>2. Base(r.st) /\ Tells(S, r)
  BY Rotated
<1>3. Requeues(S, r.st) /\ r.st.priority = S.priority
  BY <1>1, RotateRequeues
<1> HIDE DEF r
<1>4. r.st \in KernelState
  BY <1>2 DEF Base, Core
<1>5. Touches(S, r.st, NULL) /\ TexKept(S, r.st)
  BY <1>3, <1>4 DEF Touches, Requeues, TexKept
<1>6. Middle(S, r.st, NULL)
  BY <1>1, <1>5, UntouchedGood
<1> QED BY <1>2, <1>5, <1>6 DEF r

LEMMA RotGood ==
  ASSUME KernelInv(k), Extra(k), NEW pri \in Pri, rot_rdq(pri) \/ irot_rdq(pri)
  PROVE  Good(k, k', NULL)
<1> DEFINE r == rotate_ready_queue(k, pri)
<1>1. Base(k) /\ k \in KernelState
  BY DEF KernelInv, Base, Core
<1>2. /\ Base(r.st) /\ Tells(k, r)
      /\ Middle(k, r.st, NULL) /\ TexKept(k, r.st)
  BY <1>1, RotatedMiddle
<1> HIDE DEF r
<1>3. CASE rot_rdq(pri)
  <2>1. k.handlers = <<>> /\ ~k.reqflg /\ k' = DispatchIf(r)
    BY <1>3, TskCtxFacts DEF rot_rdq, TskCtxUnl, r
  <2>2. Good(k, DispatchIf(r), NULL)
    BY <1>1, <1>2, <2>1, DispatchIfMiddle
  <2> QED BY <2>1, <2>2
<1>4. CASE irot_rdq(pri)
  <2>1. k.handlers # <<>> /\ k' = RequestIf(r)
    BY <1>4 DEF irot_rdq, IntCtxUnl, r
  <2>2. Good(k, RequestIf(r), NULL)
    BY <1>1, <1>2, <2>1, RequestIfMiddle DEF Tells
  <2> QED BY <2>1, <2>2
<1> QED BY <1>3, <1>4

-----------------------------------------------------------------------------
(* Exceptions, and what holds them back.                                   *)

(* Only flags of the kernel, and the exceptions of one task, are assigned. *)
Flags(S, M, t) ==
  /\ M \in KernelState
  /\ M.tstat = S.tstat /\ M.wercd = S.wercd
  /\ M.wupque = S.wupque /\ M.actque = S.actque
  /\ M.texfrm = S.texfrm /\ M.priority = S.priority
  /\ M.runtsk = S.runtsk
  /\ \A u \in Tasks \ {t} : /\ M.enatex[u] = S.enatex[u]
                            /\ M.texptn[u] = S.texptn[u]

LEMMA FlagsMiddle ==
  ASSUME NEW S \in KernelState, Extra(S), NEW M, NEW t, Flags(S, M, t),
         t \in Tasks => ~TSTAT_DORMANT(S.tstat[t]) /\ TexAllowed(S, M, t)
  PROVE  Middle(S, M, NULL)
<1>1. Touches(S, M, t)
  BY DEF Touches, Flags
<1>2. ASSUME t \in Tasks
      PROVE  /\ RequestOK(M, t) /\ ResultOK(M, t) /\ ResultStays(S, M, t)
             /\ Len(M.texfrm[t]) <= Len(S.texfrm[t])
  <2>1. RequestOK(S, t) /\ ResultOK(S, t)
    BY <1>2 DEF Extra
  <2>2. RequestOK(M, t) /\ ResultOK(M, t) /\ ResultStays(S, M, t)
    BY <1>2, <2>1 DEF RequestOK, ResultOK, ResultStays, Flags
  <2>3. Len(S.texfrm[t]) \in Nat /\ M.texfrm = S.texfrm
    BY <1>2, FrameLens DEF Flags
  <2> QED BY <2>2, <2>3
<1> QED BY <1>1, <1>2, Touched

LEMMA LockGood ==
  ASSUME KernelInv(k), Extra(k), loc_cpu \/ unl_cpu \/ dis_dsp \/ chg_ipm_mask
  PROVE  Good(k, k', NULL)
<1>1. k \in KernelState /\ ~k.reqflg
  BY TskCtxFacts DEF loc_cpu, unl_cpu, dis_dsp, chg_ipm_mask, TskCtxUnl
<1>2. CASE loc_cpu \/ unl_cpu \/ dis_dsp
  <2>1. /\ k' \in {[k EXCEPT !.lock = TRUE], [k EXCEPT !.lock = FALSE],
                   [k EXCEPT !.disdsp = TRUE, !.dspflg = FALSE]}
    BY <1>2 DEF loc_cpu, unl_cpu, dis_dsp
  <2>2. \A l \in BOOLEAN : LET A == [k EXCEPT !.lock = l]
                          IN Touches(k, A, NULL) /\ TexKept(k, A)
    BY <1>1 DEF Touches, TexKept, KernelState
  <2>3. LET A == [k EXCEPT !.disdsp = TRUE, !.dspflg = FALSE]
        IN Touches(k, A, NULL) /\ TexKept(k, A)
    BY <1>1 DEF Touches, TexKept, KernelState
  <2>4. Touches(k, k', NULL) /\ TexKept(k, k')
    BY <2>1, <2>2, <2>3
  <2> QED BY <1>1, <2>4, UntouchedGood
<1>3. CASE chg_ipm_mask
  <2>1. k' = [k EXCEPT !.ipmflg = FALSE, !.dspflg = FALSE]
    BY <1>3 DEF chg_ipm_mask
  <2>2. Touches(k, k', NULL) /\ ~k'.ipmflg /\ k'.reqflg = k.reqflg
    BY <1>1, <2>1 DEF Touches, KernelState
  <2>3. TexDone(k')
    BY <1>1, <2>2 DEF TexDone, TexQuiet
  <2>4. Middle(k, k', NULL)
    BY <1>1, <2>2, UntouchedGood
  <2> QED BY <1>1, <2>3, <2>4, MiddleGood
<1> QED BY <1>2, <1>3

LEMMA EnaDspGood ==
  ASSUME KernelInv(k), Extra(k), ena_dsp
  PROVE  Good(k, k', NULL)
<1> DEFINE E == [k EXCEPT !.disdsp = FALSE, !.dspflg = k.ipmflg \/ @]
<1>1. /\ Base(k) /\ k \in KernelState /\ ~k.reqflg
      /\ k.dspflg = (k.ipmflg /\ ~k.disdsp)
  BY TskCtxFacts DEF ena_dsp, TskCtxUnl
<1>2. k' = IF k.ipmflg /\ k.runtsk # k.schedtsk THEN dispatch(E) ELSE E
  BY DEF ena_dsp
<1>3. /\ Flagged(k, E) /\ E.texlp = k.texlp
      /\ E.dspflg = k.ipmflg /\ E.disdsp = FALSE /\ E.ipmflg = k.ipmflg
      /\ E.reqflg = k.reqflg
  BY <1>1 DEF KernelState, Flagged
<1>4. Touches(k, E, NULL) /\ TexKept(k, E)
  BY <1>1, <1>3 DEF Touches, TexKept, Flagged, KernelState
<1> HIDE DEF E
<1>5. Base(E)
  <2>1. FlagsOK(E)
    <3>1. k.ipmflg \in BOOLEAN
      BY <1>1 DEF KernelState
    <3> QED BY <1>3, <3>1 DEF FlagsOK
  <2> QED BY <1>1, <1>3, <2>1, FlaggedBase
<1>6. Middle(k, E, NULL) /\ Good(k, E, NULL)
  BY <1>1, <1>4, UntouchedGood
<1>7. E.runtsk = k.runtsk /\ ~E.reqflg
  BY <1>1, <1>3, <1>4 DEF TexKept
<1>8. Good(k, dispatch(E), NULL)
  BY <1>1, <1>5, <1>6, <1>7, DispatchGood
<1> QED BY <1>2, <1>6, <1>8

LEMMA ChgIpmEnaallGood ==
  ASSUME KernelInv(k), Extra(k), chg_ipm_enaall
  PROVE  Good(k, k', NULL)
<1> DEFINE E == [k EXCEPT !.ipmflg = TRUE,
                          !.dspflg = IF k.disdsp THEN @ ELSE TRUE]
           t == k.runtsk
<1>1. /\ Base(k) /\ k \in KernelState /\ ~k.reqflg /\ t \in Tasks
      /\ k.dspflg = (k.ipmflg /\ ~k.disdsp) /\ TSTAT_RUNNABLE(k.tstat[t])
  BY TskCtxFacts DEF chg_ipm_enaall, TskCtxUnl
<1>2. k' = IF ~k.disdsp /\ t # k.schedtsk THEN dispatch(E)
           ELSE IF k.enatex[t] /\ k.texptn[t] THEN call_texrtn(E) ELSE E
  BY DEF chg_ipm_enaall
<1>3. /\ Flagged(k, E) /\ E.texlp = k.texlp
      /\ E.dspflg = ~k.disdsp /\ E.disdsp = k.disdsp /\ E.ipmflg = TRUE
      /\ E.reqflg = k.reqflg /\ E.enatex = k.enatex /\ E.texptn = k.texptn
  BY <1>1 DEF KernelState, Flagged
<1>4. Touches(k, E, NULL)
  BY <1>1, <1>3 DEF Touches, Flagged, KernelState
<1> HIDE DEF E
<1>5. Base(E)
  BY <1>1, <1>3, FlaggedBase DEF FlagsOK
<1>6. Middle(k, E, NULL)
  BY <1>1, <1>4, UntouchedGood
<1>7. /\ E.runtsk = k.runtsk /\ ~E.reqflg
      /\ ~TSTAT_DORMANT(E.tstat[E.runtsk])
  BY <1>1, <1>3 DEF Flagged, TSTAT_DORMANT, TSTAT_RUNNABLE, TS_DORMANT
<1>8. Good(k, dispatch(E), NULL)
  BY <1>1, <1>5, <1>6, <1>7, DispatchGood
<1>9. k.enatex[t] => Good(k, call_texrtn(E), NULL)
  BY <1>1, <1>3, <1>6, <1>7, TexGood
<1>10. ~(k.enatex[t] /\ k.texptn[t]) => Good(k, E, NULL)
  <2>1. ~(k.enatex[t] /\ k.texptn[t]) => TexDone(E)
    BY <1>3, <1>7 DEF TexDone, TexQuiet
  <2> QED BY <1>1, <1>6, <2>1, MiddleGood
<1> QED BY <1>2, <1>8, <1>9, <1>10

LEMMA RasTexGood ==
  ASSUME KernelInv(k), Extra(k), NEW t \in Tasks, ras_tex(t)
  PROVE  Good(k, k', NULL)
<1> DEFINE R == [k EXCEPT !.texptn[t] = TRUE]
<1>1. /\ k \in KernelState /\ ~k.reqflg /\ ~TSTAT_DORMANT(k.tstat[t])
      /\ k.runtsk \in Tasks /\ TSTAT_RUNNABLE(k.tstat[k.runtsk])
      /\ k' = IF t = k.runtsk THEN calltex(R) ELSE R
  BY TskCtxFacts DEF ras_tex, TskCtxUnl
<1>2. /\ Flags(k, R, t) /\ R.reqflg = k.reqflg /\ R.ipmflg = k.ipmflg
      /\ R.handlers = k.handlers /\ R.enatex = k.enatex
  BY <1>1 DEF Flags, KernelState
<1> HIDE DEF R
<1>3. Middle(k, R, NULL)
  BY <1>1, <1>2, FlagsMiddle DEF TexAllowed
<1>4. ~R.reqflg /\ R.runtsk \in Tasks /\ ~TSTAT_DORMANT(R.tstat[R.runtsk])
  BY <1>1, <1>2 DEF Flags, TSTAT_DORMANT, TSTAT_RUNNABLE, TS_DORMANT
<1>5. Good(k, calltex(R), NULL)
  BY <1>1, <1>3, <1>4, TexGood
<1>6. t # k.runtsk => Good(k, R, NULL)
  <2>1. t # k.runtsk => TexKept(k, R)
    BY <1>1, <1>2 DEF TexKept, Flags
  <2> QED BY <1>1, <1>3, <2>1, TexKeptDone, MiddleGood DEF Extra
<1> QED BY <1>1, <1>5, <1>6

LEMMA IrasTexGood ==
  ASSUME KernelInv(k), Extra(k), NEW t \in Tasks, iras_tex(t)
  PROVE  Good(k, k', NULL)
<1> DEFINE q == k.reqflg \/ (t = k.runtsk /\ k.enatex[t] /\ k.ipmflg)
           R == [k EXCEPT !.texptn[t] = TRUE, !.reqflg = q]
<1>1. k \in KernelState /\ k.handlers # <<>> /\ ~TSTAT_DORMANT(k.tstat[t])
  BY HandlerFacts DEF iras_tex, IntCtxUnl
<1>2. k' = R
  BY DEF iras_tex
<1>3. q \in BOOLEAN
  BY <1>1 DEF KernelState
<1>4. /\ k.reqflg => q
      /\ t = k.runtsk /\ k.enatex[t] /\ k.ipmflg => q
      /\ q => k.ipmflg
  BY DEF Extra, TexDone
<1> HIDE DEF q
<1>5. /\ Flags(k, R, t) /\ R.reqflg = q /\ R.ipmflg = k.ipmflg
      /\ R.handlers = k.handlers /\ R.enatex = k.enatex
  BY <1>1, <1>3 DEF Flags, KernelState
<1> HIDE DEF R
<1>6. Middle(k, R, NULL)
  BY <1>1, <1>5, FlagsMiddle DEF TexAllowed
<1>7. TexDone(R)
  <2>1. CASE t = k.runtsk
    BY <1>1, <1>4, <1>5, <2>1 DEF TexDone, TexQuiet, Flags
  <2>2. CASE t # k.runtsk
    <3>1. TexQuiet(k) => TexQuiet(R)
      BY <1>1, <1>5, <2>2 DEF TexQuiet, Flags, KernelState
    <3> QED BY <1>1, <1>4, <1>5, <3>1 DEF TexDone, Extra
  <2> QED BY <2>1, <2>2
<1> QED BY <1>1, <1>2, <1>6, <1>7, MiddleGood

LEMMA DisTexGood ==
  ASSUME KernelInv(k), Extra(k), dis_tex \/ ena_tex
  PROVE  Good(k, k', NULL)
<1> DEFINE t == k.runtsk
           F == [k EXCEPT !.enatex[t] = FALSE]
           T == [k EXCEPT !.enatex[t] = TRUE]
<1>1. /\ k \in KernelState /\ ~k.reqflg
      /\ t \in Tasks /\ ~TSTAT_DORMANT(k.tstat[t])
  BY TskCtxFacts DEF dis_tex, ena_tex, TskCtxUnl, TSTAT_DORMANT,
                     TSTAT_RUNNABLE, TS_DORMANT
<1>2. /\ Flags(k, F, t) /\ F.reqflg = k.reqflg /\ F.ipmflg = k.ipmflg
      /\ F.handlers = k.handlers /\ ~F.enatex[t] /\ F.texptn = k.texptn
  BY <1>1 DEF Flags, KernelState
<1>3. /\ Flags(k, T, t) /\ T.reqflg = k.reqflg
  BY <1>1 DEF Flags, KernelState
<1>4. dis_tex => k' = F
  BY DEF dis_tex
<1>5. ena_tex => k' = calltex(T)
  BY DEF ena_tex
<1> HIDE DEF F, T
<1>6. Middle(k, F, NULL) /\ (ena_tex => Middle(k, T, NULL))
  <2>1. TexAllowed(k, F, t) /\ (ena_tex => TexAllowed(k, T, t))
    BY <1>2 DEF TexAllowed
  <2> QED BY <1>1, <1>2, <1>3, <2>1, FlagsMiddle
<1>7. Good(k, F, NULL)
  <2>1. TexKept(k, F)
    BY <1>1, <1>2 DEF TexKept, Flags
  <2> QED BY <1>1, <1>6, <2>1, TexKeptDone, MiddleGood DEF Extra
<1>8. ena_tex => Good(k, calltex(T), NULL)
  <2>1. ~T.reqflg /\ T.runtsk \in Tasks /\ ~TSTAT_DORMANT(T.tstat[T.runtsk])
    BY <1>1, <1>3 DEF Flags
  <2> QED BY <1>1, <1>6, <2>1, TexGood
<1> QED BY <1>4, <1>5, <1>7, <1>8

-----------------------------------------------------------------------------
(* The end of a task.                                                      *)

Fresh(D, t) ==
  /\ TSTAT_DORMANT(D.tstat[t])
  /\ ~D.wupque[t] /\ ~D.enatex[t] /\ ~D.texptn[t]
  /\ D.priority[t] = ipriority[t] /\ D.texfrm[t] = <<>>

LEMMA TouchesTrans ==
  ASSUME NEW S, NEW M, NEW R, NEW t, Touches(S, M, t), Touches(M, R, t)
  PROVE  Touches(S, R, t)
BY DEF Touches

LEMMA RequeuesTouches ==
  ASSUME NEW S, NEW M \in KernelState, NEW t, Requeues(S, M),
         M.priority = S.priority
  PROVE  Touches(S, M, t)
BY DEF Touches, Requeues

LEMMA DormantTouches ==
  ASSUME NEW N \in KernelState, NEW t \in Tasks, NEW D, D = make_dormant(N, t)
  PROVE  /\ Touches(N, D, t) /\ Fresh(D, t)
         /\ D.actque = N.actque /\ D.wercd = N.wercd
         /\ D.reqflg = N.reqflg
<1>1. D \in KernelState
  <2>1. ipriority[t] \in Pri /\ TS_DORMANT \in TStat /\ <<>> \in Seq(BOOLEAN)
    BY TaskAssumption DEF TStat
  <2> QED BY <2>1, ZenonT(60) DEF make_dormant, KernelState
<1>2. /\ D.tstat = [N.tstat EXCEPT ![t] = TS_DORMANT]
      /\ D.priority = [N.priority EXCEPT ![t] = ipriority[t]]
      /\ D.wupque = [N.wupque EXCEPT ![t] = FALSE]
      /\ D.enatex = [N.enatex EXCEPT ![t] = FALSE]
      /\ D.texptn = [N.texptn EXCEPT ![t] = FALSE]
      /\ D.texfrm = [N.texfrm EXCEPT ![t] = <<>>]
      /\ D.actque = N.actque /\ D.wercd = N.wercd /\ D.runtsk = N.runtsk
      /\ D.reqflg = N.reqflg
  BY DEF make_dormant, KernelState
<1>3. /\ DOMAIN N.tstat = Tasks /\ DOMAIN N.priority = Tasks
      /\ DOMAIN N.wupque = Tasks /\ DOMAIN N.enatex = Tasks
      /\ DOMAIN N.texptn = Tasks /\ DOMAIN N.texfrm = Tasks
  BY DEF KernelState
<1>4. Fresh(D, t)
  BY <1>2, <1>3 DEF Fresh, TSTAT_DORMANT
<1>5. Touches(N, D, t)
  BY <1>1, <1>2, <1>3 DEF Touches
<1> QED BY <1>2, <1>4, <1>5

LEMMA RestartTouches ==
  ASSUME NEW D \in KernelState, NEW t \in Tasks, Fresh(D, t),
         NEW R \in KernelState, R = Restart(D, t).st
  PROVE  /\ Touches(D, R, t) /\ RequestOK(R, t)
         /\ ~TSTAT_WAITING(R.tstat[t]) /\ R.texfrm[t] = <<>>
         /\ ~R.enatex[t]
<1>1. CASE D.actque[t]
  <2> DEFINE A == [D EXCEPT !.actque[t] = FALSE]
  <2>1. /\ A \in KernelState /\ A.actque = [D.actque EXCEPT ![t] = FALSE]
        /\ A.tstat = D.tstat /\ A.wercd = D.wercd /\ A.wupque = D.wupque
        /\ A.enatex = D.enatex /\ A.texptn = D.texptn
        /\ A.texfrm = D.texfrm /\ A.priority = D.priority
        /\ A.runtsk = D.runtsk
    BY DEF KernelState
  <2>2. R = make_active(A, t).st
    BY <1>1 DEF Restart
  <2> HIDE DEF A
  <2>3. Alters(A, R, t, TS_RUNNABLE, A.wercd[t])
    <3>1. TS_RUNNABLE \in TStat
      BY DEF TStat
    <3>2. Alters(A, make_runnable([A EXCEPT !.tstat[t] = TS_RUNNABLE], t).st,
                 t, TS_RUNNABLE, A.wercd[t])
      BY <2>1, <3>1, ReadyAlters
    <3> QED BY <2>2, <3>2 DEF make_active
  <2>4. /\ DOMAIN A.tstat = Tasks /\ DOMAIN A.wercd = Tasks
        /\ DOMAIN D.actque = Tasks
    BY <2>1 DEF KernelState
  <2>5. Touches(D, R, t)
    <3>1. Touches(A, R, t)
      BY <2>1, <2>3, <2>4 DEF Touches, Alters
    <3>2. Touches(D, A, t)
      BY <2>1, <2>4 DEF Touches
    <3> QED BY <3>1, <3>2, TouchesTrans
  <2>6. R.tstat[t] = TS_RUNNABLE /\ R.texfrm[t] = <<>> /\ ~R.enatex[t]
    BY <2>1, <2>3, <2>4 DEF Alters, Fresh
  <2>7. ~TSTAT_DORMANT(R.tstat[t]) /\ ~TSTAT_WAITING(R.tstat[t])
    BY <2>6 DEF TSTAT_DORMANT, TSTAT_WAITING, TS_RUNNABLE, TS_DORMANT
  <2>8. ~R.wupque[t]
    BY <2>1, <2>3 DEF Alters, Fresh
  <2> QED BY <2>5, <2>6, <2>7, <2>8 DEF RequestOK
<1>2. CASE ~D.actque[t]
  <2>1. R = D
    BY <1>2 DEF Restart
  <2>2. Touches(D, R, t)
    BY <2>1 DEF Touches
  <2>3. ~TSTAT_WAITING(R.tstat[t])
    BY <2>1 DEF Fresh, TSTAT_DORMANT, TSTAT_WAITING, TS_DORMANT
  <2>4. RequestOK(R, t)
    BY <1>2, <2>1 DEF Fresh, RequestOK
  <2> QED BY <2>1, <2>2, <2>3, <2>4 DEF Fresh
<1> QED BY <1>1, <1>2

LEMMA ExitGood ==
  ASSUME KernelInv(k), Extra(k), ext_tsk
  PROVE  Good(k, k', NULL)
<1> DEFINE t == k.runtsk
           E == [k EXCEPT !.disdsp = FALSE, !.ipmflg = TRUE, !.dspflg = TRUE,
                          !.lock = FALSE]
           N == make_non_runnable(E, t).st
           D == make_dormant(N, t)
           A == Exited(k)
<1>1. /\ Base(k) /\ k \in KernelState /\ t \in Tasks /\ t \in Ready(k)
  BY TskCtxFacts DEF ext_tsk
<1>2. /\ Base(A) /\ ~A.reqflg /\ k' = dispatch(A)
  BY ExitedBase
<1>3. A = Restart(D, t).st
  BY DEF Exited
<1> HIDE DEF A
<1>4. /\ E \in KernelState /\ Touches(k, E, t)
      /\ E.readyq = k.readyq /\ E.primap = k.primap
      /\ E.schedtsk = k.schedtsk /\ E.priority = k.priority
      /\ E.tstat = k.tstat /\ E.tmo = k.tmo
      /\ E.texfrm = k.texfrm /\ E.texlp = k.texlp /\ FlagsOK(E)
  BY <1>1 DEF KernelState, FlagsOK, Touches
<1>4a. E.waitq = k.waitq /\ E.handlers = k.handlers
  BY <1>1 DEF KernelState
<1> HIDE DEF E
<1>5. N \in KernelState
  <2>1. Base(E) /\ Ready(E) = Ready(k)
    BY <1>1, <1>4, <1>4a, Unmoved
  <2>2. /\ E \in KernelState /\ QueuesOK(E) /\ SchedOK(E) /\ t \in Ready(E)
    BY <1>1, <2>1 DEF Base, Core
  <2> QED BY <2>2, MakeNonRunnable
<1>6. Touches(E, N, t)
  BY <1>1, <1>4, <1>5, RequeuesOps, RequeuesTouches
<1> HIDE DEF N
<1>7. Touches(N, D, t) /\ Fresh(D, t)
  BY <1>1, <1>5, DormantTouches
<1> HIDE DEF D
<1>8. D \in KernelState /\ A \in KernelState
  BY <1>2, <1>7 DEF Touches, Base, Core
<1>9. /\ Touches(D, A, t) /\ RequestOK(A, t) /\ A.texfrm[t] = <<>>
      /\ ~A.enatex[t]
  BY <1>1, <1>3, <1>7, <1>8, RestartTouches
<1>10. Touches(k, A, t)
  BY <1>4, <1>6, <1>7, <1>9, TouchesTrans
<1>11. ResultOK(A, t) /\ ResultStays(k, A, t)
  BY <1>10 DEF ResultOK, ResultStays, Touches
<1>12. Len(A.texfrm[t]) <= Len(k.texfrm[t]) /\ TexAllowed(k, A, t)
  <2>1. Len(k.texfrm[t]) \in Nat
    BY <1>1, FrameLens
  <2> QED BY <1>9, <2>1 DEF TexAllowed
<1>13. Middle(k, A, NULL)
  BY <1>1, <1>9, <1>10, <1>11, <1>12, Touched
<1>14. A.runtsk = k.runtsk
  BY <1>10 DEF Touches
<1> QED BY <1>1, <1>2, <1>13, <1>14, DispatchGood

LEMMA TerGood ==
  ASSUME KernelInv(k), Extra(k), NEW t \in Tasks, ter_tsk(t)
  PROVE  Good(k, k', t)
<1> DEFINE E == IF TSTAT_RUNNABLE(k.tstat[t]) THEN make_non_runnable(k, t).st
                ELSE IF TSTAT_WAITING(k.tstat[t])
                THEN wait_dequeue_tmevtb(wait_dequeue_wobj(k, t), t)
                ELSE k
           M == make_dormant(E, t)
           D == [M EXCEPT !.wercd[t] = "none"]
           r == Terminated(k, t)
<1>1. /\ Base(k) /\ k \in KernelState /\ k.handlers = <<>> /\ ~k.reqflg
      /\ t # k.runtsk
  BY TskCtxFacts DEF ter_tsk, TskCtxUnl
<1>2. Base(r.st) /\ Frame(k, r.st) /\ k' = DispatchIf(r)
  BY TerminatedBase
<1>3. r = Restart(D, t)
  BY DEF Terminated
<1> HIDE DEF r
<1>4. E \in KernelState /\ Touches(k, E, t)
  <2>1. CASE TSTAT_RUNNABLE(k.tstat[t])
    <3> DEFINE n == make_non_runnable(k, t)
    <3>1. t \in Ready(k)
      BY <1>1, <2>1 DEF Base, RunnableOK
    <3>2. n.st \in KernelState
      BY <1>1, <3>1, MakeNonRunnable DEF Base, Core
    <3>3. Touches(k, n.st, t)
      BY <1>1, <3>2, RequeuesOps, RequeuesTouches
    <3> QED BY <2>1, <3>2, <3>3
  <2>2. CASE ~TSTAT_RUNNABLE(k.tstat[t]) /\ TSTAT_WAITING(k.tstat[t])
    <3>1. Loosed(k, E, t)
      BY <1>1, <2>2, WaitLoosed
    <3> HIDE DEF E
    <3>2. E \in KernelState
      BY <3>1 DEF Loosed, BaseBut, Core
    <3> QED BY <3>1, <3>2 DEF Loosed, Keeps, Requeues, Touches
  <2>3. CASE ~TSTAT_RUNNABLE(k.tstat[t]) /\ ~TSTAT_WAITING(k.tstat[t])
    <3>1. E = k
      BY <2>3
    <3> HIDE DEF E
    <3> QED BY <1>1, <3>1 DEF Touches
  <2> QED BY <2>1, <2>2, <2>3
<1> HIDE DEF E
<1>5. Touches(E, M, t) /\ Fresh(M, t) /\ M \in KernelState
  BY <1>4, DormantTouches DEF Touches
<1> HIDE DEF M
<1>6. /\ D \in KernelState /\ D.wercd = [M.wercd EXCEPT ![t] = "none"]
      /\ D.tstat = M.tstat
      /\ D.wupque = M.wupque /\ D.actque = M.actque
      /\ D.enatex = M.enatex /\ D.texptn = M.texptn
      /\ D.texfrm = M.texfrm /\ D.priority = M.priority
      /\ D.runtsk = M.runtsk /\ DOMAIN M.wercd = Tasks
  BY <1>5 DEF KernelState
<1> HIDE DEF D
<1>7. Touches(M, D, t) /\ Fresh(D, t)
  BY <1>5, <1>6 DEF Touches, Fresh
<1>8. r.st \in KernelState
  BY <1>2 DEF Base, Core
<1>9. /\ Touches(D, r.st, t) /\ RequestOK(r.st, t)
      /\ ~TSTAT_WAITING(r.st.tstat[t]) /\ r.st.texfrm[t] = <<>>
      /\ ~r.st.enatex[t]
  BY <1>3, <1>6, <1>7, <1>8, RestartTouches
<1>10. Touches(k, r.st, t)
  BY <1>4, <1>5, <1>7, <1>9, TouchesTrans
<1>11. ResultOK(r.st, t)
  BY <1>9 DEF ResultOK
<1>12. Len(r.st.texfrm[t]) <= Len(k.texfrm[t]) /\ TexAllowed(k, r.st, t)
  <2>1. Len(k.texfrm[t]) \in Nat
    BY <1>1, FrameLens
  <2> QED BY <1>9, <2>1 DEF TexAllowed
<1>13. Middle(k, r.st, t)
  BY <1>1, <1>9, <1>10, <1>11, <1>12, Touched
<1>14. TexKept(k, r.st)
  <2>1. k.runtsk # NULL => k.runtsk \in Tasks \ {t}
    BY <1>1 DEF KernelState
  <2> QED BY <1>2, <1>10, <2>1 DEF TexKept, Frame, Touches
<1>15. Good(k, DispatchIf(r), t)
  BY <1>1, <1>2, <1>13, <1>14, DispatchIfMiddle
<1> QED BY <1>2, <1>15

-----------------------------------------------------------------------------
(* The end of an exception routine, interrupts, and start-up.              *)

LEMMA TexrtnGood ==
  ASSUME KernelInv(k), Extra(k), texrtn_return
  PROVE  Good(k, k', NULL)
<1> DEFINE t == k.runtsk
           saved == Head(k.texfrm[t])
           R == [k EXCEPT !.lock = FALSE, !.ipmflg = TRUE, !.disdsp = saved,
                          !.dspflg = ~saved, !.enatex[t] = FALSE]
           L == [R EXCEPT !.texlp[t] = TRUE]
<1>1. /\ Base(k) /\ k \in KernelState
      /\ t # NULL /\ t \in Tasks /\ ~k.reqflg /\ TSTAT_RUNNABLE(k.tstat[t])
  BY TskCtxFacts DEF texrtn_return
<1>2. k.texfrm[t] # <<>>
  BY DEF texrtn_return
<1>3. saved \in BOOLEAN
  <2>1. k.texfrm[t] \in Seq(BOOLEAN)
    BY <1>1 DEF KernelState
  <2> QED BY <1>2, <2>1, HeadTailProperties
<1>4. k' = IF t # k.schedtsk /\ ~saved THEN dispatch(L)
           ELSE call_texrtn_until(R)
  BY DEF texrtn_return
<1> HIDE DEF saved
<1>5. /\ Flagged(k, R) /\ Flags(k, R, t) /\ R.texlp = k.texlp
      /\ R.dspflg = ~saved /\ R.disdsp = saved /\ R.ipmflg = TRUE
      /\ R.reqflg = k.reqflg /\ ~R.enatex[t]
  BY <1>1, <1>3 DEF KernelState, Flagged, Flags
<1> HIDE DEF R
<1>6. Base(R)
  BY <1>1, <1>3, <1>5, FlaggedBase DEF FlagsOK
<1>7. ~TSTAT_DORMANT(k.tstat[t])
  BY <1>1 DEF TSTAT_DORMANT, TSTAT_RUNNABLE, TS_DORMANT
<1>8. CASE t # k.schedtsk /\ ~saved
  <2>1. OnlyTex(R, L) /\ Flags(k, L, t) /\ ~L.enatex[t]
    <3>1. L \in KernelState
      BY <1>1, <1>5 DEF Flagged, KernelState
    <3>2. TexFramesOK(L)
      BY <1>1, <1>2, <1>5, <1>6 DEF Base, Flagged, KernelState, TexFramesOK
    <3>3. OnlyTex(R, L)
      BY <1>5, <3>1, <3>2 DEF OnlyTex, Frame, Flagged, KernelState
    <3>4. /\ L.tstat = R.tstat /\ L.wercd = R.wercd
          /\ L.wupque = R.wupque /\ L.actque = R.actque
          /\ L.texfrm = R.texfrm /\ L.priority = R.priority
          /\ L.runtsk = R.runtsk
          /\ L.enatex = R.enatex /\ L.texptn = R.texptn
      BY <1>5 DEF Flags, KernelState
    <3> HIDE DEF L
    <3>5. Flags(k, L, t)
      BY <1>5, <3>1, <3>4 DEF Flags
    <3> QED BY <1>5, <3>3, <3>4, <3>5
  <2> HIDE DEF L
  <2>2. Base(L)
    BY <1>6, <2>1, TexKeeps
  <2>3. ~L.reqflg /\ L.runtsk = k.runtsk
    BY <1>1, <1>5, <2>1 DEF OnlyTex, Frame, Flags
  <2>4. Middle(k, L, NULL)
    BY <1>1, <1>7, <2>1, FlagsMiddle DEF TexAllowed
  <2>5. Good(k, dispatch(L), NULL)
    BY <1>1, <2>2, <2>3, <2>4, DispatchGood
  <2> QED BY <1>4, <1>8, <2>5
<1>9. CASE ~(t # k.schedtsk /\ ~saved)
  <2>1. Middle(k, R, NULL)
    BY <1>1, <1>5, <1>7, FlagsMiddle DEF TexAllowed
  <2>2. /\ R.runtsk \in Tasks /\ ~TSTAT_DORMANT(R.tstat[R.runtsk])
        /\ R.texfrm[R.runtsk] # <<>> /\ ~R.reqflg
    BY <1>1, <1>2, <1>5, <1>7 DEF Flags
  <2>3. Good(k, call_texrtn_until(R), NULL)
    BY <1>1, <2>1, <2>2, TexGood
  <2> QED BY <1>4, <1>9, <2>3
<1> QED BY <1>8, <1>9

(* Interrupt entry, and the entry of the tick.                             *)
LEMMA EntryGood ==
  ASSUME KernelInv(k), Extra(k), int_entry \/ tick_entry
  PROVE  Good(k, k', NULL)
<1>1. k \in KernelState
  BY DEF KernelInv, Base, Core
<1>2. k' \in KernelState
  BY IntEntry, TickEntry DEF Step, KernelInv, Base, Core
<1>3. PICK h, tmo : k' = [k EXCEPT !.handlers = h, !.tmo = tmo]
               /\ h # <<>>
  <2>1. k.handlers \in Seq({"int", "tick"})
    BY <1>1 DEF KernelState
  <2>2. <<"int">> \o k.handlers # <<>> /\ <<"tick">> \o k.handlers # <<>>
    BY <2>1
  <2>3. [k EXCEPT !.handlers = <<"int">> \o @]
          = [k EXCEPT !.handlers = <<"int">> \o k.handlers, !.tmo = k.tmo]
    BY <1>1 DEF KernelState
  <2> QED BY <2>2, <2>3 DEF int_entry, Interrupt, tick_entry
<1>4. /\ k'.tstat = k.tstat /\ k'.wercd = k.wercd
      /\ k'.wupque = k.wupque /\ k'.actque = k.actque
      /\ k'.enatex = k.enatex /\ k'.texptn = k.texptn
      /\ k'.texfrm = k.texfrm /\ k'.priority = k.priority
      /\ k'.runtsk = k.runtsk /\ k'.ipmflg = k.ipmflg
      /\ k'.handlers = h /\ k'.reqflg = k.reqflg
  BY <1>1, <1>3 DEF KernelState
<1>5. Touches(k, k', NULL)
  BY <1>2, <1>4 DEF Touches
<1>6. TexDone(k')
  BY <1>3, <1>4 DEF Extra, TexDone, TexQuiet
<1>7. Middle(k, k', NULL)
  BY <1>1, <1>5, UntouchedGood
<1> QED BY <1>1, <1>6, <1>7, MiddleGood

LEMMA EndHandlerGood ==
  ASSUME KernelInv(k), Extra(k), k.handlers # <<>>,
         Head(k.handlers) = "int" \/ Due = {}, k' = end_int_handler(k)
  PROVE  Good(k, k', NULL)
<1> DEFINE h == Tail(k.handlers)
           H == [k EXCEPT !.handlers = h]
           R == [H EXCEPT !.reqflg = FALSE]
           t == k.runtsk
<1>1. /\ Base(k) /\ Switched(k) /\ k \in KernelState /\ TexDone(k)
  BY HandlerFacts DEF Extra
<1>2. h \in Seq({"int", "tick"})
  <2>1. k.handlers \in Seq({"int", "tick"})
    BY <1>1 DEF KernelState
  <2> QED BY <2>1, HeadTailProperties
<1>3. k' = IF H.handlers = <<>> /\ H.runtsk # NULL THEN return_to_task(H) ELSE H
  BY DEF end_int_handler
<1> HIDE DEF h
<1>4. /\ H \in KernelState /\ Touches(k, H, NULL)
      /\ H.handlers = h /\ H.reqflg = k.reqflg /\ H.ipmflg = k.ipmflg
      /\ H.runtsk = k.runtsk /\ H.enatex = k.enatex /\ H.texptn = k.texptn
      /\ H.dspflg = k.dspflg /\ H.schedtsk = k.schedtsk
  BY <1>1, <1>2 DEF KernelState, Touches
<1>5. /\ R \in KernelState /\ Touches(k, R, NULL)
      /\ R.handlers = h /\ R.reqflg = FALSE /\ R.ipmflg = k.ipmflg
      /\ R.runtsk = k.runtsk /\ R.enatex = k.enatex /\ R.texptn = k.texptn
      /\ R.readyq = k.readyq /\ R.primap = k.primap
      /\ R.schedtsk = k.schedtsk /\ R.priority = k.priority
      /\ R.tstat = k.tstat /\ R.tmo = k.tmo
      /\ R.texfrm = k.texfrm /\ R.texlp = k.texlp
      /\ R.dspflg = k.dspflg /\ R.disdsp = k.disdsp
  BY <1>1, <1>2 DEF KernelState, Touches
<1>5a. R.waitq = k.waitq
       /\ \A u \in Tasks : k.tmo[u] = 0 => Linked(R.handlers, "tick")
  <2>1. R.waitq = k.waitq
    BY <1>1, <1>2 DEF KernelState
  <2> HIDE DEF R
  <2> QED BY <1>1, <1>5, <2>1, TickPending DEF h
<1>6. k' \in {H, R, dispatch(R), call_texrtn(R)}
  BY <1>3 DEF return_to_task
<1>7. k' = IF h = <<>> /\ t # NULL
           THEN IF ~k.reqflg THEN H
                ELSE IF k.dspflg /\ k.ipmflg /\ k.schedtsk # t THEN dispatch(R)
                ELSE IF k.enatex[t] /\ k.texptn[t] THEN call_texrtn(R) ELSE R
           ELSE H
  BY <1>3, <1>4 DEF return_to_task
<1> HIDE DEF H, R
<1>8. Middle(k, H, NULL) /\ Middle(k, R, NULL)
  BY <1>1, <1>4, <1>5, UntouchedGood
<1>9. Base(R)
  <2>1. FlagsOK(R)
    BY <1>1, <1>5 DEF Base, FlagsOK
  <2> QED BY <1>1, <1>5, <1>5a, <2>1, Unmoved
<1>10. TexDone(H) => Good(k, H, NULL)
  BY <1>1, <1>8, MiddleGood
<1>11. CASE ~(h = <<>> /\ t # NULL)
  <2>1. TexDone(H)
    BY <1>1, <1>4, <1>11 DEF TexDone, TexQuiet
  <2> QED BY <1>7, <1>10, <1>11, <2>1
<1>12. CASE h = <<>> /\ t # NULL /\ ~k.reqflg
  <2>1. TexDone(H)
    BY <1>1, <1>4, <1>12 DEF TexDone, TexQuiet
  <2> QED BY <1>7, <1>10, <1>12, <2>1
<1>13. CASE h = <<>> /\ t # NULL /\ k.reqflg
  <2>1. k.ipmflg
    BY <1>1, <1>13 DEF TexDone
  <2>2. t \in Tasks /\ ~TSTAT_DORMANT(R.tstat[t])
    <3>1. t \in Tasks /\ TSTAT_RUNNABLE(k.tstat[t])
      BY <1>1, <1>13 DEF Switched, Base, RunnableOK
    <3> QED BY <1>5, <3>1 DEF TSTAT_DORMANT, TSTAT_RUNNABLE, TS_DORMANT
  <2>3. Good(k, dispatch(R), NULL)
    BY <1>1, <1>5, <1>8, <1>9, DispatchGood
  <2>4. k.enatex[t] => Good(k, call_texrtn(R), NULL)
    BY <1>1, <1>5, <1>8, <2>1, <2>2, TexGood
  <2>5. ~(k.enatex[t] /\ k.texptn[t]) => Good(k, R, NULL)
    <3>1. ~(k.enatex[t] /\ k.texptn[t]) => TexDone(R)
      BY <1>5 DEF TexDone, TexQuiet
    <3> QED BY <1>1, <1>8, <3>1, MiddleGood
  <2> QED BY <1>7, <1>13, <2>3, <2>4, <2>5
<1> QED BY <1>11, <1>12, <1>13

LEMMA IdleGood ==
  ASSUME KernelInv(k), Extra(k), idle_loop
  PROVE  Good(k, k', NULL)
<1> DEFINE R == [k EXCEPT !.reqflg = FALSE]
<1>1. Base(k) /\ k \in KernelState /\ k' = dispatch(R)
  BY StartedFacts DEF idle_loop
<1>2. /\ R \in KernelState /\ Touches(k, R, NULL)
      /\ R.reqflg = FALSE /\ R.ipmflg = k.ipmflg
      /\ R.runtsk = k.runtsk
      /\ R.readyq = k.readyq /\ R.primap = k.primap
      /\ R.schedtsk = k.schedtsk /\ R.priority = k.priority
      /\ R.tstat = k.tstat /\ R.tmo = k.tmo
      /\ R.texfrm = k.texfrm /\ R.texlp = k.texlp
      /\ R.dspflg = k.dspflg /\ R.disdsp = k.disdsp
  BY <1>1 DEF KernelState, Touches
<1>2a. R.waitq = k.waitq /\ R.handlers = k.handlers
  BY <1>1 DEF KernelState
<1> HIDE DEF R
<1>3. Middle(k, R, NULL)
  BY <1>1, <1>2, UntouchedGood
<1>4. Base(R)
  <2>1. FlagsOK(R)
    BY <1>1, <1>2 DEF Base, FlagsOK
  <2> QED BY <1>1, <1>2, <1>2a, <2>1, Unmoved
<1>5. Good(k, dispatch(R), NULL)
  BY <1>1, <1>2, <1>3, <1>4, DispatchGood
<1> QED BY <1>1, <1>5

LEMMA InitializeGood ==
  ASSUME KernelInv(k), Extra(k), initialize_task
  PROVE  Good(k, k', NULL)
<1> DEFINE t == torder[k.ini]
           D == make_dormant(k, t)
           I == [D EXCEPT !.ini = @ + 1]
           r == make_active(I, t)
<1>1. /\ k.ini \in DOMAIN torder /\ t \in Tasks /\ k.ini # 0 /\ k.ini \in Nat
  BY TaskManageAssumption DEF initialize_task
<1>2. /\ Base(k) /\ k \in KernelState /\ k.runtsk = NULL /\ ~k.reqflg
      /\ k.tstat[t] = TS_DORMANT
  BY <1>1 DEF KernelInv, Starting, Base, Core
<1>3. k' = IF t \in TA_ACT THEN r.st ELSE I
  BY DEF initialize_task
<1>4. k' \in KernelState
  BY InitializeTask DEF Step, KernelInv, Base, Core
<1> HIDE DEF t
<1>5. /\ Touches(k, D, t) /\ Fresh(D, t)
      /\ D.actque = k.actque /\ D.wercd = k.wercd /\ D.reqflg = k.reqflg
  BY <1>1, <1>2, DormantTouches
<1> HIDE DEF D
<1>6. D \in KernelState
  BY <1>5 DEF Touches
<1>7. /\ I \in KernelState
      /\ I.tstat = D.tstat /\ I.wercd = D.wercd
      /\ I.wupque = D.wupque /\ I.actque = D.actque
      /\ I.enatex = D.enatex /\ I.texptn = D.texptn
      /\ I.texfrm = D.texfrm /\ I.priority = D.priority
      /\ I.runtsk = D.runtsk /\ I.reqflg = D.reqflg
  <2> DEFINE n == D.ini + 1
  <2>1. I = [D EXCEPT !.ini = n] /\ n \in Nat
    BY <1>6 DEF KernelState
  <2> HIDE DEF I, n
  <2> QED BY <1>6, <2>1 DEF KernelState
<1> HIDE DEF I
<1>8. /\ I.wercd = k.wercd /\ I.runtsk = NULL /\ ~I.reqflg
      /\ I.texfrm[t] = <<>> /\ I.tstat[t] = TS_DORMANT /\ Fresh(I, t)
      /\ Touches(k, I, t) /\ ~I.actque[t]
  <2>1. ~k.actque[t]
    <3>1. RequestOK(k, t)
      BY <1>1 DEF Extra
    <3> QED BY <1>2, <3>1 DEF RequestOK, TSTAT_DORMANT
  <2> QED BY <1>2, <1>5, <1>7, <2>1 DEF Touches, Fresh, TSTAT_DORMANT
<1>9. ~TSTAT_WAITING(TS_DORMANT) /\ TSTAT_DORMANT(TS_DORMANT)
  BY DEF TSTAT_WAITING, TSTAT_DORMANT, TS_DORMANT
<1>10. 0 <= Len(k.texfrm[t]) /\ Len(<<>>) = 0
  BY <1>1, <1>2, FrameLens
<1>11. CASE t \notin TA_ACT
  <2>1. RequestOK(I, t) /\ ResultOK(I, t) /\ ResultStays(k, I, t)
    BY <1>2, <1>8, <1>9 DEF RequestOK, ResultOK, ResultStays, Fresh
  <2>1a. TexAllowed(k, I, t)
    BY <1>8 DEF TexAllowed, Fresh
  <2>2. Middle(k, I, NULL)
    BY <1>2, <1>8, <1>10, <2>1, <2>1a, Touched
  <2>3. TexDone(I)
    BY <1>8 DEF TexDone, TexQuiet
  <2> QED BY <1>2, <1>3, <1>11, <2>2, <2>3, MiddleGood
<1>12. CASE t \in TA_ACT
  <2>1. Alters(I, k', t, TS_RUNNABLE, I.wercd[t])
    <3>1. TS_RUNNABLE \in TStat
      BY DEF TStat
    <3>2. Alters(I, make_runnable([I EXCEPT !.tstat[t] = TS_RUNNABLE], t).st,
                 t, TS_RUNNABLE, I.wercd[t])
      BY <1>1, <1>7, <3>1, ReadyAlters
    <3> QED BY <1>3, <1>12, <3>2 DEF make_active
  <2>2. DOMAIN I.tstat = Tasks /\ DOMAIN I.wercd = Tasks
    BY <1>7 DEF KernelState
  <2>3. Touches(k, k', t)
    <3>1. Touches(I, k', t)
      BY <1>4, <2>1, <2>2 DEF Touches, Alters
    <3> QED BY <1>8, <3>1, TouchesTrans
  <2>4. k'.tstat[t] = TS_RUNNABLE /\ k'.wercd[t] = k.wercd[t]
    BY <1>1, <1>8, <2>1, <2>2 DEF Alters
  <2>5. ~TSTAT_DORMANT(TS_RUNNABLE) /\ ~TSTAT_WAITING(TS_RUNNABLE)
        /\ ~TSTAT_WAIT_SLP(TS_RUNNABLE)
    BY DEF TSTAT_DORMANT, TSTAT_WAITING, TSTAT_WAIT_SLP, TS_DORMANT,
           TS_RUNNABLE, TS_WAIT_SLP
  <2>6. RequestOK(k', t) /\ ResultOK(k', t)
    BY <2>4, <2>5 DEF RequestOK, ResultOK
  <2>7. ResultStays(k, k', t)
    BY <1>2, <1>9, <2>4 DEF ResultStays
  <2>8. Len(k'.texfrm[t]) <= Len(k.texfrm[t]) /\ TexAllowed(k, k', t)
    BY <1>8, <1>10, <2>1 DEF Alters, TexAllowed, Fresh
  <2>9. Middle(k, k', NULL)
    BY <1>2, <2>3, <2>6, <2>7, <2>8, Touched
  <2>10. TexDone(k')
    BY <1>8, <2>1 DEF TexDone, TexQuiet, Alters
  <2> QED BY <1>2, <2>9, <2>10, MiddleGood
<1> QED BY <1>11, <1>12

LEMMA StartGood ==
  ASSUME KernelInv(k), Extra(k), start_dispatch
  PROVE  Good(k, k', NULL)
<1> DEFINE D == dispatch(k)
<1>1. k.ini # 0
  BY TaskManageAssumption DEF start_dispatch
<1>2. /\ Base(k) /\ k \in KernelState /\ k.handlers = <<>> /\ ~k.reqflg
      /\ k.dspflg
  BY <1>1 DEF KernelInv, Starting, Base, Core
<1>3. k' = [D EXCEPT !.ini = 0]
  BY DEF start_dispatch
<1>4. Good(k, D, NULL)
  <2>1. Touches(k, k, NULL)
    BY <1>2 DEF Touches
  <2>2. Middle(k, k, NULL)
    BY <1>2, <2>1, UntouchedGood
  <2> QED BY <1>2, <2>2, DispatchGood
<1>5. D \in KernelState
  BY <1>2, Dispatch DEF Base, Core
<1> HIDE DEF D
<1>6. /\ k'.tstat = D.tstat /\ k'.wercd = D.wercd
      /\ k'.wupque = D.wupque /\ k'.actque = D.actque
      /\ k'.enatex = D.enatex /\ k'.texptn = D.texptn
      /\ k'.texfrm = D.texfrm /\ k'.priority = D.priority
      /\ k'.runtsk = D.runtsk /\ k'.ipmflg = D.ipmflg
      /\ k'.handlers = D.handlers /\ k'.reqflg = D.reqflg
  BY <1>3, <1>5 DEF KernelState
<1>7. Extra(k')
  <2>1. TexDone(k')
    BY <1>4, <1>6 DEF Good, Extra, TexDone, TexQuiet
  <2>2. \A t \in Tasks : RequestOK(k', t) /\ ResultOK(k', t)
    BY <1>4, <1>6 DEF Good, Extra, RequestOK, ResultOK
  <2> QED BY <2>1, <2>2 DEF Extra
<1>8. \A t \in Tasks : /\ t # NULL => ResultStays(k, k', t)
                       /\ TexStarts(k, k', t)
  BY <1>4, <1>6 DEF Good, ResultStays, TexStarts
<1> QED BY <1>7, <1>8 DEF Good

-----------------------------------------------------------------------------
(* Waits.                                                                  *)

(* The end of a wait, with result e.                                       *)
LEMMA EndedMiddle ==
  ASSUME NEW S, Base(S), Extra(S), NEW t \in Tasks, TSTAT_WAITING(S.tstat[t]),
         NEW e \in {"E_OK", "E_RLWAI", "E_TMOUT"}, NEW D, Loosed(S, D, t),
         NEW r, r = make_non_wait([D EXCEPT !.wercd[t] = e], t), NEW x
  PROVE  /\ Base(r.st) /\ Tells(S, r)
         /\ Middle(S, r.st, x) /\ TexKept(S, r.st)
<1>1. S \in KernelState /\ D \in KernelState
  BY DEF Base, Loosed, BaseBut, Core
<1>3. Base(r.st) /\ Tells(S, r)
  <2> DEFINE X == {t}
  <2>1. BaseBut(D, X) /\ t \in X /\ D.tmo[t] = -1 /\ Prepared(S, D)
    BY DEF Loosed
  <2>2. X \ {t} = {}
    OBVIOUS
  <2>3. e \in {"E_OK", "E_RLWAI", "E_TMOUT", "E_DLT"}
    OBVIOUS
  <2> HIDE DEF X
  <2>4. ReadiedBut(D, X \ {t}, r)
    BY <2>1, <2>3, EndWait
  <2>5. BaseBut(r.st, X \ {t}) /\ Tells(S, r)
    BY <2>1, <2>4, ReadiedFrom
  <2>6. BaseBut(r.st, {})
    BY <2>2, <2>5
  <2> QED BY <2>5, <2>6, BaseIsBut
<1>4. Alters(S, r.st, t, TS_RUNNABLE, e) \/ Alters(S, r.st, t, TS_SUSPENDED, e)
  BY <1>1, EndWaitAlters DEF Loosed
<1>5. RequestOK(S, t) /\ ResultOK(S, t)
  BY DEF Extra
<1>6. ASSUME NEW ts \in {TS_RUNNABLE, TS_SUSPENDED} PROVE MayAlter(S, t, ts, e)
  <2>1. ~TSTAT_DORMANT(ts) /\ ~TSTAT_WAITING(ts) /\ ~TSTAT_WAIT_SLP(ts)
    BY DEF TSTAT_DORMANT, TSTAT_WAITING, TSTAT_WAIT_SLP, TS_DORMANT,
           TS_RUNNABLE, TS_SUSPENDED, TS_WAIT_SLP
  <2>2. e # "none"
    OBVIOUS
  <2> QED BY <1>5, <2>1, <2>2 DEF MayAlter, ResultOK
<1>7. r.st \in KernelState
  BY <1>3 DEF Base, Core
<1> QED BY <1>1, <1>3, <1>4, <1>6, <1>7, Altered

LEMMA WaitEndGood ==
  ASSUME KernelInv(k), Extra(k), NEW t \in Tasks,
         rel_wai(t) \/ irel_wai(t) \/ wup_tsk(t) \/ iwup_tsk(t)
  PROVE  Good(k, k', NULL)
<1> DEFINE C == [k EXCEPT !.tmo[t] = -1]
           L == wait_dequeue_tmevtb(wait_dequeue_wobj(k, t), t)
           c == make_non_wait([C EXCEPT !.wercd[t] = "E_OK"], t)
           l == make_non_wait([L EXCEPT !.wercd[t] = "E_RLWAI"], t)
<1>1. Base(k) /\ k \in KernelState
  BY DEF KernelInv, Base, Core
<1>2. wait_complete(k, t) = c /\ wait_release(k, t) = l
  BY DEF wait_complete, wait_release, wait_dequeue_tmevtb
<1>3. \/ \/ /\ TSTAT_WAIT_SLP(k.tstat[t])
            /\ \/ TskCtxUnl /\ k' = DispatchIf(c)
               \/ IntCtxUnl /\ k' = RequestIf(c)
         \/ /\ TSTAT_WAITING(k.tstat[t])
            /\ \/ TskCtxUnl /\ k' = DispatchIf(l)
               \/ IntCtxUnl /\ k' = RequestIf(l)
      \/ /\ ~TSTAT_DORMANT(k.tstat[t]) /\ ~TSTAT_WAIT_SLP(k.tstat[t])
         /\ k' = [k EXCEPT !.wupque[t] = TRUE]
  BY <1>2 DEF rel_wai, irel_wai, wup_tsk, iwup_tsk, wakeup
<1> DEFINE Ended(r) == /\ Base(r.st) /\ Tells(k, r)
                       /\ Middle(k, r.st, NULL) /\ TexKept(k, r.st)
<1>3a. TSTAT_WAIT_SLP(k.tstat[t]) =>
         TSTAT_WAITING(k.tstat[t]) /\ ~TSTAT_WAIT_WOBJ(k.tstat[t])
  BY <1>1, SleepFacts DEF KernelState
<1>3b. /\ TSTAT_WAIT_SLP(k.tstat[t]) => Loosed(k, C, t)
       /\ TSTAT_WAITING(k.tstat[t]) => Loosed(k, L, t)
  BY <1>1, <1>3a, WaitLoosed
<1> HIDE DEF C, L
<1>4. /\ TSTAT_WAIT_SLP(k.tstat[t]) => Ended(c)
      /\ TSTAT_WAITING(k.tstat[t]) => Ended(l)
  BY <1>1, <1>3a, <1>3b, EndedMiddle
<1> HIDE DEF c, l
<1>5. ASSUME TskCtxUnl, NEW r \in {c, l}, Ended(r)
      PROVE  Good(k, DispatchIf(r), NULL)
  <2>1. k.handlers = <<>> /\ ~k.reqflg
    BY <1>5, TskCtxFacts DEF TskCtxUnl
  <2> QED BY <1>1, <1>5, <2>1, DispatchIfMiddle
<1>6. ASSUME IntCtxUnl, NEW r \in {c, l}, Ended(r)
      PROVE  Good(k, RequestIf(r), NULL)
  BY <1>1, <1>6, RequestIfMiddle DEF IntCtxUnl, Tells
<1>7. TSTAT_WAIT_SLP(k.tstat[t]) => TSTAT_WAITING(k.tstat[t])
  BY <1>1, SleepFacts DEF KernelState
<1>8. CASE /\ ~TSTAT_DORMANT(k.tstat[t]) /\ ~TSTAT_WAIT_SLP(k.tstat[t])
           /\ k' = [k EXCEPT !.wupque[t] = TRUE]
  BY <1>1, <1>8, QueueGood
<1> HIDE DEF Ended
<1> QED BY <1>3, <1>4, <1>5, <1>6, <1>7, <1>8

LEMMA SignalGood ==
  ASSUME KernelInv(k), Extra(k), NEW t \in Tasks, signal_time(t)
  PROVE  Good(k, k', NULL)
<1> DEFINE D == [k EXCEPT !.tmo[t] = -1]
           Q == wait_dequeue_wobj(D, t)
           rok == make_non_wait([D EXCEPT !.wercd[t] = "E_OK"], t)
           rto == make_non_wait([Q EXCEPT !.wercd[t] = "E_TMOUT"], t)
<1>1. Base(k) /\ k \in KernelState /\ k.handlers # <<>>
  BY HandlerFacts DEF signal_time, InTick
<1>2. TSTAT_WAITING(k.tstat[t])
  <2>1. k.tmo[t] = 0
    BY DEF signal_time, Due
  <2> QED BY <1>1, <2>1 DEF Base, TimersOK
<1>3. /\ TS_WAIT_DLY \in k.tstat[t] => Loosed(k, D, t)
      /\ TS_WAIT_DLY \notin k.tstat[t] => Loosed(k, Q, t)
  BY <1>1, <1>2, ObjectWaitFacts, WaitLoosed DEF KernelState
<1>4. \/ TS_WAIT_DLY \in k.tstat[t] /\ k' = RequestIf(rok)
      \/ TS_WAIT_DLY \notin k.tstat[t] /\ k' = RequestIf(rto)
  BY DEF signal_time, wait_tmout, wait_tmout_ok
<1> DEFINE Ended(r) == /\ Base(r.st) /\ Tells(k, r)
                       /\ Middle(k, r.st, NULL) /\ TexKept(k, r.st)
<1> HIDE DEF D, Q
<1>5. /\ TS_WAIT_DLY \in k.tstat[t] => Ended(rok)
      /\ TS_WAIT_DLY \notin k.tstat[t] => Ended(rto)
  BY <1>1, <1>2, <1>3, EndedMiddle
<1> HIDE DEF rok, rto
<1>6. /\ Ended(rok) => Good(k, RequestIf(rok), NULL)
      /\ Ended(rto) => Good(k, RequestIf(rto), NULL)
  BY <1>1, RequestIfMiddle DEF Tells
<1> HIDE DEF Ended
<1> QED BY <1>4, <1>5, <1>6

LEMMA SleepGood ==
  ASSUME KernelInv(k), Extra(k),
         \/ slp_tsk
         \/ \E tmout \in Timeout : tslp_tsk(tmout)
         \/ \E dlytim \in {0} \cup Timeout : dly_tsk(dlytim)
  PROVE  Good(k, k', NULL)
<1> DEFINE t == k.runtsk
<1>1. /\ Base(k) /\ k \in KernelState /\ ~k.reqflg
      /\ t \in Tasks /\ TSTAT_RUNNABLE(k.tstat[t])
  BY TskCtxFacts DEF slp_tsk, tslp_tsk, dly_tsk, CanDispatch, TskCtxUnl
<1>2. ASSUME NEW reason \in {TS_WAIT_SLP, TS_WAIT_DLY},
             reason = TS_WAIT_SLP => ~k.wupque[t],
             NEW M, Base(M), Frame(k, M),
             Alters(k, M, t, TS_WAITING(reason), k.wercd[t])
      PROVE  Good(k, dispatch(M), NULL)
  <2> DEFINE ts == TS_WAITING(reason)
  <2>1. ~TSTAT_DORMANT(ts) /\ (k.wupque[t] => ~TSTAT_WAIT_SLP(ts))
    BY <1>2 DEF TSTAT_DORMANT, TSTAT_WAIT_SLP, TS_WAITING, TS_DORMANT,
                TS_WAIT_SLP, TS_WAIT_DLY
  <2> HIDE DEF ts
  <2>2. MayAlter(k, t, ts, k.wercd[t])
    BY <2>1 DEF MayAlter
  <2>3. M \in KernelState
    BY <1>2 DEF Base, Core
  <2>4. Middle(k, M, NULL)
    BY <1>1, <1>2, <2>2, <2>3, Altered DEF ts
  <2>5. M.runtsk = k.runtsk /\ ~M.reqflg
    BY <1>1, <1>2 DEF Frame
  <2> QED BY <1>1, <1>2, <2>4, <2>5, DispatchGood
<1>2a. TS_WAIT_SLP \in WaitReason /\ TS_WAIT_DLY \in WaitReason
  BY DEF WaitReason, TS_WAIT_SLP, TS_WAIT_DLY
<1>3. ~k.wupque[t] => Good(k, dispatch(make_wait(k, TS_WAIT_SLP)), NULL)
  <2> DEFINE W == make_wait(k, TS_WAIT_SLP)
  <2>1. 0 \in Int
    OBVIOUS
  <2>2. Base(W) /\ Frame(k, W)
    BY <1>1, SleepBase
  <2>3. Alters(k, W, t, TS_WAITING(TS_WAIT_SLP), k.wercd[t])
    BY <1>1, <1>2a, <2>1, MakeWaitAlters
  <2> HIDE DEF W
  <2>4. ~k.wupque[t] => Good(k, dispatch(W), NULL)
    BY <1>2, <2>2, <2>3
  <2> QED BY <2>4 DEF W
<1>4. ASSUME NEW reason \in {TS_WAIT_SLP, TS_WAIT_DLY}, NEW tmout \in Nat,
             reason = TS_WAIT_SLP => ~k.wupque[t]
      PROVE  Good(k, dispatch(tmevtb_enqueue(make_wait(k, reason), t, tmout)),
                  NULL)
  <2> DEFINE y == tmout + 1
             W == [make_wait(k, reason) EXCEPT !.tmo[t] = y]
  <2>1. y \in Int
    OBVIOUS
  <2>2. tmevtb_enqueue(make_wait(k, reason), t, tmout) = W
    BY DEF tmevtb_enqueue
  <2> HIDE DEF y
  <2>3. Base(W) /\ Frame(k, W)
    BY <1>1, <2>2, SleepBase
  <2>4. Alters(k, W, t, TS_WAITING(reason), k.wercd[t])
    BY <1>1, <1>2a, <2>1, MakeWaitAlters
  <2> HIDE DEF W
  <2>5. Good(k, dispatch(W), NULL)
    BY <1>2, <1>4, <2>3, <2>4
  <2> QED BY <2>2, <2>5
<1>5. Good(k, [k EXCEPT !.wupque[t] = FALSE], NULL)
  BY <1>1, QueueGood
<1>6. CASE slp_tsk
  BY <1>3, <1>5, <1>6 DEF slp_tsk
<1>7. ASSUME NEW tmout \in Timeout, tslp_tsk(tmout)
      PROVE  Good(k, k', NULL)
  <2>1. tmout \in Nat
    BY TaskSyncAssumption DEF Timeout
  <2> QED BY <1>3, <1>4, <1>5, <1>7, <2>1 DEF tslp_tsk, make_wait_tmout
<1>8. ASSUME NEW dlytim \in {0} \cup Timeout, dly_tsk(dlytim)
      PROVE  Good(k, k', NULL)
  <2>1. dlytim \in Nat
    BY TaskSyncAssumption DEF Timeout
  <2>2. TS_WAIT_DLY # TS_WAIT_SLP
    BY DEF TS_WAIT_DLY, TS_WAIT_SLP
  <2> QED BY <1>4, <1>8, <2>1, <2>2 DEF dly_tsk
<1> QED BY <1>6, <1>7, <1>8

LEMMA SusGood ==
  ASSUME KernelInv(k), Extra(k), NEW t \in Tasks, sus_tsk(t)
  PROVE  Good(k, k', NULL)
<1>1. /\ Base(k) /\ k \in KernelState /\ k.handlers = <<>> /\ ~k.reqflg
      /\ ~TSTAT_DORMANT(k.tstat[t]) /\ ~TSTAT_SUSPENDED(k.tstat[t])
  BY TskCtxFacts DEF sus_tsk, TskCtxUnl
<1>2. RequestOK(k, t) /\ ResultOK(k, t)
  BY DEF Extra
<1>3. CASE TSTAT_RUNNABLE(k.tstat[t])
  <2> DEFINE ts == TS_SUSPENDED
             r == make_non_runnable([k EXCEPT !.tstat[t] = ts], t)
  <2>1. k' = DispatchIf(r)
    BY <1>3 DEF sus_tsk
  <2>2. ts \in TStat /\ ~TSTAT_RUNNABLE(ts)
    BY SuspendedFacts
  <2>3. ~TSTAT_DORMANT(ts) /\ ~TSTAT_WAIT_SLP(ts) /\ ~TSTAT_WAITING(ts)
    BY DEF TSTAT_DORMANT, TSTAT_WAIT_SLP, TSTAT_WAITING, TS_SUSPENDED,
           TS_DORMANT, TS_WAIT_SLP
  <2>3a. ts = TS_SUSPENDED
    OBVIOUS
  <2> HIDE DEF ts
  <2>4. Alters(k, r.st, t, ts, k.wercd[t])
    BY <1>1, <2>2, ReadyAlters
  <2>5. Base(r.st)
    <3>1. r = make_non_runnable([k EXCEPT !.tstat[t] = ts], t)
      OBVIOUS
    <3> HIDE DEF r
    <3>2. Deactivated(k, t, ts, r)
      BY <1>1, <1>3, <2>2, <2>3a, <3>1, Deactivate
    <3> QED BY <2>3, <3>2, BaseIsBut DEF Deactivated
  <2> HIDE DEF r
  <2>6. ~TSTAT_WAITING(k.tstat[t])
    BY <1>1, <1>3, TStatFacts DEF KernelState
  <2>7. MayAlter(k, t, ts, k.wercd[t])
    BY <2>3, <2>6 DEF MayAlter
  <2>8. r.st \in KernelState
    BY <2>5 DEF Base, Core
  <2>9. Middle(k, r.st, NULL) /\ TexKept(k, r.st)
    BY <1>1, <2>4, <2>7, <2>8, Altered
  <2>10. Good(k, DispatchIf(r), NULL)
    BY <1>1, <2>5, <2>9, DispatchIfMiddle
  <2> QED BY <2>1, <2>10
<1>4. CASE ~TSTAT_RUNNABLE(k.tstat[t])
  <2> DEFINE ts == k.tstat[t] \cup TS_SUSPENDED
  <2>1. k' = [k EXCEPT !.tstat[t] = ts]
    BY <1>1, <1>4 DEF sus_tsk, KernelState
  <2>2. k.tstat[t] \in TStat /\ k.tstat[t] # TS_SUSPENDED
    BY <1>1 DEF KernelState, TSTAT_SUSPENDED, TS_SUSPENDED
  <2>3. TSTAT_WAITING(k.tstat[t])
    BY <1>1, <1>4, <2>2, TStatFacts
  <2>4. ts \in TStat /\ TSTAT_WAITING(ts)
    BY <2>2, <2>3, TStatFacts, SuspendedFacts DEF SameWait
  <2>5. TSTAT_WAIT_SLP(ts) <=> TSTAT_WAIT_SLP(k.tstat[t])
    BY DEF TSTAT_WAIT_SLP, TS_WAIT_SLP, TS_SUSPENDED
  <2>6. ~TSTAT_DORMANT(ts)
    BY DEF TSTAT_DORMANT, TS_DORMANT, TS_SUSPENDED
  <2> HIDE DEF ts
  <2>7. MayAlter(k, t, ts, k.wercd[t])
    BY <1>2, <2>3, <2>4, <2>5, <2>6 DEF MayAlter, RequestOK, ResultOK
  <2>8. Alters(k, k', t, ts, k.wercd[t])
    BY <1>1, <2>1, <2>4, ReadyAlters
  <2>9. k' \in KernelState
    BY SusTsk DEF Step, KernelInv, Base, Core
  <2>10. Middle(k, k', NULL) /\ TexKept(k, k')
    BY <1>1, <2>7, <2>8, <2>9, Altered
  <2> QED BY <1>1, <2>10, TexKeptDone, MiddleGood DEF Extra
<1> QED BY <1>3, <1>4

LEMMA RsmGood ==
  ASSUME KernelInv(k), Extra(k), NEW t \in Tasks, rsm_tsk(t)
  PROVE  Good(k, k', NULL)
<1>1. /\ Base(k) /\ k \in KernelState /\ k.handlers = <<>> /\ ~k.reqflg
      /\ TSTAT_SUSPENDED(k.tstat[t]) /\ k.tstat[t] \in TStat
  BY TskCtxFacts DEF rsm_tsk, TskCtxUnl, KernelState
<1>2. RequestOK(k, t) /\ ResultOK(k, t)
  BY DEF Extra
<1>3. CASE TSTAT_WAITING(k.tstat[t])
  <2> DEFINE ts == k.tstat[t] \ TS_SUSPENDED
  <2>1. k' = [k EXCEPT !.tstat[t] = ts]
    BY <1>1, <1>3 DEF rsm_tsk, KernelState
  <2>2. ts \in TStat /\ TSTAT_WAITING(ts)
    BY <1>1, <1>3, TStatFacts, SuspendedFacts DEF SameWait
  <2>3. TSTAT_WAIT_SLP(ts) => TSTAT_WAIT_SLP(k.tstat[t])
    BY DEF TSTAT_WAIT_SLP
  <2>4. ~TSTAT_DORMANT(ts)
    BY <2>2 DEF TSTAT_DORMANT, TS_DORMANT, TSTAT_WAITING
  <2> HIDE DEF ts
  <2>5. MayAlter(k, t, ts, k.wercd[t])
    BY <1>2, <1>3, <2>2, <2>3, <2>4 DEF MayAlter, RequestOK, ResultOK
  <2>6. Alters(k, k', t, ts, k.wercd[t])
    BY <1>1, <2>1, <2>2, ReadyAlters
  <2>7. k' \in KernelState
    BY RsmTsk DEF Step, KernelInv, Base, Core
  <2>8. Middle(k, k', NULL) /\ TexKept(k, k')
    BY <1>1, <2>5, <2>6, <2>7, Altered
  <2> QED BY <1>1, <2>8, TexKeptDone, MiddleGood DEF Extra
<1>4. CASE ~TSTAT_WAITING(k.tstat[t])
  <2> DEFINE r == make_active(k, t)
  <2>1. k' = DispatchIf(r)
    BY <1>4 DEF rsm_tsk, make_active
  <2>2. k.tstat[t] = TS_SUSPENDED
    <3>1. ~TSTAT_DORMANT(k.tstat[t])
      BY <1>1 DEF TSTAT_DORMANT, TS_DORMANT, TSTAT_SUSPENDED
    <3> QED BY <1>1, <1>4, <3>1, TStatFacts
  <2>3. Base(r.st) /\ Middle(k, r.st, NULL) /\ TexKept(k, r.st)
    BY <1>1, <2>2, ActiveMiddle
  <2> HIDE DEF r
  <2>4. Good(k, DispatchIf(r), NULL)
    BY <1>1, <2>3, DispatchIfMiddle
  <2> QED BY <2>1, <2>4
<1> QED BY <1>3, <1>4

-----------------------------------------------------------------------------
(* The whole kernel.                                                       *)

Kept == \A t \in Tasks : /\ ter_tsk(t) \/ ResultStays(k, k', t)
                         /\ TexStarts(k, k', t)

LEMMA ManageGood ==
  ASSUME KernelInv(k), Extra(k), Next
  PROVE  Extra(k') /\ Kept
<1>1. Good(k, k', NULL) => Extra(k') /\ Kept
  BY TaskAssumption DEF Good, Kept
<1>2. CASE TaskServices
  <2>1. ASSUME NEW t \in Tasks, ter_tsk(t) PROVE Extra(k') /\ Kept
    BY <2>1, TerGood DEF Good, Kept
  <2>2. CASE loc_cpu \/ unl_cpu \/ dis_dsp \/ chg_ipm_mask
    BY <1>1, <2>2, LockGood
  <2>3. CASE dis_tex \/ ena_tex
    BY <1>1, <2>3, DisTexGood
  <2>4. ASSUME NEW t \in Tasks, act_tsk(t) \/ can_act(t) \/ ras_tex(t)
        PROVE  Extra(k') /\ Kept
    BY <1>1, <2>4, ActGood, CanGood, RasTexGood
  <2>5. ASSUME NEW pri \in Pri, rot_rdq(pri) \/ \E t \in Tasks : chg_pri(t, pri)
        PROVE  Extra(k') /\ Kept
    BY <1>1, <2>5, ChgPriGood, RotGood
  <2>6. CASE ext_tsk \/ ena_dsp \/ chg_ipm_enaall \/ texrtn_return
    BY <1>1, <2>6, ExitGood, EnaDspGood, ChgIpmEnaallGood, TexrtnGood
  <2> QED BY <1>2, <2>1, <2>2, <2>3, <2>4, <2>5, <2>6 DEF TaskServices
<1>3. CASE HandlerServices
  BY <1>1, <1>3, IactGood, IrasTexGood, RotGood DEF HandlerServices
<1>4. CASE Kernel
  <2>1. int_return => Good(k, k', NULL)
    BY EndHandlerGood DEF int_return, IntCtxUnl
  <2> QED BY <1>1, <1>4, <2>1, InitializeGood, StartGood, EntryGood, IdleGood
             DEF Kernel
<1> QED BY <1>2, <1>3, <1>4 DEF Next

LEMMA SyncGood ==
  ASSUME KernelInv(k), Extra(k), SyncNext
  PROVE  Extra(k') /\ Kept
<1>1. Good(k, k', NULL) => Extra(k') /\ Kept
  BY TaskAssumption DEF Good, Kept
<1>2. CASE Next
  BY <1>2, ManageGood
<1>3. CASE SyncServices
  <2>1. ASSUME NEW t \in Tasks,
               wup_tsk(t) \/ can_wup(t) \/ rel_wai(t) \/ sus_tsk(t) \/ rsm_tsk(t)
        PROVE  Good(k, k', NULL)
    BY <2>1, WaitEndGood, CanGood, SusGood, RsmGood
  <2> QED BY <1>1, <1>3, <2>1, SleepGood DEF SyncServices
<1>4. CASE SyncHandlerServices
  BY <1>1, <1>4, WaitEndGood DEF SyncHandlerServices
<1>5. CASE Tick
  <2>1. tick_return => Good(k, k', NULL)
    BY EndHandlerGood DEF tick_return, InTick
  <2> QED BY <1>1, <1>5, <2>1, EntryGood, SignalGood DEF Tick
<1> QED BY <1>2, <1>3, <1>4, <1>5 DEF SyncNext, Next

LEMMA InitExtra == Init => Extra(k)
<1> SUFFICES ASSUME Init PROVE Extra(k)
  OBVIOUS
<1>1. k = KernelInit
  BY DEF Init
<1>2. /\ k.runtsk = NULL /\ ~k.reqflg
      /\ \A t \in Tasks :
           /\ k.tstat[t] = TS_DORMANT /\ k.priority[t] = ipriority[t]
           /\ ~k.actque[t] /\ ~k.wupque[t] /\ ~k.enatex[t] /\ ~k.texptn[t]
           /\ k.wercd[t] = "none"
  BY <1>1 DEF KernelInit
<1> QED BY <1>2 DEF Extra, TexDone, TexQuiet, RequestOK, ResultOK

LEMMA SyncExtra == SyncSpec => [](KernelInv(k) /\ Extra(k))
<1>1. KernelInv(k) /\ Extra(k) /\ [SyncNext]_k => Extra(k)'
  <2>1. CASE SyncNext
    BY <2>1, SyncGood
  <2>2. CASE UNCHANGED k
    BY <2>2 DEF Extra, TexDone, TexQuiet, RequestOK, ResultOK
  <2> QED BY <2>1, <2>2
<1> QED BY InitExtra, SyncInv, <1>1, PTL DEF SyncSpec

LEMMA ExtraImplies ==
  Extra(k) => TexServed /\ QueuedRequestsOK
BY DEF Extra, TexDone, TexQuiet, RequestOK, TexServed, QueuedRequestsOK

-----------------------------------------------------------------------------
(* When the running task allows an exception that is pending, with no      *)
(* interrupt masked, it has started or the handler in progress will start  *)
(* it (task_except.c, interrupt.c, prc_support.S).                         *)
THEOREM SyncTexServed == SyncSpec => []TexServed
BY SyncExtra, ExtraImplies, PTL

(* The same for the kernel of TaskManage.tla.                              *)
THEOREM ManageTexServed == Spec => []TexServed
BY SpecIsSync, SyncTexServed, PTL

(* No request is queued for a task that could use it now, and a dormant    *)
(* task starts afresh (task_sync.c, task_manage.c, task.c).                *)
THEOREM SyncQueuedRequestsOK == SyncSpec => []QueuedRequestsOK
BY SyncExtra, ExtraImplies, PTL

(* A wait ends with one result, which nothing replaces before the task has *)
(* run (wait.c, task_sync.c, time_event.c).                                *)
THEOREM SyncWaitResultOnce == SyncSpec => WaitResultOnce
<1>1. KernelInv(k) /\ Extra(k) /\ [SyncNext]_k =>
        [\A t \in Tasks :
           \/ k.runtsk = t \/ ter_tsk(t)
           \/ /\ k.wercd[t] # "none" => k'.wercd[t] = k.wercd[t]
              /\ /\ TSTAT_WAITING(k.tstat[t]) /\ ~TSTAT_WAITING(k'.tstat[t])
                 => k'.wercd[t] # "none"]_k
  BY SyncGood DEF Kept, ResultStays
<1> QED BY SyncExtra, <1>1, PTL DEF SyncSpec, WaitResultOnce

(* An exception routine starts only in the running task, with all          *)
(* interrupts enabled, and where exceptions were enabled already or are    *)
(* enabled by ena_tex in the same step (task_except.c, interrupt.c,        *)
(* prc_support.S).                                                         *)
THEOREM SyncTexStartsUnmasked == SyncSpec => TexStartsUnmasked
<1>1. KernelInv(k) /\ Extra(k) /\ [SyncNext]_k =>
        [\A t \in Tasks :
           Len(k'.texfrm[t]) > Len(k.texfrm[t]) =>
             k'.ipmflg /\ k'.runtsk = t /\ (k.enatex[t] \/ ena_tex)]_k
  BY SyncGood DEF Kept, TexStarts
<1> QED BY SyncExtra, <1>1, PTL DEF SyncSpec, TexStartsUnmasked

(* The same for the kernel of TaskManage.tla.                              *)
THEOREM ManageTexStartsUnmasked == Spec => TexStartsUnmasked
BY SpecIsSync, SyncTexStartsUnmasked, PTL

=============================================================================
