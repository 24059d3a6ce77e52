----------------------------- MODULE MutexProofs -----------------------------
(***************************************************************************)
(* The invariants of the kernel with mutexes, Mutex.tla.                   *)
(***************************************************************************)
EXTENDS Mutex, KernelProofs

(* Insertion at the head.                                                  *)
LEMMA InsertNext ==
  ASSUME NEW T, NEW q \in Seq(T), NEW x \in T, Unique(q), ~Linked(q, x)
  PROVE  /\ queue_insert_next(q, x) \in Seq(T)
         /\ queue_insert_next(q, x) # <<>>
         /\ Unique(queue_insert_next(q, x))
         /\ \A y : Linked(queue_insert_next(q, x), y) <=> Linked(q, y) \/ y = x
         /\ Head(queue_insert_next(q, x)) = x
<1> DEFINE r == <<x>> \o q
<1>1. Len(q) \in Nat /\ DOMAIN q = 1 .. Len(q)
  BY LenProperties
<1>2. /\ r \in Seq(T) /\ Len(r) = Len(q) + 1
      /\ r[1] = x /\ \A i \in 1 .. Len(q) : r[i + 1] = q[i]
  BY <1>1
<1>3. With(q, 1, x, r)
  <2> HIDE DEF r
  <2>1. \A i \in 1 .. Len(q) + 1 : i = 1 \/ i - 1 \in 1 .. Len(q)
    BY <1>1
  <2> QED
    BY <1>1, <1>2, <2>1 DEF With
<1>4. r # <<>>
  BY <1>1, <1>2, EmptySeq
<1> HIDE DEF r
<1>5. Head(r) = x
  BY <1>2, <1>4, QueueLinked
<1>6. 1 \in 1 .. Len(q) + 1
  BY <1>1
<1> QED
  BY <1>2, <1>3, <1>4, <1>5, <1>6, WithUnique DEF queue_insert_next, r

(* As LinkReady, at the head of the queue.                                 *)
LEMMA LinkHead ==
  ASSUME NEW S \in KernelState, QueuesOK(S), NEW t \in Tasks, t \notin Ready(S),
         NEW pri, S.priority[t] = pri, NEW R, R = Enready_head(S, t)
  PROVE  /\ R \in KernelState
         /\ QueuesOK(R)
         /\ Ready(R) = Ready(S) \cup {t}
         /\ Same(S, R)
         /\ R.schedtsk = S.schedtsk /\ R.priority = S.priority
         /\ R.primap = S.primap \cup {pri}
         /\ \A p \in Pri : p # pri => R.readyq[p] = S.readyq[p]
         /\ Head(R.readyq[pri]) = t
<1> DEFINE q == S.readyq[pri]
           a == queue_insert_next(q, t)
<1>1. /\ S.readyq \in [Pri -> Seq(Tasks)] /\ S.priority \in [Tasks -> Pri]
      /\ S.primap \subseteq Pri /\ pri \in Pri
  BY DEF KernelState
<1>2. Unique(q) /\ ~Linked(q, t)
  BY <1>1 DEF QueuesOK, Ready
<1>3. /\ a \in Seq(Tasks) /\ a # <<>> /\ Unique(a)
      /\ \A y : Linked(a, y) <=> Linked(q, y) \/ y = t
      /\ Head(a) = t
  BY <1>1, <1>2, InsertNext
<1>4. /\ R.readyq = [S.readyq EXCEPT ![pri] = a]
      /\ R.primap = S.primap \cup {pri}
      /\ R.schedtsk = S.schedtsk /\ R.priority = S.priority
      /\ Same(S, R)
  BY DEF KernelState, Same, Enready_head
<1>5. R \in KernelState
  BY <1>1, <1>3 DEF KernelState, Enready_head
<1> HIDE DEF a
<1>6. QueuesOK(R)
  <2>1. \A p \in Pri : Unique(R.readyq[p])
    BY <1>1, <1>3, <1>4 DEF QueuesOK
  <2>2. \A p \in Pri : \A i \in DOMAIN R.readyq[p] :
          R.priority[R.readyq[p][i]] = p
    <3> SUFFICES ASSUME NEW p \in Pri, NEW i \in DOMAIN R.readyq[p]
                 PROVE  S.priority[R.readyq[p][i]] = p
      BY <1>4
    <3>1. CASE p = pri
      <4>1. R.readyq[p] = a /\ i \in DOMAIN a
        BY <1>1, <1>4, <3>1
      <4>2. Linked(q, a[i]) \/ a[i] = t
        BY <1>3, <4>1 DEF Linked
      <4> QED
        BY <1>1, <1>4, <3>1, <4>1, <4>2 DEF QueuesOK, Linked
    <3>2. CASE p # pri
      BY <1>1, <1>4, <3>2 DEF QueuesOK
    <3> QED
      BY <3>1, <3>2
  <2>3. R.primap = {p \in Pri : R.readyq[p] # <<>>}
    BY <1>1, <1>3, <1>4 DEF QueuesOK
  <2> QED
    BY <2>1, <2>2, <2>3 DEF QueuesOK
<1>7. Ready(R) = Ready(S) \cup {t}
  <2>1. \A p \in Pri : R.readyq[p] = IF p = pri THEN a ELSE S.readyq[p]
    BY <1>1, <1>4
  <2>2. \A p \in Pri : \A x \in Tasks :
          Linked(R.readyq[p], x) <=> Linked(S.readyq[p], x) \/ (p = pri /\ x = t)
    BY <1>3, <2>1
  <2> HIDE DEF q
  <2> QED
    BY <1>1, <2>2 DEF Ready
<1> QED
  BY <1>1, <1>3, <1>4, <1>5, <1>6, <1>7

LEMMA ChangeReadyMtx ==
  ASSUME NEW S \in KernelState, QueuesOK(S), SchedOK(S), NEW t \in Ready(S),
         NEW newpri \in Pri, NEW r, r = change_ready_priority_mtx(S, t, newpri)
  PROVE  /\ r.st \in KernelState /\ QueuesOK(r.st) /\ SchedOK(r.st)
         /\ Ready(r.st) = Ready(S)
         /\ Same(S, r.st)
         /\ r.st.priority = [S.priority EXCEPT ![t] = newpri]
         /\ Tells(S, r)
<1> DEFINE pri == S.priority[t]
           U == Unready(S, t)
           V == [U EXCEPT !.priority[t] = newpri]
           Q == Enready_head(V, t)
           sched == search_schedtsk(Q)
           M == [Q EXCEPT !.schedtsk = sched]
           N == [Q EXCEPT !.schedtsk = t]
<1>1. /\ S.readyq \in [Pri -> Seq(Tasks)] /\ S.priority \in [Tasks -> Pri]
      /\ S.primap \subseteq Pri /\ S.dspflg \in BOOLEAN
      /\ t \in Tasks /\ pri \in Pri /\ Pri \subseteq Int
  <2>1. t \in Tasks
    BY DEF Ready
  <2>2. Pri \subseteq Int
    BY TaskAssumption DEF Pri
  <2> QED
    BY <2>1, <2>2 DEF KernelState
<1>2. r = IF S.schedtsk = t
          THEN IF newpri >= pri
               THEN [st |-> M, dsp |-> sched # t /\ S.dspflg]
               ELSE [st |-> Q, dsp |-> FALSE]
          ELSE IF newpri <= S.priority[S.schedtsk]
               THEN [st |-> N, dsp |-> S.dspflg]
               ELSE [st |-> Q, dsp |-> FALSE]
  BY DEF change_ready_priority_mtx
<1>3. /\ U \in KernelState
      /\ QueuesOK(U)
      /\ Ready(U) = Ready(S) \ {t}
      /\ Same(S, U)
      /\ U.schedtsk = S.schedtsk /\ U.priority = S.priority
      /\ pri \in S.primap
      /\ \A p \in Pri : p # pri => U.readyq[p] = S.readyq[p]
      /\ Head(S.readyq[pri]) # t =>
           U.readyq[pri] # <<>> /\ Head(U.readyq[pri]) = Head(S.readyq[pri])
  BY UnlinkReady
<1> HIDE DEF U
<1>4. /\ V \in KernelState /\ Same(U, V)
      /\ V.readyq = U.readyq /\ V.primap = U.primap /\ V.schedtsk = U.schedtsk
      /\ V.priority = [U.priority EXCEPT ![t] = newpri]
      /\ V.priority[t] = newpri
  BY <1>1, <1>3 DEF KernelState, Same
<1> HIDE DEF V
<1>5. QueuesOK(V) /\ Ready(V) = Ready(U)
  <2>1. Ready(V) = Ready(U)
    BY <1>4 DEF Ready
  <2>2. \A p \in Pri : \A i \in DOMAIN U.readyq[p] : U.readyq[p][i] # t
    BY <1>1, <1>3 DEF Ready, Linked
  <2>3. \A p \in Pri : \A i \in DOMAIN U.readyq[p] : U.readyq[p][i] \in Tasks
    <3>1. U.readyq \in [Pri -> Seq(Tasks)]
      BY <1>3 DEF KernelState
    <3> QED
      BY <3>1, QueueLinked DEF Linked
  <2>4. U.priority \in [Tasks -> Pri]
    BY <1>3 DEF KernelState
  <2> QED
    BY <1>3, <1>4, <2>1, <2>2, <2>3, <2>4 DEF QueuesOK
<1>6. /\ Q \in KernelState
      /\ QueuesOK(Q)
      /\ Ready(Q) = Ready(V) \cup {t}
      /\ Same(V, Q)
      /\ Q.schedtsk = V.schedtsk /\ Q.priority = V.priority
      /\ Q.primap = V.primap \cup {newpri}
      /\ \A p \in Pri : p # newpri => Q.readyq[p] = V.readyq[p]
      /\ Head(Q.readyq[newpri]) = t
  BY <1>1, <1>3, <1>4, <1>5, LinkHead
<1> HIDE DEF Q
<1>7. Ready(Q) = Ready(S) /\ Same(S, Q) /\ Q.schedtsk = S.schedtsk
  BY <1>3, <1>4, <1>5, <1>6 DEF Same
<1>7a. Q.priority = [S.priority EXCEPT ![t] = newpri]
  BY <1>3, <1>4, <1>6
<1>8. U.primap \subseteq S.primap
  BY <1>1, <1>3 DEF QueuesOK
<1> DEFINE p0 == primap_search(S)
<1>9. /\ p0 \in S.primap /\ p0 \in Pri /\ \A x \in S.primap : p0 <= x
      /\ S.schedtsk = Head(S.readyq[p0]) /\ S.priority[S.schedtsk] = p0
      /\ S.schedtsk \in Ready(S)
  BY <1>3, SchedTop
<1> HIDE DEF p0
(* A task that is moved to the top is scheduled.                           *)
<1>10. ASSUME newpri <= p0
       PROVE  SchedOK(N)
  <2>4. \A x \in Q.primap : newpri <= x
    <3>1. newpri \in Int /\ p0 \in Int /\ S.primap \subseteq Int
      BY <1>1, <1>9
    <3> SUFFICES ASSUME NEW x \in Q.primap PROVE newpri <= x
      OBVIOUS
    <3>2. x \in S.primap \/ x = newpri
      BY <1>4, <1>6, <1>8
    <3>3. CASE x \in S.primap
      <4>1. p0 <= x /\ x \in Int
        BY <1>9, <3>1, <3>3
      <4> QED
        BY <1>10, <3>1, <4>1
    <3>4. CASE x = newpri
      BY <3>1, <3>4
    <3> QED
      BY <3>2, <3>3, <3>4
  <2>5. /\ N \in KernelState /\ N.readyq = Q.readyq /\ N.primap = Q.primap
        /\ N.priority = Q.priority /\ N.schedtsk = t
    BY <1>1, <1>6 DEF KernelState
  <2>6. QueuesOK(N)
    BY <1>6, <2>5 DEF QueuesOK
  <2> QED
    BY <1>6, <2>4, <2>5, <2>6, SchedFirst
<1>11. /\ N \in KernelState /\ Same(S, N) /\ N.readyq = Q.readyq
       /\ N.primap = Q.primap /\ N.priority = Q.priority /\ N.schedtsk = t
  BY <1>1, <1>6, <1>7 DEF KernelState, Same
<1>12. QueuesOK(N) /\ Ready(N) = Ready(S)
  BY <1>6, <1>7, <1>11 DEF QueuesOK, Ready
<1>13. CASE S.schedtsk = t /\ newpri >= pri
  <2>1. sched \in Ready(Q)
    <3>1. Q.primap # {}
      BY <1>6
    <3> QED
      BY <1>6, <3>1, PrimapFirst
  <2>2. sched \in Tasks /\ sched # NULL
    BY <2>1, TaskAssumption DEF Ready
  <2>3. search_schedtsk(M) = sched
    <3>1. M.readyq = Q.readyq /\ M.primap = Q.primap
      BY <1>6 DEF KernelState
    <3> QED
      BY <3>1 DEF search_schedtsk, primap_search
  <2> HIDE DEF sched
  <2>4. /\ M \in KernelState /\ Same(S, M) /\ M.readyq = Q.readyq
        /\ M.primap = Q.primap /\ M.priority = Q.priority /\ M.schedtsk = sched
    BY <1>6, <1>7, <2>2 DEF KernelState, Same
  <2>5. QueuesOK(M) /\ Ready(M) = Ready(S)
    BY <1>6, <1>7, <2>4 DEF QueuesOK, Ready
  <2>6. SchedOK(M)
    BY <1>6, <2>2, <2>3, <2>4 DEF SchedOK
  <2> HIDE DEF M
  <2>7. r = [st |-> M, dsp |-> sched # t /\ S.dspflg]
    BY <1>2, <1>13
  <2>8. Tells(S, r)
    BY <1>1, <1>13, <2>4, <2>7 DEF Tells
  <2>9. r.st = M
    BY <2>7
  <2> QED
    BY <1>7a, <2>4, <2>5, <2>6, <2>8, <2>9
<1>14. CASE S.schedtsk = t /\ ~(newpri >= pri)
  <2>1. newpri <= p0
    BY <1>1, <1>9, <1>14
  <2>2. N = Q
    BY <1>6, <1>7, <1>14 DEF KernelState
  <2>3. r.st = Q /\ r.dsp = FALSE
    BY <1>2, <1>14
  <2> HIDE DEF N
  <2> QED
    BY <1>6, <1>7, <1>7a, <1>10, <2>1, <2>2, <2>3 DEF Tells
<1>15. CASE S.schedtsk # t /\ newpri <= S.priority[S.schedtsk]
  <2>1. newpri <= p0
    BY <1>9, <1>15
  <2>2. SchedOK(N)
    BY <1>10, <2>1
  <2> HIDE DEF N
  <2>3. r.st = N /\ r.dsp = S.dspflg
    BY <1>2, <1>15
  <2> QED
    BY <1>1, <1>7a, <1>11, <1>12, <2>2, <2>3 DEF Tells
<1>16. CASE S.schedtsk # t /\ ~(newpri <= S.priority[S.schedtsk])
  <2>1. /\ U.readyq[p0] # <<>> /\ Head(U.readyq[p0]) = Head(S.readyq[p0])
    <3>1. CASE p0 = pri
      BY <1>3, <1>9, <1>16, <3>1
    <3>2. CASE p0 # pri
      BY <1>3, <1>9, <3>2 DEF QueuesOK
    <3> QED
      BY <3>1, <3>2
  <2>2. Q.readyq[p0] = U.readyq[p0] /\ Head(Q.readyq[p0]) = S.schedtsk
    <3>1. newpri # p0
      BY <1>1, <1>9, <1>16
    <3> QED
      BY <1>4, <1>6, <1>9, <2>1, <3>1
  <2>3. p0 \in Q.primap
    BY <1>6, <1>9, <2>1, <2>2 DEF QueuesOK
  <2>4. \A x \in Q.primap : p0 <= x
    BY <1>1, <1>4, <1>6, <1>8, <1>9, <1>16
  <2>5. SchedOK(Q)
    BY <1>6, <1>7, <2>2, <2>3, <2>4, SchedFirst
  <2>6. r.st = Q /\ r.dsp = FALSE
    BY <1>2, <1>16
  <2> QED
    BY <1>6, <1>7, <1>7a, <2>5, <2>6 DEF Tells
<1> QED
  BY <1>13, <1>14, <1>15, <1>16

-----------------------------------------------------------------------------
(* What an operation does to the priorities and to the states of tasks.    *)

Fields(S) == {"waitq", "priority", "tstat"} \subseteq DOMAIN S

Still(S, R) ==
  /\ Fields(R)
  /\ R.waitq = S.waitq /\ R.priority = S.priority /\ R.tstat = S.tstat

LEMMA ReadyStill ==
  ASSUME NEW S, Fields(S), NEW t
  PROVE  /\ Still(S, make_runnable(S, t).st)
         /\ Still(S, make_non_runnable(S, t).st)
<1>1. Still(S, Enready(S, t))
  BY DEF Still, Enready, Fields
<1>2. Still(S, make_runnable(S, t).st)
  BY <1>1 DEF Still, Fields, make_runnable
<1>3. Still(S, Unready(S, t))
  BY DEF Still, Unready, Fields
<1>4. Still(S, make_non_runnable(S, t).st)
  BY <1>3 DEF Still, Fields, make_non_runnable
<1> QED
  BY <1>2, <1>4

LEMMA SwitchStill ==
  /\ \A S : Fields(S) => Still(S, dispatch(S))
  /\ \A r : Fields(r.st) => Still(r.st, DispatchIf(r)) /\ Still(r.st, RequestIf(r))
  /\ \A S : Fields(S) => Still(S, end_int_handler(S))
<1>1. ASSUME NEW S, Fields(S)
      PROVE  Still(S, call_texrtn(S)) /\ Still(S, dispatch_r(S))
  BY <1>1 DEF Still, Fields, call_texrtn, calltex, call_texrtn_until, dispatch_r
<1>2. ASSUME NEW S, Fields(S)
      PROVE  Still(S, dispatch(S))
  <2> DEFINE wercd == [t \in Tasks |-> IF t = S.runtsk THEN "none"
                                       ELSE S.wercd[t]]
             D == [S EXCEPT !.runtsk = S.schedtsk, !.wercd = wercd]
  <2>1. dispatch(S) = IF S.schedtsk = NULL THEN D ELSE dispatch_r(D)
    BY DEF dispatch
  <2> HIDE DEF wercd
  <2>2. Still(S, D)
    BY <1>2 DEF Still, Fields
  <2> HIDE DEF D
  <2> QED
    BY <1>1, <2>1, <2>2 DEF Still
<1>3. ASSUME NEW r, Fields(r.st)
      PROVE  Still(r.st, DispatchIf(r)) /\ Still(r.st, RequestIf(r))
  <2>1. Still(r.st, DispatchIf(r))
    BY <1>2, <1>3 DEF Still, DispatchIf
  <2>2. Still(r.st, RequestIf(r))
    BY <1>3 DEF Still, Fields, RequestIf
  <2> QED
    BY <2>1, <2>2
<1>4. ASSUME NEW S, Fields(S)
      PROVE  Still(S, return_to_task(S))
  <2> DEFINE A == [S EXCEPT !.reqflg = FALSE]
  <2>1. Still(S, A) /\ Still(S, S)
    BY <1>4 DEF Still, Fields
  <2>2. return_to_task(S) \in {S, dispatch(A), call_texrtn(A), A}
    BY DEF return_to_task
  <2> HIDE DEF A
  <2> QED
    BY <1>1, <1>2, <2>1, <2>2 DEF Still
<1>5. ASSUME NEW S, Fields(S)
      PROVE  Still(S, end_int_handler(S))
  <2> DEFINE H == [S EXCEPT !.handlers = Tail(S.handlers)]
  <2>1. Still(S, H)
    BY <1>5 DEF Still, Fields
  <2>2. end_int_handler(S) \in {H, return_to_task(H)}
    BY DEF end_int_handler
  <2> HIDE DEF H
  <2> QED
    BY <1>4, <2>1, <2>2 DEF Still
<1> QED
  BY <1>2, <1>3, <1>5

(* No task begins to wait or becomes dormant, none has another priority.   *)
Later(ts, ts2) ==
  /\ TSTAT_WAITING(ts2) => ts2 \ TS_SUSPENDED = ts \ TS_SUSPENDED
  /\ TSTAT_DORMANT(ts2) => TSTAT_DORMANT(ts)

Calm(S, R) ==
  /\ Fields(R)
  /\ R.priority = S.priority /\ R.tstat \in [Tasks -> TStat]
  /\ \A u \in Tasks : Later(S.tstat[u], R.tstat[u])

LEMMA CalmTrans ==
  ASSUME NEW S, NEW R, NEW T, Calm(S, R), Calm(R, T) \/ Still(R, T)
  PROVE  Calm(S, T)
<1>1. ASSUME NEW a, NEW b, NEW c, Later(a, b), Later(b, c)
      PROVE  Later(a, c)
  <2>1. ASSUME TSTAT_WAITING(c) PROVE TSTAT_WAITING(b)
    <3>1. "WAITING" \in c \ TS_SUSPENDED /\ c \ TS_SUSPENDED = b \ TS_SUSPENDED
      BY <1>1, <2>1 DEF Later, TSTAT_WAITING, TS_SUSPENDED
    <3> QED
      BY <3>1 DEF TSTAT_WAITING
  <2> QED
    BY <1>1, <2>1 DEF Later
<1>2. CASE Calm(R, T)
  <2>1. \A u \in Tasks : Later(S.tstat[u], T.tstat[u])
    BY <1>1, <1>2 DEF Calm
  <2> QED
    BY <1>2, <2>1 DEF Calm
<1>3. CASE Still(R, T)
  BY <1>3 DEF Calm, Still
<1> QED
  BY <1>2, <1>3

LEMMA StillCalm ==
  ASSUME NEW S, S.tstat \in [Tasks -> TStat], NEW R, Still(S, R)
  PROVE  Calm(S, R)
BY DEF Calm, Still, Later

LEMMA SetCalm ==
  ASSUME NEW S, Fields(S), S.tstat \in [Tasks -> TStat], NEW t \in Tasks,
         NEW ts \in TStat, Later(S.tstat[t], ts),
         NEW R, R = [S EXCEPT !.tstat[t] = ts]
  PROVE  Calm(S, R)
<1>1. /\ Fields(R) /\ R.priority = S.priority
      /\ R.tstat = [S.tstat EXCEPT ![t] = ts]
  BY DEF Fields
<1>2. \A u \in Tasks : Later(S.tstat[u], S.tstat[u])
  BY DEF Later
<1> QED
  BY <1>1, <1>2 DEF Calm

(* A task is made ready, or its wait ends.                                 *)
LEMMA ReadyCalm ==
  ASSUME NEW S, Fields(S), S.tstat \in [Tasks -> TStat], NEW t \in Tasks
  PROVE  /\ Calm(S, make_active(S, t).st)
         /\ Calm(S, make_non_wait(S, t).st)
         /\ SameWaitq(S, make_non_wait(S, t).st)
<1> DEFINE A == [S EXCEPT !.tstat[t] = TS_RUNNABLE]
           B == [S EXCEPT !.tstat[t] = TS_SUSPENDED]
<1>1. \A ts \in {TS_RUNNABLE, TS_SUSPENDED} :
        ts \in TStat /\ Later(S.tstat[t], ts)
  BY DEF Later, TStat, TSTAT_WAITING, TSTAT_DORMANT, TS_RUNNABLE, TS_SUSPENDED,
         TS_DORMANT
<1>2. Calm(S, A) /\ Calm(S, B)
  BY <1>1, SetCalm
<1>3. /\ make_active(S, t).st = make_runnable(A, t).st
      /\ make_non_wait(S, t).st \in {make_runnable(A, t).st, B}
  BY DEF make_active, make_non_wait
<1> HIDE DEF A, B
<1>4. Still(A, make_runnable(A, t).st)
  BY <1>2, ReadyStill DEF Calm
<1> QED
  BY <1>2, <1>3, <1>4, CalmTrans, LeaveWaitq DEF Fields

(* The result of a wait is no part of that, nor its time event.            *)
LEMMA WaitEndsCalm ==
  ASSUME NEW S, Fields(S), S.tstat \in [Tasks -> TStat], NEW t \in Tasks,
         NEW e, NEW D, D \in {S, wait_dequeue_tmevtb(S, t)},
         NEW R, R = make_non_wait([D EXCEPT !.wercd[t] = e], t).st
  PROVE  Calm(S, R) /\ SameWaitq(S, R)
<1> DEFINE E == [D EXCEPT !.wercd[t] = e]
<1>1. Still(S, D)
  BY DEF Still, Fields, wait_dequeue_tmevtb
<1>2. Still(D, E)
  <2> HIDE DEF Still
  <2>1. Fields(D)
    BY <1>1 DEF Still
  <2> QED
    BY <2>1 DEF Still, Fields
<1>3. Still(S, E) /\ E.tstat \in [Tasks -> TStat]
  BY <1>1, <1>2 DEF Still
<1>4. R = make_non_wait(E, t).st
  OBVIOUS
<1> HIDE DEF E
<1>5. Calm(E, R) /\ SameWaitq(E, R)
  BY <1>3, <1>4, ReadyCalm DEF Still
<1> QED
  BY <1>3, <1>5, StillCalm, CalmTrans DEF Still, SameWaitq

-----------------------------------------------------------------------------
(* mutex.c: the priorities.                                                *)

(* change_priority, with mtxmode or without.                               *)
LEMMA ChangePriorityMtx ==
  ASSUME NEW S, Base(S), NEW t \in Tasks, NEW newpri \in Pri,
         NEW r, \/ r = change_priority(S, t, newpri)
                \/ r = change_priority_mtx(S, t, newpri)
  PROVE  Reprio(S, t, newpri, r)
<1>1. CASE r = change_priority(S, t, newpri)
  BY <1>1, ChangePriority
<1>2. CASE r = change_priority_mtx(S, t, newpri)
  <2>1. CASE TSTAT_RUNNABLE(S.tstat[t])
    <3>1. /\ S \in KernelState /\ QueuesOK(S) /\ SchedOK(S)
          /\ t \in Ready(S)
      BY <2>1 DEF Base, Core, RunnableOK
    <3>2. r = change_ready_priority_mtx(S, t, newpri)
      BY <1>2, <2>1 DEF change_priority_mtx
    <3>3. /\ r.st \in KernelState /\ QueuesOK(r.st) /\ SchedOK(r.st)
          /\ Ready(r.st) = Ready(S) /\ Same(S, r.st)
          /\ r.st.priority = [S.priority EXCEPT ![t] = newpri]
          /\ Tells(S, r)
      BY <3>1, <3>2, ChangeReadyMtx
    <3> QED
      BY <3>1, <3>3, ReadyReprio
  <2>2. CASE ~TSTAT_RUNNABLE(S.tstat[t])
    BY <1>2, <2>2, ChangePriority DEF change_priority_mtx
  <2> QED
    BY <2>1, <2>2
<1> QED
  BY <1>1, <1>2

(* Nothing is changed, which is as good as the priority being set again.   *)
LEMMA NotReprio ==
  ASSUME NEW S, Base(S), NEW t \in Tasks, NEW pri, S.priority[t] = pri,
         NEW r, r = [st |-> S, dsp |-> FALSE]
  PROVE  Reprio(S, t, pri, r)
<1>1. r.st = S /\ r.dsp = FALSE
  OBVIOUS
<1>2. S.priority = [S.priority EXCEPT ![t] = pri]
  BY DEF Base, Core, KernelState
<1>3. Frame(S, S) /\ SameMembers(S, S)
  BY DEF Frame, SameMembers
<1> QED
  BY <1>1, <1>2, <1>3 DEF Reprio, Tells

-----------------------------------------------------------------------------
(* Minima of sets of priorities.                                           *)

LEMMA MinOf ==
  ASSUME NEW T, T \subseteq Nat, T # {}
  PROVE  Min(T) \in T /\ \A y \in T : Min(T) <= y
<1>1. \E x \in T : \A y \in T : x <= y
  BY LeastOf
<1> QED
  BY <1>1 DEF Min

LEMMA IsMin ==
  ASSUME NEW T, T \subseteq Nat, NEW x \in T, \A y \in T : x <= y
  PROVE  Min(T) = x
<1>1. Min(T) \in T /\ \A y \in T : Min(T) <= y
  BY MinOf
<1>2. Min(T) <= x /\ x <= Min(T) /\ x \in Nat /\ Min(T) \in Nat
  BY <1>1
<1> QED
  BY <1>2

(* The least of T and of one element more.                                 *)
LEMMA MinAdd ==
  ASSUME NEW T, T \subseteq Nat, T # {}, NEW x \in Nat, NEW U, U = T \cup {x}
  PROVE  Min(U) = IF x < Min(T) THEN x ELSE Min(T)
<1> DEFINE a == Min(T)
           m == IF x < a THEN x ELSE a
<1>1. a \in T /\ \A y \in T : a <= y
  BY MinOf
<1> HIDE DEF a
<1>2. a \in Nat /\ m \in U /\ m \in Nat /\ m <= a /\ m <= x
  BY <1>1
<1>3. ASSUME NEW y \in U PROVE m <= y
  <2>1. y \in T => a <= y /\ y \in Nat
    BY <1>1
  <2> HIDE DEF m
  <2> QED
    BY <1>2, <1>3, <2>1
<1>4. U \subseteq Nat
  OBVIOUS
<1> HIDE DEF m
<1>5. Min(U) = m
  BY <1>2, <1>3, <1>4, IsMin
<1> QED
  BY <1>5 DEF m, a

(* Of two elements.                                                        *)
LEMMA MinOfTwo ==
  ASSUME NEW a \in Nat, NEW b \in Nat
  PROVE  Min({a, b}) = IF b < a THEN b ELSE a
<1> DEFINE T == {a, b}
           m == IF b < a THEN b ELSE a
<1>1. T \subseteq Nat /\ m \in T /\ \A y \in T : m <= y
  OBVIOUS
<1> HIDE DEF T, m
<1>2. Min(T) = m
  BY <1>1, IsMin
<1> QED
  BY <1>2 DEF T, m

-----------------------------------------------------------------------------
(* The priority of a task of base priority b that has locked the mutexes   *)
(* of C which have a ceiling.                                              *)
Prio(b, C) == Min({b} \cup {ceilpri[m] : m \in C})

LEMMA PriFacts ==
  /\ Pri \subseteq Nat /\ TA_CEILING \subseteq Mutexes
  /\ ceilpri \in [TA_CEILING -> Pri] /\ Mutexes \subseteq WaitQueues
  /\ TA_CEILING \subseteq TA_TPRI /\ NULL \notin Tasks
BY MutexAssumption, TaskAssumption DEF Pri

LEMMA PrioBounds ==
  ASSUME NEW b \in Pri, NEW C \in SUBSET TA_CEILING
  PROVE  /\ Prio(b, C) \in Pri /\ Prio(b, C) <= b
         /\ \A m \in C : Prio(b, C) <= ceilpri[m]
         /\ Prio(b, C) = b \/ \E m \in C : Prio(b, C) = ceilpri[m]
<1> DEFINE T == {b} \cup {ceilpri[m] : m \in C}
<1>1. T \subseteq Pri /\ T \subseteq Nat /\ T # {}
  BY PriFacts
<1>2. Min(T) \in T /\ \A y \in T : Min(T) <= y
  <2> HIDE DEF T
  <2> QED
    BY <1>1, MinOf
<1>3. b \in T /\ \A m \in C : ceilpri[m] \in T
  OBVIOUS
<1>4. \A y \in T : y = b \/ \E m \in C : y = ceilpri[m]
  OBVIOUS
<1>5. Prio(b, C) = Min(T)
  BY DEF Prio
<1> HIDE DEF T
<1> QED
  BY <1>1, <1>2, <1>3, <1>4, <1>5

(* What these say of a priority, only it does.                             *)
LEMMA PrioIs ==
  ASSUME NEW b \in Pri, NEW C \in SUBSET TA_CEILING, NEW p, p <= b,
         \A m \in C : p <= ceilpri[m],
         p = b \/ \E m \in C : p = ceilpri[m]
  PROVE  Prio(b, C) = p
<1> DEFINE T == {b} \cup {ceilpri[m] : m \in C}
<1>1. T \subseteq Nat /\ p \in T
  BY PriFacts
<1>2. \A y \in T : p <= y
  OBVIOUS
<1>3. Prio(b, C) = Min(T)
  BY DEF Prio
<1> HIDE DEF T
<1> QED
  BY <1>1, <1>2, <1>3, IsMin

LEMMA PrioNone ==
  ASSUME NEW b \in Pri, NEW C, C = {}
  PROVE  Prio(b, C) = b
<1>1. b <= b /\ C \in SUBSET TA_CEILING
  BY PriFacts
<1> QED
  BY <1>1, PrioIs

(* One mutex more.                                                         *)
LEMMA PrioAdd ==
  ASSUME NEW b \in Pri, NEW C \in SUBSET TA_CEILING, NEW m \in TA_CEILING,
         NEW D, D = C \cup {m}
  PROVE  Prio(b, D) = IF ceilpri[m] < Prio(b, C) THEN ceilpri[m] ELSE Prio(b, C)
<1> DEFINE a == Prio(b, C)
           p == IF ceilpri[m] < a THEN ceilpri[m] ELSE a
<1>1. /\ a \in Pri /\ a <= b /\ \A x \in C : a <= ceilpri[x]
      /\ a = b \/ \E x \in C : a = ceilpri[x]
  BY PrioBounds
<1> HIDE DEF a
<1>2. a \in Nat /\ b \in Nat /\ \A x \in D : ceilpri[x] \in Nat
  BY <1>1, PriFacts
<1>3. p \in Nat /\ p <= a /\ p <= ceilpri[m] /\ (p = a \/ p = ceilpri[m])
  BY <1>2
<1> HIDE DEF p
<1>4. p <= b /\ \A x \in D : p <= ceilpri[x]
  <2>1. p <= b
    BY <1>1, <1>2, <1>3
  <2>2. ASSUME NEW x \in D PROVE p <= ceilpri[x]
    <3>1. CASE x = m
      BY <1>3, <3>1
    <3>2. CASE x \in C
      <4>1. a <= ceilpri[x] /\ ceilpri[x] \in Nat
        BY <1>1, <1>2, <3>2
      <4> QED
        BY <1>2, <1>3, <4>1
    <3> QED
      BY <2>2, <3>1, <3>2
  <2> QED
    BY <2>1, <2>2
<1>5. p = b \/ \E x \in D : p = ceilpri[x]
  BY <1>1, <1>3
<1>6. Prio(b, D) = p
  BY <1>4, <1>5, PrioIs
<1> QED
  BY <1>6 DEF p, a

(* One mutex less that does not make the priority what it is.              *)
LEMMA PrioDrop ==
  ASSUME NEW b \in Pri, NEW C \in SUBSET TA_CEILING, NEW m,
         m \in TA_CEILING => ceilpri[m] # Prio(b, C), NEW D, D = C \ {m}
  PROVE  Prio(b, D) = Prio(b, C)
<1> DEFINE p == Prio(b, C)
<1>1. /\ p <= b /\ \A x \in C : p <= ceilpri[x]
      /\ p = b \/ \E x \in C : p = ceilpri[x]
  BY PrioBounds
<1>2. p = b \/ \E x \in D : p = ceilpri[x]
  BY <1>1
<1>3. D \in SUBSET TA_CEILING /\ \A x \in D : p <= ceilpri[x]
  BY <1>1
<1> HIDE DEF p
<1>4. Prio(b, D) = p
  BY <1>1, <1>2, <1>3, PrioIs
<1> QED
  BY <1>4 DEF p

(* Base priorities below all the ceilings make no difference.              *)
LEMMA PrioBase ==
  ASSUME NEW b \in Pri, NEW c \in Pri, NEW C \in SUBSET TA_CEILING, C # {},
         \A m \in C : b >= ceilpri[m] /\ c >= ceilpri[m]
  PROVE  Prio(b, C) = Prio(c, C)
<1> DEFINE p == Prio(b, C)
<1>1. /\ p \in Pri /\ p <= b /\ \A x \in C : p <= ceilpri[x]
      /\ p = b \/ \E x \in C : p = ceilpri[x]
  BY PrioBounds
<1> HIDE DEF p
<1>2. p \in Nat /\ b \in Nat /\ c \in Nat /\ \A x \in C : ceilpri[x] \in Nat
  BY <1>1, PriFacts
<1>3. \E x \in C : p = ceilpri[x]
  BY <1>1, <1>2
<1>4. p <= c
  BY <1>2, <1>3
<1>5. Prio(c, C) = p
  BY <1>1, <1>3, <1>4, PrioIs
<1> QED
  BY <1>5 DEF p

-----------------------------------------------------------------------------
(* The lists of locked mutexes.                                            *)

MtxState ==
  [bpriority : [Tasks -> Pri],
   mutex_queue : [Tasks -> Seq(Mutexes)],
   loctsk : [Mutexes -> Tasks \cup {NULL}]]

Mine(M, t) == ToSet(M.mutex_queue[t])

ListsOK(M) ==
  \A t \in Tasks :
    /\ Unique(M.mutex_queue[t])
    /\ \A m \in Mutexes : Linked(M.mutex_queue[t], m) <=> M.loctsk[m] = t

LEMMA MineFacts ==
  ASSUME NEW M \in MtxState, NEW t \in Tasks
  PROVE  /\ \A y : y \in Mine(M, t) <=> Linked(M.mutex_queue[t], y)
         /\ Mine(M, t) \subseteq Mutexes
         /\ M.mutex_queue[t] = <<>> <=> Mine(M, t) = {}
         /\ M.bpriority[t] \in Pri
         /\ mutex_calc_priority(M, t) =
              Prio(M.bpriority[t], Mine(M, t) \cap TA_CEILING)
<1> DEFINE q == M.mutex_queue[t]
<1>1. q \in Seq(Mutexes) /\ M.bpriority[t] \in Pri
  BY DEF MtxState
<1>2. \A y : y \in Mine(M, t) <=> Linked(q, y)
  BY DEF Mine, ToSet, Linked
<1>3. mutex_calc_priority(M, t) =
        Prio(M.bpriority[t], Mine(M, t) \cap TA_CEILING)
  BY DEF mutex_calc_priority, Ceilings, Prio, Mine
<1> HIDE DEF q
<1>4. q = <<>> <=> ~(\E x : Linked(q, x))
  BY <1>1, QueueLinked
<1>5. \A x : Linked(q, x) => x \in Mutexes
  BY <1>1, QueueLinked
<1> QED
  BY <1>1, <1>2, <1>3, <1>4, <1>5 DEF q

(* A mutex in no list is locked by t.                                      *)
LEMMA LinkedTo ==
  ASSUME NEW M \in MtxState, NEW m \in Mutexes, NEW t \in Tasks,
         \A x \in Tasks : Unique(M.mutex_queue[x]) /\ m \notin Mine(M, x),
         NEW N, N = Linked_to(M, m, t)
  PROVE  /\ N \in MtxState /\ N.bpriority = M.bpriority
         /\ N.loctsk = [M.loctsk EXCEPT ![m] = t]
         /\ \A x \in Tasks :
              /\ Unique(N.mutex_queue[x])
              /\ Mine(N, x) = IF x = t THEN Mine(M, x) \cup {m} ELSE Mine(M, x)
<1> DEFINE q == M.mutex_queue[t]
           a == queue_insert_prev(q, m)
<1>1. /\ M.mutex_queue \in [Tasks -> Seq(Mutexes)] /\ q \in Seq(Mutexes)
      /\ Unique(q) /\ ~Linked(q, m)
  BY MineFacts DEF MtxState
<1>2. /\ a \in Seq(Mutexes) /\ Unique(a)
      /\ \A y : Linked(a, y) <=> Linked(q, y) \/ y = m
  BY <1>1, InsertPrev
<1>3. /\ N.bpriority = M.bpriority
      /\ N.loctsk = [M.loctsk EXCEPT ![m] = t]
      /\ N.mutex_queue = [M.mutex_queue EXCEPT ![t] = a]
      /\ N \in MtxState
  BY <1>2 DEF Linked_to, MtxState
<1> HIDE DEF a
<1>4. \A x \in Tasks : N.mutex_queue[x] = IF x = t THEN a ELSE M.mutex_queue[x]
  BY <1>1, <1>3
<1>5. \A x \in Tasks : Unique(N.mutex_queue[x])
  BY <1>2, <1>4
<1>6. \A x \in Tasks :
        Mine(N, x) = IF x = t THEN Mine(M, x) \cup {m} ELSE Mine(M, x)
  <2> SUFFICES ASSUME NEW x \in Tasks, NEW y
               PROVE  y \in Mine(N, x) <=> y \in Mine(M, x) \/ (x = t /\ y = m)
    OBVIOUS
  <2>1. Linked(N.mutex_queue[x], y) <=>
          Linked(M.mutex_queue[x], y) \/ (x = t /\ y = m)
    BY <1>2, <1>4
  <2> QED
    BY <1>3, <2>1, MineFacts
<1> QED
  BY <1>3, <1>5, <1>6

(* The locked mutex m is taken out of the list of its task.                *)
LEMMA UnlinkedFacts ==
  ASSUME NEW M \in MtxState, ListsOK(M), NEW m \in Mutexes, NEW t \in Tasks,
         M.loctsk[m] = t, NEW N, N = Unlinked(M, m, t)
  PROVE  /\ N \in MtxState /\ N.bpriority = M.bpriority /\ N.loctsk = M.loctsk
         /\ \A x \in Tasks :
              /\ Unique(N.mutex_queue[x])
              /\ Mine(N, x) = Mine(M, x) \ {m}
<1> DEFINE q == M.mutex_queue[t]
           d == queue_delete(q, m)
<1>1. /\ M.mutex_queue \in [Tasks -> Seq(Mutexes)] /\ q \in Seq(Mutexes)
      /\ Unique(q) /\ Linked(q, m)
  BY DEF MtxState, ListsOK
<1>2. /\ d \in Seq(Mutexes) /\ Unique(d)
      /\ \A y : Linked(d, y) <=> Linked(q, y) /\ y # m
  BY <1>1, Delete
<1>3. /\ N.bpriority = M.bpriority /\ N.loctsk = M.loctsk
      /\ N.mutex_queue = [M.mutex_queue EXCEPT ![t] = d]
      /\ N \in MtxState
  BY <1>2 DEF Unlinked, MtxState
<1> HIDE DEF d
<1>4. \A x \in Tasks : N.mutex_queue[x] = IF x = t THEN d ELSE M.mutex_queue[x]
  BY <1>1, <1>3
<1>5. \A x \in Tasks : Unique(N.mutex_queue[x])
  BY <1>2, <1>4 DEF ListsOK
<1>6. \A x \in Tasks : Mine(N, x) = Mine(M, x) \ {m}
  <2> SUFFICES ASSUME NEW x \in Tasks, NEW y
               PROVE  y \in Mine(N, x) <=> y \in Mine(M, x) /\ y # m
    OBVIOUS
  <2>1. x # t => ~Linked(M.mutex_queue[x], m)
    BY DEF ListsOK
  <2>2. Linked(N.mutex_queue[x], y) <=> Linked(M.mutex_queue[x], y) /\ y # m
    BY <1>2, <1>4, <2>1
  <2> QED
    BY <1>3, <2>2, MineFacts
<1> QED
  BY <1>3, <1>5, <1>6

(* The lists of mutexes of two tasks, as m goes from one to the other, or  *)
(* to nobody.                                                              *)
HandedOver(M, N, m, t, u) ==
  /\ N \in MtxState /\ ListsOK(N) /\ N.bpriority = M.bpriority
  /\ N.loctsk = [M.loctsk EXCEPT ![m] = u]
  /\ \A x \in Tasks : Mine(N, x) = IF x = u THEN Mine(M, x) \cup {m}
                                   ELSE Mine(M, x) \ {m}

LEMMA PassedFacts ==
  ASSUME NEW M \in MtxState, ListsOK(M), NEW m \in Mutexes, NEW t \in Tasks,
         M.loctsk[m] = t, NEW u \in Tasks \cup {NULL}, u # t,
         NEW N, N = Passed(Unlinked(M, m, t), m, u)
  PROVE  HandedOver(M, N, m, t, u)
<1> DEFINE U == Unlinked(M, m, t)
<1>1. /\ U \in MtxState /\ U.bpriority = M.bpriority /\ U.loctsk = M.loctsk
      /\ \A x \in Tasks :
           /\ Unique(U.mutex_queue[x])
           /\ Mine(U, x) = Mine(M, x) \ {m}
  BY UnlinkedFacts
<1>2. N = Passed(U, m, u)
  OBVIOUS
<1> HIDE DEF U
<1>3. /\ N \in MtxState /\ N.bpriority = U.bpriority
      /\ N.loctsk = [U.loctsk EXCEPT ![m] = u]
      /\ \A x \in Tasks :
           /\ Unique(N.mutex_queue[x])
           /\ Mine(N, x) = IF x = u THEN Mine(U, x) \cup {m} ELSE Mine(U, x)
  <2>1. CASE u = NULL
    <3>1. N = [U EXCEPT !.loctsk[m] = NULL]
      BY <1>2, <2>1 DEF Passed
    <3>2. /\ N \in MtxState /\ N.bpriority = U.bpriority
          /\ N.loctsk = [U.loctsk EXCEPT ![m] = u]
          /\ N.mutex_queue = U.mutex_queue
      <4>1. U \in MtxState /\ NULL \in Tasks \cup {NULL}
        BY <1>1
      <4>2. U.loctsk \in [Mutexes -> Tasks \cup {NULL}]
        BY <4>1 DEF MtxState
      <4> DEFINE l == [U.loctsk EXCEPT ![m] = NULL]
      <4>3. l \in [Mutexes -> Tasks \cup {NULL}]
        BY <4>1, <4>2
      <4>4. N = [U EXCEPT !.loctsk = l]
        BY <3>1
      <4>5. l = [U.loctsk EXCEPT ![m] = u]
        BY <2>1
      <4> HIDE DEF l
      <4> QED
        BY <4>1, <4>3, <4>4, <4>5 DEF MtxState
    <3>3. \A x \in Tasks : x # u
      BY <2>1, TaskAssumption
    <3> QED
      BY <1>1, <3>2, <3>3 DEF Mine
  <2>2. CASE u # NULL
    <3>1. N = Linked_to(U, m, u) /\ u \in Tasks
      BY <1>2, <2>2 DEF Passed
    <3>2. \A x \in Tasks : Unique(U.mutex_queue[x]) /\ m \notin Mine(U, x)
      BY <1>1
    <3> QED
      BY <1>1, <3>1, <3>2, LinkedTo
  <2> QED
    BY <2>1, <2>2
<1>4. \A x \in Tasks : Mine(N, x) = IF x = u THEN Mine(M, x) \cup {m}
                                    ELSE Mine(M, x) \ {m}
  BY <1>1, <1>3
<1>5. ListsOK(N)
  <2> SUFFICES ASSUME NEW x \in Tasks, NEW y \in Mutexes
               PROVE  Linked(N.mutex_queue[x], y) <=> N.loctsk[y] = x
    BY <1>3 DEF ListsOK
  <2>0. Linked(N.mutex_queue[x], y) <=> y \in Mine(N, x)
    BY <1>3, MineFacts
  <2>1. Linked(N.mutex_queue[x], y) <=>
          IF y = m THEN x = u ELSE y \in Mine(M, x)
    BY <1>4, <2>0
  <2>2. y \in Mine(M, x) <=> M.loctsk[y] = x
    BY MineFacts DEF ListsOK
  <2>3. N.loctsk[y] = IF y = m THEN u ELSE M.loctsk[y]
    BY <1>1, <1>3 DEF MtxState
  <2> QED
    BY <2>1, <2>2, <2>3
<1> QED
  BY <1>1, <1>3, <1>4, <1>5 DEF HandedOver

(* A free mutex is locked.                                                 *)
LEMMA LockedFacts ==
  ASSUME NEW M \in MtxState, ListsOK(M), NEW m \in Mutexes, NEW t \in Tasks,
         M.loctsk[m] = NULL, NEW N, N = Linked_to(M, m, t)
  PROVE  HandedOver(M, N, m, NULL, t)
<1>1. \A x \in Tasks : Unique(M.mutex_queue[x]) /\ m \notin Mine(M, x)
  BY MineFacts, TaskAssumption DEF ListsOK
<1>2. /\ N \in MtxState /\ N.bpriority = M.bpriority
      /\ N.loctsk = [M.loctsk EXCEPT ![m] = t]
      /\ \A x \in Tasks :
           /\ Unique(N.mutex_queue[x])
           /\ Mine(N, x) = IF x = t THEN Mine(M, x) \cup {m} ELSE Mine(M, x)
  BY <1>1, LinkedTo
<1>3. \A x \in Tasks : Mine(N, x) = IF x = t THEN Mine(M, x) \cup {m}
                                    ELSE Mine(M, x) \ {m}
  BY <1>1, <1>2
<1>4. ListsOK(N)
  <2> SUFFICES ASSUME NEW x \in Tasks, NEW y \in Mutexes
               PROVE  Linked(N.mutex_queue[x], y) <=> N.loctsk[y] = x
    BY <1>2 DEF ListsOK
  <2>1. Linked(N.mutex_queue[x], y) <=>
          IF y = m THEN x = t ELSE y \in Mine(M, x)
    BY <1>2, <1>3, MineFacts
  <2>2. y \in Mine(M, x) <=> M.loctsk[y] = x
    BY MineFacts DEF ListsOK
  <2>3. N.loctsk[y] = IF y = m THEN t ELSE M.loctsk[y]
    BY <1>2 DEF MtxState
  <2> QED
    BY <2>1, <2>2, <2>3
<1> QED
  BY <1>2, <1>3, <1>4 DEF HandedOver

-----------------------------------------------------------------------------
(* The inductive invariant.  While a task is ended it gives up its mutexes *)
(* and its priority is not cared for; z is that task, or NULL.             *)

(* Who waits for a mutex that another task has locked.                     *)
WaiterOK(S, M, m, y) ==
  /\ y \in Tasks /\ M.loctsk[m] \notin {NULL, y}
  /\ TSTAT_WAIT_MTX(S.tstat[y])
  /\ m \in TA_CEILING => M.bpriority[y] >= ceilpri[m]

WaitersOK(S, M) ==
  \A m \in Mutexes : \A y : Linked(S.waitq[m], y) => WaiterOK(S, M, m, y)

OwnerOK(S, M, z, t) ==
  /\ t # z => S.priority[t] = mutex_calc_priority(M, t)
  /\ \A m \in TA_CEILING : M.loctsk[m] = t => M.bpriority[t] >= ceilpri[m]
  /\ TSTAT_DORMANT(S.tstat[t]) => M.mutex_queue[t] = <<>>

MtxBut(S, M, z) ==
  /\ M \in MtxState /\ ListsOK(M) /\ WaitersOK(S, M)
  /\ \A t \in Tasks : OwnerOK(S, M, z, t)

MtxInv == KernelInv(k) /\ MtxBut(k, mtx, NULL)

(* The invariant of the kernel is not needed but for this.                 *)
LinkedWait(S) ==
  \A w \in WaitQueues : \A y : Linked(S.waitq[w], y) =>
    y \in Tasks /\ TSTAT_WAITING(S.tstat[y])

LEMMA LinkedWaits ==
  ASSUME NEW S, Base(S)
  PROVE  LinkedWait(S) /\ S.tstat \in [Tasks -> TStat] /\ Fields(S)
         /\ S.priority \in [Tasks -> Pri]
         /\ S.waitq \in [WaitQueues -> Seq(Tasks)]
<1>1. S \in KernelState /\ Waits(S, {})
  BY DEF Base, Core
<1>2. S.tstat \in [Tasks -> TStat] /\ S.waitq \in [WaitQueues -> Seq(Tasks)]
      /\ Fields(S) /\ S.priority \in [Tasks -> Pri]
  BY <1>1 DEF KernelState, Fields
<1>3. ASSUME NEW w \in WaitQueues, NEW y, Linked(S.waitq[w], y)
      PROVE  y \in Tasks /\ TSTAT_WAITING(S.tstat[y])
  <2>1. y \in Tasks
    BY <1>2, <1>3, QueueLinked
  <2>2. TSTAT_WAIT_WOBJ(S.tstat[y])
    BY <1>1, <1>3, <2>1 DEF Waits, WaitOK, InQueue
  <2> QED
    BY <1>2, <2>1, <2>2, ObjectWaitFacts
<1> QED
  BY <1>2, <1>3 DEF LinkedWait

(* A wait for a mutex that goes on.                                        *)
LEMMA StillWaits ==
  ASSUME NEW ts, NEW ts2, Later(ts, ts2), TSTAT_WAITING(ts2), TSTAT_WAIT_MTX(ts)
  PROVE  TSTAT_WAIT_MTX(ts2)
<1>1. ts2 \ TS_SUSPENDED = ts \ TS_SUSPENDED
  BY DEF Later
<1>2. "WAIT_MTX" \in ts \ TS_SUSPENDED
  BY DEF TSTAT_WAIT_MTX, TS_SUSPENDED
<1> QED
  BY <1>1, <1>2 DEF TSTAT_WAIT_MTX

(* Steps that leave mutexes and priorities alone.                          *)
LEMMA MtxKept ==
  ASSUME NEW S, NEW M, NEW z, MtxBut(S, M, z), NEW R, LinkedWait(R),
         Calm(S, R), Shrinks(S, R, WaitQueues)
  PROVE  MtxBut(R, M, z)
<1>1. WaitersOK(R, M)
  <2> SUFFICES ASSUME NEW m \in Mutexes, NEW y, Linked(R.waitq[m], y)
               PROVE  WaiterOK(R, M, m, y)
    BY DEF WaitersOK
  <2>1. m \in WaitQueues
    BY PriFacts
  <2>2. WaiterOK(S, M, m, y) /\ TSTAT_WAITING(R.tstat[y])
    BY <2>1 DEF MtxBut, WaitersOK, Shrinks, LinkedWait
  <2>3. Later(S.tstat[y], R.tstat[y])
    BY <2>2 DEF WaiterOK, Calm
  <2> QED
    BY <2>2, <2>3, StillWaits DEF WaiterOK
<1>2. ASSUME NEW t \in Tasks
      PROVE  OwnerOK(R, M, z, t)
  <2>1. R.priority = S.priority /\ Later(S.tstat[t], R.tstat[t])
    BY DEF Calm
  <2> QED
    BY <2>1 DEF MtxBut, OwnerOK, Later
<1> QED
  BY <1>1, <1>2 DEF MtxBut

LEMMA WaiterSame ==
  ASSUME NEW S, NEW R, R.tstat = S.tstat, NEW M, NEW m, NEW y,
         WaiterOK(S, M, m, y)
  PROVE  WaiterOK(R, M, m, y)
BY DEF WaiterOK

(* The priority of t is changed, to what it should be, or for a while to   *)
(* something else.                                                         *)
LEMMA MtxReprio ==
  ASSUME NEW S, NEW M, NEW t \in Tasks, MtxBut(S, M, NULL) \/ MtxBut(S, M, t),
         S.priority \in [Tasks -> Pri], NEW pri, NEW r, Reprio(S, t, pri, r)
  PROVE  /\ MtxBut(r.st, M, t)
         /\ pri = mutex_calc_priority(M, t) => MtxBut(r.st, M, NULL)
<1> DEFINE R == r.st
<1>1. /\ R.tstat = S.tstat /\ SameMembers(S, R)
      /\ \A u \in Tasks : R.priority[u] = IF u = t THEN pri ELSE S.priority[u]
  BY DEF Reprio
<1> HIDE DEF R
<1>2. WaitersOK(R, M)
  <2> SUFFICES ASSUME NEW m \in Mutexes, NEW y, Linked(R.waitq[m], y)
               PROVE  WaiterOK(R, M, m, y)
    BY DEF WaitersOK
  <2>1. Linked(S.waitq[m], y) /\ WaitersOK(S, M)
    BY <1>1, PriFacts DEF MtxBut, SameMembers
  <2>2. WaiterOK(S, M, m, y)
    BY <2>1 DEF WaitersOK
  <2> QED
    BY <1>1, <2>2, WaiterSame
<1>3. \A u \in Tasks : u # t => OwnerOK(R, M, t, u) /\ OwnerOK(R, M, NULL, u)
  BY <1>1, PriFacts DEF MtxBut, OwnerOK
<1>4. /\ OwnerOK(R, M, t, t)
      /\ pri = mutex_calc_priority(M, t) => OwnerOK(R, M, NULL, t)
  BY <1>1 DEF MtxBut, OwnerOK
<1>5. /\ MtxBut(R, M, t)
      /\ pri = mutex_calc_priority(M, t) => MtxBut(R, M, NULL)
  BY <1>2, <1>3, <1>4 DEF MtxBut
<1> QED
  BY <1>5 DEF R

LEMMA MtxExempt ==
  ASSUME NEW S, NEW M, NEW t
  PROVE  /\ MtxBut(S, M, NULL) => MtxBut(S, M, t)
         /\ MtxBut(S, M, t) /\ t \in Tasks /\ S.priority[t] = mutex_calc_priority(M, t)
              => MtxBut(S, M, NULL)
<1>1. \A u \in Tasks : /\ OwnerOK(S, M, NULL, u) => OwnerOK(S, M, t, u)
                       /\ OwnerOK(S, M, t, u) /\ u # t => OwnerOK(S, M, NULL, u)
  BY TaskAssumption DEF OwnerOK
<1>2. S.priority[t] = mutex_calc_priority(M, t) /\ OwnerOK(S, M, t, t)
        => OwnerOK(S, M, NULL, t)
  BY DEF OwnerOK
<1> QED
  BY <1>1, <1>2 DEF MtxBut

(* The first task that waits for m, u, gets it from t, or there is none.   *)
Gives(S, R, m, u) ==
  /\ u \in Tasks \cup {NULL}
  /\ IF u = NULL THEN \A y : ~Linked(R.waitq[m], y) ELSE Linked(S.waitq[m], u)
  /\ \A w \in Mutexes : \A y : Linked(R.waitq[w], y) =>
       Linked(S.waitq[w], y) /\ (w = m => y # u)
  /\ \A x \in Tasks :
       /\ Later(S.tstat[x], R.tstat[x])
       /\ R.priority[x] = IF x = u /\ m \in TA_CEILING /\ ceilpri[m] < S.priority[x]
                          THEN ceilpri[m] ELSE S.priority[x]

LEMMA PassOn ==
  ASSUME NEW S, NEW M, NEW t \in Tasks, MtxBut(S, M, t), NEW m \in Mutexes,
         M.loctsk[m] = t, NEW u, NEW R, LinkedWait(R), Gives(S, R, m, u),
         NEW N, N = Passed(Unlinked(M, m, t), m, u)
  PROVE  MtxBut(R, N, t) /\ Mine(N, t) = Mine(M, t) \ {m} /\ u # t
<1>1. u \in Tasks \cup {NULL} /\ M \in MtxState /\ ListsOK(M)
  BY DEF Gives, MtxBut
<1>2. u # NULL => /\ u \in Tasks /\ WaiterOK(S, M, m, u)
                  /\ m \in TA_CEILING => M.bpriority[u] >= ceilpri[m]
  BY <1>1 DEF Gives, MtxBut, WaitersOK, WaiterOK
<1>3. u # t
  BY <1>2, TaskAssumption DEF WaiterOK
<1>4. HandedOver(M, N, m, t, u)
  BY <1>1, <1>3, PassedFacts
<1>5. /\ N \in MtxState /\ ListsOK(N) /\ N.bpriority = M.bpriority
      /\ \A w \in Mutexes : N.loctsk[w] = IF w = m THEN u ELSE M.loctsk[w]
      /\ \A x \in Tasks : Mine(N, x) = IF x = u THEN Mine(M, x) \cup {m}
                                       ELSE Mine(M, x) \ {m}
  BY <1>1, <1>4 DEF HandedOver, MtxState
<1>6. WaitersOK(R, N)
  <2> SUFFICES ASSUME NEW w \in Mutexes, NEW y, Linked(R.waitq[w], y)
               PROVE  WaiterOK(R, N, w, y)
    BY DEF WaitersOK
  <2>1. Linked(S.waitq[w], y) /\ (w = m => y # u /\ u # NULL)
    BY DEF Gives
  <2>2. WaiterOK(S, M, w, y) /\ TSTAT_WAITING(R.tstat[y])
    BY <2>1, PriFacts DEF MtxBut, WaitersOK, LinkedWait
  <2>3. Later(S.tstat[y], R.tstat[y])
    BY <2>2 DEF WaiterOK, Gives
  <2>4. TSTAT_WAIT_MTX(R.tstat[y])
    BY <2>2, <2>3, StillWaits DEF WaiterOK
  <2>5. N.loctsk[w] \notin {NULL, y}
    BY <1>5, <2>1, <2>2 DEF WaiterOK
  <2> QED
    BY <1>5, <2>2, <2>4, <2>5 DEF WaiterOK
<1>7. ASSUME NEW x \in Tasks
      PROVE  OwnerOK(R, N, t, x)
  <2>1. OwnerOK(S, M, t, x) /\ Later(S.tstat[x], R.tstat[x])
    BY DEF MtxBut, Gives
  <2>2. \A w \in TA_CEILING : N.loctsk[w] = x => N.bpriority[x] >= ceilpri[w]
    BY <1>2, <1>5, <2>1, PriFacts DEF OwnerOK, WaiterOK
  <2>3. ASSUME TSTAT_DORMANT(R.tstat[x]) PROVE N.mutex_queue[x] = <<>>
    <3>0. TSTAT_DORMANT(S.tstat[x]) /\ M.mutex_queue[x] = <<>>
      BY <2>1, <2>3 DEF Later, OwnerOK
    <3>1. TSTAT_DORMANT(S.tstat[x]) /\ Mine(M, x) = {}
      BY <1>1, <3>0, MineFacts
    <3>2. x # u
      <4>1. S.tstat[x] = {}
        BY <3>1 DEF TSTAT_DORMANT, TS_DORMANT
      <4>2. u # NULL => "WAIT_MTX" \in S.tstat[u]
        BY <1>2 DEF WaiterOK, TSTAT_WAIT_MTX
      <4>3. x # NULL
        BY PriFacts
      <4> QED
        BY <4>1, <4>2, <4>3
    <3>3. N \in MtxState /\ Mine(N, x) = Mine(M, x) \ {m}
      BY <1>5, <3>2
    <3>4. Mine(N, x) = {}
      BY <3>1, <3>3
    <3> QED
      BY <3>3, <3>4, MineFacts
  <2>4. ASSUME x # t PROVE R.priority[x] = mutex_calc_priority(N, x)
    <3> DEFINE b == M.bpriority[x]
               C == Mine(M, x) \cap TA_CEILING
               D == Mine(N, x) \cap TA_CEILING
    <3>1. /\ b \in Pri /\ C \in SUBSET TA_CEILING
          /\ mutex_calc_priority(M, x) = Prio(b, C)
          /\ mutex_calc_priority(N, x) = Prio(b, D)
      BY <1>1, <1>5, MineFacts
    <3>2. S.priority[x] = Prio(b, C)
      BY <2>1, <2>4, <3>1 DEF OwnerOK
    <3>3. R.priority[x] = IF x = u /\ m \in TA_CEILING /\ ceilpri[m] < S.priority[x]
                          THEN ceilpri[m] ELSE S.priority[x]
      BY DEF Gives
    <3>4. m \notin Mine(M, x)
      BY <1>1, <2>4, MineFacts DEF ListsOK
    <3>5. CASE x = u /\ m \in TA_CEILING
      <4>1. D = C \cup {m}
        BY <1>5, <3>5
      <4> HIDE DEF b, C, D
      <4>2. Prio(b, D) = IF ceilpri[m] < Prio(b, C) THEN ceilpri[m] ELSE Prio(b, C)
        BY <3>1, <3>5, <4>1, PrioAdd
      <4> QED
        BY <3>1, <3>2, <3>3, <3>5, <4>2
    <3>6. CASE ~(x = u /\ m \in TA_CEILING)
      <4>1. D = C
        BY <1>5, <3>4, <3>6
      <4> HIDE DEF b, C, D
      <4> QED
        BY <3>1, <3>2, <3>3, <3>6, <4>1
    <3> QED
      BY <3>5, <3>6
  <2> QED
    BY <2>2, <2>3, <2>4 DEF OwnerOK
<1>8. Mine(N, t) = Mine(M, t) \ {m}
  BY <1>3, <1>5
<1> QED
  BY <1>3, <1>5, <1>6, <1>7, <1>8 DEF MtxBut

-----------------------------------------------------------------------------
(* mutex_release, seen from the kernel.                                    *)

WithPriority(S, t, p) == [S EXCEPT !.priority[t] = p]

(* The priority of a task whose wait is ending is set.                     *)
LEMMA SetPriority ==
  ASSUME NEW S, NEW X, BaseBut(S, X), NEW t \in X, NEW p \in Pri,
         NEW A, A = WithPriority(S, t, p)
  PROVE  /\ BaseBut(A, X) /\ Prepared(S, A)
         /\ A.waitq = S.waitq /\ A.tstat = S.tstat
         /\ A.priority = [S.priority EXCEPT ![t] = p]
<1>1. /\ S \in KernelState /\ Core(S) /\ Waits(S, X) /\ t \in Tasks
      /\ TSTAT_WAITING(S.tstat[t]) /\ S.tstat \in [Tasks -> TStat]
  BY DEF BaseBut, Core, Waits, WaitOK, KernelState
<1>2. t \notin Ready(S)
  BY <1>1, TStatFacts DEF BaseBut, RunnableOK
<1> DEFINE pr == [S.priority EXCEPT ![t] = p]
<1>3. pr \in [Tasks -> Pri] /\ \A u \in Tasks : u # t => pr[u] = S.priority[u]
  BY <1>1 DEF KernelState
<1>4. A = [S EXCEPT !.priority = pr]
  BY DEF WithPriority
<1> HIDE DEF pr
<1>5. /\ A \in KernelState /\ A.priority = pr
      /\ A.readyq = S.readyq /\ A.primap = S.primap /\ A.schedtsk = S.schedtsk
      /\ A.tstat = S.tstat /\ A.tmo = S.tmo /\ A.waitq = S.waitq
      /\ A.texfrm = S.texfrm /\ A.texlp = S.texlp /\ Frame(S, A)
  BY <1>1, <1>3, <1>4 DEF KernelState, Frame
<1>6. \A u \in Ready(S) : A.priority[u] = S.priority[u]
  BY <1>2, <1>3, <1>5 DEF Ready
<1>7. Core(A) /\ Ready(A) = Ready(S)
  BY <1>1, <1>5, <1>6, SameQueues
<1>8. \A w \in TA_TPRI : ~Linked(S.waitq[w], t)
  BY <1>1, OutOfQueues
<1>9. A.handlers = S.handlers
  BY <1>5 DEF Frame
<1>10. Waits(A, X)
  BY <1>1, <1>3, <1>5, <1>8, <1>9, WaitsPriority
<1>11. BaseBut(A, X)
  BY <1>5, <1>7, <1>10
  DEF BaseBut, RunnableOK, TimersOK, TexFramesOK, FlagsOK, Frame
<1> QED
  BY <1>5, <1>7, <1>11 DEF Prepared, pr

Completed(S, Y, r) ==
  /\ BaseBut(r.st, Y) /\ Frame(S, r.st) /\ Tells(S, r)
  /\ Ready(S) \subseteq Ready(r.st)
  /\ r.st.waitq = S.waitq /\ r.st.priority = S.priority

LEMMA Completes ==
  ASSUME NEW S, NEW X, BaseBut(S, X), NEW t \in X, NEW Y, Y = X \ {t},
         NEW r, r = wait_complete(S, t)
  PROVE  Completed(S, Y, r)
BY WaitComplete DEF Completed

(* The first task that waits for m, u, is taken out of the queue, gets the *)
(* priority p, and its wait ends.                                          *)
LEMMA Handed ==
  ASSUME NEW S, Base(S), NEW m \in WaitQueues, NEW u \in Tasks,
         Linked(S.waitq[m], u), NEW d, QueueOK(d, m, S.priority),
         TakenFrom(S.waitq[m], u, d), NEW p \in Pri,
         NEW U, U = WithWaitq(S, m, d), NEW A, A = WithPriority(U, u, p),
         NEW r, r = wait_complete(A, u)
  PROVE  /\ Readied(S, r)
         /\ r.st.waitq = [S.waitq EXCEPT ![m] = d]
         /\ r.st.priority = [S.priority EXCEPT ![u] = p]
         /\ \A x \in Tasks : Later(S.tstat[x], r.st.tstat[x])
<1> DEFINE N == {}
           X == N \cup {u}
<1>1. BaseBut(S, N) /\ u \in X /\ X \ {u} = N
  BY BaseIsBut DEF N
<1> HIDE DEF N
<1>2. UnlinkedFrom(S, N, m, u, d, U)
  BY <1>1, Unlink
<1>3. /\ BaseBut(U, X) /\ Ready(U) = Ready(S) /\ Alike(S, U)
      /\ U.waitq = [S.waitq EXCEPT ![m] = d]
  BY <1>2 DEF UnlinkedFrom
<1> HIDE DEF X
<1>4. /\ BaseBut(A, X) /\ Prepared(U, A)
      /\ A.waitq = U.waitq /\ A.tstat = U.tstat
      /\ A.priority = [U.priority EXCEPT ![u] = p]
  BY <1>1, <1>3, SetPriority
<1>5. Completed(A, N, r)
  BY <1>1, <1>4, Completes
<1>6. Base(r.st)
  BY <1>5, BaseIsBut DEF N, Completed
<1>7. Frame(S, r.st) /\ Tells(S, r) /\ Ready(S) \subseteq Ready(r.st)
  BY <1>3, <1>4, <1>5 DEF Alike, Prepared, Frame, Tells, Completed
<1>8. U.priority = S.priority /\ U.tstat = S.tstat
  BY <1>3 DEF Alike
<1>9. Fields(A) /\ A.tstat \in [Tasks -> TStat]
  BY <1>4 DEF BaseBut, Core, KernelState, Fields
<1> DEFINE D == wait_dequeue_tmevtb(A, u)
           e == "E_OK"
<1>10. r.st = make_non_wait([D EXCEPT !.wercd[u] = e], u).st /\ D \in {A, D}
  BY DEF wait_complete
<1>11. D = wait_dequeue_tmevtb(A, u)
  OBVIOUS
<1> HIDE DEF D, e
<1>12. Calm(A, r.st)
  BY <1>9, <1>10, <1>11, WaitEndsCalm
<1> QED
  BY <1>3, <1>4, <1>5, <1>6, <1>7, <1>8, <1>12
  DEF Readied, Calm, Completed

LEMMA Release ==
  ASSUME NEW S, Base(S), NEW m \in Mutexes, NEW r, r = mutex_release(S, m)
  PROVE  /\ Readied(S, r)
         /\ Gives(S, r.st, m, NextOwner(S, m))
         /\ Shrinks(S, r.st, WaitQueues)
<1> DEFINE u == NextOwner(S, m)
           q == S.waitq[m]
<1>1. /\ S.tstat \in [Tasks -> TStat] /\ S.priority \in [Tasks -> Pri]
      /\ S.waitq \in [WaitQueues -> Seq(Tasks)] /\ m \in WaitQueues
      /\ q \in Seq(Tasks) /\ QueueOK(q, m, S.priority)
  BY LinkedWaits, PriFacts DEF Base, Waits, QueuedOK
<1>2. CASE queue_empty(q)
  <2>1. u = NULL /\ r = [st |-> S, dsp |-> FALSE]
    BY <1>2 DEF mutex_release, NextOwner
  <2>2. \A y : ~Linked(q, y)
    BY <1>1, <1>2, QueueLinked DEF queue_empty
  <2>3. Readied(S, r)
    BY <2>1, ReadiedNone
  <2>4. \A x \in Tasks : x # NULL
    BY PriFacts
  <2> QED
    BY <2>1, <2>2, <2>3, <2>4, PriFacts DEF Gives, Shrinks, Later
<1>3. CASE ~queue_empty(q)
  <2> DEFINE d == queue_delete_next(q)
             U == WithWaitq(S, m, d)
             p == IF m \in TA_CEILING THEN Min({S.priority[u], ceilpri[m]})
                  ELSE S.priority[u]
             A == WithPriority(U, u, p)
  <2>1. u = Head(q)
    BY <1>3 DEF NextOwner
  <2>2. /\ u \in Tasks /\ Linked(q, u) /\ QueueOK(d, m, S.priority)
        /\ \A y : Linked(d, y) <=> Linked(q, y) /\ y # u
    <3> HIDE DEF u
    <3>1. d = queue_delete_next(q)
      OBVIOUS
    <3> HIDE DEF d, q
    <3> QED
      BY <1>1, <1>3, <2>1, <3>1, FirstWaiting
  <2>3. u # NULL
    BY <2>2, PriFacts
  <2>4. A = [S EXCEPT !.waitq[m] = queue_delete_next(@),
                      !.priority[u] = IF m \in TA_CEILING
                                      THEN Min({@, ceilpri[m]}) ELSE @]
    BY DEF WithWaitq, WithPriority
  <2>5. r = wait_complete(A, u)
    BY <2>3, <2>4 DEF mutex_release
  <2>6. /\ p \in Pri
        /\ p = IF m \in TA_CEILING /\ ceilpri[m] < S.priority[u]
               THEN ceilpri[m] ELSE S.priority[u]
    <3>1. CASE m \in TA_CEILING
      <4>1. S.priority[u] \in Nat /\ ceilpri[m] \in Nat
            /\ S.priority[u] \in Pri /\ ceilpri[m] \in Pri
        BY <1>1, <2>2, <3>1, PriFacts
      <4>2. Min({S.priority[u], ceilpri[m]}) =
              IF ceilpri[m] < S.priority[u] THEN ceilpri[m] ELSE S.priority[u]
        BY <4>1, MinOfTwo
      <4>3. p = Min({S.priority[u], ceilpri[m]})
        BY <3>1
      <4> HIDE DEF p
      <4> QED
        BY <3>1, <4>1, <4>2, <4>3
    <3>2. CASE m \notin TA_CEILING
      BY <1>1, <2>2, <3>2
    <3> QED
      BY <3>1, <3>2
  <2> HIDE DEF u, p, d
  <2>7. A = WithPriority(U, u, p) /\ U = WithWaitq(S, m, d)
    OBVIOUS
  <2> HIDE DEF A, U
  <2>8. TakenFrom(S.waitq[m], u, d)
    BY <2>2 DEF TakenFrom
  <2>9. /\ Readied(S, r)
        /\ r.st.waitq = [S.waitq EXCEPT ![m] = d]
        /\ r.st.priority = [S.priority EXCEPT ![u] = p]
        /\ \A x \in Tasks : Later(S.tstat[x], r.st.tstat[x])
    BY <1>1, <2>2, <2>5, <2>6, <2>7, <2>8, Handed
  <2> DEFINE R == r.st
  <2>10. /\ R.waitq = [S.waitq EXCEPT ![m] = d]
         /\ R.priority = [S.priority EXCEPT ![u] = p]
         /\ \A x \in Tasks : Later(S.tstat[x], R.tstat[x])
    BY <2>9
  <2> HIDE DEF R
  <2>11. \A w \in WaitQueues : R.waitq[w] = IF w = m THEN d ELSE S.waitq[w]
    BY <1>1, <2>10
  <2>12. \A w \in WaitQueues : \A y : Linked(R.waitq[w], y) =>
           Linked(S.waitq[w], y) /\ (w = m => y # u)
    BY <2>2, <2>11
  <2>13. \A x \in Tasks :
           R.priority[x] = IF x = u /\ m \in TA_CEILING /\ ceilpri[m] < S.priority[x]
                           THEN ceilpri[m] ELSE S.priority[x]
    BY <1>1, <2>6, <2>10
  <2>14. Gives(S, R, m, u)
    BY <2>2, <2>3, <2>10, <2>12, <2>13, PriFacts DEF Gives
  <2>15. Shrinks(S, R, WaitQueues)
    BY <2>12 DEF Shrinks
  <2> QED
    BY <2>9, <2>14, <2>15 DEF R, u
<1> QED
  BY <1>2, <1>3

-----------------------------------------------------------------------------
(* init_wait_queue.                                                        *)
LEMMA ReleaseFirstCalm ==
  ASSUME NEW S, Base(S), NEW w \in WaitQueues, ~queue_empty(S.waitq[w]),
         NEW R, R = release_first(S, w).st
  PROVE  Calm(S, R)
<1> DEFINE t == Head(S.waitq[w])
           U == [S EXCEPT !.waitq[w] = queue_delete_next(@)]
           D == wait_dequeue_tmevtb(U, t)
           e == "E_DLT"
<1>1. /\ S.tstat \in [Tasks -> TStat] /\ Fields(S)
      /\ S.waitq \in [WaitQueues -> Seq(Tasks)]
  BY LinkedWaits
<1>2. t \in Tasks
  BY <1>1, QueueLinked DEF queue_empty
<1>3. R = make_non_wait([D EXCEPT !.wercd[t] = e], t).st
  BY DEF release_first
<1>4. Fields(U) /\ U.tstat = S.tstat /\ U.priority = S.priority
  BY <1>1 DEF Fields
<1>5. D \in {U, wait_dequeue_tmevtb(U, t)}
  OBVIOUS
<1> HIDE DEF t, U, D, e
<1>6. Calm(U, R)
  BY <1>1, <1>2, <1>3, <1>4, <1>5, WaitEndsCalm
<1> QED
  BY <1>4, <1>6 DEF Calm

LEMMA ReleaseCalm ==
  ASSUME NEW S, Base(S), NEW w \in WaitQueues, NEW r, r = init_wait_queue(S, w),
         NEW q, q = <<>>
  PROVE  /\ Readied(S, r) /\ Calm(S, r.st)
         /\ r.st.waitq = [S.waitq EXCEPT ![w] = q]
<1>1. Taken(S, w, q, r)
  BY ReleaseRounds
<1>2. PICK n, done : Rounds(S, w, n, done)
  BY ReleaseRounds
<1> DEFINE A == {i \in Nat : i <= n => Calm(S, done[i].st)}
<1>3. 0 \in A
  <2>1. done[0].st = S
    BY <1>2 DEF Rounds
  <2>2. Calm(S, S)
    BY LinkedWaits, StillCalm DEF Still
  <2> QED
    BY <2>1, <2>2
<1>4. ASSUME NEW i \in Nat, i + 1 <= n, Calm(S, done[i].st)
      PROVE  Calm(S, done[i + 1].st)
  <2> DEFINE D == done[i].st
             b == release_first(D, w)
  <2>1. /\ done[i + 1] = [st |-> b.st, dsp |-> done[i].dsp \/ b.dsp]
        /\ Base(D) /\ ~queue_empty(D.waitq[w])
    <3>1. i + 1 \in 1 .. n /\ (i + 1) - 1 = i
      BY <1>2, <1>4 DEF Rounds
    <3> QED
      BY <1>2, <3>1 DEF Rounds
  <2>2. done[i + 1].st = release_first(D, w).st
    BY <2>1
  <2> HIDE DEF b
  <2>3. Calm(S, D)
    BY <1>4
  <2> HIDE DEF D
  <2>4. Calm(D, done[i + 1].st)
    BY <2>1, <2>2, ReleaseFirstCalm
  <2> QED
    BY <2>3, <2>4, CalmTrans
<1>5. Nat \subseteq A
  <2>1. \A i \in Nat : i \in A => i + 1 \in A
    <3>1. n \in Nat
      BY <1>2 DEF Rounds
    <3> QED
      BY <1>4, <3>1
  <2> HIDE DEF A
  <2> QED
    BY <1>3, <2>1, SetInduction
<1>6. n \in Nat /\ done[n] = r
  BY <1>2 DEF Rounds
<1>7. Calm(S, r.st)
  BY <1>5, <1>6
<1> QED
  BY <1>1, <1>7 DEF Taken

-----------------------------------------------------------------------------
(* The priority of a task that unlocks a mutex, or locks one.              *)

LEMMA DropPriority ==
  ASSUME NEW S, Base(S), NEW M \in MtxState, NEW N \in MtxState,
         NEW t \in Tasks, NEW m \in Mutexes, N.bpriority = M.bpriority,
         Mine(N, t) = Mine(M, t) \ {m},
         S.priority[t] = mutex_calc_priority(M, t),
         NEW p, p = mutex_calc_priority(N, t), NEW r, r = Drop(S, N, m, t)
  PROVE  Reprio(S, t, p, r)
<1> DEFINE b == M.bpriority[t]
           C == Mine(M, t) \cap TA_CEILING
           D == Mine(N, t) \cap TA_CEILING
<1>1. /\ b \in Pri /\ C \in SUBSET TA_CEILING /\ D \in SUBSET TA_CEILING
      /\ D = C \ {m} /\ S.priority[t] = Prio(b, C) /\ p = Prio(b, D)
  BY MineFacts
<1> HIDE DEF b, C, D
<1>2. p \in Pri
  BY <1>1, PrioBounds
<1>3. CASE m \in TA_CEILING /\ ceilpri[m] = S.priority[t] /\ p # S.priority[t]
  <2>1. r = change_priority_mtx(S, t, p)
    BY <1>3 DEF Drop, mutex_drop_priority
  <2> QED
    BY <1>2, <2>1, ChangePriorityMtx
<1>4. CASE ~(m \in TA_CEILING /\ ceilpri[m] = S.priority[t] /\ p # S.priority[t])
  <2>1. r = [st |-> S, dsp |-> FALSE]
    BY <1>4 DEF Drop, mutex_drop_priority
  <2>2. S.priority[t] = p
    <3>1. CASE m \in TA_CEILING => ceilpri[m] # Prio(b, C)
      BY <1>1, <3>1, PrioDrop
    <3>2. CASE ~(m \in TA_CEILING => ceilpri[m] # Prio(b, C))
      BY <1>1, <1>4, <3>2
    <3> QED
      BY <3>1, <3>2
  <2> QED
    BY <2>1, <2>2, NotReprio
<1> QED
  BY <1>3, <1>4

LEMMA Acquire ==
  ASSUME NEW S, Base(S), NEW M \in MtxState, NEW N \in MtxState,
         NEW t \in Tasks, NEW m \in Mutexes, N.bpriority = M.bpriority,
         Mine(N, t) = Mine(M, t) \cup {m},
         S.priority[t] = mutex_calc_priority(M, t),
         NEW p, p = mutex_calc_priority(N, t), NEW r, r = mutex_acquire(S, t, m)
  PROVE  /\ Reprio(S, t, p, r)
         /\ TSTAT_RUNNABLE(S.tstat[t]) /\ (S.dspflg => S.schedtsk = t) => ~r.dsp
<1> DEFINE b == M.bpriority[t]
           C == Mine(M, t) \cap TA_CEILING
           D == Mine(N, t) \cap TA_CEILING
<1>0. /\ m \in TA_CEILING => D = C \cup {m}
      /\ m \notin TA_CEILING => D = C
  OBVIOUS
<1>1. /\ b \in Pri /\ C \in SUBSET TA_CEILING /\ D \in SUBSET TA_CEILING
      /\ S.priority[t] = Prio(b, C) /\ p = Prio(b, D)
  BY MineFacts
<1> HIDE DEF b, C, D
<1>2. p \in Pri /\ S.priority[t] \in Pri
  BY <1>1, PrioBounds
<1>3. p = IF m \in TA_CEILING /\ ceilpri[m] < S.priority[t]
          THEN ceilpri[m] ELSE S.priority[t]
  <2>1. CASE m \in TA_CEILING
    BY <1>0, <1>1, <2>1, PrioAdd
  <2>2. CASE m \notin TA_CEILING
    BY <1>0, <1>1, <2>2
  <2> QED
    BY <2>1, <2>2
<1>4. CASE m \in TA_CEILING /\ ceilpri[m] < S.priority[t]
  <2>1. r = change_priority_mtx(S, t, p) /\ p < S.priority[t]
    BY <1>3, <1>4 DEF mutex_acquire, mutex_raise_priority
  <2>2. Reprio(S, t, p, r)
    BY <1>2, <2>1, ChangePriorityMtx
  <2>3. ASSUME TSTAT_RUNNABLE(S.tstat[t]), S.dspflg => S.schedtsk = t, r.dsp
        PROVE  FALSE
    <3>1. S.schedtsk = t
      BY <2>2, <2>3 DEF Reprio, Tells
    <3>2. ~(p >= S.priority[t])
      <4> DEFINE s == S.priority[t]
      <4>1. p \in Nat /\ s \in Nat /\ p < s
        BY <1>2, <2>1, PriFacts
      <4> HIDE DEF s
      <4>2. ~(p >= s)
        BY ONLY <4>1
      <4> QED
        BY <4>2 DEF s
    <3>3. r = change_ready_priority_mtx(S, t, p)
      BY <2>1, <2>3 DEF change_priority_mtx
    <3> QED
      BY <2>3, <3>1, <3>2, <3>3 DEF change_ready_priority_mtx
  <2> QED
    BY <2>2, <2>3
<1>5. CASE ~(m \in TA_CEILING /\ ceilpri[m] < S.priority[t])
  <2>1. r = [st |-> S, dsp |-> FALSE] /\ S.priority[t] = p
    BY <1>3, <1>5 DEF mutex_acquire, mutex_raise_priority
  <2> QED
    BY <2>1, NotReprio
<1> QED
  BY <1>4, <1>5

-----------------------------------------------------------------------------
(* A task that is ended gives up its mutexes when it is in no queue any    *)
(* more, and its state, that make_dormant is to set, is what it was.  All  *)
(* that is done meanwhile is the same as if the task were in another state.*)

(* S with t in the state ts.                                               *)
Marked(S, t, ts) == [S EXCEPT !.tstat[t] = ts]

MarkedToo(r, t, ts, a) == a = [st |-> Marked(r.st, t, ts), dsp |-> r.dsp]

Full(S) ==
  {"tstat", "priority", "readyq", "primap", "schedtsk", "dspflg", "waitq",
   "tmo", "wercd"} \subseteq DOMAIN S

(* All but the state of t is the same.                                     *)
SameButTstat(S, A) ==
  /\ Full(A)
  /\ A.priority = S.priority /\ A.readyq = S.readyq
  /\ A.primap = S.primap /\ A.schedtsk = S.schedtsk
  /\ A.dspflg = S.dspflg /\ A.waitq = S.waitq
  /\ A.tmo = S.tmo /\ A.wercd = S.wercd

LEMMA MarkedFields ==
  ASSUME NEW S, Full(S), NEW t, NEW ts
  PROVE  SameButTstat(S, Marked(S, t, ts))
BY DEF Full, Marked, SameButTstat

LEMMA MarkedEnready ==
  ASSUME NEW S, Full(S), NEW t, NEW ts, NEW u
  PROVE  /\ Enready(Marked(S, t, ts), u) = Marked(Enready(S, u), t, ts)
         /\ Full(Enready(S, u)) /\ Enready(S, u).schedtsk = S.schedtsk
         /\ Unready(Marked(S, t, ts), u) = Marked(Unready(S, u), t, ts)
         /\ Full(Unready(S, u)) /\ Unready(S, u).schedtsk = S.schedtsk
<1> DEFINE f == [S.tstat EXCEPT ![t] = ts]
           p == S.priority[u]
           A == Marked(S, t, ts)
<1>0. A = Marked(S, t, ts) /\ A = [S EXCEPT !.tstat = f]
  BY DEF Marked
<1>1. /\ A.priority = S.priority /\ A.readyq = S.readyq /\ A.primap = S.primap
  <2> HIDE DEF A
  <2> QED
    BY <1>0, MarkedFields DEF SameButTstat
<1>2. A = [S EXCEPT !.tstat = f]
  BY <1>0
<1>3. /\ Enready(A, u) = Marked(Enready(S, u), t, ts)
      /\ Full(Enready(S, u)) /\ Enready(S, u).schedtsk = S.schedtsk
  <2> DEFINE g == [S.readyq EXCEPT ![p] = queue_insert_prev(@, u)]
             h == S.primap \cup {p}
  <2>1. Enready(S, u) = [S EXCEPT !.readyq = g, !.primap = h]
    BY DEF Enready
  <2>2. Enready(A, u) = [A EXCEPT !.readyq = g, !.primap = h]
    BY <1>1 DEF Enready
  <2> HIDE DEF g, h
  <2> DEFINE R == Enready(S, u)
  <2>3. R.tstat = S.tstat
    BY <2>1 DEF Full
  <2>4. Marked(R, t, ts) = [R EXCEPT !.tstat = f]
    BY <2>3 DEF Marked
  <2>5. Full(R) /\ R.schedtsk = S.schedtsk
    BY <2>1 DEF Full
  <2> HIDE DEF f
  <2>6. [A EXCEPT !.readyq = g, !.primap = h] = [R EXCEPT !.tstat = f]
    BY <1>2, <2>1
  <2> QED
    BY <2>2, <2>4, <2>5, <2>6
<1>4. /\ Unready(A, u) = Marked(Unready(S, u), t, ts)
      /\ Full(Unready(S, u)) /\ Unready(S, u).schedtsk = S.schedtsk
  <2> DEFINE q == queue_delete(S.readyq[p], u)
             g == [S.readyq EXCEPT ![p] = q]
             h == IF queue_empty(q) THEN S.primap \ {p} ELSE S.primap
  <2>1. Unready(S, u) = [S EXCEPT !.readyq = g, !.primap = h]
    BY DEF Unready
  <2>2. Unready(A, u) = [A EXCEPT !.readyq = g, !.primap = h]
    BY <1>1 DEF Unready
  <2> HIDE DEF g, h
  <2> DEFINE R == Unready(S, u)
  <2>3. R.tstat = S.tstat
    BY <2>1 DEF Full
  <2>4. Marked(R, t, ts) = [R EXCEPT !.tstat = f]
    BY <2>3 DEF Marked
  <2>5. Full(R) /\ R.schedtsk = S.schedtsk
    BY <2>1 DEF Full
  <2> HIDE DEF f
  <2>6. [A EXCEPT !.readyq = g, !.primap = h] = [R EXCEPT !.tstat = f]
    BY <1>2, <2>1
  <2> QED
    BY <2>2, <2>4, <2>5, <2>6
<1> QED
  BY <1>3, <1>4

(* p_schedtsk is set.                                                      *)
WithSched(S, x) == [S EXCEPT !.schedtsk = x]

LEMMA MarkedSched ==
  ASSUME NEW S, Full(S), NEW t, NEW ts, NEW x
  PROVE  WithSched(Marked(S, t, ts), x) = Marked(WithSched(S, x), t, ts)
<1> DEFINE f == [S.tstat EXCEPT ![t] = ts]
<1>1. Marked(WithSched(S, x), t, ts) = [[S EXCEPT !.schedtsk = x] EXCEPT !.tstat = f]
  BY DEF Marked, Full, WithSched
<1>2. WithSched(Marked(S, t, ts), x) = [[S EXCEPT !.tstat = f] EXCEPT !.schedtsk = x]
  BY DEF Marked, WithSched
<1> HIDE DEF f
<1> QED
  BY <1>1, <1>2

LEMMA MarkedRunnable ==
  ASSUME NEW S, Full(S), NEW t, NEW ts, NEW u
  PROVE  MarkedToo(make_runnable(S, u), t, ts, make_runnable(Marked(S, t, ts), u))
<1> DEFINE A == Marked(S, t, ts)
           Q == Enready(S, u)
           B == Enready(A, u)
           c == S.schedtsk = NULL \/ S.priority[u] < S.priority[S.schedtsk]
<1>1. SameButTstat(S, A) /\ Full(Q) /\ B = Marked(Q, t, ts)
  BY MarkedFields, MarkedEnready
<1>2. WithSched(B, u) = Marked(WithSched(Q, u), t, ts)
  BY <1>1, MarkedSched
<1> HIDE DEF A
<1>3. make_runnable(S, u) =
        IF c
        THEN [st |-> WithSched(Q, u), dsp |-> S.dspflg]
        ELSE [st |-> Q, dsp |-> FALSE]
  BY DEF make_runnable, WithSched
<1>4. make_runnable(A, u) =
        IF c
        THEN [st |-> WithSched(B, u), dsp |-> S.dspflg]
        ELSE [st |-> B, dsp |-> FALSE]
  BY <1>1 DEF make_runnable, WithSched, SameButTstat
<1> HIDE DEF Q, B, c
<1>5. MarkedToo(make_runnable(S, u), t, ts, make_runnable(A, u))
  <2>1. CASE c
    BY <1>2, <1>3, <1>4, <2>1 DEF MarkedToo
  <2>2. CASE ~c
    BY <1>1, <1>3, <1>4, <2>2 DEF MarkedToo
  <2> QED
    BY <2>1, <2>2
<1> QED
  BY <1>5 DEF A

LEMMA MarkedNonRunnable ==
  ASSUME NEW S, Full(S), NEW t, NEW ts, NEW u
  PROVE  MarkedToo(make_non_runnable(S, u), t, ts,
                   make_non_runnable(Marked(S, t, ts), u))
<1> DEFINE A == Marked(S, t, ts)
           Q == Unready(S, u)
           B == Unready(A, u)
           N(R) == IF ~queue_empty(R.readyq[S.priority[u]])
                   THEN Head(R.readyq[S.priority[u]])
                   ELSE IF R.primap = {} THEN NULL ELSE search_schedtsk(R)
           n == N(Q)
<1>1. SameButTstat(S, A) /\ Full(Q) /\ B = Marked(Q, t, ts) /\ SameButTstat(Q, B)
  BY MarkedFields, MarkedEnready
<1>2. WithSched(B, n) = Marked(WithSched(Q, n), t, ts)
  BY <1>1, MarkedSched
<1> HIDE DEF A
<1>3. make_non_runnable(S, u) =
        IF S.schedtsk = u
        THEN [st |-> WithSched(Q, N(Q)), dsp |-> S.dspflg]
        ELSE [st |-> Q, dsp |-> FALSE]
  BY DEF make_non_runnable, WithSched
<1>4. make_non_runnable(A, u) =
        IF S.schedtsk = u
        THEN [st |-> WithSched(B, N(B)), dsp |-> S.dspflg]
        ELSE [st |-> B, dsp |-> FALSE]
  BY <1>1 DEF make_non_runnable, WithSched, SameButTstat
<1> HIDE DEF Q, B
<1>5. N(B) = N(Q)
  <2>1. search_schedtsk(B) = search_schedtsk(Q)
    BY <1>1 DEF search_schedtsk, primap_search, SameButTstat
  <2> QED
    BY <1>1, <2>1 DEF SameButTstat
<1>6. N(B) = n /\ N(Q) = n
  BY <1>5
<1> HIDE DEF n, N
<1>7. MarkedToo(make_non_runnable(S, u), t, ts, make_non_runnable(A, u))
  <2>1. CASE S.schedtsk = u
    BY <1>2, <1>3, <1>4, <1>6, <2>1 DEF MarkedToo
  <2>2. CASE S.schedtsk # u
    BY <1>1, <1>3, <1>4, <2>2 DEF MarkedToo
  <2> QED
    BY <2>1, <2>2
<1> QED
  BY <1>7 DEF A

(* The states of two tasks are set.                                        *)
LEMMA MarkedSwap ==
  ASSUME NEW S, Full(S), NEW t, NEW ts, NEW u, NEW us, u # t
  PROVE  Marked(Marked(S, t, ts), u, us) = Marked(Marked(S, u, us), t, ts)
<1> DEFINE f == [S.tstat EXCEPT ![t] = ts]
           g == [S.tstat EXCEPT ![u] = us]
           h == [f EXCEPT ![u] = us]
           i == [g EXCEPT ![t] = ts]
           A == [S EXCEPT !.tstat = f]
           B == [S EXCEPT !.tstat = g]
<1>1. A = Marked(S, t, ts) /\ B = Marked(S, u, us)
  BY DEF Marked
<1>2. A.tstat = f /\ B.tstat = g
  BY DEF Full
<1>3. h = i
  OBVIOUS
<1>4. Marked(A, u, us) = [A EXCEPT !.tstat = h] /\ Marked(B, t, ts) = [B EXCEPT !.tstat = i]
  BY <1>2 DEF Marked
<1> HIDE DEF f, g, h, i
<1>5. [A EXCEPT !.tstat = h] = [S EXCEPT !.tstat = h]
  OBVIOUS
<1>6. [B EXCEPT !.tstat = i] = [S EXCEPT !.tstat = i]
  OBVIOUS
<1> HIDE DEF A, B
<1> QED
  BY <1>1, <1>3, <1>4, <1>5, <1>6

LEMMA MarkedState ==
  ASSUME NEW S, Full(S), NEW t, NEW ts
  PROVE  /\ Full(Marked(S, t, ts))
         /\ \A u : u # t => Marked(S, t, ts).tstat[u] = S.tstat[u]
BY DEF Full, Marked

LEMMA MarkedNonWait ==
  ASSUME NEW S, Full(S), NEW t, NEW ts, NEW u, u \in DOMAIN S.tstat, u # t
  PROVE  MarkedToo(make_non_wait(S, u), t, ts, make_non_wait(Marked(S, t, ts), u))
<1> DEFINE A == Marked(S, t, ts)
           Q == Marked(S, u, TS_RUNNABLE)
           B == Marked(A, u, TS_RUNNABLE)
           P == Marked(S, u, TS_SUSPENDED)
           C == Marked(A, u, TS_SUSPENDED)
           c == TSTAT_SUSPENDED(S.tstat[u])
<1>1. /\ B = Marked(Q, t, ts) /\ C = Marked(P, t, ts) /\ Full(Q)
      /\ A.tstat[u] = S.tstat[u]
  <2> DEFINE run == TS_RUNNABLE
             sus == TS_SUSPENDED
  <2> HIDE DEF run, sus
  <2>1. B = Marked(Q, t, ts)
    <3>1. Marked(Marked(S, t, ts), u, run) = Marked(Marked(S, u, run), t, ts)
      BY MarkedSwap
    <3> QED
      BY <3>1 DEF run
  <2>2. C = Marked(P, t, ts)
    <3>1. Marked(Marked(S, t, ts), u, sus) = Marked(Marked(S, u, sus), t, ts)
      BY MarkedSwap
    <3> QED
      BY <3>1 DEF sus
  <2>3. Full(Q)
    BY MarkedState
  <2>4. A.tstat[u] = S.tstat[u]
    BY MarkedState
  <2> HIDE DEF A, B, C, P, Q
  <2> QED
    BY <2>1, <2>2, <2>3, <2>4
<1>2. MarkedToo(make_runnable(Q, u), t, ts, make_runnable(B, u))
  BY <1>1, MarkedRunnable
<1> HIDE DEF A
<1>3. /\ make_non_wait(S, u) = IF ~c THEN make_runnable(Q, u)
                               ELSE [st |-> P, dsp |-> FALSE]
      /\ make_non_wait(A, u) = IF ~c THEN make_runnable(B, u)
                               ELSE [st |-> C, dsp |-> FALSE]
  BY <1>1 DEF make_non_wait, Marked
<1> HIDE DEF Q, B, P, C, c
<1>4. MarkedToo(make_non_wait(S, u), t, ts, make_non_wait(A, u))
  <2>1. CASE c
    BY <1>1, <1>3, <2>1 DEF MarkedToo
  <2>2. CASE ~c
    BY <1>2, <1>3, <2>2
  <2> QED
    BY <2>1, <2>2
<1> QED
  BY <1>4 DEF A

(* What else mutex_release sets of u, before its wait ends.                *)
Given(S, a, b, c, d) ==
  [S EXCEPT !.waitq = a, !.priority = b, !.tmo = c, !.wercd = d]

LEMMA MarkedGiven ==
  ASSUME NEW S, Full(S), NEW t, NEW ts, NEW a, NEW b, NEW c, NEW d
  PROVE  /\ Given(Marked(S, t, ts), a, b, c, d) = Marked(Given(S, a, b, c, d), t, ts)
         /\ Full(Given(S, a, b, c, d)) /\ Given(S, a, b, c, d).tstat = S.tstat
<1> DEFINE f == [S.tstat EXCEPT ![t] = ts]
           G == Given(S, a, b, c, d)
<1>1. Full(G) /\ G.tstat = S.tstat
  BY DEF Given, Full
<1>2. Marked(G, t, ts) = [G EXCEPT !.tstat = f] /\ Marked(S, t, ts) = [S EXCEPT !.tstat = f]
  BY <1>1 DEF Marked
<1> HIDE DEF f
<1>3. [G EXCEPT !.tstat = f] = Given([S EXCEPT !.tstat = f], a, b, c, d)
  BY DEF Given
<1> QED
  BY <1>1, <1>2, <1>3

LEMMA MarkedRelease ==
  ASSUME NEW S, Full(S), NEW t, NEW ts, NEW m, NextOwner(S, m) # t,
         NextOwner(S, m) = NULL \/ NextOwner(S, m) \in DOMAIN S.tstat
  PROVE  /\ MarkedToo(mutex_release(S, m), t, ts,
                      mutex_release(Marked(S, t, ts), m))
         /\ NextOwner(Marked(S, t, ts), m) = NextOwner(S, m)
<1> DEFINE A == Marked(S, t, ts)
           u == NextOwner(S, m)
           a == [S.waitq EXCEPT ![m] = queue_delete_next(@)]
           b == [S.priority EXCEPT ![u] = IF m \in TA_CEILING
                                          THEN Min({@, ceilpri[m]}) ELSE @]
           c == [S.tmo EXCEPT ![u] = -1]
           d == [S.wercd EXCEPT ![u] = "E_OK"]
           G == Given(S, a, b, c, d)
           H == Given(A, a, b, c, d)
           r == [st |-> S, dsp |-> FALSE]
           q == [st |-> A, dsp |-> FALSE]
<1>1. SameButTstat(S, A)
  BY MarkedFields
<1>2. H = Marked(G, t, ts) /\ Full(G) /\ G.tstat = S.tstat
  BY MarkedGiven
<1> HIDE DEF A
<1>3. NextOwner(A, m) = u
  BY <1>1 DEF NextOwner, SameButTstat
<1>4. mutex_release(S, m) = IF u = NULL THEN r ELSE make_non_wait(G, u)
  BY DEF mutex_release, wait_complete, wait_dequeue_tmevtb, Given, Full
<1>5. mutex_release(A, m) = IF u = NULL THEN q ELSE make_non_wait(H, u)
  BY <1>1, <1>3 DEF mutex_release, wait_complete, wait_dequeue_tmevtb, Given, Full, SameButTstat
<1>6. MarkedToo(mutex_release(S, m), t, ts, mutex_release(A, m))
  <2>1. CASE u = NULL
    BY <1>4, <1>5, <2>1 DEF MarkedToo, A
  <2>2. CASE u # NULL
    <3>1. u \in DOMAIN G.tstat /\ u # t
      BY <1>2, <2>2
    <3> HIDE DEF u, G, H
    <3>2. MarkedToo(make_non_wait(G, u), t, ts, make_non_wait(Marked(G, t, ts), u))
      BY <1>2, <3>1, MarkedNonWait
    <3> QED
      BY <1>2, <1>4, <1>5, <2>2, <3>2
  <2> QED
    BY <2>1, <2>2
<1> QED
  BY <1>3, <1>6 DEF A

(* The state of t is set again.                                            *)
LEMMA MarkedAgain ==
  ASSUME NEW S, Full(S), NEW t, NEW ts, NEW us
  PROVE  /\ Marked(Marked(S, t, ts), t, us) = Marked(S, t, us)
         /\ S \in KernelState /\ t \in Tasks /\ us = S.tstat[t] => Marked(S, t, us) = S
<1> DEFINE f == [S.tstat EXCEPT ![t] = ts]
           g == [S.tstat EXCEPT ![t] = us]
           h == [f EXCEPT ![t] = us]
           A == [S EXCEPT !.tstat = f]
<1>1. A = Marked(S, t, ts) /\ Marked(S, t, us) = [S EXCEPT !.tstat = g]
  BY DEF Marked
<1>2. A.tstat = f
  BY DEF Full
<1>3. Marked(A, t, us) = [A EXCEPT !.tstat = h]
  BY <1>2 DEF Marked
<1>4. h = g
  OBVIOUS
<1> HIDE DEF f, g, h
<1>5. [A EXCEPT !.tstat = h] = [S EXCEPT !.tstat = h]
  OBVIOUS
<1>6. ASSUME g = S.tstat, S \in KernelState PROVE [S EXCEPT !.tstat = g] = S
  BY <1>6 DEF KernelState
<1>7. S \in KernelState /\ t \in Tasks /\ us = S.tstat[t] => g = S.tstat
  BY DEF g, KernelState
<1> HIDE DEF A
<1> QED
  BY <1>1, <1>3, <1>4, <1>5, <1>6, <1>7

LEMMA MarkedDormant ==
  ASSUME NEW S, Full(S), NEW t, NEW ts,
         {"wupque", "enatex", "texptn", "texfrm", "texlp"} \subseteq DOMAIN S
  PROVE  make_dormant(Marked(S, t, ts), t) = make_dormant(S, t)
<1> DEFINE f == [S.tstat EXCEPT ![t] = ts]
           A == [S EXCEPT !.tstat = f]
           g == [S.tstat EXCEPT ![t] = TS_DORMANT]
           p == [S.priority EXCEPT ![t] = ipriority[t]]
           a == [S.wupque EXCEPT ![t] = FALSE]
           b == [S.enatex EXCEPT ![t] = FALSE]
           c == [S.texptn EXCEPT ![t] = FALSE]
           d == [S.texfrm EXCEPT ![t] = <<>>]
           e == [S.texlp EXCEPT ![t] = FALSE]
<1>1. A = Marked(S, t, ts)
  BY DEF Marked
<1>2. A.tstat = f /\ A.priority = S.priority /\ A.wupque = S.wupque
  BY DEF Full
<1>3. /\ A.enatex = S.enatex /\ A.texptn = S.texptn
      /\ A.texfrm = S.texfrm /\ A.texlp = S.texlp
  BY DEF Full
<1>4. [f EXCEPT ![t] = TS_DORMANT] = g
  OBVIOUS
<1> HIDE DEF A
<1>5. make_dormant(S, t) = [S EXCEPT !.tstat = g, !.priority = p, !.wupque = a,
                              !.enatex = b, !.texptn = c, !.texfrm = d, !.texlp = e]
  BY DEF make_dormant
<1>6. make_dormant(A, t) = [A EXCEPT !.tstat = g, !.priority = p, !.wupque = a,
                              !.enatex = b, !.texptn = c, !.texfrm = d, !.texlp = e]
  BY <1>2, <1>3, <1>4 DEF make_dormant
<1> HIDE DEF f, g, p, a, b, c, d, e
<1>7. [A EXCEPT !.tstat = g, !.priority = p, !.wupque = a,
                !.enatex = b, !.texptn = c, !.texfrm = d, !.texlp = e]
      = [S EXCEPT !.tstat = g, !.priority = p, !.wupque = a,
                  !.enatex = b, !.texptn = c, !.texfrm = d, !.texlp = e]
  BY DEF A
<1> QED
  BY <1>1, <1>5, <1>6, <1>7

-----------------------------------------------------------------------------
(* mutex_release_all.                                                      *)

LEMMA ReleaseAllLoop ==
  ASSUME NEW S, NEW M, NEW t, NEW N \in Nat, N = Len(M.mutex_queue[t])
  PROVE  \E done :
           /\ done[0] = [st |-> [k |-> S, mtx |-> M], dsp |-> FALSE]
           /\ done[N] = mutex_release_all(S, M, t)
           /\ \A i \in 1 .. N :
                LET r == release_next(done[i - 1].st, t)
                IN done[i] = [st |-> r.st, dsp |-> done[i - 1].dsp \/ r.dsp]
<1> DEFINE P == [k |-> S, mtx |-> M]
           Body(R, i) == release_next(R, t)
           Round(g, i) == IF i = 0 THEN [st |-> P, dsp |-> FALSE]
                         ELSE LET r == Body(g[i - 1].st, i)
                              IN [st |-> r.st, dsp |-> g[i - 1].dsp \/ r.dsp]
           F(g) == [i \in 0 .. N |-> Round(g, i)]
           Good(m, g) == \A i \in 0 .. m : g[i] = Round(g, i)
           A == {m \in Nat : m <= N => \E g : Good(m, g)}
           h == CHOOSE x : x = F(x)
<1>1. mutex_release_all(S, M, t) = h[N]
  BY DEF mutex_release_all, Repeat
<1> HIDE DEF P
<1>2. 0 \in A
  <2>1. Good(0, [i \in {0} |-> [st |-> P, dsp |-> FALSE]])
    OBVIOUS
  <2> HIDE DEF Good
  <2> QED
    BY <2>1
<1>3. ASSUME NEW m \in Nat, m \in A, m + 1 <= N
      PROVE  \E g : Good(m + 1, g)
  <2>1. PICK g : Good(m, g)
    <3>1. m <= N
      BY <1>3
    <3> HIDE DEF Good
    <3> QED
      BY <1>3, <3>1
  <2> DEFINE e == [j \in 0 .. m + 1 |-> IF j = m + 1 THEN Round(g, j) ELSE g[j]]
  <2>2. \A j \in 0 .. m + 1 : Round(e, j) = Round(g, j)
    <3>1. \A j \in 0 .. m + 1 : j = 0 \/ j - 1 \in 0 .. m
      OBVIOUS
    <3>2. \A j \in 0 .. m : e[j] = g[j]
      OBVIOUS
    <3> HIDE DEF e, Body
    <3> QED
      BY <3>1, <3>2
  <2> HIDE DEF Round
  <2>3. \A j \in 0 .. m + 1 : e[j] = Round(g, j)
    <3>1. \A j \in 0 .. m + 1 : j = m + 1 \/ j \in 0 .. m
      OBVIOUS
    <3>2. \A j \in 0 .. m : g[j] = Round(g, j)
      BY <2>1
    <3> QED
      BY <3>1, <3>2
  <2> HIDE DEF e
  <2>4. Good(m + 1, e)
    BY <2>2, <2>3
  <2> HIDE DEF Good
  <2> QED
    BY <2>4
<1>4. Nat \subseteq A
  <2>1. \A m \in Nat : m \in A => m + 1 \in A
    <3> HIDE DEF Good
    <3> QED
      BY <1>3
  <2> HIDE DEF A
  <2> QED
    BY <1>2, <2>1, SetInduction
<1>5. PICK g : Good(N, g)
  <2>1. N \in A
    BY <1>4
  <2> HIDE DEF Good
  <2> QED
    BY <2>1
<1>6. h = F(h)
  <2> DEFINE e == [i \in 0 .. N |-> g[i]]
  <2>1. \A i \in 0 .. N : Round(e, i) = Round(g, i)
    <3>1. \A j \in 0 .. N : j = 0 \/ j - 1 \in 0 .. N
      OBVIOUS
    <3>2. \A j \in 0 .. N : e[j] = g[j]
      OBVIOUS
    <3> HIDE DEF e, Body
    <3> QED
      BY <3>1, <3>2
  <2> HIDE DEF Round
  <2>2. e = F(e)
    BY <1>5, <2>1
  <2> HIDE DEF e, F
  <2> QED
    BY <2>2
<1> HIDE DEF h
<1>7. \A i \in 0 .. N : h[i] = Round(h, i)
  <2> HIDE DEF Round
  <2> QED
    BY <1>6
<1>8. h[0] = [st |-> P, dsp |-> FALSE]
  <2>1. 0 \in 0 .. N
    OBVIOUS
  <2> HIDE DEF Body
  <2> QED
    BY <1>7, <2>1
<1>9. \A i \in 1 .. N :
        LET r == Body(h[i - 1].st, i)
        IN h[i] = [st |-> r.st, dsp |-> h[i - 1].dsp \/ r.dsp]
  <2> HIDE DEF Body
  <2> QED
    BY <1>7
<1> QED
  BY <1>1, <1>8, <1>9 DEF P

(* While t, which is in the state ts, gives up its mutexes: were it only   *)
(* suspended, the kernel would be in order.                                *)
InOrder(T, t, M) ==
  Base(T) /\ T.tstat[t] = TS_SUSPENDED /\ MtxBut(T, M, t)

Ending(S, d, t, ts) ==
  \E T : /\ Readied(S, [st |-> T, dsp |-> d.dsp])
         /\ InOrder(T, t, d.st.mtx)
         /\ d.st.k = Marked(T, t, ts)

(* t keeps its state when it passes m on.                                  *)
LEMMA KeepsState ==
  ASSUME NEW T, Base(T), NEW t \in Tasks, NEW m \in Mutexes,
         NextOwner(T, m) # t,
         NextOwner(T, m) = NULL \/ NextOwner(T, m) \in Tasks
  PROVE  /\ mutex_release(T, m).st.tstat[t] = T.tstat[t]
         /\ \A ts : MarkedToo(mutex_release(T, m), t, ts,
                              mutex_release(Marked(T, t, ts), m))
         /\ \A ts : NextOwner(Marked(T, t, ts), m) = NextOwner(T, m)
<1> DEFINE r == mutex_release(T, m)
           u == NextOwner(T, m)
           x == T.tstat[t]
<1>1. T \in KernelState /\ Full(T) /\ DOMAIN T.tstat = Tasks
  BY DEF Base, Core, KernelState, Full
<1>2. u = NULL \/ u \in DOMAIN T.tstat
  BY <1>1
<1>3. ASSUME NEW ts
      PROVE  /\ MarkedToo(r, t, ts, mutex_release(Marked(T, t, ts), m))
             /\ NextOwner(Marked(T, t, ts), m) = NextOwner(T, m)
  <2> HIDE DEF r
  <2> QED
    BY <1>1, <1>2, MarkedRelease DEF r
<1>4. Marked(T, t, x) = T
  BY <1>1, MarkedAgain
<1>5. Base(r.st)
  <2> HIDE DEF r
  <2>1. r = mutex_release(T, m)
    BY DEF r
  <2> QED
    BY <2>1, Release DEF Readied
<1>6. MarkedToo(r, t, x, r)
  BY <1>3, <1>4
<1> HIDE DEF r, x
<1>7. r.st = Marked(r.st, t, x)
  BY <1>6 DEF MarkedToo
<1>8. r.st.tstat[t] = x
  <2>1. r.st \in KernelState
    BY <1>5 DEF Base, Core
  <2> QED
    BY <1>7, <2>1 DEF Marked, KernelState
<1> QED
  BY <1>3, <1>8 DEF r, x

(* The list of t is shorter by the mutex that is passed on.                *)
LEMMA PassedLen ==
  ASSUME NEW M \in MtxState, ListsOK(M), NEW t \in Tasks, NEW m \in Mutexes,
         Linked(M.mutex_queue[t], m), NEW u \in Tasks \cup {NULL}, u # t,
         NEW N, N = Passed(Unlinked(M, m, t), m, u)
  PROVE  Len(N.mutex_queue[t]) = Len(M.mutex_queue[t]) - 1
<1> DEFINE q == M.mutex_queue[t]
           d == queue_delete(q, m)
           U == Unlinked(M, m, t)
<1>1. q \in Seq(Mutexes)
  BY DEF MtxState
<1>2. Len(d) = Len(q) - 1
  <2> HIDE DEF q
  <2> QED
    BY <1>1, DeleteAt DEF Without, q
<1>3. U.mutex_queue = [M.mutex_queue EXCEPT ![t] = d]
  BY DEF Unlinked, MtxState
<1>4. U.mutex_queue[t] = d /\ "mutex_queue" \in DOMAIN U
  BY <1>3 DEF MtxState, Unlinked
<1> HIDE DEF U, d
<1>5. N.mutex_queue[t] = d
  <2>1. CASE u = NULL
    BY <1>4, <2>1 DEF Passed, U
  <2>2. CASE u # NULL
    <3>1. N = Linked_to(U, m, u)
      BY <2>2 DEF Passed, U
    <3> QED
      BY <1>4, <3>1 DEF Linked_to
  <2> QED
    BY <2>1, <2>2
<1> QED
  BY <1>2, <1>5

(* What a round does.                                                      *)
Locks(M, t) == M.mutex_queue[t] # <<>>

Shorter(N, M, t) == Len(N.mutex_queue[t]) = Len(M.mutex_queue[t]) - 1

LEMMA EndingRound ==
  ASSUME NEW S, NEW d, NEW t \in Tasks, NEW ts, Ending(S, d, t, ts),
         Locks(d.st.mtx, t), NEW b, b = release_next(d.st, t),
         NEW e, e = [st |-> b.st, dsp |-> d.dsp \/ b.dsp]
  PROVE  /\ Ending(S, e, t, ts)
         /\ Shorter(e.st.mtx, d.st.mtx, t)
<1> DEFINE P == d.st
<1>1. PICK T : /\ Readied(S, [st |-> T, dsp |-> d.dsp])
               /\ InOrder(T, t, P.mtx)
               /\ P.k = Marked(T, t, ts)
  BY DEF Ending
<1> DEFINE M == P.mtx
           m == Head(M.mutex_queue[t])
           u == NextOwner(T, m)
           r == mutex_release(T, m)
           N == Passed(Unlinked(M, m, t), m, u)
           a == [st |-> T, dsp |-> d.dsp]
<1>2. Base(T) /\ T.tstat[t] = TS_SUSPENDED /\ MtxBut(T, M, t)
  BY <1>1 DEF InOrder
<1>3. M \in MtxState /\ ListsOK(M) /\ WaitersOK(T, M)
  BY <1>2 DEF MtxBut
<1>4. m \in Mutexes /\ Linked(M.mutex_queue[t], m) /\ M.loctsk[m] = t
  <2>1. M.mutex_queue[t] \in Seq(Mutexes) /\ M.mutex_queue[t] # <<>>
    BY <1>3 DEF MtxState, Locks
  <2>2. m \in Mutexes /\ Linked(M.mutex_queue[t], m)
    BY <2>1, QueueLinked
  <2> QED
    BY <1>3, <2>2 DEF ListsOK
<1> HIDE DEF M, m, N
<1>5. Readied(T, r) /\ Gives(T, r.st, m, u) /\ Shrinks(T, r.st, WaitQueues)
  <2> HIDE DEF r
  <2>1. r = mutex_release(T, m)
    BY DEF r
  <2> QED
    BY <1>2, <1>4, <2>1, Release
<1>6. Base(r.st) /\ LinkedWait(r.st)
  BY <1>5, LinkedWaits DEF Readied
<1>7. MtxBut(r.st, N, t) /\ u # t
  <2> HIDE DEF r, u
  <2>1. N = Passed(Unlinked(M, m, t), m, u)
    BY DEF N
  <2> DEFINE R == r.st
  <2>2. LinkedWait(R) /\ Gives(T, R, m, u)
    BY <1>5, <1>6
  <2> HIDE DEF R
  <2>3. MtxBut(R, N, t) /\ u # t
    BY <1>2, <1>4, <2>1, <2>2, PassOn
  <2> QED
    BY <2>3 DEF R
<1>8. u = NULL \/ u \in Tasks
  BY <1>5 DEF Gives
<1>9. /\ r.st.tstat[t] = TS_SUSPENDED
      /\ MarkedToo(r, t, ts, mutex_release(P.k, m))
      /\ NextOwner(P.k, m) = u
  <2>1. u # t
    BY <1>7
  <2> QED
    BY <1>1, <1>2, <1>4, <1>8, <2>1, KeepsState
<1>10. b = [st |-> [k |-> Marked(r.st, t, ts), mtx |-> N], dsp |-> r.dsp]
  <2> DEFINE c == mutex_release(P.k, m)
  <2>1. b = [st |-> [k |-> c.st, mtx |-> N], dsp |-> c.dsp]
    BY <1>9 DEF release_next, M, m, N
  <2>2. c = [st |-> Marked(r.st, t, ts), dsp |-> r.dsp]
    BY <1>9 DEF MarkedToo
  <2> HIDE DEF c
  <2> QED
    BY <2>1, <2>2
<1> HIDE DEF r, u
<1>11. Readied(S, [st |-> r.st, dsp |-> e.dsp])
  <2> DEFINE z == [st |-> r.st, dsp |-> e.dsp]
  <2>1. a.st = T /\ Readied(S, a) /\ Readied(a.st, r)
    BY <1>1, <1>5
  <2>2. z = [st |-> r.st, dsp |-> a.dsp \/ r.dsp]
    BY <1>10
  <2> HIDE DEF z, a
  <2> QED
    BY <2>1, <2>2, ReadiedTrans DEF z
<1>12. Ending(S, e, t, ts)
  <2>1. e.st.mtx = N /\ e.st.k = Marked(r.st, t, ts)
    BY <1>10
  <2> DEFINE R == r.st
  <2>2. /\ Readied(S, [st |-> R, dsp |-> e.dsp])
        /\ InOrder(R, t, e.st.mtx) /\ e.st.k = Marked(R, t, ts)
    BY <1>6, <1>7, <1>9, <1>11, <2>1 DEF InOrder
  <2> HIDE DEF R
  <2> QED
    BY <2>2 DEF Ending
<1>13. Len(N.mutex_queue[t]) = Len(M.mutex_queue[t]) - 1
  <2>1. u \in Tasks \cup {NULL} /\ N = Passed(Unlinked(M, m, t), m, u)
    BY <1>8 DEF N
  <2> QED
    BY <1>3, <1>4, <1>7, <2>1, PassedLen
<1> QED
  BY <1>10, <1>12, <1>13 DEF M, Shorter

(* When all are given up.                                                  *)
LEMMA EndingAll ==
  ASSUME NEW S, NEW E, NEW M, NEW t \in Tasks, NEW ts, NEW T,
         Readied(S, [st |-> T, dsp |-> FALSE]), InOrder(T, t, M),
         E = Marked(T, t, ts), NEW a, a = mutex_release_all(E, M, t)
  PROVE  Ending(S, a, t, ts) /\ ~Locks(a.st.mtx, t)
<1> DEFINE N == Len(M.mutex_queue[t])
           P == [k |-> E, mtx |-> M]
           L(x) == Len(x.mtx.mutex_queue[t])
<1>1. M.mutex_queue[t] \in Seq(Mutexes) /\ N \in Nat
  <2>1. M \in MtxState
    BY DEF InOrder, MtxBut
  <2>2. M.mutex_queue[t] \in Seq(Mutexes)
    BY <2>1 DEF MtxState
  <2> QED
    BY <2>2, LenProperties
<1>2. PICK done :
        /\ done[0] = [st |-> P, dsp |-> FALSE] /\ done[N] = a
        /\ \A i \in 1 .. N :
             LET r == release_next(done[i - 1].st, t)
             IN done[i] = [st |-> r.st, dsp |-> done[i - 1].dsp \/ r.dsp]
  <2> DEFINE n == N
  <2>1. n \in Nat /\ n = Len(M.mutex_queue[t])
    BY <1>1
  <2> HIDE DEF n
  <2>2. \E done :
           /\ done[0] = [st |-> P, dsp |-> FALSE]
           /\ done[n] = mutex_release_all(E, M, t)
           /\ \A i \in 1 .. n :
                LET r == release_next(done[i - 1].st, t)
                IN done[i] = [st |-> r.st, dsp |-> done[i - 1].dsp \/ r.dsp]
    BY <2>1, ReleaseAllLoop
  <2> QED
    BY <2>2 DEF n
<1> DEFINE After(d, i) == Ending(S, d, t, ts) /\ L(d.st) = N - i
           A == {i \in Nat : i <= N => After(done[i], i)}
<1>3. 0 \in A
  <2>1. done[0].st = P /\ done[0].dsp = FALSE /\ P.k = E /\ P.mtx = M
    BY <1>2
  <2>2. Ending(S, done[0], t, ts)
    BY <2>1 DEF Ending
  <2> QED
    BY <1>1, <2>1, <2>2
<1>4. ASSUME NEW i \in Nat, i + 1 <= N, After(done[i], i)
      PROVE  After(done[i + 1], i + 1)
  <2> DEFINE d == done[i]
             b == release_next(d.st, t)
             e == [st |-> b.st, dsp |-> d.dsp \/ b.dsp]
  <2>1. done[i + 1] = e
    <3>1. i + 1 \in 1 .. N /\ (i + 1) - 1 = i
      BY <1>1, <1>4
    <3> QED
      BY <1>2, <3>1
  <2>2. Ending(S, d, t, ts) /\ L(d.st) = N - i
    BY <1>4
  <2>3. Locks(d.st.mtx, t)
    <3>1. N - i # 0
      BY <1>1, <1>4
    <3> QED
      BY <2>2, <3>1 DEF Locks
  <2>4. b = release_next(d.st, t) /\ e = [st |-> b.st, dsp |-> d.dsp \/ b.dsp]
    OBVIOUS
  <2> HIDE DEF d, b, e
  <2>5. Ending(S, e, t, ts) /\ Shorter(e.st.mtx, d.st.mtx, t)
    <3>1. Ending(S, d, t, ts)
      BY <2>2
    <3> QED
      BY <3>1, <2>3, <2>4, EndingRound
  <2>6. L(e.st) = N - (i + 1)
    BY <1>1, <2>2, <2>5 DEF Shorter
  <2> QED
    BY <2>1, <2>5, <2>6
<1> HIDE DEF After
<1>5. Nat \subseteq A
  <2>1. \A i \in Nat : i \in A => i + 1 \in A
    BY <1>1, <1>4
  <2> HIDE DEF A
  <2> QED
    BY <1>3, <2>1, SetInduction
<1>6. After(a, N)
  BY <1>1, <1>2, <1>5
<1>7. Ending(S, a, t, ts) /\ L(a.st) = 0
  BY <1>1, <1>6 DEF After
<1>8. a.st.mtx \in MtxState
  BY <1>7 DEF Ending, InOrder, MtxBut
<1>9. a.st.mtx.mutex_queue[t] \in Seq(Mutexes)
  BY <1>8 DEF MtxState
<1> QED
  BY <1>7, <1>9, EmptySeq DEF Locks

-----------------------------------------------------------------------------
(* The beginning and the end of the ending of a task.                      *)

(* t, which has no mutexes and does not wait, gets its initial priority.   *)
Reset(T, R, t) ==
  /\ R.waitq = T.waitq
  /\ R.priority = [T.priority EXCEPT ![t] = ipriority[t]]
  /\ \A u \in Tasks \ {t} : R.tstat[u] = T.tstat[u]

LEMMA DormantMtx ==
  ASSUME NEW T, Base(T), NEW t \in Tasks, ~TSTAT_WAITING(T.tstat[t]),
         NEW M, MtxBut(T, M, t), ~Locks(M, t), NEW R, Reset(T, R, t),
         NEW N, N = make_dormant_mtx(M, t)
  PROVE  MtxBut(R, N, NULL)
<1>1. M \in MtxState /\ ListsOK(M) /\ WaitersOK(T, M)
  BY DEF MtxBut
<1>2. /\ LinkedWait(T) /\ T.priority \in [Tasks -> Pri]
      /\ Mutexes \subseteq WaitQueues /\ ipriority[t] \in Pri /\ NULL \notin Tasks
  BY LinkedWaits, PriFacts, TaskAssumption
<1>3. /\ N \in MtxState /\ N.mutex_queue = M.mutex_queue /\ N.loctsk = M.loctsk
      /\ N.bpriority = [M.bpriority EXCEPT ![t] = ipriority[t]]
  BY <1>1, <1>2 DEF make_dormant_mtx, MtxState
<1>4. ListsOK(N)
  BY <1>1, <1>3 DEF ListsOK
<1>5. WaitersOK(R, N)
  <2> SUFFICES ASSUME NEW m \in Mutexes, NEW y, Linked(R.waitq[m], y)
               PROVE  WaiterOK(R, N, m, y)
    BY DEF WaitersOK
  <2>1. Linked(T.waitq[m], y)
    BY DEF Reset
  <2>2. WaiterOK(T, M, m, y) /\ y \in Tasks /\ TSTAT_WAITING(T.tstat[y])
    BY <1>1, <1>2, <2>1 DEF WaitersOK, LinkedWait
  <2>3. y # t
    BY <2>2
  <2>4. R.tstat[y] = T.tstat[y] /\ N.bpriority[y] = M.bpriority[y]
    BY <1>1, <1>3, <2>2, <2>3 DEF Reset, MtxState
  <2> QED
    BY <1>3, <2>2, <2>4 DEF WaiterOK
<1>6. ASSUME NEW x \in Tasks, x # t
      PROVE  OwnerOK(R, N, NULL, x)
  <2>1. OwnerOK(T, M, t, x)
    BY <1>6 DEF MtxBut
  <2>2. R.priority[x] = T.priority[x] /\ R.tstat[x] = T.tstat[x]
    BY <1>2, <1>6 DEF Reset
  <2>3. N.bpriority[x] = M.bpriority[x]
    BY <1>1, <1>3, <1>6 DEF MtxState
  <2>4. mutex_calc_priority(N, x) = mutex_calc_priority(M, x)
    BY <1>3, <2>3 DEF mutex_calc_priority, Ceilings
  <2> QED
    BY <1>3, <1>6, <2>1, <2>2, <2>3, <2>4 DEF OwnerOK
<1>7. OwnerOK(R, N, NULL, t)
  <2> DEFINE C == Mine(N, t) \cap TA_CEILING
  <2>1. N.mutex_queue[t] = <<>>
    BY <1>3 DEF Locks
  <2>2. C = {} /\ mutex_calc_priority(N, t) = Prio(N.bpriority[t], C)
    BY <1>3, <2>1, MineFacts
  <2>3. N.bpriority[t] = ipriority[t] /\ R.priority[t] = ipriority[t]
    BY <1>1, <1>2, <1>3 DEF MtxState, Reset
  <2>4. mutex_calc_priority(N, t) = ipriority[t]
    <3> HIDE DEF C
    <3> QED
      BY <1>2, <2>2, <2>3, PrioNone
  <2>5. \A m \in TA_CEILING : N.loctsk[m] # t
    <3> SUFFICES ASSUME NEW m \in TA_CEILING, N.loctsk[m] = t PROVE FALSE
      OBVIOUS
    <3>1. m \in Mutexes /\ Linked(N.mutex_queue[t], m)
      BY <1>4, PriFacts DEF ListsOK
    <3>2. m \in Mine(N, t)
      BY <1>3, <3>1, MineFacts
    <3> QED
      BY <2>2, <3>2
  <2> QED
    BY <2>1, <2>3, <2>4, <2>5 DEF OwnerOK
<1> QED
  BY <1>3, <1>4, <1>5, <1>6, <1>7 DEF MtxBut

(* Every state in which mutex_release_all may begin.                       *)
LEMMA EndingBegins ==
  ASSUME NEW S, Base(S), MtxBut(S, mtx, NULL), NEW t \in Tasks, NEW T, Base(T),
         Calm(S, T), Shrinks(S, T, WaitQueues), T.tstat[t] = TS_SUSPENDED
  PROVE  InOrder(T, t, mtx) /\ Readied(T, [st |-> T, dsp |-> FALSE])
<1>1. LinkedWait(T)
  BY LinkedWaits
<1>2. MtxBut(T, mtx, NULL)
  <2> DEFINE z == NULL
  <2> HIDE DEF z
  <2>1. MtxBut(S, mtx, z) => MtxBut(T, mtx, z)
    BY <1>1, MtxKept
  <2> QED
    BY <2>1 DEF z
<1>3. MtxBut(T, mtx, t)
  BY <1>2, MtxExempt
<1>4. Readied(T, [st |-> T, dsp |-> FALSE])
  BY ReadiedNone
<1> QED
  BY <1>3, <1>4 DEF InOrder

(* And what follows its end: t is dormant, and may start anew.             *)
Reborn(S, d, D, M) ==
  /\ Readied(S, [st |-> D, dsp |-> d.dsp])
  /\ MtxBut(D, M, NULL)

LEMMA EndingEnds ==
  ASSUME NEW S, NEW d, NEW t \in Tasks, NEW ts, Ending(S, d, t, ts),
         ~Locks(d.st.mtx, t), NEW D, D = make_dormant(d.st.k, t),
         NEW M, M = make_dormant_mtx(d.st.mtx, t)
  PROVE  Reborn(S, d, D, M) /\ D.tstat[t] = TS_DORMANT
<1>1. PICK T : /\ Readied(S, [st |-> T, dsp |-> d.dsp])
               /\ InOrder(T, t, d.st.mtx)
               /\ d.st.k = Marked(T, t, ts)
  BY DEF Ending
<1>2. Base(T) /\ T.tstat[t] = TS_SUSPENDED /\ MtxBut(T, d.st.mtx, t)
  BY <1>1 DEF InOrder
<1>3. /\ T \in KernelState /\ Core(T) /\ RunnableOK(T) /\ Waits(T, {})
      /\ TimersOK(T) /\ TexFramesOK(T) /\ FlagsOK(T)
  BY <1>2 DEF Base, Core
<1>4. D = make_dormant(T, t)
  <2>1. /\ Full(T)
        /\ {"wupque", "enatex", "texptn", "texfrm", "texlp"} \subseteq DOMAIN T
    BY <1>3 DEF Full, KernelState
  <2> QED
    BY <1>1, <2>1, MarkedDormant
<1>5. ~TSTAT_WAITING(T.tstat[t]) /\ ~TSTAT_RUNNABLE(T.tstat[t])
  BY <1>2, SuspendedFacts
<1>6. t \notin Ready(T) /\ T.tmo[t] = -1 /\ ~InQueue(T.waitq, t)
  BY <1>2, <1>3, <1>5, BaseIsBut, OutOfQueues DEF RunnableOK
<1>7. NotLinked(T, t)
  BY <1>3, <1>6 DEF NotLinked
<1>8. /\ Base(D) /\ Frame(T, D)
      /\ Ready(D) = Ready(T) /\ D.schedtsk = T.schedtsk
      /\ D.tstat = [T.tstat EXCEPT ![t] = TS_DORMANT]
      /\ D.waitq = T.waitq
  <2>1. \A u \in Tasks \ {t} : u \in Ready(T) <=> TSTAT_RUNNABLE(T.tstat[u])
    BY <1>3 DEF RunnableOK
  <2> QED
    BY <1>3, <1>4, <1>6, <1>7, <2>1, MakeDormant
<1>9. Readied(S, [st |-> D, dsp |-> d.dsp])
  BY <1>1, <1>8 DEF Readied, Frame, Tells
<1>10. D.priority = [T.priority EXCEPT ![t] = ipriority[t]]
  BY <1>3, <1>4 DEF make_dormant, KernelState
<1>11. D.tstat[t] = TS_DORMANT /\ \A u \in Tasks \ {t} : D.tstat[u] = T.tstat[u]
  BY <1>3, <1>8 DEF KernelState
<1>12. MtxBut(D, M, NULL)
  <2>1. Reset(T, D, t)
    BY <1>8, <1>10, <1>11 DEF Reset
  <2> QED
    BY <1>2, <1>5, <2>1, DormantMtx
<1> QED
  BY <1>9, <1>11, <1>12 DEF Reborn

(* How the ending of a task begins, and how it ends, whatever the task was *)
(* doing.                                                                  *)
Begun(S, T, t) ==
  /\ Base(T) /\ Calm(S, T) /\ Shrinks(S, T, WaitQueues)
  /\ T.tstat[t] = TS_SUSPENDED /\ Frame(S, T)
  /\ Ready(S) \ {t} \subseteq Ready(T)
  /\ S.schedtsk # t /\ S.dspflg => T.schedtsk = S.schedtsk

LEMMA BeginRunnable ==
  ASSUME NEW S, Base(S), NEW t \in Tasks, TSTAT_RUNNABLE(S.tstat[t]),
         NEW E, E = make_non_runnable(S, t).st
  PROVE  \E T : Begun(S, T, t) /\ E = Marked(T, t, TS_RUNNABLE)
<1> DEFINE ts == TS_SUSPENDED
           run == TS_RUNNABLE
           A == Marked(S, t, ts)
           r == make_non_runnable(A, t)
           T == r.st
<1>1. /\ S \in KernelState /\ Full(S) /\ Core(S) /\ RunnableOK(S)
      /\ S.tstat \in [Tasks -> TStat] /\ Fields(S)
  BY DEF Base, Core, KernelState, Full, Fields
<1>2. Deactivated(S, t, ts, r)
  <2>1. r = make_non_runnable([S EXCEPT !.tstat[t] = ts], t)
    BY DEF Marked
  <2>2. ts \in TStat /\ ~TSTAT_RUNNABLE(ts) /\ ts = TS_SUSPENDED
    BY SuspendedFacts
  <2> HIDE DEF r, A, ts
  <2> QED
    BY <2>1, <2>2, Deactivate
<1>3. Base(T) /\ Frame(S, T) /\ Ready(T) = Ready(S) \ {t} /\ T.waitq = S.waitq
  <2>1. ~TSTAT_WAITING(ts)
    BY SuspendedFacts
  <2> HIDE DEF r, ts
  <2> QED
    BY <1>2, <2>1, BaseIsBut DEF Deactivated
<1>4. T.tstat = [S.tstat EXCEPT ![t] = ts] /\ T.priority = S.priority /\ Tells(S, r)
  BY <1>2 DEF Deactivated
<1>5. T.tstat[t] = ts
  BY <1>1, <1>4
<1>6. S.schedtsk # t /\ S.dspflg => T.schedtsk = S.schedtsk
  <2>1. A.schedtsk = S.schedtsk
    BY <1>1 DEF Marked, KernelState
  <2>2. S.schedtsk # t => r.dsp = FALSE
    <3> HIDE DEF A
    <3> QED
      BY <2>1 DEF make_non_runnable
  <2> HIDE DEF r
  <2> QED
    BY <1>4, <2>2 DEF Tells
<1>7. E = Marked(T, t, run)
  <2> DEFINE e == make_non_runnable(S, t)
  <2>1. MarkedToo(e, t, ts, r)
    <3> HIDE DEF ts
    <3> QED
      BY <1>1, MarkedNonRunnable
  <2>2. T = Marked(E, t, ts)
    <3> HIDE DEF e, r
    <3>1. e.st = E
      BY DEF e
    <3> QED
      BY <2>1, <3>1 DEF MarkedToo
  <2>3. E \in KernelState /\ E.tstat = S.tstat
    <3>1. t \in Ready(S) /\ QueuesOK(S) /\ SchedOK(S)
      BY <1>1 DEF RunnableOK, Core
    <3> HIDE DEF e
    <3>2. e.st \in KernelState /\ Same(S, e.st)
      BY <1>1, <3>1, MakeNonRunnable DEF e
    <3> QED
      BY <3>2 DEF e, Same
  <2>4. E.tstat[t] = run
    BY <1>1, <2>3, TStatFacts
  <2>5. Full(E)
    BY <2>3 DEF Full, KernelState
  <2> HIDE DEF T, ts, run
  <2>6. Marked(Marked(E, t, ts), t, run) = Marked(E, t, run)
    BY <2>5, MarkedAgain
  <2>7. Marked(E, t, run) = E
    BY <2>3, <2>4, <2>5, MarkedAgain
  <2> QED
    BY <2>2, <2>6, <2>7
<1>8. Calm(S, T)
  <2>1. Later(S.tstat[t], ts)
    BY SuspendedFacts DEF Later, TSTAT_DORMANT, TS_SUSPENDED, TS_DORMANT
  <2>2. T.tstat \in [Tasks -> TStat] /\ Fields(T)
    BY <1>3, LinkedWaits
  <2> HIDE DEF T, ts
  <2>3. \A u \in Tasks : Later(S.tstat[u], T.tstat[u])
    BY <1>1, <1>4, <2>1 DEF Later
  <2> QED
    BY <1>4, <2>2, <2>3 DEF Calm
<1>9. Shrinks(S, T, WaitQueues)
  BY <1>3 DEF Shrinks
<1> HIDE DEF T, ts
<1>10. Begun(S, T, t)
  BY <1>3, <1>5, <1>6, <1>8, <1>9 DEF Begun, ts
<1> QED
  BY <1>7, <1>10

LEMMA BeginWaiting ==
  ASSUME KernelInv(k), NEW S, S = k, Base(S), NEW t \in Tasks, TSTAT_WAITING(S.tstat[t]),
         NEW E, E = wait_dequeue_tmevtb(wait_dequeue_wobj(S, t), t)
  PROVE  \E T : Begun(S, T, t) /\ E = Marked(T, t, S.tstat[t])
<1> DEFINE ts == TS_SUSPENDED
           X == {t}
           no == {}
           Q == wait_dequeue_wobj(S, t)
           x == S.tstat[t]
           T == Marked(E, t, ts)
<1>0. t \in X /\ X = no \cup {t} /\ no = X \ {t} /\ t \notin no
  OBVIOUS
<1>0a. BaseBut(S, no)
  BY BaseIsBut
<1>1. /\ S \in KernelState /\ Full(S)
      /\ S.tstat \in [Tasks -> TStat] /\ Fields(S)
  BY DEF Base, Core, KernelState, Full, Fields
<1>2. BaseBut(Q, X) /\ Ready(Q) = Ready(S) /\ Alike(S, Q)
  <2> HIDE DEF Q, X, no
  <2> QED
    BY <1>0, <1>0a, DequeueWobj DEF Q
<1>3. BaseBut(E, X) /\ Ready(E) = Ready(Q) /\ Retimed(Q, E, t, -1)
  <2> HIDE DEF Q, X
  <2>1. E = wait_dequeue_tmevtb(Q, t)
    BY DEF Q
  <2> QED
    BY <1>0, <1>2, <2>1, DequeueTmevtb
<1>4. /\ E \in KernelState /\ E.tstat = S.tstat /\ E.priority = S.priority
      /\ E.schedtsk = S.schedtsk /\ E.waitq = Q.waitq
  BY <1>2, <1>3 DEF Retimed, Alike
<1>5. Shrinks(S, E, WaitQueues)
  <2>1. "waitq" \in DOMAIN S
    BY <1>1 DEF Fields
  <2> HIDE DEF Q
  <2>2. Shrinks(S, Q, WaitQueues)
    BY <2>1, DequeueShrinks DEF Q
  <2> QED
    BY <1>4, <2>2 DEF Shrinks
<1>6. Frame(S, E)
  BY <1>2, <1>3 DEF Alike, Retimed, Frame
<1>7. /\ BaseBut(T, no) /\ Frame(E, T) /\ Ready(T) = Ready(E)
      /\ T.schedtsk = E.schedtsk
      /\ T.waitq = E.waitq /\ T.priority = E.priority
  <2>1. T = [E EXCEPT !.tstat[t] = ts]
    BY DEF Marked
  <2>2. ts \in TStat /\ ~TSTAT_RUNNABLE(ts) /\ ts = TS_SUSPENDED
    BY SuspendedFacts
  <2>3. ~TSTAT_RUNNABLE(E.tstat[t]) /\ E.tmo[t] = -1
    BY <1>1, <1>3, <1>4, TStatFacts DEF Retimed
  <2> HIDE DEF T, ts, X, no
  <2> QED
    BY <1>0, <1>3, <2>1, <2>2, <2>3, SetTstat
<1>8. Base(T)
  BY <1>7, BaseIsBut
<1>9. T.tstat = [S.tstat EXCEPT ![t] = ts] /\ T.tstat[t] = ts
  BY <1>1, <1>4 DEF Marked, KernelState
<1>10. E = Marked(T, t, x)
  <2>1. Full(E) /\ E.tstat[t] = x
    BY <1>4 DEF Full, KernelState
  <2> HIDE DEF ts, x
  <2>2. Marked(Marked(E, t, ts), t, x) = Marked(E, t, x)
    BY <2>1, MarkedAgain
  <2>3. Marked(E, t, x) = E
    BY <1>4, <2>1, MarkedAgain
  <2> QED
    BY <2>2, <2>3
<1>11. Calm(S, T)
  <2>1. Later(x, ts)
    BY SuspendedFacts DEF Later, TSTAT_DORMANT, TS_SUSPENDED, TS_DORMANT
  <2>2. T.tstat \in [Tasks -> TStat] /\ Fields(T)
    BY <1>8, LinkedWaits
  <2> HIDE DEF T, ts
  <2>3. \A u \in Tasks : Later(S.tstat[u], T.tstat[u])
    BY <1>1, <1>9, <2>1 DEF Later
  <2> QED
    BY <1>4, <1>7, <2>2, <2>3 DEF Calm
<1>12. Shrinks(S, T, WaitQueues)
  BY <1>5, <1>7 DEF Shrinks
<1> HIDE DEF T, ts
<1>13. Frame(S, T) /\ Ready(T) = Ready(S) /\ T.schedtsk = S.schedtsk
  BY <1>2, <1>3, <1>4, <1>6, <1>7 DEF Frame
<1>14. Begun(S, T, t)
  BY <1>8, <1>9, <1>11, <1>12, <1>13 DEF Begun, ts
<1> QED
  BY <1>10, <1>14

LEMMA BeginSuspended ==
  ASSUME NEW S, Base(S), NEW t \in Tasks, S.tstat[t] = TS_SUSPENDED
  PROVE  Begun(S, S, t) /\ S = Marked(S, t, TS_SUSPENDED)
<1>1. /\ S \in KernelState /\ Full(S)
      /\ S.tstat \in [Tasks -> TStat] /\ Fields(S)
  BY DEF Base, Core, KernelState, Full, Fields
<1>2. Calm(S, S) /\ Shrinks(S, S, WaitQueues) /\ Frame(S, S)
  BY <1>1 DEF Calm, Later, Shrinks, Frame
<1>3. Marked(S, t, S.tstat[t]) = S
  <2> DEFINE x == S.tstat[t]
  <2> HIDE DEF x
  <2>1. x = S.tstat[t]
    BY DEF x
  <2> QED
    BY <1>1, <2>1, MarkedAgain
<1> QED
  BY <1>2, <1>3 DEF Begun

(* All of it: the task is dormant.                                         *)
LEMMA TaskEnded ==
  ASSUME NEW S, Base(S), MtxBut(S, mtx, NULL), NEW t \in Tasks, NEW T,
         Begun(S, T, t), NEW ts, NEW E, E = Marked(T, t, ts),
         NEW a, a = mutex_release_all(E, mtx, t),
         NEW D, D = make_dormant(a.st.k, t),
         NEW M, M = make_dormant_mtx(a.st.mtx, t)
  PROVE  Reborn(T, a, D, M) /\ D.tstat[t] = TS_DORMANT
<1>1. InOrder(T, t, mtx) /\ Readied(T, [st |-> T, dsp |-> FALSE])
  BY EndingBegins DEF Begun
<1>2. Ending(T, a, t, ts) /\ ~Locks(a.st.mtx, t)
  BY <1>1, EndingAll
<1> QED
  BY <1>2, EndingEnds

-----------------------------------------------------------------------------
(* The steps.  Each is of MtxStep: the invariant holds after it.           *)
MtxStep == KernelInv(k') /\ MtxBut(k', mtx', NULL)

LEMMA MtxFacts ==
  ASSUME MtxInv
  PROVE  /\ KernelInv(k) /\ Base(k) /\ MtxBut(k, mtx, NULL) /\ mtx \in MtxState
         /\ ListsOK(mtx) /\ WaitersOK(k, mtx) /\ LinkedWait(k) /\ Fields(k)
         /\ k.tstat \in [Tasks -> TStat]
         /\ \A t \in Tasks : /\ OwnerOK(k, mtx, NULL, t)
                             /\ k.priority[t] = mutex_calc_priority(mtx, t)
<1>1. /\ KernelInv(k) /\ Base(k) /\ MtxBut(k, mtx, NULL)
  BY DEF MtxInv, KernelInv
<1>2. /\ mtx \in MtxState /\ ListsOK(mtx) /\ WaitersOK(k, mtx)
      /\ \A t \in Tasks : OwnerOK(k, mtx, NULL, t)
  BY <1>1 DEF MtxBut
<1>3. \A t \in Tasks : k.priority[t] = mutex_calc_priority(mtx, t)
  BY <1>2, TaskAssumption DEF OwnerOK
<1> QED
  BY <1>1, <1>2, <1>3, LinkedWaits

(* The same mutexes after a step in which no task begins to wait.          *)
LEMMA StepKept ==
  ASSUME NEW S, NEW M, MtxBut(S, M, NULL), NEW R, Base(R), Calm(S, R),
         Shrinks(S, R, WaitQueues)
  PROVE  MtxBut(R, M, NULL)
<1> DEFINE z == NULL
<1> HIDE DEF z
<1>1. MtxBut(S, M, z) => MtxBut(R, M, z)
  BY LinkedWaits, MtxKept
<1> QED
  BY <1>1 DEF z

LEMMA StepStill ==
  ASSUME NEW S, Base(S), NEW M, MtxBut(S, M, NULL), NEW R, Base(R), Still(S, R)
  PROVE  MtxBut(R, M, NULL)
<1>1. Calm(S, R)
  BY LinkedWaits, StillCalm
<1>2. Shrinks(S, R, WaitQueues)
  BY DEF Still, Shrinks
<1> QED
  BY <1>1, <1>2, StepKept

(* A task that has been made dormant may start anew.                       *)
LEMMA RestartMtx ==
  ASSUME NEW D, Base(D), NEW t \in Tasks, D.tstat[t] = TS_DORMANT,
         NEW M, MtxBut(D, M, NULL), NEW r, r = Restart(D, t)
  PROVE  Readied(D, r) /\ MtxBut(r.st, M, NULL)
<1>1. Readied(D, r)
  BY RestartDormant DEF Readied, TSTAT_DORMANT
<1>2. Base(r.st)
  BY <1>1 DEF Readied
<1>3. D.tstat \in [Tasks -> TStat] /\ Fields(D)
  BY LinkedWaits
<1>4. Shrinks(D, r.st, WaitQueues)
  <2>1. SameWaitq(D, r.st)
    BY <1>3, LeaveWaitq DEF Fields
  <2> QED
    BY <2>1 DEF SameWaitq, Shrinks
<1>5. Calm(D, r.st)
  <2> DEFINE A == [D EXCEPT !.actque[t] = FALSE]
             b == make_active(A, t)
  <2>1. CASE D.actque[t]
    <3>1. r = b
      BY <2>1 DEF Restart
    <3>2. Still(D, A)
      BY <1>3 DEF Fields, Still
    <3>3. Fields(A) /\ A.tstat \in [Tasks -> TStat]
      BY <1>3, <3>2 DEF Still
    <3> HIDE DEF A
    <3>4. Calm(A, b.st)
      BY <3>3, ReadyCalm
    <3> HIDE DEF b
    <3>5. Calm(D, A)
      BY <1>3, <3>2, StillCalm
    <3> QED
      BY <3>1, <3>4, <3>5, CalmTrans
  <2>2. CASE ~D.actque[t]
    <3>1. r.st = D
      BY <2>2 DEF Restart
    <3>2. Still(D, D)
      BY <1>3 DEF Fields, Still
    <3> QED
      BY <1>3, <3>1, <3>2, StillCalm
  <2> QED
    BY <2>1, <2>2
<1> QED
  BY <1>1, <1>2, <1>4, <1>5, StepKept

LEMMA ExtTskMtx ==
  ASSUME MtxInv, ext_tsk_mtx
  PROVE  MtxStep
<1> DEFINE t == k.runtsk
           S == [k EXCEPT !.disdsp = FALSE, !.ipmflg = TRUE, !.dspflg = TRUE,
                          !.lock = FALSE]
           E == make_non_runnable(S, t).st
           a == mutex_release_all(E, mtx, t)
           D == make_dormant(a.st.k, t)
           M == make_dormant_mtx(a.st.mtx, t)
           r == Restart(D, t)
<1>1. /\ Base(k) /\ k \in KernelState /\ k.ini = 0 /\ k.handlers = <<>>
      /\ ~k.reqflg /\ t \in Tasks /\ TSTAT_RUNNABLE(k.tstat[t])
  BY MtxFacts, TskCtxFacts DEF ext_tsk_mtx
<1>2. k' = dispatch(r.st) /\ mtx' = M
  BY DEF ext_tsk_mtx
<1>3. /\ S \in KernelState
      /\ S.readyq = k.readyq /\ S.primap = k.primap
      /\ S.schedtsk = k.schedtsk /\ S.priority = k.priority
      /\ S.tstat = k.tstat /\ S.tmo = k.tmo /\ S.waitq = k.waitq
      /\ S.texfrm = k.texfrm /\ S.texlp = k.texlp
      /\ S.dspflg = TRUE /\ S.disdsp = FALSE /\ S.ipmflg = TRUE
      /\ S.reqflg = k.reqflg /\ S.handlers = k.handlers /\ S.ini = k.ini
      /\ FlagsOK(S)
  BY <1>1 DEF KernelState, FlagsOK
<1> HIDE DEF S
<1>4. Base(S)
  BY <1>1, <1>3, Unmoved
<1>5. MtxBut(S, mtx, NULL)
  <2>1. Still(k, S)
    BY <1>3 DEF Still, Fields, KernelState
  <2> QED
    BY <1>4, <2>1, MtxFacts, StepStill
<1>6. PICK T : Begun(S, T, t) /\ E = Marked(T, t, TS_RUNNABLE)
  <2> HIDE DEF E, t
  <2>1. t \in Tasks /\ TSTAT_RUNNABLE(S.tstat[t]) /\ E = make_non_runnable(S, t).st
    BY <1>1, <1>3 DEF E
  <2> QED
    BY <1>4, <2>1, BeginRunnable
<1>7. Reborn(T, a, D, M) /\ D.tstat[t] = TS_DORMANT
  <2> DEFINE run == TS_RUNNABLE
  <2>1. /\ Begun(S, T, t) /\ E = Marked(T, t, run) /\ t \in Tasks
        /\ a = mutex_release_all(E, mtx, t) /\ D = make_dormant(a.st.k, t)
        /\ M = make_dormant_mtx(a.st.mtx, t)
    BY <1>1, <1>6
  <2> HIDE DEF run, E, t, a, D, M
  <2> QED
    BY <1>4, <1>5, <2>1, TaskEnded
<1> HIDE DEF E, a, D, M, t
<1>8. Base(D) /\ Frame(T, D) /\ MtxBut(D, M, NULL)
  BY <1>7 DEF Reborn, Readied
<1>9. Readied(D, r) /\ MtxBut(r.st, M, NULL)
  <2>1. r = Restart(D, t) /\ t \in Tasks
    BY <1>1
  <2> HIDE DEF r
  <2> QED
    BY <1>7, <1>8, <2>1, RestartMtx
<1> HIDE DEF r
<1>10. /\ Base(r.st) /\ r.st.ini = 0 /\ r.st.handlers = <<>> /\ ~r.st.reqflg
       /\ r.st.dspflg
  <2>1. Frame(S, T)
    BY <1>6 DEF Begun
  <2> QED
    BY <1>1, <1>3, <1>8, <1>9, <2>1 DEF Frame, Readied
<1>11. KernelInv(k') /\ Base(k')
  <2>1. Step(k, dispatch(r.st))
    BY <1>10, DispatchStep
  <2> QED
    BY <1>2, <2>1 DEF Step, KernelInv
<1>12. MtxBut(k', M, NULL)
  <2>1. Still(r.st, k')
    BY <1>2, <1>10, LinkedWaits, SwitchStill
  <2> QED
    BY <1>9, <1>10, <1>11, <2>1, StepStill
<1> QED
  BY <1>2, <1>11, <1>12 DEF MtxStep

LEMMA TerTskMtx ==
  ASSUME MtxInv, NEW t \in Tasks, ter_tsk_mtx(t)
  PROVE  MtxStep
<1> DEFINE E == IF TSTAT_RUNNABLE(k.tstat[t]) THEN make_non_runnable(k, t).st
                ELSE IF TSTAT_WAITING(k.tstat[t])
                THEN wait_dequeue_tmevtb(wait_dequeue_wobj(k, t), t)
                ELSE k
           a == mutex_release_all(E, mtx, t)
           C == make_dormant(a.st.k, t)
           D == [C EXCEPT !.wercd[t] = "none"]
           M == make_dormant_mtx(a.st.mtx, t)
           r == Restart(D, t)
           e == [st |-> r.st, dsp |-> a.dsp \/ r.dsp]
<1>1. /\ Base(k) /\ Switched(k) /\ k \in KernelState
      /\ k.ini = 0 /\ k.handlers = <<>> /\ k.runtsk # NULL
      /\ k.runtsk \in Ready(k) /\ ~k.reqflg
      /\ k.dspflg => k.runtsk = k.schedtsk
      /\ t # k.runtsk /\ ~TSTAT_DORMANT(k.tstat[t])
      /\ MtxBut(k, mtx, NULL) /\ KernelInv(k)
  BY MtxFacts, TskCtxFacts DEF ter_tsk_mtx, TskCtxUnl
<1>2. k' = DispatchIf(e) /\ mtx' = M
  BY DEF ter_tsk_mtx
<1>3. PICK T, ts : Begun(k, T, t) /\ E = Marked(T, t, ts)
  <2>1. CASE TSTAT_RUNNABLE(k.tstat[t])
    <3>1. E = make_non_runnable(k, t).st
      BY <2>1
    <3> HIDE DEF E
    <3> QED
      BY <1>1, <2>1, <3>1, BeginRunnable
  <2>2. CASE ~TSTAT_RUNNABLE(k.tstat[t]) /\ TSTAT_WAITING(k.tstat[t])
    <3>1. E = wait_dequeue_tmevtb(wait_dequeue_wobj(k, t), t)
      BY <2>2
    <3> HIDE DEF E
    <3> QED
      BY <1>1, <2>2, <3>1, BeginWaiting
  <2>3. CASE ~TSTAT_RUNNABLE(k.tstat[t]) /\ ~TSTAT_WAITING(k.tstat[t])
    <3>1. E = k
      BY <2>3
    <3>2. k.tstat[t] = TS_SUSPENDED
      BY <1>1, <2>3, TStatFacts DEF KernelState
    <3> HIDE DEF E
    <3> QED
      BY <1>1, <3>1, <3>2, BeginSuspended
  <2> QED
    BY <2>1, <2>2, <2>3
<1> HIDE DEF E
<1>4. Reborn(T, a, C, M) /\ C.tstat[t] = TS_DORMANT
  <2>1. /\ a = mutex_release_all(E, mtx, t) /\ C = make_dormant(a.st.k, t)
        /\ M = make_dormant_mtx(a.st.mtx, t)
    OBVIOUS
  <2> HIDE DEF a, C, M
  <2> QED
    BY <1>1, <1>3, <2>1, TaskEnded
<1> HIDE DEF a, C, M
<1>5. /\ Base(C) /\ Frame(T, C) /\ MtxBut(C, M, NULL) /\ C \in KernelState
      /\ Readied(T, [st |-> C, dsp |-> a.dsp])
  BY <1>4 DEF Reborn, Readied, Base, Core
<1>6. OnlyTex(C, D)
  <2>1. TexFramesOK(C)
    BY <1>5 DEF Base
  <2> QED
    BY <1>5, <2>1 DEF OnlyTex, TexFramesOK, Frame, KernelState
<1> HIDE DEF D
<1>7. /\ Base(D) /\ Ready(D) = Ready(C) /\ D.tstat = C.tstat /\ Frame(C, D)
      /\ D.schedtsk = C.schedtsk /\ Still(C, D)
  <2>1. Base(D) /\ Ready(D) = Ready(C)
    BY <1>5, <1>6, TexKeeps
  <2> QED
    BY <1>6, <2>1, LinkedWaits DEF OnlyTex, Still
<1>8. MtxBut(D, M, NULL)
  BY <1>5, <1>7, StepStill
<1>9. Readied(T, [st |-> D, dsp |-> a.dsp])
  BY <1>5, <1>7 DEF Readied, Frame, Tells
<1>10. Readied(D, r) /\ MtxBut(r.st, M, NULL)
  <2>1. r = Restart(D, t) /\ D.tstat[t] = TS_DORMANT
    BY <1>4, <1>7
  <2> HIDE DEF r
  <2> QED
    BY <1>7, <1>8, <2>1, RestartMtx
<1> HIDE DEF r
<1>11. Readied(T, e)
  <2> DEFINE z == [st |-> D, dsp |-> a.dsp]
  <2>1. /\ Readied(T, z) /\ Readied(z.st, r)
        /\ e = [st |-> r.st, dsp |-> z.dsp \/ r.dsp]
    BY <1>9, <1>10
  <2> HIDE DEF z, e
  <2> QED
    BY <2>1, ReadiedTrans
<1>12. /\ Switched(T) /\ T.ini = 0 /\ T.handlers = <<>> /\ T.runtsk # NULL
       /\ T.runtsk \in Ready(e.st)
  <2>1. /\ Frame(k, T) /\ Ready(k) \ {t} \subseteq Ready(T)
        /\ k.schedtsk # t /\ k.dspflg => T.schedtsk = k.schedtsk
    BY <1>3 DEF Begun
  <2>2. T.runtsk \in Ready(T) /\ Ready(T) \subseteq Ready(e.st)
    BY <1>1, <1>11, <2>1 DEF Frame, Readied
  <2> HIDE DEF e
  <2> QED
    BY <1>1, <2>1, <2>2 DEF Switched, Frame
<1>13. e.st = r.st
  OBVIOUS
<1> HIDE DEF e
<1>14. KernelInv(k') /\ Base(k')
  <2>1. Base(e.st) /\ Frame(T, e.st) /\ Tells(T, e)
    BY <1>11 DEF Readied
  <2>2. Step(T, DispatchIf(e))
    BY <1>12, <2>1, DispatchIfStep
  <2> QED
    BY <1>2, <2>2 DEF Step, KernelInv
<1>15. MtxBut(k', M, NULL)
  <2>1. Base(e.st)
    BY <1>11 DEF Readied
  <2>2. Still(e.st, k')
    BY <1>2, <2>1, LinkedWaits, SwitchStill
  <2> QED
    BY <1>10, <1>13, <1>14, <2>1, <2>2, StepStill
<1> QED
  BY <1>2, <1>14, <1>15 DEF MtxStep

-----------------------------------------------------------------------------
(* What is the same with mutexes and without.                              *)

Quiet(S, R) == Calm(S, R) /\ Shrinks(S, R, WaitQueues)

LEMMA StillQuiet ==
  ASSUME NEW S, S.tstat \in [Tasks -> TStat], NEW R, Still(S, R)
  PROVE  Quiet(S, R)
<1>1. Calm(S, R)
  BY StillCalm
<1> QED
  BY <1>1 DEF Still, Shrinks, Quiet

(* Quiet as far as A, and nothing changes then.                            *)
LEMMA QuietStill ==
  ASSUME NEW S, NEW A, Quiet(S, A), NEW R, Still(A, R)
  PROVE  Quiet(S, R)
<1>1. Calm(S, R)
  BY CalmTrans DEF Quiet
<1>2. Shrinks(S, R, WaitQueues)
  BY ShrinksTrans DEF Quiet, Still
<1> QED
  BY <1>1, <1>2 DEF Quiet

(* A wait ends after t has left its queue.                                 *)
LEMMA ReleasedQuiet ==
  ASSUME KernelInv(k), NEW t \in Tasks, NEW S, Still(k, S),
         NEW D, D = wait_dequeue_wobj(S, t),
         NEW T, T \in {S, D, wait_dequeue_tmevtb(D, t)}, NEW e,
         NEW r, r = make_non_wait([T EXCEPT !.wercd[t] = e], t)
  PROVE  Quiet(k, DispatchIf(r)) /\ Quiet(k, RequestIf(r))
<1>1. k.tstat \in [Tasks -> TStat] /\ Fields(k)
  BY LinkedWaits DEF KernelInv
<1>2. /\ Fields(S) /\ S.waitq = k.waitq /\ S.priority = k.priority
      /\ S.tstat = k.tstat
  BY DEF Still
<1>3. Shrinks(k, D, WaitQueues)
  BY <1>2, DequeueShrinks DEF Fields
<1>4. Fields(D) /\ D.priority = S.priority /\ D.tstat = S.tstat
  BY <1>2 DEF Fields, wait_dequeue_wobj
<1>5. Still(D, wait_dequeue_tmevtb(D, t))
  BY <1>4 DEF Still, Fields, wait_dequeue_tmevtb
<1>6. /\ Fields(T) /\ T.priority = k.priority /\ T.tstat = k.tstat
      /\ T.waitq \in {k.waitq, D.waitq}
  BY <1>2, <1>4, <1>5 DEF Still
<1>7. Calm(T, r.st) /\ SameWaitq(T, r.st)
  <2> DEFINE C == [T EXCEPT !.wercd[t] = e]
             R == make_non_wait(C, t).st
  <2>1. T.tstat \in [Tasks -> TStat] /\ T \in {T, wait_dequeue_tmevtb(T, t)}
    BY <1>1, <1>6
  <2>2. R = r.st /\ R = make_non_wait([T EXCEPT !.wercd[t] = e], t).st
    OBVIOUS
  <2> HIDE DEF C, R
  <2>3. Calm(T, R) /\ SameWaitq(T, R)
    BY <1>6, <2>1, <2>2, WaitEndsCalm
  <2> QED
    BY <2>2, <2>3
<1>8. Quiet(k, r.st)
  <2>1. Calm(k, r.st)
    BY <1>6, <1>7 DEF Calm
  <2>2. Shrinks(k, r.st, WaitQueues)
    BY <1>3, <1>6, <1>7 DEF Shrinks, SameWaitq
  <2> QED
    BY <2>1, <2>2 DEF Quiet
<1>9. Fields(r.st)
  BY <1>7 DEF Calm
<1> QED
  BY <1>8, <1>9, SwitchStill, QuietStill

LEMMA RelWaiQuiet ==
  ASSUME KernelInv(k), NEW t \in Tasks, rel_wai(t)
  PROVE  Quiet(k, k')
<1> DEFINE D == wait_dequeue_wobj(k, t)
           T == wait_dequeue_tmevtb(D, t)
           e == "E_RLWAI"
           r == make_non_wait([T EXCEPT !.wercd[t] = e], t)
<1>1. k' = DispatchIf(r)
  BY DEF rel_wai, wait_release
<1>2. Still(k, k)
  BY LinkedWaits DEF KernelInv, Still
<1>3. T \in {k, D, wait_dequeue_tmevtb(D, t)} /\ D = wait_dequeue_wobj(k, t)
      /\ r = make_non_wait([T EXCEPT !.wercd[t] = e], t)
  OBVIOUS
<1> HIDE DEF T, D, r, e
<1> QED
  BY <1>1, <1>2, <1>3, ReleasedQuiet

LEMMA SignalTimeQuiet ==
  ASSUME KernelInv(k), NEW t \in Tasks, signal_time(t)
  PROVE  Quiet(k, k')
<1> DEFINE S == [k EXCEPT !.tmo[t] = -1]
           D == wait_dequeue_wobj(S, t)
           ok == "E_OK"
           late == "E_TMOUT"
           b == make_non_wait([S EXCEPT !.wercd[t] = ok], t)
           c == make_non_wait([D EXCEPT !.wercd[t] = late], t)
           T == wait_dequeue_tmevtb(D, t)
<1>1. k' = RequestIf(b) \/ k' = RequestIf(c)
  BY DEF signal_time, wait_tmout, wait_tmout_ok
<1>2. Still(k, S)
  <2>1. Fields(k)
    BY LinkedWaits DEF KernelInv
  <2> QED
    BY <2>1 DEF Still, Fields
<1>3. /\ S \in {S, D, wait_dequeue_tmevtb(D, t)} /\ D = wait_dequeue_wobj(S, t)
      /\ D \in {S, D, wait_dequeue_tmevtb(D, t)}
      /\ b = make_non_wait([S EXCEPT !.wercd[t] = ok], t)
      /\ c = make_non_wait([D EXCEPT !.wercd[t] = late], t)
  OBVIOUS
<1> HIDE DEF S, D, b, c, ok, late
<1>4. Quiet(k, RequestIf(b))
  BY <1>2, <1>3, ReleasedQuiet
<1>5. Quiet(k, RequestIf(c))
  BY <1>2, <1>3, ReleasedQuiet
<1> QED
  BY <1>1, <1>4, <1>5

(* A task is suspended or resumed.                                         *)
LEMMA SetQuiet ==
  ASSUME NEW S, Fields(S), S.tstat \in [Tasks -> TStat], NEW t \in Tasks,
         NEW ts \in TStat, Later(S.tstat[t], ts),
         NEW R, R = [S EXCEPT !.tstat[t] = ts]
  PROVE  Quiet(S, R)
<1>1. Calm(S, R)
  BY SetCalm
<1> QED
  BY <1>1 DEF Quiet, Shrinks, Fields

LEMMA SusTskQuiet ==
  ASSUME KernelInv(k), NEW t \in Tasks, sus_tsk(t) \/ rsm_tsk(t)
  PROVE  Quiet(k, k')
<1> DEFINE ts == k.tstat[t]
           a == ts \cup TS_SUSPENDED
           b == ts \ TS_SUSPENDED
           sus == TS_SUSPENDED
           run == TS_RUNNABLE
           P == [k EXCEPT !.tstat[t] = sus]
           Q == [k EXCEPT !.tstat[t] = run]
           A == [k EXCEPT !.tstat[t] = a]
           B == [k EXCEPT !.tstat[t] = b]
           p == make_non_runnable(P, t)
           q == make_runnable(Q, t)
<1>1. k.tstat \in [Tasks -> TStat] /\ Fields(k) /\ ts \in TStat
  BY LinkedWaits DEF KernelInv
<1>2. \/ k' = DispatchIf(p) \/ k' = DispatchIf(q)
      \/ TSTAT_WAITING(ts) /\ (k' = A \/ k' = B)
  <2>1. CASE sus_tsk(t)
    <3>1. \/ TSTAT_RUNNABLE(ts) /\ k' = DispatchIf(p)
          \/ ~TSTAT_RUNNABLE(ts) /\ k' = A
      BY <2>1 DEF sus_tsk
    <3>2. ~TSTAT_DORMANT(ts) /\ ~TSTAT_SUSPENDED(ts)
      BY <2>1 DEF sus_tsk
    <3>3. ts # TS_SUSPENDED
      BY <3>2 DEF TSTAT_SUSPENDED, TS_SUSPENDED
    <3>4. TSTAT_RUNNABLE(ts) \/ TSTAT_WAITING(ts)
      BY <1>1, <3>2, <3>3, TStatFacts
    <3> HIDE DEF p, A, ts
    <3> QED
      BY <3>1, <3>4
  <2>2. CASE rsm_tsk(t)
    <3>1. \/ TSTAT_WAITING(ts) /\ k' = B
          \/ k' = DispatchIf(q)
      BY <2>2 DEF rsm_tsk
    <3> QED
      BY <3>1
  <2> QED
    BY <2>1, <2>2
<1>3. /\ sus \in TStat /\ run \in TStat /\ Later(ts, sus) /\ Later(ts, run)
      /\ TSTAT_WAITING(ts) => /\ a \in TStat /\ b \in TStat
                              /\ Later(ts, a) /\ Later(ts, b)
  <2>1. sus \in TStat /\ run \in TStat /\ Later(ts, sus) /\ Later(ts, run)
    BY DEF Later, TStat, TSTAT_WAITING, TSTAT_DORMANT, TS_RUNNABLE, TS_SUSPENDED,
           TS_DORMANT
  <2>2. ASSUME TSTAT_WAITING(ts)
        PROVE  a \in TStat /\ b \in TStat /\ Later(ts, a) /\ Later(ts, b)
    <3>1. a \in TStat /\ b \in TStat
      BY <1>1, <2>2, TStatFacts
    <3>2. a \ TS_SUSPENDED = ts \ TS_SUSPENDED /\ b \ TS_SUSPENDED = ts \ TS_SUSPENDED
      <4> HIDE DEF ts
      <4> QED
        OBVIOUS
    <3>3. TSTAT_WAITING(a) /\ TSTAT_WAITING(b)
      BY <2>2, SuspendedFacts DEF SameWait
    <3>4. ~TSTAT_DORMANT(a) /\ ~TSTAT_DORMANT(b)
      BY <3>3 DEF TSTAT_WAITING, TSTAT_DORMANT, TS_DORMANT
    <3> HIDE DEF a, b, ts
    <3> QED
      BY <3>1, <3>2, <3>4 DEF Later
  <2> QED
    BY <2>1, <2>2
<1>4. Quiet(k, P) /\ Fields(P)
  <2>1. P = [k EXCEPT !.tstat[t] = sus] /\ Later(k.tstat[t], sus)
    BY <1>3
  <2> HIDE DEF P, sus
  <2>2. Quiet(k, P)
    BY <1>1, <1>3, <2>1, SetQuiet
  <2> QED
    BY <2>2 DEF Quiet, Calm
<1>5. Quiet(k, Q) /\ Fields(Q)
  <2>1. Q = [k EXCEPT !.tstat[t] = run] /\ Later(k.tstat[t], run)
    BY <1>3
  <2> HIDE DEF Q, run
  <2>2. Quiet(k, Q)
    BY <1>1, <1>3, <2>1, SetQuiet
  <2> QED
    BY <2>2 DEF Quiet, Calm
<1>6. TSTAT_WAITING(ts) => Quiet(k, A) /\ Quiet(k, B)
  <2> SUFFICES ASSUME TSTAT_WAITING(ts) PROVE Quiet(k, A) /\ Quiet(k, B)
    OBVIOUS
  <2>1. A = [k EXCEPT !.tstat[t] = a] /\ Later(k.tstat[t], a) /\ a \in TStat
    BY <1>3
  <2>2. B = [k EXCEPT !.tstat[t] = b] /\ Later(k.tstat[t], b) /\ b \in TStat
    BY <1>3
  <2> HIDE DEF A, B, a, b
  <2> QED
    BY <1>1, <2>1, <2>2, SetQuiet
<1> HIDE DEF P, Q, A, B, ts
<1>7. Still(P, p.st) /\ Still(Q, q.st)
  BY <1>4, <1>5, ReadyStill
<1> HIDE DEF p, q
<1>8. Quiet(k, p.st) /\ Quiet(k, q.st)
  BY <1>4, <1>5, <1>7, QuietStill
<1>9. Quiet(k, DispatchIf(p)) /\ Quiet(k, DispatchIf(q))
  <2>1. Fields(p.st) /\ Fields(q.st)
    BY <1>7 DEF Still
  <2> QED
    BY <1>8, <2>1, SwitchStill, QuietStill
<1> QED
  BY <1>2, <1>6, <1>9

LEMMA FlagsQuiet ==
  ASSUME KernelInv(k),
         \/ dis_dsp \/ ena_dsp \/ start_dispatch \/ idle_loop
         \/ tick_entry \/ tick_return
  PROVE  Still(k, k')
<1>1. Fields(k)
  BY LinkedWaits DEF KernelInv
<1>2. CASE dis_dsp
  BY <1>1, <1>2 DEF dis_dsp, Still, Fields
<1>3. CASE ena_dsp
  <2> DEFINE E == [k EXCEPT !.disdsp = FALSE, !.dspflg = k.ipmflg \/ @]
  <2>1. Still(k, E)
    BY <1>1 DEF Still, Fields
  <2>2. k' = E \/ k' = dispatch(E)
    BY <1>3 DEF ena_dsp
  <2> HIDE DEF E
  <2> QED
    BY <2>1, <2>2, SwitchStill DEF Still
<1>4. CASE start_dispatch
  <2> DEFINE D == dispatch(k)
  <2>1. k' = [D EXCEPT !.ini = 0]
    BY <1>4 DEF start_dispatch
  <2>2. Still(k, D)
    BY <1>1, SwitchStill
  <2> HIDE DEF D
  <2> QED
    BY <2>1, <2>2 DEF Still, Fields
<1>5. CASE idle_loop
  <2> DEFINE A == [k EXCEPT !.reqflg = FALSE]
  <2>1. Still(k, A)
    BY <1>1 DEF Still, Fields
  <2>2. k' = dispatch(A)
    BY <1>5 DEF idle_loop
  <2> HIDE DEF A
  <2> QED
    BY <2>1, <2>2, SwitchStill DEF Still
<1>6. CASE tick_entry
  <2> DEFINE h == <<"tick">> \o k.handlers
             m == [t \in Tasks |-> IF k.tmo[t] = -1 THEN -1 ELSE k.tmo[t] - 1]
  <2>1. k' = [k EXCEPT !.handlers = h, !.tmo = m]
    BY <1>6 DEF tick_entry
  <2> HIDE DEF h, m
  <2> QED
    BY <1>1, <2>1 DEF Still, Fields
<1>7. CASE tick_return
  BY <1>1, <1>7, SwitchStill DEF tick_return
<1> QED
  BY <1>2, <1>3, <1>4, <1>5, <1>6, <1>7

LEMMA ActTskQuiet ==
  ASSUME KernelInv(k), NEW t \in Tasks, act_tsk(t), TSTAT_DORMANT(k.tstat[t])
  PROVE  Quiet(k, k')
<1> DEFINE r == make_active(k, t)
<1>1. k.tstat \in [Tasks -> TStat] /\ Fields(k)
  BY LinkedWaits DEF KernelInv
<1>2. k' = DispatchIf(r)
  BY DEF act_tsk
<1>3. Calm(k, r.st) /\ SameWaitq(k, r.st)
  BY <1>1, ReadyCalm, LeaveWaitq DEF Fields
<1> HIDE DEF r
<1>4. Quiet(k, r.st) /\ Fields(r.st)
  BY <1>3 DEF Quiet, SameWaitq, Shrinks, Calm
<1> QED
  BY <1>2, <1>4, SwitchStill, QuietStill

LEMMA RotRdqQuiet ==
  ASSUME KernelInv(k), NEW pri \in Pri, rot_rdq(pri)
  PROVE  Quiet(k, k')
<1> DEFINE r == rotate_ready_queue(k, pri)
<1>1. k.tstat \in [Tasks -> TStat] /\ Fields(k)
  BY LinkedWaits DEF KernelInv
<1>2. k' = DispatchIf(r)
  BY DEF rot_rdq
<1>3. r.st \in KernelState /\ Same(k, r.st) /\ r.st.priority = k.priority
  BY RotateReadyQueue DEF KernelInv, Base, Core
<1> HIDE DEF r
<1>4. Still(k, r.st)
  BY <1>3 DEF Still, Same, KernelState, Fields
<1>5. Still(r.st, DispatchIf(r))
  BY <1>4, SwitchStill DEF Still
<1>6. Still(k, k')
  BY <1>2, <1>4, <1>5 DEF Still
<1> QED
  BY <1>1, <1>6, StillQuiet

LEMMA ProgFacts ==
  ASSUME prog \in Programs
  PROVE  /\ prog.tasks \subseteq Tasks /\ prog.mtxs \subseteq Mutexes
         /\ prog.pris \subseteq Pri
BY MutexAssumption

LEMMA MtxElseStep ==
  ASSUME MtxInv, prog \in Programs, MtxElse, mtx' = mtx
  PROVE  MtxStep
<1>1. KernelInv(k) /\ k.tstat \in [Tasks -> TStat]
  BY MtxFacts
<1> DEFINE Goal == KernelInv(k') /\ Quiet(k, k')
<1>2. ASSUME NEW t \in Tasks, act_tsk(t), TSTAT_DORMANT(k.tstat[t]) PROVE Goal
  BY <1>1, <1>2, ActTsk, ActTskQuiet DEF Step
<1>3. ASSUME NEW t \in Tasks, rel_wai(t) PROVE Goal
  BY <1>1, <1>3, RelWai, RelWaiQuiet DEF Step
<1>4. ASSUME NEW t \in Tasks, sus_tsk(t) \/ rsm_tsk(t) PROVE Goal
  BY <1>1, <1>4, SusTsk, RsmTsk, SusTskQuiet DEF Step
<1>5. ASSUME NEW pri \in Pri, rot_rdq(pri) PROVE Goal
  BY <1>1, <1>5, RotRdq, RotRdqQuiet DEF Step
<1>6. ASSUME \/ dis_dsp \/ ena_dsp \/ start_dispatch \/ idle_loop
             \/ tick_entry \/ tick_return
      PROVE  Goal
  <2>1. Quiet(k, k')
    BY <1>1, <1>6, FlagsQuiet, StillQuiet
  <2>2. ASSUME tick_return PROVE Step(k, k')
    BY <1>1, <2>2, EndHandler DEF tick_return, InTick
  <2>3. Step(k, k')
    BY <1>1, <1>6, <2>2, HoldDispatching, EnaDsp, StartDispatch, IdleLoop, TickEntry
  <2> QED
    BY <2>1, <2>3 DEF Step
<1>7. ASSUME NEW t \in Tasks, signal_time(t) PROVE Goal
  BY <1>1, <1>7, SignalTime, SignalTimeQuiet DEF Step
<1> HIDE DEF Goal
<1>8. Goal
  <2>1. prog.tasks \subseteq Tasks /\ prog.pris \subseteq Pri
    BY ProgFacts
  <2> QED
    BY <1>2, <1>3, <1>4, <1>5, <1>6, <1>7, <2>1 DEF MtxElse, Tick
<1>9. MtxBut(k', mtx, NULL)
  <2>1. Base(k') /\ Calm(k, k') /\ Shrinks(k, k', WaitQueues)
    BY <1>8 DEF Goal, KernelInv, Quiet
  <2> DEFINE R == k'
  <2> HIDE DEF R
  <2>2. Base(R) /\ Calm(k, R) /\ Shrinks(k, R, WaitQueues)
    BY <2>1 DEF R
  <2>3. MtxBut(R, mtx, NULL)
    BY <2>2, MtxFacts, StepKept
  <2> QED
    BY <2>3 DEF R
<1> QED
  BY <1>8, <1>9 DEF MtxStep, Goal


-----------------------------------------------------------------------------
(* How a service of a task ends.                                           *)
LEMMA EndsMtx ==
  ASSUME KernelInv(k), TskCtxUnl, NEW r, Readied(k, r), k' = DispatchIf(r),
         NEW M, MtxBut(r.st, M, NULL), mtx' = M
  PROVE  MtxStep
<1>1. KernelInv(k')
  BY TaskEnds DEF Step
<1> DEFINE R == k'
           A == r.st
<1>2. Base(A) /\ Fields(A) /\ MtxBut(A, M, NULL)
  BY LinkedWaits DEF Readied
<1>3. Base(R) /\ Still(A, R)
  BY <1>1, <1>2, SwitchStill DEF KernelInv
<1>4. R = k'
  OBVIOUS
<1> HIDE DEF R, A
<1>5. MtxBut(R, M, NULL)
  BY <1>2, <1>3, StepStill
<1> QED
  BY <1>1, <1>4, <1>5 DEF MtxStep

LEMMA ReprioReadied ==
  ASSUME NEW S, NEW t, NEW pri, NEW r, Reprio(S, t, pri, r)
  PROVE  Readied(S, r)
BY DEF Reprio, Readied

(* A task locks a free mutex.                                              *)
LEMMA LockedMtx ==
  ASSUME NEW S, Base(S), NEW M, MtxBut(S, M, NULL), NEW t \in Tasks,
         TSTAT_RUNNABLE(S.tstat[t]), NEW m \in Mutexes, M.loctsk[m] = NULL,
         m \in TA_CEILING => M.bpriority[t] >= ceilpri[m],
         NEW N, N = Linked_to(M, m, t), NEW pri, pri = mutex_calc_priority(N, t),
         NEW r, Reprio(S, t, pri, r)
  PROVE  MtxBut(r.st, N, NULL)
<1> DEFINE R == r.st
<1>1. /\ M \in MtxState /\ ListsOK(M) /\ WaitersOK(S, M)
      /\ \A x \in Tasks : OwnerOK(S, M, NULL, x)
  BY DEF MtxBut
<1>2. HandedOver(M, N, m, NULL, t)
  BY <1>1, LockedFacts
<1>3. /\ N \in MtxState /\ ListsOK(N) /\ N.bpriority = M.bpriority
      /\ \A w \in Mutexes : N.loctsk[w] = IF w = m THEN t ELSE M.loctsk[w]
      /\ \A x \in Tasks : Mine(N, x) = IF x = t THEN Mine(M, x) \cup {m}
                                       ELSE Mine(M, x) \ {m}
  BY <1>1, <1>2 DEF HandedOver, MtxState
<1>4. /\ R.tstat = S.tstat /\ SameMembers(S, R)
      /\ \A x \in Tasks : R.priority[x] = IF x = t THEN pri ELSE S.priority[x]
  BY LinkedWaits DEF Reprio
<1> HIDE DEF R
<1>5. WaitersOK(R, N)
  <2> SUFFICES ASSUME NEW w \in Mutexes, NEW y, Linked(R.waitq[w], y)
               PROVE  WaiterOK(R, N, w, y)
    BY DEF WaitersOK
  <2>1. WaiterOK(S, M, w, y)
    BY <1>1, <1>4, PriFacts DEF WaitersOK, SameMembers
  <2>2. w # m /\ N.loctsk[w] = M.loctsk[w]
    BY <1>3, <2>1 DEF WaiterOK
  <2> QED
    BY <1>3, <1>4, <2>1, <2>2 DEF WaiterOK
<1>6. ASSUME NEW x \in Tasks, x # t
      PROVE  OwnerOK(R, N, NULL, x)
  <2>1. OwnerOK(S, M, NULL, x) /\ x # NULL
    BY <1>1, PriFacts
  <2>2. Mine(N, x) = Mine(M, x)
    <3>1. m \notin Mine(M, x)
      BY <1>1, <2>1, MineFacts DEF ListsOK
    <3> QED
      BY <1>3, <1>6, <3>1
  <2>3. /\ N.mutex_queue[x] = <<>> <=> Mine(N, x) = {}
        /\ mutex_calc_priority(N, x)
             = Prio(N.bpriority[x], Mine(N, x) \cap TA_CEILING)
    BY <1>3, MineFacts
  <2>4. /\ M.mutex_queue[x] = <<>> <=> Mine(M, x) = {}
        /\ mutex_calc_priority(M, x)
             = Prio(M.bpriority[x], Mine(M, x) \cap TA_CEILING)
    BY <1>1, MineFacts
  <2>5. mutex_calc_priority(N, x) = mutex_calc_priority(M, x)
    BY <1>3, <2>2, <2>3, <2>4
  <2>6. M.mutex_queue[x] = <<>> => N.mutex_queue[x] = <<>>
    BY <2>2, <2>3, <2>4
  <2>7. \A w \in TA_CEILING : N.loctsk[w] = x => M.loctsk[w] = x
    BY <1>3, <1>6, PriFacts
  <2> QED
    BY <1>3, <1>4, <1>6, <2>1, <2>5, <2>6, <2>7 DEF OwnerOK
<1>7. OwnerOK(R, N, NULL, t)
  <2>1. OwnerOK(S, M, NULL, t)
    BY <1>1
  <2>2. ~TSTAT_DORMANT(R.tstat[t])
    BY <1>4 DEF TSTAT_DORMANT, TSTAT_RUNNABLE, TS_DORMANT
  <2>3. \A w \in TA_CEILING : N.loctsk[w] = t => N.bpriority[t] >= ceilpri[w]
    BY <1>3, <2>1, PriFacts DEF OwnerOK
  <2> QED
    BY <1>4, <2>2, <2>3 DEF OwnerOK
<1>8. MtxBut(R, N, NULL)
  BY <1>3, <1>5, <1>6, <1>7 DEF MtxBut
<1> QED
  BY <1>8 DEF R

LEMMA LockStep ==
  ASSUME MtxInv, TskCtxUnl, NEW m \in Mutexes, Lock(m)
  PROVE  MtxStep
<1> DEFINE t == k.runtsk
           N == Linked_to(mtx, m, t)
           p == mutex_calc_priority(N, t)
           r == mutex_acquire(k, t, m)
<1>1. /\ t \in Tasks /\ TSTAT_RUNNABLE(k.tstat[t])
      /\ k.dspflg => k.schedtsk = t
  BY MtxFacts, TskCtxFacts DEF TskCtxUnl
<1>2. /\ mtx.loctsk[m] = NULL /\ k' = r.st /\ mtx' = N
      /\ m \in TA_CEILING => mtx.bpriority[t] >= ceilpri[m]
  BY DEF Lock, MayLock
<1>3. N = Linked_to(mtx, m, t) /\ p = mutex_calc_priority(N, t)
      /\ r = mutex_acquire(k, t, m)
  OBVIOUS
<1> HIDE DEF t, N, p, r
<1>4. HandedOver(mtx, N, m, NULL, t)
  BY <1>1, <1>2, <1>3, MtxFacts, LockedFacts
<1>5. N \in MtxState /\ N.bpriority = mtx.bpriority /\ Mine(N, t) = Mine(mtx, t) \cup {m}
  BY <1>1, <1>4 DEF HandedOver
<1>6. k.priority[t] = mutex_calc_priority(mtx, t) /\ Base(k) /\ mtx \in MtxState
      /\ KernelInv(k) /\ MtxBut(k, mtx, NULL)
  BY <1>1, MtxFacts
<1>7. Reprio(k, t, p, r) /\ ~r.dsp
  BY <1>1, <1>3, <1>5, <1>6, Acquire
<1>8. MtxBut(r.st, N, NULL)
  BY <1>1, <1>2, <1>3, <1>6, <1>7, LockedMtx
<1>9. k' = DispatchIf(r)
  BY <1>2, <1>7 DEF DispatchIf
<1> QED
  BY <1>2, <1>6, <1>7, <1>8, <1>9, ReprioReadied, EndsMtx


(* What is the state of a task that starts to wait, and its priority.      *)
LEMMA WaitState ==
  ASSUME NEW S, Base(S), NEW t, S.runtsk = t, t \in Tasks,
         TSTAT_RUNNABLE(S.tstat[t]), NEW m,
         NEW tmout \in Nat \cup {TMO_FEVR}, NEW reason \in WaitReason,
         NEW R, R = wobj_make_wait_tmout(S, reason, m, tmout)
  PROVE  /\ R.tstat = [S.tstat EXCEPT ![t] = TS_WAITING(reason)]
         /\ R.priority = S.priority
<1> DEFINE A == make_wait(S, reason)
           B == tmevtb_enqueue(A, t, tmout)
           W == make_wait_tmout(S, reason, tmout)
           X == {t}
<1>1. A = make_wait(S, reason) /\ B = tmevtb_enqueue(A, t, tmout) /\ X = {S.runtsk}
      /\ t \in X
  OBVIOUS
<1>2. R = wobj_queue_insert(W, m)
  BY DEF wobj_make_wait_tmout
<1>3. W = IF tmout > 0 THEN B ELSE A
  BY DEF make_wait_tmout
<1> HIDE DEF A, B, W, X
<1>4. /\ BaseBut(A, X) /\ A.tstat = [S.tstat EXCEPT ![t] = TS_WAITING(reason)]
      /\ A.priority = S.priority
  BY <1>1, MakeWait
<1>5. tmout \in Nat => BaseBut(B, X) /\ Retimed(A, B, t, tmout + 1)
  BY <1>1, <1>4, EnqueueTmevtb
<1>6. /\ W \in KernelState /\ W.tstat = A.tstat /\ W.priority = A.priority
  <2>1. CASE tmout > 0
    <3>1. tmout \in Nat
      BY <2>1 DEF TMO_FEVR
    <3> QED
      BY <1>3, <1>5, <2>1, <3>1 DEF Retimed
  <2>2. CASE ~(tmout > 0)
    BY <1>3, <1>4, <2>2 DEF BaseBut, Core
  <2> QED
    BY <2>1, <2>2
<1>7. R.tstat = W.tstat /\ R.priority = W.priority
  BY <1>2, <1>6 DEF wobj_queue_insert, KernelState
<1> QED
  BY <1>4, <1>6, <1>7

(* A task waits for a mutex.                                               *)
LEMMA WaitsMtx ==
  ASSUME NEW S, Base(S), NEW M, MtxBut(S, M, NULL), NEW t \in Tasks,
         TSTAT_RUNNABLE(S.tstat[t]), NEW m \in Mutexes,
         M.loctsk[m] \notin {NULL, t},
         m \in TA_CEILING => M.bpriority[t] >= ceilpri[m],
         NEW R, Joins(S, R, m, t), R.priority = S.priority,
         R.tstat = [S.tstat EXCEPT ![t] = TS_WAITING("WAIT_MTX")]
  PROVE  MtxBut(R, M, NULL)
<1>1. /\ M \in MtxState /\ ListsOK(M) /\ WaitersOK(S, M)
      /\ \A x \in Tasks : OwnerOK(S, M, NULL, x)
  BY DEF MtxBut
<1>2. \A x \in Tasks : R.tstat[x] = IF x = t THEN TS_WAITING("WAIT_MTX") ELSE S.tstat[x]
  BY LinkedWaits
<1>3. TSTAT_WAIT_MTX(TS_WAITING("WAIT_MTX")) /\ ~TSTAT_DORMANT(TS_WAITING("WAIT_MTX"))
  BY DEF TSTAT_WAIT_MTX, TSTAT_DORMANT, TS_WAITING, TS_DORMANT
<1>4. WaitersOK(R, M)
  <2> SUFFICES ASSUME NEW w \in Mutexes, NEW y, Linked(R.waitq[w], y)
               PROVE  WaiterOK(R, M, w, y)
    BY DEF WaitersOK
  <2>1. CASE w = m /\ y = t
    BY <1>2, <1>3, <2>1 DEF WaiterOK
  <2>2. CASE ~(w = m /\ y = t)
    <3>1. Linked(S.waitq[w], y)
      BY <2>2, PriFacts DEF Joins
    <3>2. WaiterOK(S, M, w, y) /\ TSTAT_WAITING(S.tstat[y]) /\ y \in Tasks
      BY <1>1, <3>1, LinkedWaits, PriFacts DEF WaitersOK, LinkedWait
    <3>3. y # t
      BY <3>2, LinkedWaits, TStatFacts
    <3> QED
      BY <1>2, <3>2, <3>3 DEF WaiterOK
  <2> QED
    BY <2>1, <2>2
<1>5. \A x \in Tasks : OwnerOK(R, M, NULL, x)
  BY <1>1, <1>2, <1>3 DEF OwnerOK
<1> QED
  BY <1>1, <1>4, <1>5 DEF MtxBut

LEMMA WaitStep ==
  ASSUME MtxInv, CanDispatch, NEW m \in Mutexes, MayLock(m),
         mtx.loctsk[m] \notin {NULL, k.runtsk},
         NEW tmout \in Nat \cup {TMO_FEVR},
         k' = dispatch(wobj_make_wait_tmout(k, "WAIT_MTX", m, tmout)),
         mtx' = mtx
  PROVE  MtxStep
<1> DEFINE t == k.runtsk
           reason == "WAIT_MTX"
           W == wobj_make_wait_tmout(k, reason, m, tmout)
           R == k'
<1>1. /\ t = k.runtsk /\ t \in Tasks /\ TSTAT_RUNNABLE(k.tstat[t])
      /\ Base(k) /\ KernelInv(k) /\ MtxBut(k, mtx, NULL)
      /\ m \in TA_CEILING => mtx.bpriority[t] >= ceilpri[m]
  BY MtxFacts, TskCtxFacts DEF TskCtxUnl, CanDispatch, MayLock
<1>2. /\ reason = "WAIT_MTX" /\ W = wobj_make_wait_tmout(k, reason, m, tmout)
      /\ k' = dispatch(W) /\ R = k' /\ mtx.loctsk[m] \notin {NULL, t}
  OBVIOUS
<1>3. MayQueue(m, reason) /\ reason \in WaitReason
  BY PriFacts DEF MayQueue, TS_WAIT_WOBJ, TS_WAIT_WOBJCB, WaitReason
<1> HIDE DEF t, reason, W
<1>4. KernelInv(k') /\ Joins(k, k', m, t)
  BY <1>1, <1>2, <1>3, StartsToWait
<1>5. W.tstat = [k.tstat EXCEPT ![t] = TS_WAITING(reason)] /\ W.priority = k.priority
  BY <1>1, <1>2, <1>3, WaitState
<1>6. Queued(k, W, m, t)
  BY <1>1, <1>2, <1>3, QueueWait
<1>7. Still(W, k')
  BY <1>2, <1>6, LinkedWaits, SwitchStill DEF Queued
<1> HIDE DEF R
<1>8. /\ Joins(k, R, m, t) /\ R.priority = k.priority
      /\ R.tstat = [k.tstat EXCEPT ![t] = TS_WAITING("WAIT_MTX")]
  BY <1>2, <1>4, <1>5, <1>7 DEF Still
<1>9. MtxBut(R, mtx, NULL)
  BY <1>1, <1>2, <1>8, WaitsMtx
<1> QED
  BY <1>2, <1>4, <1>9 DEF MtxStep

LEMMA LocMtx ==
  ASSUME MtxInv, NEW m \in Mutexes,
         \/ loc_mtx(m) \/ ploc_mtx(m) \/ \E tmout \in Timeout : tloc_mtx(m, tmout)
  PROVE  MtxStep
<1>1. ASSUME TskCtxUnl, Lock(m) PROVE MtxStep
  BY <1>1, LockStep
<1>2. ASSUME NEW tmout \in Nat \cup {TMO_FEVR}, tloc_mtx(m, tmout) PROVE MtxStep
  BY <1>1, <1>2, WaitStep DEF tloc_mtx, CanDispatch
<1>3. Timeout \subseteq Nat
  BY TaskSyncAssumption DEF Timeout
<1>4. loc_mtx(m) => MtxStep
  BY <1>2 DEF loc_mtx
<1>5. ploc_mtx(m) => MtxStep
  BY <1>1 DEF ploc_mtx
<1> QED
  BY <1>2, <1>3, <1>4, <1>5


(* What a task has when it has given up m.                                 *)
GaveUp(M, N, t, m) ==
  /\ N \in MtxState /\ N.bpriority = M.bpriority
  /\ Mine(N, t) = Mine(M, t) \ {m}

(* Then its priority is computed anew, when that may be needed.            *)
LEMMA Dropped ==
  ASSUME NEW S, Base(S), NEW M, MtxBut(S, M, NULL), NEW t \in Tasks,
         NEW m \in Mutexes, NEW N, GaveUp(M, N, t, m),
         NEW d, d = Drop(S, N, m, t)
  PROVE  /\ Readied(S, d) /\ SameMembers(S, d.st)
         /\ MtxBut(d.st, M, t)
         /\ d.st.priority[t] = mutex_calc_priority(N, t)
<1> DEFINE p == mutex_calc_priority(N, t)
<1>1. p = mutex_calc_priority(N, t)
  OBVIOUS
<1> HIDE DEF p
<1>2. M \in MtxState /\ S.priority[t] = mutex_calc_priority(M, t)
  BY PriFacts DEF MtxBut, OwnerOK
<1>3. Reprio(S, t, p, d)
  BY <1>1, <1>2, DropPriority DEF GaveUp
<1>4. S.priority \in [Tasks -> Pri]
  BY LinkedWaits
<1>5. MtxBut(d.st, M, t)
  BY <1>3, <1>4, MtxReprio
<1>6. d.st.priority[t] = p
  BY <1>3, <1>4 DEF Reprio
<1>7. Readied(S, d) /\ SameMembers(S, d.st)
  BY <1>3, ReprioReadied DEF Reprio
<1> QED
  BY <1>1, <1>5, <1>6, <1>7

LEMMA GivenUp ==
  ASSUME NEW D, NEW M, NEW t \in Tasks, MtxBut(D, M, t), NEW m \in Mutexes,
         M.loctsk[m] = t, NEW u, NEW R, LinkedWait(R), Gives(D, R, m, u),
         NEW P, GaveUp(M, P, t, m),
         D.priority[t] = mutex_calc_priority(P, t),
         NEW N, N = Passed(Unlinked(M, m, t), m, u)
  PROVE  MtxBut(R, N, NULL)
<1>1. MtxBut(R, N, t) /\ Mine(N, t) = Mine(M, t) \ {m} /\ u # t
  BY PassOn
<1>2. M \in MtxState /\ ListsOK(M) /\ u \in Tasks \cup {NULL}
  BY DEF MtxBut, Gives
<1>3. HandedOver(M, N, m, t, u)
  BY <1>1, <1>2, PassedFacts
<1>4. N \in MtxState /\ N.bpriority = P.bpriority /\ Mine(N, t) = Mine(P, t)
      /\ P \in MtxState
  BY <1>1, <1>3 DEF HandedOver, GaveUp
<1>5. /\ mutex_calc_priority(N, t)
           = Prio(N.bpriority[t], Mine(N, t) \cap TA_CEILING)
      /\ mutex_calc_priority(P, t)
           = Prio(P.bpriority[t], Mine(P, t) \cap TA_CEILING)
  BY <1>4, MineFacts
<1>6. mutex_calc_priority(N, t) = mutex_calc_priority(P, t)
  BY <1>4, <1>5
<1>7. R.priority[t] = D.priority[t]
  BY <1>1 DEF Gives
<1>8. R.priority[t] = mutex_calc_priority(N, t)
  BY <1>6, <1>7
<1> QED
  BY <1>1, <1>8, MtxExempt

LEMMA UnlMtx ==
  ASSUME MtxInv, NEW m \in Mutexes, unl_mtx(m)
  PROVE  MtxStep
<1> DEFINE t == k.runtsk
           P == Unlinked(mtx, m, t)
           d == Drop(k, P, m, t)
           D == d.st
           r == mutex_release(D, m)
           u == NextOwner(D, m)
           N == Passed(P, m, u)
           a == [st |-> r.st, dsp |-> d.dsp \/ r.dsp]
<1>1. /\ t \in Tasks /\ KernelInv(k) /\ Base(k) /\ MtxBut(k, mtx, NULL)
      /\ mtx \in MtxState /\ ListsOK(mtx)
  BY MtxFacts, TskCtxFacts DEF unl_mtx, TskCtxUnl
<1>2. /\ TskCtxUnl /\ mtx.loctsk[m] = t /\ k' = DispatchIf(a) /\ mtx' = N
      /\ a = [st |-> r.st, dsp |-> d.dsp \/ r.dsp]
  BY DEF unl_mtx
<1>3. /\ P = Unlinked(mtx, m, t) /\ d = Drop(k, P, m, t) /\ D = d.st
      /\ r = mutex_release(D, m) /\ u = NextOwner(D, m)
      /\ N = Passed(Unlinked(mtx, m, t), m, u)
  OBVIOUS
<1> HIDE DEF t, P, d, D, r, u, N, a
<1>4. GaveUp(mtx, P, t, m)
  BY <1>1, <1>2, <1>3, UnlinkedFacts DEF GaveUp
<1>5. /\ Readied(k, d) /\ MtxBut(D, mtx, t)
      /\ D.priority[t] = mutex_calc_priority(P, t)
  BY <1>1, <1>3, <1>4, Dropped
<1>6. Base(D)
  BY <1>3, <1>5 DEF Readied
<1>7. Readied(D, r) /\ Gives(D, r.st, m, u)
  BY <1>3, <1>6, Release
<1>8. LinkedWait(r.st)
  BY <1>7, LinkedWaits DEF Readied
<1>9. MtxBut(r.st, N, NULL)
  BY <1>1, <1>2, <1>3, <1>4, <1>5, <1>7, <1>8, GivenUp
<1>10. Readied(k, a)
  BY <1>2, <1>3, <1>5, <1>7, ReadiedTrans
<1>11. MtxBut(a.st, N, NULL)
  BY <1>2, <1>9
<1> QED
  BY <1>1, <1>2, <1>10, <1>11, EndsMtx

(* The queue of m is empty.                                                *)
LEMMA GivesNobody ==
  ASSUME NEW D, NEW m \in Mutexes, \A y : ~Linked(D.waitq[m], y), NEW u, u = NULL
  PROVE  Gives(D, D, m, u)
BY PriFacts DEF Gives, Later

LEMMA IniMtx ==
  ASSUME MtxInv, NEW m \in Mutexes, ini_mtx(m)
  PROVE  MtxStep
<1> DEFINE t == mtx.loctsk[m]
           i == init_wait_queue(k, m)
           I == i.st
           u == NULL
           N == Passed(Unlinked(mtx, m, t), m, u)
           d == Drop(I, N, m, t)
           D == d.st
           a == [st |-> D, dsp |-> i.dsp \/ d.dsp]
           q == <<>>
<1>1. /\ KernelInv(k) /\ Base(k) /\ MtxBut(k, mtx, NULL)
      /\ mtx \in MtxState /\ ListsOK(mtx)
      /\ k.waitq \in [WaitQueues -> Seq(Tasks)] /\ m \in WaitQueues
  BY MtxFacts, LinkedWaits, PriFacts
<1>2. /\ TskCtxUnl
      /\ \/ t = NULL /\ k' = DispatchIf(i) /\ mtx' = mtx
         \/ t # NULL /\ mtx' = N /\ k' = DispatchIf(a)
  BY DEF ini_mtx
<1>3. /\ t = mtx.loctsk[m] /\ N = Passed(Unlinked(mtx, m, t), m, u) /\ u = NULL
      /\ d = Drop(I, N, m, t) /\ D = d.st /\ I = i.st
      /\ a = [st |-> D, dsp |-> i.dsp \/ d.dsp]
      /\ i = init_wait_queue(k, m) /\ q = <<>>
  OBVIOUS
<1>4. \A y : ~Linked(q, y)
  BY EmptyQueue
<1> HIDE DEF t, i, I, N, d, D, a, q, u
<1>5. Readied(k, i) /\ Calm(k, I) /\ I.waitq = [k.waitq EXCEPT ![m] = q]
  BY <1>1, <1>3, ReleaseCalm
<1>6. Base(I)
  BY <1>3, <1>5 DEF Readied
<1>7. Shrinks(k, I, WaitQueues)
  BY <1>1, <1>4, <1>5, ShrinksOne
<1>8. MtxBut(I, mtx, NULL)
  BY <1>1, <1>5, <1>6, <1>7, StepKept
<1>9. CASE t = NULL
  BY <1>1, <1>2, <1>3, <1>5, <1>8, <1>9, EndsMtx
<1>10. CASE t # NULL
  <2>1. t \in Tasks
    BY <1>1, <1>3, <1>10 DEF MtxState
  <2>2. HandedOver(mtx, N, m, t, u)
    BY <1>1, <1>3, <1>10, <2>1, PassedFacts
  <2>3. GaveUp(mtx, N, t, m)
    BY <1>3, <1>10, <2>1, <2>2 DEF HandedOver, GaveUp
  <2>4. /\ Readied(I, d) /\ SameMembers(I, D) /\ MtxBut(D, mtx, t)
        /\ D.priority[t] = mutex_calc_priority(N, t)
    BY <1>3, <1>6, <1>8, <2>1, <2>3, Dropped
  <2>5. \A y : ~Linked(D.waitq[m], y)
    BY <1>1, <1>4, <1>5, <2>4 DEF SameMembers
  <2>6. Gives(D, D, m, u)
    BY <1>3, <2>5, GivesNobody
  <2>7. LinkedWait(D)
    BY <1>3, <2>4, LinkedWaits DEF Readied
  <2>8. MtxBut(D, N, NULL)
    BY <1>3, <2>1, <2>3, <2>4, <2>6, <2>7, GivenUp
  <2>9. Readied(k, a)
    BY <1>3, <1>5, <2>4, ReadiedTrans
  <2>10. MtxBut(a.st, N, NULL)
    BY <1>3, <2>8
  <2> QED
    BY <1>1, <1>2, <1>10, <2>9, <2>10, EndsMtx
<1> QED
  BY <1>9, <1>10


-----------------------------------------------------------------------------
(* The priority of a task is changed, and it is initialized.               *)

WithBase(M, t, b) == [M EXCEPT !.bpriority[t] = b]

LEMMA SetBase ==
  ASSUME NEW S, NEW M, MtxBut(S, M, NULL), NEW t \in Tasks, NEW b \in Pri,
         \A p \in Ceilings(M, t) : b >= p,
         \A m \in TA_CEILING : Linked(S.waitq[m], t) => b >= ceilpri[m],
         NEW N, N = WithBase(M, t, b)
  PROVE  /\ MtxBut(S, N, t)
         /\ Ceilings(M, t) = {} => mutex_calc_priority(N, t) = b
         /\ Ceilings(M, t) # {} => MtxBut(S, N, NULL)
<1>1. /\ M \in MtxState /\ ListsOK(M) /\ WaitersOK(S, M)
      /\ \A x \in Tasks : OwnerOK(S, M, NULL, x)
  BY DEF MtxBut
<1>2. /\ N \in MtxState /\ N.mutex_queue = M.mutex_queue /\ N.loctsk = M.loctsk
      /\ \A x \in Tasks : N.bpriority[x] = IF x = t THEN b ELSE M.bpriority[x]
  BY <1>1 DEF WithBase, MtxState
<1> DEFINE C == Mine(M, t) \cap TA_CEILING
           c == M.bpriority[t]
<1>3. /\ c \in Pri /\ C \in SUBSET TA_CEILING
      /\ mutex_calc_priority(M, t) = Prio(c, C)
  BY <1>1, MineFacts
<1>4. mutex_calc_priority(N, t) = Prio(b, C)
  <2>1. Mine(N, t) = Mine(M, t) /\ N.bpriority[t] = b
    BY <1>2 DEF Mine
  <2>2. mutex_calc_priority(N, t) = Prio(N.bpriority[t], Mine(N, t) \cap TA_CEILING)
    BY <1>2, MineFacts
  <2> QED
    BY <2>1, <2>2
<1>5. Ceilings(M, t) = {ceilpri[m] : m \in C}
  BY DEF Ceilings, Mine
<1>6. \A m \in C : M.loctsk[m] = t /\ m \in TA_CEILING
  BY <1>1, MineFacts DEF ListsOK
<1>7. \A m \in TA_CEILING : M.loctsk[m] = t => m \in C
  BY <1>1, MineFacts, PriFacts DEF ListsOK
<1> HIDE DEF C, c
<1>8. \A m \in C : b >= ceilpri[m]
  BY <1>5
<1>9. ListsOK(N)
  BY <1>1, <1>2 DEF ListsOK
<1>10. WaitersOK(S, N)
  <2> SUFFICES ASSUME NEW m \in Mutexes, NEW y, Linked(S.waitq[m], y)
               PROVE  WaiterOK(S, N, m, y)
    BY DEF WaitersOK
  <2>1. WaiterOK(S, M, m, y)
    BY <1>1 DEF WaitersOK
  <2> QED
    BY <1>2, <2>1 DEF WaiterOK
<1>11. ASSUME NEW x \in Tasks, x # t
       PROVE  OwnerOK(S, N, t, x) /\ OwnerOK(S, N, NULL, x)
  <2>1. OwnerOK(S, M, NULL, x) /\ x # NULL
    BY <1>1, PriFacts
  <2>2. N.bpriority[x] = M.bpriority[x]
    BY <1>2, <1>11
  <2>3. mutex_calc_priority(N, x) = mutex_calc_priority(M, x)
    BY <1>2, <2>2 DEF mutex_calc_priority, Ceilings
  <2> QED
    BY <1>2, <2>1, <2>2, <2>3 DEF OwnerOK
<1>12. OwnerOK(S, N, t, t)
  <2>1. OwnerOK(S, M, NULL, t)
    BY <1>1
  <2>2. \A m \in TA_CEILING : N.loctsk[m] = t => N.bpriority[t] >= ceilpri[m]
    BY <1>2, <1>7, <1>8
  <2> QED
    BY <1>2, <2>1, <2>2 DEF OwnerOK
<1>13. MtxBut(S, N, t)
  BY <1>2, <1>9, <1>10, <1>11, <1>12 DEF MtxBut
<1>14. ASSUME Ceilings(M, t) = {} PROVE mutex_calc_priority(N, t) = b
  <2>1. C = {}
    BY <1>5, <1>14
  <2> QED
    BY <1>4, <2>1, PrioNone
<1>15. ASSUME Ceilings(M, t) # {} PROVE MtxBut(S, N, NULL)
  <2>1. C # {}
    BY <1>5, <1>15
  <2>2. \A m \in C : c >= ceilpri[m]
    BY <1>1, <1>6 DEF OwnerOK, c
  <2>3. Prio(b, C) = Prio(c, C)
    BY <1>3, <1>8, <2>1, <2>2, PrioBase
  <2>4. S.priority[t] = mutex_calc_priority(M, t)
    BY <1>1, PriFacts DEF OwnerOK
  <2>5. S.priority[t] = mutex_calc_priority(N, t)
    BY <1>3, <1>4, <2>3, <2>4
  <2> QED
    BY <1>13, <2>5, MtxExempt
<1> QED
  BY <1>13, <1>14, <1>15

(* A task waits in one queue.                                              *)
LEMMA TheQueue ==
  ASSUME NEW S, Base(S), NEW w \in WaitQueues, NEW t, Linked(S.waitq[w], t)
  PROVE  WaitQueueOf(S, t) = w
<1>1. \A v \in WaitQueues : Linked(S.waitq[v], t) => v = w
  BY DEF Base, Waits, QueuedOK
<1> QED
  BY <1>1 DEF WaitQueueOf

LEMMA ChgPriMtx ==
  ASSUME MtxInv, NEW t \in Tasks, NEW pri \in Pri, chg_pri_mtx(t, pri)
  PROVE  MtxStep
<1> DEFINE N == WithBase(mtx, t, pri)
           r == change_priority(k, t, pri)
<1>1. /\ KernelInv(k) /\ Base(k) /\ MtxBut(k, mtx, NULL) /\ WaitersOK(k, mtx)
      /\ k.priority \in [Tasks -> Pri]
  BY MtxFacts, LinkedWaits
<1>2. /\ TskCtxUnl /\ mutex_check_ceilpri(k, mtx, t, pri) /\ mtx' = N
      /\ k' = IF Ceilings(mtx, t) # {} THEN k ELSE DispatchIf(r)
  BY DEF chg_pri_mtx, mutex_scan_ceilmtx, WithBase
<1>3. \A p \in Ceilings(mtx, t) : pri >= p
  BY <1>2 DEF mutex_check_ceilpri
<1>4. ASSUME NEW m \in TA_CEILING, Linked(k.waitq[m], t) PROVE pri >= ceilpri[m]
  <2>1. WaiterOK(k, mtx, m, t) /\ m \in WaitQueues
    BY <1>1, <1>4, PriFacts DEF WaitersOK
  <2>2. WaitQueueOf(k, t) = m
    BY <1>1, <1>4, <2>1, TheQueue
  <2> QED
    BY <1>2, <2>1, <2>2 DEF mutex_check_ceilpri, WaiterOK
<1>5. N = WithBase(mtx, t, pri) /\ r = change_priority(k, t, pri)
  OBVIOUS
<1> HIDE DEF N, r
<1>6. /\ MtxBut(k, N, t)
      /\ Ceilings(mtx, t) = {} => mutex_calc_priority(N, t) = pri
      /\ Ceilings(mtx, t) # {} => MtxBut(k, N, NULL)
  BY <1>1, <1>3, <1>4, <1>5, SetBase
<1>7. CASE Ceilings(mtx, t) # {}
  <2>1. k' = k
    BY <1>2, <1>7
  <2> QED
    BY <1>1, <1>2, <1>6, <1>7, <2>1 DEF MtxStep
<1>8. CASE Ceilings(mtx, t) = {}
  <2>1. Reprio(k, t, pri, r)
    BY <1>1, <1>5, ChangePriority
  <2>2. MtxBut(r.st, N, NULL)
    BY <1>1, <1>6, <1>8, <2>1, MtxReprio
  <2>3. k' = DispatchIf(r)
    BY <1>2, <1>8
  <2> QED
    BY <1>1, <1>2, <2>1, <2>2, <2>3, ReprioReadied, EndsMtx
<1> QED
  BY <1>7, <1>8

LEMMA InitializeTaskMtx ==
  ASSUME MtxInv, initialize_task_mtx
  PROVE  MtxStep
<1> DEFINE t == torder[k.ini]
           D == make_dormant(k, t)
           I == [D EXCEPT !.ini = @ + 1]
           A == [I EXCEPT !.tstat[t] = TS_RUNNABLE]
           N == make_dormant_mtx(mtx, t)
           R == k'
<1>1. /\ KernelInv(k) /\ Base(k) /\ MtxBut(k, mtx, NULL) /\ Fields(k)
      /\ k.tstat \in [Tasks -> TStat] /\ k \in KernelState
  BY MtxFacts DEF Base, Core
<1>2. /\ initialize_task /\ mtx' = N /\ KernelInv(k')
  BY <1>1, InitializeTask DEF initialize_task_mtx, Step
<1>3. k.ini \in DOMAIN torder /\ k.ini # 0 /\ t \in Tasks /\ k.ini \in Nat
  BY <1>2, TaskManageAssumption DEF initialize_task
<1>4. k.tstat[t] = TS_DORMANT
  BY <1>1, <1>3 DEF KernelInv, Starting
<1>5. k' = IF t \in TA_ACT THEN make_runnable(A, t).st ELSE I
  BY <1>2 DEF initialize_task, make_active
<1> HIDE DEF t
<1>6. /\ D.waitq = k.waitq /\ D.priority = [k.priority EXCEPT ![t] = ipriority[t]]
      /\ D.tstat = [k.tstat EXCEPT ![t] = TS_DORMANT]
      /\ Fields(D)
  BY <1>1 DEF make_dormant, Fields
<1> HIDE DEF D
<1>7. I.waitq = D.waitq /\ I.priority = D.priority /\ I.tstat = D.tstat /\ Fields(I)
  BY <1>6 DEF Fields
<1> HIDE DEF I
<1>8. /\ A.waitq = I.waitq /\ A.priority = I.priority /\ Fields(A)
      /\ A.tstat = [I.tstat EXCEPT ![t] = TS_RUNNABLE]
  BY <1>7 DEF Fields
<1> HIDE DEF A
<1>9. Still(A, make_runnable(A, t).st)
  BY <1>8, ReadyStill
<1>10. /\ R.waitq = k.waitq /\ R.priority = [k.priority EXCEPT ![t] = ipriority[t]]
       /\ \A u \in Tasks \ {t} : R.tstat[u] = k.tstat[u]
  BY <1>1, <1>5, <1>6, <1>7, <1>8, <1>9 DEF Still
<1>11. R = k' /\ N = make_dormant_mtx(mtx, t)
  BY DEF t
<1> HIDE DEF R, N
<1>12. Reset(k, R, t)
  BY <1>10 DEF Reset
<1>13. ~TSTAT_WAITING(k.tstat[t]) /\ TSTAT_DORMANT(k.tstat[t])
  BY <1>4 DEF TSTAT_WAITING, TSTAT_DORMANT, TS_DORMANT
<1>14. ~Locks(mtx, t)
  BY <1>3, <1>13, MtxFacts DEF OwnerOK, Locks
<1>15. MtxBut(k, mtx, t)
  BY <1>1, MtxExempt
<1>16. MtxBut(R, N, NULL)
  BY <1>1, <1>3, <1>11, <1>12, <1>13, <1>14, <1>15, DormantMtx
<1> QED
  BY <1>2, <1>11, <1>16 DEF MtxStep


-----------------------------------------------------------------------------
(* The whole kernel with mutexes.                                          *)
LEMMA MtxInitInv == MtxInit => MtxInv /\ prog \in Programs
<1> SUFFICES ASSUME MtxInit PROVE MtxInv
  BY DEF MtxInit
<1>1. KernelInv(k) /\ Init
  BY InitInv DEF MtxInit
<1>2. mtx = [bpriority |-> ipriority,
             mutex_queue |-> [t \in Tasks |-> <<>>],
             loctsk |-> [m \in Mutexes |-> NULL]]
  BY DEF MtxInit, initialize_mutex
<1>3. /\ mtx.bpriority = ipriority
      /\ \A t \in Tasks : mtx.mutex_queue[t] = <<>>
      /\ \A m \in Mutexes : mtx.loctsk[m] = NULL
  BY <1>2
<1>4. mtx \in MtxState
  <2>1. <<>> \in Seq(Mutexes)
    OBVIOUS
  <2> QED
    BY <1>2, <2>1, TaskAssumption DEF MtxState
<1>5. \A y : ~Linked(<<>>, y)
  BY EmptyQueue
<1>6. ListsOK(mtx)
  BY <1>3, <1>5, PriFacts, EmptyQueue DEF ListsOK, QueueOK
<1>7. WaitersOK(k, mtx)
  <2>1. \A w \in WaitQueues : k.waitq[w] = <<>>
    BY <1>1 DEF Init, KernelInit
  <2> QED
    BY <1>5, <2>1, PriFacts DEF WaitersOK
<1>8. ASSUME NEW t \in Tasks PROVE OwnerOK(k, mtx, NULL, t)
  <2> DEFINE C == Mine(mtx, t) \cap TA_CEILING
             b == mtx.bpriority[t]
  <2>1. C = {} /\ b \in Pri /\ mutex_calc_priority(mtx, t) = Prio(b, C)
    BY <1>3, <1>4, MineFacts
  <2>2. k.priority[t] = b
    BY <1>1, <1>3 DEF Init, KernelInit
  <2>3. mutex_calc_priority(mtx, t) = b
    <3> HIDE DEF C, b
    <3> QED
      BY <2>1, PrioNone
  <2>4. \A m \in TA_CEILING : mtx.loctsk[m] # t
    BY <1>3, PriFacts
  <2> QED
    BY <1>3, <2>2, <2>3, <2>4 DEF OwnerOK
<1>9. MtxBut(k, mtx, NULL)
  BY <1>4, <1>6, <1>7, <1>8 DEF MtxBut
<1> QED
  BY <1>1, <1>9 DEF MtxInv

LEMMA MtxNextStep ==
  ASSUME MtxInv, prog \in Programs, MtxNext
  PROVE  MtxStep
<1>1. prog.tasks \subseteq Tasks /\ prog.mtxs \subseteq Mutexes /\ prog.pris \subseteq Pri
  BY ProgFacts
<1>2. CASE \E m \in prog.mtxs : MtxServices(m)
  BY <1>1, <1>2, LocMtx, UnlMtx, IniMtx DEF MtxServices
<1>3. CASE \E t \in prog.tasks : MtxTaskServices(t)
  BY <1>1, <1>3, TerTskMtx, ChgPriMtx DEF MtxTaskServices
<1>4. CASE ext_tsk_mtx
  BY <1>4, ExtTskMtx
<1>5. CASE initialize_task_mtx
  BY <1>5, InitializeTaskMtx
<1>6. CASE MtxElse /\ UNCHANGED mtx
  BY <1>6, MtxElseStep
<1> QED
  BY <1>2, <1>3, <1>4, <1>5, <1>6 DEF MtxNext

(* The invariant is inductive.                                             *)
LEMMA MtxAlways == MtxSpec => []MtxInv
<1> DEFINE Inv == MtxInv /\ prog \in Programs
<1>1. Inv /\ [MtxNext]_<<k, mtx, prog>> => Inv'
  <2> SUFFICES ASSUME Inv, [MtxNext]_<<k, mtx, prog>> PROVE Inv'
    OBVIOUS
  <2>1. CASE MtxNext
    <3>1. MtxStep
      BY <2>1, MtxNextStep
    <3>2. prog' = prog
      BY <2>1 DEF MtxNext
    <3> QED
      BY <3>1, <3>2 DEF MtxStep, MtxInv
  <2>2. CASE UNCHANGED <<k, mtx, prog>>
    BY <2>2 DEF MtxInv
  <2> QED
    BY <2>1, <2>2
<1>2. MtxInit => Inv
  BY MtxInitInv
<1>3. Inv => MtxInv
  OBVIOUS
<1> HIDE DEF Inv
<1> QED
  BY <1>1, <1>2, <1>3, PTL DEF MtxSpec

-----------------------------------------------------------------------------
(* With mutexes, too, no dispatch is forgotten - not when the running task *)
(* lowers its own priority by unlocking one, nor when its end makes several*)
(* tasks ready - and ready queues, bitmap, p_schedtsk and wait queues stay *)
(* consistent, for any number of tasks, mutexes and priorities (mutex.c,   *)
(* task.c and task_manage.c of extension/mutex).                           *)
THEOREM MtxDispatchOK ==
  MtxSpec => [](TypeOK /\ ReadyQueuesOK /\ DispatchOK /\ DspflgOK /\ WaitLinksOK)
<1>1. MtxInv => TypeOK /\ ReadyQueuesOK /\ DispatchOK /\ DspflgOK /\ WaitLinksOK
  BY InvImplies, InvLinks DEF MtxInv
<1> QED
  BY MtxAlways, <1>1, PTL

(* A mutex is locked by the one task in whose list it is, which is not     *)
(* dormant and does not wait for it, and tasks wait only for mutexes that  *)
(* are locked, whatever the tasks lock, unlock, initialize, terminate and  *)
(* time out (mutex.c, task_manage.c of extension/mutex).                   *)
THEOREM MtxOwnersOK == MtxSpec => []OwnersOK
<1>1. MtxInv => OwnersOK
  <2> SUFFICES ASSUME MtxInv PROVE OwnersOK
    OBVIOUS
  <2>1. ASSUME NEW t \in Tasks
        PROVE  /\ Unique(mtx.mutex_queue[t])
               /\ \A m \in Mutexes :
                    Linked(mtx.mutex_queue[t], m) <=> mtx.loctsk[m] = t
               /\ TSTAT_DORMANT(k.tstat[t]) => mtx.mutex_queue[t] = <<>>
    BY MtxFacts DEF ListsOK, OwnerOK
  <2>2. ASSUME NEW m \in Mutexes
        PROVE  /\ k.waitq[m] # <<>> => mtx.loctsk[m] # NULL
               /\ ~Linked(k.waitq[m], mtx.loctsk[m])
    <3>1. \A y : Linked(k.waitq[m], y) => mtx.loctsk[m] \notin {NULL, y}
      BY MtxFacts DEF WaitersOK, WaiterOK
    <3>2. queue_empty(k.waitq[m]) <=> \A y : ~Linked(k.waitq[m], y)
      BY MtxFacts, NobodyWaits, PriFacts
    <3> QED
      BY <3>1, <3>2 DEF queue_empty
  <2> QED
    BY <2>1, <2>2 DEF OwnersOK
<1> QED
  BY MtxAlways, <1>1, PTL

(* A task runs at its base priority or at the highest ceiling of the       *)
(* mutexes it has locked, though most changes do not compute it anew, and  *)
(* none of those it has locked or waits for has a ceiling below its base   *)
(* priority (mutex.c: mutex_drop_priority, mutex_check_ceilpri; chg_pri).  *)
THEOREM MtxPriorityOK == MtxSpec => []PriorityOK
<1>1. MtxInv => PriorityOK
  <2> SUFFICES ASSUME MtxInv, NEW t \in Tasks
               PROVE  /\ k.priority[t] = Min({mtx.bpriority[t]} \cup Ceilings(mtx, t))
                      /\ \A m \in TA_CEILING :
                           mtx.loctsk[m] = t \/ Linked(k.waitq[m], t)
                             => mtx.bpriority[t] >= ceilpri[m]
    BY DEF PriorityOK
  <2>1. k.priority[t] = mutex_calc_priority(mtx, t) /\ OwnerOK(k, mtx, NULL, t)
        /\ WaitersOK(k, mtx)
    BY MtxFacts
  <2>2. \A m \in TA_CEILING : Linked(k.waitq[m], t) => WaiterOK(k, mtx, m, t)
    BY <2>1, PriFacts DEF WaitersOK
  <2> QED
    BY <2>1, <2>2 DEF OwnerOK, WaiterOK, mutex_calc_priority
<1> QED
  BY MtxAlways, <1>1, PTL
=============================================================================
