----------------------------- MODULE CommProofs -----------------------------
(***************************************************************************)
(* The invariants of the kernel with its synchronization and communication *)
(* objects, Comm.tla: those of KernelProofs.tla hold whatever a service of *)
(* an object does.                                                         *)
(***************************************************************************)
EXTENDS Comm, KernelProofs, FiniteSetTheorems

(* Any task of it: set_flg.                                                *)
LEMMA TakeOne ==
  ASSUME NEW S, Base(S), NEW w \in WaitQueues, NEW t, Linked(S.waitq[w], t),
         NEW q, q = queue_delete(S.waitq[w], t), NEW r, r = complete(S, w, t)
  PROVE  Taken(S, w, q, r) /\ TakenFrom(S.waitq[w], t, q)
<1> DEFINE U == WithWaitq(S, w, q)
           D == wait_dequeue_tmevtb(U, t)
<1>1. QueueOK(S.waitq[w], w, S.priority)
  BY DEF Base, Waits, QueuedOK
<1>2. t \in Tasks
  BY <1>1, QueueLinked DEF QueueOK
<1>3. QueueOK(q, w, S.priority) /\ TakenFrom(S.waitq[w], t, q)
  BY <1>1, DeleteWaiting DEF TakenFrom
<1>4. U = [S EXCEPT !.waitq[w] = queue_delete(@, t)]
  BY DEF WithWaitq
<1>5. r = make_non_wait([D EXCEPT !.wercd[t] = "E_OK"], t)
  BY <1>4 DEF complete, wait_complete
<1> HIDE DEF U, D
<1>6. U = WithWaitq(S, w, q) /\ D = wait_dequeue_tmevtb(U, t)
  BY DEF U, D
<1> QED
  BY <1>2, <1>3, <1>5, <1>6, TakeOut

(* set_flg.                                                                *)
LEMMA CompleteLoop ==
  ASSUME NEW S, NEW f, NEW ts, NEW N \in Nat,
         NEW q, q = S.waitq[f], N = Len(q)
  PROVE  \E done :
           /\ done[0] = [st |-> S, dsp |-> FALSE] /\ done[N] = CompleteAll(S, f, ts)
           /\ \A i \in 1 .. N :
                LET r == IF q[i] \in ts THEN complete(done[i - 1].st, f, q[i])
                     ELSE [st |-> done[i - 1].st, dsp |-> FALSE]
                IN done[i] = [st |-> r.st, dsp |-> done[i - 1].dsp \/ r.dsp]
<1> DEFINE Body(R, i) == IF q[i] \in ts THEN complete(R, f, q[i])
                         ELSE [st |-> R, dsp |-> FALSE]
           Round(g, i) == IF i = 0 THEN [st |-> S, dsp |-> FALSE]
                         ELSE LET r == Body(g[i - 1].st, i)
                              IN [st |-> r.st, dsp |-> g[i - 1].dsp \/ r.dsp]
           F(g) == [i \in 0 .. N |-> Round(g, i)]
           Good(m, g) == \A i \in 0 .. m : g[i] = Round(g, i)
           A == {m \in Nat : m <= N => \E g : Good(m, g)}
           h == CHOOSE x : x = F(x)
<1>1. CompleteAll(S, f, ts) = h[N]
  BY DEF CompleteAll, Repeat
<1>2. 0 \in A
  <2>1. Good(0, [i \in {0} |-> [st |-> S, dsp |-> FALSE]])
    OBVIOUS
  <2> HIDE DEF Good
  <2> QED
    BY <2>1
<1>3. ASSUME NEW m \in Nat, m \in A, m + 1 <= N
      PROVE  \E g : Good(m + 1, g)
  <2>1. PICK g : Good(m, g)
    <3>1. m <= N
      BY <1>3
    <3> HIDE DEF Good
    <3> QED
      BY <1>3, <3>1
  <2> DEFINE e == [j \in 0 .. m + 1 |-> IF j = m + 1 THEN Round(g, j) ELSE g[j]]
  <2>2. \A j \in 0 .. m + 1 : Round(e, j) = Round(g, j)
    <3>1. \A j \in 0 .. m + 1 : j = 0 \/ j - 1 \in 0 .. m
      OBVIOUS
    <3>2. \A j \in 0 .. m : e[j] = g[j]
      OBVIOUS
    <3> HIDE DEF e, Body
    <3> QED
      BY <3>1, <3>2
  <2> HIDE DEF Round
  <2>3. \A j \in 0 .. m + 1 : e[j] = Round(g, j)
    <3>1. \A j \in 0 .. m + 1 : j = m + 1 \/ j \in 0 .. m
      OBVIOUS
    <3>2. \A j \in 0 .. m : g[j] = Round(g, j)
      BY <2>1
    <3> QED
      BY <3>1, <3>2
  <2> HIDE DEF e
  <2>4. Good(m + 1, e)
    BY <2>2, <2>3
  <2> HIDE DEF Good
  <2> QED
    BY <2>4
<1>4. Nat \subseteq A
  <2>1. \A m \in Nat : m \in A => m + 1 \in A
    <3> HIDE DEF Good
    <3> QED
      BY <1>3
  <2> HIDE DEF A
  <2> QED
    BY <1>2, <2>1, SetInduction
<1>5. PICK g : Good(N, g)
  <2>1. N \in A
    BY <1>4
  <2> HIDE DEF Good
  <2> QED
    BY <2>1
<1>6. h = F(h)
  <2> DEFINE e == [i \in 0 .. N |-> g[i]]
  <2>1. \A i \in 0 .. N : Round(e, i) = Round(g, i)
    <3>1. \A j \in 0 .. N : j = 0 \/ j - 1 \in 0 .. N
      OBVIOUS
    <3>2. \A j \in 0 .. N : e[j] = g[j]
      OBVIOUS
    <3> HIDE DEF e, Body
    <3> QED
      BY <3>1, <3>2
  <2> HIDE DEF Round
  <2>2. e = F(e)
    BY <1>5, <2>1
  <2> HIDE DEF e, F
  <2> QED
    BY <2>2
<1> HIDE DEF h
<1>7. \A i \in 0 .. N : h[i] = Round(h, i)
  <2> HIDE DEF Round
  <2> QED
    BY <1>6
<1>8. h[0] = [st |-> S, dsp |-> FALSE]
  <2>1. 0 \in 0 .. N
    OBVIOUS
  <2> HIDE DEF Body
  <2> QED
    BY <1>7, <2>1
<1>9. \A i \in 1 .. N :
        LET r == Body(h[i - 1].st, i)
        IN h[i] = [st |-> r.st, dsp |-> h[i - 1].dsp \/ r.dsp]
  <2> HIDE DEF Body
  <2> QED
    BY <1>7
<1> QED
  BY <1>1, <1>8, <1>9

(* The two queues of a data queue.                                         *)
LEMMA ReleaseBoth ==
  ASSUME NEW S, Base(S), NEW v \in WaitQueues, NEW w \in WaitQueues, v # w,
         NEW r, r = init_wait_queues(S, v, w)
  PROVE  /\ Readied(S, r)
         /\ r.st.waitq = [S.waitq EXCEPT ![v] = <<>>, ![w] = <<>>]
<1> DEFINE a == init_wait_queue(S, v)
           b == init_wait_queue(a.st, w)
           q == <<>>
<1>1. r = [st |-> b.st, dsp |-> a.dsp \/ b.dsp] /\ q = <<>>
  BY DEF init_wait_queues
<1> HIDE DEF b, q
<1>2. Taken(S, v, q, a)
  BY <1>1, ReleaseAll
<1> HIDE DEF a
<1>3. Base(a.st) /\ b = init_wait_queue(a.st, w)
  BY <1>2 DEF Taken, Readied, b
<1>4. Taken(a.st, w, q, b)
  BY <1>1, <1>3, ReleaseAll
<1>5. Readied(S, r)
  BY <1>1, <1>2, <1>4, ReadiedTrans DEF Taken
<1>6. r.st.waitq = b.st.waitq
  BY <1>1
<1> QED
  BY <1>1, <1>2, <1>4, <1>5, <1>6 DEF Taken

(* The tasks of ts leave the queue f.                                      *)
Thinned(S, f, ts, R) ==
  /\ \A v \in WaitQueues \ {f} : R.waitq[v] = S.waitq[v]
  /\ \A y : Linked(R.waitq[f], y) <=> Linked(S.waitq[f], y) /\ y \notin ts

LEMMA CompleteThem ==
  ASSUME NEW S, Base(S), NEW f \in WaitQueues, NEW ts,
         NEW r, r = CompleteAll(S, f, ts)
  PROVE  Readied(S, r) /\ Thinned(S, f, ts, r.st)
<1> DEFINE q == S.waitq[f]
           N == Len(q)
           Left(W, i) ==
             /\ W \in [WaitQueues -> Seq(Tasks)]
             /\ \A v \in WaitQueues \ {f} : W[v] = S.waitq[v]
             /\ \A y : Linked(W[f], y) <=>
                         \E j \in 1 .. N : q[j] = y /\ (j <= i => y \notin ts)
           After(d, i) == Readied(S, d) /\ Left(d.st.waitq, i)
<1>1. /\ S.waitq \in [WaitQueues -> Seq(Tasks)] /\ N \in Nat
      /\ q \in Seq(Tasks) /\ Unique(q) /\ DOMAIN q = 1 .. N
  <2>1. S.waitq \in [WaitQueues -> Seq(Tasks)] /\ QueueOK(q, f, S.priority)
    BY DEF Base, Core, KernelState, Waits, QueuedOK
  <2> QED
    BY <2>1, LenProperties DEF QueueOK
<1>2. PICK done :
        /\ done[0] = [st |-> S, dsp |-> FALSE] /\ done[N] = r
        /\ \A i \in 1 .. N :
             LET b == IF q[i] \in ts THEN complete(done[i - 1].st, f, q[i])
                      ELSE [st |-> done[i - 1].st, dsp |-> FALSE]
             IN done[i] = [st |-> b.st, dsp |-> done[i - 1].dsp \/ b.dsp]
  <2> DEFINE n == N
             p == q
  <2>1. n \in Nat /\ p = S.waitq[f] /\ n = Len(p)
    BY <1>1
  <2> HIDE DEF n, p
  <2>2. \E done :
           /\ done[0] = [st |-> S, dsp |-> FALSE] /\ done[n] = CompleteAll(S, f, ts)
           /\ \A i \in 1 .. n :
                LET b == IF p[i] \in ts THEN complete(done[i - 1].st, f, p[i])
                         ELSE [st |-> done[i - 1].st, dsp |-> FALSE]
                IN done[i] = [st |-> b.st, dsp |-> done[i - 1].dsp \/ b.dsp]
    BY <2>1, CompleteLoop
  <2> QED
    BY <2>2 DEF n, p
<1> DEFINE A == {i \in Nat : i <= N => After(done[i], i)}
<1>3. 0 \in A
  <2>1. Readied(S, done[0]) /\ done[0].st = S
    BY <1>2, ReadiedNone
  <2>2. \A y : Linked(q, y) <=> \E j \in 1 .. N : q[j] = y
    BY <1>1 DEF Linked
  <2>3. \A j \in 1 .. N : ~(j <= 0)
    OBVIOUS
  <2>4. Left(S.waitq, 0)
    BY <1>1, <2>2, <2>3
  <2> HIDE DEF Left
  <2> QED
    BY <2>1, <2>4
<1>4. ASSUME NEW i \in Nat, i + 1 <= N, After(done[i], i)
      PROVE  After(done[i + 1], i + 1)
  <2> DEFINE D == done[i].st
             t == q[i + 1]
             c == complete(D, f, t)
             b == IF t \in ts THEN c ELSE [st |-> D, dsp |-> FALSE]
             p == queue_delete(D.waitq[f], t)
             n == i + 1
  <2>1. Base(D) /\ D.waitq \in [WaitQueues -> Seq(Tasks)] /\ n \in 1 .. N /\ ~(n <= i)
    BY <1>1, <1>4 DEF Readied
  <2>2. Linked(D.waitq[f], t)
    BY <1>4, <2>1
  <2>3. Taken(D, f, p, c) /\ TakenFrom(D.waitq[f], t, p)
    <3> HIDE DEF D, c, p, t
    <3>1. p = queue_delete(D.waitq[f], t) /\ c = complete(D, f, t)
      BY DEF c, p
    <3> QED
      BY <2>1, <2>2, <3>1, TakeOne
  <2>4. done[n] = [st |-> b.st, dsp |-> done[i].dsp \/ b.dsp]
    <3>1. n - 1 = i
      BY <1>4
    <3> QED
      BY <1>2, <2>1, <3>1
  <2>5. Readied(D, b)
    BY <2>1, <2>3, ReadiedNone DEF Taken
  <2>6. \A y, j : j \in 1 .. N /\ q[j] = y =>
          ((j <= n => y \notin ts) <=> (j <= i => y \notin ts) /\ (y = t => t \notin ts))
    BY <1>1, <2>1 DEF Unique
  <2>7. Left(b.st.waitq, n)
    <3>1. \A v \in WaitQueues \ {f} : D.waitq[v] = S.waitq[v]
      BY <1>4
    <3>2. \A y : Linked(D.waitq[f], y) <=>
                   \E j \in 1 .. N : q[j] = y /\ (j <= i => y \notin ts)
      BY <1>4
    <3>3. CASE t \in ts
      <4>1. b.st.waitq = [D.waitq EXCEPT ![f] = p]
        BY <2>3, <3>3 DEF Taken
      <4>2. b.st.waitq \in [WaitQueues -> Seq(Tasks)]
        BY <2>5 DEF Readied, Base, Core, KernelState
      <4>3. \A y : Linked(p, y) <=> Linked(D.waitq[f], y) /\ y # t
        BY <2>3 DEF TakenFrom
      <4> HIDE DEF D, b, p, t, N, q
      <4>4. b.st.waitq[f] = p /\ \A v \in WaitQueues \ {f} : b.st.waitq[v] = D.waitq[v]
        BY <2>1, <4>1
      <4>5. \A y : Linked(p, y) <=>
                     \E j \in 1 .. N : q[j] = y /\ (j <= n => y \notin ts)
        BY <2>6, <3>2, <3>3, <4>3
      <4> QED
        BY <3>1, <4>2, <4>4, <4>5
    <3>4. CASE t \notin ts
      <4>1. b.st = D
        BY <3>4
      <4> HIDE DEF D, b, t, N, q
      <4>2. \A y : Linked(D.waitq[f], y) <=>
                     \E j \in 1 .. N : q[j] = y /\ (j <= n => y \notin ts)
        BY <2>6, <3>2, <3>4
      <4> QED
        BY <2>1, <3>1, <4>1, <4>2
    <3> QED
      BY <3>3, <3>4
  <2> HIDE DEF b, Left
  <2>8. Readied(S, done[n])
    BY <1>4, <2>4, <2>5, ReadiedTrans
  <2> QED
    BY <2>4, <2>7, <2>8
<1> HIDE DEF After
<1>5. Nat \subseteq A
  <2>1. \A i \in Nat : i \in A => i + 1 \in A
    BY <1>1, <1>4
  <2> HIDE DEF A
  <2> QED
    BY <1>3, <2>1, SetInduction
<1>6. After(r, N)
  BY <1>1, <1>2, <1>5
<1>7. \A j \in 1 .. N : j <= N
  BY <1>1
<1>8. \A y : Linked(q, y) <=> \E j \in 1 .. N : q[j] = y
  BY <1>1 DEF Linked
<1>9. Left(r.st.waitq, N)
  BY <1>6 DEF After
<1> QED
  BY <1>6, <1>7, <1>8, <1>9 DEF Thinned, After

LEMMA BothReleased ==
  ASSUME KernelInv(k), NEW v \in WaitQueues, NEW w \in WaitQueues, v # w,
         TskCtxUnl, k' = DispatchIf(init_wait_queues(k, v, w))
  PROVE  /\ KernelInv(k')
         /\ k'.waitq = [k.waitq EXCEPT ![v] = <<>>, ![w] = <<>>]
<1> DEFINE r == init_wait_queues(k, v, w)
<1>1. /\ Readied(k, r)
      /\ r.st.waitq = [k.waitq EXCEPT ![v] = <<>>, ![w] = <<>>]
  BY ReleaseBoth DEF KernelInv
<1>2. Ends(k', r)
  BY DEF Ends
<1> HIDE DEF r
<1> QED
  BY <1>1, <1>2, ServiceEnds

LEMMA ThemServed ==
  ASSUME KernelInv(k), NEW f \in WaitQueues, NEW ts,
         Ends(k', CompleteAll(k, f, ts))
  PROVE  KernelInv(k') /\ Thinned(k, f, ts, k')
<1> DEFINE r == CompleteAll(k, f, ts)
<1>1. Readied(k, r) /\ Thinned(k, f, ts, r.st)
  BY CompleteThem DEF KernelInv
<1>2. Ends(k', r)
  OBVIOUS
<1> HIDE DEF r
<1> QED
  BY <1>1, <1>2, ServiceEnds DEF Thinned

-----------------------------------------------------------------------------
(* Semaphores.                                                             *)

SemOK(s) ==
  /\ semcnt[s] \in 0 .. maxsem[s]
  /\ ~queue_empty(k.waitq[s]) => semcnt[s] = 0

SemsOK == semcnt \in [Sems -> Nat] /\ \A s \in Sems : SemOK(s)

LEMMA SemsStay ==
  ASSUME KernelInv(k), KernelInv(k'), Shrinks(k, k', Sems), SemsOK,
         UNCHANGED semcnt
  PROVE  SemsOK'
<1>1. \A s \in Sems : queue_empty(k.waitq[s]) => queue_empty(k'.waitq[s])
  <2>1. Sems \in SUBSET WaitQueues
    BY SemaphoreAssumption
  <2> QED
    BY <2>1, StaysEmpty
<1> QED
  BY <1>1 DEF SemsOK, SemOK

LEMMA SemStep ==
  ASSUME KernelInv(k), SemsOK, NEW s \in Sems, SemServices(s)
  PROVE  KernelInv(k') /\ Only(k, k', {s}) /\ SemsOK'
<1>0. /\ s \in WaitQueues /\ Sems \subseteq WaitQueues
      /\ isemcnt[s] \in 0 .. maxsem[s] /\ maxsem \in [Sems -> Nat \ {0}]
      /\ isemcnt[s] \in Nat
      /\ k.waitq \in [WaitQueues -> Seq(Tasks)]
      /\ semcnt \in [Sems -> Nat] /\ \A v \in Sems : SemOK(v)
  BY SemaphoreAssumption, NobodyWaits DEF SemsOK
(* What is to be shown of s alone.                                         *)
<1>1. ASSUME KernelInv(k'), Only(k, k', {s}), semcnt' \in [Sems -> Nat],
             \A v \in Sems \ {s} : semcnt'[v] = semcnt[v], SemOK(s)'
      PROVE  SemsOK'
  BY <1>0, <1>1 DEF SemsOK, SemOK, Only
<1>2. ASSUME UNCHANGED k
      PROVE  KernelInv(k') /\ Only(k, k', {s})
  BY <1>2 DEF Only
<1>3. CASE sig_sem(s) \/ isig_sem(s)
  <2>1. CASE /\ ~queue_empty(k.waitq[s]) /\ UNCHANGED semcnt
             /\ Ends(k', CompleteFirst(k, s))
    <3> DEFINE q == queue_delete_next(k.waitq[s])
    <3>1. KernelInv(k') /\ k'.waitq = [k.waitq EXCEPT ![s] = q]
      BY <1>0, <2>1, FirstServed
    <3> HIDE DEF q
    <3>2. Only(k, k', {s}) /\ SemOK(s)'
      BY <1>0, <2>1, <3>1 DEF Only, SemOK
    <3> QED
      BY <1>0, <1>1, <2>1, <3>1, <3>2
  <2>2. CASE /\ queue_empty(k.waitq[s]) /\ semcnt[s] < maxsem[s]
             /\ semcnt' = [semcnt EXCEPT ![s] = @ + 1] /\ UNCHANGED k
    <3>1. SemOK(s)' /\ semcnt' \in [Sems -> Nat]
      BY <1>0, <2>2 DEF SemOK
    <3> QED
      BY <1>0, <1>1, <1>2, <2>2, <3>1
  <2> QED
    BY <1>3, <2>1, <2>2 DEF sig_sem, isig_sem, signal, CompleteFirst, Ends
<1>4. CASE Take(s)
  <2>1. SemOK(s)' /\ semcnt' \in [Sems -> Nat]
    BY <1>0, <1>4 DEF SemOK, Take
  <2> QED
    BY <1>0, <1>1, <1>2, <1>4, <2>1 DEF Take
<1>5. ASSUME NEW tmout \in Nat \cup {TMO_FEVR}, CanDispatch,
             semcnt[s] = 0, UNCHANGED semcnt,
             \/ k' = dispatch(wobj_make_wait(k, "WAIT_SEM", s))
             \/ k' = dispatch(wobj_make_wait_tmout(k, "WAIT_SEM", s, tmout))
      PROVE  KernelInv(k') /\ Only(k, k', {s}) /\ SemsOK'
  <2>1. MayQueue(s, "WAIT_SEM")
    BY <1>0 DEF MayQueue, TS_WAIT_WOBJ, TS_WAIT_WOBJCB
  <2>2. KernelInv(k') /\ Joins(k, k', s, k.runtsk)
    BY <1>5, <2>1, StartsToWait
  <2>3. Only(k, k', {s}) /\ SemOK(s)'
    BY <1>0, <1>5, <2>2 DEF Joins, Only, SemOK
  <2> QED
    BY <1>0, <1>1, <1>5, <2>2, <2>3
<1>6. CASE wai_sem(s) \/ pol_sem(s)
  BY <1>4, <1>5, <1>6 DEF wai_sem, pol_sem, TMO_FEVR
<1>7. ASSUME NEW tmout \in Timeout \cup {TMO_POL}, twai_sem(s, tmout)
      PROVE  KernelInv(k') /\ Only(k, k', {s}) /\ SemsOK'
  <2>1. tmout \in Nat
    BY TaskSyncAssumption DEF Timeout, TMO_POL
  <2> QED
    BY <1>4, <1>5, <1>7, <2>1 DEF twai_sem
<1>8. CASE ini_sem(s)
  <2> DEFINE q == <<>>
  <2>1. TskCtxUnl /\ k' = DispatchIf(init_wait_queue(k, s))
        /\ semcnt' = [semcnt EXCEPT ![s] = isemcnt[s]]
    BY <1>8 DEF ini_sem
  <2>2. q = <<>>
    OBVIOUS
  <2> HIDE DEF q
  <2>3. KernelInv(k') /\ k'.waitq = [k.waitq EXCEPT ![s] = q]
    BY <1>0, <2>1, <2>2, AllReleased
  <2>4. Only(k, k', {s}) /\ SemOK(s)' /\ semcnt' \in [Sems -> Nat]
    BY <1>0, <2>1, <2>2, <2>3 DEF Only, SemOK, queue_empty
  <2> QED
    BY <1>0, <1>1, <2>1, <2>3, <2>4
<1> QED
  BY <1>3, <1>6, <1>7, <1>8 DEF SemServices

-----------------------------------------------------------------------------
(* The wait queues of the objects.                                         *)
DtqQueues == Dtqs \cup {rwait_queue(d) : d \in Dtqs}
PdqQueues == Pdqs \cup {rwait_queue_pdq(q) : q \in Pdqs}

(* The queues of one object are not those of another.                      *)
LEMMA KindsApart ==
  /\ Sems \cap DtqQueues = {} /\ Sems \cap Flgs = {} /\ Sems \cap Mbxs = {}
  /\ Sems \cap PdqQueues = {} /\ Sems \cap Mpfs = {}
  /\ DtqQueues \cap Flgs = {} /\ DtqQueues \cap Mbxs = {}
  /\ DtqQueues \cap PdqQueues = {} /\ DtqQueues \cap Mpfs = {}
  /\ Flgs \cap Mbxs = {} /\ Flgs \cap PdqQueues = {} /\ Flgs \cap Mpfs = {}
  /\ Mbxs \cap PdqQueues = {} /\ Mbxs \cap Mpfs = {} /\ PdqQueues \cap Mpfs = {}
  /\ Dtqs \cap {rwait_queue(d) : d \in Dtqs} = {}
  /\ Pdqs \cap {rwait_queue_pdq(q) : q \in Pdqs} = {}
<1> DEFINE D == {rwait_queue(d) : d \in Dtqs}
           P == {rwait_queue_pdq(q) : q \in Pdqs}
<1>1. Kinds = <<Sems, Dtqs, D, Flgs, Mbxs, Pdqs, P, Mpfs>>
  BY DEF Kinds
<1> HIDE DEF D, P
<1>2. DOMAIN Kinds = 1 .. 8
  BY <1>1
<1>3. /\ Kinds[1] = Sems /\ Kinds[2] = Dtqs /\ Kinds[3] = D /\ Kinds[4] = Flgs
      /\ Kinds[5] = Mbxs /\ Kinds[6] = Pdqs /\ Kinds[7] = P /\ Kinds[8] = Mpfs
  BY <1>1
<1>4. \A i, j \in 1 .. 8 : i # j => Kinds[i] \cap Kinds[j] = {}
  BY <1>2, CommAssumption
<1>5. /\ Sems \cap Dtqs = {} /\ Sems \cap D = {} /\ Sems \cap Flgs = {}
      /\ Sems \cap Mbxs = {} /\ Sems \cap Pdqs = {} /\ Sems \cap P = {}
      /\ Sems \cap Mpfs = {}
  BY <1>3, <1>4
<1>6. /\ Dtqs \cap D = {} /\ Dtqs \cap Flgs = {} /\ Dtqs \cap Mbxs = {}
      /\ Dtqs \cap Pdqs = {} /\ Dtqs \cap P = {} /\ Dtqs \cap Mpfs = {}
  BY <1>3, <1>4
<1>7. /\ D \cap Flgs = {} /\ D \cap Mbxs = {} /\ D \cap Pdqs = {}
      /\ D \cap P = {} /\ D \cap Mpfs = {}
  BY <1>3, <1>4
<1>8. /\ Flgs \cap Mbxs = {} /\ Flgs \cap Pdqs = {} /\ Flgs \cap P = {}
      /\ Flgs \cap Mpfs = {}
  BY <1>3, <1>4
<1>9. /\ Mbxs \cap Pdqs = {} /\ Mbxs \cap P = {} /\ Mbxs \cap Mpfs = {}
      /\ Pdqs \cap P = {} /\ Pdqs \cap Mpfs = {} /\ P \cap Mpfs = {}
  BY <1>3, <1>4
<1>10. DtqQueues = Dtqs \cup D /\ PdqQueues = Pdqs \cup P
  BY DEF DtqQueues, PdqQueues, D, P
<1>11. /\ Sems \cap DtqQueues = {} /\ Sems \cap PdqQueues = {}
       /\ DtqQueues \cap Flgs = {} /\ DtqQueues \cap Mbxs = {}
       /\ DtqQueues \cap PdqQueues = {} /\ DtqQueues \cap Mpfs = {}
       /\ Flgs \cap PdqQueues = {} /\ Mbxs \cap PdqQueues = {}
       /\ PdqQueues \cap Mpfs = {}
  BY <1>5, <1>6, <1>7, <1>8, <1>9, <1>10
<1> QED
  BY <1>5, <1>6, <1>8, <1>9, <1>11 DEF D, P

LEMMA OwnQueues ==
  /\ \A d \in Dtqs : \A v \in Dtqs : /\ rwait_queue(d) # v
                                     /\ rwait_queue(d) = rwait_queue(v) => d = v
  /\ \A d \in Pdqs : \A v \in Pdqs :
       /\ rwait_queue_pdq(d) # v
       /\ rwait_queue_pdq(d) = rwait_queue_pdq(v) => d = v
<1>1. \A d, v : rwait_queue(d) = rwait_queue(v) => d = v
  BY DEF rwait_queue
<1>2. \A d, v : rwait_queue_pdq(d) = rwait_queue_pdq(v) => d = v
  BY DEF rwait_queue_pdq
<1> QED
  BY <1>1, <1>2, KindsApart

-----------------------------------------------------------------------------
(* Data queues.                                                            *)

(* A ring of n places.                                                     *)
Ring(B, n) ==
  /\ B = [mb |-> B.mb, head |-> B.head, tail |-> B.tail, count |-> B.count]
  /\ B.head \in Nat /\ B.tail \in Nat /\ B.count \in 0 .. n
  /\ n > 0 => /\ B.head < n
              /\ B.tail = IF B.head + B.count < n THEN B.head + B.count
                          ELSE B.head + B.count - n

DtqAt(d) ==
  /\ Ring(dtq[d], dtqcnt[d])
  /\ ~queue_empty(k.waitq[d]) => dtq[d].count = dtqcnt[d]
  /\ ~queue_empty(k.waitq[rwait_queue(d)]) =>
       dtq[d].count = 0 /\ queue_empty(k.waitq[d])

DtqsOK == dtq = [d \in Dtqs |-> dtq[d]] /\ \A d \in Dtqs : DtqAt(d)

LEMMA RingChanges ==
  ASSUME NEW d \in Dtqs, NEW n, n = dtqcnt[d], NEW B, Ring(B, n), NEW data
  PROVE  /\ B.count < n => /\ Ring(enqueue_data(B, d, data), n)
                           /\ enqueue_data(B, d, data).count = B.count + 1
         /\ n > 0 => /\ Ring(force_enqueue_data(B, d, data), n)
                     /\ B.count = n =>
                          force_enqueue_data(B, d, data).count = n
         /\ B.count > 0 => /\ Ring(dequeue_data(B, d), n)
                           /\ dequeue_data(B, d).count = B.count - 1
<1>1. n \in Nat
  BY DataQueueAssumption
<1>2. PICK mb, head, tail, count :
        B = [mb |-> mb, head |-> head, tail |-> tail, count |-> count]
  BY DEF Ring
<1>3. /\ B.mb = mb /\ B.head = head /\ B.tail = tail /\ B.count = count
  BY <1>2
<1>4. /\ head \in Nat /\ tail \in Nat /\ count \in 0 .. n
      /\ n > 0 => /\ head < n
                  /\ tail = IF head + count < n THEN head + count
                            ELSE head + count - n
  BY <1>3 DEF Ring
<1>5. n > 0 => tail < n /\ Advance(d, tail) \in Nat /\ Advance(d, head) \in Nat
  BY <1>1, <1>4 DEF Advance
<1>6. ASSUME NEW c, NEW h \in Nat, NEW l \in Nat, NEW s \in 0 .. n,
             n > 0 => /\ h < n
                      /\ l = IF h + s < n THEN h + s ELSE h + s - n
      PROVE  Ring([mb |-> c, head |-> h, tail |-> l, count |-> s], n)
  BY <1>6 DEF Ring
<1> DEFINE c == [mb EXCEPT ![tail] = data]
<1>7. CASE n = 0
  BY <1>1, <1>3, <1>4, <1>7
<1>8. CASE n > 0
  <2>1. count < n => /\ Ring(enqueue_data(B, d, data), n)
                     /\ enqueue_data(B, d, data).count = count + 1
    <3> SUFFICES ASSUME count < n
                 PROVE  /\ Ring(enqueue_data(B, d, data), n)
                        /\ enqueue_data(B, d, data).count = count + 1
      OBVIOUS
    <3>1. enqueue_data(B, d, data) =
            [mb |-> c, head |-> head, tail |-> Advance(d, tail),
             count |-> count + 1]
      <4> DEFINE e == count + 1
                 a == Advance(d, tail)
      <4>1. enqueue_data(B, d, data) =
              [B EXCEPT !.mb = c, !.count = e, !.tail = a]
        BY <1>3 DEF enqueue_data
      <4> HIDE DEF c, e, a
      <4>2. enqueue_data(B, d, data) =
              [mb |-> c, head |-> head, tail |-> a, count |-> e]
        BY <1>2, <4>1
      <4> QED
        BY <4>2 DEF e, a
    <3>2. Advance(d, tail) = IF head + (count + 1) < n THEN head + (count + 1)
                             ELSE head + (count + 1) - n
      <4>1. CASE tail + 1 < n
        <5>1. Advance(d, tail) = tail + 1
          BY <1>1, <1>4, <4>1 DEF Advance
        <5> QED
          BY <1>1, <1>4, <1>8, <4>1, <5>1
      <4>2. CASE tail + 1 >= n
        <5>1. Advance(d, tail) = 0
          BY <1>1, <1>4, <4>2 DEF Advance
        <5> QED
          BY <1>1, <1>4, <1>8, <4>2, <5>1
      <4> QED
        BY <1>1, <1>4, <4>1, <4>2
    <3>3. count + 1 \in 0 .. n
      BY <1>1, <1>4
    <3> HIDE DEF c
    <3>4. Ring([mb |-> c, head |-> head, tail |-> Advance(d, tail),
                count |-> count + 1], n)
      BY <1>4, <1>5, <1>6, <1>8, <3>2, <3>3
    <3> QED
      BY <3>1, <3>4
  <2>2. /\ Ring(force_enqueue_data(B, d, data), n)
        /\ count = n => force_enqueue_data(B, d, data).count = n
    <3>1. CASE count < n
      <4>1. force_enqueue_data(B, d, data) = enqueue_data(B, d, data)
        BY <1>2, <1>3, <1>4, <3>1 DEF force_enqueue_data, enqueue_data
      <4> QED
        BY <1>4, <2>1, <3>1, <4>1
    <3>2. CASE count = n
      <4>1. ~(B.count < n)
        BY <1>1, <1>3, <3>2
      <4>2. force_enqueue_data(B, d, data) =
              [mb |-> c, head |-> Advance(d, tail), tail |-> Advance(d, tail),
               count |-> n]
        BY <1>2, <1>3, <3>2, <4>1 DEF force_enqueue_data
      <4>3. Advance(d, tail) < n
        BY <1>1, <1>5, <1>8 DEF Advance
      <4> HIDE DEF c
      <4>4. LET a == Advance(d, tail)
            IN /\ a \in Nat /\ n \in 0 .. n
               /\ a = IF a + n < n THEN a + n ELSE a + n - n
        BY <1>1, <1>5, <1>8, <4>3
      <4>5. Ring([mb |-> c, head |-> Advance(d, tail), tail |-> Advance(d, tail),
                  count |-> n], n)
        BY <1>6, <4>3, <4>4
      <4> QED
        BY <4>2, <4>5
    <3> QED
      BY <1>1, <1>4, <3>1, <3>2
  <2>3. count > 0 => /\ Ring(dequeue_data(B, d), n)
                     /\ dequeue_data(B, d).count = count - 1
    <3> SUFFICES ASSUME count > 0
                 PROVE  /\ Ring(dequeue_data(B, d), n)
                        /\ dequeue_data(B, d).count = count - 1
      OBVIOUS
    <3>1. dequeue_data(B, d) =
            [mb |-> mb, head |-> Advance(d, head), tail |-> tail,
             count |-> count - 1]
      <4> DEFINE e == count - 1
                 a == Advance(d, head)
      <4>1. dequeue_data(B, d) = [B EXCEPT !.count = e, !.head = a]
        BY <1>3 DEF dequeue_data
      <4> HIDE DEF e, a
      <4>2. dequeue_data(B, d) =
              [mb |-> mb, head |-> a, tail |-> tail, count |-> e]
        BY <1>2, <4>1
      <4> QED
        BY <4>2 DEF e, a
    <3>2. LET a == Advance(d, head)
          IN /\ a < n /\ count - 1 \in 0 .. n
             /\ tail = IF a + (count - 1) < n THEN a + (count - 1)
                       ELSE a + (count - 1) - n
      BY <1>1, <1>4, <1>8 DEF Advance
    <3>3. Ring([mb |-> mb, head |-> Advance(d, head), tail |-> tail,
                count |-> count - 1], n)
      BY <1>4, <1>5, <1>6, <1>8, <3>2
    <3> QED
      BY <3>1, <3>3
  <2> QED
    BY <1>3, <2>1, <2>2, <2>3
<1> QED
  BY <1>1, <1>7, <1>8

LEMMA DtqsStay ==
  ASSUME KernelInv(k), KernelInv(k'), Shrinks(k, k', DtqQueues), DtqsOK,
         UNCHANGED dtq
  PROVE  DtqsOK'
<1>1. \A w \in DtqQueues : queue_empty(k.waitq[w]) => queue_empty(k'.waitq[w])
  <2>1. DtqQueues \in SUBSET WaitQueues
    BY DataQueueAssumption DEF DtqQueues
  <2> QED
    BY <2>1, StaysEmpty
<1>2. \A d \in Dtqs : d \in DtqQueues /\ rwait_queue(d) \in DtqQueues
  BY DEF DtqQueues
<1>3. ASSUME NEW d \in Dtqs PROVE DtqAt(d)'
  BY <1>1, <1>2 DEF DtqsOK, DtqAt
<1> QED
  BY <1>3 DEF DtqsOK

LEMMA DtqStep ==
  ASSUME KernelInv(k), DtqsOK, NEW d \in Dtqs, DtqServices(d)
  PROVE  KernelInv(k') /\ Only(k, k', {d, rwait_queue(d)}) /\ DtqsOK'
<1> DEFINE w == rwait_queue(d)
           Q == {d, w}
           n == dtqcnt[d]
           B == dtq[d]
           Goal == KernelInv(k') /\ Only(k, k', Q) /\ DtqsOK'
<1> SUFFICES Goal
  OBVIOUS
<1>0. /\ d \in WaitQueues /\ w \in WaitQueues /\ w \notin TA_TPRI /\ d # w
      /\ Dtqs \subseteq WaitQueues /\ n \in Nat
      /\ k.waitq \in [WaitQueues -> Seq(Tasks)]
      /\ dtq = [v \in Dtqs |-> dtq[v]] /\ \A v \in Dtqs : DtqAt(v)
      /\ Ring(B, n) /\ B.count \in 0 .. n
      /\ ~queue_empty(k.waitq[d]) => B.count = n
      /\ ~queue_empty(k.waitq[w]) => B.count = 0 /\ queue_empty(k.waitq[d])
      /\ n = dtqcnt[d] /\ d \in Q /\ w \in Q
  <2>1. w # d
    BY OwnQueues
  <2> QED
    BY <2>1, DataQueueAssumption, NobodyWaits DEF DtqsOK, DtqAt, Ring
(* What is to be shown of d alone.                                         *)
<1>1. ASSUME NEW C, KernelInv(k'), Only(k, k', Q), dtq' = [dtq EXCEPT ![d] = C],
             Ring(C, n), ~queue_empty(k'.waitq[d]) => C.count = n,
             ~queue_empty(k'.waitq[w]) => C.count = 0 /\ queue_empty(k'.waitq[d])
      PROVE  Goal
  <2>1. dtq'[d] = C /\ \A v \in Dtqs \ {d} : dtq'[v] = dtq[v]
    BY <1>0, <1>1
  <2>2. DtqAt(d)'
    BY <1>1, <2>1 DEF DtqAt
  <2>3. ASSUME NEW v \in Dtqs \ {d} PROVE DtqAt(v)'
    <3>1. v \notin Q /\ rwait_queue(v) \notin Q /\ rwait_queue(v) \in WaitQueues
      BY OwnQueues, DataQueueAssumption
    <3>2. k'.waitq[v] = k.waitq[v] /\ k'.waitq[rwait_queue(v)] = k.waitq[rwait_queue(v)]
      BY <1>0, <1>1, <3>1 DEF Only
    <3> QED
      BY <1>0, <2>1, <3>2 DEF DtqAt
  <2> QED
    BY <1>0, <1>1, <2>2, <2>3 DEF DtqsOK
<1>2. dtq = [dtq EXCEPT ![d] = B]
  BY <1>0
<1>3. ASSUME NEW v \in Q, ~queue_empty(k.waitq[v]), Ends(k', CompleteFirst(k, v))
      PROVE  /\ KernelInv(k') /\ Only(k, k', Q)
             /\ \A u \in Q \ {v} : k'.waitq[u] = k.waitq[u]
  <2> DEFINE q == queue_delete_next(k.waitq[v])
  <2>1. KernelInv(k') /\ k'.waitq = [k.waitq EXCEPT ![v] = q]
    BY <1>0, <1>3, FirstServed
  <2> HIDE DEF q
  <2> QED
    BY <1>0, <2>1 DEF Only
<1>4. ASSUME UNCHANGED k
      PROVE  KernelInv(k') /\ Only(k, k', Q)
  BY <1>4 DEF Only
<1>5. ASSUME NEW v \in Q, NEW reason, MayQueue(v, reason), CanDispatch,
             NEW tmout \in Nat \cup {TMO_FEVR}, NEW x,
             WaitFor(reason, v, tmout, x)
      PROVE  /\ KernelInv(k') /\ Only(k, k', Q)
             /\ \A u \in Q \ {v} : k'.waitq[u] = k.waitq[u]
  <2>1. KernelInv(k') /\ Joins(k, k', v, k.runtsk)
    BY <1>5, StartsToWait DEF WaitFor
  <2> QED
    BY <1>0, <2>1 DEF Only, Joins
<1>5a. ASSUME k'.waitq = [k.waitq EXCEPT ![d] = <<>>, ![w] = <<>>]
      PROVE  /\ Only(k, k', Q)
             /\ queue_empty(k'.waitq[d]) /\ queue_empty(k'.waitq[w])
  BY <1>0, <1>5a DEF Only, queue_empty
<1> HIDE DEF w, B, Q, n, Goal
(* A receiver that waits gets the data.                                    *)
<1>6. ASSUME ~queue_empty(k.waitq[w]), Ends(k', CompleteFirst(k, w)),
             UNCHANGED dtq
      PROVE  Goal
  <2>1. KernelInv(k') /\ Only(k, k', Q) /\ k'.waitq[d] = k.waitq[d]
    BY <1>0, <1>3, <1>6
  <2> QED
    BY <1>0, <1>1, <1>2, <1>6, <2>1
(* Nobody receives: the data goes to the buffer.                           *)
<1>7. ASSUME NEW data, queue_empty(k.waitq[w]), UNCHANGED k,
             \/ B.count < n /\ dtq' = [dtq EXCEPT ![d] = enqueue_data(B, d, data)]
             \/ n > 0 /\ dtq' = [dtq EXCEPT ![d] = force_enqueue_data(B, d, data)]
      PROVE  Goal
  <2>1. CASE B.count < n /\ dtq' = [dtq EXCEPT ![d] = enqueue_data(B, d, data)]
    <3>1. Ring(enqueue_data(B, d, data), n)
      BY <1>0, <2>1, RingChanges
    <3>2. queue_empty(k.waitq[d])
      BY <1>0, <2>1
    <3> QED
      BY <1>1, <1>4, <1>7, <2>1, <3>1, <3>2
  <2>2. CASE n > 0 /\ dtq' = [dtq EXCEPT ![d] = force_enqueue_data(B, d, data)]
    <3>1. /\ Ring(force_enqueue_data(B, d, data), n)
          /\ B.count = n => force_enqueue_data(B, d, data).count = n
      BY <1>0, <2>2, RingChanges
    <3> QED
      BY <1>0, <1>1, <1>4, <1>7, <2>2, <3>1
  <2> QED
    BY <1>7, <2>1, <2>2
<1>8. CASE /\ TskCtxUnl /\ receive_data(d)
  <2> DEFINE D == dequeue_data(B, d)
             x == winfo[Head(k.waitq[d])]
             E == enqueue_data(D, d, x)
  <2> HIDE DEF x
  <2>1. CASE /\ B.count > 0 /\ queue_empty(k.waitq[d])
             /\ dtq' = [dtq EXCEPT ![d] = D] /\ UNCHANGED k
    <3>1. Ring(D, n)
      BY <1>0, <2>1, RingChanges
    <3> HIDE DEF D
    <3> QED
      BY <1>0, <1>1, <1>4, <2>1, <3>1
  <2>2. CASE /\ B.count > 0 /\ ~queue_empty(k.waitq[d])
             /\ dtq' = [dtq EXCEPT ![d] = E]
             /\ Ends(k', CompleteFirst(k, d))
    <3>1. Ring(D, n) /\ D.count = B.count - 1
      BY <1>0, <2>2, RingChanges
    <3>2. B.count = n /\ D.count < n /\ queue_empty(k.waitq[w])
      BY <1>0, <2>2, <3>1
    <3> HIDE DEF D
    <3>3. Ring(E, n) /\ E.count = D.count + 1
      BY <1>0, <3>1, <3>2, RingChanges
    <3>3a. E.count = n
      BY <1>0, <3>1, <3>2, <3>3
    <3>4. KernelInv(k') /\ Only(k, k', Q) /\ k'.waitq[w] = k.waitq[w]
      BY <1>0, <1>3, <2>2
    <3> HIDE DEF E
    <3> QED
      BY <1>0, <1>1, <2>2, <3>2, <3>3, <3>3a, <3>4
  <2>3. CASE /\ B.count = 0 /\ ~queue_empty(k.waitq[d]) /\ UNCHANGED dtq
             /\ Ends(k', CompleteFirst(k, d))
    <3>1. KernelInv(k') /\ Only(k, k', Q) /\ k'.waitq[w] = k.waitq[w]
      BY <1>0, <1>3, <2>3
    <3> QED
      BY <1>0, <1>1, <1>2, <2>3, <3>1
  <2> QED
    BY <1>8, <2>1, <2>2, <2>3 DEF receive_data, Ends, B, x
<1>9. ASSUME NEW data,
             \/ TskCtxUnl /\ send_data(d, data, DispatchIf)
             \/ IntCtxUnl /\ send_data(d, data, RequestIf)
             \/ TskCtxUnl /\ force_send_data(d, data, DispatchIf)
             \/ IntCtxUnl /\ force_send_data(d, data, RequestIf)
      PROVE  Goal
  <2>1. \/ /\ ~queue_empty(k.waitq[w]) /\ Ends(k', CompleteFirst(k, w))
           /\ UNCHANGED dtq
        \/ /\ queue_empty(k.waitq[w]) /\ UNCHANGED k
           /\ \/ B.count < n /\ dtq' = [dtq EXCEPT ![d] = enqueue_data(B, d, data)]
              \/ n > 0 /\ dtq' = [dtq EXCEPT ![d] = force_enqueue_data(B, d, data)]
    BY <1>9 DEF send_data, force_send_data, send_to_receiver, Buffered, Ends, w, B, n
  <2> QED
    BY <1>6, <1>7, <2>1
<1>10. ASSUME NEW data, NEW tmout \in Nat \cup {TMO_FEVR}, tsnd_dtq(d, data, tmout)
       PROVE  Goal
  <2>1. CASE /\ CanDispatch /\ queue_empty(k.waitq[w]) /\ B.count >= n
             /\ WaitFor("WAIT_SDTQ", d, tmout, data) /\ UNCHANGED dtq
    <3>1. MayQueue(d, "WAIT_SDTQ")
      BY <1>0 DEF MayQueue, TS_WAIT_WOBJ, TS_WAIT_WOBJCB
    <3>2. KernelInv(k') /\ Only(k, k', Q) /\ k'.waitq[w] = k.waitq[w]
      BY <1>0, <1>5, <2>1, <3>1
    <3> QED
      BY <1>0, <1>1, <1>2, <2>1, <3>2
  <2> QED
    BY <1>9, <1>10, <2>1 DEF tsnd_dtq, CanDispatch, w, B, n
<1>11. ASSUME NEW tmout \in Nat \cup {TMO_FEVR}, trcv_dtq(d, tmout)
       PROVE  Goal
  <2>1. CASE /\ CanDispatch /\ B.count = 0 /\ queue_empty(k.waitq[d])
             /\ WaitFor("WAIT_RDTQ", w, tmout, NULL) /\ UNCHANGED dtq
    <3>1. MayQueue(w, "WAIT_RDTQ")
      BY <1>0 DEF MayQueue, TS_WAIT_WOBJ, TS_WAIT_WOBJCB
    <3>2. KernelInv(k') /\ Only(k, k', Q) /\ k'.waitq[d] = k.waitq[d]
      BY <1>0, <1>5, <2>1, <3>1
    <3> QED
      BY <1>0, <1>1, <1>2, <2>1, <3>2
  <2> QED
    BY <1>8, <1>11, <2>1 DEF trcv_dtq, CanDispatch, w, B, n
<1>12. CASE ini_dtq(d)
  <2> DEFINE C == [B EXCEPT !.count = 0, !.head = 0, !.tail = 0]
  <2>1. /\ TskCtxUnl /\ k' = DispatchIf(init_wait_queues(k, d, w))
        /\ dtq' = [dtq EXCEPT ![d] = C]
    BY <1>0, <1>12 DEF ini_dtq, w, B
  <2>2. /\ KernelInv(k')
        /\ k'.waitq = [k.waitq EXCEPT ![d] = <<>>, ![w] = <<>>]
    BY <1>0, <2>1, BothReleased
  <2>3. Only(k, k', Q) /\ queue_empty(k'.waitq[d]) /\ queue_empty(k'.waitq[w])
    BY <1>5a, <2>2
  <2>4. Ring(C, n)
    <3>1. PICK m, h, l, c : B = [mb |-> m, head |-> h, tail |-> l, count |-> c]
      BY <1>0 DEF Ring
    <3> DEFINE z == 0
    <3>2. C = [B EXCEPT !.count = z, !.head = z, !.tail = z] /\ z = 0
      OBVIOUS
    <3> HIDE DEF C, z
    <3>3. C = [mb |-> m, head |-> z, tail |-> z, count |-> z]
      BY <3>1, <3>2
    <3>4. /\ z \in Nat /\ z \in 0 .. n
          /\ n > 0 => z < n /\ z = IF z + z < n THEN z + z ELSE z + z - n
      BY <1>0, <3>2
    <3>5. C.mb = m /\ C.head = z /\ C.tail = z /\ C.count = z
      BY <3>3
    <3> QED
      BY <3>3, <3>4, <3>5 DEF Ring
  <2> HIDE DEF C
  <2> QED
    BY <1>1, <2>1, <2>2, <2>3, <2>4
<1>13. TMO_FEVR \in Nat \cup {TMO_FEVR} /\ Timeout \subseteq Nat \cup {TMO_FEVR}
  BY TaskSyncAssumption DEF Timeout
<1>14. Goal
  BY <1>8, <1>9, <1>10, <1>11, <1>12, <1>13
     DEF DtqServices, snd_dtq, psnd_dtq, ipsnd_dtq, fsnd_dtq, ifsnd_dtq,
         rcv_dtq, prcv_dtq
<1> QED
  BY <1>14

-----------------------------------------------------------------------------
(* What tasks wait for.                                                    *)

WinfoOK == winfo = [t \in Tasks |-> winfo[t]]

(* Only what the running task waits for may change.                        *)
Keeping ==
  \E w : KeepWaiting(w) /\ \A t \in Tasks \ {k.runtsk} : w[t] = winfo[t]

LEMMA KeepingFacts ==
  ASSUME WinfoOK
  PROVE  /\ KeepWaiting(winfo) => Keeping
         /\ \A x : KeepWaiting([winfo EXCEPT ![k.runtsk] = x]) => Keeping
         /\ Keeping => WinfoOK'
<1>1. KeepWaiting(winfo) => Keeping
  BY DEF Keeping
<1>2. ASSUME NEW x, KeepWaiting([winfo EXCEPT ![k.runtsk] = x])
      PROVE  Keeping
  <2> DEFINE w == [winfo EXCEPT ![k.runtsk] = x]
  <2>1. \A t \in Tasks \ {k.runtsk} : w[t] = winfo[t]
    BY DEF WinfoOK
  <2>2. KeepWaiting(w)
    BY <1>2
  <2> HIDE DEF w
  <2> QED
    BY <2>1, <2>2 DEF Keeping
<1>3. Keeping => WinfoOK'
  BY DEF Keeping, KeepWaiting, WinfoOK
<1> QED
  BY <1>1, <1>2, <1>3

(* A task that waits on is not the running one, and goes on for the same.  *)
LEMMA WaitsOn ==
  ASSUME KernelInv(k), KernelInv(k'), Keeping, NEW w \in WaitQueues,
         NEW t, Linked(k.waitq[w], t), Linked(k'.waitq[w], t)
  PROVE  t \in Tasks /\ winfo'[t] = winfo[t]
<1>1. /\ t \in Tasks /\ TSTAT_WAITING(k.tstat[t]) /\ TSTAT_WAITING(k'.tstat[t])
  BY NobodyWaits
<1>2. t # k.runtsk
  <2>1. k.runtsk = t => k.runtsk \in Ready(k)
    BY <1>1, TaskAssumption DEF KernelInv, Switched, Starting
  <2>2. k.runtsk = t => TSTAT_RUNNABLE(k.tstat[t]) /\ k \in KernelState
    BY <1>1, <2>1 DEF KernelInv, Base, RunnableOK, Core
  <2> QED
    BY <1>1, <2>2, TStatFacts DEF KernelState
<1> QED
  BY <1>1, <1>2 DEF Keeping, KeepWaiting

-----------------------------------------------------------------------------
(* Event flags.                                                            *)

(* t waits for some bit, and does not find what it waits for.              *)
Unsatisfied(ptn, t) == winfo[t].waiptn # {} /\ ~Satisfied(ptn, t)

FlgsOK ==
  /\ flgptn = [f \in Flgs |-> flgptn[f]]
  /\ \A f \in Flgs : \A t :
       Linked(k.waitq[f], t) => Unsatisfied(flgptn[f], t)

LEMMA UnsatisfiedFacts ==
  ASSUME NEW ptn, NEW t, winfo[t].waiptn # {}
  PROVE  /\ Unsatisfied({}, t)
         /\ \A clr : Unsatisfied(ptn, t) => Unsatisfied(ptn \cap clr, t)
BY DEF Unsatisfied, Satisfied, check_flg_cond

LEMMA FlgsStay ==
  ASSUME KernelInv(k), KernelInv(k'), Keeping, Shrinks(k, k', Flgs), FlgsOK,
         UNCHANGED flgptn
  PROVE  FlgsOK'
<1>1. ASSUME NEW f \in Flgs, NEW t, Linked(k'.waitq[f], t)
      PROVE  Unsatisfied(flgptn[f], t)'
  <2>1. Linked(k.waitq[f], t) /\ f \in WaitQueues
    BY <1>1, EventFlagAssumption DEF Shrinks
  <2>2. winfo'[t] = winfo[t] /\ Unsatisfied(flgptn[f], t)
    BY <1>1, <2>1, WaitsOn DEF FlgsOK
  <2> QED
    BY <2>2 DEF Unsatisfied, Satisfied
<1> QED
  BY <1>1 DEF FlgsOK

(* The loop of set_flg leaves nobody to whom the pattern it leaves, or,    *)
(* where it clears the pattern, the one it has found applies.              *)
LEMMA WokenFacts ==
  ASSUME KernelInv(k), NEW f \in Flgs, NEW ptn, NEW ts, ts = Woken(f, ptn)
  PROVE  \A t : Linked(k.waitq[f], t) /\ Satisfied(ptn, t) =>
                  ts # {} /\ (f \notin TA_CLR => t \in ts)
<1> DEFINE q == k.waitq[f]
           sat == {i \in DOMAIN q : Satisfied(ptn, q[i])}
<1>1. q \in Seq(Tasks) /\ DOMAIN q \subseteq Nat
  BY NobodyWaits, EventFlagAssumption, LenProperties
<1>2. ts = {q[i] : i \in {j \in sat : f \in TA_CLR => \A l \in sat : j <= l}}
  BY DEF Woken
<1>3. SUFFICES ASSUME NEW t, Linked(q, t), Satisfied(ptn, t)
               PROVE  ts # {} /\ (f \notin TA_CLR => t \in ts)
  OBVIOUS
<1>4. PICK i \in DOMAIN q : q[i] = t
  BY <1>3 DEF Linked
<1>5. i \in sat /\ sat \subseteq Nat
  BY <1>1, <1>3, <1>4
<1> HIDE DEF q, sat
<1>6. f \notin TA_CLR => t \in ts
  BY <1>2, <1>4, <1>5
<1>7. f \in TA_CLR => ts # {}
  <2>1. PICK j \in sat : \A l \in sat : j <= l
    BY <1>5, LeastOf
  <2> QED
    BY <1>2, <2>1
<1> QED
  BY <1>6, <1>7

LEMMA FlgStep ==
  ASSUME KernelInv(k), WinfoOK, FlgsOK, NEW f \in Flgs, FlgServices(f)
  PROVE  KernelInv(k') /\ Only(k, k', {f}) /\ Keeping /\ FlgsOK'
<1> DEFINE Q == {f}
           p == flgptn[f]
           Goal == KernelInv(k') /\ Only(k, k', Q) /\ Keeping /\ FlgsOK'
<1> SUFFICES Goal
  OBVIOUS
<1>0. /\ f \in WaitQueues /\ Flgs \subseteq WaitQueues
      /\ k.waitq \in [WaitQueues -> Seq(Tasks)]
      /\ flgptn = [v \in Flgs |-> flgptn[v]]
      /\ \A t : Linked(k.waitq[f], t) => Unsatisfied(p, t)
  BY EventFlagAssumption, NobodyWaits DEF FlgsOK
(* What is to be shown of f alone.                                         *)
<1>1. ASSUME NEW ptn, KernelInv(k'), Only(k, k', Q), Keeping,
             flgptn' = [flgptn EXCEPT ![f] = ptn],
             \A t : Linked(k'.waitq[f], t) => Unsatisfied(ptn, t)'
      PROVE  Goal
  <2>1. flgptn'[f] = ptn /\ \A v \in Flgs \ {f} : flgptn'[v] = flgptn[v]
    BY <1>0, <1>1
  <2>2. ASSUME NEW v \in Flgs \ {f}, NEW t, Linked(k'.waitq[v], t)
        PROVE  Unsatisfied(flgptn[v], t)'
    <3>1. v \in WaitQueues /\ Linked(k.waitq[v], t)
      BY <1>0, <1>1, <2>2 DEF Only
    <3>2. winfo'[t] = winfo[t] /\ Unsatisfied(flgptn[v], t)
      BY <1>1, <2>2, <3>1, WaitsOn DEF FlgsOK
    <3> QED
      BY <2>1, <3>2 DEF Unsatisfied, Satisfied
  <2>3. \A v \in Flgs : \A t :
          Linked(k'.waitq[v], t) => Unsatisfied(flgptn[v], t)'
    BY <1>1, <2>1, <2>2 DEF Unsatisfied, Satisfied
  <2> QED
    BY <1>0, <1>1, <2>3 DEF FlgsOK
(* Those that wait on do not find the new pattern either.                  *)
<1>2. ASSUME NEW ptn, KernelInv(k'), Keeping,
             \A t : Linked(k'.waitq[f], t) =>
                      Linked(k.waitq[f], t) /\ Unsatisfied(ptn, t)
      PROVE  \A t : Linked(k'.waitq[f], t) => Unsatisfied(ptn, t)'
  <2>1. ASSUME NEW t, Linked(k'.waitq[f], t)
        PROVE  Unsatisfied(ptn, t)'
    <3>1. Linked(k.waitq[f], t) /\ Unsatisfied(ptn, t)
      BY <1>2, <2>1
    <3>2. winfo'[t] = winfo[t]
      BY <1>0, <1>2, <2>1, <3>1, WaitsOn
    <3> QED
      BY <3>1, <3>2 DEF Unsatisfied, Satisfied
  <2> QED
    BY <2>1
<1> HIDE DEF Goal, Q, p
(* The pattern is cleared, in part or altogether, or stays.                *)
<1>3. ASSUME NEW ptn, UNCHANGED k, KeepWaiting(winfo),
             flgptn' = [flgptn EXCEPT ![f] = ptn],
             ptn = {} \/ \E clr : ptn = p \cap clr
      PROVE  Goal
  <2>1. KernelInv(k') /\ Only(k, k', Q) /\ Keeping
    BY <1>3, KeepingFacts DEF Only
  <2>2. \A t : Linked(k'.waitq[f], t) =>
                 Linked(k.waitq[f], t) /\ Unsatisfied(ptn, t)
    <3> SUFFICES ASSUME NEW t, Linked(k'.waitq[f], t)
                 PROVE  Linked(k.waitq[f], t) /\ Unsatisfied(ptn, t)
      OBVIOUS
    <3>1. Linked(k.waitq[f], t) /\ Unsatisfied(p, t)
      BY <1>0, <1>3
    <3>2. winfo[t].waiptn # {}
      BY <3>1 DEF Unsatisfied
    <3> QED
      BY <1>3, <3>1, <3>2, UnsatisfiedFacts
  <2> QED
    BY <1>1, <1>2, <1>3, <2>1, <2>2
<1>4. CASE set_flg(f, {}) \/ \E ptn \in FLGPTN : set_flg(f, ptn) \/ iset_flg(f, ptn)
  <2>1. PICK setptn :
          \/ TskCtxUnl /\ set(f, setptn, DispatchIf)
          \/ IntCtxUnl /\ set(f, setptn, RequestIf)
    BY <1>4 DEF set_flg, iset_flg
  <2> DEFINE new == p \cup setptn
             ts == Woken(f, new)
  <2>0. PICK ptn : ptn = IF ts = {} THEN new ELSE Cleared(f, new)
    OBVIOUS
  <2>2. /\ Ends(k', CompleteAll(k, f, ts))
        /\ flgptn' = [flgptn EXCEPT ![f] = ptn] /\ KeepWaiting(winfo)
    BY <2>0, <2>1 DEF set, Ends, p
  <2>3. \A t : Linked(k.waitq[f], t) /\ Satisfied(new, t) =>
                 ts # {} /\ (f \notin TA_CLR => t \in ts)
    BY WokenFacts
  <2> HIDE DEF ts, new
  <2>4. KernelInv(k') /\ Thinned(k, f, ts, k')
    BY <1>0, <2>2, ThemServed
  <2>5. Only(k, k', Q) /\ Keeping
    BY <2>2, <2>4, KeepingFacts DEF Thinned, Only, Q
  <2>6. ASSUME NEW t, Linked(k'.waitq[f], t)
        PROVE  Linked(k.waitq[f], t) /\ Unsatisfied(ptn, t)
    <3>1. Linked(k.waitq[f], t) /\ t \notin ts
      BY <2>4, <2>6 DEF Thinned
    <3>2. winfo[t].waiptn # {}
      BY <1>0, <3>1 DEF Unsatisfied
    <3>3. CASE ts # {} /\ f \in TA_CLR
      BY <2>0, <3>1, <3>2, <3>3, UnsatisfiedFacts DEF Cleared
    <3>4. CASE ts = {} \/ f \notin TA_CLR
      <4>1. ptn = new
        BY <2>0, <3>4 DEF Cleared
      <4>2. ~Satisfied(new, t)
        BY <2>3, <3>1, <3>4
      <4> QED
        BY <3>1, <3>2, <4>1, <4>2 DEF Unsatisfied
    <3> QED
      BY <3>3, <3>4
  <2>7. \A t : Linked(k'.waitq[f], t) => Unsatisfied(ptn, t)'
    BY <1>2, <2>4, <2>5, <2>6
  <2> QED
    BY <1>1, <2>2, <2>4, <2>5, <2>7
<1>5. ASSUME NEW clrptn, clr_flg(f, clrptn)
      PROVE  Goal
  <2>1. /\ UNCHANGED k /\ KeepWaiting(winfo)
        /\ flgptn' = [flgptn EXCEPT ![f] = p \cap clrptn]
    BY <1>5 DEF clr_flg, Nothing, p
  <2> QED
    BY <1>3, <2>1
<1>6. ASSUME NEW waiptn, NEW wfmode, Satisfy(f, waiptn, wfmode)
      PROVE  Goal
  <2>1. /\ UNCHANGED k /\ KeepWaiting(winfo)
        /\ flgptn' = [flgptn EXCEPT ![f] = Cleared(f, p)]
    BY <1>6 DEF Satisfy, Return, Hand, p
  <2>2. Cleared(f, p) = {} \/ Cleared(f, p) = p \cap p
    BY DEF Cleared
  <2> QED
    BY <1>3, <2>1, <2>2
<1>7. ASSUME NEW waiptn, waiptn # {}, NEW wfmode,
             NEW tmout \in Nat \cup {TMO_FEVR}, twai_flg(f, waiptn, wfmode, tmout)
      PROVE  Goal
  <2> DEFINE x == [waiptn |-> waiptn, wfmode |-> wfmode]
             w == [winfo EXCEPT ![k.runtsk] = x]
  <2>1. CASE /\ CanDispatch /\ ~check_flg_cond(p, waiptn, wfmode)
             /\ WaitFor("WAIT_FLG", f, tmout, x) /\ UNCHANGED flgptn
    <3>1. MayQueue(f, "WAIT_FLG")
      BY <1>0 DEF MayQueue, TS_WAIT_WOBJ, TS_WAIT_WOBJCB
    <3>2. KernelInv(k') /\ Joins(k, k', f, k.runtsk) /\ k.runtsk \in Tasks
      BY <2>1, <3>1, StartsToWait DEF WaitFor
    <3>3. Only(k, k', Q) /\ KeepWaiting(w)
      BY <2>1, <3>2 DEF Only, Joins, WaitFor, Q
    <3>4. Keeping
      BY <3>3, KeepingFacts
    <3>5. w[k.runtsk] = x
      BY <3>2 DEF WinfoOK
    <3>6. x.waiptn = waiptn /\ x.wfmode = wfmode
      OBVIOUS
    <3> HIDE DEF x, w
    <3>7. ASSUME NEW t, Linked(k'.waitq[f], t)
          PROVE  Unsatisfied(p, t)'
      <4>1. CASE Linked(k.waitq[f], t)
        <5>1. winfo'[t] = winfo[t] /\ Unsatisfied(p, t)
          BY <1>0, <3>2, <3>4, <3>7, <4>1, WaitsOn
        <5> QED
          BY <2>1, <5>1 DEF Unsatisfied, Satisfied, p
      <4>2. CASE t = k.runtsk
        <5>1. TSTAT_WAITING(k'.tstat[t])
          BY <1>0, <3>2, <3>7, NobodyWaits
        <5>2. winfo'[t] = x
          BY <3>2, <3>3, <3>5, <4>2, <5>1 DEF KeepWaiting
        <5> QED
          BY <1>7, <2>1, <3>6, <5>2 DEF Unsatisfied, Satisfied, p
      <4> QED
        BY <3>2, <3>7, <4>1, <4>2 DEF Joins
    <3>8. p' = p /\ flgptn' = [flgptn EXCEPT ![f] = p]
      BY <1>0, <2>1 DEF p
    <3> QED
      BY <1>1, <3>2, <3>3, <3>4, <3>7, <3>8 DEF Unsatisfied, Satisfied
  <2> QED
    BY <1>6, <1>7, <2>1 DEF twai_flg, p
<1>8. CASE ini_flg(f)
  <2> DEFINE q == <<>>
             ptn == iflgptn[f]
  <2>1. /\ TskCtxUnl /\ k' = DispatchIf(init_wait_queue(k, f)) /\ q = <<>>
        /\ flgptn' = [flgptn EXCEPT ![f] = ptn] /\ KeepWaiting(winfo)
    BY <1>8 DEF ini_flg, Nothing
  <2> HIDE DEF q, ptn
  <2>2. KernelInv(k') /\ k'.waitq = [k.waitq EXCEPT ![f] = q]
    BY <1>0, <2>1, AllReleased
  <2>3. Only(k, k', Q) /\ Keeping /\ \A t : ~Linked(k'.waitq[f], t)
    BY <1>0, <2>1, <2>2, KeepingFacts DEF Only, Q, Linked
  <2> QED
    BY <1>1, <2>1, <2>2, <2>3
<1>9. TMO_FEVR \in Nat \cup {TMO_FEVR} /\ Timeout \subseteq Nat \cup {TMO_FEVR}
  BY TaskSyncAssumption DEF Timeout
<1> QED
  BY <1>4, <1>5, <1>6, <1>7, <1>8, <1>9 DEF FlgServices, wai_flg, pol_flg

-----------------------------------------------------------------------------
(* Lists that are linked through an array or through the entries.          *)

(* c is the list of entries of D, each once, that starts at head and goes  *)
(* on through next.                                                        *)
IsList(c, head, next, D) ==
  /\ c \in Seq(D) /\ Unique(c)
  /\ head = IF c = <<>> THEN NULL ELSE c[1]
  /\ \A i \in 1 .. Len(c) :
       next[c[i]] = IF i = Len(c) THEN NULL ELSE c[i + 1]

LEMMA ListLength ==
  ASSUME NEW D, IsFiniteSet(D), NEW c, c \in Seq(D), Unique(c)
  PROVE  Len(c) \in Nat /\ Cardinality(D) \in Nat /\ Len(c) <= Cardinality(D)
<1> DEFINE n == Len(c)
<1>1. n \in Nat /\ c \in [1 .. n -> D] /\ DOMAIN c = 1 .. n
  BY LenProperties
<1> HIDE DEF n
<1>2. c \in Injection(1 .. n, D)
  BY <1>1 DEF Unique, Injection, IsInjective
<1>3. Cardinality(1 .. n) <= Cardinality(D)
  BY <1>2, FS_Injection
<1>4. Cardinality(1 .. n) = n /\ Cardinality(D) \in Nat
  BY <1>1, FS_Interval, FS_CardinalityType
<1> QED
  BY <1>1, <1>3, <1>4 DEF n

(* Where a loop that goes on while a test holds ends.                      *)
LEMMA FirstIn ==
  ASSUME NEW N \in Nat, NEW T, T \subseteq 1 .. N
  PROVE  \E n \in 0 .. N : /\ \A i \in 1 .. n : i \notin T
                           /\ n < N => n + 1 \in T
<1>1. CASE T = {}
  <2>1. N \in 0 .. N /\ ~(N < N) /\ \A i \in 1 .. N : i \notin T
    BY <1>1
  <2> WITNESS N \in 0 .. N
  <2> QED
    BY <2>1
<1>2. CASE T # {}
  <2>0. T \subseteq Nat
    OBVIOUS
  <2>1. PICK x \in T : \A y \in T : x <= y
    BY <1>2, <2>0, LeastOf
  <2>2. x - 1 \in 0 .. N /\ x - 1 + 1 = x /\ \A i \in 1 .. x - 1 : ~(x <= i)
    BY <2>1
  <2> QED
    BY <2>1, <2>2
<1> QED
  BY <1>1, <1>2

(* Chain follows a list to its end.                                        *)
LEMMA ChainIs ==
  ASSUME NEW D, NULL \notin D, NEW c, NEW head, NEW next, IsList(c, head, next, D),
         NEW n \in Nat, Len(c) <= n
  PROVE  Chain(head, next, n) = c
<1> DEFINE m == Len(c)
           h == [i \in 1 .. n |-> IF i <= m THEN c[i] ELSE NULL]
           F(a) == [i \in 1 .. n |-> IF i = 1 THEN head
                                     ELSE IF a[i - 1] = NULL THEN NULL
                                     ELSE next[a[i - 1]]]
           Stop == CountWhile(h, LAMBDA x : x # NULL)
<1>1. /\ m \in Nat /\ m <= n /\ \A i \in 1 .. m : c[i] \in D /\ c[i] # NULL
      /\ m = 0 <=> c = <<>>
      /\ head = IF m = 0 THEN NULL ELSE c[1]
      /\ \A i \in 1 .. m : next[c[i]] = IF i = m THEN NULL ELSE c[i + 1]
  BY LenProperties, EmptySeq DEF IsList
<1> HIDE DEF m
<1>2. \A i \in 1 .. n : h[i] = IF i = 1 THEN head
                               ELSE IF h[i - 1] = NULL THEN NULL
                               ELSE next[h[i - 1]]
  <2>1. ASSUME NEW i \in 1 .. n, i # 1
        PROVE  h[i] = IF h[i - 1] = NULL THEN NULL ELSE next[h[i - 1]]
    <3>1. i - 1 \in 1 .. n /\ i - 1 + 1 = i
      BY <2>1
    <3>2. CASE i - 1 > m
      BY <1>1, <3>1, <3>2
    <3>3. CASE i - 1 <= m
      <4>1. i - 1 \in 1 .. m /\ h[i - 1] = c[i - 1] /\ c[i - 1] # NULL
        BY <1>1, <3>1, <3>3
      <4>2. next[c[i - 1]] = IF i - 1 = m THEN NULL ELSE c[i]
        BY <1>1, <3>1, <4>1
      <4>3. h[i] = IF i - 1 = m THEN NULL ELSE c[i]
        BY <1>1, <3>1, <3>3
      <4> QED
        BY <4>1, <4>2, <4>3
    <3> QED
      BY <1>1, <3>1, <3>2, <3>3
  <2>2. ASSUME NEW i \in 1 .. n, i = 1
        PROVE  h[i] = head
    BY <1>1, <2>2
  <2> HIDE DEF h
  <2> QED
    BY <2>1, <2>2
<1>3. h = F(h)
  BY <1>2
<1>4. ASSUME NEW a, a = F(a) PROVE a = h
  <2> DEFINE A == {i \in Nat : i <= n => \A j \in 1 .. i : a[j] = h[j]}
  <2>1. \A j \in 1 .. n : a[j] = IF j = 1 THEN head
                                 ELSE IF a[j - 1] = NULL THEN NULL
                                 ELSE next[a[j - 1]]
    BY <1>4
  <2>2. a = [j \in 1 .. n |-> a[j]]
    BY <1>4
  <2> HIDE DEF h
  <2>3. 0 \in A
    OBVIOUS
  <2>4. ASSUME NEW i \in Nat, i \in A, i + 1 <= n,
               NEW j \in 1 .. i + 1
        PROVE  a[j] = h[j]
    <3>1. \A l \in 1 .. i : a[l] = h[l]
      BY <2>4
    <3>2. j = 1 \/ j - 1 \in 1 .. i
      BY <2>4
    <3>3. j \in 1 .. n
      BY <2>4
    <3>4. j # 1 => a[j - 1] = h[j - 1]
      BY <3>1, <3>2
    <3>5. a[j] = IF j = 1 THEN head ELSE IF a[j - 1] = NULL THEN NULL
                 ELSE next[a[j - 1]]
      BY <2>1, <3>3
    <3>6. h[j] = IF j = 1 THEN head ELSE IF h[j - 1] = NULL THEN NULL
                 ELSE next[h[j - 1]]
      BY <1>2, <3>3
    <3> HIDE DEF A, F
    <3>7. CASE j = 1
      BY <3>5, <3>6, <3>7
    <3>8. CASE j # 1
      BY <3>4, <3>5, <3>6, <3>8
    <3> QED
      BY <3>7, <3>8
  <2>5. ASSUME NEW i \in Nat, i \in A PROVE i + 1 \in A
    <3>1. i + 1 <= n => \A j \in 1 .. i + 1 : a[j] = h[j]
      <4> HIDE DEF A, F
      <4> QED
        BY <2>4, <2>5
    <3> QED
      BY <3>1
  <2>6. n \in A
    <3> HIDE DEF A
    <3> QED
      BY <2>3, <2>5, SetInduction
  <2>7. \A j \in 1 .. n : a[j] = h[j]
    BY <2>6
  <2>8. h = [j \in 1 .. n |-> h[j]]
    BY DEF h
  <2> QED
    BY <2>2, <2>7, <2>8
<1>5. (CHOOSE a : a = F(a)) = h
  <2> HIDE DEF h, F
  <2> QED
    BY <1>3, <1>4
<1>6. Chain(head, next, n) = SubSeq(h, 1, Stop)
  <2> HIDE DEF h
  <2> QED
    BY <1>5 DEF Chain
<1>7. Stop = m
  <2>1. Len(h) = n
    <3>1. h \in Seq(D \cup {NULL})
      <4>1. \A i \in 1 .. n : (IF i <= m THEN c[i] ELSE NULL) \in D \cup {NULL}
        BY <1>1
      <4> QED
        BY <4>1, IsASeq
    <3>2. DOMAIN h = 1 .. n
      OBVIOUS
    <3> HIDE DEF h
    <3> QED
      BY <3>1, <3>2, LenProperties
  <2>2. /\ \A i \in 1 .. m : h[i] # NULL
        /\ m < n => h[m + 1] = NULL
    BY <1>1
  <2> HIDE DEF h
  <2>3. Stop = CHOOSE l \in 0 .. n : /\ \A i \in 1 .. l : h[i] # NULL
                                     /\ l < n => ~(h[l + 1] # NULL)
    BY <2>1 DEF CountWhile
  <2>4. \A l \in 0 .. n : (/\ \A i \in 1 .. l : h[i] # NULL
                           /\ l < n => ~(h[l + 1] # NULL)) => l = m
    <3> SUFFICES ASSUME NEW l \in 0 .. n, \A i \in 1 .. l : h[i] # NULL,
                        l < n => h[l + 1] = NULL
                 PROVE  l = m
      OBVIOUS
    <3>1. l < m => l + 1 \in 1 .. m /\ l < n
      BY <1>1
    <3>2. m < l => m + 1 \in 1 .. l /\ m < n
      BY <1>1
    <3> QED
      BY <1>1, <2>2, <3>1, <3>2
  <2>5. m \in 0 .. n
    BY <1>1
  <2> QED
    BY <2>2, <2>3, <2>4, <2>5
<1>8. SubSeq(h, 1, m) = c
  <2>1. \A i \in 1 .. m : h[i] = c[i] /\ h[i] \in D
    BY <1>1
  <2> HIDE DEF h
  <2>2. /\ SubSeq(h, 1, m) \in Seq(D)
        /\ Len(SubSeq(h, 1, m)) = m
        /\ \A i \in 1 .. m : SubSeq(h, 1, m)[i] = c[i]
    <3>1. 1 \in Int /\ m \in Int
      BY <1>1
    <3>2. /\ SubSeq(h, 1, m) \in Seq(D)
          /\ Len(SubSeq(h, 1, m)) = IF 1 <= m THEN m - 1 + 1 ELSE 0
          /\ \A i \in 1 .. m - 1 + 1 : SubSeq(h, 1, m)[i] = h[1 + i - 1]
      BY <2>1, <3>1, SubSeqProperties
    <3>3. m - 1 + 1 = m /\ \A i \in 1 .. m : 1 + i - 1 = i
      BY <1>1
    <3> QED
      BY <1>1, <2>1, <3>2, <3>3
  <2> QED
    BY <2>2, SeqEqual DEF IsList, m
<1> QED
  BY <1>6, <1>7, <1>8

LEMMA ListFacts ==
  ASSUME NEW D, NEW c, NEW head, NEW next, IsList(c, head, next, D)
  PROVE  /\ c \in Seq(D) /\ Unique(c) /\ Len(c) \in Nat /\ DOMAIN c = 1 .. Len(c)
         /\ \A i \in 1 .. Len(c) : c[i] \in D
         /\ \A y : Linked(c, y) <=> \E i \in 1 .. Len(c) : c[i] = y
         /\ \A i, j \in 1 .. Len(c) : c[i] = c[j] => i = j
         /\ c = <<>> <=> Len(c) = 0
         /\ head = IF Len(c) = 0 THEN NULL ELSE c[1]
         /\ \A i \in 1 .. Len(c) :
              next[c[i]] = IF i = Len(c) THEN NULL ELSE c[i + 1]
<1>1. c \in Seq(D) /\ Unique(c) /\ Len(c) \in Nat /\ DOMAIN c = 1 .. Len(c)
      /\ c \in [1 .. Len(c) -> D] /\ (c = <<>> <=> Len(c) = 0)
  BY LenProperties, EmptySeq DEF IsList
<1>2. \A i, j \in 1 .. Len(c) : c[i] = c[j] => i = j
  BY <1>1 DEF Unique
<1>3. \A y : Linked(c, y) <=> \E i \in 1 .. Len(c) : c[i] = y
  BY <1>1 DEF Linked
<1>4. /\ head = IF Len(c) = 0 THEN NULL ELSE c[1]
      /\ \A i \in 1 .. Len(c) :
           next[c[i]] = IF i = Len(c) THEN NULL ELSE c[i + 1]
  BY <1>1 DEF IsList
<1> QED
  BY <1>1, <1>2, <1>3, <1>4

LEMMA EmptyList ==
  ASSUME NEW D, NEW head, head = NULL, NEW next, NEW c, c = <<>>
  PROVE  IsList(c, head, next, D)
BY EmptySeq DEF IsList, Unique

(* What a list does not go through may change.                             *)
LEMMA ListFrame ==
  ASSUME NEW D, NEW c, NEW head, NEW next, IsList(c, head, next, D),
         NEW new, \A y : Linked(c, y) => new[y] = next[y]
  PROVE  IsList(c, head, new, D)
<1>1. \A i \in 1 .. Len(c) : new[c[i]] = next[c[i]]
  BY ListFacts
<1> QED
  BY <1>1 DEF IsList

(* The first entry is taken out: first is the one behind it.               *)
TakesOut(c, head, next, first, new) ==
  /\ head # NULL /\ first = next[head]
  /\ \A y : Linked(c, y) /\ y # head => new[y] = next[y]

LEMMA ListTail ==
  ASSUME NEW D, NULL \notin D, NEW c, NEW head, NEW next, IsList(c, head, next, D),
         NEW first, NEW new, TakesOut(c, head, next, first, new)
  PROVE  /\ head \in D /\ Linked(c, head)
         /\ \E r : /\ IsList(r, first, new, D)
                   /\ Len(c) \in Nat /\ Len(c) > 0 /\ Len(r) = Len(c) - 1
                   /\ \A y : Linked(r, y) <=> Linked(c, y) /\ y # head
                   /\ r # <<>> => r[Len(r)] = c[Len(c)]
<1> DEFINE n == Len(c)
           r == queue_delete_next(c)
<1>1. /\ c \in Seq(D) /\ Unique(c) /\ n \in Nat
      /\ \A i \in 1 .. n : c[i] \in D
      /\ \A y : Linked(c, y) <=> \E i \in 1 .. n : c[i] = y
      /\ \A i, j \in 1 .. n : c[i] = c[j] => i = j
      /\ c = <<>> <=> n = 0
      /\ head = IF n = 0 THEN NULL ELSE c[1]
      /\ \A i \in 1 .. n : next[c[i]] = IF i = n THEN NULL ELSE c[i + 1]
  BY ListFacts
<1>2. /\ n > 0 /\ c # <<>> /\ head = c[1] /\ 1 \in 1 .. n
      /\ first = next[head]
      /\ \A y : Linked(c, y) /\ y # head => new[y] = next[y]
  BY <1>1 DEF TakesOut
<1>3. r \in Seq(D) /\ Without(c, 1, r)
  BY <1>1, <1>2, DeleteFirst
<1>4. Unique(r) /\ \A y : Linked(r, y) <=> Linked(c, y) /\ y # head
  BY <1>1, <1>2, <1>3, WithoutUnique
<1>5. Len(r) = n - 1 /\ \A i \in 1 .. n - 1 : r[i] = c[i + 1]
  BY <1>3 DEF Without
<1>6. r = <<>> <=> n - 1 = 0
  BY <1>3, <1>5, EmptySeq, LenProperties
<1> HIDE DEF r, n
<1>7. IsList(r, first, new, D)
  <2>1. first = IF r = <<>> THEN NULL ELSE r[1]
    BY <1>1, <1>2, <1>5, <1>6
  <2>2. ASSUME NEW i \in 1 .. n - 1
        PROVE  new[r[i]] = IF i = n - 1 THEN NULL ELSE r[i + 1]
    <3>1. i + 1 \in 1 .. n /\ i + 1 # 1 /\ r[i] = c[i + 1]
      BY <1>1, <1>5
    <3>2. Linked(c, r[i]) /\ r[i] # head
      BY <1>1, <1>2, <3>1
    <3>3. new[r[i]] = IF i + 1 = n THEN NULL ELSE c[i + 1 + 1]
      BY <1>1, <1>2, <3>1, <3>2
    <3> QED
      BY <1>1, <1>5, <3>3
  <2> QED
    BY <1>3, <1>4, <1>5, <2>1, <2>2 DEF IsList
<1>8. r # <<>> => r[Len(r)] = c[n]
  BY <1>1, <1>5, <1>6
<1> QED
  BY <1>1, <1>2, <1>4, <1>5, <1>7, <1>8 DEF n

LEMMA WithExists ==
  ASSUME NEW T, NEW q \in Seq(T), NEW x \in T, NEW n \in 0 .. Len(q)
  PROVE  \E r \in Seq(T) : With(q, n + 1, x, r)
<1>1. Len(q) \in Nat
  BY LenProperties
<1>2. CASE n = Len(q)
  BY <1>2, AppendWith
<1>3. CASE n # Len(q)
  <2>1. n + 1 \in 1 .. Len(q)
    BY <1>1, <1>3
  <2> QED
    BY <2>1, InsertAtWith
<1> QED
  BY <1>2, <1>3

(* The entry x is put in behind the first n.                               *)
PutsIn(c, head, next, n, x, first, new) ==
  /\ first = IF n = 0 THEN x ELSE head
  /\ new[x] = IF n = Len(c) THEN NULL ELSE c[n + 1]
  /\ n > 0 => new[c[n]] = x
  /\ \A y : Linked(c, y) /\ (n > 0 => y # c[n]) => new[y] = next[y]

LEMMA ListInsert ==
  ASSUME NEW D, NULL \notin D, NEW c, NEW head, NEW next, IsList(c, head, next, D),
         NEW x \in D, ~Linked(c, x), NEW n \in 0 .. Len(c),
         NEW first, NEW new, PutsIn(c, head, next, n, x, first, new)
  PROVE  \E r : /\ IsList(r, first, new, D)
                /\ Len(c) \in Nat /\ Len(r) = Len(c) + 1
                /\ \A y : Linked(r, y) <=> Linked(c, y) \/ y = x
                /\ r[Len(r)] = IF n = Len(c) THEN x ELSE c[Len(c)]
<1> DEFINE N == Len(c)
<1>1. /\ c \in Seq(D) /\ Unique(c) /\ N \in Nat
      /\ \A i \in 1 .. N : c[i] \in D
      /\ \A y : Linked(c, y) <=> \E i \in 1 .. N : c[i] = y
      /\ \A i, j \in 1 .. N : c[i] = c[j] => i = j
      /\ head = IF N = 0 THEN NULL ELSE c[1]
      /\ \A i \in 1 .. N : next[c[i]] = IF i = N THEN NULL ELSE c[i + 1]
  BY ListFacts
<1>2. PICK r \in Seq(D) : With(c, n + 1, x, r)
  BY <1>1, WithExists
<1>3. n \in 0 .. N /\ n + 1 \in 1 .. N + 1
  BY <1>1
<1>4. Unique(r) /\ \A y : Linked(r, y) <=> Linked(c, y) \/ y = x
  BY <1>1, <1>2, <1>3, WithUnique
<1>5. /\ Len(r) = N + 1
      /\ \A i \in 1 .. N + 1 :
           r[i] = IF i < n + 1 THEN c[i] ELSE IF i = n + 1 THEN x ELSE c[i - 1]
  BY <1>2 DEF With
<1>6. r # <<>>
  BY <1>1, <1>5, EmptySeq
<1>7. /\ first = (IF n = 0 THEN x ELSE head)
      /\ new[x] = (IF n = N THEN NULL ELSE c[n + 1])
      /\ n > 0 => new[c[n]] = x
      /\ \A y : Linked(c, y) /\ (n > 0 => y # c[n]) => new[y] = next[y]
  BY DEF PutsIn
<1> HIDE DEF N
<1>8. ASSUME NEW i \in 1 .. N + 1
      PROVE  new[r[i]] = IF i = N + 1 THEN NULL ELSE r[i + 1]
  <2>1. CASE i < n
    <3>1. /\ i \in 1 .. N /\ i + 1 < n + 1 /\ i + 1 \in 1 .. N + 1 /\ i # N + 1 /\ i # N
          /\ i # n /\ n \in 1 .. N /\ n > 0
      BY <1>1, <1>3, <2>1
    <3>2. r[i] = c[i] /\ r[i + 1] = c[i + 1]
      BY <1>5, <2>1, <3>1
    <3>3. Linked(c, c[i]) /\ c[i] # c[n]
      BY <1>1, <3>1
    <3>4. new[c[i]] = c[i + 1]
      BY <1>1, <1>7, <3>1, <3>3
    <3> QED
      BY <3>1, <3>2, <3>4
  <2>2. CASE i = n
    <3>1. i > 0 /\ i < n + 1 /\ i + 1 \in 1 .. N + 1 /\ i # N + 1
      BY <1>1, <1>3, <2>2
    <3>2. r[i] = c[i] /\ r[i + 1] = x
      BY <1>5, <2>2, <3>1
    <3> QED
      BY <1>7, <2>2, <3>1, <3>2
  <2>3. CASE i = n + 1
    <3>1. r[i] = x /\ (i # N + 1 => i + 1 \in 1 .. N + 1 /\ r[i + 1] = c[i])
      BY <1>1, <1>3, <1>5, <2>3
    <3>2. i = N + 1 <=> n = N
      BY <1>1, <1>3, <2>3
    <3> QED
      BY <1>7, <2>3, <3>1, <3>2
  <2>4. CASE i > n + 1
    <3>1. /\ i - 1 \in 1 .. N /\ i - 1 # n /\ (n > 0 => n \in 1 .. N)
          /\ i # N + 1 => i - 1 # N /\ i + 1 \in 1 .. N + 1 /\ i + 1 > n + 1
          /\ i = N + 1 => i - 1 = N
          /\ i - 1 + 1 = i /\ i + 1 - 1 = i
      BY <1>1, <1>3, <2>4
    <3>2. r[i] = c[i - 1] /\ (i # N + 1 => r[i + 1] = c[i])
      BY <1>1, <1>3, <1>5, <2>4, <3>1
    <3>3. Linked(c, c[i - 1]) /\ (n > 0 => c[i - 1] # c[n])
      BY <1>1, <3>1
    <3>4. new[c[i - 1]] = IF i - 1 = N THEN NULL ELSE c[i]
      BY <1>1, <1>7, <3>1, <3>3
    <3> QED
      BY <3>1, <3>2, <3>4
  <2> QED
    BY <1>1, <1>3, <2>1, <2>2, <2>3, <2>4
<1>9. first = IF r = <<>> THEN NULL ELSE r[1]
  <2>1. r[1] = IF n = 0 THEN x ELSE c[1]
    BY <1>1, <1>3, <1>5
  <2>2. n # 0 => head = c[1]
    BY <1>1, <1>3
  <2> QED
    BY <1>6, <1>7, <2>1, <2>2
<1>10. IsList(r, first, new, D)
  BY <1>2, <1>4, <1>5, <1>8, <1>9 DEF IsList
<1>11. r[N + 1] = IF n = N THEN x ELSE c[N]
  BY <1>1, <1>3, <1>5
<1> QED
  BY <1>1, <1>4, <1>5, <1>10, <1>11 DEF N

-----------------------------------------------------------------------------
(* Mailboxes.                                                              *)

MbxAt(b) ==
  LET c == Mail(b)
  IN /\ mbx[b] = [pk_head |-> mbx[b].pk_head, pk_last |-> mbx[b].pk_last]
     /\ IsList(c, mbx[b].pk_head, pk_next, Msgs)
     /\ b \notin TA_MPRI /\ c # <<>> => mbx[b].pk_last = c[Len(c)]
     /\ ~queue_empty(k.waitq[b]) => mbx[b].pk_head = NULL

MbxsOK ==
  /\ mbx = [b \in Mbxs |-> mbx[b]]
  /\ pk_next = [m \in Msgs |-> pk_next[m]]
  /\ \A b \in Mbxs : MbxAt(b)
  /\ \A b, v \in Mbxs : \A m : Linked(Mail(b), m) /\ Linked(Mail(v), m) => b = v

LEMMA MessagesIs ==
  ASSUME NEW c, NEW head, NEW next, IsList(c, head, next, Msgs)
  PROVE  Messages(head, next) = c
<1>1. Cardinality(Msgs) \in Nat /\ Len(c) <= Cardinality(Msgs)
  BY MailboxAssumption, ListLength DEF IsList
<1> QED
  BY <1>1, MailboxAssumption, ChainIs DEF Messages

LEMMA MbxsStay ==
  ASSUME KernelInv(k), KernelInv(k'), Shrinks(k, k', Mbxs), MbxsOK,
         UNCHANGED mbxvars
  PROVE  MbxsOK'
<1>1. \A b \in Mbxs : queue_empty(k.waitq[b]) => queue_empty(k'.waitq[b])
  <2>1. Mbxs \in SUBSET WaitQueues
    BY MailboxAssumption
  <2> QED
    BY <2>1, StaysEmpty
<1>2. mbx' = mbx /\ pk_next' = pk_next
  BY DEF mbxvars
<1>3. \A b : Mail(b)' = Mail(b)
  BY <1>2 DEF Mail
<1>4. ASSUME NEW b \in Mbxs PROVE MbxAt(b)'
  BY <1>1, <1>2, <1>3 DEF MbxsOK, MbxAt
<1> QED
  BY <1>2, <1>3, <1>4 DEF MbxsOK

LEMMA MbxStep ==
  ASSUME KernelInv(k), WinfoOK, MbxsOK, NEW b \in Mbxs, MbxServices(b)
  PROVE  KernelInv(k') /\ Only(k, k', {b}) /\ Keeping /\ MbxsOK'
<1> DEFINE Q == {b}
           c == Mail(b)
           others(y) == \E v \in Mbxs \ {b} : Linked(Mail(v), y)
           Goal == KernelInv(k') /\ Only(k, k', Q) /\ Keeping /\ MbxsOK'
<1> SUFFICES Goal
  OBVIOUS
<1>0. /\ b \in WaitQueues /\ Mbxs \subseteq WaitQueues
      /\ k.waitq \in [WaitQueues -> Seq(Tasks)]
      /\ mbx = [v \in Mbxs |-> mbx[v]] /\ pk_next = [m \in Msgs |-> pk_next[m]]
      /\ \A v \in Mbxs : MbxAt(v)
      /\ \A y : Linked(c, y) => ~others(y)
      /\ NULL \notin Msgs
  BY MailboxAssumption, NobodyWaits DEF MbxsOK
<1>1. PICK h, l : mbx[b] = [pk_head |-> h, pk_last |-> l]
  BY <1>0 DEF MbxAt
<1>2. /\ mbx[b].pk_head = h /\ mbx[b].pk_last = l
      /\ IsList(c, h, pk_next, Msgs) /\ Messages(h, pk_next) = c
      /\ b \notin TA_MPRI /\ c # <<>> => l = c[Len(c)]
      /\ ~queue_empty(k.waitq[b]) => h = NULL
  BY <1>0, <1>1, MessagesIs DEF MbxAt, Mail
(* What is to be shown of b alone.                                         *)
<1>3. ASSUME NEW d, NEW head, NEW last, KernelInv(k'), Only(k, k', Q), Keeping,
             mbx' = [mbx EXCEPT ![b] = [pk_head |-> head, pk_last |-> last]],
             pk_next' = [m \in Msgs |-> pk_next'[m]],
             IsList(d, head, pk_next', Msgs),
             b \notin TA_MPRI /\ d # <<>> => last = d[Len(d)],
             ~queue_empty(k'.waitq[b]) => head = NULL,
             \A y : others(y) => ~Linked(d, y) /\ pk_next'[y] = pk_next[y]
      PROVE  Goal
  <2>1. /\ mbx'[b] = [pk_head |-> head, pk_last |-> last]
        /\ \A v \in Mbxs \ {b} : mbx'[v] = mbx[v]
        /\ mbx' = [v \in Mbxs |-> mbx'[v]]
    BY <1>0, <1>3
  <2>2. mbx'[b].pk_head = head /\ mbx'[b].pk_last = last
    BY <2>1
  <2>3. Mail(b)' = d
    <3>1. Messages(head, pk_next') = d
      BY <1>3, MessagesIs
    <3> QED
      BY <2>2, <3>1 DEF Mail, Messages
  <2>4. MbxAt(b)'
    BY <1>3, <2>1, <2>2, <2>3 DEF MbxAt
  <2>5. ASSUME NEW v \in Mbxs \ {b} PROVE MbxAt(v)' /\ Mail(v)' = Mail(v)
    <3>1. v \in WaitQueues /\ k'.waitq[v] = k.waitq[v] /\ MbxAt(v)
          /\ mbx'[v] = mbx[v]
      BY <1>0, <1>3, <2>1 DEF Only
    <3>2. IsList(Mail(v), mbx[v].pk_head, pk_next, Msgs)
      BY <3>1 DEF MbxAt
    <3>3. IsList(Mail(v), mbx[v].pk_head, pk_next', Msgs)
      <4>1. \A y : Linked(Mail(v), y) => pk_next'[y] = pk_next[y]
        BY <1>3
      <4> QED
        BY <3>2, <4>1, ListFrame
    <3>4. Mail(v)' = Mail(v)
      <4>1. Messages(mbx[v].pk_head, pk_next') = Mail(v)
        BY <3>3, MessagesIs
      <4> QED
        BY <3>1, <4>1 DEF Mail, Messages
    <3> QED
      BY <3>1, <3>3, <3>4 DEF MbxAt
  <2>6. \A u, v \in Mbxs : \A m : Linked(Mail(u)', m) /\ Linked(Mail(v)', m) => u = v
    BY <1>3, <2>3, <2>5 DEF MbxsOK
  <2> QED
    BY <1>3, <2>1, <2>4, <2>5, <2>6 DEF MbxsOK
<1>4. ASSUME UNCHANGED k
      PROVE  KernelInv(k') /\ Only(k, k', Q)
  BY <1>4 DEF Only
<1>5. mbx = [mbx EXCEPT ![b] = [pk_head |-> h, pk_last |-> l]]
  BY <1>0, <1>1
<1>5a. ASSUME NEW x, NEW M, M = [mbx EXCEPT ![b].pk_head = x]
       PROVE  M = [mbx EXCEPT ![b] = [pk_head |-> x, pk_last |-> l]]
  <2> DEFINE R == [mbx[b] EXCEPT !.pk_head = x]
  <2>1. R = [pk_head |-> x, pk_last |-> l]
    BY <1>1
  <2>2. M = [mbx EXCEPT ![b] = R]
    BY <1>0, <1>5a
  <2> HIDE DEF R
  <2> QED
    BY <2>1, <2>2
<1>6. ASSUME UNCHANGED mbxvars
      PROVE  /\ mbx' = [mbx EXCEPT ![b] = [pk_head |-> h, pk_last |-> l]]
             /\ pk_next' = [m \in Msgs |-> pk_next'[m]] /\ pk_next' = pk_next
             /\ IsList(c, h, pk_next', Msgs)
  <2>1. mbx' = mbx /\ pk_next' = pk_next
    BY <1>6 DEF mbxvars
  <2> HIDE DEF c
  <2> QED
    BY <1>0, <1>2, <1>5, <2>1
<1> HIDE DEF Q, c, Goal, others
(* The message m comes behind the first n.                                 *)
<1>7. ASSUME NEW m \in Msgs, ~Linked(c, m), ~others(m), NEW n \in 0 .. Len(c),
             NEW last, KernelInv(k'), Only(k, k', Q), Keeping,
             queue_empty(k'.waitq[b]),
             mbx' = [mbx EXCEPT ![b] = [pk_head |-> IF n = 0 THEN m ELSE h,
                                        pk_last |-> last]],
             b \notin TA_MPRI => n = Len(c) /\ last = m,
             pk_next' = [x \in Msgs |-> pk_next'[x]],
             pk_next'[m] = IF n = Len(c) THEN NULL ELSE c[n + 1],
             n > 0 => pk_next'[c[n]] = m,
             \A y \in Msgs : y # m /\ (n > 0 => y # c[n]) => pk_next'[y] = pk_next[y]
      PROVE  Goal
  <2> DEFINE head == IF n = 0 THEN m ELSE h
  <2>1. /\ \A y : Linked(c, y) => y \in Msgs
        /\ n > 0 => Linked(c, c[n])
    <3>1. /\ Len(c) \in Nat /\ \A y : Linked(c, y) <=> \E i \in 1 .. Len(c) : c[i] = y
          /\ \A i \in 1 .. Len(c) : c[i] \in Msgs
      BY <1>2, ListFacts
    <3>2. n > 0 => n \in 1 .. Len(c)
      BY <3>1
    <3> QED
      BY <3>1, <3>2
  <2>2. \A y : Linked(c, y) /\ (n > 0 => y # c[n]) => pk_next'[y] = pk_next[y]
    BY <1>7, <2>1
  <2>0. head = IF n = 0 THEN m ELSE h
    OBVIOUS
  <2> HIDE DEF head
  <2>3. PICK r : /\ IsList(r, head, pk_next', Msgs)
                 /\ \A y : Linked(r, y) <=> Linked(c, y) \/ y = m
                 /\ r[Len(r)] = IF n = Len(c) THEN m ELSE c[Len(c)]
    <3>1. PutsIn(c, h, pk_next, n, m, head, pk_next')
      BY <1>7, <2>0, <2>2 DEF PutsIn
    <3>2. m \in Msgs /\ ~Linked(c, m) /\ n \in 0 .. Len(c) /\ NULL \notin Msgs
      BY <1>0, <1>7
    <3> QED
      BY <1>2, <3>1, <3>2, ListInsert
  <2>4. b \notin TA_MPRI /\ r # <<>> => last = r[Len(r)]
    BY <1>7, <2>3
  <2>5. \A y : others(y) => ~Linked(r, y) /\ pk_next'[y] = pk_next[y]
    <3>1. \A y : others(y) => y \in Msgs
      <4> SUFFICES ASSUME NEW v \in Mbxs \ {b}, NEW y, Linked(Mail(v), y)
                   PROVE  y \in Msgs
        BY DEF others
      <4>1. IsList(Mail(v), mbx[v].pk_head, pk_next, Msgs)
        BY <1>0 DEF MbxAt
      <4>2. Mail(v) \in Seq(Msgs)
        BY <4>1 DEF IsList
      <4> QED
        BY <4>2, QueueLinked
    <3> QED
      BY <1>0, <1>7, <2>1, <2>3, <3>1
  <2>6. mbx' = [mbx EXCEPT ![b] = [pk_head |-> head, pk_last |-> last]]
    BY <1>7, <2>0
  <2> QED
    BY <1>3, <1>7, <2>3, <2>4, <2>5, <2>6
(* snd_mbx where nobody receives.                                          *)
<1>8. ASSUME NEW m \in Msgs, ~Linked(c, m), ~others(m), UNCHANGED k, Keeping,
             queue_empty(k.waitq[b]),
             IF b \in TA_MPRI THEN enqueue_msg_pri(b, m) ELSE enqueue_msg(b, m)
      PROVE  Goal
  <2>0. /\ KernelInv(k') /\ Only(k, k', Q) /\ queue_empty(k'.waitq[b])
        /\ Len(c) \in Nat /\ c = <<>> <=> Len(c) = 0
        /\ h = IF Len(c) = 0 THEN NULL ELSE c[1]
        /\ \A i \in 1 .. Len(c) : c[i] \in Msgs /\ Linked(c, c[i]) /\ c[i] # NULL
    <3>1. /\ Len(c) \in Nat /\ c = <<>> <=> Len(c) = 0
          /\ \A y : Linked(c, y) <=> \E i \in 1 .. Len(c) : c[i] = y
          /\ \A i \in 1 .. Len(c) : c[i] \in Msgs
          /\ h = IF Len(c) = 0 THEN NULL ELSE c[1]
      BY <1>2, ListFacts
    <3> QED
      BY <1>0, <1>4, <1>8, <3>1
  <2>1. ASSUME NEW n \in 0 .. Len(c), NEW x, NEW N,
               x = IF n = Len(c) THEN NULL ELSE c[n + 1],
               N = [pk_next EXCEPT ![m] = x],
               n = 0 => pk_next' = N,
               n > 0 => pk_next' = [N EXCEPT ![c[n]] = m]
        PROVE  /\ pk_next' = [y \in Msgs |-> pk_next'[y]]
               /\ pk_next'[m] = IF n = Len(c) THEN NULL ELSE c[n + 1]
               /\ n > 0 => pk_next'[c[n]] = m
               /\ \A y \in Msgs : y # m /\ (n > 0 => y # c[n]) =>
                                    pk_next'[y] = pk_next[y]
    <3>1. /\ N = [y \in Msgs |-> N[y]] /\ N[m] = x
          /\ \A y \in Msgs : y # m => N[y] = pk_next[y]
      BY <1>0, <2>1
    <3>2. CASE n = 0
      BY <2>1, <3>1, <3>2
    <3>3. CASE n > 0
      <4>1. n \in 1 .. Len(c)
        BY <2>0, <3>3
      <4>2. c[n] \in Msgs /\ c[n] # m
        BY <1>8, <2>0, <4>1
      <4> QED
        BY <2>1, <3>1, <3>3, <4>2
    <3> QED
      BY <2>0, <3>2, <3>3
  <2>2. CASE b \in TA_MPRI
    <3> DEFINE L == Len(c)
               T == {i \in 1 .. L : ~(msgpri[c[i]] <= msgpri[m])}
               n == CountWhile(c, LAMBDA y : msgpri[y] <= msgpri[m])
               x == IF n = Len(c) THEN NULL ELSE c[n + 1]
               N == [pk_next EXCEPT ![m] = x]
    <3>1. n \in 0 .. Len(c)
      <4>1. PICK j \in 0 .. L : /\ \A i \in 1 .. j : i \notin T
                                /\ j < L => j + 1 \in T
        <5>1. T \subseteq 1 .. L /\ L \in Nat
          BY <2>0
        <5> HIDE DEF T, L
        <5> QED
          BY <5>1, FirstIn
      <4>2. /\ \A i \in 1 .. j : msgpri[c[i]] <= msgpri[m]
            /\ j < Len(c) => ~(msgpri[c[j + 1]] <= msgpri[m])
        BY <2>0, <4>1
      <4> QED
        BY <2>0, <4>2 DEF CountWhile
    <3>2. IF n = 0 THEN pk_next' = N /\ mbx' = [mbx EXCEPT ![b].pk_head = m]
          ELSE pk_next' = [N EXCEPT ![c[n]] = m] /\ UNCHANGED mbx
      BY <1>2, <1>8, <2>2 DEF enqueue_msg_pri
    <3> HIDE DEF n
    <3>3. mbx' = [mbx EXCEPT ![b] = [pk_head |-> IF n = 0 THEN m ELSE h,
                                     pk_last |-> l]]
      <4>1. CASE n = 0
        BY <1>0, <1>1, <3>2, <4>1
      <4>2. CASE n # 0
        BY <1>5, <3>2, <4>2
      <4> QED
        BY <4>1, <4>2
    <3>4. (n = 0 => pk_next' = N) /\ (n > 0 => pk_next' = [N EXCEPT ![c[n]] = m])
      BY <3>1, <3>2
    <3>5. x = (IF n = Len(c) THEN NULL ELSE c[n + 1]) /\ N = [pk_next EXCEPT ![m] = x]
      OBVIOUS
    <3> HIDE DEF x, N
    <3>6. /\ pk_next' = [y \in Msgs |-> pk_next'[y]]
          /\ pk_next'[m] = IF n = Len(c) THEN NULL ELSE c[n + 1]
          /\ n > 0 => pk_next'[c[n]] = m
          /\ \A y \in Msgs : y # m /\ (n > 0 => y # c[n]) => pk_next'[y] = pk_next[y]
      BY <2>1, <3>1, <3>4, <3>5
    <3> QED
      BY <1>7, <1>8, <2>0, <2>2, <3>1, <3>3, <3>6
  <2>3. CASE b \notin TA_MPRI
    <3> DEFINE N == [pk_next EXCEPT ![m] = NULL]
    <3> DEFINE n == Len(c)
    <3>0. n \in Nat /\ n \in 0 .. n
      BY <2>0
    <3>1. IF h # NULL
          THEN pk_next' = [N EXCEPT ![l] = m] /\ mbx' = [mbx EXCEPT ![b].pk_last = m]
          ELSE /\ pk_next' = N
               /\ mbx' = [mbx EXCEPT ![b] = [pk_head |-> m, pk_last |-> m]]
      BY <1>2, <1>8, <2>3 DEF enqueue_msg
    <3>2. N = [pk_next EXCEPT ![m] = NULL] /\ NULL = IF n = Len(c) THEN NULL ELSE c[n + 1]
      OBVIOUS
    <3>3. h # NULL <=> n > 0
      BY <2>0
    <3>4. n > 0 => l = c[n]
      BY <1>2, <2>0, <2>3
    <3>5. mbx' = [mbx EXCEPT ![b] = [pk_head |-> IF n = 0 THEN m ELSE h,
                                     pk_last |-> m]]
      <4>1. CASE n = 0
        BY <3>1, <3>3, <4>1
      <4>2. CASE n > 0
        BY <1>0, <1>1, <3>1, <3>3, <4>2
      <4> QED
        BY <3>0, <4>1, <4>2
    <3> HIDE DEF N
    <3>6. (n = 0 => pk_next' = N) /\ (n > 0 => pk_next' = [N EXCEPT ![c[n]] = m])
      BY <3>0, <3>1, <3>3, <3>4
    <3>7. /\ pk_next' = [y \in Msgs |-> pk_next'[y]]
          /\ pk_next'[m] = IF n = Len(c) THEN NULL ELSE c[n + 1]
          /\ n > 0 => pk_next'[c[n]] = m
          /\ \A y \in Msgs : y # m /\ (n > 0 => y # c[n]) => pk_next'[y] = pk_next[y]
      <4>1. \A x : x = NULL => x = IF n = Len(c) THEN NULL ELSE c[n + 1]
        OBVIOUS
      <4> QED
        BY <2>1, <3>0, <3>2, <3>6, <4>1
    <3> QED
      BY <1>7, <1>8, <2>0, <2>3, <3>0, <3>5, <3>7
  <2> QED
    BY <2>2, <2>3
<1>9. ASSUME NEW m \in Msgs, Owned(m), snd_mbx(b, m) PROVE Goal
  <2>1. CASE /\ ~queue_empty(k.waitq[b]) /\ Ends(k', CompleteFirst(k, b))
             /\ Keeping /\ UNCHANGED mbxvars
    <3> DEFINE q == queue_delete_next(k.waitq[b])
    <3>1. KernelInv(k') /\ k'.waitq = [k.waitq EXCEPT ![b] = q]
      BY <1>0, <2>1, FirstServed
    <3> HIDE DEF q
    <3>2. Only(k, k', Q)
      BY <1>0, <3>1 DEF Only, Q
    <3> QED
      BY <1>0, <1>2, <1>3, <1>6, <2>1, <3>1, <3>2
  <2>2. ~Linked(c, m) /\ ~others(m)
    BY <1>9 DEF Owned, c, others, Mail
  <2>3. Hand(Head(k.waitq[b]), m) \/ Nothing => Keeping
    BY KeepingFacts DEF Hand, Nothing
  <2> QED
    BY <1>8, <1>9, <2>1, <2>2, <2>3 DEF snd_mbx, Ends
<1>10. ASSUME Receive(b) PROVE Goal
  <2> DEFINE new == pk_next'
             first == pk_next[h]
  <2>1. /\ h # NULL /\ UNCHANGED k /\ Keeping /\ first = pk_next[h]
        /\ mbx' = [mbx EXCEPT ![b].pk_head = first]
        /\ new = [pk_next EXCEPT ![h] = NULL]
    <3>1. Return(h) => Keeping
      BY KeepingFacts DEF Return, Hand
    <3> QED
      BY <1>2, <1>10, <3>1 DEF Receive
  <2>2. KernelInv(k') /\ Only(k, k', Q) /\ queue_empty(k'.waitq[b])
    BY <1>2, <1>4, <2>1
  <2>3. /\ new = [m \in Msgs |-> new[m]]
        /\ \A y : Linked(c, y) /\ y # h => new[y] = pk_next[y]
        /\ \A y \in Msgs : y # h => new[y] = pk_next[y]
    <3>1. \A y : Linked(c, y) => y \in Msgs
      <4>1. c \in Seq(Msgs)
        BY <1>2 DEF IsList
      <4> QED
        BY <4>1, QueueLinked
    <3> QED
      BY <1>0, <2>1, <3>1
  <2> HIDE DEF new, first
  <2>3a. TakesOut(c, h, pk_next, first, new)
    BY <2>1, <2>3 DEF TakesOut
  <2>4. PICK r : /\ IsList(r, first, new, Msgs)
                 /\ Len(r) = Len(c) - 1 /\ Len(c) \in Nat
                 /\ \A y : Linked(r, y) <=> Linked(c, y) /\ y # h
                 /\ r # <<>> => r[Len(r)] = c[Len(c)]
    BY <1>0, <1>2, <2>3a, ListTail
  <2>5. Linked(c, h)
    BY <1>0, <1>2, <2>3a, ListTail
  <2>6. \A y : others(y) => ~Linked(r, y) /\ new[y] = pk_next[y]
    <3>1. \A y : others(y) => y \in Msgs /\ ~Linked(c, y)
      <4> SUFFICES ASSUME NEW v \in Mbxs \ {b}, NEW y, Linked(Mail(v), y)
                   PROVE  y \in Msgs /\ ~Linked(c, y)
        BY DEF others
      <4>1. IsList(Mail(v), mbx[v].pk_head, pk_next, Msgs)
        BY <1>0 DEF MbxAt
      <4>2. Mail(v) \in Seq(Msgs)
        BY <4>1 DEF IsList
      <4>3. y \in Msgs
        BY <4>2, QueueLinked
      <4> QED
        BY <1>0, <4>3 DEF others
    <3> QED
      BY <2>3, <2>4, <2>5, <3>1
  <2>7. r # <<>> => c # <<>>
    <3>1. (r = <<>> <=> Len(r) = 0) /\ Len(r) \in Nat
      BY <2>4, ListFacts
    <3>2. c = <<>> <=> Len(c) = 0
      BY <1>2, ListFacts
    <3> QED
      BY <2>4, <3>1, <3>2
  <2>8. mbx' = [mbx EXCEPT ![b] = [pk_head |-> first, pk_last |-> l]]
    <3>1. mbx' = [mbx EXCEPT ![b].pk_head = first]
      BY <2>1
    <3> QED
      BY <1>5a, <3>1
  <2>9. b \notin TA_MPRI /\ r # <<>> => l = r[Len(r)]
    BY <1>2, <2>4, <2>7
  <2>10. /\ pk_next' = [m \in Msgs |-> pk_next'[m]]
         /\ IsList(r, first, pk_next', Msgs)
         /\ \A y : others(y) => ~Linked(r, y) /\ pk_next'[y] = pk_next[y]
    BY <2>3, <2>4, <2>6 DEF new
  <2> QED
    BY <1>3, <2>1, <2>2, <2>8, <2>9, <2>10
<1>11. ASSUME NEW tmout \in Nat \cup {TMO_FEVR}, trcv_mbx(b, tmout) PROVE Goal
  <2>1. CASE /\ CanDispatch /\ h = NULL /\ WaitFor("WAIT_MBX", b, tmout, NULL)
             /\ UNCHANGED mbxvars
    <3>1. MayQueue(b, "WAIT_MBX")
      BY <1>0 DEF MayQueue, TS_WAIT_WOBJ, TS_WAIT_WOBJCB
    <3>2. KernelInv(k') /\ Joins(k, k', b, k.runtsk)
      BY <2>1, <3>1, StartsToWait DEF WaitFor
    <3>3. Only(k, k', Q)
      BY <1>0, <3>2 DEF Only, Joins, Q
    <3>4. Keeping
      BY <2>1, KeepingFacts DEF WaitFor
    <3> QED
      BY <1>0, <1>2, <1>3, <1>6, <2>1, <3>2, <3>3, <3>4
  <2> QED
    BY <1>2, <1>10, <1>11, <2>1 DEF trcv_mbx
<1>12. CASE ini_mbx(b)
  <2> DEFINE q == <<>>
             new == pk_next'
  <2>1. /\ TskCtxUnl /\ k' = DispatchIf(init_wait_queue(k, b)) /\ Keeping
        /\ mbx' = [mbx EXCEPT ![b].pk_head = NULL]
        /\ new = [m \in Msgs |-> IF Linked(c, m) THEN NULL ELSE pk_next[m]]
    BY <1>2, <1>12, KeepingFacts DEF ini_mbx, Nothing
  <2>2. q = <<>>
    OBVIOUS
  <2> HIDE DEF q
  <2>3. KernelInv(k') /\ k'.waitq = [k.waitq EXCEPT ![b] = q]
    BY <1>0, <2>1, <2>2, AllReleased
  <2>4. Only(k, k', Q) /\ queue_empty(k'.waitq[b])
    BY <1>0, <2>2, <2>3 DEF Only, Q, queue_empty
  <2>5. \A y : others(y) => new[y] = pk_next[y]
    <3> SUFFICES ASSUME NEW v \in Mbxs \ {b}, NEW y, Linked(Mail(v), y)
                 PROVE  new[y] = pk_next[y]
      BY DEF others
    <3>1. IsList(Mail(v), mbx[v].pk_head, pk_next, Msgs)
      BY <1>0 DEF MbxAt
    <3>2. Mail(v) \in Seq(Msgs)
      BY <3>1 DEF IsList
    <3>3. y \in Msgs
      BY <3>2, QueueLinked
    <3>4. ~Linked(c, y)
      BY <1>0 DEF others
    <3> QED
      BY <2>1, <3>3, <3>4
  <2>6. new = [m \in Msgs |-> new[m]]
    BY <2>1
  <2> HIDE DEF new
  <2>7. IsList(q, NULL, new, Msgs)
    BY <2>2, EmptyList
  <2>8. \A y : ~Linked(q, y)
    BY <2>2 DEF Linked
  <2>9. mbx' = [mbx EXCEPT ![b] = [pk_head |-> NULL, pk_last |-> l]]
    BY <1>5a, <2>1
  <2> QED
    BY <1>3, <2>1, <2>2, <2>3, <2>4, <2>5, <2>6, <2>7, <2>8, <2>9 DEF new
<1>13. TMO_FEVR \in Nat \cup {TMO_FEVR} /\ Timeout \subseteq Nat \cup {TMO_FEVR}
  BY TaskSyncAssumption DEF Timeout
<1>14. Goal
  BY <1>9, <1>10, <1>11, <1>12, <1>13 DEF MbxServices, rcv_mbx, prcv_mbx
<1> QED
  BY <1>14 DEF Goal, Q

-----------------------------------------------------------------------------
(* Priority data queues.                                                   *)

Nexts(mb) == [i \in DOMAIN mb |-> mb[i].next]

(* A management area of n blocks: c is the list of data, f the free blocks. *)
Area(n, c, f, mb, count, head, un, free) ==
  LET B == 0 .. n - 1
  IN /\ mb = [i \in B |-> [data |-> mb[i].data, next |-> mb[i].next]]
     /\ IsList(c, head, Nexts(mb), B) /\ IsList(f, free, Nexts(mb), B)
     /\ \A i : ~(Linked(c, i) /\ Linked(f, i))
     /\ \A i \in B : i < un <=> Linked(c, i) \/ Linked(f, i)
     /\ un \in 0 .. n /\ count = Len(c) /\ Len(c) + Len(f) = un

AreaOK(Q, n) ==
  \E c, f, mb, count, head, un, free :
    /\ Q = [mb |-> mb, count |-> count, p_head |-> head, unused |-> un,
            p_freelist |-> free]
    /\ Area(n, c, f, mb, count, head, un, free)

LEMMA AreaFacts ==
  ASSUME NEW n \in Nat, NEW c, NEW f, NEW mb, NEW count, NEW head, NEW un,
         NEW free, Area(n, c, f, mb, count, head, un, free)
  PROVE  /\ DOMAIN mb = 0 .. n - 1
         /\ Nexts(mb) = [i \in 0 .. n - 1 |-> mb[i].next]
         /\ Len(c) \in Nat /\ Len(f) \in Nat /\ un \in 0 .. n
         /\ count = Len(c) /\ count \in 0 .. n /\ Len(c) + Len(f) = un
         /\ c = <<>> <=> Len(c) = 0
         /\ f = <<>> <=> Len(f) = 0
         /\ \A y : Linked(c, y) \/ Linked(f, y) => y \in 0 .. n - 1
         /\ \A i \in 1 .. Len(c) : c[i] \in 0 .. n - 1 /\ Linked(c, c[i])
         /\ head = IF Len(c) = 0 THEN NULL ELSE c[1]
         /\ free = IF Len(f) = 0 THEN NULL ELSE f[1]
<1> DEFINE B == 0 .. n - 1
<1>1. mb = [i \in B |-> [data |-> mb[i].data, next |-> mb[i].next]]
  BY DEF Area
<1>2. DOMAIN mb = B
  <2> HIDE DEF B
  <2> QED
    BY <1>1
<1>3. Nexts(mb) = [i \in B |-> mb[i].next]
  BY <1>2 DEF Nexts
<1>4. IsList(c, head, Nexts(mb), B) /\ IsList(f, free, Nexts(mb), B)
  BY DEF Area
<1> HIDE DEF B
<1>5. /\ Len(c) \in Nat /\ c = <<>> <=> Len(c) = 0
      /\ \A i \in 1 .. Len(c) : c[i] \in B
      /\ \A y : Linked(c, y) <=> \E i \in 1 .. Len(c) : c[i] = y
      /\ head = IF Len(c) = 0 THEN NULL ELSE c[1]
  BY <1>4, ListFacts
<1>6. /\ Len(f) \in Nat /\ f = <<>> <=> Len(f) = 0
      /\ \A i \in 1 .. Len(f) : f[i] \in B
      /\ \A y : Linked(f, y) <=> \E i \in 1 .. Len(f) : f[i] = y
      /\ free = IF Len(f) = 0 THEN NULL ELSE f[1]
  BY <1>4, ListFacts
<1>7. \A y : Linked(c, y) \/ Linked(f, y) => y \in B
  BY <1>5, <1>6
<1>8. \A i \in 1 .. Len(c) : c[i] \in B /\ Linked(c, c[i])
  BY <1>5
<1>9. un \in 0 .. n /\ count = Len(c) /\ Len(c) + Len(f) = un
  BY DEF Area
<1>10. count \in 0 .. n
  BY <1>5, <1>6, <1>9
<1> QED
  BY <1>2, <1>3, <1>5, <1>6, <1>7, <1>8, <1>9, <1>10 DEF B

LEMMA BlocksAre ==
  ASSUME NEW n \in Nat, NULL \notin 0 .. n - 1, NEW c, NEW f, NEW mb, NEW count,
         NEW head, NEW un, NEW free, Area(n, c, f, mb, count, head, un, free),
         NEW Q, Q = [mb |-> mb, count |-> count, p_head |-> head,
                     unused |-> un, p_freelist |-> free]
  PROVE  Blocks(Q) = c /\ FreeBlocks(Q) = f
<1> DEFINE B == 0 .. n - 1
           N == Cardinality(B)
<1>1. Q.mb = mb /\ Q.p_head = head /\ Q.p_freelist = free
  OBVIOUS
<1>2. DOMAIN mb = B
  BY AreaFacts
<1>3. NextOf(Q) = Nexts(mb)
  BY <1>1 DEF NextOf, Nexts
<1>4. Blocks(Q) = Chain(head, Nexts(mb), N) /\ FreeBlocks(Q) = Chain(free, Nexts(mb), N)
  BY <1>1, <1>2, <1>3 DEF Blocks, FreeBlocks
<1>5. IsList(c, head, Nexts(mb), B) /\ IsList(f, free, Nexts(mb), B)
  BY DEF Area
<1>6. IsFiniteSet(B) /\ NULL \notin B
  BY FS_Interval
<1> HIDE DEF B
<1>7. N \in Nat /\ Len(c) <= N /\ Len(f) <= N
  BY <1>5, <1>6, ListLength DEF IsList
<1> HIDE DEF N
<1>8. Chain(head, Nexts(mb), N) = c
  BY <1>5, <1>6, <1>7, ChainIs
<1>9. Chain(free, Nexts(mb), N) = f
  BY <1>5, <1>6, <1>7, ChainIs
<1> QED
  BY <1>4, <1>8, <1>9

(* The block e is allocated.                                               *)
Allocated(P, n, c, f, mb, count, head, un, e, g, u, first) ==
  /\ Allocate(P) = [b |-> e, Q |-> [mb |-> mb, count |-> count, p_head |-> head,
                                    unused |-> u, p_freelist |-> first]]
  /\ ~Linked(c, e)
  /\ IsList(g, first, Nexts(mb), 0 .. n - 1)
  /\ \A i : Linked(g, i) <=> Linked(f, i) /\ i # e
  /\ u \in 0 .. n /\ Len(c) + Len(g) + 1 = u
  /\ \A i \in 0 .. n - 1 : i < u <=> i < un \/ i = e

LEMMA AllocateFacts ==
  ASSUME NEW n \in Nat, NULL \notin 0 .. n - 1, NEW c, NEW f, NEW mb, NEW count,
         NEW head, NEW un, NEW free, Area(n, c, f, mb, count, head, un, free),
         NEW P, P = [mb |-> mb, count |-> count, p_head |-> head,
                     unused |-> un, p_freelist |-> free],
         count < n
  PROVE  \E e \in 0 .. n - 1 : \E g, u, first :
           Allocated(P, n, c, f, mb, count, head, un, e, g, u, first)
<1> DEFINE B == 0 .. n - 1
           nx == Nexts(mb)
<1>1. /\ P.mb = mb /\ P.unused = un /\ P.p_freelist = free
  OBVIOUS
<1>2. /\ nx = [i \in B |-> mb[i].next]
      /\ Len(c) \in Nat /\ Len(f) \in Nat /\ un \in 0 .. n
      /\ count = Len(c) /\ Len(c) + Len(f) = un
      /\ \A y : Linked(c, y) \/ Linked(f, y) => y \in B
      /\ free = IF Len(f) = 0 THEN NULL ELSE f[1]
  BY AreaFacts
<1>3. /\ IsList(f, free, nx, B) /\ NULL \notin B
      /\ \A i : ~(Linked(c, i) /\ Linked(f, i))
      /\ \A i \in B : i < un <=> Linked(c, i) \/ Linked(f, i)
  BY DEF Area
<1>4. B = 0 .. n - 1
  OBVIOUS
<1> HIDE DEF B, nx
<1>5. CASE free # NULL
  <2> DEFINE first == nx[free]
  <2>1. TakesOut(f, free, nx, first, nx)
    BY <1>5 DEF TakesOut
  <2>2. free \in B /\ Linked(f, free)
    BY <1>3, <2>1, ListTail
  <2>3. first = mb[free].next
    BY <1>2, <2>2
  <2>4. Allocate(P) = [b |-> free,
                       Q |-> [mb |-> mb, count |-> count, p_head |-> head,
                              unused |-> un, p_freelist |-> first]]
    <3>1. Allocate(P) = [b |-> free, Q |-> [P EXCEPT !.p_freelist = first]]
      <4>1. mb[free].next = P.mb[P.p_freelist].next
        BY <1>1
      <4>2. Allocate(P) = [b |-> P.p_freelist,
                           Q |-> [P EXCEPT !.p_freelist = P.mb[P.p_freelist].next]]
        BY <1>1, <1>5 DEF Allocate
      <4> QED
        BY <1>1, <2>3, <4>1, <4>2
    <3> HIDE DEF first
    <3>2. [P EXCEPT !.p_freelist = first] =
            [mb |-> mb, count |-> count, p_head |-> head,
             unused |-> un, p_freelist |-> first]
      OBVIOUS
    <3> QED
      BY <3>1, <3>2
  <2> HIDE DEF first
  <2>5. PICK g : /\ IsList(g, first, nx, B)
                 /\ Len(g) = Len(f) - 1
                 /\ \A i : Linked(g, i) <=> Linked(f, i) /\ i # free
    BY <1>3, <2>1, ListTail
  <2>6. /\ ~Linked(c, free) /\ Len(c) + Len(g) + 1 = un
        /\ \A i \in B : i < un <=> i < un \/ i = free
    BY <1>2, <1>3, <2>2, <2>5
  <2>7. Allocated(P, n, c, f, mb, count, head, un, free, g, un, first)
    BY <1>2, <1>4, <2>4, <2>5, <2>6 DEF nx, Allocated
  <2> QED
    BY <1>4, <2>2, <2>7
<1>6. CASE free = NULL
  <2>1. Len(f) = 0
    <3>1. Len(f) # 0 => 1 \in 1 .. Len(f)
      BY <1>2
    <3>2. \A i \in 1 .. Len(f) : f[i] \in B
      BY <1>3, ListFacts
    <3> QED
      BY <1>2, <1>3, <1>6, <3>1, <3>2
  <2> DEFINE u == un + 1
  <2>2. un < n /\ un \in Nat /\ u \in 0 .. n /\ u = un + 1 /\ un \in B
        /\ Len(c) + Len(f) + 1 = u
    BY <1>2, <1>4, <2>1
  <2>3. Allocate(P) = [b |-> un,
                       Q |-> [mb |-> mb, count |-> count, p_head |-> head,
                              unused |-> u, p_freelist |-> free]]
    <3>1. Allocate(P) = [b |-> un, Q |-> [P EXCEPT !.unused = u]]
      BY <1>1, <1>6 DEF Allocate
    <3> HIDE DEF u
    <3>2. [P EXCEPT !.unused = u] =
            [mb |-> mb, count |-> count, p_head |-> head,
             unused |-> u, p_freelist |-> free]
      OBVIOUS
    <3> QED
      BY <3>1, <3>2
  <2> HIDE DEF u
  <2>4. ~Linked(c, un) /\ ~Linked(f, un)
    BY <1>3, <2>2
  <2>5. \A i \in B : i < u <=> i < un \/ i = un
    BY <1>4, <2>2
  <2>6. /\ ~Linked(c, un) /\ \A i : Linked(f, i) <=> Linked(f, i) /\ i # un
        /\ IsList(f, free, nx, B)
    BY <1>3, <2>4
  <2>7. Allocated(P, n, c, f, mb, count, head, un, un, f, u, free)
    BY <1>4, <2>2, <2>3, <2>5, <2>6 DEF nx, Allocated
  <2> QED
    BY <1>4, <2>2, <2>7
<1> QED
  BY <1>5, <1>6

LEMMA EnqueueFacts ==
  ASSUME NEW n \in Nat, NULL \notin 0 .. n - 1, NEW P, AreaOK(P, n),
         P.count < n, NEW data, NEW R, R = enqueue_pridata(P, data)
  PROVE  AreaOK(R, n) /\ R.count = P.count + 1
<1> DEFINE B == 0 .. n - 1
<1>1. PICK c, f, mb, count, head, un, free :
        /\ P = [mb |-> mb, count |-> count, p_head |-> head, unused |-> un,
                p_freelist |-> free]
        /\ Area(n, c, f, mb, count, head, un, free)
  BY DEF AreaOK
<1>2. P.count = count
  BY <1>1
<1>3. PICK e \in B : \E g, u, first :
        Allocated(P, n, c, f, mb, count, head, un, e, g, u, first)
  BY <1>1, <1>2, AllocateFacts
<1>4. PICK g, u, first :
        Allocated(P, n, c, f, mb, count, head, un, e, g, u, first)
  BY <1>3
<1>4a. /\ Allocate(P) = [b |-> e,
                         Q |-> [mb |-> mb, count |-> count, p_head |-> head,
                                unused |-> u, p_freelist |-> first]]
       /\ ~Linked(c, e)
       /\ IsList(g, first, Nexts(mb), B)
       /\ \A i : Linked(g, i) <=> Linked(f, i) /\ i # e
       /\ u \in 0 .. n /\ Len(c) + Len(g) + 1 = u
       /\ \A i \in B : i < u <=> i < un \/ i = e
  BY <1>4 DEF Allocated
<1> DEFINE Q == [mb |-> mb, count |-> count, p_head |-> head, unused |-> u,
                 p_freelist |-> first]
           L == Len(c)
           T == {i \in 1 .. L : ~(datapri[mb[c[i]].data] <= datapri[data])}
           m == CountWhile(c, LAMBDA b : datapri[mb[b].data] <= datapri[data])
           x == IF m = L THEN NULL ELSE c[m + 1]
           d == [data |-> data, next |-> x]
           a == [mb EXCEPT ![e] = d]
           z == IF m = 0 THEN a ELSE [a EXCEPT ![c[m]].next = e]
           h == IF m = 0 THEN e ELSE head
           cnt == count + 1
<1>5. /\ DOMAIN mb = B /\ Nexts(mb) = [i \in B |-> mb[i].next]
      /\ L \in Nat /\ count = L
      /\ \A y : Linked(c, y) \/ Linked(f, y) => y \in B
      /\ \A i \in 1 .. L : c[i] \in B /\ Linked(c, c[i])
  BY <1>1, AreaFacts
<1>6. /\ mb = [i \in B |-> [data |-> mb[i].data, next |-> mb[i].next]]
      /\ IsList(c, head, Nexts(mb), B)
      /\ \A i : ~(Linked(c, i) /\ Linked(f, i))
      /\ \A i \in B : i < un <=> Linked(c, i) \/ Linked(f, i)
  BY <1>1 DEF Area
<1> HIDE DEF B
<1>7. m \in 0 .. L
  <2>1. PICK j \in 0 .. L : (\A i \in 1 .. j : i \notin T) /\ (j < L => j + 1 \in T)
    <3>1. T \subseteq 1 .. L
      OBVIOUS
    <3> HIDE DEF T, L
    <3> QED
      BY <1>5, <3>1, FirstIn
  <2>2. /\ \A i \in 1 .. j : datapri[mb[c[i]].data] <= datapri[data]
        /\ j < L => ~(datapri[mb[c[j + 1]].data] <= datapri[data])
    BY <1>5, <2>1
  <2> QED
    BY <1>5, <2>2 DEF CountWhile
<1>8. Blocks(Q) = c
  <2>1. Q.mb = mb /\ Q.p_head = head
    OBVIOUS
  <2>2. P.mb = mb /\ P.p_head = head
    BY <1>1
  <2>3. Blocks(Q) = Blocks(P)
    BY <2>1, <2>2 DEF Blocks, NextOf
  <2>4. Blocks(P) = c
    BY <1>1, BlocksAre
  <2> QED
    BY <2>3, <2>4
<1>9. R = [mb |-> z, count |-> cnt, p_head |-> h, unused |-> u,
           p_freelist |-> first]
  <2>1. R = link_pridata(Q, e, data)
    <3>1. Allocate(P).b = e /\ Allocate(P).Q = Q
      BY <1>4a
    <3> HIDE DEF Q
    <3> QED
      BY <3>1 DEF enqueue_pridata
  <2>2. Q.mb = mb /\ Q.count = count /\ Q.p_head = head
    OBVIOUS
  <2> HIDE DEF Q
  <2> DEFINE S == [Q EXCEPT !.count = @ + 1,
                            !.mb[e] = [data |-> data,
                                       next |-> IF m = Len(c) THEN NULL
                                                ELSE c[m + 1]]]
  <2>3. m = CountWhile(Blocks(Q), LAMBDA b : datapri[Q.mb[b].data] <= datapri[data])
    BY <1>8, <2>2
  <2> HIDE DEF m
  <2>4. R = IF m = 0 THEN [S EXCEPT !.p_head = e]
            ELSE [S EXCEPT !.mb[c[m]].next = e]
    BY <1>8, <2>1, <2>3 DEF link_pridata
  <2>5. S = [mb |-> a, count |-> cnt, p_head |-> head, unused |-> u,
             p_freelist |-> first]
    <3>1. S = [Q EXCEPT !.count = cnt, !.mb = a]
      BY <2>2
    <3> HIDE DEF cnt, a, S
    <3> QED
      BY <3>1 DEF Q
  <2> HIDE DEF S, a, cnt
  <2>6. CASE m = 0
    BY <2>4, <2>5, <2>6
  <2>7. CASE m # 0
    <3>1. R = [S EXCEPT !.mb = z]
      <4>1. S.mb = a
        BY <2>5
      <4> QED
        BY <2>4, <2>7, <4>1
    <3>2. h = head
      BY <2>7
    <3> HIDE DEF z, h
    <3> QED
      BY <2>5, <3>1, <3>2
  <2> QED
    BY <2>6, <2>7
<1> HIDE DEF m, L
<1>10. /\ m > 0 => m \in 1 .. L /\ c[m] \in B /\ Linked(c, c[m]) /\ c[m] # e
       /\ e \in B
  BY <1>4a, <1>5, <1>7
<1>11. /\ z = [i \in B |-> [data |-> z[i].data, next |-> z[i].next]]
       /\ z[e].next = x
       /\ m > 0 => z[c[m]].next = e
       /\ \A i \in B : i # e /\ (m > 0 => i # c[m]) => z[i].next = mb[i].next
  <2>1. /\ a = [i \in B |-> [data |-> a[i].data, next |-> a[i].next]]
        /\ a[e].next = x
        /\ \A i \in B : i # e => a[i].next = mb[i].next
    <3>1. d.next = x /\ d = [data |-> d.data, next |-> d.next]
      OBVIOUS
    <3> HIDE DEF x, d
    <3>2. a[e] = d /\ (\A i \in B : i # e => a[i] = mb[i]) /\ a = [i \in B |-> a[i]]
      BY <1>5, <1>6, <1>10
    <3>3. \A i \in B : mb[i] = [data |-> mb[i].data, next |-> mb[i].next]
      BY <1>6
    <3> HIDE DEF a
    <3>4. \A i \in B : a[i] = [data |-> a[i].data, next |-> a[i].next]
      BY <3>1, <3>2, <3>3
    <3> QED
      BY <3>1, <3>2, <3>4
  <2> HIDE DEF a, x
  <2>2. CASE m = 0
    <3>1. z = a /\ ~(m > 0)
      BY <2>2
    <3> HIDE DEF z
    <3> QED
      BY <2>1, <3>1
  <2>3. CASE m > 0
    <3> DEFINE v == [a[c[m]] EXCEPT !.next = e]
    <3>1. v.next = e /\ v = [data |-> v.data, next |-> v.next]
      <4>1. a[c[m]] = [data |-> a[c[m]].data, next |-> a[c[m]].next]
        BY <1>10, <2>1, <2>3
      <4> QED
        BY <4>1
    <3>2. z = [a EXCEPT ![c[m]] = v]
      BY <2>3, <1>7
    <3> HIDE DEF v, z
    <3>3. z[c[m]] = v /\ (\A i \in B : i # c[m] => z[i] = a[i]) /\ z = [i \in B |-> z[i]]
      BY <1>10, <2>1, <2>3, <3>2
    <3>4. \A i \in B : z[i] = [data |-> z[i].data, next |-> z[i].next]
      BY <2>1, <3>1, <3>3
    <3> QED
      BY <1>10, <2>1, <2>3, <3>1, <3>3, <3>4
  <2> QED
    BY <1>7, <1>5, <2>2, <2>3
<1>12. x = (IF m = L THEN NULL ELSE c[m + 1]) /\ h = (IF m = 0 THEN e ELSE head)
  OBVIOUS
<1> HIDE DEF z, x, h
<1>13. DOMAIN z = B /\ Nexts(z) = [i \in B |-> z[i].next]
  <2>1. DOMAIN z = B
    BY <1>11
  <2> QED
    BY <2>1 DEF Nexts
<1>14. /\ Nexts(z)[e] = x
       /\ m > 0 => Nexts(z)[c[m]] = e
       /\ \A i \in B : i # e /\ (m > 0 => i # c[m]) => Nexts(z)[i] = Nexts(mb)[i]
  BY <1>5, <1>10, <1>11, <1>13
<1>15. PutsIn(c, head, Nexts(mb), m, e, h, Nexts(z))
  <2>1. \A y : Linked(c, y) => y # e /\ y \in B
    BY <1>4a, <1>5
  <2> QED
    BY <1>12, <1>14, <2>1 DEF PutsIn, L
<1>16. PICK r : /\ IsList(r, h, Nexts(z), B)
                /\ Len(r) = L + 1
                /\ \A y : Linked(r, y) <=> Linked(c, y) \/ y = e
  <2>1. NULL \notin B
    BY DEF B
  <2>2. e \in B /\ ~Linked(c, e) /\ m \in 0 .. Len(c)
    BY <1>4a, <1>7, <1>10 DEF L
  <2> QED
    BY <1>6, <1>15, <2>1, <2>2, ListInsert DEF L
<1>17. IsList(g, first, Nexts(z), B)
  <2>1. \A y : Linked(g, y) => Nexts(z)[y] = Nexts(mb)[y]
    <3>1. \A y : Linked(g, y) => y \in B /\ y # e /\ ~Linked(c, y)
      BY <1>4a, <1>5, <1>6
    <3> QED
      BY <1>10, <1>14, <3>1
  <2> QED
    BY <1>4a, <2>1, ListFrame
<1>18. Area(n, r, g, z, cnt, h, u, first)
  <2>1. \A i : ~(Linked(r, i) /\ Linked(g, i))
    BY <1>4a, <1>6, <1>16
  <2>2. \A i \in B : i < u <=> Linked(r, i) \/ Linked(g, i)
    BY <1>4a, <1>6, <1>16
  <2>3. Len(g) \in Nat
    BY <1>17, ListFacts
  <2>4. u \in 0 .. n /\ cnt = Len(r) /\ Len(r) + Len(g) = u
    BY <1>4a, <1>5, <1>16, <2>3 DEF L
  <2> QED
    BY <1>11, <1>16, <1>17, <2>1, <2>2, <2>4 DEF Area, B
<1>19. R.count = P.count + 1
  BY <1>2, <1>9
<1> QED
  BY <1>9, <1>18, <1>19 DEF AreaOK

LEMMA DequeueFacts ==
  ASSUME NEW n \in Nat, NULL \notin 0 .. n - 1, NEW P, AreaOK(P, n),
         P.count > 0, NEW R, R = dequeue_pridata(P)
  PROVE  AreaOK(R, n) /\ R.count = P.count - 1 /\ R.count < n
<1> DEFINE B == 0 .. n - 1
<1>1. PICK c, f, mb, count, head, un, free :
        /\ P = [mb |-> mb, count |-> count, p_head |-> head, unused |-> un,
                p_freelist |-> free]
        /\ Area(n, c, f, mb, count, head, un, free)
  BY DEF AreaOK
<1>2. P.count = count /\ P.mb = mb /\ P.p_head = head /\ P.p_freelist = free
  BY <1>1
<1> DEFINE d == [data |-> NULL, next |-> free]
           z == [mb EXCEPT ![head] = d]
           first == mb[head].next
           cnt == count - 1
           nx == Nexts(mb)
<1>3. /\ DOMAIN mb = B /\ nx = [i \in B |-> mb[i].next]
      /\ Len(c) \in Nat /\ Len(f) \in Nat /\ count = Len(c) /\ count \in 0 .. n
      /\ \A y : Linked(c, y) \/ Linked(f, y) => y \in B
      /\ head = IF Len(c) = 0 THEN NULL ELSE c[1]
      /\ \A i \in 1 .. Len(c) : c[i] \in B
      /\ free = IF Len(f) = 0 THEN NULL ELSE f[1]
  BY <1>1, AreaFacts
<1>4. /\ mb = [i \in B |-> [data |-> mb[i].data, next |-> mb[i].next]]
      /\ IsList(c, head, nx, B) /\ IsList(f, free, nx, B)
      /\ \A i : ~(Linked(c, i) /\ Linked(f, i))
      /\ \A i \in B : i < un <=> Linked(c, i) \/ Linked(f, i)
      /\ un \in 0 .. n /\ Len(c) + Len(f) = un
  BY <1>1 DEF Area
<1>5. NULL \notin B
  OBVIOUS
<1>6. R = [mb |-> z, count |-> cnt, p_head |-> first, unused |-> un,
           p_freelist |-> head]
  <2>1. R = [P EXCEPT !.count = cnt, !.p_head = first, !.mb = z, !.p_freelist = head]
    BY <1>2 DEF dequeue_pridata
  <2> HIDE DEF z, first, cnt
  <2> QED
    BY <1>1, <2>1
<1> HIDE DEF B
<1>7. head # NULL /\ head \in B /\ count > 0
  <2>1. 1 \in 1 .. Len(c)
    BY <1>2, <1>3
  <2> QED
    BY <1>2, <1>3, <1>5, <2>1
<1>8. first = nx[head]
  BY <1>3, <1>7
<1>9. /\ z = [i \in B |-> [data |-> z[i].data, next |-> z[i].next]]
      /\ z[head].next = free
      /\ \A i \in B : i # head => z[i].next = mb[i].next
  <2>1. d.next = free /\ d = [data |-> d.data, next |-> d.next]
    OBVIOUS
  <2> HIDE DEF d
  <2>2. z[head] = d /\ (\A i \in B : i # head => z[i] = mb[i]) /\ z = [i \in B |-> z[i]]
    BY <1>3, <1>4, <1>7
  <2>3. \A i \in B : mb[i] = [data |-> mb[i].data, next |-> mb[i].next]
    BY <1>4
  <2> HIDE DEF z
  <2>4. \A i \in B : z[i] = [data |-> z[i].data, next |-> z[i].next]
    BY <2>1, <2>2, <2>3
  <2> QED
    BY <2>1, <2>2, <2>4
<1> HIDE DEF z, first, nx
<1>10. DOMAIN z = B /\ Nexts(z) = [i \in B |-> z[i].next]
  <2>1. DOMAIN z = B
    BY <1>9
  <2> QED
    BY <2>1 DEF Nexts
<1>11. Nexts(z)[head] = free /\ \A i \in B : i # head => Nexts(z)[i] = nx[i]
  BY <1>3, <1>7, <1>9, <1>10
<1>12. TakesOut(c, head, nx, first, Nexts(z))
  BY <1>3, <1>7, <1>8, <1>11 DEF TakesOut
<1>13. PICK r : /\ IsList(r, first, Nexts(z), B) /\ Len(r) = Len(c) - 1
                /\ \A y : Linked(r, y) <=> Linked(c, y) /\ y # head
  BY <1>4, <1>5, <1>12, ListTail
<1>14. Linked(c, head)
  BY <1>4, <1>5, <1>12, ListTail
<1> DEFINE zero == 0
<1>15. PutsIn(f, free, nx, zero, head, head, Nexts(z))
  <2>1. \A y : Linked(f, y) => y \in B /\ y # head
    BY <1>3, <1>4, <1>14
  <2>2. Nexts(z)[head] = IF 0 = Len(f) THEN NULL ELSE f[0 + 1]
    BY <1>3, <1>11
  <2> QED
    BY <1>11, <2>1, <2>2 DEF PutsIn
<1>16. zero \in 0 .. Len(f) /\ ~Linked(f, head)
  BY <1>3, <1>4, <1>14
<1> HIDE DEF zero
<1>17. PICK g : /\ IsList(g, head, Nexts(z), B) /\ Len(g) = Len(f) + 1
                /\ \A y : Linked(g, y) <=> Linked(f, y) \/ y = head
  BY <1>4, <1>5, <1>7, <1>15, <1>16, ListInsert
<1>18. Area(n, r, g, z, cnt, first, un, head)
  <2>1. \A i : ~(Linked(r, i) /\ Linked(g, i))
    BY <1>4, <1>13, <1>17
  <2>2. \A i \in B : i < un <=> Linked(r, i) \/ Linked(g, i)
    BY <1>4, <1>13, <1>14, <1>17
  <2>3. cnt = Len(r) /\ Len(r) + Len(g) = un
    BY <1>3, <1>4, <1>13, <1>17
  <2> QED
    BY <1>4, <1>9, <1>13, <1>17, <2>1, <2>2, <2>3 DEF Area, B
<1>19. R.count = cnt
  BY <1>6
<1>20. R.count = P.count - 1 /\ R.count < n
  BY <1>2, <1>3, <1>7, <1>19
<1> QED
  BY <1>6, <1>18, <1>20 DEF AreaOK

LEMMA EmptyArea ==
  ASSUME NEW q \in Pdqs
  PROVE  AreaOK(EmptyPdq(q), pdqcnt[q]) /\ EmptyPdq(q).count = 0
<1> DEFINE n == pdqcnt[q]
           B == 0 .. n - 1
           z == [i \in B |-> [data |-> NULL, next |-> NULL]]
           c == <<>>
           zero == 0
<1>1. n \in Nat /\ NULL \notin B
  BY PriDataQAssumption
<1>2. EmptyPdq(q) = [mb |-> z, count |-> zero, p_head |-> NULL, unused |-> zero,
                     p_freelist |-> NULL]
  BY DEF EmptyPdq
<1>3. z = [i \in B |-> [data |-> z[i].data, next |-> z[i].next]]
  OBVIOUS
<1>4. c = <<>> /\ zero = 0
  OBVIOUS
<1> HIDE DEF z, c, zero
<1>5. IsList(c, NULL, Nexts(z), B)
  BY <1>4, EmptyList
<1>6. \A i : ~Linked(c, i)
  BY <1>4 DEF Linked
<1>7. Len(c) = zero /\ zero + zero = zero /\ zero \in 0 .. n
      /\ \A i \in B : ~(i < zero)
  BY <1>1, <1>4, EmptySeq
<1>8. Area(n, c, c, z, zero, NULL, zero, NULL)
  BY <1>3, <1>5, <1>6, <1>7 DEF Area
<1>9. EmptyPdq(q).count = 0
  BY <1>2, <1>4
<1> QED
  BY <1>2, <1>8, <1>9 DEF AreaOK

LEMMA Keeps ==
  ASSUME WinfoOK
  PROVE  /\ Nothing => Keeping
         /\ \A t, x : Hand(t, x) => Keeping
         /\ \A x : Return(x) => Keeping
         /\ \A reason, w, tmout, x : WaitFor(reason, w, tmout, x) => Keeping
BY KeepingFacts DEF Nothing, Hand, Return, WaitFor

PdqAt(q) ==
  /\ AreaOK(pdq[q], pdqcnt[q])
  /\ ~queue_empty(k.waitq[q]) => pdq[q].count = pdqcnt[q]
  /\ ~queue_empty(k.waitq[rwait_queue_pdq(q)]) =>
       pdq[q].count = 0 /\ queue_empty(k.waitq[q])

PdqsOK == pdq = [q \in Pdqs |-> pdq[q]] /\ \A q \in Pdqs : PdqAt(q)

LEMMA PdqsStay ==
  ASSUME KernelInv(k), KernelInv(k'), Shrinks(k, k', PdqQueues), PdqsOK,
         UNCHANGED pdq
  PROVE  PdqsOK'
<1>1. \A w \in PdqQueues : queue_empty(k.waitq[w]) => queue_empty(k'.waitq[w])
  <2>1. PdqQueues \in SUBSET WaitQueues
    BY PriDataQAssumption DEF PdqQueues
  <2> QED
    BY <2>1, StaysEmpty
<1>2. \A q \in Pdqs : q \in PdqQueues /\ rwait_queue_pdq(q) \in PdqQueues
  BY DEF PdqQueues
<1>3. ASSUME NEW q \in Pdqs PROVE PdqAt(q)'
  BY <1>1, <1>2 DEF PdqsOK, PdqAt
<1> QED
  BY <1>3 DEF PdqsOK

LEMMA PdqStep ==
  ASSUME KernelInv(k), WinfoOK, PdqsOK, NEW q \in Pdqs, PdqServices(q)
  PROVE  /\ KernelInv(k') /\ Only(k, k', {q, rwait_queue_pdq(q)}) /\ Keeping
         /\ PdqsOK'
<1> DEFINE w == rwait_queue_pdq(q)
           Q == {q, w}
           n == pdqcnt[q]
           B == pdq[q]
           Goal == KernelInv(k') /\ Only(k, k', Q) /\ Keeping /\ PdqsOK'
<1> SUFFICES Goal
  OBVIOUS
<1>0. /\ q \in WaitQueues /\ w \in WaitQueues /\ w \notin TA_TPRI /\ q # w
      /\ Pdqs \subseteq WaitQueues /\ n \in Nat /\ NULL \notin 0 .. n - 1
      /\ k.waitq \in [WaitQueues -> Seq(Tasks)]
      /\ pdq = [v \in Pdqs |-> pdq[v]] /\ \A v \in Pdqs : PdqAt(v)
      /\ AreaOK(B, n)
      /\ ~queue_empty(k.waitq[q]) => B.count = n
      /\ ~queue_empty(k.waitq[w]) => B.count = 0 /\ queue_empty(k.waitq[q])
      /\ n = pdqcnt[q] /\ q \in Q /\ w \in Q
  <2>1. w # q
    BY OwnQueues
  <2> QED
    BY <2>1, PriDataQAssumption, NobodyWaits DEF PdqsOK, PdqAt
<1>0a. B.count \in 0 .. n
  <2>1. PICK c, f, mb, count, head, un, free :
          /\ B = [mb |-> mb, count |-> count, p_head |-> head, unused |-> un,
                  p_freelist |-> free]
          /\ Area(n, c, f, mb, count, head, un, free)
    BY <1>0 DEF AreaOK
  <2>2. count \in 0 .. n
    BY <1>0, <2>1, AreaFacts
  <2> QED
    BY <2>1, <2>2
(* What is to be shown of q alone.                                         *)
<1>1. ASSUME NEW C, KernelInv(k'), Only(k, k', Q), Keeping,
             pdq' = [pdq EXCEPT ![q] = C],
             AreaOK(C, n), ~queue_empty(k'.waitq[q]) => C.count = n,
             ~queue_empty(k'.waitq[w]) => C.count = 0 /\ queue_empty(k'.waitq[q])
      PROVE  Goal
  <2>1. pdq'[q] = C /\ \A v \in Pdqs \ {q} : pdq'[v] = pdq[v]
    BY <1>0, <1>1
  <2>2. PdqAt(q)'
    BY <1>1, <2>1 DEF PdqAt
  <2>3. ASSUME NEW v \in Pdqs \ {q} PROVE PdqAt(v)'
    <3>1. v \notin Q /\ rwait_queue_pdq(v) \notin Q /\ rwait_queue_pdq(v) \in WaitQueues
      BY OwnQueues, PriDataQAssumption
    <3>2. /\ k'.waitq[v] = k.waitq[v]
          /\ k'.waitq[rwait_queue_pdq(v)] = k.waitq[rwait_queue_pdq(v)]
      BY <1>0, <1>1, <3>1 DEF Only
    <3> QED
      BY <1>0, <2>1, <3>2 DEF PdqAt
  <2> QED
    BY <1>0, <1>1, <2>2, <2>3 DEF PdqsOK
<1>2. pdq = [pdq EXCEPT ![q] = B]
  BY <1>0
<1>3. ASSUME NEW v \in Q, ~queue_empty(k.waitq[v]), Ends(k', CompleteFirst(k, v))
      PROVE  /\ KernelInv(k') /\ Only(k, k', Q)
             /\ \A u \in Q \ {v} : k'.waitq[u] = k.waitq[u]
  <2> DEFINE r == queue_delete_next(k.waitq[v])
  <2>1. KernelInv(k') /\ k'.waitq = [k.waitq EXCEPT ![v] = r]
    BY <1>0, <1>3, FirstServed
  <2> HIDE DEF r
  <2> QED
    BY <1>0, <2>1 DEF Only
<1>4. ASSUME UNCHANGED k
      PROVE  KernelInv(k') /\ Only(k, k', Q)
  BY <1>4 DEF Only
<1>5. ASSUME NEW v \in Q, NEW reason, MayQueue(v, reason), CanDispatch,
             NEW tmout \in Nat \cup {TMO_FEVR}, NEW x,
             WaitFor(reason, v, tmout, x)
      PROVE  /\ KernelInv(k') /\ Only(k, k', Q) /\ Keeping
             /\ \A u \in Q \ {v} : k'.waitq[u] = k.waitq[u]
  <2>1. KernelInv(k') /\ Joins(k, k', v, k.runtsk)
    BY <1>5, StartsToWait DEF WaitFor
  <2>2. Keeping
    BY <1>5, Keeps
  <2> QED
    BY <1>0, <2>1, <2>2 DEF Only, Joins
<1>5a. ASSUME k'.waitq = [k.waitq EXCEPT ![q] = <<>>, ![w] = <<>>]
      PROVE  /\ Only(k, k', Q)
             /\ queue_empty(k'.waitq[q]) /\ queue_empty(k'.waitq[w])
  BY <1>0, <1>5a DEF Only, queue_empty
<1> HIDE DEF w, B, Q, n, Goal
(* A receiver that waits gets the data.                                    *)
<1>6. ASSUME ~queue_empty(k.waitq[w]), Ends(k', CompleteFirst(k, w)), Keeping,
             UNCHANGED pdq
      PROVE  Goal
  <2>1. KernelInv(k') /\ Only(k, k', Q) /\ k'.waitq[q] = k.waitq[q]
    BY <1>0, <1>3, <1>6
  <2> QED
    BY <1>0, <1>1, <1>2, <1>6, <2>1
(* Nobody receives: the data goes to the list.                             *)
<1>7. ASSUME NEW data, queue_empty(k.waitq[w]), UNCHANGED k, Keeping,
             B.count < n, pdq' = [pdq EXCEPT ![q] = enqueue_pridata(B, data)]
      PROVE  Goal
  <2>1. AreaOK(enqueue_pridata(B, data), n)
    BY <1>0, <1>7, EnqueueFacts
  <2>2. queue_empty(k.waitq[q])
    BY <1>0, <1>0a, <1>7
  <2> QED
    BY <1>1, <1>4, <1>7, <2>1, <2>2
<1>8. CASE TskCtxUnl /\ receive_pridata(q)
  <2> DEFINE D == dequeue_pridata(B)
             x == winfo[Head(k.waitq[q])]
             E == enqueue_pridata(D, x)
  <2> HIDE DEF x
  <2>0. Keeping
    BY <1>8, Keeps DEF receive_pridata
  <2>1. CASE /\ B.count > 0 /\ queue_empty(k.waitq[q])
             /\ pdq' = [pdq EXCEPT ![q] = D] /\ UNCHANGED k
    <3>1. AreaOK(D, n)
      BY <1>0, <2>1, DequeueFacts
    <3>2. queue_empty(k.waitq[w])
      BY <1>0, <1>0a, <2>1
    <3> HIDE DEF D
    <3> QED
      BY <1>0, <1>1, <1>4, <2>0, <2>1, <3>1, <3>2
  <2>2. CASE /\ B.count > 0 /\ ~queue_empty(k.waitq[q])
             /\ pdq' = [pdq EXCEPT ![q] = E]
             /\ Ends(k', CompleteFirst(k, q))
    <3>1. AreaOK(D, n) /\ D.count = B.count - 1 /\ D.count < n
      BY <1>0, <2>2, DequeueFacts
    <3>2. B.count = n /\ queue_empty(k.waitq[w])
      BY <1>0, <1>0a, <2>2
    <3> HIDE DEF D
    <3>3. AreaOK(E, n) /\ E.count = D.count + 1
      BY <1>0, <3>1, EnqueueFacts
    <3>3a. E.count = n
      BY <1>0, <3>1, <3>2, <3>3
    <3>4. KernelInv(k') /\ Only(k, k', Q) /\ k'.waitq[w] = k.waitq[w]
      BY <1>0, <1>3, <2>2
    <3> HIDE DEF E
    <3> QED
      BY <1>0, <1>1, <2>0, <2>2, <3>2, <3>3, <3>3a, <3>4
  <2>3. CASE /\ B.count = 0 /\ ~queue_empty(k.waitq[q]) /\ UNCHANGED pdq
             /\ Ends(k', CompleteFirst(k, q))
    <3>1. KernelInv(k') /\ Only(k, k', Q) /\ k'.waitq[w] = k.waitq[w]
      BY <1>0, <1>3, <2>3
    <3> QED
      BY <1>0, <1>1, <1>2, <2>0, <2>3, <3>1
  <2> QED
    BY <1>8, <2>1, <2>2, <2>3 DEF receive_pridata, Ends, B, x
<1>9. ASSUME NEW data,
             \/ TskCtxUnl /\ send_pridata(q, data, DispatchIf)
             \/ IntCtxUnl /\ send_pridata(q, data, RequestIf)
      PROVE  Goal
  <2>1. \/ /\ ~queue_empty(k.waitq[w]) /\ Ends(k', CompleteFirst(k, w))
           /\ UNCHANGED pdq
        \/ /\ queue_empty(k.waitq[w]) /\ UNCHANGED k /\ B.count < n
           /\ pdq' = [pdq EXCEPT ![q] = enqueue_pridata(B, data)]
    BY <1>9 DEF send_pridata, Ends, w, B, n
  <2>2. Keeping
    BY <1>9, Keeps DEF send_pridata
  <2> QED
    BY <1>6, <1>7, <2>1, <2>2
<1>10. ASSUME NEW data, NEW tmout \in Nat \cup {TMO_FEVR}, tsnd_pdq(q, data, tmout)
       PROVE  Goal
  <2>1. CASE /\ CanDispatch /\ queue_empty(k.waitq[w]) /\ B.count >= n
             /\ WaitFor("WAIT_SPDQ", q, tmout, data) /\ UNCHANGED pdq
    <3>1. MayQueue(q, "WAIT_SPDQ")
      BY <1>0 DEF MayQueue, TS_WAIT_WOBJ, TS_WAIT_WOBJCB
    <3>2. KernelInv(k') /\ Only(k, k', Q) /\ Keeping /\ k'.waitq[w] = k.waitq[w]
      BY <1>0, <1>5, <2>1, <3>1
    <3>3. B.count = n
      BY <1>0, <1>0a, <2>1
    <3> QED
      BY <1>0, <1>1, <1>2, <2>1, <3>2, <3>3
  <2> QED
    BY <1>9, <1>10, <2>1 DEF tsnd_pdq, CanDispatch, w, B, n
<1>11. ASSUME NEW tmout \in Nat \cup {TMO_FEVR}, trcv_pdq(q, tmout)
       PROVE  Goal
  <2>1. CASE /\ CanDispatch /\ B.count = 0 /\ queue_empty(k.waitq[q])
             /\ WaitFor("WAIT_RPDQ", w, tmout, NULL) /\ UNCHANGED pdq
    <3>1. MayQueue(w, "WAIT_RPDQ")
      BY <1>0 DEF MayQueue, TS_WAIT_WOBJ, TS_WAIT_WOBJCB
    <3>2. KernelInv(k') /\ Only(k, k', Q) /\ Keeping /\ k'.waitq[q] = k.waitq[q]
      BY <1>0, <1>5, <2>1, <3>1
    <3> QED
      BY <1>0, <1>1, <1>2, <2>1, <3>2
  <2> QED
    BY <1>8, <1>11, <2>1 DEF trcv_pdq, CanDispatch, w, B, n
<1>12. CASE ini_pdq(q)
  <2> DEFINE C == EmptyPdq(q)
  <2>1. /\ TskCtxUnl /\ k' = DispatchIf(init_wait_queues(k, q, w))
        /\ pdq' = [pdq EXCEPT ![q] = C] /\ Keeping
    BY <1>0, <1>12, Keeps DEF ini_pdq, w
  <2>2. /\ KernelInv(k')
        /\ k'.waitq = [k.waitq EXCEPT ![q] = <<>>, ![w] = <<>>]
    BY <1>0, <2>1, BothReleased
  <2>3. Only(k, k', Q) /\ queue_empty(k'.waitq[q]) /\ queue_empty(k'.waitq[w])
    BY <1>5a, <2>2
  <2>4. AreaOK(C, n)
    BY <1>0, EmptyArea
  <2> HIDE DEF C
  <2> QED
    BY <1>1, <2>1, <2>2, <2>3, <2>4
<1>13. TMO_FEVR \in Nat \cup {TMO_FEVR} /\ Timeout \subseteq Nat \cup {TMO_FEVR}
  BY TaskSyncAssumption DEF Timeout
<1>14. Goal
  BY <1>8, <1>9, <1>10, <1>11, <1>12, <1>13
     DEF PdqServices, snd_pdq, psnd_pdq, ipsnd_pdq, rcv_pdq, prcv_pdq
<1> QED
  BY <1>14 DEF Goal, Q, w

-----------------------------------------------------------------------------
(* Memory pools.                                                           *)

(* Indices as the links of a list.                                         *)
Link(i) == IF i = INDEX_NULL THEN NULL ELSE i
Links(next) == [i \in DOMAIN next |-> Link(next[i])]

(* A pool of n blocks: f is the list of free blocks.                       *)
Pool(n, f, free, un, list, next) ==
  LET B == 0 .. n - 1
  IN /\ next \in [B -> B \cup {INDEX_NULL, INDEX_ALLOC}]
     /\ list \in B \cup {INDEX_NULL}
     /\ IsList(f, Link(list), Links(next), B)
     /\ \A i \in B : Linked(f, i) <=> i < un /\ next[i] # INDEX_ALLOC
     /\ un \in 0 .. n /\ free = Len(f) + n - un

PoolOK(P, n) ==
  \E f, free, un, list, next :
    /\ P = [fblkcnt |-> free, unused |-> un, freelist |-> list, next |-> next]
    /\ Pool(n, f, free, un, list, next)

LEMMA Indices ==
  ASSUME NEW n \in Nat
  PROVE  /\ INDEX_NULL \notin 0 .. n - 1 /\ INDEX_ALLOC \notin 0 .. n - 1
         /\ INDEX_NULL # INDEX_ALLOC
         /\ \A i \in 0 .. n - 1 : Link(i) = i
         /\ Link(INDEX_NULL) = NULL
BY DEF INDEX_NULL, INDEX_ALLOC, Link

(* What was allocated in P still is in R, but for the blocks X.            *)
StaysAllocated(P, R, n, X) ==
  \A i \in (0 .. n - 1) \ X : i < P.unused /\ P.next[i] = INDEX_ALLOC =>
                                i < R.unused /\ R.next[i] = INDEX_ALLOC

LEMMA PoolGet ==
  ASSUME NEW n \in Nat, NULL \notin 0 .. n - 1, NEW P, PoolOK(P, n),
         P.fblkcnt > 0, NEW R, R = get_mpf_block(P).P
  PROVE  PoolOK(R, n) /\ StaysAllocated(P, R, n, {})
<1> DEFINE B == 0 .. n - 1
<1>1. PICK f, free, un, list, next :
        /\ P = [fblkcnt |-> free, unused |-> un, freelist |-> list, next |-> next]
        /\ Pool(n, f, free, un, list, next)
  BY DEF PoolOK
<1>2. P.fblkcnt = free /\ P.unused = un /\ P.freelist = list /\ P.next = next
  BY <1>1
<1>3. /\ next \in [B -> B \cup {INDEX_NULL, INDEX_ALLOC}]
      /\ list \in B \cup {INDEX_NULL}
      /\ IsList(f, Link(list), Links(next), B)
      /\ \A i \in B : Linked(f, i) <=> i < un /\ next[i] # INDEX_ALLOC
      /\ un \in 0 .. n /\ free = Len(f) + n - un
  BY <1>1 DEF Pool
<1>4. /\ INDEX_NULL \notin B /\ INDEX_ALLOC \notin B /\ INDEX_NULL # INDEX_ALLOC
      /\ \A i \in B : Link(i) = i
      /\ Link(INDEX_NULL) = NULL /\ NULL \notin B
  BY Indices
<1>5. /\ Len(f) \in Nat /\ \A y : Linked(f, y) => y \in B
      /\ Link(list) = IF Len(f) = 0 THEN NULL ELSE f[1]
  <2> HIDE DEF B
  <2>1. /\ Len(f) \in Nat /\ Link(list) = IF Len(f) = 0 THEN NULL ELSE f[1]
        /\ f \in Seq(B)
    BY <1>3, ListFacts
  <2> QED
    BY <2>1, QueueLinked
(* The block e is taken, the list g and the unused ones from u on remain.  *)
<1> DEFINE Got(e, g, u, first) ==
             /\ get_mpf_block(P).P =
                  [[fblkcnt |-> free, unused |-> u, freelist |-> first,
                    next |-> next] EXCEPT !.fblkcnt = @ - 1,
                                          !.next[e] = INDEX_ALLOC]
             /\ first \in B \cup {INDEX_NULL}
             /\ IsList(g, Link(first), Links(next), B)
             /\ \A i : Linked(g, i) <=> Linked(f, i) /\ i # e
             /\ u \in 0 .. n /\ un <= u /\ \A i \in B : i < u <=> i < un \/ i = e
             /\ free - 1 = Len(g) + n - u
<1>6. ASSUME NEW e \in B, NEW g, NEW u, NEW first, Got(e, g, u, first)
      PROVE  PoolOK(R, n) /\ StaysAllocated(P, R, n, {})
  <2> DEFINE z == [next EXCEPT ![e] = INDEX_ALLOC]
             c == free - 1
  <2>1. R = [fblkcnt |-> c, unused |-> u, freelist |-> first, next |-> z]
    <3> DEFINE Q == [fblkcnt |-> free, unused |-> u, freelist |-> first,
                     next |-> next]
    <3>1. R = [Q EXCEPT !.fblkcnt = @ - 1, !.next[e] = INDEX_ALLOC]
      BY <1>6
    <3>2. Q.fblkcnt = free /\ Q.next = next
      OBVIOUS
    <3>3. R = [Q EXCEPT !.fblkcnt = c, !.next = z]
      <4> HIDE DEF Q
      <4> QED
        BY <3>1, <3>2
    <3> HIDE DEF c, z
    <3> QED
      BY <3>3
  <2>2. /\ z \in [B -> B \cup {INDEX_NULL, INDEX_ALLOC}]
        /\ z[e] = INDEX_ALLOC
        /\ \A i \in B : i # e => z[i] = next[i]
    BY <1>3, <1>6
  <2> HIDE DEF B, z
  <2>3. IsList(g, Link(first), Links(z), B)
    <3>1. DOMAIN z = B /\ DOMAIN next = B
      BY <1>3, <2>2
    <3>2. Links(z) = [i \in B |-> Link(z[i])] /\ Links(next) = [i \in B |-> Link(next[i])]
      BY <3>1 DEF Links
    <3>3. \A y : Linked(g, y) => Links(z)[y] = Links(next)[y]
      BY <1>5, <1>6, <2>2, <3>2
    <3> QED
      BY <1>6, <3>3, ListFrame
  <2>4. \A i \in B : Linked(g, i) <=> i < u /\ z[i] # INDEX_ALLOC
    BY <1>3, <1>6, <2>2
  <2>5. Pool(n, g, c, u, first, z)
    BY <1>6, <2>2, <2>3, <2>4 DEF Pool, B
  <2>6. PoolOK(R, n)
    BY <2>1, <2>5 DEF PoolOK
  <2>7. R.unused = u /\ R.next = z
    BY <2>1
  <2>8. ASSUME NEW i \in B, i < un, next[i] = INDEX_ALLOC
        PROVE  i < u /\ z[i] = INDEX_ALLOC
    BY <1>6, <2>2, <2>8
  <2> QED
    BY <1>2, <2>6, <2>7, <2>8 DEF StaysAllocated, B
<1> HIDE DEF Got
<1>7. CASE list # INDEX_NULL
  <2> DEFINE nx == Links(next)
             first == nx[list]
  <2>1. list \in B /\ Link(list) = list
    BY <1>3, <1>4, <1>7
  <2>2. TakesOut(f, list, nx, first, nx)
    BY <1>4, <2>1 DEF TakesOut
  <2>3. PICK g : /\ IsList(g, first, nx, B) /\ Len(g) = Len(f) - 1
                 /\ \A i : Linked(g, i) <=> Linked(f, i) /\ i # list
    <3> HIDE DEF B, nx, first
    <3> QED
      BY <1>3, <1>4, <2>1, <2>2, ListTail DEF nx
  <2>4. Linked(f, list)
    <3> HIDE DEF B, nx, first
    <3> QED
      BY <1>3, <1>4, <2>1, <2>2, ListTail DEF nx
  <2>5. next[list] # INDEX_ALLOC /\ list < un
    BY <1>3, <2>1, <2>4
  <2>6. first = Link(next[list]) /\ next[list] \in B \cup {INDEX_NULL}
    BY <1>3, <2>1, <2>5 DEF Links
  <2> DEFINE l == next[list]
             Q == [fblkcnt |-> free, unused |-> un, freelist |-> l, next |-> next]
  <2>7. get_mpf_block(P).P = [Q EXCEPT !.fblkcnt = @ - 1,
                                       !.next[list] = INDEX_ALLOC]
    <3>1. [P EXCEPT !.freelist = P.next[P.freelist]] = Q
      <4>1. P.next[P.freelist] = l
        BY <1>2
      <4> HIDE DEF l
      <4>2. [P EXCEPT !.freelist = l] = Q
        BY <1>1
      <4> QED
        BY <4>1, <4>2
    <3> HIDE DEF Q, l
    <3> QED
      BY <1>2, <1>7, <3>1 DEF get_mpf_block
  <2>8. \A i \in B : i < un <=> i < un \/ i = list
    BY <2>5
  <2>9. free - 1 = Len(g) + n - un /\ un <= un /\ un \in 0 .. n
    BY <1>3, <1>5, <2>3
  <2>10. IsList(g, Link(l), nx, B) /\ l \in B \cup {INDEX_NULL}
    BY <2>3, <2>6
  <2> HIDE DEF l, B, first
  <2>11. Got(list, g, un, l)
    BY <2>3, <2>7, <2>8, <2>9, <2>10 DEF Got
  <2> QED
    BY <1>6, <2>1, <2>11
<1>8. CASE list = INDEX_NULL
  <2> DEFINE u == un + 1
             Q == [fblkcnt |-> free, unused |-> u, freelist |-> list, next |-> next]
  <2>1. Len(f) = 0
    <3>1. Len(f) # 0 => 1 \in 1 .. Len(f)
      BY <1>5
    <3>2. \A i \in 1 .. Len(f) : f[i] \in B
      BY <1>3, ListFacts
    <3> QED
      BY <1>4, <1>5, <1>8, <3>1, <3>2
  <2>2. /\ un \in B /\ u \in 0 .. n /\ un <= u
        /\ free - 1 = Len(f) + n - u
        /\ \A i \in B : i < u <=> i < un \/ i = un
    BY <1>2, <1>3, <1>5, <2>1
  <2>3. get_mpf_block(P).P = [Q EXCEPT !.fblkcnt = @ - 1,
                                       !.next[un] = INDEX_ALLOC]
    <3>1. [P EXCEPT !.unused = @ + 1] = Q
      <4>1. [P EXCEPT !.unused = @ + 1] = [P EXCEPT !.unused = u]
        BY <1>2
      <4> HIDE DEF u
      <4>2. [P EXCEPT !.unused = u] = Q
        BY <1>1
      <4> QED
        BY <4>1, <4>2
    <3> HIDE DEF Q
    <3> QED
      BY <1>2, <1>8, <3>1 DEF get_mpf_block
  <2>4. \A i : Linked(f, i) <=> Linked(f, i) /\ i # un
    BY <1>3, <2>2
  <2>5. list \in B \cup {INDEX_NULL} /\ IsList(f, Link(list), Links(next), B)
    BY <1>3
  <2> HIDE DEF u, B
  <2>6. Got(un, f, u, list)
    BY <2>2, <2>3, <2>4, <2>5 DEF Got
  <2> QED
    BY <1>6, <2>2, <2>6
<1> QED
  BY <1>7, <1>8

LEMMA PoolRelease ==
  ASSUME NEW n \in Nat, NULL \notin 0 .. n - 1, NEW P, PoolOK(P, n),
         NEW blk \in 0 .. n - 1, blk < P.unused, P.next[blk] = INDEX_ALLOC,
         NEW R, R = [P EXCEPT !.fblkcnt = @ + 1, !.next[blk] = P.freelist,
                              !.freelist = blk]
  PROVE  PoolOK(R, n) /\ StaysAllocated(P, R, n, {blk})
<1> DEFINE B == 0 .. n - 1
<1>1. PICK f, free, un, list, next :
        /\ P = [fblkcnt |-> free, unused |-> un, freelist |-> list, next |-> next]
        /\ Pool(n, f, free, un, list, next)
  BY DEF PoolOK
<1>2. P.fblkcnt = free /\ P.unused = un /\ P.freelist = list /\ P.next = next
  BY <1>1
<1>3. /\ next \in [B -> B \cup {INDEX_NULL, INDEX_ALLOC}]
      /\ list \in B \cup {INDEX_NULL}
      /\ IsList(f, Link(list), Links(next), B)
      /\ \A i \in B : Linked(f, i) <=> i < un /\ next[i] # INDEX_ALLOC
      /\ un \in 0 .. n /\ free = Len(f) + n - un
  BY <1>1 DEF Pool
<1>4. /\ INDEX_NULL \notin B /\ INDEX_ALLOC \notin B /\ INDEX_NULL # INDEX_ALLOC
      /\ \A i \in B : Link(i) = i
      /\ Link(INDEX_NULL) = NULL /\ NULL \notin B
  BY Indices
<1>5. /\ Len(f) \in Nat /\ \A y : Linked(f, y) => y \in B
      /\ Link(list) = IF Len(f) = 0 THEN NULL ELSE f[1]
  <2> HIDE DEF B
  <2>1. /\ Len(f) \in Nat /\ Link(list) = IF Len(f) = 0 THEN NULL ELSE f[1]
        /\ f \in Seq(B)
    BY <1>3, ListFacts
  <2> QED
    BY <2>1, QueueLinked
<1> DEFINE z == [next EXCEPT ![blk] = list]
           c == free + 1
           zero == 0
<1>6. R = [fblkcnt |-> c, unused |-> un, freelist |-> blk, next |-> z]
  <2>1. R = [P EXCEPT !.fblkcnt = c, !.next = z, !.freelist = blk]
    BY <1>2
  <2> HIDE DEF z, c
  <2> QED
    BY <1>1, <2>1
<1>7. /\ z \in [B -> B \cup {INDEX_NULL, INDEX_ALLOC}]
      /\ z[blk] = list /\ blk \in B
      /\ \A i \in B : i # blk => z[i] = next[i]
  BY <1>3
<1>8. zero \in 0 .. Len(f) /\ ~Linked(f, blk) /\ blk < un /\ next[blk] = INDEX_ALLOC
  BY <1>2, <1>3, <1>5
<1> HIDE DEF B, z
<1>9. Links(z) = [i \in B |-> Link(z[i])] /\ Links(next) = [i \in B |-> Link(next[i])]
  <2>1. DOMAIN z = B /\ DOMAIN next = B
    BY <1>3, <1>7
  <2> QED
    BY <2>1 DEF Links
<1>10. PutsIn(f, Link(list), Links(next), zero, blk, blk, Links(z))
  <2>1. Links(z)[blk] = IF 0 = Len(f) THEN NULL ELSE f[0 + 1]
    BY <1>5, <1>7, <1>9
  <2>2. \A y : Linked(f, y) => Links(z)[y] = Links(next)[y]
    BY <1>5, <1>7, <1>8, <1>9
  <2> QED
    BY <2>1, <2>2 DEF PutsIn
<1> HIDE DEF zero
<1>11. PICK g : /\ IsList(g, blk, Links(z), B) /\ Len(g) = Len(f) + 1
                /\ \A y : Linked(g, y) <=> Linked(f, y) \/ y = blk
  <2>1. IsList(f, Link(list), Links(next), B) /\ NULL \notin B /\ blk \in B
    BY <1>3, <1>4, <1>7
  <2>2. ~Linked(f, blk) /\ zero \in 0 .. Len(f)
    BY <1>8
  <2> QED
    BY <1>10, <2>1, <2>2, ListInsert
<1>12. Pool(n, g, c, un, blk, z)
  <2>1. Link(blk) = blk /\ blk \in B \cup {INDEX_NULL}
    BY <1>4, <1>7
  <2>2. \A i \in B : Linked(g, i) <=> i < un /\ z[i] # INDEX_ALLOC
    BY <1>3, <1>4, <1>7, <1>8, <1>11
  <2>3. c = Len(g) + n - un
    BY <1>3, <1>5, <1>11
  <2>4. IsList(g, Link(blk), Links(z), B)
    BY <1>11, <2>1
  <2>5. un \in 0 .. n /\ z \in [B -> B \cup {INDEX_NULL, INDEX_ALLOC}]
    BY <1>3, <1>7
  <2> HIDE DEF c
  <2> QED
    BY <2>1, <2>2, <2>3, <2>4, <2>5 DEF Pool, B
<1>13. PoolOK(R, n)
  BY <1>6, <1>12 DEF PoolOK
<1>14. R.unused = un /\ R.next = z
  <2> HIDE DEF c
  <2>1. \A x : x = [fblkcnt |-> c, unused |-> un, freelist |-> blk, next |-> z] =>
               x.unused = un /\ x.next = z
    OBVIOUS
  <2> QED
    BY ONLY <1>6, <2>1
<1> QED
  BY <1>2, <1>7, <1>13, <1>14 DEF StaysAllocated, B

LEMMA PoolEmpty ==
  ASSUME NEW n \in Nat, NEW next,
         next \in [0 .. n - 1 -> (0 .. n - 1) \cup {INDEX_NULL, INDEX_ALLOC}],
         NEW R, R = [fblkcnt |-> n, unused |-> 0, freelist |-> INDEX_NULL,
                     next |-> next]
  PROVE  PoolOK(R, n)
<1> DEFINE B == 0 .. n - 1
           f == <<>>
           zero == 0
<1>1. Link(INDEX_NULL) = NULL
  BY Indices
<1>2. f = <<>> /\ zero = 0
  OBVIOUS
<1>3. zero \in 0 .. n /\ n = zero + n - zero /\ \A i \in B : ~(i < zero)
  OBVIOUS
<1> HIDE DEF f, zero, B
<1>4. IsList(f, Link(INDEX_NULL), Links(next), B)
  BY <1>1, <1>2, EmptyList
<1>5. (\A i : ~Linked(f, i)) /\ Len(f) = zero
  BY <1>2, EmptySeq DEF Linked
<1>6. Pool(n, f, n, zero, INDEX_NULL, next)
  <2>1. next \in [B -> B \cup {INDEX_NULL, INDEX_ALLOC}] /\ INDEX_NULL \in B \cup {INDEX_NULL}
    BY DEF B
  <2> QED
    BY <1>3, <1>4, <1>5, <2>1 DEF Pool, B
<1> QED
  BY <1>2, <1>6 DEF PoolOK

LEMMA PoolCleared ==
  ASSUME NEW n \in Nat, NEW P, PoolOK(P, n),
         NEW R, R = [P EXCEPT !.fblkcnt = n, !.unused = 0, !.freelist = INDEX_NULL]
  PROVE  PoolOK(R, n)
<1>1. PICK f, free, un, list, next :
        /\ P = [fblkcnt |-> free, unused |-> un, freelist |-> list, next |-> next]
        /\ Pool(n, f, free, un, list, next)
  BY DEF PoolOK
<1>2. next \in [0 .. n - 1 -> (0 .. n - 1) \cup {INDEX_NULL, INDEX_ALLOC}]
  BY <1>1 DEF Pool
<1>3. R = [fblkcnt |-> n, unused |-> 0, freelist |-> INDEX_NULL, next |-> next]
  BY <1>1
<1> QED
  BY <1>2, <1>3, PoolEmpty

MpfAt(m) ==
  /\ PoolOK(mpf[m], blkcnt[m])
  /\ ~queue_empty(k.waitq[m]) => mpf[m].fblkcnt = 0

(* A block that a task is about to release is allocated, and no other task *)
(* is about to release it.                                                 *)
RelsOK ==
  /\ relblk = [t \in Tasks |-> relblk[t]]
  /\ \A m \in Mpfs : \A i \in 0 .. blkcnt[m] - 1 : \A t \in Tasks :
       relblk[t] = <<m, i>> => /\ i < mpf[m].unused /\ mpf[m].next[i] = INDEX_ALLOC
                               /\ \A u \in Tasks : relblk[u] = <<m, i>> => t = u

MpfsOK == mpf = [m \in Mpfs |-> mpf[m]] /\ (\A m \in Mpfs : MpfAt(m)) /\ RelsOK

LEMMA RelsStay ==
  ASSUME RelsOK, relblk' = [t \in Tasks |-> relblk'[t]],
         \A t \in Tasks : relblk'[t] = NULL \/ relblk'[t] = relblk[t],
         NEW m \in Mpfs, \A v \in Mpfs \ {m} : mpf'[v] = mpf[v],
         NEW X, StaysAllocated(mpf[m], mpf'[m], blkcnt[m], X),
         \A i \in X : \A t \in Tasks : relblk'[t] # <<m, i>>
  PROVE  RelsOK'
<1>1. ASSUME NEW v \in Mpfs, NEW i \in 0 .. blkcnt[v] - 1, NEW t \in Tasks,
             relblk'[t] = <<v, i>>
      PROVE  /\ i < mpf'[v].unused /\ mpf'[v].next[i] = INDEX_ALLOC
             /\ \A u \in Tasks : relblk'[u] = <<v, i>> => t = u
  <2>1. NULL # <<v, i>>
    BY MemPFixAssumption
  <2>2. \A u \in Tasks : relblk'[u] = <<v, i>> => relblk[u] = <<v, i>>
    BY <2>1
  <2>3. /\ i < mpf[v].unused /\ mpf[v].next[i] = INDEX_ALLOC
        /\ \A u \in Tasks : relblk[u] = <<v, i>> => t = u
    BY <1>1, <2>2 DEF RelsOK
  <2>4. CASE v = m
    <3>1. i \notin X
      BY <1>1, <2>4
    <3> QED
      BY <2>2, <2>3, <2>4, <3>1 DEF StaysAllocated
  <2>5. CASE v # m
    BY <2>2, <2>3, <2>5
  <2> QED
    BY <2>4, <2>5
<1> QED
  BY <1>1 DEF RelsOK

LEMMA MpfsStay ==
  ASSUME KernelInv(k), KernelInv(k'), Shrinks(k, k', Mpfs), MpfsOK,
         UNCHANGED mpf, relblk' = [t \in Tasks |-> relblk'[t]],
         \A t \in Tasks : relblk'[t] = NULL \/ relblk'[t] = relblk[t]
  PROVE  MpfsOK'
<1>1. \A m \in Mpfs : queue_empty(k.waitq[m]) => queue_empty(k'.waitq[m])
  <2>1. Mpfs \in SUBSET WaitQueues
    BY MemPFixAssumption
  <2> QED
    BY <2>1, StaysEmpty
<1>2. \A m \in Mpfs : MpfAt(m)'
  BY <1>1 DEF MpfsOK, MpfAt
<1>3. RelsOK'
  <2>1. ASSUME NEW v \in Mpfs, NEW i \in 0 .. blkcnt[v] - 1, NEW t \in Tasks,
               relblk'[t] = <<v, i>>
        PROVE  /\ i < mpf'[v].unused /\ mpf'[v].next[i] = INDEX_ALLOC
               /\ \A u \in Tasks : relblk'[u] = <<v, i>> => t = u
    <3>1. NULL # <<v, i>>
      BY MemPFixAssumption
    <3>2. \A u \in Tasks : relblk'[u] = <<v, i>> => relblk[u] = <<v, i>>
      BY <3>1
    <3> QED
      BY <2>1, <3>2 DEF MpfsOK, RelsOK
  <2> QED
    BY <2>1 DEF RelsOK
<1> QED
  BY <1>2, <1>3 DEF MpfsOK

LEMMA MpfStep ==
  ASSUME KernelInv(k), WinfoOK, MpfsOK, NEW m \in Mpfs, MpfServices(m)
  PROVE  KernelInv(k') /\ Only(k, k', {m}) /\ Keeping /\ MpfsOK'
<1> DEFINE Q == {m}
           n == blkcnt[m]
           P == mpf[m]
           Goal == KernelInv(k') /\ Only(k, k', Q) /\ Keeping /\ MpfsOK'
<1> SUFFICES Goal
  OBVIOUS
<1>0. /\ m \in WaitQueues /\ Mpfs \subseteq WaitQueues
      /\ k.waitq \in [WaitQueues -> Seq(Tasks)]
      /\ mpf = [v \in Mpfs |-> mpf[v]] /\ \A v \in Mpfs : MpfAt(v)
      /\ PoolOK(P, n) /\ n \in Nat /\ NULL \notin 0 .. n - 1
      /\ ~queue_empty(k.waitq[m]) => P.fblkcnt = 0
      /\ RelsOK /\ relblk = [t \in Tasks |-> relblk[t]]
      /\ \A i \in 0 .. n - 1 : NULL # <<m, i>>
  <2>1. NULL \notin 0 .. n - 1 /\ \A i \in 0 .. n - 1 : NULL # <<m, i>>
    BY MemPFixAssumption
  <2> QED
    BY <2>1, MemPFixAssumption, NobodyWaits DEF MpfsOK, MpfAt, RelsOK
<1>1. ASSUME NEW R, KernelInv(k'), Only(k, k', Q), Keeping,
             mpf' = [mpf EXCEPT ![m] = R], PoolOK(R, n),
             ~queue_empty(k'.waitq[m]) => R.fblkcnt = 0, RelsOK'
      PROVE  Goal
  <2>1. mpf'[m] = R /\ \A v \in Mpfs \ {m} : mpf'[v] = mpf[v]
    BY <1>0, <1>1
  <2>2. MpfAt(m)'
    BY <1>1, <2>1 DEF MpfAt
  <2>3. ASSUME NEW v \in Mpfs \ {m} PROVE MpfAt(v)'
    <3>1. v \in WaitQueues /\ k'.waitq[v] = k.waitq[v] /\ MpfAt(v)
      BY <1>0, <1>1 DEF Only
    <3> QED
      BY <2>1, <3>1 DEF MpfAt
  <2> QED
    BY <1>0, <1>1, <2>2, <2>3 DEF MpfsOK
(* Where what tasks are about to release stays allocated.                  *)
<1>2. ASSUME NEW R, mpf' = [mpf EXCEPT ![m] = R],
             relblk' = [t \in Tasks |-> relblk'[t]],
             \A t \in Tasks : relblk'[t] = NULL \/ relblk'[t] = relblk[t],
             NEW X, StaysAllocated(P, R, n, X),
             \A i \in X : \A t \in Tasks : relblk'[t] # <<m, i>>
      PROVE  RelsOK'
  <2>1. mpf'[m] = R /\ \A v \in Mpfs \ {m} : mpf'[v] = mpf[v]
    BY <1>0, <1>2
  <2>2. StaysAllocated(mpf[m], mpf'[m], blkcnt[m], X)
    BY <1>2, <2>1
  <2> HIDE DEF P, n
  <2> QED
    BY <1>0, <1>2, <2>1, <2>2, RelsStay
<1>3. mpf = [mpf EXCEPT ![m] = P] /\ StaysAllocated(P, P, n, {})
  BY <1>0 DEF StaysAllocated
<1>4. ASSUME UNCHANGED k
      PROVE  KernelInv(k') /\ Only(k, k', Q)
  BY <1>4 DEF Only
<1>5. ASSUME TskCtxUnl
      PROVE  k.runtsk \in Tasks
  BY <1>5, TskCtxFacts DEF TskCtxUnl
<1> HIDE DEF Q, n, P, Goal
<1>6. ASSUME Get(m) PROVE Goal
  <2> DEFINE R == get_mpf_block(P).P
  <2>1. /\ P.fblkcnt > 0 /\ UNCHANGED k /\ relblk' = relblk
        /\ mpf' = [mpf EXCEPT ![m] = R] /\ Keeping
    BY <1>6, Keeps DEF Get, P
  <2>2. PoolOK(R, n) /\ StaysAllocated(P, R, n, {})
    BY <1>0, <2>1, PoolGet
  <2> HIDE DEF R
  <2>3. RelsOK'
    BY <1>0, <1>2, <2>1, <2>2
  <2>4. KernelInv(k') /\ Only(k, k', Q) /\ queue_empty(k'.waitq[m])
    BY <1>0, <1>4, <2>1
  <2> QED
    BY <1>1, <2>1, <2>2, <2>3, <2>4
<1>7. ASSUME NEW tmout \in Nat \cup {TMO_FEVR}, tget_mpf(m, tmout) PROVE Goal
  <2>1. CASE /\ CanDispatch /\ P.fblkcnt = 0 /\ WaitFor("WAIT_MPF", m, tmout, NULL)
             /\ UNCHANGED mpfvars
    <3>1. MayQueue(m, "WAIT_MPF")
      BY <1>0 DEF MayQueue, TS_WAIT_WOBJ, TS_WAIT_WOBJCB
    <3>2. KernelInv(k') /\ Joins(k, k', m, k.runtsk)
      BY <2>1, <3>1, StartsToWait DEF WaitFor
    <3>3. Only(k, k', Q)
      BY <1>0, <3>2 DEF Only, Joins, Q
    <3>4. Keeping
      BY <2>1, Keeps
    <3>5. mpf' = mpf /\ relblk' = relblk
      BY <2>1 DEF mpfvars
    <3>6. mpf' = [mpf EXCEPT ![m] = P]
      BY <1>3, <3>5
    <3>7. RelsOK'
      BY <1>0, <1>2, <1>3, <3>5, <3>6
    <3> QED
      BY <1>0, <1>1, <2>1, <3>2, <3>3, <3>4, <3>6, <3>7
  <2> QED
    BY <1>6, <1>7, <2>1 DEF tget_mpf, P
<1>8. ASSUME NEW blk \in 0 .. n - 1, NotReleased(m, blk), rel_mpf_check(m, blk)
      PROVE  Goal
  <2> DEFINE p == <<m, blk>>
  <2>1. /\ k.runtsk \in Tasks /\ blk < P.unused /\ P.next[blk] = INDEX_ALLOC
        /\ relblk' = [relblk EXCEPT ![k.runtsk] = p]
        /\ k' = k /\ mpf' = mpf /\ Keeping
    BY <1>5, <1>8, Keeps DEF rel_mpf_check, P
  <2>2. /\ relblk'[k.runtsk] = p
        /\ \A t \in Tasks : t # k.runtsk => relblk'[t] = relblk[t]
        /\ relblk' = [t \in Tasks |-> relblk'[t]]
    <3> HIDE DEF p
    <3> QED
      BY <1>0, <2>1
  <2>3. ASSUME NEW v \in Mpfs, NEW i \in 0 .. blkcnt[v] - 1, NEW t \in Tasks,
               relblk'[t] = <<v, i>>
        PROVE  /\ i < mpf'[v].unused /\ mpf'[v].next[i] = INDEX_ALLOC
               /\ \A u \in Tasks : relblk'[u] = <<v, i>> => t = u
    <3>1. CASE v = m /\ i = blk
      <4>1. \A u \in Tasks : relblk[u] # <<m, blk>>
        BY <1>8 DEF NotReleased
      <4> QED
        BY <2>1, <2>2, <2>3, <3>1, <4>1 DEF P
    <3>2. CASE v # m \/ i # blk
      <4>1. p # <<v, i>>
        BY <3>2
      <4> HIDE DEF p
      <4>2. t # k.runtsk /\ \A u \in Tasks : relblk'[u] = <<v, i>> => u # k.runtsk
        BY <2>2, <2>3, <4>1
      <4>3. /\ relblk[t] = <<v, i>>
            /\ \A u \in Tasks : relblk'[u] = <<v, i>> => relblk[u] = <<v, i>>
        BY <2>2, <2>3, <4>2
      <4>4. /\ i < mpf[v].unused /\ mpf[v].next[i] = INDEX_ALLOC
            /\ \A u \in Tasks : relblk[u] = <<v, i>> => t = u
        BY <1>0, <2>3, <4>3 DEF RelsOK
      <4> QED
        BY <2>1, <4>3, <4>4
    <3> QED
      BY <3>1, <3>2
  <2>4. RelsOK'
    BY <2>2, <2>3 DEF RelsOK
  <2>5. KernelInv(k') /\ Only(k, k', Q) /\ k'.waitq = k.waitq
    BY <1>4, <2>1
  <2>6. mpf' = [mpf EXCEPT ![m] = P]
    BY <1>3, <2>1
  <2> QED
    BY <1>0, <1>1, <2>1, <2>4, <2>5, <2>6
<1>9. ASSUME NEW blk \in 0 .. n - 1, rel_mpf(m, blk) PROVE Goal
  <2>1. /\ TskCtxUnl /\ k.runtsk \in Tasks /\ relblk[k.runtsk] = <<m, blk>>
        /\ relblk' = [relblk EXCEPT ![k.runtsk] = NULL] /\ Keeping
    BY <1>5, <1>9, Keeps DEF rel_mpf
  <2>2. /\ relblk' = [t \in Tasks |-> relblk'[t]]
        /\ \A t \in Tasks : relblk'[t] = NULL \/ relblk'[t] = relblk[t]
        /\ relblk'[k.runtsk] = NULL
        /\ \A t \in Tasks : t # k.runtsk => relblk'[t] = relblk[t]
    BY <1>0, <2>1
  <2>3. /\ blk < P.unused /\ P.next[blk] = INDEX_ALLOC
        /\ \A u \in Tasks : relblk[u] = <<m, blk>> => k.runtsk = u
    BY <1>0, <2>1 DEF RelsOK, P, n
  <2>4. CASE /\ ~queue_empty(k.waitq[m]) /\ k' = DispatchIf(CompleteFirst(k, m))
             /\ mpf' = mpf
    <3> DEFINE q == queue_delete_next(k.waitq[m])
               X == {}
    <3>1. KernelInv(k') /\ k'.waitq = [k.waitq EXCEPT ![m] = q]
      BY <1>0, <2>1, <2>4, FirstServed DEF Ends
    <3>5. StaysAllocated(P, P, n, X)
      BY <1>3
    <3>6. \A i \in X : \A t \in Tasks : relblk'[t] # <<m, i>>
      OBVIOUS
    <3> HIDE DEF q, X
    <3>2. Only(k, k', Q)
      BY <1>0, <3>1 DEF Only, Q
    <3>3. mpf' = [mpf EXCEPT ![m] = P]
      BY <1>3, <2>4
    <3>4. RelsOK'
      BY <1>2, <2>2, <3>3, <3>5, <3>6
    <3> QED
      BY <1>0, <1>1, <2>1, <2>4, <3>1, <3>2, <3>3, <3>4
  <2>5. CASE /\ queue_empty(k.waitq[m]) /\ k' = k
             /\ mpf' = [mpf EXCEPT ![m].fblkcnt = @ + 1,
                                   ![m].next[blk] = mpf[m].freelist,
                                   ![m].freelist = blk]
    <3> DEFINE R == [P EXCEPT !.fblkcnt = @ + 1, !.next[blk] = P.freelist,
                              !.freelist = blk]
               X == {blk}
    <3>1. mpf' = [mpf EXCEPT ![m] = R]
      BY <1>0, <2>5 DEF P
    <3>2. PoolOK(R, n) /\ StaysAllocated(P, R, n, X)
      BY <1>0, <2>3, PoolRelease
    <3>3. \A i \in X : \A t \in Tasks : relblk'[t] # <<m, i>>
      BY <1>0, <2>2, <2>3
    <3> HIDE DEF R, X
    <3>4. RelsOK'
      BY <1>2, <2>2, <3>1, <3>2, <3>3
    <3>5. KernelInv(k') /\ Only(k, k', Q) /\ queue_empty(k'.waitq[m])
      BY <1>4, <2>5
    <3> QED
      BY <1>1, <2>1, <3>1, <3>2, <3>4, <3>5
  <2> QED
    BY <1>9, <2>4, <2>5 DEF rel_mpf
<1>10. ASSUME NoRelease(m), ini_mpf(m) PROVE Goal
  <2> DEFINE q == <<>>
             R == [P EXCEPT !.fblkcnt = n, !.unused = 0, !.freelist = INDEX_NULL]
             X == 0 .. n - 1
  <2>1. /\ TskCtxUnl /\ k' = DispatchIf(init_wait_queue(k, m)) /\ Keeping
        /\ mpf' = [mpf EXCEPT ![m].fblkcnt = n, ![m].unused = 0,
                              ![m].freelist = INDEX_NULL]
        /\ relblk' = relblk
    BY <1>10, Keeps DEF ini_mpf, n
  <2>2. mpf' = [mpf EXCEPT ![m] = R]
    BY <1>0, <2>1 DEF P
  <2>3. PoolOK(R, n)
    BY <1>0, PoolCleared
  <2>4. q = <<>>
    OBVIOUS
  <2> HIDE DEF q
  <2>5. KernelInv(k') /\ k'.waitq = [k.waitq EXCEPT ![m] = q]
    BY <1>0, <2>1, <2>4, AllReleased
  <2>6. Only(k, k', Q) /\ queue_empty(k'.waitq[m])
    BY <1>0, <2>4, <2>5 DEF Only, Q, queue_empty
  <2>7. StaysAllocated(P, R, n, X)
    <3>1. ~\E i : i \in (0 .. n - 1) \ X
      OBVIOUS
    <3> HIDE DEF R, X
    <3> QED
      BY ONLY <3>1, Zenon DEF StaysAllocated
  <2>8. \A i \in X : \A t \in Tasks : relblk'[t] # <<m, i>>
    <3>1. ASSUME NEW i \in X, NEW t \in Tasks, relblk[t] = <<m, i>> PROVE FALSE
      <4>1. NULL # <<m, i>>
        BY <1>0
      <4>2. relblk[t] # NULL
        BY <3>1, <4>1
      <4>3. relblk[t][1] = m
        BY <3>1
      <4> QED
        BY <1>10, <4>2, <4>3 DEF NoRelease
    <3> QED
      BY <2>1, <3>1
  <2> HIDE DEF R, X
  <2>9. RelsOK'
    BY <1>0, <1>2, <2>1, <2>2, <2>7, <2>8
  <2> QED
    BY <1>1, <2>1, <2>2, <2>3, <2>5, <2>6, <2>9
<1>13. TMO_FEVR \in Nat \cup {TMO_FEVR} /\ Timeout \subseteq Nat \cup {TMO_FEVR}
  BY TaskSyncAssumption DEF Timeout
<1>14. Goal
  BY <1>6, <1>7, <1>8, <1>9, <1>10, <1>13 DEF MpfServices, get_mpf, pget_mpf, n
<1> QED
  BY <1>14 DEF Goal, Q

-----------------------------------------------------------------------------
(* What the other services and the tick do to the queues, and the results  *)
(* of the waits that they end.                                             *)
QueuesElse ==
  \/ k'.waitq = k.waitq
  \/ \E t \in Tasks : /\ Leaves(k, k', t)
                      /\ \/ k'.wercd[t] \in {"none", "E_RLWAI"}
                         \/ k'.wercd[t] = "E_TMOUT" /\ InTick
  \/ \E t \in Tasks, pri \in Pri : chg_pri(t, pri) /\ Moves(k, k', t)

LEMMA ElseQueues ==
  ASSUME KernelInv(k), TasksElse \/ HandlersElse
  PROVE  KernelInv(k') /\ QueuesElse
<1>0. /\ "waitq" \in DOMAIN k /\ "wercd" \in DOMAIN k
      /\ DOMAIN k.wercd = Tasks /\ Base(k)
  BY DEF KernelInv, Base, Core, KernelState
<1>1. ASSUME SameWaitq(k, k') PROVE QueuesElse
  BY <1>1 DEF SameWaitq, QueuesElse
<1>2. ASSUME NEW t \in Tasks, act_tsk(t) PROVE QueuesElse
  <2> DEFINE r == make_active(k, t)
  <2>1. SameWaitq(k, r.st)
    BY <1>0, LeaveWaitq
  <2>2. k' = DispatchIf(r) \/ k' = [k EXCEPT !.actque[t] = TRUE]
    BY <1>2 DEF act_tsk
  <2> HIDE DEF r
  <2>3. SameWaitq(k, k')
    BY <1>0, <2>1, <2>2, SwitchLeavesWaitq DEF SameWaitq
  <2> QED
    BY <1>1, <2>3
<1>3. ASSUME NEW t \in Tasks, ter_tsk(t) PROVE QueuesElse
  <2> DEFINE D == wait_dequeue_wobj(k, t)
             T == wait_dequeue_tmevtb(D, t)
             N == make_non_runnable(k, t).st
             E == IF TSTAT_RUNNABLE(k.tstat[t]) THEN N
                  ELSE IF TSTAT_WAITING(k.tstat[t]) THEN T ELSE k
             M == make_dormant(E, t)
             C == [M EXCEPT !.wercd[t] = "none"]
             r == Restart(C, t)
  <2>1. k' = DispatchIf(r) /\ t # k.runtsk
    BY <1>3 DEF ter_tsk
  <2>2. "waitq" \in DOMAIN D /\ Leaves(k, D, t) /\ SameWercd(k, D)
    BY <1>0, DequeueLeaves
  <2>3. SameWaitq(k, N) /\ SameWercd(k, N)
    BY <1>0, LeaveWaitq, LeaveWercd
  <2>11. r.st.runtsk = k.runtsk
    <3> DEFINE x == Terminated(k, t)
    <3>1. x = Terminated(k, t)
      OBVIOUS
    <3> HIDE DEF x
    <3>2. Frame(k, x.st)
      BY <1>3, <3>1, TerminatedBase
    <3>3. x = r
      BY <3>1 DEF Terminated
    <3> HIDE DEF r
    <3> QED
      BY <3>2, <3>3 DEF Frame
  <2> HIDE DEF D, N, r
  <2>4. SameWaitq(D, T) /\ SameWercd(D, T)
    BY <2>2 DEF SameWaitq, SameWercd, wait_dequeue_tmevtb
  <2> HIDE DEF T
  <2>5. /\ "waitq" \in DOMAIN E /\ E.waitq \in {k.waitq, D.waitq}
        /\ "wercd" \in DOMAIN E /\ DOMAIN E.wercd = Tasks
    BY <1>0, <2>2, <2>3, <2>4 DEF SameWaitq, SameWercd
  <2> HIDE DEF E
  <2>6. SameWaitq(E, M) /\ SameWercd(E, M)
    BY <2>5, LeaveWaitq, LeaveWercd
  <2> HIDE DEF M
  <2>7. SameWaitq(M, C) /\ "wercd" \in DOMAIN C /\ C.wercd[t] = "none"
    BY <2>5, <2>6 DEF SameWaitq, SameWercd
  <2> HIDE DEF C
  <2>8. SameWaitq(C, r.st) /\ SameWercd(C, r.st)
    BY <2>7, LeaveWaitq, LeaveWercd DEF SameWaitq, r
  <2>9. k'.waitq \in {k.waitq, D.waitq}
    BY <2>1, <2>5, <2>6, <2>7, <2>8, SwitchLeavesWaitq DEF SameWaitq
  <2>10. k'.wercd[t] = "none"
    BY <2>1, <2>7, <2>8, <2>11, EndLeavesWercd DEF SameWercd
  <2> QED
    BY <2>2, <2>9, <2>10 DEF QueuesElse, Leaves
<1>4. ASSUME NEW t \in Tasks, rel_wai(t) \/ irel_wai(t)
      PROVE  QueuesElse
  <2> DEFINE D == wait_dequeue_wobj(k, t)
             T == wait_dequeue_tmevtb(D, t)
             C == [T EXCEPT !.wercd[t] = "E_RLWAI"]
             r == make_non_wait(C, t)
  <2>1. k' \in {DispatchIf(r), RequestIf(r)} /\ TSTAT_WAITING(k.tstat[t])
    BY <1>4 DEF rel_wai, irel_wai, wait_release
  <2>2. "waitq" \in DOMAIN D /\ Leaves(k, D, t) /\ SameWercd(k, D)
    BY <1>0, DequeueLeaves
  <2>7. r.st.runtsk = k.runtsk
    <3>1. r = wait_release(k, t)
      BY DEF wait_release
    <3> HIDE DEF r
    <3> QED
      BY <1>0, <2>1, <3>1, WaitRelease DEF Readied, Frame
  <2> HIDE DEF D, r
  <2>3. SameWaitq(D, T) /\ SameWercd(D, T)
    BY <2>2 DEF SameWaitq, SameWercd, wait_dequeue_tmevtb
  <2> HIDE DEF T
  <2>4. SameWaitq(D, C) /\ "wercd" \in DOMAIN C /\ C.wercd[t] = "E_RLWAI"
    BY <1>0, <2>2, <2>3 DEF SameWaitq, SameWercd
  <2> HIDE DEF C
  <2>5. SameWaitq(C, r.st) /\ SameWercd(C, r.st)
    BY <2>4, LeaveWaitq, LeaveWercd DEF SameWaitq, r
  <2>6. k'.waitq = D.waitq
    BY <2>1, <2>4, <2>5, SwitchLeavesWaitq DEF SameWaitq
  <2>8. k'.wercd[t] = "E_RLWAI"
    <3>1. t # k.runtsk
      BY <2>1, WaiterNotRunning
    <3> QED
      BY <2>1, <2>4, <2>5, <2>7, <3>1, EndLeavesWercd DEF SameWercd
  <2> QED
    BY <2>2, <2>6, <2>8 DEF QueuesElse, Leaves
<1>5. ASSUME NEW t \in Tasks, sus_tsk(t) PROVE QueuesElse
  <2> DEFINE A == [k EXCEPT !.tstat[t] = TS_SUSPENDED]
             r == make_non_runnable(A, t)
  <2>1. SameWaitq(k, A)
    BY <1>0 DEF SameWaitq
  <2>2. \/ k' = DispatchIf(r)
        \/ k' = [k EXCEPT !.tstat[t] = k.tstat[t] \cup TS_SUSPENDED]
    BY <1>5 DEF sus_tsk
  <2> HIDE DEF A
  <2>3. SameWaitq(A, r.st)
    BY <2>1, LeaveWaitq DEF SameWaitq
  <2> HIDE DEF r
  <2>4. SameWaitq(k, k')
    BY <1>0, <2>1, <2>2, <2>3, SwitchLeavesWaitq DEF SameWaitq
  <2> QED
    BY <1>1, <2>4
<1>6. ASSUME NEW t \in Tasks, rsm_tsk(t) PROVE QueuesElse
  <2> DEFINE A == [k EXCEPT !.tstat[t] = TS_RUNNABLE]
             r == make_runnable(A, t)
  <2>1. SameWaitq(k, A)
    BY <1>0 DEF SameWaitq
  <2>2. \/ k' = DispatchIf(r)
        \/ k' = [k EXCEPT !.tstat[t] = k.tstat[t] \ TS_SUSPENDED]
    BY <1>6 DEF rsm_tsk
  <2> HIDE DEF A
  <2>3. SameWaitq(A, r.st)
    BY <2>1, LeaveWaitq DEF SameWaitq
  <2> HIDE DEF r
  <2>4. SameWaitq(k, k')
    BY <1>0, <2>1, <2>2, <2>3, SwitchLeavesWaitq DEF SameWaitq
  <2> QED
    BY <1>1, <2>4
<1>7. ASSUME NEW t \in Tasks, NEW pri \in Pri, chg_pri(t, pri)
      PROVE  QueuesElse
  <2> DEFINE P == [k EXCEPT !.priority[t] = pri]
             q == change_ready_priority(k, t, pri)
             W == wobj_change_priority(P, t)
             r == change_priority(k, t, pri)
  <2>1. k' = DispatchIf(r)
    BY <1>7 DEF chg_pri
  <2>2. SameWaitq(k, q.st)
    BY <1>0, LeaveWaitq
  <2>3. SameWaitq(k, P)
    BY <1>0 DEF SameWaitq
  <2>4. TSTAT_WAIT_WOBJCB(k.tstat[t]) =>
          "waitq" \in DOMAIN W /\ Moves(k, W, t)
    BY RequeueMoves
  <2>5. \/ r.st = q.st
        \/ TSTAT_WAIT_WOBJCB(k.tstat[t]) /\ r.st = W
        \/ r.st = P
    BY DEF change_priority
  <2> HIDE DEF P, q, W, r
  <2>6. "waitq" \in DOMAIN r.st /\ Moves(k, r.st, t)
    BY <2>2, <2>3, <2>4, <2>5 DEF SameWaitq, Moves
  <2>7. k'.waitq = r.st.waitq
    BY <2>1, <2>6, SwitchLeavesWaitq DEF SameWaitq
  <2>8. Moves(k, k', t)
    BY <2>6, <2>7 DEF Moves
  <2> QED
    BY <1>7, <2>8 DEF QueuesElse
<1>8. ASSUME ext_tsk PROVE QueuesElse
  <2> DEFINE t == k.runtsk
             E == [k EXCEPT !.disdsp = FALSE, !.ipmflg = TRUE, !.dspflg = TRUE,
                            !.lock = FALSE]
             N == make_non_runnable(E, t).st
             D == make_dormant(N, t)
             R == Restart(D, t).st
  <2>1. k' = dispatch(R)
    BY <1>8 DEF ext_tsk
  <2>2. SameWaitq(k, E)
    BY <1>0 DEF SameWaitq
  <2> HIDE DEF E
  <2>3. SameWaitq(E, N)
    BY <2>2, LeaveWaitq DEF SameWaitq
  <2> HIDE DEF N
  <2>4. SameWaitq(N, D)
    BY <2>3, LeaveWaitq DEF SameWaitq
  <2> HIDE DEF D
  <2>5. SameWaitq(D, R)
    BY <2>4, LeaveWaitq DEF SameWaitq
  <2> HIDE DEF R
  <2>6. SameWaitq(k, k')
    BY <2>1, <2>2, <2>3, <2>4, <2>5, SwitchLeavesWaitq DEF SameWaitq
  <2> QED
    BY <1>1, <2>6
<1>9. ASSUME tick_entry PROVE QueuesElse
  <2> DEFINE h == <<"tick">> \o k.handlers
             m == [t \in Tasks |-> IF k.tmo[t] = -1 THEN -1 ELSE k.tmo[t] - 1]
  <2>1. k' = [k EXCEPT !.handlers = h, !.tmo = m]
    BY <1>9 DEF tick_entry
  <2> HIDE DEF h, m
  <2>2. SameWaitq(k, k')
    BY <1>0, <2>1 DEF SameWaitq
  <2> QED
    BY <1>1, <2>2
<1>10. ASSUME NEW t \in Tasks, signal_time(t) PROVE QueuesElse
  <2> DEFINE S == [k EXCEPT !.tmo[t] = -1]
             D == wait_dequeue_wobj(S, t)
             B == [S EXCEPT !.wercd[t] = "E_OK"]
             C == [D EXCEPT !.wercd[t] = "E_TMOUT"]
             b == make_non_wait(B, t)
             c == make_non_wait(C, t)
  <2>1. k' \in {RequestIf(b), RequestIf(c)} /\ InTick
    BY <1>10 DEF signal_time, wait_tmout, wait_tmout_ok
  <2>2. SameWaitq(k, S) /\ S.tstat = k.tstat /\ SameWercd(k, S)
    BY <1>0 DEF SameWaitq, SameWercd, KernelInv, Base, Core, KernelState
  <2> HIDE DEF S
  <2>3. "waitq" \in DOMAIN D /\ Leaves(k, D, t) /\ SameWercd(S, D)
    BY <2>2, DequeueLeaves DEF SameWaitq, SameWercd
  <2> HIDE DEF D
  <2>4. /\ SameWaitq(S, B) /\ SameWaitq(D, C) /\ "wercd" \in DOMAIN C
        /\ C.wercd[t] = "E_TMOUT"
    BY <1>0, <2>2, <2>3 DEF SameWaitq, SameWercd
  <2> HIDE DEF B, C
  <2>5. /\ SameWaitq(B, b.st) /\ SameWaitq(C, c.st) /\ SameWercd(C, c.st)
    BY <2>4, LeaveWaitq, LeaveWercd DEF SameWaitq
  <2> HIDE DEF b, c
  <2>6. CASE k' = RequestIf(b)
    BY <1>1, <2>2, <2>4, <2>5, <2>6, SwitchLeavesWaitq DEF SameWaitq
  <2>7. CASE k' = RequestIf(c)
    <3>1. k'.waitq = D.waitq
      BY <2>4, <2>5, <2>7, SwitchLeavesWaitq DEF SameWaitq
    <3>2. k'.wercd[t] = "E_TMOUT"
      BY <2>4, <2>5, <2>7, EndLeavesWercd DEF SameWercd
    <3> QED
      BY <2>1, <2>3, <3>1, <3>2 DEF QueuesElse, Leaves
  <2> QED
    BY <2>1, <2>6, <2>7
<1>11. ASSUME tick_return \/ int_return PROVE QueuesElse
  BY <1>0, <1>1, <1>11, SwitchLeavesWaitq DEF tick_return, int_return
<1>12. ASSUME initialize_task PROVE QueuesElse
  <2> DEFINE t == torder[k.ini]
             M == make_dormant(k, t)
             I == [M EXCEPT !.ini = k.ini + 1]
             A == make_active(I, t).st
  <2>1. SameWaitq(k, M)
    BY <1>0, LeaveWaitq
  <2>4. M.ini = k.ini
    BY <1>0 DEF make_dormant, KernelInv, Base, Core, KernelState
  <2>2. k' = A \/ k' = I
    BY <1>12, <2>4 DEF initialize_task
  <2> HIDE DEF M
  <2>3. SameWaitq(M, I)
    BY <2>1 DEF SameWaitq
  <2> HIDE DEF I
  <2>5. SameWaitq(I, A)
    BY <2>3, LeaveWaitq DEF SameWaitq
  <2> HIDE DEF A
  <2>6. SameWaitq(k, k')
    BY <2>1, <2>2, <2>3, <2>5 DEF SameWaitq
  <2> QED
    BY <1>1, <2>6
<1>13. ASSUME start_dispatch PROVE QueuesElse
  <2> DEFINE D == dispatch(k)
  <2>1. SameWaitq(k, D) /\ k' = [D EXCEPT !.ini = 0]
    BY <1>0, <1>13, SwitchLeavesWaitq DEF start_dispatch
  <2> HIDE DEF D
  <2> QED
    BY <1>1, <2>1 DEF SameWaitq
<1>14. ASSUME int_entry PROVE QueuesElse
  <2> DEFINE h == <<"int">> \o k.handlers
  <2>1. k' = [k EXCEPT !.handlers = h]
    BY <1>14 DEF int_entry, Interrupt
  <2> HIDE DEF h
  <2> QED
    BY <1>0, <1>1, <2>1 DEF SameWaitq
<1>15. ASSUME idle_loop PROVE QueuesElse
  <2> DEFINE S == [k EXCEPT !.reqflg = FALSE]
  <2>1. SameWaitq(k, S) /\ k' = dispatch(S)
    BY <1>0, <1>15 DEF SameWaitq, idle_loop
  <2> HIDE DEF S
  <2>2. SameWaitq(k, k')
    BY <2>1, SwitchLeavesWaitq DEF SameWaitq
  <2> QED
    BY <1>1, <2>2
<1>16. QueuesElse
  BY <1>2, <1>3, <1>4, <1>5, <1>6, <1>7, <1>8, <1>9, <1>10, <1>11, <1>12,
     <1>13, <1>14, <1>15
     DEF TasksElse, HandlersElse, Tick, Kernel
<1>17. SyncNext
  BY DEF TasksElse, HandlersElse, SyncNext, TaskServices, SyncServices,
         SyncHandlerServices
<1> QED
  BY <1>16, <1>17, SyncNextStep DEF Step

LEMMA ElseShrinks ==
  ASSUME KernelInv(k), TasksElse \/ HandlersElse
  PROVE  KernelInv(k') /\ Shrinks(k, k', WaitQueues)
<1>1. KernelInv(k') /\ QueuesElse
  BY ElseQueues
<1> QED
  BY <1>1, LeavesShrinks DEF QueuesElse, Leaves

-----------------------------------------------------------------------------
(* All objects together.                                                   *)

CommInv ==
  /\ KernelInv(k) /\ WinfoOK
  /\ SemsOK /\ DtqsOK /\ FlgsOK /\ MbxsOK /\ PdqsOK /\ MpfsOK

(* Which queues a step may have put tasks in.                              *)
LEMMA OthersStay ==
  ASSUME NEW W, Only(k, k', W)
  PROVE  /\ Sems \cap W = {} => Shrinks(k, k', Sems)
         /\ DtqQueues \cap W = {} => Shrinks(k, k', DtqQueues)
         /\ Flgs \cap W = {} => Shrinks(k, k', Flgs)
         /\ Mbxs \cap W = {} => Shrinks(k, k', Mbxs)
         /\ PdqQueues \cap W = {} => Shrinks(k, k', PdqQueues)
         /\ Mpfs \cap W = {} => Shrinks(k, k', Mpfs)
<1>1. /\ Sems \in SUBSET WaitQueues /\ DtqQueues \in SUBSET WaitQueues
      /\ Flgs \in SUBSET WaitQueues /\ Mbxs \in SUBSET WaitQueues
      /\ PdqQueues \in SUBSET WaitQueues /\ Mpfs \in SUBSET WaitQueues
  BY SemaphoreAssumption, DataQueueAssumption, EventFlagAssumption,
     MailboxAssumption, PriDataQAssumption, MemPFixAssumption
     DEF DtqQueues, PdqQueues
<1> QED
  BY <1>1, OthersShrink

LEMMA MpfvarsStay ==
  ASSUME KernelInv(k), KernelInv(k'), Shrinks(k, k', Mpfs), MpfsOK,
         UNCHANGED mpfvars
  PROVE  MpfsOK'
<1>1. mpf' = mpf /\ relblk' = relblk
  BY DEF mpfvars
<1>2. /\ relblk' = [t \in Tasks |-> relblk'[t]]
      /\ \A t \in Tasks : relblk'[t] = NULL \/ relblk'[t] = relblk[t]
  BY <1>1 DEF MpfsOK, RelsOK
<1> QED
  BY <1>1, <1>2, MpfsStay

(* Whichever way a service of a data queue ends.                           *)
LEMMA DtqKeeps ==
  ASSUME WinfoOK, NEW d, DtqServices(d)
  PROVE  Keeping
<1>1. ASSUME NEW data, \/ send_data(d, data, DispatchIf)
                      \/ send_data(d, data, RequestIf)
                      \/ force_send_data(d, data, DispatchIf)
                      \/ force_send_data(d, data, RequestIf)
      PROVE  Keeping
  BY <1>1, Keeps DEF send_data, force_send_data, send_to_receiver, Buffered
<1>2. ASSUME receive_data(d) PROVE Keeping
  BY <1>2, Keeps DEF receive_data
<1>3. ASSUME NEW data, NEW tmout, \/ tsnd_dtq(d, data, tmout)
                                 \/ trcv_dtq(d, tmout)
      PROVE  Keeping
  BY <1>1, <1>2, <1>3, Keeps DEF tsnd_dtq, trcv_dtq
<1>4. ASSUME NEW data, \/ psnd_dtq(d, data) \/ ipsnd_dtq(d, data)
                      \/ fsnd_dtq(d, data) \/ ifsnd_dtq(d, data)
                      \/ snd_dtq(d, data)
      PROVE  Keeping
  BY <1>1, <1>3, <1>4 DEF psnd_dtq, ipsnd_dtq, fsnd_dtq, ifsnd_dtq, snd_dtq
<1>5. ASSUME rcv_dtq(d) \/ prcv_dtq(d) \/ ini_dtq(d) PROVE Keeping
  BY <1>2, <1>3, <1>5, Keeps DEF rcv_dtq, prcv_dtq, ini_dtq
<1> QED
  BY <1>3, <1>4, <1>5 DEF DtqServices

LEMMA CommStep ==
  ASSUME CommInv, CommNext
  PROVE  CommInv'
<1>0. /\ KernelInv(k) /\ WinfoOK
      /\ SemsOK /\ DtqsOK /\ FlgsOK /\ MbxsOK /\ PdqsOK /\ MpfsOK
  BY DEF CommInv
<1>1. ASSUME NEW s \in Sems, SemServices(s), Nothing,
             UNCHANGED <<dtq, flgptn, mbxvars, pdq, mpfvars>>
      PROVE  CommInv'
  <2> DEFINE W == {s}
  <2>1. KernelInv(k') /\ Only(k, k', W) /\ SemsOK' /\ Keeping
    BY <1>0, <1>1, SemStep, Keeps
  <2>2. /\ DtqQueues \cap W = {} /\ Flgs \cap W = {} /\ Mbxs \cap W = {}
        /\ PdqQueues \cap W = {} /\ Mpfs \cap W = {}
    BY KindsApart
  <2> HIDE DEF W
  <2>3. /\ Shrinks(k, k', DtqQueues) /\ Shrinks(k, k', Flgs)
        /\ Shrinks(k, k', Mbxs) /\ Shrinks(k, k', PdqQueues)
        /\ Shrinks(k, k', Mpfs)
    BY <2>1, <2>2, OthersStay
  <2> QED
    BY <1>0, <1>1, <2>1, <2>3, KeepingFacts, DtqsStay, FlgsStay, MbxsStay,
       PdqsStay, MpfvarsStay DEF CommInv
<1>2. ASSUME NEW d \in Dtqs, DtqServices(d),
             UNCHANGED <<semcnt, flgptn, mbxvars, pdq, mpfvars>>
      PROVE  CommInv'
  <2> DEFINE W == {d, rwait_queue(d)}
  <2>1. KernelInv(k') /\ Only(k, k', W) /\ DtqsOK' /\ Keeping
    BY <1>0, <1>2, DtqStep, DtqKeeps
  <2>2. /\ Sems \cap W = {} /\ Flgs \cap W = {} /\ Mbxs \cap W = {}
        /\ PdqQueues \cap W = {} /\ Mpfs \cap W = {}
    <3>1. W \subseteq DtqQueues
      BY DEF DtqQueues
    <3> HIDE DEF W
    <3> QED
      BY <3>1, KindsApart
  <2> HIDE DEF W
  <2>3. /\ Shrinks(k, k', Sems) /\ Shrinks(k, k', Flgs)
        /\ Shrinks(k, k', Mbxs) /\ Shrinks(k, k', PdqQueues)
        /\ Shrinks(k, k', Mpfs)
    BY <2>1, <2>2, OthersStay
  <2> QED
    BY <1>0, <1>2, <2>1, <2>3, KeepingFacts, SemsStay, FlgsStay, MbxsStay,
       PdqsStay, MpfvarsStay DEF CommInv
<1>3. ASSUME NEW f \in Flgs, FlgServices(f),
             UNCHANGED <<semcnt, dtq, mbxvars, pdq, mpfvars>>
      PROVE  CommInv'
  <2> DEFINE W == {f}
  <2>1. KernelInv(k') /\ Only(k, k', W) /\ FlgsOK' /\ Keeping
    BY <1>0, <1>3, FlgStep
  <2>2. /\ Sems \cap W = {} /\ DtqQueues \cap W = {} /\ Mbxs \cap W = {}
        /\ PdqQueues \cap W = {} /\ Mpfs \cap W = {}
    BY KindsApart
  <2> HIDE DEF W
  <2>3. /\ Shrinks(k, k', Sems) /\ Shrinks(k, k', DtqQueues)
        /\ Shrinks(k, k', Mbxs) /\ Shrinks(k, k', PdqQueues)
        /\ Shrinks(k, k', Mpfs)
    BY <2>1, <2>2, OthersStay
  <2> QED
    BY <1>0, <1>3, <2>1, <2>3, KeepingFacts, SemsStay, DtqsStay, MbxsStay,
       PdqsStay, MpfvarsStay DEF CommInv
<1>4. ASSUME NEW b \in Mbxs, MbxServices(b),
             UNCHANGED <<semcnt, dtq, flgptn, pdq, mpfvars>>
      PROVE  CommInv'
  <2> DEFINE W == {b}
  <2>1. KernelInv(k') /\ Only(k, k', W) /\ MbxsOK' /\ Keeping
    BY <1>0, <1>4, MbxStep
  <2>2. /\ Sems \cap W = {} /\ DtqQueues \cap W = {} /\ Flgs \cap W = {}
        /\ PdqQueues \cap W = {} /\ Mpfs \cap W = {}
    BY KindsApart
  <2> HIDE DEF W
  <2>3. /\ Shrinks(k, k', Sems) /\ Shrinks(k, k', DtqQueues)
        /\ Shrinks(k, k', Flgs) /\ Shrinks(k, k', PdqQueues)
        /\ Shrinks(k, k', Mpfs)
    BY <2>1, <2>2, OthersStay
  <2> QED
    BY <1>0, <1>4, <2>1, <2>3, KeepingFacts, SemsStay, DtqsStay, FlgsStay,
       PdqsStay, MpfvarsStay DEF CommInv
<1>5. ASSUME NEW q \in Pdqs, PdqServices(q),
             UNCHANGED <<semcnt, dtq, flgptn, mbxvars, mpfvars>>
      PROVE  CommInv'
  <2> DEFINE W == {q, rwait_queue_pdq(q)}
  <2>1. KernelInv(k') /\ Only(k, k', W) /\ PdqsOK' /\ Keeping
    BY <1>0, <1>5, PdqStep
  <2>2. /\ Sems \cap W = {} /\ DtqQueues \cap W = {} /\ Flgs \cap W = {}
        /\ Mbxs \cap W = {} /\ Mpfs \cap W = {}
    <3>1. W \subseteq PdqQueues
      BY DEF PdqQueues
    <3> HIDE DEF W
    <3> QED
      BY <3>1, KindsApart
  <2> HIDE DEF W
  <2>3. /\ Shrinks(k, k', Sems) /\ Shrinks(k, k', DtqQueues)
        /\ Shrinks(k, k', Flgs) /\ Shrinks(k, k', Mbxs)
        /\ Shrinks(k, k', Mpfs)
    BY <2>1, <2>2, OthersStay
  <2> QED
    BY <1>0, <1>5, <2>1, <2>3, KeepingFacts, SemsStay, DtqsStay, FlgsStay,
       MbxsStay, MpfvarsStay DEF CommInv
<1>6. ASSUME NEW m \in Mpfs, MpfServices(m),
             UNCHANGED <<semcnt, dtq, flgptn, mbxvars, pdq>>
      PROVE  CommInv'
  <2> DEFINE W == {m}
  <2>1. KernelInv(k') /\ Only(k, k', W) /\ MpfsOK' /\ Keeping
    BY <1>0, <1>6, MpfStep
  <2>2. /\ Sems \cap W = {} /\ DtqQueues \cap W = {} /\ Flgs \cap W = {}
        /\ Mbxs \cap W = {} /\ PdqQueues \cap W = {}
    BY KindsApart
  <2> HIDE DEF W
  <2>3. /\ Shrinks(k, k', Sems) /\ Shrinks(k, k', DtqQueues)
        /\ Shrinks(k, k', Flgs) /\ Shrinks(k, k', Mbxs)
        /\ Shrinks(k, k', PdqQueues)
    BY <2>1, <2>2, OthersStay
  <2> QED
    BY <1>0, <1>6, <2>1, <2>3, KeepingFacts, SemsStay, DtqsStay, FlgsStay,
       MbxsStay, PdqsStay DEF CommInv
<1>7. ASSUME Else PROVE CommInv'
  <2>1. /\ KernelInv(k') /\ Shrinks(k, k', WaitQueues) /\ Keeping
    BY <1>0, <1>7, ElseShrinks, Keeps DEF Else
  <2>2. /\ UNCHANGED semcnt /\ UNCHANGED dtq /\ UNCHANGED flgptn
        /\ UNCHANGED mbxvars /\ UNCHANGED pdq /\ UNCHANGED mpf
    BY <1>7 DEF Else
  <2>3. /\ Shrinks(k, k', Sems) /\ Shrinks(k, k', DtqQueues)
        /\ Shrinks(k, k', Flgs) /\ Shrinks(k, k', Mbxs)
        /\ Shrinks(k, k', PdqQueues) /\ Shrinks(k, k', Mpfs)
    BY <2>1, SemaphoreAssumption, DataQueueAssumption, EventFlagAssumption,
       MailboxAssumption, PriDataQAssumption, MemPFixAssumption
       DEF Shrinks, DtqQueues, PdqQueues
  <2>4. /\ relblk' = [t \in Tasks |-> relblk'[t]]
        /\ \A t \in Tasks : relblk'[t] = NULL \/ relblk'[t] = relblk[t]
    BY <1>7 DEF Else
  <2> QED
    BY <1>0, <2>1, <2>2, <2>3, <2>4, KeepingFacts, SemsStay, DtqsStay,
       FlgsStay, MbxsStay, PdqsStay, MpfsStay DEF CommInv
<1> QED
  BY <1>1, <1>2, <1>3, <1>4, <1>5, <1>6, <1>7 DEF CommNext, Services

LEMMA CommSame ==
  ASSUME CommInv, UNCHANGED vars
  PROVE  CommInv'
<1>1. /\ k' = k /\ winfo' = winfo /\ semcnt' = semcnt /\ dtq' = dtq
      /\ flgptn' = flgptn /\ mbx' = mbx /\ pk_next' = pk_next /\ pdq' = pdq
      /\ mpf' = mpf /\ relblk' = relblk
  BY DEF vars, objects
<1>2. /\ Shrinks(k, k', Sems) /\ Shrinks(k, k', DtqQueues)
      /\ Shrinks(k, k', Mbxs) /\ Shrinks(k, k', PdqQueues)
      /\ Shrinks(k, k', Mpfs)
  BY <1>1 DEF Shrinks
<1>3. FlgsOK'
  BY <1>1 DEF CommInv, FlgsOK, Unsatisfied, Satisfied
<1>4. MbxsOK' /\ MpfsOK'
  BY <1>1, <1>2, MbxsStay, MpfvarsStay DEF CommInv, mbxvars, mpfvars
<1> QED
  BY <1>1, <1>2, <1>3, <1>4, SemsStay, DtqsStay, PdqsStay
     DEF CommInv, WinfoOK

LEMMA CommInitInv == CommInit => CommInv
<1> SUFFICES ASSUME CommInit PROVE CommInv
  OBVIOUS
<1>1. KernelInv(k)
  BY InitInv DEF CommInit
<1>2. WinfoOK
  BY DEF CommInit, WaitObjectInit, WinfoOK, Nobody
<1>3. \A w \in WaitQueues : queue_empty(k.waitq[w]) /\ \A t : ~Linked(k.waitq[w], t)
  <2>1. \A w \in WaitQueues : k.waitq[w] = <<>>
    BY DEF CommInit, Init, KernelInit
  <2> QED
    BY <2>1 DEF queue_empty, Linked
<1>4. SemsOK
  BY <1>3, SemaphoreAssumption DEF CommInit, initialize_semaphore, SemsOK, SemOK
<1>5. DtqsOK
  <2>1. ASSUME NEW d \in Dtqs PROVE DtqAt(d)
    <3> DEFINE n == dtqcnt[d]
               z == [i \in 0 .. n - 1 |-> NULL]
    <3>1. /\ n \in Nat /\ queue_empty(k.waitq[d])
          /\ queue_empty(k.waitq[rwait_queue(d)])
      BY <1>3, DataQueueAssumption
    <3>2. dtq[d] = [mb |-> z, head |-> 0, tail |-> 0, count |-> 0]
      BY DEF CommInit, initialize_dataqueue
    <3> HIDE DEF n, z
    <3>3. Ring(dtq[d], n)
      BY <3>1, <3>2 DEF Ring
    <3> QED
      BY <3>1, <3>3 DEF DtqAt, n
  <2>2. dtq = [d \in Dtqs |-> dtq[d]]
    BY DEF CommInit, initialize_dataqueue
  <2> QED
    BY <2>1, <2>2 DEF DtqsOK
<1>6. FlgsOK
  BY <1>3, EventFlagAssumption DEF CommInit, initialize_eventflag, FlgsOK
<1>7. MbxsOK
  <2>1. /\ mbx = [b \in Mbxs |-> mbx[b]]
        /\ pk_next = [m \in Msgs |-> pk_next[m]]
        /\ \A b \in Mbxs : mbx[b] = [pk_head |-> NULL, pk_last |-> NULL]
    BY DEF CommInit, initialize_mailbox
  <2>2. ASSUME NEW b \in Mbxs
        PROVE  MbxAt(b) /\ \A m : ~Linked(Mail(b), m)
    <3> DEFINE c == <<>>
               head == mbx[b].pk_head
    <3>1. head = NULL /\ c = <<>>
      BY <2>1
    <3> HIDE DEF c, head
    <3>2. IsList(c, head, pk_next, Msgs)
      BY <3>1, EmptyList
    <3>3. Mail(b) = c
      BY <3>2, MessagesIs DEF Mail, head
    <3>4. \A m : ~Linked(c, m)
      BY <3>1 DEF Linked
    <3> QED
      BY <1>3, <2>1, <3>1, <3>2, <3>3, <3>4, MailboxAssumption DEF MbxAt, head
  <2> QED
    BY <2>1, <2>2 DEF MbxsOK
<1>8. PdqsOK
  <2>1. ASSUME NEW q \in Pdqs PROVE PdqAt(q)
    <3>1. pdq[q] = EmptyPdq(q)
      BY DEF CommInit, initialize_pridataq
    <3>2. queue_empty(k.waitq[q]) /\ queue_empty(k.waitq[rwait_queue_pdq(q)])
      BY <1>3, PriDataQAssumption
    <3> QED
      BY <3>1, <3>2, EmptyArea DEF PdqAt
  <2>2. pdq = [q \in Pdqs |-> pdq[q]]
    BY DEF CommInit, initialize_pridataq
  <2> QED
    BY <2>1, <2>2 DEF PdqsOK
<1>9. MpfsOK
  <2>1. ASSUME NEW m \in Mpfs PROVE MpfAt(m)
    <3> DEFINE n == blkcnt[m]
               next == [i \in 0 .. n - 1 |-> INDEX_NULL]
    <3>1. n \in Nat /\ queue_empty(k.waitq[m])
      BY <1>3, MemPFixAssumption
    <3>2. mpf[m] = [fblkcnt |-> n, unused |-> 0, freelist |-> INDEX_NULL,
                    next |-> next]
      BY DEF CommInit, initialize_mempfix
    <3>3. next \in [0 .. n - 1 -> (0 .. n - 1) \cup {INDEX_NULL, INDEX_ALLOC}]
      OBVIOUS
    <3> HIDE DEF n, next
    <3>4. PoolOK(mpf[m], n)
      BY <3>1, <3>2, <3>3, PoolEmpty
    <3> QED
      BY <3>1, <3>4 DEF MpfAt, n
  <2>2. mpf = [m \in Mpfs |-> mpf[m]] /\ relblk = [t \in Tasks |-> NULL]
    BY DEF CommInit, initialize_mempfix
  <2>3. RelsOK
    BY <2>2, MemPFixAssumption DEF RelsOK
  <2> QED
    BY <2>1, <2>2, <2>3 DEF MpfsOK
<1> QED
  BY <1>1, <1>2, <1>4, <1>5, <1>6, <1>7, <1>8, <1>9 DEF CommInv

LEMMA CommAlways == CommSpec => []CommInv
<1>1. CommInv /\ [CommNext]_vars => CommInv'
  BY CommStep, CommSame
<1> QED
  BY CommInitInv, <1>1, PTL DEF CommSpec

-----------------------------------------------------------------------------
(* The kernel keeps its promises whatever the objects do: no dispatch is   *)
(* forgotten (task.c, interrupt.c; the DispatchIf and RequestIf that end   *)
(* the services of semaphore.c to mempfix.c).                              *)
THEOREM CommDispatchOK == CommSpec => []DispatchOK
<1>1. CommInv => DispatchOK
  BY InvImplies DEF CommInv
<1> QED
  BY CommAlways, <1>1, PTL

(* A task is linked in the queue of the object it waits for and in no      *)
(* other, in the order of the queue, however its wait began and ends       *)
(* (wait.c, semaphore.c to mempfix.c).                                     *)
THEOREM CommWaitLinksOK == CommSpec => []WaitLinksOK
<1>1. CommInv => WaitLinksOK
  BY InvLinks DEF CommInv
<1> QED
  BY CommAlways, <1>1, PTL

(* No task waits for what is there, for any number of tasks, objects,      *)
(* blocks and messages (semaphore.c to mempfix.c).                         *)
THEOREM CommNoVainWait == CommSpec => []NoVainWait
<1>1. CommInv => NoVainWait
  <2> SUFFICES ASSUME CommInv PROVE NoVainWait
    OBVIOUS
  <2>1. \A s \in Sems : ~queue_empty(k.waitq[s]) => semcnt[s] = 0
    BY DEF CommInv, SemsOK, SemOK
  <2>2. \A d \in Dtqs :
          /\ ~queue_empty(k.waitq[d]) => dtq[d].count = dtqcnt[d]
          /\ ~queue_empty(k.waitq[rwait_queue(d)]) =>
               dtq[d].count = 0 /\ queue_empty(k.waitq[d])
    BY DEF CommInv, DtqsOK, DtqAt
  <2>3. \A f \in Flgs : \A i \in DOMAIN k.waitq[f] :
          ~Satisfied(flgptn[f], k.waitq[f][i])
    BY DEF CommInv, FlgsOK, Unsatisfied, Linked
  <2>4. \A b \in Mbxs : ~queue_empty(k.waitq[b]) => mbx[b].pk_head = NULL
    BY DEF CommInv, MbxsOK, MbxAt
  <2>5. \A q \in Pdqs :
          /\ ~queue_empty(k.waitq[q]) => pdq[q].count = pdqcnt[q]
          /\ ~queue_empty(k.waitq[rwait_queue_pdq(q)]) =>
               pdq[q].count = 0 /\ queue_empty(k.waitq[q])
    BY DEF CommInv, PdqsOK, PdqAt
  <2>6. \A m \in Mpfs : ~queue_empty(k.waitq[m]) => mpf[m].fblkcnt = 0
    BY DEF CommInv, MpfsOK, MpfAt
  <2> QED
    BY <2>1, <2>2, <2>3, <2>4, <2>5, <2>6 DEF NoVainWait
<1> QED
  BY CommAlways, <1>1, PTL

LEMMA RingIs ==
  ASSUME NEW d \in Dtqs, Ring(dtq[d], dtqcnt[d])
  PROVE  DtqOK(d)
<1> DEFINE n == dtqcnt[d]
           h == dtq[d].head
           c == dtq[d].count
<1>1. n \in Nat /\ h \in Nat /\ c \in 0 .. n
  BY DataQueueAssumption DEF Ring
<1>2. n > 0 => /\ h < n
               /\ dtq[d].tail = IF h + c < n THEN h + c ELSE h + c - n
  BY DEF Ring
<1>3. DtqOK(d) <=> /\ c \in 0 .. n
                   /\ n > 0 => dtq[d].tail = (h + c) % n
  BY DEF DtqOK
<1> HIDE DEF n, h, c
<1>4. n > 0 => (h + c) % n = IF h + c < n THEN h + c ELSE h + c - n
  BY <1>1, <1>2
<1> QED
  BY <1>1, <1>2, <1>3, <1>4

LEMMA MailIs ==
  ASSUME NEW b \in Mbxs, MbxAt(b)
  PROVE  MbxOK(b)
<1> DEFINE c == Messages(mbx[b].pk_head, pk_next)
<1>1. c = Mail(b)
  BY DEF Mail
<1>2. /\ IsList(c, mbx[b].pk_head, pk_next, Msgs)
      /\ b \notin TA_MPRI /\ c # <<>> => mbx[b].pk_last = c[Len(c)]
  BY <1>1 DEF MbxAt
<1>3. MbxOK(b) <=> /\ Unique(c)
                   /\ c # <<>> =>
                        /\ pk_next[c[Len(c)]] = NULL
                        /\ b \notin TA_MPRI => mbx[b].pk_last = c[Len(c)]
  BY DEF MbxOK, Last
<1> HIDE DEF c
<1>4. /\ Unique(c) /\ Len(c) \in Nat /\ (c = <<>> <=> Len(c) = 0)
      /\ \A i \in 1 .. Len(c) :
           pk_next[c[i]] = IF i = Len(c) THEN NULL ELSE c[i + 1]
  BY <1>2, ListFacts
<1> QED
  BY <1>2, <1>3, <1>4

(* Two lists without a common member, one behind the other.                *)
LEMMA BothLists ==
  ASSUME NEW D, NEW c \in Seq(D), NEW f \in Seq(D), Unique(c), Unique(f),
         \A i : ~(Linked(c, i) /\ Linked(f, i)),
         NEW g, g = c \o f
  PROVE  /\ Unique(g)
         /\ \A i : i \in ToSet(g) <=> Linked(c, i) \/ Linked(f, i)
<1> DEFINE m == Len(c)
           n == Len(f)
<1>1. /\ m \in Nat /\ n \in Nat /\ Len(g) = m + n /\ DOMAIN g = 1 .. m + n
      /\ DOMAIN c = 1 .. m /\ DOMAIN f = 1 .. n
      /\ \A i \in 1 .. m + n : g[i] = IF i <= m THEN c[i] ELSE f[i - m]
  BY ConcatProperties, LenProperties
<1>2. /\ \A i \in 1 .. m : Linked(c, c[i])
      /\ \A i \in 1 .. n : Linked(f, f[i])
      /\ \A i, j \in 1 .. m : c[i] = c[j] => i = j
      /\ \A i, j \in 1 .. n : f[i] = f[j] => i = j
  BY <1>1 DEF Linked, Unique
<1>3. \A i \in m + 1 .. m + n : i - m \in 1 .. n
  BY <1>1
<1> HIDE DEF m, n
<1>4. Unique(g)
  <2>1. ASSUME NEW i \in 1 .. m + n, NEW j \in 1 .. m + n, g[i] = g[j]
        PROVE  i = j
    <3>1. CASE i <= m /\ j <= m
      BY <1>1, <1>2, <2>1, <3>1
    <3>2. CASE i > m /\ j > m
      <4>1. f[i - m] = f[j - m] /\ i - m \in 1 .. n /\ j - m \in 1 .. n
        BY <1>1, <2>1, <3>2
      <4>2. i - m = j - m
        BY <1>2, <4>1
      <4> QED
        BY <1>1, <4>2
    <3>3. CASE i <= m /\ j > m
      <4>1. c[i] = f[j - m] /\ i \in 1 .. m /\ j - m \in 1 .. n
        BY <1>1, <2>1, <3>3
      <4> QED
        BY <1>2, <4>1
    <3>4. CASE i > m /\ j <= m
      <4>1. c[j] = f[i - m] /\ j \in 1 .. m /\ i - m \in 1 .. n
        BY <1>1, <2>1, <3>4
      <4> QED
        BY <1>2, <4>1
    <3> QED
      BY <1>1, <3>1, <3>2, <3>3, <3>4
  <2> QED
    BY <1>1, <2>1 DEF Unique
<1>5. ASSUME NEW i
      PROVE  i \in ToSet(g) <=> Linked(c, i) \/ Linked(f, i)
  <2>1. i \in ToSet(g) <=> \E j \in 1 .. m + n : g[j] = i
    BY <1>1 DEF ToSet
  <2>2. ASSUME NEW j \in 1 .. m, c[j] = i PROVE \E l \in 1 .. m + n : g[l] = i
    <3>1. j \in 1 .. m + n /\ g[j] = i
      BY <1>1, <2>2
    <3> QED
      BY <3>1
  <2>3. ASSUME NEW j \in 1 .. n, f[j] = i PROVE \E l \in 1 .. m + n : g[l] = i
    <3>1. m + j \in 1 .. m + n /\ ~(m + j <= m) /\ m + j - m = j
      BY <1>1
    <3>2. g[m + j] = f[m + j - m]
      BY <1>1, <3>1
    <3> QED
      BY <2>3, <3>1, <3>2
  <2>4. ASSUME NEW j \in 1 .. m + n, g[j] = i
        PROVE  Linked(c, i) \/ Linked(f, i)
    <3>1. CASE j <= m
      BY <1>1, <1>2, <2>4, <3>1
    <3>2. CASE j > m
      BY <1>1, <1>2, <1>3, <2>4, <3>2
    <3> QED
      BY <1>1, <3>1, <3>2
  <2>5. /\ Linked(c, i) <=> \E j \in 1 .. m : c[j] = i
        /\ Linked(f, i) <=> \E j \in 1 .. n : f[j] = i
    BY <1>1 DEF Linked
  <2> QED
    BY <2>1, <2>2, <2>3, <2>4, <2>5
<1> QED
  BY <1>4, <1>5

LEMMA AreaIs ==
  ASSUME NEW q \in Pdqs, AreaOK(pdq[q], pdqcnt[q])
  PROVE  PdqOK(q)
<1> DEFINE n == pdqcnt[q]
           Q == pdq[q]
           B == 0 .. n - 1
           g == Blocks(Q) \o FreeBlocks(Q)
<1>1. n \in Nat /\ NULL \notin 0 .. n - 1
  BY PriDataQAssumption
<1>2. PICK c, f, mb, count, head, un, free :
        /\ Q = [mb |-> mb, count |-> count, p_head |-> head, unused |-> un,
                p_freelist |-> free]
        /\ Area(n, c, f, mb, count, head, un, free)
  BY DEF AreaOK
<1>3. PdqOK(q) <=> /\ Unique(g) /\ ToSet(g) = 0 .. Q.unused - 1
                   /\ Q.count = Len(Blocks(Q)) /\ Q.count <= n
  BY DEF PdqOK
<1> HIDE DEF n, Q
<1>4. Blocks(Q) = c /\ FreeBlocks(Q) = f
  BY <1>1, <1>2, BlocksAre
<1>5. Q.unused = un /\ Q.count = count
  BY <1>2
<1>6. count = Len(c) /\ count <= n /\ un \in 0 .. n
  BY <1>1, <1>2, AreaFacts
<1>7. /\ IsList(c, head, Nexts(mb), B) /\ IsList(f, free, Nexts(mb), B)
      /\ \A i : ~(Linked(c, i) /\ Linked(f, i))
      /\ \A i \in B : i < un <=> Linked(c, i) \/ Linked(f, i)
  BY <1>2 DEF Area
<1>8. /\ c \in Seq(B) /\ Unique(c) /\ f \in Seq(B) /\ Unique(f)
      /\ \A i : Linked(c, i) \/ Linked(f, i) => i \in B
  <2> HIDE DEF B
  <2> QED
    BY <1>7, ListFacts, QueueLinked
<1>9. Unique(g) /\ \A i : i \in ToSet(g) <=> Linked(c, i) \/ Linked(f, i)
  <2>1. g = c \o f
    BY <1>4
  <2> HIDE DEF B, g
  <2> QED
    BY <1>7, <1>8, <2>1, BothLists
<1> HIDE DEF g
<1>10. \A i : i \in ToSet(g) <=> i \in 0 .. un - 1
  BY <1>1, <1>6, <1>7, <1>8, <1>9
<1>11. ToSet(g) = 0 .. un - 1
  BY <1>10
<1> QED
  BY <1>3, <1>4, <1>5, <1>6, <1>9, <1>11

LEMMA PoolIs ==
  ASSUME NEW m \in Mpfs, PoolOK(mpf[m], blkcnt[m]), RelsOK
  PROVE  MpfOK(m)
<1> DEFINE n == blkcnt[m]
           P == mpf[m]
           B == 0 .. n - 1
           N == [i \in DOMAIN P.next |->
                   IF P.next[i] = INDEX_NULL THEN NULL ELSE P.next[i]]
           head == IF P.freelist = INDEX_NULL THEN NULL ELSE P.freelist
           g == Chain(head, N, n)
           A == {i \in 0 .. P.unused - 1 : P.next[i] # INDEX_ALLOC}
           Rels == \A t \in Tasks, blk \in 0 .. n - 1 :
                     relblk[t] = <<m, blk>> =>
                       blk < P.unused /\ P.next[blk] = INDEX_ALLOC
<1>1. n \in Nat /\ NULL \notin B
  BY MemPFixAssumption
<1>2. Rels
  BY DEF RelsOK
<1>3. MpfOK(m) <=> Unique(g) /\ ToSet(g) = A /\ P.fblkcnt = Len(g) + n - P.unused
                   /\ Rels
  BY DEF MpfOK
<1> HIDE DEF Rels
<1>4. PICK f, free, un, list, next :
        /\ P = [fblkcnt |-> free, unused |-> un, freelist |-> list, next |-> next]
        /\ Pool(n, f, free, un, list, next)
  BY DEF PoolOK
<1>5. /\ next \in [B -> B \cup {INDEX_NULL, INDEX_ALLOC}]
      /\ IsList(f, Link(list), Links(next), B)
      /\ \A i \in B : Linked(f, i) <=> i < un /\ next[i] # INDEX_ALLOC
      /\ un \in 0 .. n /\ free = Len(f) + n - un
  BY <1>4 DEF Pool
<1> HIDE DEF P
<1>6. /\ P.fblkcnt = free /\ P.unused = un /\ P.freelist = list /\ P.next = next
  BY <1>4
<1>7. N = Links(next) /\ head = Link(list)
  BY <1>6 DEF Links, Link
<1> HIDE DEF N, head, n
<1>8. IsFiniteSet(B) /\ Cardinality(B) = n
  BY <1>1, FS_Interval
<1>9. IsList(f, head, N, B)
  BY <1>5, <1>7
<1> HIDE DEF B
<1>10. f \in Seq(B) /\ Unique(f) /\ DOMAIN f = 1 .. Len(f)
  BY <1>9, ListFacts
<1>11. Len(f) <= n
  BY <1>8, <1>10, ListLength
<1>12. g = f
  BY <1>1, <1>9, <1>11, ChainIs
<1> HIDE DEF g
<1>13. \A i : i \in ToSet(f) <=> Linked(f, i)
  BY DEF ToSet, Linked
<1>14. \A i : i \in ToSet(f) <=> i \in A
  <2>1. \A i : Linked(f, i) => i \in B
    BY <1>10, QueueLinked
  <2>2. \A i : i \in A <=> i \in 0 .. un - 1 /\ next[i] # INDEX_ALLOC
    BY <1>6
  <2>3. \A i : i \in 0 .. un - 1 <=> i \in B /\ i < un
    BY <1>1, <1>5 DEF B
  <2> QED
    BY <1>5, <1>13, <2>1, <2>2, <2>3
<1> HIDE DEF A
<1>15. ToSet(f) = A
  BY <1>14
<1> QED
  BY <1>2, <1>3, <1>5, <1>6, <1>10, <1>12, <1>15

(* The management areas stay consistent through every sequence of calls:   *)
(* the ring of a data queue, the list of a mailbox, the blocks of a        *)
(* priority data queue and of a memory pool, none lost or in use twice,    *)
(* for any capacities and any number of objects (semaphore.c to mempfix.c).*)
THEOREM CommAreasOK == CommSpec => []AreasOK
<1>1. CommInv => AreasOK
  <2> SUFFICES ASSUME CommInv PROVE AreasOK
    OBVIOUS
  <2>1. \A s \in Sems : semcnt[s] \in 0 .. maxsem[s]
    BY DEF CommInv, SemsOK, SemOK
  <2>2. \A d \in Dtqs : DtqOK(d)
    BY RingIs DEF CommInv, DtqsOK, DtqAt
  <2>3. \A b \in Mbxs : MbxOK(b)
    BY MailIs DEF CommInv, MbxsOK
  <2>4. \A q \in Pdqs : PdqOK(q)
    BY AreaIs DEF CommInv, PdqsOK, PdqAt
  <2>5. \A m \in Mpfs : MpfOK(m)
    BY PoolIs DEF CommInv, MpfsOK, MpfAt
  <2> QED
    BY <2>1, <2>2, <2>3, <2>4, <2>5 DEF AreasOK
<1> QED
  BY CommAlways, <1>1, PTL

-----------------------------------------------------------------------------
(* What steps do to the queues of semaphores and event flags.              *)

LEMMA QueueSteps ==
  ASSUME CommInv, CommNext
  PROVE  /\ \A s \in Sems :
              SemServices(s) \/ QueuesElse \/ k'.waitq[s] = k.waitq[s]
         /\ \A f \in Flgs :
              FlgServices(f) \/ QueuesElse \/ k'.waitq[f] = k.waitq[f]
<1> DEFINE Goal == /\ \A s \in Sems : \/ SemServices(s) \/ QueuesElse
                                      \/ k'.waitq[s] = k.waitq[s]
                   /\ \A f \in Flgs : \/ FlgServices(f) \/ QueuesElse
                                      \/ k'.waitq[f] = k.waitq[f]
<1>0. /\ KernelInv(k) /\ WinfoOK
      /\ SemsOK /\ DtqsOK /\ FlgsOK /\ MbxsOK /\ PdqsOK /\ MpfsOK
      /\ Sems \subseteq WaitQueues /\ Flgs \subseteq WaitQueues
  BY SemaphoreAssumption, EventFlagAssumption DEF CommInv
<1>1. ASSUME NEW W, Only(k, k', W), Sems \cap W = {}, Flgs \cap W = {}
      PROVE  Goal
  BY <1>0, <1>1 DEF Only
<1>2. ASSUME NEW s \in Sems, SemServices(s) PROVE Goal
  <2>1. Only(k, k', {s})
    BY <1>0, <1>2, SemStep
  <2> QED
    BY <1>0, <1>2, <2>1, KindsApart DEF Only
<1>3. ASSUME NEW d \in Dtqs, DtqServices(d) PROVE Goal
  <2> DEFINE W == {d, rwait_queue(d)}
  <2>1. Only(k, k', W)
    BY <1>0, <1>3, DtqStep
  <2>2. W \subseteq DtqQueues
    BY DEF DtqQueues
  <2> HIDE DEF W
  <2>3. Sems \cap W = {} /\ Flgs \cap W = {}
    BY <2>2, KindsApart
  <2> HIDE DEF Goal
  <2> QED
    BY <1>1, <2>1, <2>3
<1>4. ASSUME NEW f \in Flgs, FlgServices(f) PROVE Goal
  <2>1. Only(k, k', {f})
    BY <1>0, <1>4, FlgStep
  <2> QED
    BY <1>0, <1>4, <2>1, KindsApart DEF Only
<1>5. ASSUME NEW b \in Mbxs, MbxServices(b) PROVE Goal
  <2> DEFINE W == {b}
  <2>1. Only(k, k', W)
    BY <1>0, <1>5, MbxStep
  <2>2. Sems \cap W = {} /\ Flgs \cap W = {}
    BY KindsApart
  <2> HIDE DEF W, Goal
  <2> QED
    BY <1>1, <2>1, <2>2
<1>6. ASSUME NEW q \in Pdqs, PdqServices(q) PROVE Goal
  <2> DEFINE W == {q, rwait_queue_pdq(q)}
  <2>1. Only(k, k', W)
    BY <1>0, <1>6, PdqStep
  <2>2. W \subseteq PdqQueues
    BY DEF PdqQueues
  <2> HIDE DEF W
  <2>3. Sems \cap W = {} /\ Flgs \cap W = {}
    BY <2>2, KindsApart
  <2> HIDE DEF Goal
  <2> QED
    BY <1>1, <2>1, <2>3
<1>7. ASSUME NEW m \in Mpfs, MpfServices(m) PROVE Goal
  <2> DEFINE W == {m}
  <2>1. Only(k, k', W)
    BY <1>0, <1>7, MpfStep
  <2>2. Sems \cap W = {} /\ Flgs \cap W = {}
    BY KindsApart
  <2> HIDE DEF W, Goal
  <2> QED
    BY <1>1, <2>1, <2>2
<1>8. ASSUME Else PROVE Goal
  BY <1>0, <1>8, ElseQueues DEF Else
<1> HIDE DEF Goal
<1>9. Goal
  BY <1>2, <1>3, <1>4, <1>5, <1>6, <1>7, <1>8 DEF CommNext, Services
<1> QED
  BY <1>9 DEF Goal

(* The first task is served, all are released, or one comes.               *)
LEMMA SemQueue ==
  ASSUME KernelInv(k), NEW s \in Sems, SemServices(s)
  PROVE  \/ k'.waitq[s] = k.waitq[s]
         \/ /\ Signals(s) /\ UNCHANGED semcnt
            /\ ~queue_empty(k.waitq[s]) /\ Ends(k', CompleteFirst(k, s))
         \/ ini_sem(s)
         \/ Placed(k.waitq[s], k.runtsk, s, k.priority, k'.waitq[s])
<1>1. CASE sig_sem(s) \/ isig_sem(s)
  BY <1>1 DEF sig_sem, isig_sem, signal, Signals, CompleteFirst, Ends
<1>2. CASE Take(s)
  BY <1>2 DEF Take
<1>3. ASSUME NEW tmout \in Nat \cup {TMO_FEVR}, CanDispatch,
             \/ k' = dispatch(wobj_make_wait(k, "WAIT_SEM", s))
             \/ k' = dispatch(wobj_make_wait_tmout(k, "WAIT_SEM", s, tmout))
      PROVE  Placed(k.waitq[s], k.runtsk, s, k.priority, k'.waitq[s])
  <2>1. MayQueue(s, "WAIT_SEM")
    BY SemaphoreAssumption DEF MayQueue, TS_WAIT_WOBJ, TS_WAIT_WOBJCB
  <2> QED
    BY <1>3, <2>1, PutInPlace
<1>4. CASE wai_sem(s) \/ pol_sem(s)
  BY <1>2, <1>3, <1>4 DEF wai_sem, pol_sem, TMO_FEVR
<1>5. ASSUME NEW tmout \in Timeout \cup {TMO_POL}, twai_sem(s, tmout)
      PROVE  \/ k'.waitq[s] = k.waitq[s]
             \/ Placed(k.waitq[s], k.runtsk, s, k.priority, k'.waitq[s])
  <2>1. tmout \in Nat
    BY TaskSyncAssumption DEF Timeout, TMO_POL
  <2>2. CASE Take(s)
    BY <2>2 DEF Take
  <2>3. CASE ~Take(s)
    <3>1. CanDispatch /\ k' = dispatch(wobj_make_wait_tmout(k, "WAIT_SEM", s, tmout))
      BY <1>5, <2>3 DEF twai_sem
    <3> QED
      BY <1>3, <2>1, <3>1
  <2> QED
    BY <2>2, <2>3
<1> QED
  BY <1>1, <1>4, <1>5 DEF SemServices

(* ini_sem empties the queue.                                              *)
LEMMA IniSem ==
  ASSUME KernelInv(k), NEW s \in Sems, ini_sem(s)
  PROVE  /\ \A t : ~Linked(k'.waitq[s], t)
         /\ \A t \in Tasks : Linked(k.waitq[s], t) => k'.wercd[t] = "E_DLT"
<1> DEFINE q == <<>>
<1>1. s \in WaitQueues /\ k.waitq \in [WaitQueues -> Seq(Tasks)]
  BY SemaphoreAssumption, NobodyWaits
<1>2. TskCtxUnl /\ k' = DispatchIf(init_wait_queue(k, s))
  BY DEF ini_sem
<1>3. q = <<>>
  OBVIOUS
<1> HIDE DEF q
<1>4. k'.waitq = [k.waitq EXCEPT ![s] = q]
  BY <1>1, <1>2, <1>3, AllReleased
<1>5. k'.waitq[s] = q
  BY <1>1, <1>4
<1> QED
  BY <1>1, <1>2, <1>3, <1>5, AllGetDeleted DEF Linked

(* A signal takes the first task out.                                      *)
LEMMA SignalTakes ==
  ASSUME KernelInv(k), NEW s \in WaitQueues, ~queue_empty(k.waitq[s]),
         Ends(k', CompleteFirst(k, s)), NEW h, h = Head(k.waitq[s])
  PROVE  /\ h \in Tasks /\ Linked(k.waitq[s], h) /\ k'.wercd[h] = "E_OK"
         /\ k'.waitq[s] \in Seq(Tasks) /\ k.waitq[s] \in Seq(Tasks)
         /\ 1 \in 1 .. Len(k.waitq[s]) /\ k.waitq[s][1] = h
         /\ Without(k.waitq[s], 1, k'.waitq[s])
         /\ \A t : Linked(k'.waitq[s], t) <=> Linked(k.waitq[s], t) /\ t # h
<1> DEFINE q == queue_delete_next(k.waitq[s])
<1>1. /\ k.waitq \in [WaitQueues -> Seq(Tasks)]
      /\ QueueOK(k.waitq[s], s, k.priority)
  BY DEF KernelInv, Base, Core, KernelState, Waits, QueuedOK
<1>2. k'.waitq = [k.waitq EXCEPT ![s] = q]
  BY FirstServed
<1>3. k'.waitq[s] = q
  BY <1>1, <1>2
<1>4. h \in Tasks /\ Linked(k.waitq[s], h) /\ k'.wercd[h] = "E_OK"
  BY FirstGetsOK
<1>5. k.waitq[s] \in Seq(Tasks) /\ Unique(k.waitq[s]) /\ k.waitq[s] # <<>>
  BY <1>1 DEF QueueOK, queue_empty
<1>6. /\ q \in Seq(Tasks) /\ 1 \in 1 .. Len(k.waitq[s]) /\ k.waitq[s][1] = h
      /\ Without(k.waitq[s], 1, q)
  BY <1>5, DeleteFirst
<1> HIDE DEF q
<1>7. \A y : Linked(q, y) <=> Linked(k.waitq[s], y) /\ y # h
  BY <1>5, <1>6, WithoutUnique
<1> QED
  BY <1>3, <1>4, <1>5, <1>6, <1>7

(* Who leaves a queue otherwise: one task, and not with E_OK or E_DLT.     *)
LEMMA ElseLeaves ==
  ASSUME KernelInv(k), QueuesElse, NEW w \in WaitQueues, NEW t,
         Linked(k.waitq[w], t), ~Linked(k'.waitq[w], t)
  PROVE  \/ k'.wercd[t] \in {"none", "E_RLWAI"}
         \/ k'.wercd[t] = "E_TMOUT" /\ InTick
<1>1. /\ k.waitq \in [WaitQueues -> Seq(Tasks)]
      /\ \A v \in WaitQueues : Unique(k.waitq[v])
  BY DEF KernelInv, Base, Core, KernelState, Waits, QueuedOK, QueueOK
<1>2. ASSUME NEW v \in WaitQueues, NEW p \in 1 .. Len(k.waitq[v]),
             NEW q \in Seq(Tasks), Without(k.waitq[v], p, q)
      PROVE  \A y : Linked(q, y) <=> Linked(k.waitq[v], y) /\ y # k.waitq[v][p]
  <2>1. k.waitq[v] \in Seq(Tasks)
    BY <1>1
  <2> QED
    BY <1>1, <1>2, <2>1, WithoutUnique
<1>3. ASSUME NEW u \in Tasks, Leaves(k, k', u)
      PROVE  t = u
  <2>1. k'.waitq # k.waitq
    OBVIOUS
  <2>2. PICK v \in WaitQueues, q \in Seq(Tasks) : \E p \in 1 .. Len(k.waitq[v]) :
          /\ k.waitq[v][p] = u /\ Without(k.waitq[v], p, q)
          /\ k'.waitq = [k.waitq EXCEPT ![v] = q]
    BY <1>3, <2>1 DEF Leaves
  <2>3. \A y : Linked(q, y) <=> Linked(k.waitq[v], y) /\ y # u
    BY <1>2, <2>2
  <2> QED
    BY <1>1, <2>2, <2>3
<1>4. ASSUME NEW u \in Tasks, Moves(k, k', u)
      PROVE  FALSE
  <2>1. k'.waitq # k.waitq
    OBVIOUS
  <2>2. PICK v \in TA_TPRI, d \in Seq(Tasks), q \in Seq(Tasks) :
        \E p \in 1 .. Len(k.waitq[v]), n \in 1 .. Len(d) + 1 :
          /\ k.waitq[v][p] = u /\ Without(k.waitq[v], p, d) /\ With(d, n, u, q)
          /\ k'.waitq = [k.waitq EXCEPT ![v] = q]
    BY <1>4, <2>1 DEF Moves
  <2>3. PICK p \in 1 .. Len(k.waitq[v]), n \in 1 .. Len(d) + 1 :
          /\ k.waitq[v][p] = u /\ Without(k.waitq[v], p, d) /\ With(d, n, u, q)
          /\ k'.waitq = [k.waitq EXCEPT ![v] = q]
    BY <2>2
  <2>4. v \in WaitQueues /\ k.waitq[v] \in Seq(Tasks)
    BY <1>1, WaitAssumption
  <2>5. Unique(d) /\ \A y : Linked(d, y) <=> Linked(k.waitq[v], y) /\ y # u
    BY <1>1, <2>3, <2>4, WithoutUnique
  <2>6. \A y : Linked(q, y) <=> Linked(d, y) \/ y = u
    BY <2>3, <2>5, WithUnique
  <2>7. \A y : Linked(k.waitq[v], y) => Linked(q, y)
    BY <2>5, <2>6
  <2> QED
    BY <1>1, <2>3, <2>4, <2>7
<1> QED
  BY <1>3, <1>4 DEF QueuesElse

(* How a task stops to wait for a semaphore.                               *)
LEMMA SemLeft ==
  ASSUME CommInv, CommNext, NEW s \in Sems, NEW t \in Tasks,
         Linked(k.waitq[s], t), ~Linked(k'.waitq[s], t)
  PROVE  \/ ini_sem(s) /\ k'.wercd[t] = "E_DLT"
         \/ /\ ~ini_sem(s)
            /\ \/ /\ t = Head(k.waitq[s]) /\ k'.wercd[t] = "E_OK"
                  /\ Signals(s) /\ UNCHANGED semcnt
               \/ k'.wercd[t] \in {"none", "E_RLWAI"}
               \/ k'.wercd[t] = "E_TMOUT" /\ InTick
<1>0. KernelInv(k) /\ s \in WaitQueues /\ k.waitq \in [WaitQueues -> Seq(Tasks)]
  BY SemaphoreAssumption, NobodyWaits DEF CommInv
<1>1. CASE ini_sem(s)
  BY <1>0, <1>1, IniSem
<1>2. ASSUME ~ini_sem(s), SemServices(s)
      PROVE  /\ t = Head(k.waitq[s]) /\ k'.wercd[t] = "E_OK"
             /\ Signals(s) /\ UNCHANGED semcnt
  <2>1. CASE /\ Signals(s) /\ UNCHANGED semcnt
             /\ ~queue_empty(k.waitq[s]) /\ Ends(k', CompleteFirst(k, s))
    <3> DEFINE h == Head(k.waitq[s])
    <3>1. /\ k'.wercd[h] = "E_OK"
          /\ \A y : Linked(k'.waitq[s], y) <=> Linked(k.waitq[s], y) /\ y # h
      BY <1>0, <2>1, SignalTakes
    <3> QED
      BY <2>1, <3>1
  <2>2. CASE Placed(k.waitq[s], k.runtsk, s, k.priority, k'.waitq[s])
    BY <2>2 DEF Placed
  <2> QED
    BY <1>0, <1>2, <2>1, <2>2, SemQueue
<1> QED
  BY <1>0, <1>1, <1>2, ElseLeaves, QueueSteps

(* Resources are neither lost nor made up, for any number of tasks and     *)
(* semaphores: who leaves the queue of a semaphore with E_OK is the first  *)
(* in it, and leaves by a signal (semaphore.c, wait.c).                    *)
THEOREM CommSemConserved == CommSpec => SemConserved
<1> DEFINE Left(s) == Waiters(k, s) \ Waiters(k', s)
           Given(s) == {t \in Left(s) : k'.wercd[t] = "E_OK"}
           Conserved == \A s \in Sems :
             /\ Given(s) # {} => /\ Signals(s)
                                 /\ Cardinality(Given(s)) = 1
                                 /\ semcnt'[s] = semcnt[s]
             /\ \A t \in Left(s) :
                  /\ k'.wercd[t] = "E_DLT" <=> ini_sem(s)
                  /\ k'.wercd[t] = "E_TMOUT" => InTick
<1>1. ASSUME CommInv, CommNext PROVE Conserved
  <2> SUFFICES ASSUME NEW s \in Sems
               PROVE  /\ Given(s) # {} => /\ Signals(s)
                                          /\ Cardinality(Given(s)) = 1
                                          /\ semcnt'[s] = semcnt[s]
                      /\ \A t \in Left(s) :
                           /\ k'.wercd[t] = "E_DLT" <=> ini_sem(s)
                           /\ k'.wercd[t] = "E_TMOUT" => InTick
    OBVIOUS
  <2>1. \A t \in Left(s) :
           /\ t \in Tasks /\ Linked(k.waitq[s], t) /\ ~Linked(k'.waitq[s], t)
    BY DEF Waiters
  <2>2. \A t \in Left(s) : k'.wercd[t] = "E_OK" =>
           t = Head(k.waitq[s]) /\ Signals(s) /\ semcnt' = semcnt
    BY <1>1, <2>1, SemLeft
  <2>3. \A t \in Left(s) : /\ k'.wercd[t] = "E_DLT" <=> ini_sem(s)
                           /\ k'.wercd[t] = "E_TMOUT" => InTick
    BY <1>1, <2>1, SemLeft
  <2>4. ASSUME Given(s) # {}
        PROVE  Signals(s) /\ Cardinality(Given(s)) = 1 /\ semcnt'[s] = semcnt[s]
    <3>1. Signals(s) /\ semcnt' = semcnt /\ Given(s) = {Head(k.waitq[s])}
      BY <2>2, <2>4
    <3> QED
      BY <3>1, FS_Singleton
  <2> QED
    BY <2>3, <2>4
<1>2. ASSUME UNCHANGED vars PROVE UNCHANGED semvars
  BY <1>2 DEF vars, semvars, objects
<1>3. CommInv /\ [CommNext]_vars => [Conserved]_semvars
  BY <1>1, <1>2
<1> QED
  BY CommAlways, <1>3, PTL DEF CommSpec, SemConserved

(* Who waits goes on to wait in the same order, but for a change of the    *)
(* priority of one of them.                                                *)
LEMMA SemKeepsOrder ==
  ASSUME CommInv, CommNext, NEW s \in Sems, NEW t \in Tasks, NEW u \in Tasks,
         Ahead(k.waitq[s], t, u), Linked(k'.waitq[s], t), Linked(k'.waitq[s], u)
  PROVE  \/ Ahead(k'.waitq[s], t, u)
         \/ s \in TA_TPRI /\ \E p \in Pri : chg_pri(t, p) \/ chg_pri(u, p)
<1>1. /\ KernelInv(k) /\ s \in WaitQueues /\ k.waitq \in [WaitQueues -> Seq(Tasks)]
      /\ k.waitq[s] \in Seq(Tasks) /\ Unique(k.waitq[s])
  BY SemaphoreAssumption
     DEF CommInv, KernelInv, Base, Core, KernelState, Waits, QueuedOK, QueueOK
<1>2. CASE /\ ~queue_empty(k.waitq[s]) /\ Ends(k', CompleteFirst(k, s))
  <2> DEFINE h == Head(k.waitq[s])
  <2>1. /\ k'.waitq[s] \in Seq(Tasks) /\ 1 \in 1 .. Len(k.waitq[s])
        /\ Without(k.waitq[s], 1, k'.waitq[s]) /\ k.waitq[s][1] = h
        /\ \A y : Linked(k'.waitq[s], y) <=> Linked(k.waitq[s], y) /\ y # h
    BY <1>1, <1>2, SignalTakes
  <2> QED
    BY <1>1, <2>1, WithoutOrder
<1>3. CASE ini_sem(s)
  BY <1>1, <1>3, IniSem
<1>4. CASE Placed(k.waitq[s], k.runtsk, s, k.priority, k'.waitq[s])
  BY <1>1, <1>4, WithOrder DEF Placed
<1>5. ASSUME NEW x \in Tasks, Leaves(k, k', x), k'.waitq # k.waitq
      PROVE  Ahead(k'.waitq[s], t, u)
  <2>1. PICK w \in WaitQueues, q \in Seq(Tasks) : \E p \in 1 .. Len(k.waitq[w]) :
          /\ k.waitq[w][p] = x /\ Without(k.waitq[w], p, q)
          /\ k'.waitq = [k.waitq EXCEPT ![w] = q]
    BY <1>5 DEF Leaves
  <2>2. CASE w # s
    BY <1>1, <2>1, <2>2
  <2>3. CASE w = s
    <3>1. PICK p \in 1 .. Len(k.waitq[s]) :
            Without(k.waitq[s], p, q) /\ k'.waitq[s] = q
      BY <1>1, <2>1, <2>3
    <3>2. t # k.waitq[s][p] /\ u # k.waitq[s][p]
      BY <1>1, <3>1, WithoutUnique
    <3> QED
      BY <1>1, <3>1, <3>2, WithoutOrder
  <2> QED
    BY <2>2, <2>3
<1>6. ASSUME NEW x \in Tasks, NEW pri \in Pri, chg_pri(x, pri), Moves(k, k', x),
             k'.waitq # k.waitq
      PROVE  \/ Ahead(k'.waitq[s], t, u)
             \/ s \in TA_TPRI /\ \E p \in Pri : chg_pri(t, p) \/ chg_pri(u, p)
  <2>1. PICK w \in TA_TPRI, d \in Seq(Tasks), q \in Seq(Tasks) :
        \E p \in 1 .. Len(k.waitq[w]), n \in 1 .. Len(d) + 1 :
          /\ k.waitq[w][p] = x /\ Without(k.waitq[w], p, d) /\ With(d, n, x, q)
          /\ k'.waitq = [k.waitq EXCEPT ![w] = q]
    BY <1>6 DEF Moves
  <2>2. CASE w # s
    BY <1>1, <2>1, <2>2
  <2>3. CASE w = s /\ (x = t \/ x = u)
    BY <1>6, <2>1, <2>3
  <2>4. CASE w = s /\ x # t /\ x # u
    <3>1. PICK p \in 1 .. Len(k.waitq[s]), n \in 1 .. Len(d) + 1 :
            /\ k.waitq[s][p] = x /\ Without(k.waitq[s], p, d)
            /\ With(d, n, x, q) /\ k'.waitq[s] = q
      BY <1>1, <2>1, <2>4
    <3>2. Ahead(d, t, u)
      BY <1>1, <2>4, <3>1, WithoutOrder
    <3> QED
      BY <3>1, <3>2, WithOrder
  <2> QED
    BY <2>2, <2>3, <2>4
<1>7. CASE k'.waitq = k.waitq \/ k'.waitq[s] = k.waitq[s]
  BY <1>7
<1>8. CASE QueuesElse
  BY <1>5, <1>6, <1>7, <1>8 DEF QueuesElse
<1>9. CASE SemServices(s)
  BY <1>1, <1>2, <1>3, <1>4, <1>7, <1>9, SemQueue
<1> QED
  BY <1>7, <1>8, <1>9, QueueSteps

(* A task comes to the queue of a semaphore only by waiting.               *)
LEMMA SemComes ==
  ASSUME CommInv, CommNext, NEW s \in Sems, NEW u,
         ~Linked(k.waitq[s], u), Linked(k'.waitq[s], u)
  PROVE  u = k.runtsk /\ Placed(k.waitq[s], u, s, k.priority, k'.waitq[s])
<1>1. KernelInv(k) /\ s \in WaitQueues
  BY SemaphoreAssumption DEF CommInv
<1>2. CASE QueuesElse
  <2>1. ~Linked(k'.waitq[s], u)
    BY <1>1, <1>2, LeavesShrinks DEF QueuesElse, Shrinks
  <2> QED
    BY <2>1
<1>3. CASE /\ ~queue_empty(k.waitq[s]) /\ Ends(k', CompleteFirst(k, s))
  BY <1>1, <1>3, SignalTakes
<1>4. CASE ini_sem(s)
  BY <1>1, <1>4, IniSem
<1>5. CASE Placed(k.waitq[s], k.runtsk, s, k.priority, k'.waitq[s])
  BY <1>5 DEF Placed
<1> QED
  BY <1>1, <1>2, <1>3, <1>4, <1>5, QueueSteps, SemQueue

(* And then behind the others.                                             *)
LEMMA SemBehind ==
  ASSUME CommInv, CommNext, NEW s \in Sems, NEW t \in Tasks, NEW u \in Tasks,
         Linked(k.waitq[s], t), ~Linked(k.waitq[s], u), Ahead(k'.waitq[s], u, t)
  PROVE  s \in TA_TPRI /\ k.priority[u] < k.priority[t]
<1> DEFINE q == k.waitq[s]
           r == k'.waitq[s]
<1>1. q \in Seq(Tasks) /\ Len(q) \in Nat
  BY SemaphoreAssumption, NobodyWaits, LenProperties DEF CommInv
<1>2. Linked(r, u)
  BY DEF Ahead, Linked
<1>3. Placed(q, u, s, k.priority, r)
  BY <1>2, SemComes
<1> HIDE DEF q, r
<1>4. PICK p \in 1 .. Len(q) + 1 :
        /\ With(q, p, u, r)
        /\ IF s \in TA_TPRI THEN FitsAt(q, p, u, k.priority) ELSE p = Len(q) + 1
  BY <1>3 DEF Placed
<1>5. r \in Seq(Tasks) /\ ~Linked(q, u) /\ t # u /\ Ahead(r, u, t)
  BY <1>3 DEF Placed, q, r
<1>6. PICK i \in 1 .. Len(q) : p <= i /\ q[i] = t
  BY <1>1, <1>4, <1>5, WithAhead
<1>7. s \in TA_TPRI
  BY <1>1, <1>4, <1>6
<1>8. k.priority[u] < k.priority[q[i]]
  BY <1>1, <1>4, <1>6, <1>7 DEF FitsAt
<1> QED
  BY <1>6, <1>7, <1>8

(* Tasks get a semaphore in the order of its queue, for any number of      *)
(* tasks and priorities (semaphore.c, wait.c, wait.h).                     *)
THEOREM CommSemInOrder == CommSpec => SemInOrder
<1> DEFINE InOrder(s, t, u) ==
             /\ WaitsBefore(k, s, t, u) /\ Linked(k'.waitq[s], t) =>
                  IF Linked(k'.waitq[s], u)
                  THEN \/ WaitsBefore(k', s, t, u)
                       \/ /\ s \in TA_TPRI
                          /\ \E p \in Pri : chg_pri(t, p) \/ chg_pri(u, p)
                  ELSE k'.wercd[u] # "E_OK"
             /\ Linked(k.waitq[s], t) /\ WaitsBefore(k', s, u, t) =>
                  \/ Linked(k.waitq[s], u)
                  \/ s \in TA_TPRI /\ k.priority[u] < k.priority[t]
<1>1. ASSUME CommInv, CommNext
      PROVE  \A s \in Sems : \A t, u \in Tasks : InOrder(s, t, u)
  <2> SUFFICES ASSUME NEW s \in Sems, NEW t \in Tasks, NEW u \in Tasks
               PROVE  InOrder(s, t, u)
    OBVIOUS
  <2>1. /\ WaitsBefore(k, s, t, u) <=> Ahead(k.waitq[s], t, u)
        /\ WaitsBefore(k', s, t, u) <=> Ahead(k'.waitq[s], t, u)
        /\ WaitsBefore(k', s, u, t) <=> Ahead(k'.waitq[s], u, t)
    BY DEF WaitsBefore, Ahead
  <2>2. ASSUME Ahead(k.waitq[s], t, u), ~Linked(k'.waitq[s], u)
        PROVE  k'.wercd[u] # "E_OK"
    <3>1. Linked(k.waitq[s], u)
      BY <2>2 DEF Ahead, Linked
    <3> DEFINE q == k.waitq[s]
    <3>2. q \in Seq(Tasks) /\ Unique(q)
      BY <1>1, SemaphoreAssumption
         DEF CommInv, KernelInv, Base, Core, KernelState, Waits, QueuedOK, QueueOK
    <3>3. PICK i, j \in DOMAIN q : i < j /\ q[j] = u
      BY <2>2 DEF Ahead
    <3> HIDE DEF q
    <3>4. DOMAIN q = 1 .. Len(q) /\ Len(q) \in Nat
      BY <3>2, LenProperties
    <3>5. q # <<>> /\ 1 \in DOMAIN q /\ j # 1
      BY <3>3, <3>4
    <3>6. u # Head(q)
      BY <3>2, <3>3, <3>5, DeleteFirst DEF Unique
    <3> QED
      BY <1>1, <2>2, <3>1, <3>6, SemLeft DEF q
  <2>3. ASSUME Ahead(k.waitq[s], t, u), Linked(k'.waitq[s], t), Linked(k'.waitq[s], u)
        PROVE  \/ Ahead(k'.waitq[s], t, u)
               \/ s \in TA_TPRI /\ \E p \in Pri : chg_pri(t, p) \/ chg_pri(u, p)
    BY <1>1, <2>3, SemKeepsOrder
  <2>4. ASSUME Linked(k.waitq[s], t), Ahead(k'.waitq[s], u, t), ~Linked(k.waitq[s], u)
        PROVE  s \in TA_TPRI /\ k.priority[u] < k.priority[t]
    BY <1>1, <2>4, SemBehind
  <2> QED
    BY <2>1, <2>2, <2>3, <2>4
<1>2. ASSUME UNCHANGED vars PROVE UNCHANGED semvars
  BY <1>2 DEF vars, semvars, objects
<1>3. CommInv /\ [CommNext]_vars =>
        [\A s \in Sems : \A t, u \in Tasks : InOrder(s, t, u)]_semvars
  BY <1>1, <1>2
<1> QED
  BY CommAlways, <1>3, PTL DEF CommSpec, SemInOrder

(* set_flg and iset_flg with the new pattern ptn.                          *)
Sets(f, ptn) ==
  /\ Ends(k', CompleteAll(k, f, Woken(f, ptn)))
  /\ flgptn[f] \subseteq ptn
  /\ flgptn' = [flgptn EXCEPT ![f] = IF Woken(f, ptn) = {} THEN ptn
                                     ELSE Cleared(f, ptn)]
  /\ ret' = [t \in Tasks |-> IF t \in Woken(f, ptn) THEN ptn ELSE NULL]

(* The places in the queue of f whose task leaves it with E_OK.            *)
ServedAt(f) ==
  {i \in DOMAIN k.waitq[f] : /\ ~Linked(k'.waitq[f], k.waitq[f][i])
                             /\ k'.wercd[k.waitq[f][i]] = "E_OK"}

LEMMA FlgServes ==
  ASSUME CommInv, CommNext, NEW f \in Flgs, ServedAt(f) # {}
  PROVE  \E ptn : Sets(f, ptn)
<1>1. /\ KernelInv(k) /\ f \in WaitQueues /\ k.waitq \in [WaitQueues -> Seq(Tasks)]
      /\ k.waitq[f] \in Seq(Tasks)
  BY EventFlagAssumption DEF CommInv, KernelInv, Base, Core, KernelState
<1>2. PICK i \in DOMAIN k.waitq[f] : /\ ~Linked(k'.waitq[f], k.waitq[f][i])
                                     /\ k'.wercd[k.waitq[f][i]] = "E_OK"
  BY DEF ServedAt
<1> DEFINE t == k.waitq[f][i]
<1>3. t \in Tasks /\ Linked(k.waitq[f], t)
  BY <1>1, <1>2 DEF Linked
<1>4. ~Linked(k'.waitq[f], t) /\ k'.wercd[t] = "E_OK"
  BY <1>2
<1> HIDE DEF t
<1>5. k'.waitq[f] # k.waitq[f]
  BY <1>3, <1>4
<1>6. ~QueuesElse
  BY <1>1, <1>3, <1>4, ElseLeaves
<1>7. FlgServices(f)
  BY <1>5, <1>6, QueueSteps
<1>8. ~ini_flg(f)
  BY <1>1, <1>3, <1>4, AllGetDeleted DEF ini_flg
<1>9. ASSUME NEW waiptn, NEW wfmode, NEW tmout \in Nat \cup {TMO_FEVR},
             twai_flg(f, waiptn, wfmode, tmout)
      PROVE  FALSE
  <2>1. /\ CanDispatch
        /\ k' = dispatch(wobj_make_wait_tmout(k, "WAIT_FLG", f, tmout))
    BY <1>5, <1>9 DEF twai_flg, Satisfy, WaitFor
  <2>2. MayQueue(f, "WAIT_FLG")
    BY EventFlagAssumption DEF MayQueue, TS_WAIT_WOBJ, TS_WAIT_WOBJCB
  <2>3. Placed(k.waitq[f], k.runtsk, f, k.priority, k'.waitq[f])
    BY <1>1, <2>1, <2>2, PutInPlace
  <2> QED
    BY <1>3, <1>4, <2>3 DEF Placed
<1>10. Timeout \subseteq Nat \cup {TMO_FEVR}
  BY TaskSyncAssumption DEF Timeout
<1>11. PICK ptn \in FLGPTN : set_flg(f, ptn) \/ iset_flg(f, ptn)
  <2>1. \A waiptn \in FLGPTN \ {{}}, wfmode \in MODE :
          /\ ~wai_flg(f, waiptn, wfmode) /\ ~pol_flg(f, waiptn, wfmode)
          /\ \A tmout \in Timeout : ~twai_flg(f, waiptn, wfmode, tmout)
    BY <1>5, <1>9, <1>10 DEF wai_flg, pol_flg, Satisfy
  <2>2. \A ptn \in FLGPTN : ~clr_flg(f, ptn)
    BY <1>5 DEF clr_flg
  <2> QED
    BY <1>7, <1>8, <2>1, <2>2 DEF FlgServices
<1>12. Sets(f, flgptn[f] \cup ptn)
  BY <1>11 DEF set_flg, iset_flg, set, Sets, Ends
<1> QED
  BY <1>12

(* Whom a new pattern serves.                                              *)
LEMMA SetServes ==
  ASSUME CommInv, NEW f \in Flgs, NEW ptn, Sets(f, ptn), NEW i \in ServedAt(f)
  PROVE  /\ ret'[k.waitq[f][i]] = ptn /\ Satisfied(ptn, k.waitq[f][i])
         /\ f \in TA_CLR =>
              /\ flgptn'[f] = {} /\ ServedAt(f) = {i}
              /\ \A j \in 1 .. i - 1 : ~Satisfied(ptn, k.waitq[f][j])
<1> DEFINE q == k.waitq[f]
           ts == Woken(f, ptn)
           sat == {j \in DOMAIN q : Satisfied(ptn, q[j])}
<1>1. /\ KernelInv(k) /\ f \in WaitQueues /\ q \in Seq(Tasks) /\ Unique(q)
      /\ DOMAIN q = 1 .. Len(q) /\ Len(q) \in Nat /\ f \in DOMAIN flgptn
  BY EventFlagAssumption, LenProperties
     DEF CommInv, KernelInv, Base, Core, KernelState, Waits, QueuedOK, QueueOK,
         FlgsOK
<1>2. Thinned(k, f, ts, k')
  BY <1>1, ThemServed DEF Sets
<1>3. \A l \in ServedAt(f) : l \in DOMAIN q /\ Linked(q, q[l]) /\ q[l] \in ts
  BY <1>2 DEF ServedAt, Thinned, Linked
<1>4. \A l \in DOMAIN q : q[l] \in ts =>
        l \in sat /\ (f \in TA_CLR => \A j \in sat : l <= j)
  BY <1>1 DEF Woken, Unique
<1>5. i \in sat /\ q[i] \in ts /\ q[i] \in Tasks /\ i \in Nat
  BY <1>1, <1>3, <1>4
<1>6. ret'[q[i]] = ptn /\ Satisfied(ptn, q[i])
  BY <1>5 DEF Sets
<1>7. ASSUME f \in TA_CLR
      PROVE  /\ flgptn'[f] = {} /\ ServedAt(f) = {i}
             /\ \A j \in 1 .. i - 1 : ~Satisfied(ptn, q[j])
  <2>1. flgptn'[f] = {}
    BY <1>1, <1>5, <1>7 DEF Sets, Cleared
  <2>2. \A j \in sat : i <= j
    BY <1>4, <1>5, <1>7
  <2>3. \A l \in ServedAt(f) : l = i
    <3> SUFFICES ASSUME NEW l \in ServedAt(f) PROVE l = i
      OBVIOUS
    <3>1. l \in sat /\ l \in Nat /\ \A j \in sat : l <= j
      BY <1>1, <1>3, <1>4, <1>7
    <3> QED
      BY <1>5, <2>2, <3>1
  <2>4. \A j \in 1 .. i - 1 : j \in DOMAIN q /\ ~(i <= j)
    BY <1>1, <1>5
  <2> QED
    BY <2>1, <2>2, <2>3, <2>4
<1> QED
  BY <1>6, <1>7

(* A task gets the event flag it waited for, for any number of tasks and   *)
(* bits, and one that is cleared serves the first task it satisfies and    *)
(* no other (eventflag.c: set_flg, iset_flg).                              *)
THEOREM CommFlgServed == CommSpec => FlgServed
<1> DEFINE Goal(f, q) ==
      LET served == {i \in DOMAIN q : ~Linked(k'.waitq[f], q[i])
                                        /\ k'.wercd[q[i]] = "E_OK"}
      IN \A i \in served :
           LET ptn == ret'[q[i]]
           IN /\ flgptn[f] \subseteq ptn
              /\ Satisfied(ptn, q[i])
              /\ f \in TA_CLR =>
                   /\ flgptn'[f] = {}
                   /\ served = {i}
                   /\ \A j \in 1 .. i - 1 : ~Satisfied(ptn, q[j])
<1>1. ASSUME CommInv, CommNext PROVE \A f \in Flgs : Goal(f, k.waitq[f])
  <2> SUFFICES ASSUME NEW f \in Flgs PROVE Goal(f, k.waitq[f])
    OBVIOUS
  <2>1. ASSUME NEW i \in ServedAt(f)
        PROVE  LET ptn == ret'[k.waitq[f][i]]
               IN /\ flgptn[f] \subseteq ptn
                  /\ Satisfied(ptn, k.waitq[f][i])
                  /\ f \in TA_CLR =>
                       /\ flgptn'[f] = {}
                       /\ ServedAt(f) = {i}
                       /\ \A j \in 1 .. i - 1 : ~Satisfied(ptn, k.waitq[f][j])
    <3>1. PICK ptn : Sets(f, ptn)
      BY <1>1, <2>1, FlgServes
    <3>2. flgptn[f] \subseteq ptn
      BY <3>1 DEF Sets
    <3> QED
      BY <1>1, <2>1, <3>1, <3>2, SetServes
  <2> QED
    BY <2>1 DEF ServedAt
<1>2. ASSUME UNCHANGED vars PROVE UNCHANGED <<objvars, flgptn>>
  BY <1>2 DEF vars, objvars, objects
<1>3. CommInv /\ [CommNext]_vars =>
        [\A f \in Flgs : Goal(f, k.waitq[f])]_<<objvars, flgptn>>
  BY <1>1, <1>2
<1> QED
  BY CommAlways, <1>3, PTL DEF CommSpec, FlgServed

=============================================================================
