------------------------------ MODULE PriDataQ ------------------------------
(***************************************************************************)
(* kernel/pridataq.c: a data queue in the order of data priorities.  Its   *)
(* management area is an array of blocks that are linked into the list of  *)
(* data, linked into the list of free blocks, or not used yet.             *)
(***************************************************************************)
EXTENDS WaitObject

CONSTANTS
  Pdqs,     \* the priority data queues; one is named like its swait_queue
  pdqcnt,   \* PDQINIB.pdqcnt: the capacity
  PriData,  \* what is sent
  datapri   \* the priority each is sent with

rwait_queue_pdq(q) == <<"rwait_queue", q>>

ASSUME PriDataQAssumption ==
  /\ Pdqs \subseteq WaitQueues
  /\ \A q \in Pdqs : rwait_queue_pdq(q) \in WaitQueues \ TA_TPRI
  /\ pdqcnt \in [Pdqs -> Nat]
  /\ datapri \in [PriData -> Nat]
  /\ NULL \notin PriData
  /\ \A q \in Pdqs : NULL \notin 0 .. pdqcnt[q] - 1

(* pdq[q]: the management area mb, the first block p_head of the list of   *)
(* data, its length count, the first free block p_freelist, and how many   *)
(* blocks have ever been used, unused.  What a block contains that is in   *)
(* no list, and the data in a free one, is never read: NULL here.          *)
VARIABLE pdq

EmptyPdq(q) ==
  [mb |-> [i \in 0 .. pdqcnt[q] - 1 |-> [data |-> NULL, next |-> NULL]],
   count |-> 0, p_head |-> NULL, unused |-> 0, p_freelist |-> NULL]

initialize_pridataq == pdq = [q \in Pdqs |-> EmptyPdq(q)]

NextOf(Q) == [i \in DOMAIN Q.mb |-> Q.mb[i].next]
Blocks(Q) == Chain(Q.p_head, NextOf(Q), Cardinality(DOMAIN Q.mb))
FreeBlocks(Q) == Chain(Q.p_freelist, NextOf(Q), Cardinality(DOMAIN Q.mb))

(* The block the next data goes to, taken out of the free ones.            *)
Allocate(Q) ==
  IF Q.p_freelist # NULL
  THEN [b |-> Q.p_freelist,
        Q |-> [Q EXCEPT !.p_freelist = Q.mb[@].next]]
  ELSE [b |-> Q.unused, Q |-> [Q EXCEPT !.unused = @ + 1]]

(* The block b, with data: behind the last data in front of the first of a *)
(* lower priority.                                                         *)
link_pridata(Q, b, data) ==
  LET c == Blocks(Q)
      n == CountWhile(c, LAMBDA x : datapri[Q.mb[x].data] <= datapri[data])
      L == [Q EXCEPT !.count = @ + 1,
                     !.mb[b] = [data |-> data,
                                next |-> IF n = Len(c) THEN NULL
                                         ELSE c[n + 1]]]
  IN IF n = 0 THEN [L EXCEPT !.p_head = b]
     ELSE [L EXCEPT !.mb[c[n]].next = b]

enqueue_pridata(P, data) ==
  LET A == Allocate(P) IN link_pridata(A.Q, A.b, data)

(* Mutant: the block goes to the free list without its rest.               *)
dequeue_pridata_lose(Q) ==
  [Q EXCEPT !.count = @ - 1, !.p_head = Q.mb[@].next,
            !.mb[Q.p_head] = [data |-> NULL, next |-> NULL],
            !.p_freelist = Q.p_head]

dequeue_pridata(Q) ==
  [Q EXCEPT !.count = @ - 1, !.p_head = Q.mb[@].next,
            !.mb[Q.p_head] = [data |-> NULL, next |-> Q.p_freelist],
            !.p_freelist = Q.p_head]

(* send_pridata where it returns true: Switch is what the caller does      *)
(* about a dispatch.                                                       *)
send_pridata(q, data, Switch(_)) ==
  LET w == rwait_queue_pdq(q)
  IN \/ /\ ~queue_empty(k.waitq[w])
        /\ k' = Switch(CompleteFirst(k, w))
        /\ Hand(Head(k.waitq[w]), data)
        /\ UNCHANGED pdq
     \/ /\ queue_empty(k.waitq[w])
        /\ pdq[q].count < pdqcnt[q]
        /\ pdq' = [pdq EXCEPT ![q] = enqueue_pridata(@, data)]
        /\ UNCHANGED k /\ Nothing

(* receive_pridata where it returns true: the first task that waits to     *)
(* send fills the place.                                                   *)
receive_pridata(q) ==
  LET senders == k.waitq[q]
      Q == dequeue_pridata(pdq[q])
  IN \/ /\ pdq[q].count > 0
        /\ IF queue_empty(senders)
           THEN /\ pdq' = [pdq EXCEPT ![q] = Q]
                /\ UNCHANGED k
           ELSE /\ pdq' = [pdq EXCEPT ![q] =
                             enqueue_pridata(Q, winfo[Head(senders)])]
                /\ k' = DispatchIf(CompleteFirst(k, q))
        /\ Return(pdq[q].mb[pdq[q].p_head].data)
     \/ /\ pdq[q].count = 0 /\ ~queue_empty(senders)
        /\ k' = DispatchIf(CompleteFirst(k, q))
        /\ Return(winfo[Head(senders)])
        /\ UNCHANGED pdq

-----------------------------------------------------------------------------
(* The services.  Where send_pridata or receive_pridata returns false the  *)
(* ones that do not wait return E_TMOUT: no step.                          *)

psnd_pdq(q, data) == TskCtxUnl /\ send_pridata(q, data, DispatchIf)
ipsnd_pdq(q, data) == IntCtxUnl /\ send_pridata(q, data, RequestIf)

tsnd_pdq(q, data, tmout) ==
  /\ CanDispatch
  /\ \/ send_pridata(q, data, DispatchIf)
     \/ /\ queue_empty(k.waitq[rwait_queue_pdq(q)])
        /\ pdq[q].count >= pdqcnt[q]
        /\ WaitFor("WAIT_SPDQ", q, tmout, data)
        /\ UNCHANGED pdq

snd_pdq(q, data) == tsnd_pdq(q, data, TMO_FEVR)

prcv_pdq(q) == TskCtxUnl /\ receive_pridata(q)

trcv_pdq(q, tmout) ==
  /\ CanDispatch
  /\ \/ receive_pridata(q)
     \/ /\ pdq[q].count = 0 /\ queue_empty(k.waitq[q])
        /\ WaitFor("WAIT_RPDQ", rwait_queue_pdq(q), tmout, NULL)
        /\ UNCHANGED pdq

rcv_pdq(q) == trcv_pdq(q, TMO_FEVR)

ini_pdq(q) ==
  /\ TskCtxUnl
  /\ k' = DispatchIf(init_wait_queues(k, q, rwait_queue_pdq(q)))
  /\ pdq' = [pdq EXCEPT ![q] = EmptyPdq(q)]
  /\ Nothing

PdqServices(q) ==
  \/ \E data \in PriData :
       \/ snd_pdq(q, data) \/ psnd_pdq(q, data) \/ ipsnd_pdq(q, data)
       \/ \E tmout \in Timeout : tsnd_pdq(q, data, tmout)
  \/ rcv_pdq(q) \/ prcv_pdq(q)
  \/ \E tmout \in Timeout : trcv_pdq(q, tmout)
  \/ ini_pdq(q)

-----------------------------------------------------------------------------
(* Every block that was ever used is in one of the two lists, once.        *)
PdqOK(q) ==
  LET Q == pdq[q] IN
  /\ Unique(Blocks(Q) \o FreeBlocks(Q))
  /\ ToSet(Blocks(Q) \o FreeBlocks(Q)) = 0 .. Q.unused - 1
  /\ Q.count = Len(Blocks(Q))
  /\ Q.count <= pdqcnt[q]
=============================================================================
