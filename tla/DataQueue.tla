------------------------------ MODULE DataQueue ------------------------------
(***************************************************************************)
(* kernel/dataqueue.c: a ring buffer with a queue of tasks that wait to    *)
(* send, in the object's order, and one of tasks that wait to receive.     *)
(***************************************************************************)
EXTENDS WaitObject

CONSTANTS
  Dtqs,    \* the data queues; a data queue is named like its swait_queue
  dtqcnt,  \* DTQINIB.dtqcnt: the capacity
  Data     \* what is sent

rwait_queue(d) == <<"rwait_queue", d>>

ASSUME DataQueueAssumption ==
  /\ Dtqs \subseteq WaitQueues
  /\ \A d \in Dtqs : rwait_queue(d) \in WaitQueues \ TA_TPRI
  /\ dtqcnt \in [Dtqs -> Nat]
  /\ NULL \notin Data

(* dtq[d]: the data queue management area mb, with count data from head on *)
(* and tail behind the last.                                               *)
VARIABLE dtq

initialize_dataqueue ==
  dtq = [d \in Dtqs |-> [mb |-> [i \in 0 .. dtqcnt[d] - 1 |-> NULL],
                         head |-> 0, tail |-> 0, count |-> 0]]

Advance(d, i) == IF i + 1 >= dtqcnt[d] THEN 0 ELSE i + 1

enqueue_data(B, d, data) ==
  [B EXCEPT !.mb[B.tail] = data, !.count = @ + 1, !.tail = Advance(d, @)]

(* On a full buffer the oldest data is overwritten.                        *)
force_enqueue_data(B, d, data) ==
  LET F == [B EXCEPT !.mb[B.tail] = data, !.tail = Advance(d, @)]
  IN IF B.count < dtqcnt[d] THEN [F EXCEPT !.count = @ + 1]
     ELSE [F EXCEPT !.head = F.tail]

dequeue_data(B, d) == [B EXCEPT !.count = @ - 1, !.head = Advance(d, @)]

(* The branch of send_data and force_send_data for a waiting receiver.     *)
(* Switch is what the caller does about a dispatch.                        *)
send_to_receiver(d, data, Switch(_)) ==
  LET w == rwait_queue(d)
  IN /\ ~queue_empty(k.waitq[w])
     /\ k' = Switch(CompleteFirst(k, w))
     /\ Hand(Head(k.waitq[w]), data)
     /\ UNCHANGED dtq

Buffered(d, B) ==
  /\ queue_empty(k.waitq[rwait_queue(d)])
  /\ dtq' = [dtq EXCEPT ![d] = B]
  /\ UNCHANGED k /\ Nothing

(* send_data where it returns true.                                        *)
send_data(d, data, Switch(_)) ==
  \/ send_to_receiver(d, data, Switch)
  \/ /\ dtq[d].count < dtqcnt[d]
     /\ Buffered(d, enqueue_data(dtq[d], d, data))

force_send_data(d, data, Switch(_)) ==
  /\ dtqcnt[d] > 0
  /\ \/ send_to_receiver(d, data, Switch)
     \/ Buffered(d, force_enqueue_data(dtq[d], d, data))

(* Mutant: a full buffer counts as empty for the waiting sender's data.    *)
receive_data_sender_first(d) ==
  LET q == k.waitq[d]
  IN IF queue_empty(q)
     THEN /\ dtq[d].count > 0
          /\ dtq' = [dtq EXCEPT ![d] = dequeue_data(@, d)]
          /\ UNCHANGED k
          /\ Return(dtq[d].mb[dtq[d].head])
     ELSE /\ k' = DispatchIf(CompleteFirst(k, d))
          /\ Return(winfo[Head(q)])
          /\ UNCHANGED dtq

(* receive_data where it returns true: the place that becomes free goes to *)
(* the first task that waits to send.                                      *)
receive_data(d) ==
  LET q == k.waitq[d]
      B == dequeue_data(dtq[d], d)
  IN \/ /\ dtq[d].count > 0
        /\ IF queue_empty(q)
           THEN /\ dtq' = [dtq EXCEPT ![d] = B]
                /\ UNCHANGED k
           ELSE /\ dtq' = [dtq EXCEPT ![d] =
                             enqueue_data(B, d, winfo[Head(q)])]
                /\ k' = DispatchIf(CompleteFirst(k, d))
        /\ Return(dtq[d].mb[dtq[d].head])
     \/ /\ dtq[d].count = 0 /\ ~queue_empty(q)
        /\ k' = DispatchIf(CompleteFirst(k, d))
        /\ Return(winfo[Head(q)])
        /\ UNCHANGED dtq

-----------------------------------------------------------------------------
(* The services.  Where send_data or receive_data returns false the ones   *)
(* that do not wait return E_TMOUT: no step.                               *)

psnd_dtq(d, data) == TskCtxUnl /\ send_data(d, data, DispatchIf)
ipsnd_dtq(d, data) == IntCtxUnl /\ send_data(d, data, RequestIf)
fsnd_dtq(d, data) == TskCtxUnl /\ force_send_data(d, data, DispatchIf)
ifsnd_dtq(d, data) == IntCtxUnl /\ force_send_data(d, data, RequestIf)

tsnd_dtq(d, data, tmout) ==
  /\ CanDispatch
  /\ \/ send_data(d, data, DispatchIf)
     \/ /\ queue_empty(k.waitq[rwait_queue(d)])
        /\ dtq[d].count >= dtqcnt[d]
        /\ WaitFor("WAIT_SDTQ", d, tmout, data)
        /\ UNCHANGED dtq

snd_dtq(d, data) == tsnd_dtq(d, data, TMO_FEVR)

prcv_dtq(d) == TskCtxUnl /\ receive_data(d)

trcv_dtq(d, tmout) ==
  /\ CanDispatch
  /\ \/ receive_data(d)
     \/ /\ dtq[d].count = 0 /\ queue_empty(k.waitq[d])
        /\ WaitFor("WAIT_RDTQ", rwait_queue(d), tmout, NULL)
        /\ UNCHANGED dtq

rcv_dtq(d) == trcv_dtq(d, TMO_FEVR)

ini_dtq(d) ==
  /\ TskCtxUnl
  /\ k' = DispatchIf(init_wait_queues(k, d, rwait_queue(d)))
  /\ dtq' = [dtq EXCEPT ![d].count = 0, ![d].head = 0, ![d].tail = 0]
  /\ Nothing

DtqServices(d) ==
  \/ \E data \in Data :
       \/ snd_dtq(d, data) \/ psnd_dtq(d, data) \/ ipsnd_dtq(d, data)
       \/ fsnd_dtq(d, data) \/ ifsnd_dtq(d, data)
       \/ \E tmout \in Timeout : tsnd_dtq(d, data, tmout)
  \/ rcv_dtq(d) \/ prcv_dtq(d)
  \/ \E tmout \in Timeout : trcv_dtq(d, tmout)
  \/ ini_dtq(d)

-----------------------------------------------------------------------------
(* What is in the buffer, the oldest first.                                *)
Buffer(B, d) == [i \in 1 .. B.count |-> B.mb[(B.head + i - 1) % dtqcnt[d]]]

(* The ring is consistent.                                                 *)
DtqOK(d) ==
  LET B == dtq[d] IN
  /\ B.count \in 0 .. dtqcnt[d]
  /\ dtqcnt[d] > 0 => B.tail = (B.head + B.count) % dtqcnt[d]
=============================================================================
