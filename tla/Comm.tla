-------------------------------- MODULE Comm --------------------------------
(***************************************************************************)
(* The synchronization and communication objects of the kernel - of        *)
(* semaphore.c, dataqueue.c, eventflag.c, mailbox.c, pridataq.c and        *)
(* mempfix.c - with everything that meets a task waiting for one of them:  *)
(* other tasks, handlers, timeouts, releases, suspensions, changes of      *)
(* priority and terminations.  The kernel's other services (sleeping,      *)
(* masks, exceptions, queued activations) are checked without objects, in  *)
(* TaskSync, and do not occur here.                                        *)
(***************************************************************************)
EXTENDS Semaphore, DataQueue, EventFlag, Mailbox, PriDataQ, MemPFix

CONSTANT Configurations  \* the sets of objects that programs use together

(* Every object has wait queues of its own. *)
Kinds == <<Sems, Dtqs, {rwait_queue(d) : d \in Dtqs}, Flgs, Mbxs,
           Pdqs, {rwait_queue_pdq(q) : q \in Pdqs}, Mpfs>>

ASSUME CommAssumption ==
  /\ Configurations \subseteq SUBSET WaitQueues
  /\ \A i, j \in DOMAIN Kinds : i # j => Kinds[i] \cap Kinds[j] = {}

(* The objects in use: chosen at the start, and then constant.             *)
VARIABLE conf

objects == <<semcnt, dtq, flgptn, mbx, pk_next, pdq, mpf, relblk>>
vars == <<k, winfo, ret, objects, conf>>

CommInit ==
  /\ Init /\ WaitObjectInit
  /\ initialize_semaphore /\ initialize_dataqueue /\ initialize_eventflag
  /\ initialize_mailbox /\ initialize_pridataq /\ initialize_mempfix
  /\ conf \in Configurations

(* A task that is in the middle of rel_mpf calls nothing else.             *)
NotReleasing == Releasing => k.handlers # <<>>

Services ==
  \/ /\ NotReleasing
     /\ \/ /\ \E s \in Sems \cap conf : SemServices(s)
           /\ Nothing
           /\ UNCHANGED <<dtq, flgptn, mbxvars, pdq, mpfvars>>
        \/ /\ \E d \in Dtqs \cap conf : DtqServices(d)
           /\ UNCHANGED <<semcnt, flgptn, mbxvars, pdq, mpfvars>>
        \/ /\ \E f \in Flgs \cap conf : FlgServices(f)
           /\ UNCHANGED <<semcnt, dtq, mbxvars, pdq, mpfvars>>
        \/ /\ \E b \in Mbxs \cap conf : MbxServices(b)
           /\ UNCHANGED <<semcnt, dtq, flgptn, pdq, mpfvars>>
        \/ /\ \E q \in Pdqs \cap conf : PdqServices(q)
           /\ UNCHANGED <<semcnt, dtq, flgptn, mbxvars, mpfvars>>
  \/ /\ \E m \in Mpfs \cap conf : MpfServices(m)
     /\ UNCHANGED <<semcnt, dtq, flgptn, mbxvars, pdq>>

TasksElse ==
  \/ \E t \in Tasks : \/ TSTAT_DORMANT(k.tstat[t]) /\ act_tsk(t)
                      \/ ter_tsk(t) \/ rel_wai(t) \/ sus_tsk(t) \/ rsm_tsk(t)
  \/ \E t \in Tasks, pri \in Pri : chg_pri(t, pri)
  \/ ext_tsk

HandlersElse == (\E t \in Tasks : irel_wai(t)) \/ Tick \/ Kernel

(* A task that ends has forgotten what it was doing.                       *)
Else ==
  /\ (NotReleasing /\ TasksElse) \/ HandlersElse
  /\ Nothing
  /\ relblk' = [t \in Tasks |-> IF TSTAT_DORMANT(k'.tstat[t]) THEN NULL
                                ELSE relblk[t]]
  /\ UNCHANGED <<semcnt, dtq, flgptn, mbxvars, pdq, mpf>>

CommNext == (Services \/ Else) /\ UNCHANGED conf

CommSpec == CommInit /\ [][CommNext]_vars

-----------------------------------------------------------------------------
(* No task waits for what is there: a resource, a place in a buffer, data, *)
(* a bit pattern, a message or a block, whichever service, timeout,        *)
(* release, termination or initialization came last.                       *)
NoVainWait ==
  LET waited(w) == ~queue_empty(k.waitq[w])
  IN /\ \A s \in Sems \cap conf : waited(s) => semcnt[s] = 0
     /\ \A d \in Dtqs \cap conf :
          /\ waited(d) => dtq[d].count = dtqcnt[d]
          /\ waited(rwait_queue(d)) => dtq[d].count = 0 /\ ~waited(d)
     /\ \A f \in Flgs \cap conf : \A i \in DOMAIN k.waitq[f] :
          ~Satisfied(flgptn[f], k.waitq[f][i])
     /\ \A b \in Mbxs \cap conf : waited(b) => mbx[b].pk_head = NULL
     /\ \A q \in Pdqs \cap conf :
          /\ waited(q) => pdq[q].count = pdqcnt[q]
          /\ waited(rwait_queue_pdq(q)) => pdq[q].count = 0 /\ ~waited(q)
     /\ \A m \in Mpfs \cap conf : waited(m) => mpf[m].fblkcnt = 0

(* The management areas of the objects stay consistent through every       *)
(* sequence of calls: the ring of a data queue, the list of a mailbox, the *)
(* blocks of a priority data queue and of a memory pool, none lost or in   *)
(* use twice.                                                              *)
AreasOK ==
  /\ \A s \in Sems \cap conf : semcnt[s] \in 0 .. maxsem[s]
  /\ \A d \in Dtqs \cap conf : DtqOK(d)
  /\ \A b \in Mbxs \cap conf : MbxOK(b)
  /\ \A q \in Pdqs \cap conf : PdqOK(q)
  /\ \A m \in Mpfs \cap conf : MpfOK(m)

-----------------------------------------------------------------------------
(* The tasks whose wait in w ends with E_OK in a step.                     *)
Served(w) == {t \in Tasks : /\ Linked(k.waitq[w], t)
                            /\ ~Linked(k'.waitq[w], t)
                            /\ k'.wercd[t] = "E_OK"}

(* What a step delivers.                                                   *)
Delivered ==
  LET ts == SetToSeq({t \in Tasks : ret'[t] # NULL})
  IN [i \in DOMAIN ts |-> ret'[ts[i]]]

(* What a step takes from senders: from one that waited in w, or from the  *)
(* caller of a service that sends one of data at once.                     *)
Accepted(w, data, Sends(_)) ==
  LET ts == SetToSeq(Served(w))
  IN [i \in DOMAIN ts |-> winfo[ts[i]]] \o SetToSeq({x \in data : Sends(x)})

(* The messages buf become new, given is delivered and accepted comes in:  *)
(* the first is delivered, or, if there was none, the one that came in.    *)
Transfer(buf, new, given, accepted, Insert(_, _)) ==
  IF buf = <<>> /\ given # <<>> THEN given = accepted /\ new = <<>>
  ELSE /\ IsPrefix(given, buf)
       /\ new = FoldLeft(Insert, SubSeq(buf, Len(given) + 1, Len(buf)),
                         accepted)

(* Behind the messages of the same priority, before those of lower ones.   *)
InsertPri(buf, x, pri) ==
  InsertAt(buf, CountWhile(buf, LAMBDA y : pri[y] <= pri[x]) + 1, x)

DtqTransfer(d, buf, accepted) ==
  Transfer(buf, Buffer(dtq[d], d)', Delivered, accepted, Append)

DtqInOrder(d) ==
  LET buf == Buffer(dtq[d], d)
      sent == Accepted(d, Data, LAMBDA x : psnd_dtq(d, x) \/ ipsnd_dtq(d, x))
      forced == Accepted(d, Data, LAMBDA x : fsnd_dtq(d, x) \/ ifsnd_dtq(d, x))
  IN \/ DtqTransfer(d, buf, sent) \/ DtqTransfer(d, buf, forced)
     \/ /\ buf # <<>> /\ Len(buf) = dtqcnt[d] /\ forced # <<>>
        /\ DtqTransfer(d, Tail(buf), forced)
     \/ ini_dtq(d) /\ Buffer(dtq[d], d)' = <<>>

PdqData(Q) == LET c == Blocks(Q) IN [i \in DOMAIN c |-> Q.mb[c[i]].data]

PdqInOrder(q) ==
  \/ Transfer(PdqData(pdq[q]), PdqData(pdq[q])', Delivered,
              Accepted(q, PriData,
                       LAMBDA x : psnd_pdq(q, x) \/ ipsnd_pdq(q, x)),
              LAMBDA buf, x : InsertPri(buf, x, datapri))
  \/ ini_pdq(q) /\ PdqData(pdq[q])' = <<>>

Mail(b) == Messages(mbx[b].pk_head, pk_next)

MbxInOrder(b) ==
  LET sent == SetToSeq({m \in Msgs : Owned(m) /\ snd_mbx(b, m)})
  IN \/ Transfer(Mail(b), Mail(b)', Delivered, sent,
                 LAMBDA buf, m : IF b \in TA_MPRI
                                 THEN InsertPri(buf, m, msgpri)
                                 ELSE Append(buf, m))
     \/ ini_mbx(b) /\ Mail(b)' = <<>>

(* Messages are delivered in the order of the object, each once: whether   *)
(* they go through the buffer, straight to a waiting receiver or from a    *)
(* waiting sender into the place that has become free, and whichever waits *)
(* time out or are released meanwhile.  Only a forced send drops one, the  *)
(* oldest of a full buffer, and an initialization all.                     *)
MessagesInOrder ==
  [][/\ \A d \in Dtqs \cap conf : DtqInOrder(d)
     /\ \A q \in Pdqs \cap conf : PdqInOrder(q)
     /\ \A b \in Mbxs \cap conf : MbxInOrder(b)]_vars
=============================================================================
