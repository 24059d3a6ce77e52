------------------------------- MODULE Mailbox -------------------------------
(***************************************************************************)
(* kernel/mailbox.c: a list of messages, linked through the headers of the *)
(* messages themselves, which belong to the programs until they are sent.  *)
(***************************************************************************)
EXTENDS WaitObject

CONSTANTS
  Mbxs,      \* the mailboxes; a mailbox is named like its wait queue
  Msgs,      \* the messages: T_MSG structures of the programs
  msgpri,    \* MSGPRI: the priority in the header of each message
  TA_MPRI    \* the mailboxes in the order of message priorities

ASSUME MailboxAssumption ==
  /\ Mbxs \subseteq WaitQueues
  /\ msgpri \in [Msgs -> Nat]
  /\ TA_MPRI \subseteq Mbxs
  /\ IsFiniteSet(Msgs) /\ NULL \notin Msgs

VARIABLES
  mbx,       \* pk_head and pk_last of each mailbox
  pk_next    \* the link in the header of each message; NULL, here, while
             \* the programs have the message and may write there

mbxvars == <<mbx, pk_next>>

initialize_mailbox ==
  /\ mbx = [b \in Mbxs |-> [pk_head |-> NULL, pk_last |-> NULL]]
  /\ pk_next = [m \in Msgs |-> NULL]

Messages(head, next) == Chain(head, next, Cardinality(Msgs))

(* Behind the last message in front of the first of a lower priority.      *)
enqueue_msg_pri(b, m) ==
  LET c == Messages(mbx[b].pk_head, pk_next)
      n == CountWhile(c, LAMBDA x : msgpri[x] <= msgpri[m])
      N == [pk_next EXCEPT ![m] = IF n = Len(c) THEN NULL ELSE c[n + 1]]
  IN IF n = 0
     THEN pk_next' = N /\ mbx' = [mbx EXCEPT ![b].pk_head = m]
     ELSE pk_next' = [N EXCEPT ![c[n]] = m] /\ UNCHANGED mbx

(* Without TA_MPRI, behind the last message, which pk_last only points to  *)
(* while there are messages.                                               *)
enqueue_msg(b, m) ==
  LET N == [pk_next EXCEPT ![m] = NULL]
  IN IF mbx[b].pk_head # NULL
     THEN /\ pk_next' = [N EXCEPT ![mbx[b].pk_last] = m]
          /\ mbx' = [mbx EXCEPT ![b].pk_last = m]
     ELSE /\ pk_next' = N
          /\ mbx' = [mbx EXCEPT ![b] = [pk_head |-> m, pk_last |-> m]]

(* The programs do not send a message that is in a mailbox: that is no     *)
(* check of the code.                                                      *)
Owned(m) == \A b \in Mbxs : ~Linked(Messages(mbx[b].pk_head, pk_next), m)

snd_mbx(b, m) ==
  /\ TskCtxUnl
  /\ \/ /\ ~queue_empty(k.waitq[b])
        /\ k' = DispatchIf(CompleteFirst(k, b))
        /\ Hand(Head(k.waitq[b]), m)
        /\ UNCHANGED mbxvars
     \/ /\ queue_empty(k.waitq[b])
        /\ IF b \in TA_MPRI THEN enqueue_msg_pri(b, m) ELSE enqueue_msg(b, m)
        /\ UNCHANGED k /\ Nothing

Receive(b) ==
  LET m == mbx[b].pk_head
  IN /\ m # NULL
     /\ mbx' = [mbx EXCEPT ![b].pk_head = pk_next[m]]
     /\ pk_next' = [pk_next EXCEPT ![m] = NULL]
     /\ UNCHANGED k /\ Return(m)

prcv_mbx(b) == TskCtxUnl /\ Receive(b)

trcv_mbx(b, tmout) ==
  /\ CanDispatch
  /\ \/ Receive(b)
     \/ /\ mbx[b].pk_head = NULL
        /\ WaitFor("WAIT_MBX", b, tmout, NULL)
        /\ UNCHANGED mbxvars

rcv_mbx(b) == trcv_mbx(b, TMO_FEVR)

(* The messages that were in the mailbox are the programs' again.          *)
ini_mbx(b) ==
  /\ TskCtxUnl
  /\ k' = DispatchIf(init_wait_queue(k, b))
  /\ mbx' = [mbx EXCEPT ![b].pk_head = NULL]
  /\ LET c == Messages(mbx[b].pk_head, pk_next)
     IN pk_next' = [m \in Msgs |-> IF Linked(c, m) THEN NULL ELSE pk_next[m]]
  /\ Nothing

MbxServices(b) ==
  \/ \E m \in Msgs : Owned(m) /\ snd_mbx(b, m)
  \/ rcv_mbx(b) \/ prcv_mbx(b)
  \/ \E tmout \in Timeout : trcv_mbx(b, tmout)
  \/ ini_mbx(b)

-----------------------------------------------------------------------------
(* The list ends, with the message pk_last points to where that is used.   *)
MbxOK(b) ==
  LET c == Messages(mbx[b].pk_head, pk_next)
  IN /\ Unique(c)
     /\ c # <<>> => /\ pk_next[Last(c)] = NULL
                    /\ b \notin TA_MPRI => mbx[b].pk_last = Last(c)
=============================================================================
