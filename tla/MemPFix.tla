------------------------------- MODULE MemPFix -------------------------------
(***************************************************************************)
(* kernel/mempfix.c: a pool of memory blocks.  rel_mpf tests its argument  *)
(* before it locks the CPU, so it is two steps here: others may run in     *)
(* between.                                                                *)
(***************************************************************************)
EXTENDS WaitObject

CONSTANTS
  Mpfs,     \* the pools; a pool is named like its wait queue
  blkcnt    \* MPFINIB.blkcnt: the number of blocks

ASSUME MemPFixAssumption ==
  /\ Mpfs \subseteq WaitQueues
  /\ blkcnt \in [Mpfs -> Nat \ {0}]
  /\ \A m \in Mpfs : \A blk \in 0 .. blkcnt[m] - 1 :
       NULL # blk /\ NULL # <<m, blk>>

INDEX_NULL == -1   \* the end of the free list
INDEX_ALLOC == -2  \* in p_mpfmb: the block is allocated

VARIABLES
  mpf,     \* the control block and the management area p_mpfmb of each pool
  relblk   \* the block, with its pool, that a task is about to release

mpfvars == <<mpf, relblk>>

initialize_mempfix ==
  /\ mpf = [m \in Mpfs |-> [fblkcnt |-> blkcnt[m], unused |-> 0,
                            freelist |-> INDEX_NULL,
                            next |-> [i \in 0 .. blkcnt[m] - 1 |-> INDEX_NULL]]]
  /\ relblk = [t \in Tasks |-> NULL]

get_mpf_block(P) ==
  LET blkidx == IF P.freelist # INDEX_NULL THEN P.freelist ELSE P.unused
      Q == IF P.freelist # INDEX_NULL
           THEN [P EXCEPT !.freelist = P.next[@]]
           ELSE [P EXCEPT !.unused = @ + 1]
  IN [blk |-> blkidx,
      P |-> [Q EXCEPT !.fblkcnt = @ - 1, !.next[blkidx] = INDEX_ALLOC]]

(* A task that is in the middle of rel_mpf calls nothing else.             *)
Releasing == k.runtsk # NULL /\ relblk[k.runtsk] # NULL

Get(m) ==
  /\ mpf[m].fblkcnt > 0
  /\ UNCHANGED <<k, relblk>>
  /\ LET g == get_mpf_block(mpf[m])
     IN mpf' = [mpf EXCEPT ![m] = g.P] /\ Return(g.blk)

pget_mpf(m) == TskCtxUnl /\ Get(m)

tget_mpf(m, tmout) ==
  /\ CanDispatch
  /\ \/ Get(m)
     \/ /\ mpf[m].fblkcnt = 0
        /\ WaitFor("WAIT_MPF", m, tmout, NULL)
        /\ UNCHANGED mpfvars

get_mpf(m) == tget_mpf(m, TMO_FEVR)

(* The programs do not release a block twice at the same time.             *)
NotReleased(m, blk) == \A t \in Tasks : relblk[t] # <<m, blk>>

(* The checks of rel_mpf.                                                  *)
rel_mpf_check(m, blk) ==
  /\ TskCtxUnl
  /\ blk < mpf[m].unused
  /\ mpf[m].next[blk] = INDEX_ALLOC
  /\ relblk' = [relblk EXCEPT ![k.runtsk] = <<m, blk>>]
  /\ UNCHANGED <<k, mpf>> /\ Nothing

(* The rest of rel_mpf, with the CPU locked.                               *)
rel_mpf(m, blk) ==
  /\ TskCtxUnl
  /\ relblk[k.runtsk] = <<m, blk>>
  /\ relblk' = [relblk EXCEPT ![k.runtsk] = NULL]
  /\ \/ /\ ~queue_empty(k.waitq[m])
        /\ k' = DispatchIf(CompleteFirst(k, m))
        /\ Hand(Head(k.waitq[m]), blk)
        /\ UNCHANGED mpf
     \/ /\ queue_empty(k.waitq[m])
        /\ mpf' = [mpf EXCEPT ![m].fblkcnt = @ + 1,
                              ![m].next[blk] = mpf[m].freelist,
                              ![m].freelist = blk]
        /\ UNCHANGED k /\ Nothing

(* Every block is free: the programs have none, and release none.          *)
ini_mpf(m) ==
  /\ TskCtxUnl
  /\ k' = DispatchIf(init_wait_queue(k, m))
  /\ mpf' = [mpf EXCEPT ![m].fblkcnt = blkcnt[m], ![m].unused = 0,
                        ![m].freelist = INDEX_NULL]
  /\ Nothing /\ UNCHANGED relblk

NoRelease(m) == \A t \in Tasks : relblk[t] # NULL => relblk[t][1] # m

MpfServices(m) ==
  \/ ~Releasing /\ \/ get_mpf(m) \/ pget_mpf(m)
                   \/ \E tmout \in Timeout : tget_mpf(m, tmout)
                   \/ NoRelease(m) /\ ini_mpf(m)
  \/ \E blk \in 0 .. blkcnt[m] - 1 :
       \/ ~Releasing /\ NotReleased(m, blk) /\ rel_mpf_check(m, blk)
       \/ rel_mpf(m, blk)

-----------------------------------------------------------------------------
(* Every block is allocated, in the free list, or unused, in one of the    *)
(* three, and fblkcnt is the number of those that are not allocated.  What *)
(* rel_mpf has tested without the CPU lock still holds when it has it.     *)
MpfOK(m) ==
  LET P == mpf[m]
      N == [i \in DOMAIN P.next |->
              IF P.next[i] = INDEX_NULL THEN NULL ELSE P.next[i]]
      free == Chain(IF P.freelist = INDEX_NULL THEN NULL ELSE P.freelist,
                    N, blkcnt[m])
  IN /\ Unique(free)
     /\ ToSet(free) = {i \in 0 .. P.unused - 1 : P.next[i] # INDEX_ALLOC}
     /\ P.fblkcnt = Len(free) + blkcnt[m] - P.unused
     /\ \A t \in Tasks, blk \in 0 .. blkcnt[m] - 1 :
          relblk[t] = <<m, blk>> =>
            blk < P.unused /\ P.next[blk] = INDEX_ALLOC
=============================================================================
