------------------------------ MODULE TimeEvent ------------------------------
(***************************************************************************)
(* kernel/time_event.c and time_event.h: the heap of time events, whose    *)
(* times are of a type that wraps around, and the time tick that takes the *)
(* due ones out; with the cyclic handlers of kernel/cyclic.c, which set    *)
(* their event again from within the tick.                                 *)
(***************************************************************************)
EXTENDS Integers, Sequences, Functions, TLC

CONSTANTS
  OneShot,      \* events set for a relative time: timeouts, delays, alarms
  Cyclic,       \* the cyclic handlers
  cyctim,       \* CYCINIB.cyctim: the cycle of each
  cycphs,       \* CYCINIB.cycphs: its phase
  TA_STA,       \* the cyclic handlers that the initialization starts, in order
  TMAX_RELTIM,  \* the longest relative time
  EVTTIM_MOD,   \* the number of values of EVTTIM, 2^32 in the code
  TIC_NUME, TIC_DENO  \* a time tick is TIC_NUME / TIC_DENO milliseconds

Events == OneShot \cup Cyclic
RelTimes == 0 .. TMAX_RELTIM

(* EVTTIM "has to express a wider range than RELTIM": wider by the two     *)
(* ticks that an event can be away from min_time when it is set.           *)
ASSUME TimeEventAssumption ==
  /\ OneShot \cap Cyclic = {}
  /\ TMAX_RELTIM \in Nat
  /\ TIC_NUME \in Nat \ {0} /\ TIC_DENO \in Nat \ {0}
  /\ EVTTIM_MOD \in Nat
  /\ EVTTIM_MOD > TMAX_RELTIM + 2 * (TIC_NUME \div TIC_DENO + 1) + 1
  /\ cyctim \in [Cyclic -> RelTimes \ {0}]
  /\ cycphs \in [Cyclic -> RelTimes]
  /\ TA_STA \in Seq(Cyclic) /\ IsInjective(TA_STA)

(* h.heap: the nodes in use, tmevt_heap[0 .. last_index - 1]; h.index:     *)
(* TMEVTB.index of each event, 0 when its block is not in use; ticking:    *)
(* signal_time is in its loop.                                             *)
VARIABLES h, current_time, min_time, next_time, next_subtime, ticking

clocks == <<current_time, min_time, next_time, next_subtime>>
vars == <<h, clocks, ticking>>

Wrap(x) == x % EVTTIM_MOD

EVTTIM_LT(x, y) == Wrap(x - min_time) < Wrap(y - min_time)
EVTTIM_LE(x, y) == Wrap(x - min_time) <= Wrap(y - min_time)

(* Mutant: does not round up.                                              *)
base_time_down == Wrap(next_time)

base_time == Wrap(next_time + (IF next_subtime > 0 THEN 1 ELSE 0))

-----------------------------------------------------------------------------
(* The heap.                                                               *)

PARENT(i) == i \div 2
LCHILD(i) == i * 2

Place(H, i, node) == [H EXCEPT !.heap[i] = node, !.index[node.ev] = i]

(* Nodes move down from the parent until time can be placed; the result is *)
(* where, and the heap with the nodes moved.                               *)
tmevt_up(H, index, time) ==
  LET up[i \in 1 .. index] ==
        IF i = 1 \/ EVTTIM_LE(H.heap[PARENT(i)].time, time)
        THEN [at |-> i, h |-> H]
        ELSE LET r == up[PARENT(i)]
             IN [r EXCEPT !.h = Place(@, i, H.heap[PARENT(i)])]
  IN up[index]

(* Nodes move up from the earlier child.                                   *)
tmevt_down(H, index, time, last_index) ==
  LET Child(i) == IF /\ LCHILD(i) + 1 <= last_index
                     /\ EVTTIM_LT(H.heap[LCHILD(i) + 1].time,
                                  H.heap[LCHILD(i)].time)
                  THEN LCHILD(i) + 1 ELSE LCHILD(i)
      down[i \in Nat \ {0}] ==
        IF \/ LCHILD(i) > last_index
           \/ EVTTIM_LE(time, H.heap[Child(i)].time)
        THEN [at |-> i, h |-> H]
        ELSE LET r == down[Child(i)]
             IN [r EXCEPT !.h = Place(@, i, H.heap[Child(i)])]
  IN down[index]

tmevtb_insert(H, e, time) ==
  LET node == [time |-> time, ev |-> e]
      L == [H EXCEPT !.heap = Append(@, node)]
      r == tmevt_up(L, Len(L.heap), time)
  IN Place(r.h, r.at, node)

(* The node at the end of the heap fills the gap left at index.            *)
Fill(H, r, node) ==
  LET P == Place(r.h, r.at, node)
  IN [P EXCEPT !.heap = SubSeq(@, 1, Len(H.heap) - 1)]

Unset(H, e) == [H EXCEPT !.index[e] = 0]

(* Mutant: the node that fills the gap only moves down.                    *)
tmevtb_delete_down(H, e) ==
  LET last == Len(H.heap)
      end == H.heap[last]
      r == tmevt_down(H, H.index[e], end.time, last - 1)
  IN Unset(IF last = 1 THEN [H EXCEPT !.heap = <<>>] ELSE Fill(H, r, end), e)

tmevtb_delete(H, e) ==
  LET last == Len(H.heap)
      end == H.heap[last]
      index == H.index[e]
      parent == PARENT(index)
      r == IF index > 1 /\ EVTTIM_LT(end.time, H.heap[parent].time)
           THEN tmevt_up(Place(H, index, H.heap[parent]), parent, end.time)
           ELSE tmevt_down(H, index, end.time, last - 1)
  IN Unset(IF last = 1 THEN [H EXCEPT !.heap = <<>>] ELSE Fill(H, r, end), e)

tmevtb_delete_top(H) ==
  LET last == Len(H.heap)
      end == H.heap[last]
      r == tmevt_down(H, 1, end.time, last - 1)
  IN Unset(IF last = 1 THEN [H EXCEPT !.heap = <<>>] ELSE Fill(H, r, end),
           H.heap[1].ev)

(* Mutant: counts from the coming tick without rounding.                   *)
tmevt_lefttim_next(e) ==
  LET time == h.heap[h.index[e]].time
  IN IF EVTTIM_LE(time, next_time) THEN 0 ELSE Wrap(time - next_time)

tmevt_lefttim(e) ==
  LET time == h.heap[h.index[e]].time
  IN IF EVTTIM_LE(time, next_time) THEN 0 ELSE Wrap(time - base_time)

-----------------------------------------------------------------------------
(* The events of the users of the heap; cycsta and almsta say, as index    *)
(* does here, that the block is in the heap.                               *)

IsSet(e) == h.index[e] # 0

(* tmevtb_enqueue, for a timeout or a delay.                               *)
tmevtb_enqueue(e, reltim) ==
  /\ ~IsSet(e)
  /\ h' = tmevtb_insert(h, e, Wrap(base_time + reltim))
  /\ UNCHANGED <<clocks, ticking>>

tmevtb_dequeue(e) ==
  /\ IsSet(e)
  /\ h' = tmevtb_delete(h, e)
  /\ UNCHANGED <<clocks, ticking>>

(* sta_alm on a running alarm, and sta_cyc: set anew.                      *)
Reset(e, time) ==
  /\ h' = tmevtb_insert(IF IsSet(e) THEN tmevtb_delete(h, e) ELSE h, e, time)
  /\ UNCHANGED <<clocks, ticking>>

sta_alm(e, almtim) == Reset(e, Wrap(base_time + almtim))
sta_cyc(e) == Reset(e, Wrap(base_time + cycphs[e]))

-----------------------------------------------------------------------------
(* The time tick: what signal_time does before its loop, in an iteration,  *)
(* and after it.  A cyclic handler sets its next event, one cycle after    *)
(* the time this one was set for.                                          *)

(* Mutant: next_subtime is not reduced when it is carried over.            *)
signal_time_begin_no_carry ==
  LET sub == next_subtime + (TIC_NUME % TIC_DENO)
      time == next_time + (TIC_NUME \div TIC_DENO)
  IN /\ ~ticking /\ ticking' = TRUE
     /\ current_time' = next_time
     /\ next_subtime' = sub
     /\ next_time' = Wrap(IF sub >= TIC_DENO THEN time + 1 ELSE time)
     /\ UNCHANGED <<h, min_time>>

signal_time_begin ==
  LET sub == next_subtime + (TIC_NUME % TIC_DENO)
      time == next_time + (TIC_NUME \div TIC_DENO)
  IN /\ ~ticking /\ ticking' = TRUE
     /\ current_time' = next_time
     /\ next_subtime' = IF sub >= TIC_DENO THEN sub - TIC_DENO ELSE sub
     /\ next_time' = Wrap(IF sub >= TIC_DENO THEN time + 1 ELSE time)
     /\ UNCHANGED <<h, min_time>>

TopDue == h.heap # <<>> /\ EVTTIM_LE(h.heap[1].time, current_time)

signal_time_event ==
  /\ ticking
  /\ TopDue
  /\ LET top == h.heap[1]
         D == tmevtb_delete_top(h)
     IN h' = IF top.ev \in Cyclic
             THEN tmevtb_insert(D, top.ev, Wrap(top.time + cyctim[top.ev]))
             ELSE D
  /\ UNCHANGED <<clocks, ticking>>

signal_time_end ==
  /\ ticking /\ ticking' = FALSE
  /\ ~TopDue
  /\ min_time' = current_time
  /\ UNCHANGED <<h, current_time, next_time, next_subtime>>

-----------------------------------------------------------------------------
(* initialize_tmevt and initialize_cyclic.                                 *)
Init ==
  /\ current_time = 0 /\ min_time = 0 /\ ticking = FALSE
  /\ next_time = TIC_NUME \div TIC_DENO
  /\ next_subtime = TIC_NUME % TIC_DENO
  /\ h = LET Empty == [heap |-> <<>>, index |-> [e \in Events |-> 0]]
             started[i \in 0 .. Len(TA_STA)] ==
               IF i = 0 THEN Empty
               ELSE tmevtb_insert(started[i - 1], TA_STA[i], cycphs[TA_STA[i]])
         IN started[Len(TA_STA)]

Users ==
  \/ \E e \in OneShot, r \in RelTimes : tmevtb_enqueue(e, r) \/ sta_alm(e, r)
  \/ \E e \in Events : tmevtb_dequeue(e)
  \/ \E e \in Cyclic : sta_cyc(e)

Tick == signal_time_begin \/ signal_time_event \/ signal_time_end

Next == Users \/ Tick

Spec == Init /\ [][Next]_vars

-----------------------------------------------------------------------------
(* Every variable has its type.                                            *)
TypeOK ==
  /\ h.heap \in Seq([time : 0 .. EVTTIM_MOD - 1, ev : Events])
  /\ h.index \in [Events -> Nat]
  /\ {current_time, min_time, next_time} \subseteq 0 .. EVTTIM_MOD - 1
  /\ next_subtime \in 0 .. TIC_DENO - 1
  /\ ticking \in BOOLEAN

(* The heap is one, in the order of the time since min_time, whatever was  *)
(* deleted from the middle of it and wherever the times wrapped around;    *)
(* each block knows its node (tmevtb_delete trusts it blindly).            *)
HeapOK ==
  /\ \A i \in 2 .. Len(h.heap) :
       EVTTIM_LE(h.heap[PARENT(i)].time, h.heap[i].time)
  /\ \A i \in 1 .. Len(h.heap) : h.index[h.heap[i].ev] = i
  /\ \A e \in Events : IsSet(e) => /\ h.index[e] <= Len(h.heap)
                                   /\ h.heap[h.index[e]].ev = e

(* Exact time, in units of 1/TIC_DENO ms since the last tick, that a node  *)
(* is away.  min_time is current_time, or the tick before in a tick.       *)
TimeLeft(node) ==
  LET ms == Wrap(node.time - min_time) - Wrap(current_time - min_time)
  IN (ms * TIC_DENO) - ((next_subtime - TIC_NUME) % TIC_DENO)

(* tmevt_lefttim, what ref_cyc and ref_alm report, is neither more than    *)
(* what is left nor less by a millisecond, seen from the next tick.        *)
LefttimOK ==
  \A e \in Events :
    IsSet(e) =>
      LET exact == TimeLeft(h.heap[h.index[e]]) - TIC_NUME
          told == tmevt_lefttim(e) * TIC_DENO
      IN exact > 0 => told <= exact /\ exact < told + TIC_DENO

(* The heap with its wrapping times, its base time rounded up and its tick *)
(* in fractions of a millisecond keeps the promise of TimerQueue.          *)
Queue == INSTANCE TimerQueue WITH
           left <- [e \in {x \in Events : IsSet(x)} |->
                      TimeLeft(h.heap[h.index[e]])]

KeepsTime == Queue!Spec
=============================================================================
